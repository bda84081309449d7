----------------------------- MODULE WhatsappOutbound -----------------------------
(***************************************************************************)
(* Template messages to a requester over WhatsApp (whatsapp/views.py and   *)
(* services.py).  A send is recorded as pending, handed to the provider    *)
(* outside any transaction, and its result recorded in both the channel's  *)
(* row and the ticket's message.  The provider reports what becomes of a   *)
(* message in signed batches that come late, twice and in any order.       *)
(***************************************************************************)
EXTENDS Naturals, Sequences, FiniteSets

CONSTANTS
  Messages,    \* sends, each by a request of its own
  Ids,         \* provider message ids
  MaxTime,     \* seconds of the provider's clock
  MaxReports,  \* bound of the provider's reports
  None

(* _META_DELIVERY_RANK *)
Rank == [pending |-> 0, sent |-> 1, failed |-> 2, delivered |-> 3, read |-> 4]
ChannelRow == [status : DOMAIN Rank, id : Ids \union {None}, time : 0 .. MaxTime]
MirrorRow == [status : DOMAIN Rank, id : Ids \union {None}]

ASSUME ChannelAssumption ==
  /\ MaxTime \in Nat \ {0}
  /\ None \notin Ids \union ChannelRow \union MirrorRow

Reportable == {"sent", "failed", "delivered", "read"}

VARIABLES
  channel,      \* WhatsappMessage of each send: status, id, time of the last report
  mirror,       \* its TicketMessage: status and id, None before there is one
  request,      \* where the request is, and the provider's answer to it
  responded,    \* the ticket has its first response
  active,       \* the account is active
  accepted,     \* the id under which the provider has each message
  reports,      \* history: the provider's reports
  outstanding,  \* reports it has no confirmation for and delivers again
  stale         \* history: reports that became too old to be accepted

rowVars == <<channel, mirror, responded>>
providerVars == <<accepted, reports, outstanding, stale>>
whatsappVars == <<rowVars, request, active, providerVars>>

Report == [id : Ids, status : Reportable, time : 1 .. MaxTime]
Answer(status, id) == [status |-> status, id |-> id]
NoAnswer == Answer("none", None)

WhatsappInit ==
  /\ channel = [m \in Messages |-> None]
  /\ mirror = [m \in Messages |-> None]
  /\ request = [m \in Messages |-> [step |-> "start", answer |-> NoAnswer]]
  /\ responded = FALSE
  /\ active = TRUE
  /\ accepted = [m \in Messages |-> None]
  /\ reports = {} /\ outstanding = {} /\ stale = {}

At(m, step) == request[m].step = step
Goto(m, step, answer) == request' = [request EXCEPT ![m] = [step |-> step, answer |-> answer]]

-----------------------------------------------------------------------------
(* A request.                                                               *)

(* The ticket is in scope, the requester consents and has a number, there   *)
(* is an account for the domain.                                            *)
PersistDiscoveryAttempt(m) ==
  /\ At(m, "start")
  /\ active
  /\ channel' = [channel EXCEPT ![m] = [status |-> "pending", id |-> None, time |-> 0]]
  /\ Goto(m, "discovery", NoAnswer)
  /\ UNCHANGED <<mirror, responded, active, providerVars>>

(* No template can be had: a failure that may pass leaves the row pending;  *)
(* one that does not, or a template that is not approved or does not fit    *)
(* its parameters, makes it failed.                                         *)
MarkDiscoveryAttempt(m, retryable) ==
  /\ At(m, "discovery")
  /\ channel' = [channel EXCEPT ![m].status = IF retryable THEN "pending" ELSE "failed"]
  /\ Goto(m, "done", NoAnswer)
  /\ UNCHANGED <<mirror, responded, active, providerVars>>

(* Mutant: the message is written before the attempt.                       *)
PersistPendingOutbound_First(m) ==
  /\ At(m, "start")
  /\ mirror' = [mirror EXCEPT ![m] = [status |-> "pending", id |-> None]]
  /\ Goto(m, "ready", NoAnswer)
  /\ UNCHANGED <<channel, responded, active, providerVars>>

(* The ticket's message is added, under the lock of the ticket.             *)
PersistPendingOutbound(m) ==
  /\ At(m, "discovery")
  /\ mirror' = [mirror EXCEPT ![m] = [status |-> "pending", id |-> None]]
  /\ Goto(m, "ready", NoAnswer)
  /\ UNCHANGED <<channel, responded, active, providerVars>>

(* Outside any transaction.  The provider gives a message an id of its own; *)
(* the mock provider gives equal messages equal ids.                        *)
ProviderAccepts(m, id) ==
  /\ At(m, "ready")
  /\ accepted' = [accepted EXCEPT ![m] = id]
  /\ Goto(m, "accepted", NoAnswer)
  /\ UNCHANGED <<rowVars, active, reports, outstanding, stale>>

ProviderRefuses(m) ==
  /\ At(m, "ready")
  /\ Goto(m, "answered", Answer("failed", None))
  /\ UNCHANGED <<rowVars, active, providerVars>>

(* The answer comes, or the request has timed out and counts as failed.     *)
SendTemplateReturns(m, lost) ==
  /\ At(m, "accepted")
  /\ Goto(m, "answered", IF lost THEN Answer("failed", None) ELSE Answer("sent", accepted[m]))
  /\ UNCHANGED <<rowVars, active, providerVars>>

(* Mutant: whatever the answer, the message counts as sent.                 *)
FinalizeOutbound_AnyAnswer(m) ==
  /\ At(m, "answered")
  /\ channel' = [channel EXCEPT ![m].status = "sent", ![m].id = request[m].answer.id]
  /\ mirror' = [mirror EXCEPT ![m] = [status |-> "sent", id |-> request[m].answer.id]]
  /\ responded' = TRUE
  /\ Goto(m, "done", NoAnswer)
  /\ UNCHANGED <<active, providerVars>>

Linked(id) == \E m \in Messages : channel[m] # None /\ channel[m].id = id

(* Both rows and the first response in one transaction.                     *)
FinalizeOutbound(m) ==
  LET answer == request[m].answer IN
  /\ At(m, "answered")
  /\ answer.id = None \/ ~Linked(answer.id)
  /\ channel' = [channel EXCEPT ![m].status = answer.status, ![m].id = answer.id]
  /\ mirror' = [mirror EXCEPT ![m] = [status |-> answer.status, id |-> answer.id]]
  /\ responded' = (responded \/ answer.status = "sent")
  /\ Goto(m, "done", NoAnswer)
  /\ UNCHANGED <<active, providerVars>>

(* The unique id is taken: nothing is recorded and the row stays pending.   *)
DuplicateProviderMessage(m) ==
  /\ At(m, "answered")
  /\ request[m].answer.id # None
  /\ Linked(request[m].answer.id)
  /\ Goto(m, "done", NoAnswer)
  /\ UNCHANGED <<rowVars, active, providerVars>>

(* The process dies between two transactions; nobody takes the send up.     *)
RequestCrash(m) ==
  /\ request[m].step \in {"discovery", "ready", "accepted", "answered"}
  /\ Goto(m, "done", NoAnswer)
  /\ UNCHANGED <<rowVars, active, providerVars>>

-----------------------------------------------------------------------------
(* The provider and its reports.                                            *)

RankOf(r) == Rank[r.status]

(* A message goes on to a status of higher rank, or the status is repeated  *)
(* with a later time; the provider's clock does not go back.                *)
ProviderReports(id, status, time) ==
  LET r == [id |-> id, status |-> status, time |-> time] IN
  /\ Cardinality(reports) < MaxReports
  /\ \E m \in Messages : accepted[m] = id
  /\ \A p \in reports : p.id = id =>
       /\ p.time <= time
       /\ RankOf(p) < Rank[status] \/ (p.status = status /\ p.time < time)
  /\ reports' = reports \union {r}
  /\ outstanding' = outstanding \union {r}
  /\ UNCHANGED <<rowVars, request, active, accepted, stale>>

(* Reports older than CHANNEL_WEBHOOK_MAX_AGE_SECONDS are refused, with the *)
(* whole batch, however often they are delivered.                           *)
BecomeStale(r) ==
  /\ r \in outstanding
  /\ outstanding' = outstanding \ {r}
  /\ stale' = stale \union {r}
  /\ UNCHANGED <<rowVars, request, active, accepted, reports>>

SetAccountActive ==
  /\ active' = ~active
  /\ UNCHANGED <<rowVars, request, providerVars>>

(* Mutant: reports are ordered by their time alone.                         *)
IsNews_ByTime(row, r) ==
  /\ row.time <= r.time
  /\ row.status # r.status

(* A report of a lower rank or an earlier time is ignored, a repeated one   *)
(* only moves the time.                                                     *)
IsNews(row, r) ==
  /\ row.time <= r.time
  /\ Rank[row.status] <= RankOf(r)
  /\ row.status # r.status

Repeats(row, r) == row.status = r.status /\ row.time < r.time

(* Mutant: the ticket's message keeps its status.                           *)
RecordMetaDeliveryStatus_ChannelOnly(rows, r) ==
  [rows EXCEPT !.channel = [m \in Messages |->
     IF rows.channel[m] = None \/ rows.channel[m].id # r.id THEN rows.channel[m]
     ELSE IF IsNews(rows.channel[m], r)
       THEN [rows.channel[m] EXCEPT !.status = r.status, !.time = r.time]
     ELSE rows.channel[m]]]

RecordMetaDeliveryStatus(rows, r) ==
  LET about(m) == rows.channel[m] # None /\ rows.channel[m].id = r.id
      news(m) == about(m) /\ IsNews(rows.channel[m], r) IN
  [channel |-> [m \in Messages |->
     IF news(m) THEN [rows.channel[m] EXCEPT !.status = r.status, !.time = r.time]
     ELSE IF about(m) /\ Repeats(rows.channel[m], r)
       THEN [rows.channel[m] EXCEPT !.time = r.time]
     ELSE rows.channel[m]],
   mirror |-> [m \in Messages |->
     IF \E n \in Messages : news(n) /\ rows.mirror[m] # None /\ rows.mirror[m].id = r.id
       THEN [rows.mirror[m] EXCEPT !.status = r.status]
       ELSE rows.mirror[m]]]

ReportsOf(batch) == {batch[i] : i \in DOMAIN batch}

(* Mutant: a batch with an unknown message is confirmed like any other.     *)
Confirmed_Always(batch) == ReportsOf(batch)

(* Only a batch without unknown messages is confirmed; 503 asks for more.   *)
Confirmed(batch) == IF \A r \in ReportsOf(batch) : Linked(r.id) THEN ReportsOf(batch) ELSE {}

(* The reports of a batch, of one or two here, in their order.              *)
RecordBatch(rows, batch) ==
  LET first == RecordMetaDeliveryStatus(rows, batch[1]) IN
  IF Len(batch) = 1 THEN first ELSE RecordMetaDeliveryStatus(first, batch[2])

(* A signed batch is validated as a whole, then its reports are recorded in *)
(* one transaction.  The confirmation may be lost.                          *)
InboundWebhook(batch, answerLost) ==
  LET rows == RecordBatch([channel |-> channel, mirror |-> mirror], batch) IN
  /\ active
  /\ ReportsOf(batch) \subseteq outstanding
  /\ channel' = rows.channel
  /\ mirror' = rows.mirror
  /\ outstanding' = outstanding \ (IF answerLost THEN {} ELSE Confirmed(batch))
  /\ UNCHANGED <<responded, request, active, accepted, reports, stale>>

Batches == {<<r>> : r \in outstanding} \union
           {<<p[1], p[2]>> : p \in {q \in outstanding \X outstanding : q[1] # q[2]}}

-----------------------------------------------------------------------------
RequestStep(m) ==
  \/ PersistDiscoveryAttempt(m)
  \/ \E retryable \in BOOLEAN : MarkDiscoveryAttempt(m, retryable)
  \/ PersistPendingOutbound(m)
  \/ \E id \in Ids : ProviderAccepts(m, id)
  \/ ProviderRefuses(m)
  \/ \E lost \in BOOLEAN : SendTemplateReturns(m, lost)
  \/ FinalizeOutbound(m) \/ DuplicateProviderMessage(m) \/ RequestCrash(m)

WhatsappNext ==
  \/ \E m \in Messages : RequestStep(m)
  \/ \E id \in Ids, status \in Reportable, time \in 1 .. MaxTime :
       ProviderReports(id, status, time)
  \/ \E r \in outstanding : BecomeStale(r)
  \/ SetAccountActive
  \/ \E batch \in Batches, answerLost \in BOOLEAN : InboundWebhook(batch, answerLost)

WhatsappSpec == WhatsappInit /\ [][WhatsappNext]_whatsappVars

(* The provider delivers again what is not confirmed; a confirmed report    *)
(* leaves its queue, so sooner or later each one has its turn.  An account  *)
(* is not switched off for good while reports about it are expected.        *)
FairWhatsappSpec ==
  /\ WhatsappSpec
  /\ WF_whatsappVars(~active /\ SetAccountActive)
  /\ SF_whatsappVars(\E r \in outstanding : Linked(r.id) /\ InboundWebhook(<<r>>, FALSE))

-----------------------------------------------------------------------------
(* What the channel promises.                                               *)

WhatsappTypeOK ==
  /\ channel \in [Messages -> ChannelRow \union {None}]
  /\ mirror \in [Messages -> MirrorRow \union {None}]
  /\ \A m \in Messages : channel[m] = None => mirror[m] = None
  /\ request \in [Messages -> [step : {"start", "discovery", "ready", "accepted", "answered", "done"},
                               answer : [status : {"none", "sent", "failed"}, id : Ids \union {None}]]]
  /\ accepted \in [Messages -> Ids \union {None}]
  /\ responded \in BOOLEAN /\ active \in BOOLEAN
  /\ reports \subseteq Report
  /\ outstanding \subseteq reports
  /\ stale \subseteq reports \ outstanding

(* The ticket's message tells what the channel's row tells, whichever of    *)
(* the request and the reports wrote last.                                  *)
MirrorAgrees ==
  \A m \in Messages : mirror[m] # None =>
    mirror[m] = [status |-> channel[m].status, id |-> channel[m].id]

(* No message is recorded as sent, delivered or read, and no ticket as      *)
(* answered, unless the provider has accepted that very message and, for    *)
(* more than sent, has reported so.                                         *)
RecordIsTrue ==
  /\ \A m \in Messages : channel[m] # None =>
       /\ channel[m].status \in {"sent", "delivered", "read"} =>
            channel[m].id # None /\ channel[m].id = accepted[m]
       /\ channel[m].status \in {"delivered", "read"} =>
            \E r \in reports : r.id = channel[m].id /\ r.status = channel[m].status
  /\ responded => \E m \in Messages : accepted[m] # None

(* The status of a message never goes back, in whatever order the reports   *)
(* arrive.                                                                  *)
StatusNeverRegresses ==
  [][\A m \in Messages : channel[m] # None =>
       Rank[channel'[m].status] >= Rank[channel[m].status]]_whatsappVars

(* Every report about a message that has been linked to its id is recorded  *)
(* in the end, also one that came before the link, unless it grew too old.  *)
ReportsGetThrough ==
  <>[](\A r \in reports \ stale :
         Linked(r.id) => \E m \in Messages : /\ channel[m] # None
                                            /\ channel[m].id = r.id
                                            /\ Rank[channel[m].status] >= RankOf(r))
=============================================================================
