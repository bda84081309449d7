----------------------------- MODULE WhatsappProofs -----------------------------
(***************************************************************************)
(* Proofs about WhatsappOutbound, for any number of messages, ids, reports *)
(* and seconds.                                                            *)
(***************************************************************************)
EXTENDS WhatsappOutbound, TLAPS

-----------------------------------------------------------------------------
(* The invariant.                                                           *)

(* The two rows of every message; no id is linked to two of them, and none  *)
(* to a message the provider knows by another.                              *)
RowsOK(rows) ==
  /\ rows.channel \in [Messages -> ChannelRow \union {None}]
  /\ rows.mirror \in [Messages -> MirrorRow \union {None}]
  /\ \A m \in Messages : rows.mirror[m] # None =>
       /\ rows.channel[m] # None
       /\ rows.mirror[m].status = rows.channel[m].status
       /\ rows.mirror[m].id = rows.channel[m].id
  /\ \A m \in Messages : rows.channel[m] # None /\ rows.channel[m].id # None =>
       /\ rows.channel[m].id = accepted[m]
       /\ rows.mirror[m] # None
       /\ \A n \in Messages :
            rows.channel[n] # None /\ rows.channel[n].id = rows.channel[m].id => n = m
  /\ \A m \in Messages : rows.channel[m] # None =>
       /\ rows.channel[m].status \in {"sent", "delivered", "read"} => rows.channel[m].id # None
       /\ rows.channel[m].status \in {"delivered", "read"} =>
            \E r \in reports : r.id = rows.channel[m].id /\ r.status = rows.channel[m].status

RowsNow == [channel |-> channel, mirror |-> mirror]

(* What the rows of a message hold while its request is at work.            *)
RequestInv(m) ==
  /\ At(m, "start") => channel[m] = None /\ mirror[m] = None
  /\ At(m, "discovery") => channel[m] # None /\ mirror[m] = None
  /\ request[m].step \in {"ready", "accepted", "answered"} =>
       channel[m] # None /\ mirror[m] # None
  /\ request[m].step \in {"discovery", "ready", "accepted", "answered"} =>
       channel[m].id = None /\ channel[m].status = "pending"
  /\ At(m, "accepted") => accepted[m] # None
  /\ At(m, "answered") =>
       \/ request[m].answer = Answer("failed", None)
       \/ accepted[m] # None /\ request[m].answer = Answer("sent", accepted[m])

WInv ==
  /\ WhatsappTypeOK
  /\ RowsOK(RowsNow)
  /\ \A m \in Messages : RequestInv(m)
  /\ responded => \E m \in Messages : accepted[m] # None

-----------------------------------------------------------------------------
(* Reports.                                                                 *)

LEMMA Ranks ==
  /\ DOMAIN Rank = {"pending", "sent", "failed", "delivered", "read"}
  /\ \A s \in DOMAIN Rank : Rank[s] \in Nat
  /\ Rank["pending"] = 0
  /\ \A s \in Reportable : s \in DOMAIN Rank /\ Rank[s] > 0
BY DEF Rank, Reportable

LEMMA RowTypes ==
  /\ \A c \in ChannelRow : /\ c.status \in DOMAIN Rank /\ c.id \in Ids \union {None}
                           /\ c.time \in 0 .. MaxTime /\ c # None
  /\ \A c \in MirrorRow : c.status \in DOMAIN Rank /\ c.id \in Ids \union {None} /\ c # None
  /\ \A r \in Report : r.id \in Ids /\ r.status \in Reportable /\ r.time \in 1 .. MaxTime
  /\ \A i \in Ids : i # None
BY ChannelAssumption DEF ChannelRow, MirrorRow, Report

(* What one report does to one message.                                     *)
LEMMA RecordOne ==
  ASSUME NEW rows, RowsOK(rows), NEW r \in Report, NEW m \in Messages
  PROVE  LET new == RecordMetaDeliveryStatus(rows, r) IN
         /\ new.channel[m] = None <=> rows.channel[m] = None
         /\ new.mirror[m] = None <=> rows.mirror[m] = None
         /\ new.channel[m] \in ChannelRow \union {None}
         /\ new.mirror[m] \in MirrorRow \union {None}
         /\ rows.channel[m] # None =>
              /\ new.channel[m].id = rows.channel[m].id
              /\ Rank[new.channel[m].status] >= Rank[rows.channel[m].status]
              /\ \/ new.channel[m].status = rows.channel[m].status
                 \/ new.channel[m].status = r.status /\ rows.channel[m].id = r.id
         /\ rows.mirror[m] # None =>
              /\ new.mirror[m].id = rows.mirror[m].id
              /\ new.mirror[m].status = new.channel[m].status
         /\ rows.channel[m] # None /\ rows.channel[m].id = None =>
              new.channel[m] = rows.channel[m]
<1> DEFINE c == rows.channel[m]
           about(k) == rows.channel[k] # None /\ rows.channel[k].id = r.id
           news(k) == about(k) /\ IsNews(rows.channel[k], r)
           moved == [c EXCEPT !.status = r.status, !.time = r.time]
           retimed == [c EXCEPT !.time = r.time]
           mc == RecordMetaDeliveryStatus(rows, r).channel[m]
           mm == RecordMetaDeliveryStatus(rows, r).mirror[m]
<1>1. mc = IF news(m) THEN moved ELSE IF about(m) /\ Repeats(c, r) THEN retimed ELSE c
  BY DEF RecordMetaDeliveryStatus
<1>2. mm = IF \E n \in Messages : news(n) /\ rows.mirror[m] # None /\ rows.mirror[m].id = r.id
             THEN [rows.mirror[m] EXCEPT !.status = r.status] ELSE rows.mirror[m]
  BY DEF RecordMetaDeliveryStatus
<1>3. /\ c \in ChannelRow \union {None}
      /\ rows.mirror[m] \in MirrorRow \union {None}
      /\ rows.mirror[m] # None =>
           c # None /\ rows.mirror[m].status = c.status /\ rows.mirror[m].id = c.id
      /\ \A n \in Messages : about(n) /\ about(m) => n = m
      /\ r.id # None /\ r.status \in DOMAIN Rank /\ r.time \in 0 .. MaxTime
  BY RowTypes, Ranks DEF RowsOK
<1>4. c # None =>
        /\ moved \in ChannelRow /\ moved.status = r.status /\ moved.id = c.id
        /\ retimed \in ChannelRow /\ retimed.status = c.status /\ retimed.id = c.id
  BY <1>3 DEF ChannelRow
<1>5. news(m) => Rank[r.status] >= Rank[c.status]
  BY <1>3, Ranks, RowTypes DEF IsNews, RankOf
<1>6. rows.mirror[m] # None =>
        /\ [rows.mirror[m] EXCEPT !.status = r.status] \in MirrorRow
        /\ [rows.mirror[m] EXCEPT !.status = r.status].status = r.status
        /\ [rows.mirror[m] EXCEPT !.status = r.status].id = rows.mirror[m].id
  BY <1>3 DEF MirrorRow
<1>7. rows.mirror[m] # None /\ rows.mirror[m].id = r.id =>
        about(m) /\ \A n \in Messages : news(n) => n = m
  BY <1>3
<1>8. c # None => Rank[c.status] >= Rank[c.status]
  BY <1>3, Ranks, RowTypes
<1> HIDE DEF moved, retimed, mc, mm, c
<1>9. /\ mc = None <=> c = None
      /\ mc \in ChannelRow \union {None}
      /\ c # None =>
           /\ mc.id = c.id
           /\ Rank[mc.status] >= Rank[c.status]
           /\ mc.status = c.status \/ (mc.status = r.status /\ c.id = r.id)
      /\ c # None /\ c.id = None => mc = c
  BY <1>1, <1>3, <1>4, <1>5, <1>8, RowTypes DEF c
<1>10. /\ mm = None <=> rows.mirror[m] = None
       /\ mm \in MirrorRow \union {None}
       /\ rows.mirror[m] # None => mm.id = rows.mirror[m].id /\ mm.status = mc.status
  <2>1. CASE news(m) /\ rows.mirror[m] # None
    BY <1>1, <1>2, <1>3, <1>4, <1>6, <2>1, RowTypes DEF c
  <2>2. CASE ~(news(m) /\ rows.mirror[m] # None)
    <3>1. mm = rows.mirror[m]
      BY <1>2, <1>7, <2>2
    <3>2. rows.mirror[m] # None => mc.status = c.status
      BY <1>1, <1>3, <1>4, <2>2
    <3> QED BY <1>3, <3>1, <3>2
  <2> QED BY <2>1, <2>2
<1> QED BY <1>9, <1>10 DEF mc, mm, c

LEMMA RecordType ==
  ASSUME NEW rows, NEW r
  PROVE  LET new == RecordMetaDeliveryStatus(rows, r) IN
         /\ new.channel = [m \in Messages |-> new.channel[m]]
         /\ new.mirror = [m \in Messages |-> new.mirror[m]]
BY DEF RecordMetaDeliveryStatus

(* A report the provider has sent keeps the rows as they should be.         *)
LEMMA RecordKeeps ==
  ASSUME NEW rows, RowsOK(rows), reports \subseteq Report, NEW r \in reports
  PROVE  RowsOK(RecordMetaDeliveryStatus(rows, r))
<1> DEFINE new == RecordMetaDeliveryStatus(rows, r)
<1>1. \A m \in Messages :
         /\ new.channel[m] = None <=> rows.channel[m] = None
         /\ new.mirror[m] = None <=> rows.mirror[m] = None
         /\ new.channel[m] \in ChannelRow \union {None}
         /\ new.mirror[m] \in MirrorRow \union {None}
         /\ rows.channel[m] # None =>
              /\ new.channel[m].id = rows.channel[m].id
              /\ \/ new.channel[m].status = rows.channel[m].status
                 \/ new.channel[m].status = r.status /\ rows.channel[m].id = r.id
         /\ rows.mirror[m] # None =>
              /\ new.mirror[m].id = rows.mirror[m].id
              /\ new.mirror[m].status = new.channel[m].status
  BY RecordOne
<1>2. /\ new.channel = [m \in Messages |-> new.channel[m]]
      /\ new.mirror = [m \in Messages |-> new.mirror[m]]
  BY RecordType
<1> HIDE DEF new
<1>3. /\ new.channel \in [Messages -> ChannelRow \union {None}]
      /\ new.mirror \in [Messages -> MirrorRow \union {None}]
  BY <1>1, <1>2
<1>4. r.id # None
  BY RowTypes
<1> QED BY <1>1, <1>3, <1>4 DEF RowsOK, new

(* A batch does what its reports do.                                        *)
LEMMA BatchKeeps ==
  ASSUME NEW rows, RowsOK(rows), reports \subseteq Report,
         NEW batch, batch[1] \in reports, Len(batch) # 1 => batch[2] \in reports
  PROVE  LET new == RecordBatch(rows, batch) IN
         /\ RowsOK(new)
         /\ \A m \in Messages :
              /\ new.channel[m] = None <=> rows.channel[m] = None
              /\ new.mirror[m] = None <=> rows.mirror[m] = None
              /\ rows.channel[m] # None =>
                   Rank[new.channel[m].status] >= Rank[rows.channel[m].status]
              /\ rows.channel[m] # None /\ rows.channel[m].id = None =>
                   new.channel[m] = rows.channel[m]
<1> DEFINE first == RecordMetaDeliveryStatus(rows, batch[1])
           second == RecordMetaDeliveryStatus(first, batch[2])
           Follows(old, new) ==
             \A m \in Messages :
               /\ new.channel[m] = None <=> old.channel[m] = None
               /\ new.mirror[m] = None <=> old.mirror[m] = None
               /\ old.channel[m] # None =>
                    Rank[new.channel[m].status] >= Rank[old.channel[m].status]
               /\ old.channel[m] # None /\ old.channel[m].id = None =>
                    new.channel[m] = old.channel[m]
<1>1. RowsOK(first) /\ Follows(rows, first)
  BY RecordKeeps, RecordOne
<1>2. CASE Len(batch) = 1
  BY <1>1, <1>2 DEF RecordBatch
<1>3. CASE Len(batch) # 1
  <2> HIDE DEF first
  <2>1. RowsOK(second) /\ Follows(first, second)
    BY <1>1, <1>3, RecordKeeps, RecordOne
  <2>2. second = RecordBatch(rows, batch)
    BY <1>3 DEF RecordBatch, first
  <2> HIDE DEF second
  <2>3. \A m \in Messages :
          /\ rows.channel[m] # None => Rank[rows.channel[m].status] \in Nat
          /\ first.channel[m] # None => Rank[first.channel[m].status] \in Nat
          /\ second.channel[m] # None => Rank[second.channel[m].status] \in Nat
    BY <1>1, <2>1, Ranks, RowTypes DEF RowsOK
  <2>4. Follows(rows, second)
    BY <1>1, <2>1, <2>3
  <2> QED BY <2>1, <2>2, <2>4
<1> QED BY <1>2, <1>3

-----------------------------------------------------------------------------
(* Every step preserves the invariant.                                      *)

LEMMA WInitInv == WhatsappInit => WInv
<1> SUFFICES ASSUME WhatsappInit PROVE WInv
  OBVIOUS
<1>1. WhatsappTypeOK
  BY DEF WhatsappInit, WhatsappTypeOK, NoAnswer, Answer
<1>2. \A m \in Messages : channel[m] = None /\ mirror[m] = None /\ request[m].step = "start"
  BY DEF WhatsappInit
<1>3. RowsOK(RowsNow)
  BY <1>1, <1>2 DEF WhatsappTypeOK, RowsOK, RowsNow
<1> QED BY <1>1, <1>2, <1>3 DEF WhatsappInit, WInv, RequestInv, At

(* A request's own steps change the rows of its message only.               *)
LEMMA OwnRows ==
  ASSUME WInv, NEW m \in Messages, NEW c \in ChannelRow, NEW i \in MirrorRow \union {None},
         channel' = [channel EXCEPT ![m] = c], mirror' = [mirror EXCEPT ![m] = i],
         UNCHANGED <<accepted, reports>>,
         i # None => i.status = c.status /\ i.id = c.id,
         c.id # None => i # None /\ c.id = accepted[m]
                          /\ \A n \in Messages : channel[n] # None => channel[n].id # c.id,
         c.status \in {"sent", "delivered", "read"} => c.status = "sent" /\ c.id # None
  PROVE  RowsOK(RowsNow)'
<1>1. channel \in [Messages -> ChannelRow \union {None}]
      /\ mirror \in [Messages -> MirrorRow \union {None}]
  BY DEF WInv, WhatsappTypeOK
<1>2. channel'[m] = c /\ mirror'[m] = i /\ \A n \in Messages \ {m} :
         channel'[n] = channel[n] /\ mirror'[n] = mirror[n]
  BY <1>1
<1>3. channel' \in [Messages -> ChannelRow \union {None}]
      /\ mirror' \in [Messages -> MirrorRow \union {None}]
  BY <1>1
<1>4. c # None /\ c.status \in DOMAIN Rank
  BY RowTypes
<1> DEFINE Row(n) ==
  /\ mirror[n] # None =>
       /\ channel[n] # None
       /\ mirror[n].status = channel[n].status
       /\ mirror[n].id = channel[n].id
  /\ channel[n] # None /\ channel[n].id # None =>
       /\ channel[n].id = accepted[n]
       /\ mirror[n] # None
       /\ \A k \in Messages :
            channel[k] # None /\ channel[k].id = channel[n].id => k = n
  /\ channel[n] # None =>
       /\ channel[n].status \in {"sent", "delivered", "read"} => channel[n].id # None
       /\ channel[n].status \in {"delivered", "read"} =>
            \E r \in reports : r.id = channel[n].id /\ r.status = channel[n].status
<1>5. \A n \in Messages : Row(n)
  BY DEF WInv, RowsOK, RowsNow
<1>6. Row(m)'
  BY <1>2, <1>4, <1>5
<1>7. ASSUME NEW n \in Messages \ {m}
      PROVE  Row(n)'
  <2>1. Row(n) /\ UNCHANGED <<channel[n], mirror[n], accepted[n], reports>>
    BY <1>2, <1>5
  <2>2. ASSUME NEW k \in Messages, channel'[n] # None, channel'[n].id # None,
               channel'[k] # None, channel'[k].id = channel'[n].id
        PROVE  k = n
    BY <1>2, <2>1, <2>2
  <2> QED BY <2>1, <2>2
<1>8. \A n \in Messages : Row(n)'
  BY <1>6, <1>7
<1> QED BY <1>3, <1>8 DEF RowsOK, RowsNow

LEMMA WNextInv == WInv /\ [WhatsappNext]_whatsappVars => WInv'
<1> SUFFICES ASSUME WInv, [WhatsappNext]_whatsappVars
             PROVE  WInv'
  OBVIOUS
<1> USE DEF At, Goto
<1>0. /\ WhatsappTypeOK /\ RowsOK(RowsNow) /\ \A m \in Messages : RequestInv(m)
      /\ responded => \E m \in Messages : accepted[m] # None
  BY DEF WInv
<1>a. \A s \in DOMAIN Rank : \A id \in Ids \union {None} :
        /\ [status |-> s, id |-> id, time |-> 0] \in ChannelRow
        /\ [status |-> s, id |-> id] \in MirrorRow
  BY ChannelAssumption DEF ChannelRow, MirrorRow
<1>1. ASSUME NEW m \in Messages, PersistDiscoveryAttempt(m)
      PROVE  WInv'
  <2> DEFINE c == [status |-> "pending", id |-> None, time |-> 0]
  <2>1. c \in ChannelRow /\ c # None /\ mirror[m] = None
    BY <1>0, <1>1, <1>a, Ranks, RowTypes DEF PersistDiscoveryAttempt, RequestInv
  <2>2. mirror' = [mirror EXCEPT ![m] = None]
    BY <1>0, <1>1, <2>1 DEF PersistDiscoveryAttempt, WhatsappTypeOK
  <2>3. RowsOK(RowsNow)'
    BY <1>1, <2>1, <2>2, OwnRows DEF PersistDiscoveryAttempt, providerVars
  <2>4. WhatsappTypeOK'
    BY <1>0, <1>1, <2>1 DEF PersistDiscoveryAttempt, WhatsappTypeOK, providerVars, NoAnswer, Answer
  <2>5. ASSUME NEW n \in Messages PROVE RequestInv(n)'
    BY <1>0, <1>1, <2>1 DEF PersistDiscoveryAttempt, WhatsappTypeOK, RequestInv, providerVars
  <2> QED BY <1>0, <1>1, <2>3, <2>4, <2>5 DEF WInv, PersistDiscoveryAttempt, providerVars
<1>2. ASSUME NEW m \in Messages, NEW retryable \in BOOLEAN, MarkDiscoveryAttempt(m, retryable)
      PROVE  WInv'
  <2> DEFINE s == IF retryable THEN "pending" ELSE "failed"
             c == [channel[m] EXCEPT !.status = s]
  <2>1. channel[m] \in ChannelRow /\ channel[m].id = None /\ mirror[m] = None
    BY <1>0, <1>2 DEF MarkDiscoveryAttempt, RequestInv, WhatsappTypeOK
  <2>2. c \in ChannelRow /\ c.id = None /\ c.status = s
    BY <2>1, Ranks DEF ChannelRow
  <2>3. channel' = [channel EXCEPT ![m] = c] /\ mirror' = [mirror EXCEPT ![m] = None]
    BY <1>0, <1>2, <2>1 DEF MarkDiscoveryAttempt, WhatsappTypeOK
  <2> HIDE DEF c
  <2>4. RowsOK(RowsNow)'
    BY <1>2, <2>2, <2>3, OwnRows DEF MarkDiscoveryAttempt, providerVars
  <2>5. WhatsappTypeOK'
    <3>1. channel' \in [Messages -> ChannelRow \union {None}] /\ mirror' = mirror
      BY <1>0, <2>1, <2>2, <2>3 DEF WhatsappTypeOK
    <3>2. \A n \in Messages : channel'[n] = None => mirror'[n] = None
      BY <1>0, <2>1, <2>3, <3>1 DEF WhatsappTypeOK
    <3> QED BY <1>0, <1>2, <3>1, <3>2
            DEF MarkDiscoveryAttempt, WhatsappTypeOK, providerVars, NoAnswer, Answer
  <2>6. ASSUME NEW n \in Messages PROVE RequestInv(n)'
    BY <1>0, <1>2, <2>3 DEF MarkDiscoveryAttempt, WhatsappTypeOK, RequestInv, providerVars
  <2> QED BY <1>0, <1>2, <2>4, <2>5, <2>6 DEF WInv, MarkDiscoveryAttempt, providerVars
<1>3. ASSUME NEW m \in Messages, PersistPendingOutbound(m)
      PROVE  WInv'
  <2> DEFINE i == [status |-> "pending", id |-> None]
  <2>1. channel[m] \in ChannelRow /\ channel[m].id = None /\ channel[m].status = "pending"
        /\ channel[m] # None
    BY <1>0, <1>3 DEF PersistPendingOutbound, RequestInv, WhatsappTypeOK
  <2>2. i \in MirrorRow /\ i # None /\ i.status = "pending" /\ i.id = None
    BY <1>a, Ranks, RowTypes
  <2>3. channel' = [channel EXCEPT ![m] = channel[m]] /\ mirror' = [mirror EXCEPT ![m] = i]
    BY <1>0, <1>3 DEF PersistPendingOutbound, WhatsappTypeOK
  <2> HIDE DEF i
  <2>4. RowsOK(RowsNow)'
    <3> DEFINE c == channel[m]
    <3>1. /\ c \in ChannelRow /\ c.id = None /\ c.status = "pending"
          /\ channel' = [channel EXCEPT ![m] = c]
      BY <2>1, <2>3
    <3> HIDE DEF c
    <3>2. UNCHANGED <<accepted, reports>>
      BY <1>3 DEF PersistPendingOutbound, providerVars
    <3> QED BY <2>2, <2>3, <3>1, <3>2, OwnRows
  <2>5. WhatsappTypeOK'
    BY <1>0, <1>3, <2>1, <2>2
       DEF i, PersistPendingOutbound, WhatsappTypeOK, providerVars, NoAnswer, Answer
  <2>6. ASSUME NEW n \in Messages PROVE RequestInv(n)'
    BY <1>0, <1>3, <2>2 DEF i, PersistPendingOutbound, WhatsappTypeOK, RequestInv, providerVars
  <2> QED BY <1>0, <1>3, <2>4, <2>5, <2>6 DEF WInv, PersistPendingOutbound, providerVars
<1>4. ASSUME NEW m \in Messages, NEW id \in Ids, ProviderAccepts(m, id)
      PROVE  WInv'
  <2>1. id # None /\ channel[m] # None /\ channel[m].id = None
    BY <1>0, <1>4, RowTypes DEF ProviderAccepts, RequestInv
  <2>2. accepted' = [accepted EXCEPT ![m] = id] /\ UNCHANGED <<channel, mirror, reports>>
    BY <1>4 DEF ProviderAccepts, rowVars
  <2>3. \A n \in Messages : accepted'[n] # accepted[n] => n = m
    BY <1>0, <2>2 DEF WhatsappTypeOK
  <2>4. RowsOK(RowsNow)'
    BY <1>0, <2>1, <2>2, <2>3 DEF RowsOK, RowsNow
  <2>5. WhatsappTypeOK'
    BY <1>0, <1>4 DEF ProviderAccepts, WhatsappTypeOK, rowVars, NoAnswer, Answer
  <2>6. ASSUME NEW n \in Messages PROVE RequestInv(n)'
    BY <1>0, <1>4, <2>1 DEF ProviderAccepts, WhatsappTypeOK, RequestInv, rowVars
  <2>7. accepted'[m] # None
    BY <1>0, <2>1, <2>2 DEF WhatsappTypeOK
  <2> QED BY <2>4, <2>5, <2>6, <2>7 DEF WInv
<1>5. ASSUME NEW m \in Messages,
             \/ ProviderRefuses(m) \/ (\E lost \in BOOLEAN : SendTemplateReturns(m, lost))
             \/ DuplicateProviderMessage(m) \/ RequestCrash(m)
      PROVE  WInv'
  <2>1. UNCHANGED <<rowVars, active, providerVars>>
    BY <1>5 DEF ProviderRefuses, SendTemplateReturns, DuplicateProviderMessage, RequestCrash
  <2>2. RowsOK(RowsNow)'
    BY <1>0, <2>1 DEF RowsOK, RowsNow, rowVars, providerVars
  <2>3. WhatsappTypeOK'
    BY <1>0, <1>5, <2>1
       DEF ProviderRefuses, SendTemplateReturns, DuplicateProviderMessage, RequestCrash,
           WhatsappTypeOK, rowVars, providerVars, NoAnswer, Answer
  <2>4. ASSUME NEW n \in Messages PROVE RequestInv(n)'
    BY <1>0, <1>5, <2>1
       DEF ProviderRefuses, SendTemplateReturns, DuplicateProviderMessage, RequestCrash,
           WhatsappTypeOK, RequestInv, rowVars, providerVars
  <2> QED BY <1>0, <2>1, <2>2, <2>3, <2>4 DEF WInv, rowVars, providerVars
<1>6. ASSUME NEW m \in Messages, FinalizeOutbound(m)
      PROVE  WInv'
  <2> DEFINE a == request[m].answer
             c == [channel[m] EXCEPT !.status = a.status, !.id = a.id]
             i == [status |-> a.status, id |-> a.id]
  <2>1. channel[m] \in ChannelRow /\ channel[m] # None
    BY <1>0, <1>6 DEF FinalizeOutbound, RequestInv, WhatsappTypeOK
  <2>2. \/ a.status = "failed" /\ a.id = None
        \/ a.status = "sent" /\ a.id = accepted[m] /\ accepted[m] # None
    <3>1. RequestInv(m) /\ At(m, "answered")
      BY <1>0, <1>6 DEF FinalizeOutbound
    <3>2. \/ a = [status |-> "failed", id |-> None]
          \/ accepted[m] # None /\ a = [status |-> "sent", id |-> accepted[m]]
      BY <3>1 DEF RequestInv, Answer
    <3> QED BY <3>2
  <2>3. a.status \in DOMAIN Rank /\ a.id \in Ids \union {None}
    BY <1>0, <2>2, Ranks DEF WhatsappTypeOK
  <2>4. c \in ChannelRow /\ c.status = a.status /\ c.id = a.id /\ i \in MirrorRow /\ i # None
    BY <1>a, <2>1, <2>3, RowTypes DEF ChannelRow
  <2>5. channel' = [channel EXCEPT ![m] = c] /\ mirror' = [mirror EXCEPT ![m] = i]
    BY <1>0, <1>6 DEF FinalizeOutbound, WhatsappTypeOK
  <2>6. a.id # None => \A n \in Messages : channel[n] # None => channel[n].id # a.id
    BY <1>6 DEF FinalizeOutbound, Linked
  <2>7. UNCHANGED <<active, providerVars>> /\ responded' = (responded \/ a.status = "sent")
        /\ request' = [request EXCEPT ![m] = [step |-> "done", answer |-> NoAnswer]]
    BY <1>6 DEF FinalizeOutbound
  <2>8. i.status = c.status /\ i.id = c.id
    BY <2>4
  <2> HIDE DEF c, i
  <2>9. RowsOK(RowsNow)'
    BY <2>2, <2>4, <2>5, <2>6, <2>7, <2>8, OwnRows DEF providerVars
  <2> HIDE DEF a
  <2>10. WhatsappTypeOK'
    BY <1>0, <2>4, <2>5, <2>7, RowTypes DEF WhatsappTypeOK, providerVars, NoAnswer, Answer
  <2>11. ASSUME NEW n \in Messages PROVE RequestInv(n)'
    BY <1>0, <2>5, <2>7 DEF WhatsappTypeOK, RequestInv, providerVars
  <2>12. responded' => \E n \in Messages : accepted'[n] # None
    BY <1>0, <2>2, <2>7 DEF providerVars
  <2> QED BY <2>9, <2>10, <2>11, <2>12 DEF WInv
<1>7. ASSUME NEW id \in Ids, NEW status \in Reportable, NEW time \in 1 .. MaxTime,
             ProviderReports(id, status, time)
      PROVE  WInv'
  <2>1. reports \subseteq reports' /\ UNCHANGED <<rowVars, request, active, accepted, stale>>
    BY <1>7 DEF ProviderReports
  <2>2. RowsOK(RowsNow)'
    BY <1>0, <2>1 DEF RowsOK, RowsNow, rowVars
  <2>3. [id |-> id, status |-> status, time |-> time] \in Report
    BY DEF Report
  <2>4. [id |-> id, status |-> status, time |-> time] \notin reports
    BY <1>0, <1>7, <2>3, Ranks DEF ProviderReports, RankOf, WhatsappTypeOK, Report
  <2>5. WhatsappTypeOK'
    BY <1>0, <1>7, <2>1, <2>3, <2>4 DEF ProviderReports, WhatsappTypeOK, rowVars
  <2>6. \A m \in Messages : RequestInv(m)'
    BY <1>0, <2>1 DEF RequestInv, rowVars
  <2> QED BY <1>0, <2>1, <2>2, <2>5, <2>6 DEF WInv, rowVars
<1>8. ASSUME NEW r \in outstanding, BecomeStale(r)
      PROVE  WInv'
  <2>1. UNCHANGED <<rowVars, request, active, accepted, reports>>
    BY <1>8 DEF BecomeStale
  <2>2. WhatsappTypeOK'
    BY <1>0, <1>8, <2>1 DEF BecomeStale, WhatsappTypeOK, rowVars
  <2> QED BY <1>0, <2>1, <2>2 DEF WInv, RowsOK, RowsNow, RequestInv, rowVars
<1>9. CASE SetAccountActive
  BY <1>0, <1>9 DEF SetAccountActive, WInv, WhatsappTypeOK, RowsOK, RowsNow, RequestInv,
                    rowVars, providerVars
<1>10. ASSUME NEW batch \in Batches, NEW lost \in BOOLEAN, InboundWebhook(batch, lost)
       PROVE  WInv'
  <2> DEFINE new == RecordBatch(RowsNow, batch)
  <2>1. /\ channel' = new.channel /\ mirror' = new.mirror
        /\ outstanding' \subseteq outstanding
        /\ UNCHANGED <<responded, request, active, accepted, reports, stale>>
    BY <1>10 DEF InboundWebhook, RowsNow
  <2>2. batch[1] \in reports /\ (Len(batch) # 1 => batch[2] \in reports)
    BY <1>0 DEF Batches, WhatsappTypeOK
  <2>3. /\ RowsOK(new)
        /\ \A m \in Messages :
              /\ new.channel[m] = None <=> channel[m] = None
              /\ new.mirror[m] = None <=> mirror[m] = None
              /\ channel[m] # None /\ channel[m].id = None => new.channel[m] = channel[m]
    BY <1>0, <2>2, BatchKeeps DEF WhatsappTypeOK, RowsNow
  <2> HIDE DEF new
  <2>4. RowsOK(RowsNow)'
    BY <2>1, <2>3 DEF RowsOK, RowsNow
  <2>5. WhatsappTypeOK'
    BY <1>0, <2>1, <2>3 DEF WhatsappTypeOK, RowsOK
  <2>6. ASSUME NEW m \in Messages PROVE RequestInv(m)'
    BY <1>0, <2>1, <2>3 DEF RequestInv
  <2> QED BY <1>0, <2>1, <2>4, <2>5, <2>6 DEF WInv
<1>11. CASE UNCHANGED whatsappVars
  BY <1>0, <1>11 DEF whatsappVars, WInv, WhatsappTypeOK, RowsOK, RowsNow, RequestInv,
                     rowVars, providerVars
<1> QED BY <1>1, <1>2, <1>3, <1>4, <1>5, <1>6, <1>7, <1>8, <1>9, <1>10, <1>11
        DEF WhatsappNext, RequestStep

-----------------------------------------------------------------------------
(* The theorems.                                                            *)

(* The invariant holds in every state.                                      *)
THEOREM WhatsappInvariant == WhatsappSpec => []WInv
BY WInitInv, WNextInv, PTL DEF WhatsappSpec

(* The rows keep their types.                                               *)
THEOREM WhatsappTypes == WhatsappSpec => []WhatsappTypeOK
<1>1. WInv => WhatsappTypeOK
  BY DEF WInv
<1> QED BY <1>1, WhatsappInvariant, PTL

(* The ticket's message and the channel's row agree.                        *)
THEOREM MirrorTheorem == WhatsappSpec => []MirrorAgrees
<1>1. WInv => MirrorAgrees
  <2> SUFFICES ASSUME WInv, NEW m \in Messages, mirror[m] # None
               PROVE  mirror[m] = [status |-> channel[m].status, id |-> channel[m].id]
    BY DEF MirrorAgrees
  <2>1. mirror[m] \in MirrorRow
    BY DEF WInv, WhatsappTypeOK
  <2>2. mirror[m].status = channel[m].status /\ mirror[m].id = channel[m].id
    BY DEF WInv, RowsOK, RowsNow
  <2> QED BY <2>1, <2>2 DEF MirrorRow
<1> QED BY <1>1, WhatsappInvariant, PTL

(* Nothing is recorded that the provider did not say.                       *)
THEOREM RecordTheorem == WhatsappSpec => []RecordIsTrue
<1>1. WInv => RecordIsTrue
  BY DEF WInv, RowsOK, RowsNow, RecordIsTrue
<1> QED BY <1>1, WhatsappInvariant, PTL

(* No message loses rank, whatever comes in whatever order.                 *)
THEOREM RegressionTheorem == WhatsappSpec => StatusNeverRegresses
<1>1. ASSUME WInv, [WhatsappNext]_whatsappVars, NEW m \in Messages, channel[m] # None
      PROVE  Rank[channel'[m].status] >= Rank[channel[m].status]
  <2>0. /\ WhatsappTypeOK /\ RowsOK(RowsNow) /\ RequestInv(m)
        /\ channel[m] \in ChannelRow /\ Rank[channel[m].status] \in Nat
    BY <1>1, Ranks, RowTypes DEF WInv, WhatsappTypeOK
  <2>1. CASE channel'[m] = channel[m]
    BY <2>0, <2>1
  <2>2. ASSUME channel[m].status = "pending", channel'[m].status \in DOMAIN Rank
        PROVE  Rank[channel'[m].status] >= Rank[channel[m].status]
    BY <2>2, Ranks
  <2>3. ASSUME NEW n \in Messages, RequestStep(n), channel'[m] # channel[m]
        PROVE  channel[m].status = "pending" /\ channel'[m].status \in DOMAIN Rank
    <3>1. \/ PersistDiscoveryAttempt(n) \/ FinalizeOutbound(n)
          \/ \E retryable \in BOOLEAN : MarkDiscoveryAttempt(n, retryable)
      BY <2>3 DEF RequestStep, PersistPendingOutbound, ProviderAccepts, ProviderRefuses,
                  SendTemplateReturns, DuplicateProviderMessage, RequestCrash, rowVars
    <3>2. n = m
      BY <2>0, <2>3, <3>1
         DEF PersistDiscoveryAttempt, FinalizeOutbound, MarkDiscoveryAttempt, WhatsappTypeOK
    <3>3. ~PersistDiscoveryAttempt(m)
      BY <1>1, <2>0 DEF PersistDiscoveryAttempt, RequestInv
    <3>4. (\E retryable \in BOOLEAN : MarkDiscoveryAttempt(m, retryable)) \/ FinalizeOutbound(m)
      BY <3>1, <3>2, <3>3
    <3>5. CASE \E retryable \in BOOLEAN : MarkDiscoveryAttempt(m, retryable)
      <4>1. channel[m].status = "pending"
        BY <1>1, <2>0, <3>5 DEF MarkDiscoveryAttempt, RequestInv, At
      <4>2. channel'[m].status \in {"pending", "failed"}
        BY <2>0, <3>5 DEF MarkDiscoveryAttempt, WhatsappTypeOK, ChannelRow
      <4> QED BY <4>1, <4>2, Ranks
    <3>6. CASE FinalizeOutbound(m)
      <4>1. channel[m].status = "pending"
        BY <1>1, <2>0, <3>6 DEF FinalizeOutbound, RequestInv, At
      <4>2. request[m].answer = [status |-> "failed", id |-> None] \/
              request[m].answer = [status |-> "sent", id |-> accepted[m]]
        BY <2>0, <3>6 DEF FinalizeOutbound, RequestInv, At, Answer
      <4>3. channel'[m].status = request[m].answer.status
        BY <2>0, <3>6 DEF FinalizeOutbound, WhatsappTypeOK, ChannelRow
      <4> QED BY <4>1, <4>2, <4>3, Ranks
    <3> QED BY <3>4, <3>5, <3>6
  <2>4. ASSUME NEW batch \in Batches, NEW lost \in BOOLEAN, InboundWebhook(batch, lost)
        PROVE  Rank[channel'[m].status] >= Rank[channel[m].status]
    <3>1. channel' = RecordBatch(RowsNow, batch).channel
      BY <2>4 DEF InboundWebhook, RowsNow
    <3>2. batch[1] \in reports /\ (Len(batch) # 1 => batch[2] \in reports)
      BY <2>0 DEF Batches, WhatsappTypeOK
    <3>3. RowsNow.channel[m] = channel[m]
      BY DEF RowsNow
    <3> QED BY <1>1, <2>0, <3>1, <3>2, <3>3, BatchKeeps DEF WhatsappTypeOK
  <2>5. \/ \E n \in Messages : RequestStep(n)
        \/ \E batch \in Batches, lost \in BOOLEAN : InboundWebhook(batch, lost)
        \/ channel' = channel
    BY <1>1 DEF WhatsappNext, ProviderReports, BecomeStale, SetAccountActive, whatsappVars, rowVars
  <2> QED BY <2>1, <2>2, <2>3, <2>4, <2>5
<1>2. WInv /\ [WhatsappNext]_whatsappVars =>
        [\A m \in Messages : channel[m] # None =>
           Rank[channel'[m].status] >= Rank[channel[m].status]]_whatsappVars
  BY <1>1
<1> QED BY <1>2, WhatsappInvariant, PTL DEF WhatsappSpec, StatusNeverRegresses
=============================================================================
