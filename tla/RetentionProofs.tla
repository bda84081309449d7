----------------------------- MODULE RetentionProofs -----------------------------
(***************************************************************************)
(* Proofs about Retention, for any tickets, stored files, uploads, runs,   *)
(* workers, policies and dates.                                            *)
(***************************************************************************)
EXTENDS Retention, SequenceTheorems, TLAPS

-----------------------------------------------------------------------------
(* The invariant.                                                           *)

(* A file with a row is stored and has no job; a file with a job has no row *)
(* any more; what an upload has stored has neither, and is nobody else's.   *)
FilesInv ==
  /\ \A o \in Objects : row[o] # None =>
       row[o] \in tickets /\ o \in store /\ job[o] = None
  /\ \A o \in Objects : job[o] # None =>
       o \in used /\ row[o] = None /\ run[job[o]] = Committed
  /\ jobDone \intersect store = {}

UploadInv ==
  /\ \A u \in Uploads : \A o \in StoredBy(u) :
       o \in store /\ row[o] = None /\ job[o] = None
  /\ \A u, v \in Uploads : u # v => StoredBy(u) \intersect StoredBy(v) = {}
  /\ \A u \in Uploads : \A i, j \in DOMAIN upload[u].stored :
       upload[u].stored[i] = upload[u].stored[j] => i = j
  /\ \A u \in Uploads :
       /\ upload[u].step \in {"idle", "received"} => upload[u].stored = << >>
       /\ upload[u].step = "storing" =>
            upload[u].ticket \in tickets /\ lock[upload[u].ticket] = u

(* What a run has decided about a row stays true while it has the lock.     *)
GoodTicket(e, t) ==
  /\ t \in tickets /\ lock[t] = e /\ t \notin held
  /\ \A o \in Objects : row[o] = t => Expired(e, "ticket", uploaded[o])
  /\ \A m \in messages : m[1] = t => Expired(e, "ticket_message", m[2])
GoodMessage(e, m) ==
  /\ m[1] \in tickets /\ lock[m[1]] = e /\ m[1] \notin held
  /\ Expired(e, "ticket_message", m[2])

RunOK(e) ==
  /\ run[e] \in RunRecord
  /\ run[e].now <= day
  /\ run[e].todo \subseteq DOMAIN run[e].policy
  /\ "ticket" \in run[e].todo => run[e].gone = {} /\ run[e].jobs = {}
  /\ run[e].jobs = AttachmentsOf(run[e].gone)
  /\ run[e].step # "next" => run[e].table \in run[e].todo
  /\ run[e].step = "locking" => CandidateTicketIds(e, run[e].table) \subseteq run[e].candidates
  /\ run[e].step # "selected" => run[e].selected = {} /\ run[e].selectedMessages = {}
  /\ run[e].table # "ticket" => run[e].selected = {}
  /\ \A t \in run[e].gone \union run[e].selected : GoodTicket(e, t)
  /\ \A m \in run[e].goneMessages \union run[e].selectedMessages : GoodMessage(e, m)

RunInv(e) == InProgress(e) => RunOK(e)

WorkerInv ==
  /\ \A w \in Workers : worker[w].step # "idle" =>
       /\ worker[w].object \in Objects
       /\ job[worker[w].object] # None
       /\ worker[w].object \notin jobDone
  /\ \A w \in Workers : worker[w].step \in {"deleted", "locked"} => worker[w].object \notin store
  /\ \A v, w \in Workers :
       worker[v].step # "idle" /\ worker[w].step # "idle" /\ worker[v].object = worker[w].object
         => v = w
  /\ \A v, w \in Workers :
       /\ worker[v].step = "locked" /\ worker[w].step = "locked"
       /\ job[worker[v].object] = job[worker[w].object]
       => v = w
  /\ \A w \in Workers : worker[w].step = "locked" /\ worker[w].last =>
       \A p \in Objects \ {worker[w].object} :
         job[p] = job[worker[w].object] => p \in jobDone
  /\ \A e \in cleaned : run[e] = Committed /\ \A o \in Objects : job[o] = e => o \in jobDone

RetInv ==
  /\ RetentionTypeOK /\ FilesInv /\ UploadInv /\ WorkerInv
  /\ \A e \in Events : RunInv(e)

-----------------------------------------------------------------------------
(* Runs that others do not disturb.                                         *)

Undisturbed(e) ==
  /\ run'[e] = run[e] /\ day' \in Dates /\ day <= day' /\ tickets' \subseteq tickets
  /\ \A t \in Tickets : lock[t] = e =>
       /\ lock'[t] = e
       /\ t \in tickets => t \in tickets'
       /\ t \in held' => t \in held
       /\ \A o \in Objects : row'[o] = t <=> row[o] = t
       /\ \A o \in Objects : row[o] = t => uploaded'[o] = uploaded[o]
  /\ \A m \in messages' : m \in messages \/ (m[2] = day /\ lock[m[1]] = None)

LEMMA Numbers ==
  /\ \A t \in Tickets : t \in Nat /\ t # None
  /\ \A d \in Dates : d \in Nat /\ d # None
  /\ \A p \in Policies : \A table \in DOMAIN p : p[table] \in Nat /\ p[table] > 0
  /\ \A e \in Events : e # None /\ e \notin Uploads
  /\ \A u \in Uploads : u # None /\ u \notin Events
  /\ None # Committed
BY StoreAssumption, PolicyAssumption

LEMMA RecordFields ==
  ASSUME NEW r \in RunRecord
  PROVE  /\ r.step \in {"next", "locking", "selected"} /\ r.now \in Dates /\ r.policy \in Policies
         /\ r.todo \subseteq {"ticket_message", "ticket"}
         /\ r.table \in {"ticket_message", "ticket", None}
         /\ r.candidates \subseteq Tickets /\ r.selected \subseteq Tickets
         /\ r.selectedMessages \subseteq Tickets \X Dates
         /\ r.gone \subseteq Tickets /\ r.goneMessages \subseteq Tickets \X Dates
         /\ r.jobs \subseteq Objects
         /\ r # Committed
BY DEF RunRecord, Committed

(* A run that is not disturbed keeps its invariant.                         *)
LEMMA RunStable ==
  ASSUME RetentionTypeOK, NEW e \in Events, RunInv(e), Undisturbed(e)
  PROVE  RunInv(e)'
<1> SUFFICES ASSUME InProgress(e)'
             PROVE  RunOK(e)'
  BY DEF RunInv
<1>0. /\ RunOK(e) /\ run'[e] = run[e] /\ day <= day' /\ tickets' \subseteq tickets
      /\ run[e] \in RunRecord
  BY DEF RunInv, RunOK, InProgress, Undisturbed
<1>1. /\ run[e].now \in Dates /\ run[e].policy \in Policies
      /\ run[e].gone \union run[e].selected \subseteq Tickets
      /\ run[e].goneMessages \union run[e].selectedMessages \subseteq Tickets \X Dates
      /\ run[e].todo \subseteq {"ticket_message", "ticket"}
  BY <1>0, RecordFields
<1>2. \A table, d : Expired(e, table, d)' <=> Expired(e, table, d)
  BY <1>0 DEF Expired
<1>3. ASSUME NEW t \in Tickets, GoodTicket(e, t)
      PROVE  GoodTicket(e, t)'
  <2>1. /\ t \in tickets' /\ lock'[t] = e /\ t \notin held'
        /\ \A o \in Objects : row'[o] = t => row[o] = t /\ uploaded'[o] = uploaded[o]
        /\ \A m \in messages' : m[1] = t => m \in messages
    BY <1>3, Numbers DEF GoodTicket, Undisturbed
  <2> QED BY <1>2, <1>3, <2>1 DEF GoodTicket
<1>4. ASSUME NEW m \in Tickets \X Dates, GoodMessage(e, m)
      PROVE  GoodMessage(e, m)'
  <2>1. m[1] \in Tickets /\ m[1] \in tickets' /\ lock'[m[1]] = e /\ m[1] \notin held'
    BY <1>4 DEF GoodMessage, Undisturbed
  <2> QED BY <1>2, <1>4, <2>1 DEF GoodMessage
<1>5. AttachmentsOf(run[e].gone)' = AttachmentsOf(run[e].gone)
  <2>1. \A t \in run[e].gone : t \in Tickets /\ lock[t] = e
    BY <1>0, <1>1 DEF RunOK, GoodTicket
  <2>2. \A o \in Objects : row'[o] \in run[e].gone <=> row[o] \in run[e].gone
    BY <2>1 DEF Undisturbed
  <2> QED BY <1>0, <2>2 DEF AttachmentsOf
<1>6. ASSUME run[e].step = "locking"
      PROVE  CandidateTicketIds(e, run[e].table)' \subseteq run[e].candidates
  <2>0. CandidateTicketIds(e, run[e].table) \subseteq run[e].candidates
        /\ run[e].table \in run[e].todo
    BY <1>0, <1>6 DEF RunOK
  <2>1. CASE run[e].table = "ticket"
    BY <1>0, <1>2, <2>0, <2>1 DEF CandidateTicketIds, TicketsLeft
  <2>2. CASE run[e].table # "ticket"
    <3>1. run[e].table = "ticket_message" /\ "ticket_message" \in DOMAIN run[e].policy
      BY <1>0, <1>1, <2>0, <2>2 DEF RunOK
    <3>2. run[e].policy["ticket_message"] \in Nat
      BY <1>1, <3>1, Numbers
    <3>3. \A m \in messages' : Expired(e, "ticket_message", m[2]) => m \in messages
      <4> SUFFICES ASSUME NEW m \in messages', m \notin messages,
                          Expired(e, "ticket_message", m[2])
                   PROVE  FALSE
        OBVIOUS
      <4>1. m[2] = day
        BY DEF Undisturbed
      <4>2. day \in Nat /\ run[e].now \in Nat /\ run[e].now <= day
        BY <1>0, <1>1, Numbers DEF RunOK, RetentionTypeOK
      <4> QED BY <3>2, <4>1, <4>2 DEF Expired
    <3>4. \A n : n \in MessagesLeft(e)' /\ Expired(e, "ticket_message", n[2])
                  => n \in MessagesLeft(e)
      BY <1>0, <3>3 DEF MessagesLeft
    <3>5. CandidateTicketIds(e, "ticket_message") =
            {m[1] : m \in {n \in MessagesLeft(e) : Expired(e, "ticket_message", n[2])}}
      BY DEF CandidateTicketIds
    <3>6. CandidateTicketIds(e, "ticket_message")' =
            {m[1] : m \in {n \in MessagesLeft(e)' : Expired(e, "ticket_message", n[2])}}
      BY <1>2 DEF CandidateTicketIds
    <3> QED BY <1>0, <2>0, <3>1, <3>4, <3>5, <3>6
  <2> QED BY <2>1, <2>2
<1>7. run[e].now <= day'
  <2>1. run[e].now <= day /\ day <= day' /\ day' \in Dates /\ day \in Dates
    BY <1>0 DEF RunOK, RetentionTypeOK, Undisturbed
  <2>2. run[e].now \in Nat /\ day \in Nat /\ day' \in Nat
    BY <1>1, <2>1, Numbers
  <2> QED BY <2>1, <2>2
<1>8. /\ \A t \in run'[e].gone \union run'[e].selected : GoodTicket(e, t)'
      /\ \A m \in run'[e].goneMessages \union run'[e].selectedMessages : GoodMessage(e, m)'
  BY <1>0, <1>1, <1>3, <1>4 DEF RunOK
<1>9. run'[e].jobs = AttachmentsOf(run[e].gone)'
  BY <1>0, <1>5 DEF RunOK
<1>11. run'[e].step = "locking" =>
         CandidateTicketIds(e, run[e].table)' \subseteq run'[e].candidates
  BY <1>0, <1>6
<1> HIDE DEF GoodTicket, GoodMessage, AttachmentsOf, CandidateTicketIds
<1> QED BY <1>0, <1>7, <1>8, <1>9, <1>11 DEF RunOK

-----------------------------------------------------------------------------
(* Parts of the invariant that a step leaves alone.                         *)

LEMMA FilesSame ==
  ASSUME FilesInv, UNCHANGED <<tickets, row, store, used, job, jobDone>>,
         \A e \in Events : run[e] = Committed => run'[e] = Committed,
         RetentionTypeOK
  PROVE  FilesInv'
BY DEF FilesInv, RetentionTypeOK

LEMMA UploadsSame ==
  ASSUME UploadInv, UNCHANGED <<tickets, row, store, upload, job>>, RetentionTypeOK,
         \A u \in Uploads : \A t \in Tickets : lock[t] = u => lock'[t] = u
  PROVE  UploadInv'
<1>1. \A u \in Uploads : StoredBy(u)' = StoredBy(u)
  BY DEF StoredBy
<1>2. tickets \subseteq Tickets
  BY DEF RetentionTypeOK, StoreTypeOK
<1> HIDE DEF StoredBy
<1> QED BY <1>1, <1>2 DEF UploadInv

LEMMA WorkersSame ==
  ASSUME WorkerInv, UNCHANGED <<job, jobDone, cleaned, worker>>, RetentionTypeOK, FilesInv,
         store' \intersect used \subseteq store,
         \A e \in Events : run[e] = Committed => run'[e] = Committed
  PROVE  WorkerInv'
<1>1. \A w \in Workers : worker[w].step # "idle" => worker[w].object \in used
  BY DEF WorkerInv, FilesInv
<1>2. \A w \in Workers : worker[w].step \in {"deleted", "locked"} => worker[w].object \notin store'
  BY <1>1 DEF WorkerInv
<1>3. \A e \in cleaned : run'[e] = Committed
  BY DEF WorkerInv, RetentionTypeOK
<1> QED BY <1>2, <1>3 DEF WorkerInv

LEMMA RunsSame ==
  ASSUME RetInv, \A e \in Events : Undisturbed(e)
  PROVE  \A e \in Events : RunInv(e)'
BY RunStable DEF RetInv

-----------------------------------------------------------------------------
(* What goes on beside the runs.                                            *)

LEMMA AroundPreserves ==
  ASSUME RetInv, NextDay \/ \E t \in Tickets : SetHold(t) \/ AddMessage(t)
  PROVE  RetInv'
<1>0. /\ RetentionTypeOK /\ StoreTypeOK /\ FilesInv /\ UploadInv /\ WorkerInv
      /\ UNCHANGED <<tickets, lock, storeVars, run, effectVars>>
  BY DEF RetInv, RetentionTypeOK, NextDay, SetHold, AddMessage, runVars
<1>1. RetentionTypeOK'
  <2>1. StoreTypeOK'
    BY <1>0 DEF StoreTypeOK, storeVars
  <2>2. day' \in Dates /\ held' \subseteq tickets /\ messages' \subseteq tickets \X Dates
    <3>1. CASE NextDay
      BY <1>0, <3>1 DEF NextDay, RetentionTypeOK, runVars
    <3>2. ASSUME NEW t \in Tickets, SetHold(t)
          PROVE  day' \in Dates /\ held' \subseteq tickets /\ messages' \subseteq tickets \X Dates
      BY <1>0, <3>2 DEF SetHold, RetentionTypeOK
    <3>3. ASSUME NEW t \in Tickets, AddMessage(t)
          PROVE  day' \in Dates /\ held' \subseteq tickets /\ messages' \subseteq tickets \X Dates
      BY <1>0, <3>3 DEF AddMessage, RetentionTypeOK
    <3> QED BY <3>1, <3>2, <3>3
  <2> QED BY <1>0, <2>1, <2>2 DEF RetentionTypeOK, effectVars, storeVars
<1>2. FilesInv' /\ UploadInv' /\ WorkerInv'
  BY <1>0, FilesSame, UploadsSame, WorkersSame DEF storeVars, effectVars
<1>3. ASSUME NEW e \in Events
      PROVE  Undisturbed(e)
  <2>1. day' \in Dates /\ day <= day'
    BY <1>0, <1>1, StoreAssumption DEF NextDay, SetHold, AddMessage, RetentionTypeOK
  <2>2. \A t \in Tickets : lock[t] = e => (t \in held' => t \in held)
    BY Numbers DEF NextDay, SetHold, AddMessage, runVars
  <2>3. \A m \in messages' : m \in messages \/ (m[2] = day /\ lock[m[1]] = None)
    BY DEF NextDay, SetHold, AddMessage, runVars
  <2> QED BY <1>0, <2>1, <2>2, <2>3 DEF Undisturbed, storeVars
<1> QED BY <1>1, <1>2, <1>3, RunsSame DEF RetInv

-----------------------------------------------------------------------------
(* Uploads and downloads.                                                   *)

(* The facts every step of an upload starts from.                           *)
LEMMA UploadFacts ==
  ASSUME RetInv, NEW u \in Uploads
  PROVE  /\ RetentionTypeOK /\ StoreTypeOK /\ FilesInv /\ UploadInv /\ WorkerInv
         /\ upload[u].step \in {"idle", "received", "storing", "cleaning"}
         /\ upload[u].ticket \in Tickets \union {None}
         /\ upload[u].stored \in Seq(Objects)
         /\ StoredBy(u) \subseteq Objects
         /\ upload[u].step \in {"idle", "received"} => StoredBy(u) = {}
<1>1. /\ RetentionTypeOK /\ StoreTypeOK /\ FilesInv /\ UploadInv /\ WorkerInv
  BY DEF RetInv, RetentionTypeOK
<1>2. upload[u] \in [step : {"idle", "received", "storing", "cleaning"},
                     ticket : Tickets \union {None}, stored : Seq(Objects)]
  BY <1>1 DEF StoreTypeOK
<1>3. upload[u].stored \in Seq(Objects)
  BY <1>2
<1>4. StoredBy(u) \subseteq Objects
  BY <1>3 DEF StoredBy
<1>5. upload[u].step \in {"idle", "received"} => upload[u].stored = << >>
  BY <1>1 DEF UploadInv
<1>6. upload[u].stored = << >> => StoredBy(u) = {}
  BY DEF StoredBy
<1> QED BY <1>1, <1>2, <1>3, <1>4, <1>5, <1>6

(* A step that changes no more than one request and the locks keeps what is *)
(* said of the requests, if it keeps it for that one.                       *)
LEMMA OneUpload ==
  ASSUME RetInv, NEW u \in Uploads, NEW new, upload' = [upload EXCEPT ![u] = new],
         UNCHANGED <<tickets, row, job>>,
         \A v \in Uploads \ {u} : \A t \in Tickets : lock[t] = v => lock'[t] = v,
         \A v \in Uploads \ {u} : \A o \in StoredBy(v) : o \in store',
         new.stored \in Seq(Objects),
         \A i \in DOMAIN new.stored :
            /\ new.stored[i] \in StoredBy(u) \/ new.stored[i] \in Objects \ used
            /\ new.stored[i] \in store' /\ row[new.stored[i]] = None,
         \A i, j \in DOMAIN new.stored : new.stored[i] = new.stored[j] => i = j,
         new.step \in {"idle", "received"} => new.stored = << >>,
         new.step = "storing" => new.ticket \in tickets /\ lock'[new.ticket] = u
  PROVE  UploadInv'
<1>0. /\ upload'[u] = new /\ \A v \in Uploads \ {u} : upload'[v] = upload[v]
      /\ RetentionTypeOK /\ StoreTypeOK /\ FilesInv /\ UploadInv
  BY UploadFacts DEF StoreTypeOK
<1>1. \A v \in Uploads \ {u} : StoredBy(v)' = StoredBy(v)
  BY <1>0 DEF StoredBy
<1>2. StoredBy(u)' = {new.stored[i] : i \in DOMAIN new.stored}
  BY <1>0 DEF StoredBy
<1>3. \A o \in Objects \ used : row[o] = None /\ job[o] = None
  BY <1>0 DEF FilesInv, StoreTypeOK
<1>4. \A v \in Uploads : StoredBy(v) \subseteq used
  BY <1>0 DEF UploadInv, StoreTypeOK
<1>5. \A v \in Uploads : \A o \in StoredBy(v)' :
        o \in store' /\ row'[o] = None /\ job'[o] = None
  BY <1>0, <1>1, <1>2, <1>3 DEF UploadInv
<1>6. \A o \in StoredBy(u)' : o \in StoredBy(u) \/ o \in Objects \ used
  BY <1>2
<1>7. \A v, w \in Uploads : v # w => StoredBy(v)' \intersect StoredBy(w)' = {}
  <2> SUFFICES ASSUME NEW v \in Uploads, NEW w \in Uploads, v # w, NEW o,
                      o \in StoredBy(v)', o \in StoredBy(w)'
               PROVE  FALSE
    OBVIOUS
  <2>1. StoredBy(v) \intersect StoredBy(w) = {}
    BY <1>0 DEF UploadInv
  <2>2. CASE v = u
    BY <1>1, <1>4, <1>6, <2>1, <2>2
  <2>3. CASE w = u
    BY <1>1, <1>4, <1>6, <2>1, <2>3
  <2>4. CASE v # u /\ w # u
    BY <1>1, <2>1, <2>4
  <2> QED BY <2>2, <2>3, <2>4
<1>8. \A v \in Uploads : \A i, j \in DOMAIN upload'[v].stored :
        upload'[v].stored[i] = upload'[v].stored[j] => i = j
  BY <1>0 DEF UploadInv
<1>9. \A v \in Uploads :
        /\ upload'[v].step \in {"idle", "received"} => upload'[v].stored = << >>
        /\ upload'[v].step = "storing" =>
             upload'[v].ticket \in tickets' /\ lock'[upload'[v].ticket] = v
  <2> SUFFICES ASSUME NEW v \in Uploads
               PROVE  /\ upload'[v].step \in {"idle", "received"} => upload'[v].stored = << >>
                      /\ upload'[v].step = "storing" =>
                           upload'[v].ticket \in tickets' /\ lock'[upload'[v].ticket] = v
    OBVIOUS
  <2>1. CASE v = u
    BY <1>0, <2>1
  <2>2. CASE v # u
    BY <1>0, <2>2 DEF UploadInv, StoreTypeOK
  <2> QED BY <2>1, <2>2
<1> HIDE DEF StoredBy
<1> QED BY <1>5, <1>7, <1>8, <1>9 DEF UploadInv

(* What is left to show of a step of an upload or a download.               *)
LEMMA StoreStepPreserves ==
  ASSUME RetInv, UNCHANGED <<day, tickets, runVars, effectVars>>,
         StoreTypeOK', FilesInv', UploadInv',
         lock' \in [Tickets -> Uploads \union Events \union {None}],
         store' \intersect used \subseteq store,
         \A e \in Events : \A t \in Tickets : lock[t] = e =>
           /\ lock'[t] = e
           /\ \A o \in Objects : row'[o] = t <=> row[o] = t
           /\ \A o \in Objects : row[o] = t => uploaded'[o] = uploaded[o]
  PROVE  RetInv'
<1>0. RetentionTypeOK /\ FilesInv /\ WorkerInv
  BY DEF RetInv
<1>1. RetentionTypeOK'
  BY <1>0 DEF RetentionTypeOK, runVars, effectVars
<1>2. WorkerInv'
  BY <1>0, WorkersSame DEF runVars, effectVars
<1>3. day <= day' /\ day' \in Dates
  BY <1>0, StoreAssumption DEF RetentionTypeOK
<1>4. \A e \in Events : Undisturbed(e)
  BY <1>3 DEF Undisturbed, runVars
<1> QED BY <1>1, <1>2, <1>4, RunsSame DEF RetInv

(* The case of a request without stored files.                              *)
LEMMA EmptyUpload ==
  ASSUME RetInv, NEW u \in Uploads, NEW new, upload' = [upload EXCEPT ![u] = new],
         UNCHANGED <<tickets, row, job>>, new.stored = << >>,
         \A v \in Uploads \ {u} : \A t \in Tickets : lock[t] = v => lock'[t] = v,
         \A v \in Uploads \ {u} : \A o \in StoredBy(v) : o \in store',
         new.step = "storing" => new.ticket \in tickets /\ lock'[new.ticket] = u
  PROVE  UploadInv'
<1>1. new.stored \in Seq(Objects) /\ DOMAIN new.stored = {}
  OBVIOUS
<1> QED BY <1>1, OneUpload

(* Only the request, and the locks it has or takes, change.                 *)
LEMMA RequestPreserves ==
  ASSUME RetInv, NEW u \in Uploads, UNCHANGED <<runVars, effectVars>>,
         (\E t \in tickets : ReceiveUpload(u, t)) \/ LockTicket(u) \/ RefuseUpload(u)
  PROVE  RetInv'
<1>0. /\ RetentionTypeOK /\ StoreTypeOK /\ FilesInv /\ UploadInv
      /\ UNCHANGED <<day, tickets, row, uploaded, accessed, store, used, lost>>
      /\ upload[u].stored = << >>
  BY UploadFacts DEF ReceiveUpload, LockTicket, RefuseUpload, UploadInv
<1>1. FilesInv'
  BY <1>0, FilesSame DEF runVars, effectVars
<1>2. \A v \in Uploads : \A o \in StoredBy(v) : o \in store'
  BY <1>0 DEF UploadInv
<1>3. ASSUME NEW t \in tickets, ReceiveUpload(u, t)
      PROVE  RetInv'
  <2> DEFINE new == [upload[u] EXCEPT !.step = "received", !.ticket = t]
  <2>1. upload' = [upload EXCEPT ![u] = new] /\ lock' = lock
    BY <1>3 DEF ReceiveUpload
  <2>2. /\ new.step = "received" /\ new.stored = << >>
        /\ new \in [step : {"idle", "received", "storing", "cleaning"},
                    ticket : Tickets \union {None}, stored : Seq(Objects)]
    BY <1>0 DEF StoreTypeOK
  <2> HIDE DEF new
  <2>3. StoreTypeOK'
    BY <1>0, <2>1, <2>2 DEF StoreTypeOK
  <2>4. UploadInv'
    BY <1>0, <1>2, <2>1, <2>2, EmptyUpload DEF effectVars
  <2>5. lock' \in [Tickets -> Uploads \union Events \union {None}]
    BY <1>0, <2>1 DEF RetentionTypeOK
  <2> QED BY <1>0, <1>1, <2>1, <2>3, <2>4, <2>5, StoreStepPreserves
<1>4. CASE RefuseUpload(u)
  <2>1. upload' = [upload EXCEPT ![u] = Idle] /\ lock' = lock
    BY <1>4 DEF RefuseUpload
  <2>2. /\ Idle.step = "idle" /\ Idle.stored = << >>
        /\ Idle \in [step : {"idle", "received", "storing", "cleaning"},
                     ticket : Tickets \union {None}, stored : Seq(Objects)]
    BY DEF Idle
  <2>3. StoreTypeOK'
    BY <1>0, <2>1, <2>2 DEF StoreTypeOK
  <2>4. UploadInv'
    BY <1>0, <1>2, <2>1, <2>2, EmptyUpload DEF effectVars
  <2>5. lock' \in [Tickets -> Uploads \union Events \union {None}]
    BY <1>0, <2>1 DEF RetentionTypeOK
  <2> QED BY <1>0, <1>1, <2>1, <2>3, <2>4, <2>5, StoreStepPreserves
<1>5. CASE LockTicket(u)
  <2> DEFINE new == [upload[u] EXCEPT !.step = "storing"]
             t == upload[u].ticket
  <2>1. upload' = [upload EXCEPT ![u] = new] /\ lock' = [lock EXCEPT ![t] = u] /\ lock[t] = None
    BY <1>5 DEF LockTicket
  <2>2. /\ new.step = "storing" /\ new.stored = << >> /\ new.ticket = t /\ t \in tickets
        /\ new \in [step : {"idle", "received", "storing", "cleaning"},
                    ticket : Tickets \union {None}, stored : Seq(Objects)]
    BY <1>0, <1>5 DEF StoreTypeOK, LockTicket
  <2>3. t \in Tickets
    BY <1>0, <2>2 DEF StoreTypeOK
  <2> HIDE DEF new, t
  <2>4. StoreTypeOK'
    BY <1>0, <2>1, <2>2 DEF StoreTypeOK
  <2>5. /\ lock' \in [Tickets -> Uploads \union Events \union {None}]
        /\ lock'[t] = u
        /\ \A s \in Tickets : lock[s] # None => lock'[s] = lock[s]
    BY <1>0, <2>1, <2>3 DEF RetentionTypeOK
  <2>8. \A v \in Uploads \ {u} : \A s \in Tickets : lock[s] = v => lock'[s] = v
    BY <2>5, Numbers
  <2>6. UploadInv'
    BY <1>0, <1>2, <2>1, <2>2, <2>5, <2>8, EmptyUpload DEF effectVars
  <2> QED BY <1>0, <1>1, <2>4, <2>5, <2>6, Numbers, StoreStepPreserves
<1> QED BY <1>3, <1>4, <1>5

(* A file is stored, perhaps behind the back of the request, or it is not.  *)
LEMMA UploadToMinioPreserves ==
  ASSUME RetInv, NEW u \in Uploads, NEW o, UploadToMinio(u, o), o \in Objects,
         UNCHANGED <<runVars, effectVars>>
  PROVE  RetInv'
<1> DEFINE old == upload[u].stored
           new == [upload[u] EXCEPT !.stored = Append(old, o)]
<1>0. /\ RetentionTypeOK /\ StoreTypeOK /\ FilesInv /\ UploadInv
      /\ old \in Seq(Objects) /\ upload[u].step = "storing" /\ o \notin used
      /\ upload' = [upload EXCEPT ![u] = new] /\ store' = store \union {o} /\ used' = used \union {o}
      /\ UNCHANGED <<day, tickets, lock, row, uploaded, accessed, lost, job, jobDone, run>>
  BY UploadFacts DEF UploadToMinio, runVars, effectVars
<1>1. /\ new.step = "storing" /\ new.ticket = upload[u].ticket /\ new.stored = Append(old, o)
      /\ new.stored \in Seq(Objects)
      /\ new \in [step : {"idle", "received", "storing", "cleaning"},
                  ticket : Tickets \union {None}, stored : Seq(Objects)]
  <2>1. upload[u] \in [step : {"idle", "received", "storing", "cleaning"},
                      ticket : Tickets \union {None}, stored : Seq(Objects)]
    BY <1>0 DEF StoreTypeOK
  <2>2. Append(old, o) \in Seq(Objects)
    BY <1>0
  <2> HIDE DEF old
  <2> QED BY <1>0, <2>1, <2>2
<1>2. \A i \in DOMAIN new.stored :
         \/ i \in DOMAIN old /\ new.stored[i] = old[i]
         \/ i = Len(old) + 1 /\ new.stored[i] = o
  BY <1>0, <1>1
<1>3. \A i \in DOMAIN old : old[i] \in StoredBy(u) /\ old[i] \in store /\ row[old[i]] = None
  BY <1>0 DEF UploadInv, StoredBy
<1>4. \A i, j \in DOMAIN old : old[i] = old[j] => i = j
  BY <1>0 DEF UploadInv
<1>5. row[o] = None /\ job[o] = None
  BY <1>0 DEF FilesInv, StoreTypeOK
<1>6. upload[u].ticket \in tickets /\ lock[upload[u].ticket] = u
  BY <1>0 DEF UploadInv
<1>7. StoreTypeOK'
  BY <1>0, <1>1 DEF StoreTypeOK
<1>8. FilesInv'
  BY <1>0, <1>5 DEF FilesInv, StoreTypeOK, RetentionTypeOK
<1>9. \A v \in Uploads \ {u} : \A p \in StoredBy(v) : p \in store'
  BY <1>0 DEF UploadInv
<1> HIDE DEF old, new
<1>10. \A i \in DOMAIN new.stored :
         /\ new.stored[i] \in StoredBy(u) \/ new.stored[i] \in Objects \ used
         /\ new.stored[i] \in store' /\ row[new.stored[i]] = None
  BY <1>0, <1>2, <1>3, <1>5
<1>11. \A i, j \in DOMAIN new.stored : new.stored[i] = new.stored[j] => i = j
  <2>1. \A i \in DOMAIN old : old[i] # o
    BY <1>0, <1>3 DEF StoreTypeOK
  <2> QED BY <1>2, <1>4, <2>1
<1>12. UploadInv'
  BY <1>0, <1>1, <1>6, <1>9, <1>10, <1>11, OneUpload
<1>13. lock' \in [Tickets -> Uploads \union Events \union {None}] /\ store' \intersect used \subseteq store
  BY <1>0 DEF RetentionTypeOK
<1> QED BY <1>0, <1>7, <1>8, <1>12, <1>13, StoreStepPreserves

(* Locks that are released.                                                 *)
LEMMA Releases ==
  ASSUME RetentionTypeOK, NEW x, lock' = Release(x)
  PROVE  /\ lock' \in [Tickets -> Uploads \union Events \union {None}]
         /\ \A t \in Tickets : lock[t] # x => lock'[t] = lock[t]
         /\ \A t \in Tickets : lock[t] = x => lock'[t] = None
BY DEF Release, RetentionTypeOK

LEMMA UploadFailsPreserves ==
  ASSUME RetInv, NEW u \in Uploads, NEW orphans, UploadFails(u, orphans),
         UNCHANGED <<runVars, effectVars>>
  PROVE  RetInv'
<1> DEFINE old == upload[u].stored
           new == [upload[u] EXCEPT !.step = "cleaning"]
<1>0. /\ RetentionTypeOK /\ StoreTypeOK /\ FilesInv /\ UploadInv
      /\ old \in Seq(Objects) /\ orphans \subseteq Objects \ used
      /\ upload' = [upload EXCEPT ![u] = new] /\ store' = store \union orphans
      /\ used' = used \union orphans /\ lost' = lost \union orphans /\ lock' = Release(u)
      /\ UNCHANGED <<day, tickets, row, uploaded, accessed, job, jobDone, run>>
  BY UploadFacts DEF UploadFails, runVars, effectVars
<1>1. /\ new.step = "cleaning" /\ new.stored = old
      /\ new \in [step : {"idle", "received", "storing", "cleaning"},
                  ticket : Tickets \union {None}, stored : Seq(Objects)]
  BY <1>0 DEF StoreTypeOK
<1>2. \A i \in DOMAIN old : old[i] \in StoredBy(u) /\ old[i] \in store /\ row[old[i]] = None
  BY <1>0 DEF UploadInv, StoredBy
<1>3. \A i, j \in DOMAIN old : old[i] = old[j] => i = j
  BY <1>0 DEF UploadInv
<1>4. \A o \in orphans : row[o] = None /\ job[o] = None
  BY <1>0 DEF FilesInv, StoreTypeOK
<1>5. StoreTypeOK'
  BY <1>0, <1>1 DEF StoreTypeOK
<1>6. FilesInv'
  BY <1>0, <1>4 DEF FilesInv, StoreTypeOK, RetentionTypeOK
<1>7. \A v \in Uploads \ {u} : \A p \in StoredBy(v) : p \in store'
  BY <1>0 DEF UploadInv
<1> HIDE DEF old, new
<1>8. /\ lock' \in [Tickets -> Uploads \union Events \union {None}] /\ store' \intersect used \subseteq store
      /\ \A t \in Tickets : lock[t] # u => lock'[t] = lock[t]
  BY <1>0, Releases
<1>9. \A v \in Uploads \ {u} : \A t \in Tickets : lock[t] = v => lock'[t] = v
  BY <1>8
<1>10. \A i \in DOMAIN new.stored :
         /\ new.stored[i] \in StoredBy(u) \/ new.stored[i] \in Objects \ used
         /\ new.stored[i] \in store' /\ row[new.stored[i]] = None
  BY <1>0, <1>1, <1>2
<1>11. UploadInv'
  BY <1>0, <1>1, <1>3, <1>7, <1>9, <1>10, OneUpload
<1> QED BY <1>0, <1>5, <1>6, <1>8, <1>11, Numbers, StoreStepPreserves

LEMMA UploadCrashPreserves ==
  ASSUME RetInv, NEW u \in Uploads, UploadCrash(u), UNCHANGED <<runVars, effectVars>>
  PROVE  RetInv'
<1>0. /\ RetentionTypeOK /\ StoreTypeOK /\ FilesInv /\ UploadInv /\ StoredBy(u) \subseteq Objects
      /\ upload' = [upload EXCEPT ![u] = Idle] /\ lost' = lost \union StoredBy(u) /\ lock' = Release(u)
      /\ UNCHANGED <<day, tickets, row, uploaded, accessed, store, used, job, jobDone, run>>
  BY UploadFacts DEF UploadCrash, runVars, effectVars
<1>1. /\ Idle.step = "idle" /\ Idle.stored = << >>
      /\ Idle \in [step : {"idle", "received", "storing", "cleaning"},
                   ticket : Tickets \union {None}, stored : Seq(Objects)]
  BY DEF Idle
<1>2. StoreTypeOK'
  BY <1>0, <1>1 DEF StoreTypeOK
<1>3. FilesInv'
  BY <1>0, FilesSame
<1>4. /\ lock' \in [Tickets -> Uploads \union Events \union {None}]
      /\ \A t \in Tickets : lock[t] # u => lock'[t] = lock[t]
  BY <1>0, Releases
<1>5. \A v \in Uploads \ {u} : \A t \in Tickets : lock[t] = v => lock'[t] = v
  BY <1>4
<1>6. \A v \in Uploads \ {u} : \A p \in StoredBy(v) : p \in store'
  BY <1>0 DEF UploadInv
<1>7. UploadInv'
  BY <1>0, <1>1, <1>5, <1>6, EmptyUpload
<1> QED BY <1>0, <1>2, <1>3, <1>4, <1>7, Numbers, StoreStepPreserves

LEMMA RecordAttachmentsPreserves ==
  ASSUME RetInv, NEW u \in Uploads, RecordAttachments(u), UNCHANGED <<runVars, effectVars>>
  PROVE  RetInv'
<1> DEFINE t == upload[u].ticket
           S == StoredBy(u)
<1>0. /\ RetentionTypeOK /\ StoreTypeOK /\ FilesInv /\ UploadInv /\ S \subseteq Objects
      /\ upload' = [upload EXCEPT ![u] = Idle] /\ lock' = Release(u)
      /\ row' = [o \in Objects |-> IF o \in S THEN t ELSE row[o]]
      /\ uploaded' = [o \in Objects |-> IF o \in S THEN day ELSE uploaded[o]]
      /\ UNCHANGED <<day, tickets, accessed, store, used, lost, job, jobDone, run>>
  BY UploadFacts DEF RecordAttachments, runVars, effectVars
<1>1. t \in tickets /\ t \in Tickets /\ lock[t] = u
  BY <1>0 DEF UploadInv, RecordAttachments, StoreTypeOK
<1>2. \A o \in S : o \in store /\ row[o] = None /\ job[o] = None
  BY <1>0 DEF UploadInv
<1>3. \A v \in Uploads \ {u} : StoredBy(v)' = StoredBy(v) /\ StoredBy(v) \intersect S = {}
  <2>1. \A v \in Uploads \ {u} : StoredBy(v)' = StoredBy(v)
    BY <1>0 DEF StoredBy, StoreTypeOK
  <2>2. \A v \in Uploads \ {u} : StoredBy(v) \intersect S = {}
    BY <1>0 DEF UploadInv
  <2> QED BY <2>1, <2>2
<1>4. StoredBy(u)' = {}
  BY <1>0 DEF StoredBy, StoreTypeOK, Idle
<1> HIDE DEF t, S
<1>5. Idle \in [step : {"idle", "received", "storing", "cleaning"},
               ticket : Tickets \union {None}, stored : Seq(Objects)]
  BY DEF Idle
<1>6. StoreTypeOK'
  <2>1. row' \in [Objects -> Tickets \union {None}]
    BY <1>0, <1>1 DEF StoreTypeOK
  <2>2. uploaded' \in [Objects -> Dates]
    BY <1>0 DEF StoreTypeOK, RetentionTypeOK
  <2> QED BY <1>0, <1>5, <2>1, <2>2 DEF StoreTypeOK
<1>7. FilesInv'
  BY <1>0, <1>1, <1>2 DEF FilesInv, RetentionTypeOK
<1>8. /\ lock' \in [Tickets -> Uploads \union Events \union {None}]
      /\ \A s \in Tickets : lock[s] # u => lock'[s] = lock[s]
  BY <1>0, Releases
<1>9. UploadInv'
  <2>1. \A v \in Uploads : \A o \in StoredBy(v)' :
          o \in store' /\ row'[o] = None /\ job'[o] = None
    <3> SUFFICES ASSUME NEW v \in Uploads, NEW o \in StoredBy(v)'
                 PROVE  o \in store' /\ row'[o] = None /\ job'[o] = None
      OBVIOUS
    <3>1. v # u /\ o \in StoredBy(v) /\ o \notin S
      BY <1>3, <1>4
    <3>2. o \in store /\ row[o] = None /\ job[o] = None /\ o \in Objects
      BY <1>0, <3>1, UploadFacts DEF UploadInv
    <3> QED BY <1>0, <3>1, <3>2
  <2>2. \A v, w \in Uploads : v # w => StoredBy(v)' \intersect StoredBy(w)' = {}
    BY <1>0, <1>3, <1>4 DEF UploadInv
  <2>3. \A v \in Uploads \ {u} : upload'[v] = upload[v]
    BY <1>0 DEF StoreTypeOK
  <2>4. upload'[u].step = "idle" /\ upload'[u].stored = << >>
    BY <1>0 DEF StoreTypeOK, Idle
  <2>5. \A v \in Uploads : \A i, j \in DOMAIN upload'[v].stored :
          upload'[v].stored[i] = upload'[v].stored[j] => i = j
    <3>1. DOMAIN upload'[u].stored = {}
      BY <2>4
    <3> QED BY <1>0, <2>3, <3>1 DEF UploadInv
  <2>6. \A v \in Uploads :
          /\ upload'[v].step \in {"idle", "received"} => upload'[v].stored = << >>
          /\ upload'[v].step = "storing" =>
               upload'[v].ticket \in tickets' /\ lock'[upload'[v].ticket] = v
    <3> SUFFICES ASSUME NEW v \in Uploads, v # u
                 PROVE  /\ upload[v].step \in {"idle", "received"} => upload[v].stored = << >>
                        /\ upload[v].step = "storing" =>
                             upload[v].ticket \in tickets' /\ lock'[upload[v].ticket] = v
      BY <2>3, <2>4
    <3> QED BY <1>0, <1>8 DEF UploadInv, StoreTypeOK
  <2> QED BY <2>1, <2>2, <2>5, <2>6 DEF UploadInv
<1>10. \A e \in Events : \A s \in Tickets : lock[s] = e =>
         /\ lock'[s] = e
         /\ \A o \in Objects : row'[o] = s <=> row[o] = s
         /\ \A o \in Objects : row[o] = s => uploaded'[o] = uploaded[o]
  <2> SUFFICES ASSUME NEW e \in Events, NEW s \in Tickets, lock[s] = e
               PROVE  /\ lock'[s] = e
                      /\ \A o \in Objects : row'[o] = s <=> row[o] = s
                      /\ \A o \in Objects : row[o] = s => uploaded'[o] = uploaded[o]
    OBVIOUS
  <2>1. e # u /\ s # t /\ s # None
    BY <1>1, Numbers
  <2> QED BY <1>0, <1>2, <1>8, <2>1
<1> QED BY <1>0, <1>6, <1>7, <1>8, <1>9, <1>10, StoreStepPreserves

LEMMA CleanupPreserves ==
  ASSUME RetInv, NEW u \in Uploads, NEW fails \in BOOLEAN, CleanupStoredObjects(u, fails),
         UNCHANGED <<runVars, effectVars>>
  PROVE  RetInv'
<1> DEFINE old == upload[u].stored
           n == Len(old)
<1>0. /\ RetentionTypeOK /\ StoreTypeOK /\ FilesInv /\ UploadInv
      /\ old \in Seq(Objects) /\ n \in Nat /\ upload[u].step = "cleaning"
      /\ UNCHANGED <<day, tickets, lock, row, uploaded, accessed, used, job, jobDone, run>>
      /\ lock \in [Tickets -> Uploads \union Events \union {None}]
  BY UploadFacts DEF CleanupStoredObjects, runVars, effectVars, RetentionTypeOK
<1>1. \A v \in Uploads \ {u} : \A p \in StoredBy(v) : p \in store
  BY <1>0 DEF UploadInv
<1>2. CASE n = 0
  <2>1. upload' = [upload EXCEPT ![u] = Idle] /\ UNCHANGED <<store, lost>>
    BY <1>2 DEF CleanupStoredObjects
  <2>2. /\ Idle.step = "idle" /\ Idle.stored = << >>
        /\ Idle \in [step : {"idle", "received", "storing", "cleaning"},
                     ticket : Tickets \union {None}, stored : Seq(Objects)]
    BY DEF Idle
  <2>3. StoreTypeOK'
    BY <1>0, <2>1, <2>2 DEF StoreTypeOK
  <2>4. FilesInv'
    BY <1>0, <2>1, FilesSame
  <2>5. UploadInv'
    BY <1>0, <1>1, <2>1, <2>2, EmptyUpload
  <2> QED BY <1>0, <2>1, <2>3, <2>4, <2>5, StoreStepPreserves
<1>3. CASE n # 0
  <2> DEFINE last == old[n]
             new == [upload[u] EXCEPT !.stored = SubSeq(old, 1, n - 1)]
  <2>1. /\ upload' = [upload EXCEPT ![u] = new]
        /\ store' = store \/ store' = store \ {last}
        /\ lost' = lost \/ lost' = lost \union {last}
    BY <1>3 DEF CleanupStoredObjects
  <2>2. /\ last \in Objects /\ last \in StoredBy(u) /\ n \in DOMAIN old
        /\ SubSeq(old, 1, n - 1) \in Seq(Objects)
        /\ \A i \in DOMAIN SubSeq(old, 1, n - 1) :
             i \in DOMAIN old /\ i # n /\ SubSeq(old, 1, n - 1)[i] = old[i]
    BY <1>0, <1>3 DEF StoredBy
  <2>3. /\ new.step = "cleaning" /\ new.stored = SubSeq(old, 1, n - 1)
        /\ new \in [step : {"idle", "received", "storing", "cleaning"},
                    ticket : Tickets \union {None}, stored : Seq(Objects)]
    <3>1. upload[u] \in [step : {"idle", "received", "storing", "cleaning"},
                        ticket : Tickets \union {None}, stored : Seq(Objects)]
      BY <1>0 DEF StoreTypeOK
    <3> HIDE DEF old, n
    <3> QED BY <1>0, <2>2, <3>1
  <2>4. \A i \in DOMAIN old : old[i] \in StoredBy(u) /\ old[i] \in store /\ row[old[i]] = None
    BY <1>0 DEF UploadInv, StoredBy
  <2>5. \A i, j \in DOMAIN old : old[i] = old[j] => i = j
    BY <1>0 DEF UploadInv
  <2> HIDE DEF new, old, n
  <2>6. StoreTypeOK'
    BY <1>0, <2>1, <2>2, <2>3 DEF StoreTypeOK
  <2>7. FilesInv'
    <3>1. row[last] = None
      BY <2>2, <2>4
    <3>2. store' \subseteq store /\ \A o \in Objects : row[o] # None => o # last
      BY <2>1, <3>1
    <3> QED BY <1>0, <2>1, <3>2 DEF FilesInv, RetentionTypeOK
  <2>8. \A v \in Uploads \ {u} : \A p \in StoredBy(v) : p \in store'
    <3>1. \A v \in Uploads \ {u} : last \notin StoredBy(v)
      BY <1>0, <2>2 DEF UploadInv
    <3> QED BY <1>1, <2>1, <3>1
  <2> HIDE DEF last
  <2>9. \A i \in DOMAIN new.stored :
          /\ new.stored[i] \in StoredBy(u) \/ new.stored[i] \in Objects \ used
          /\ new.stored[i] \in store' /\ row[new.stored[i]] = None
    <3>1. \A i \in DOMAIN new.stored : i \in DOMAIN old /\ i # n /\ new.stored[i] = old[i]
      BY <2>2, <2>3
    <3>2. \A i \in DOMAIN new.stored : new.stored[i] # last
      BY <2>2, <2>5, <3>1 DEF last
    <3> QED BY <2>1, <2>4, <3>1, <3>2
  <2>10. \A i, j \in DOMAIN new.stored : new.stored[i] = new.stored[j] => i = j
    BY <2>2, <2>3, <2>5
  <2>11. UploadInv'
    BY <1>0, <2>1, <2>2, <2>3, <2>8, <2>9, <2>10, OneUpload
  <2>12. store' \intersect used \subseteq store
    BY <2>1
  <2> QED BY <1>0, <2>6, <2>7, <2>11, <2>12, StoreStepPreserves
<1> QED BY <1>2, <1>3

LEMMA DownloadPreserves ==
  ASSUME RetInv, NEW o \in Objects, Download(o, AttachmentLocked(o)),
         UNCHANGED <<runVars, effectVars>>
  PROVE  RetInv'
<1>0. /\ RetentionTypeOK /\ StoreTypeOK /\ FilesInv /\ UploadInv
      /\ UNCHANGED <<day, tickets, lock, row, uploaded, store, used, upload, lost, job, jobDone, run>>
      /\ accessed' = [accessed EXCEPT ![o] = day]
      /\ lock \in [Tickets -> Uploads \union Events \union {None}]
  BY DEF Download, runVars, effectVars, RetInv, RetentionTypeOK
<1>1. StoreTypeOK'
  BY <1>0 DEF StoreTypeOK, RetentionTypeOK
<1>2. FilesInv' /\ UploadInv'
  BY <1>0, FilesSame, UploadsSame
<1> QED BY <1>0, <1>1, <1>2, StoreStepPreserves

LEMMA StorePreserves ==
  ASSUME RetInv, StoreSteps
  PROVE  RetInv'
<1>1. UNCHANGED <<runVars, effectVars>>
  BY DEF StoreSteps
<1>2. ASSUME NEW u \in Uploads, UploadStep(u)
      PROVE  RetInv'
  <2>1. CASE (\E t \in tickets : ReceiveUpload(u, t)) \/ LockTicket(u) \/ RefuseUpload(u)
    BY <1>1, <2>1, RequestPreserves
  <2>2. CASE \E o \in Objects : UploadToMinio(u, o)
    BY <1>1, <2>2, UploadToMinioPreserves
  <2>3. CASE \E orphans \in {{}} \union {{o} : o \in Objects} : UploadFails(u, orphans)
    BY <1>1, <2>3, UploadFailsPreserves
  <2>4. CASE RecordAttachments(u)
    BY <1>1, <2>4, RecordAttachmentsPreserves
  <2>5. CASE \E fails \in BOOLEAN : CleanupStoredObjects(u, fails)
    BY <1>1, <2>5, CleanupPreserves
  <2>6. CASE UploadCrash(u)
    BY <1>1, <2>6, UploadCrashPreserves
  <2> QED BY <1>2, <2>1, <2>2, <2>3, <2>4, <2>5, <2>6 DEF UploadStep
<1>3. ASSUME NEW o \in Objects, Download(o, AttachmentLocked(o))
      PROVE  RetInv'
  BY <1>1, <1>3, DownloadPreserves
<1> QED BY <1>2, <1>3 DEF StoreSteps

-----------------------------------------------------------------------------
(* Workers.                                                                 *)

(* The part of a step of a worker that does not concern the workers.        *)
LEMMA WorkerStepPreserves ==
  ASSUME RetInv, UNCHANGED <<day, tickets, lock, row, uploaded, accessed, used, upload, lost,
                             runVars, job>>,
         store' \subseteq store, \A o \in store \ store' : job[o] # None,
         jobDone' \subseteq {o \in Objects : job[o] # None}, jobDone' \intersect store' = {},
         cleaned' \subseteq Events, certificates' \subseteq cleaned', exported' \subseteq certificates',
         worker' \in [Workers -> [step : {"idle", "claimed", "deleted", "locked"},
                                 object : Objects \union {None}, last : BOOLEAN]],
         WorkerInv'
  PROVE  RetInv'
<1>0. RetentionTypeOK /\ StoreTypeOK /\ FilesInv /\ UploadInv
  BY DEF RetInv, RetentionTypeOK
<1>1. StoreTypeOK'
  BY <1>0 DEF StoreTypeOK
<1>2. RetentionTypeOK'
  BY <1>0, <1>1 DEF RetentionTypeOK, runVars
<1>3. FilesInv'
  BY <1>0 DEF FilesInv, runVars
<1>4. UploadInv'
  <2>1. \A u \in Uploads : StoredBy(u)' = StoredBy(u)
    BY DEF StoredBy
  <2>2. \A u \in Uploads : \A o \in StoredBy(u) : o \in store'
    BY <1>0 DEF UploadInv
  <2> QED BY <1>0, <2>1, <2>2 DEF UploadInv
<1>5. \A e \in Events : Undisturbed(e)
  BY <1>0, StoreAssumption DEF Undisturbed, runVars, RetentionTypeOK
<1> QED BY <1>2, <1>3, <1>4, <1>5, RunsSame DEF RetInv

(* A worker's new record.                                                   *)
LEMMA SetWorkerFacts ==
  ASSUME RetentionTypeOK, NEW w \in Workers, NEW step \in {"idle", "claimed", "deleted", "locked"},
         NEW o \in Objects \union {None}, NEW last \in BOOLEAN, SetWorker(w, step, o, last)
  PROVE  /\ worker' \in [Workers -> [step : {"idle", "claimed", "deleted", "locked"},
                                     object : Objects \union {None}, last : BOOLEAN]]
         /\ worker'[w].step = step /\ worker'[w].object = o /\ worker'[w].last = last
         /\ \A v \in Workers : v # w => worker'[v] = worker[v]
BY DEF SetWorker, RetentionTypeOK

LEMMA WorkersPreserve ==
  ASSUME RetInv, NEW w \in Workers, WorkerSteps(w)
  PROVE  RetInv'
<1>0. /\ RetentionTypeOK /\ StoreTypeOK /\ FilesInv /\ WorkerInv
      /\ jobDone \subseteq {o \in Objects : job[o] # None} /\ jobDone \intersect store = {}
      /\ cleaned \subseteq Events /\ certificates \subseteq cleaned /\ exported \subseteq certificates
      /\ worker[w].object \in Objects \union {None}
  BY DEF RetInv, RetentionTypeOK, FilesInv
<1>1. ASSUME NEW o \in Objects, ClaimJob(w, o)
      PROVE  RetInv'
  <2>1. SetWorker(w, "claimed", o, FALSE)
    BY <1>1 DEF ClaimJob
  <2>2. /\ worker' \in [Workers -> [step : {"idle", "claimed", "deleted", "locked"},
                                    object : Objects \union {None}, last : BOOLEAN]]
        /\ worker'[w].step = "claimed" /\ worker'[w].object = o
        /\ \A v \in Workers : v # w => worker'[v] = worker[v]
    BY <1>0, <2>1, SetWorkerFacts
  <2>3. /\ job[o] # None /\ o \notin jobDone /\ \A v \in Workers : worker[v].object # o
        /\ UNCHANGED <<day, tickets, lock, storeVars, runVars, job, jobDone, cleaned,
                       certificates, exported>>
    BY <1>1 DEF ClaimJob
  <2>4. WorkerInv'
    BY <1>0, <2>2, <2>3 DEF WorkerInv, storeVars, runVars
  <2> QED BY <1>0, <2>2, <2>3, <2>4, WorkerStepPreserves DEF storeVars
<1>2. CASE DeleteObject(w)
  <2> DEFINE o == worker[w].object
  <2>0. o \in Objects /\ job[o] # None
    BY <1>0, <1>2 DEF DeleteObject, WorkerInv
  <2>1. SetWorker(w, "deleted", o, FALSE)
    BY <1>2 DEF DeleteObject
  <2>2. /\ worker' \in [Workers -> [step : {"idle", "claimed", "deleted", "locked"},
                                    object : Objects \union {None}, last : BOOLEAN]]
        /\ worker'[w].step = "deleted" /\ worker'[w].object = o
        /\ \A v \in Workers : v # w => worker'[v] = worker[v]
    BY <1>0, <2>0, <2>1, SetWorkerFacts
  <2>3. /\ worker[w].step = "claimed" /\ store' = store \ {o}
        /\ UNCHANGED <<day, tickets, lock, row, uploaded, accessed, used, upload, lost, runVars,
                       job, jobDone, cleaned, certificates, exported>>
    BY <1>2 DEF DeleteObject
  <2>4. WorkerInv'
    BY <1>0, <2>0, <2>2, <2>3 DEF WorkerInv, runVars
  <2> QED BY <1>0, <2>0, <2>2, <2>3, <2>4, WorkerStepPreserves
<1>3. ASSUME NEW deleted \in BOOLEAN, DeleteFails(w, deleted)
      PROVE  RetInv'
  <2> DEFINE o == worker[w].object
  <2>0. o \in Objects /\ job[o] # None
    BY <1>0, <1>3 DEF DeleteFails, WorkerInv
  <2>1. SetWorker(w, "idle", None, FALSE)
    BY <1>3 DEF DeleteFails
  <2>2. /\ worker' \in [Workers -> [step : {"idle", "claimed", "deleted", "locked"},
                                    object : Objects \union {None}, last : BOOLEAN]]
        /\ worker'[w].step = "idle"
        /\ \A v \in Workers : v # w => worker'[v] = worker[v]
    BY <1>0, <2>1, SetWorkerFacts
  <2>3. /\ store' = store \/ store' = store \ {o}
        /\ UNCHANGED <<day, tickets, lock, row, uploaded, accessed, used, upload, lost, runVars,
                       job, jobDone, cleaned, certificates, exported>>
    BY <1>3 DEF DeleteFails
  <2>4. WorkerInv'
    BY <1>0, <2>2, <2>3 DEF WorkerInv, runVars
  <2> QED BY <1>0, <2>0, <2>2, <2>3, <2>4, WorkerStepPreserves
<1>4. CASE LockEvent(w)
  <2> DEFINE o == worker[w].object
             last == OthersDone(o)
  <2>0. o \in Objects /\ job[o] # None /\ last \in BOOLEAN
    BY <1>0, <1>4 DEF LockEvent, WorkerInv, OthersDone
  <2>1. SetWorker(w, "locked", o, last)
    BY <1>4 DEF LockEvent
  <2> HIDE DEF last
  <2>2. /\ worker' \in [Workers -> [step : {"idle", "claimed", "deleted", "locked"},
                                    object : Objects \union {None}, last : BOOLEAN]]
        /\ worker'[w].step = "locked" /\ worker'[w].object = o /\ worker'[w].last = last
        /\ \A v \in Workers : v # w => worker'[v] = worker[v]
    BY <1>0, <2>0, <2>1, SetWorkerFacts
  <2>3. /\ worker[w].step = "deleted"
        /\ \A v \in Workers : worker[v].step = "locked" => job[worker[v].object] # job[o]
        /\ UNCHANGED <<day, tickets, lock, storeVars, runVars, job, jobDone, cleaned,
                       certificates, exported>>
    BY <1>4 DEF LockEvent
  <2>4. last => \A p \in Objects \ {o} : job[p] = job[o] => p \in jobDone
    BY DEF last, OthersDone
  <2>5. WorkerInv'
    BY <1>0, <2>0, <2>2, <2>3, <2>4 DEF WorkerInv, storeVars, runVars
  <2> QED BY <1>0, <2>2, <2>3, <2>5, WorkerStepPreserves DEF storeVars
<1>5. CASE CompleteJob(w)
  <2> DEFINE o == worker[w].object
  <2>0. /\ o \in Objects /\ job[o] # None /\ o \notin store /\ job[o] \in Events
        /\ run[job[o]] = Committed
    BY <1>0, <1>5 DEF CompleteJob, WorkerInv, RetentionTypeOK, FilesInv
  <2>1. SetWorker(w, "idle", None, FALSE)
    BY <1>5 DEF CompleteJob
  <2>2. /\ worker' \in [Workers -> [step : {"idle", "claimed", "deleted", "locked"},
                                    object : Objects \union {None}, last : BOOLEAN]]
        /\ worker'[w].step = "idle"
        /\ \A v \in Workers : v # w => worker'[v] = worker[v]
    BY <1>0, <2>1, SetWorkerFacts
  <2>3. /\ worker[w].step = "locked" /\ jobDone' = jobDone \union {o}
        /\ cleaned' = IF worker[w].last THEN cleaned \union {job[o]} ELSE cleaned
        /\ UNCHANGED <<day, tickets, lock, storeVars, runVars, job, certificates, exported>>
    BY <1>5 DEF CompleteJob
  <2>4. worker[w].last => \A p \in Objects \ {o} : job[p] = job[o] => p \in jobDone
    BY <1>0, <2>3 DEF WorkerInv
  <2>5. \A e \in cleaned' : run'[e] = Committed /\ \A p \in Objects : job'[p] = e => p \in jobDone'
    BY <1>0, <2>0, <2>3, <2>4 DEF WorkerInv, runVars
  <2>6. \A v \in Workers : v # w /\ worker[v].step # "idle" => worker[v].object # o
    BY <1>0, <2>3 DEF WorkerInv
  <2>7. WorkerInv'
    BY <1>0, <2>2, <2>3, <2>5, <2>6 DEF WorkerInv, storeVars
  <2>8. cleaned' \subseteq Events /\ cleaned \subseteq cleaned'
    BY <1>0, <2>0, <2>3
  <2> QED BY <1>0, <2>0, <2>2, <2>3, <2>7, <2>8, WorkerStepPreserves DEF storeVars
<1>6. CASE WorkerCrash(w)
  <2>1. SetWorker(w, "idle", None, FALSE)
    BY <1>6 DEF WorkerCrash
  <2>2. /\ worker' \in [Workers -> [step : {"idle", "claimed", "deleted", "locked"},
                                    object : Objects \union {None}, last : BOOLEAN]]
        /\ worker'[w].step = "idle"
        /\ \A v \in Workers : v # w => worker'[v] = worker[v]
    BY <1>0, <2>1, SetWorkerFacts
  <2>3. UNCHANGED <<day, tickets, lock, storeVars, runVars, job, jobDone, cleaned,
                    certificates, exported>>
    BY <1>6 DEF WorkerCrash
  <2>4. WorkerInv'
    BY <1>0, <2>2, <2>3 DEF WorkerInv, storeVars, runVars
  <2> QED BY <1>0, <2>2, <2>3, <2>4, WorkerStepPreserves DEF storeVars
<1> QED BY <1>1, <1>2, <1>3, <1>4, <1>5, <1>6 DEF WorkerSteps

(* The certificate of a run is written and recorded.                        *)
LEMMA CertificatePreserves ==
  ASSUME RetInv, NEW e \in Events, WriteCertificate(e) \/ RecordExport(e)
  PROVE  RetInv'
<1>0. /\ RetentionTypeOK /\ WorkerInv /\ jobDone \subseteq {o \in Objects : job[o] # None}
      /\ jobDone \intersect store = {}
      /\ cleaned \subseteq Events /\ certificates \subseteq cleaned /\ exported \subseteq certificates
      /\ worker \in [Workers -> [step : {"idle", "claimed", "deleted", "locked"},
                                 object : Objects \union {None}, last : BOOLEAN]]
  BY DEF RetInv, RetentionTypeOK, FilesInv
<1>1. /\ UNCHANGED <<day, tickets, lock, storeVars, runVars, job, jobDone, cleaned, worker>>
      /\ certificates' \subseteq cleaned /\ exported' \subseteq certificates'
  BY <1>0 DEF WriteCertificate, RecordExport
<1>2. WorkerInv'
  BY <1>0, <1>1 DEF WorkerInv, storeVars, runVars
<1> QED BY <1>0, <1>1, <1>2, WorkerStepPreserves DEF storeVars

-----------------------------------------------------------------------------
(* Runs before their commit.                                                *)

(* A step of a run changes nothing but the run and its locks.               *)
LEMMA RunStepPreserves ==
  ASSUME RetInv, NEW e \in Events, run[e] # Committed,
         NEW new \in RunRecord \union {None}, run' = [run EXCEPT ![e] = new],
         UNCHANGED <<day, tickets, storeVars, held, messages, effectVars>>,
         lock' \in [Tickets -> Uploads \union Events \union {None}],
         \A t \in Tickets : lock[t] # None /\ lock[t] # e => lock'[t] = lock[t],
         new # None => RunOK(e)'
  PROVE  RetInv'
<1>0. /\ RetentionTypeOK /\ StoreTypeOK /\ FilesInv /\ UploadInv /\ WorkerInv
      /\ run'[e] = new /\ \A f \in Events : f # e => run'[f] = run[f]
      /\ run' \in [Events -> RunRecord \union {None, Committed}]
  BY DEF RetInv, RetentionTypeOK
<1>1. StoreTypeOK'
  BY <1>0 DEF StoreTypeOK, storeVars
<1>2. RetentionTypeOK'
  BY <1>0, <1>1 DEF RetentionTypeOK, effectVars, storeVars
<1>3. \A f \in Events : run[f] = Committed => run'[f] = Committed
  BY <1>0
<1>4. FilesInv' /\ WorkerInv'
  BY <1>0, <1>3, FilesSame, WorkersSame DEF storeVars, effectVars
<1>5. \A u \in Uploads : \A t \in Tickets : lock[t] = u => lock'[t] = u
  BY Numbers
<1>6. UploadInv'
  BY <1>0, <1>5, UploadsSame DEF storeVars, effectVars
<1>7. ASSUME NEW f \in Events
      PROVE  RunInv(f)'
  <2>1. CASE f = e
    BY <1>0, <2>1 DEF RunInv, InProgress
  <2>2. CASE f # e
    <3>1. \A t \in Tickets : lock[t] = f => lock'[t] = f
      BY <2>2, Numbers
    <3>2. day <= day' /\ day' \in Dates
      BY <1>0, StoreAssumption DEF RetentionTypeOK
    <3>3. Undisturbed(f)
      BY <1>0, <2>2, <3>1, <3>2 DEF Undisturbed, storeVars
    <3> QED BY <1>0, <3>3, RunStable DEF RetInv
  <2> QED BY <2>1, <2>2
<1> QED BY <1>2, <1>4, <1>6, <1>7 DEF RetInv

(* What a step of a run that is in progress starts from.                    *)
LEMMA RunFacts ==
  ASSUME RetInv, NEW e \in Events, InProgress(e)
  PROVE  /\ RetentionTypeOK /\ StoreTypeOK /\ RunOK(e) /\ run[e] \in RunRecord
         /\ run[e] # Committed /\ run[e] # None
         /\ tickets \subseteq Tickets /\ messages \subseteq tickets \X Dates
         /\ day \in Dates /\ lock \in [Tickets -> Uploads \union Events \union {None}]
BY DEF RetInv, RunInv, RunOK, InProgress, RetentionTypeOK, StoreTypeOK

LEMMA StartRunPreserves ==
  ASSUME RetInv, NEW e \in Events, NEW p \in Policies, NEW only \in SUBSET DOMAIN p,
         StartRun(e, p, only)
  PROVE  RetInv'
<1> DEFINE new == [step |-> "next", now |-> day, policy |-> p, todo |-> only, table |-> None,
                   candidates |-> {}, selected |-> {}, selectedMessages |-> {},
                   gone |-> {}, goneMessages |-> {}, jobs |-> {}]
<1>0. /\ RetentionTypeOK /\ run[e] = None /\ run' = [run EXCEPT ![e] = new]
      /\ UNCHANGED <<day, tickets, lock, storeVars, held, messages, effectVars>>
      /\ run \in [Events -> RunRecord \union {None, Committed}] /\ day \in Dates
      /\ lock \in [Tickets -> Uploads \union Events \union {None}]
  BY DEF StartRun, RetInv, RetentionTypeOK
<1>1. only \subseteq {"ticket_message", "ticket"}
  BY PolicyAssumption
<1>2. new \in RunRecord
  BY <1>0, <1>1 DEF RunRecord
<1>3. run'[e] = new
  BY <1>0
<1>4. /\ run'[e] \in RunRecord /\ run'[e].now = day /\ run'[e].todo = only /\ run'[e].policy = p
      /\ run'[e].gone = {} /\ run'[e].jobs = {} /\ run'[e].step = "next" /\ run'[e].selected = {}
      /\ run'[e].selectedMessages = {} /\ run'[e].goneMessages = {}
  BY <1>2, <1>3
<1>5. AttachmentsOf({})' = {}
  BY DEF AttachmentsOf
<1>6. day \in Nat /\ day' = day
  BY <1>0, StoreAssumption
<1> HIDE DEF new
<1>7. RunOK(e)'
  BY <1>4, <1>5, <1>6 DEF RunOK
<1> QED BY <1>0, <1>2, <1>7, Numbers, RunStepPreserves

(* The operators read nothing of a run but what it has deleted, its policy  *)
(* and the moment it began.                                                 *)
LEMMA SameReading ==
  ASSUME NEW e \in Events, UNCHANGED <<day, tickets, storeVars, held, messages>>,
         run'[e].now = run[e].now, run'[e].policy = run[e].policy,
         run'[e].gone = run[e].gone, run'[e].goneMessages = run[e].goneMessages
  PROVE  /\ \A table, d : Expired(e, table, d)' <=> Expired(e, table, d)
         /\ \A table : CandidateTicketIds(e, table)' = CandidateTicketIds(e, table)
         /\ \A S : AttachmentsOf(S)' = AttachmentsOf(S)
<1>1. \A table, d : Expired(e, table, d)' <=> Expired(e, table, d)
  BY DEF Expired
<1>2. TicketsLeft(e)' = TicketsLeft(e) /\ MessagesLeft(e)' = MessagesLeft(e)
  BY DEF TicketsLeft, MessagesLeft
<1>3. \A S : AttachmentsOf(S)' = AttachmentsOf(S)
  BY DEF AttachmentsOf, storeVars
<1> HIDE DEF TicketsLeft, MessagesLeft, Expired
<1>4. \A table : CandidateTicketIds(e, table)' = CandidateTicketIds(e, table)
  BY <1>1, <1>2 DEF CandidateTicketIds
<1> QED BY <1>1, <1>3, <1>4

LEMMA SameGood ==
  ASSUME NEW e \in Events, UNCHANGED <<day, tickets, storeVars, held, messages>>,
         \A t \in tickets : lock[t] = e => lock'[t] = e,
         run'[e].now = run[e].now, run'[e].policy = run[e].policy
  PROVE  /\ \A t : GoodTicket(e, t) => GoodTicket(e, t)'
         /\ \A m : GoodMessage(e, m) => GoodMessage(e, m)'
<1>1. \A table, d : Expired(e, table, d)' <=> Expired(e, table, d)
  BY DEF Expired
<1> HIDE DEF Expired
<1> QED BY <1>1 DEF GoodTicket, GoodMessage, storeVars

LEMMA CandidatesAreTickets ==
  ASSUME RetentionTypeOK, NEW e \in Events, NEW table
  PROVE  CandidateTicketIds(e, table) \subseteq tickets
<1>1. messages \subseteq tickets \X Dates
  BY DEF RetentionTypeOK
<1>2. TicketsLeft(e) \subseteq tickets /\ MessagesLeft(e) \subseteq messages
  BY DEF TicketsLeft, MessagesLeft
<1> QED BY <1>1, <1>2 DEF CandidateTicketIds

LEMMA ListPreserves ==
  ASSUME RetInv, NEW e \in Events, NEW table \in {"ticket_message", "ticket"},
         ListCandidates(e, table)
  PROVE  RetInv'
<1> DEFINE C == CandidateTicketIds(e, table)
           new == [run[e] EXCEPT !.step = "locking", !.table = table, !.candidates = C]
<1>0. /\ InProgress(e) /\ run[e].step = "next" /\ table \in run[e].todo
      /\ UNCHANGED <<day, tickets, lock, storeVars, held, messages, effectVars>>
      /\ run' = [run EXCEPT ![e].step = "locking", ![e].table = table, ![e].candidates = C]
  BY DEF ListCandidates
<1>1. /\ RetentionTypeOK /\ RunOK(e) /\ run[e] \in RunRecord /\ run[e] # Committed /\ tickets \subseteq Tickets
      /\ lock \in [Tickets -> Uploads \union Events \union {None}]
      /\ run \in [Events -> RunRecord \union {None, Committed}]
  BY <1>0, RunFacts DEF RetentionTypeOK
<1>2. C \subseteq Tickets
  BY <1>1, CandidatesAreTickets
<1> HIDE DEF C
<1>3. run' = [run EXCEPT ![e] = new] /\ run'[e] = new
  BY <1>0, <1>1
<1>4. new \in RunRecord
  BY <1>1, <1>2 DEF RunRecord
<1>5. /\ new.step = "locking" /\ new.table = table /\ new.candidates = C
      /\ new.now = run[e].now /\ new.policy = run[e].policy /\ new.todo = run[e].todo
      /\ new.gone = run[e].gone /\ new.goneMessages = run[e].goneMessages /\ new.jobs = run[e].jobs
      /\ new.selected = run[e].selected /\ new.selectedMessages = run[e].selectedMessages
  BY <1>1 DEF RunRecord
<1> HIDE DEF new
<1>6. /\ CandidateTicketIds(e, table)' = C
      /\ \A S : AttachmentsOf(S)' = AttachmentsOf(S)
  BY <1>0, <1>3, <1>5, SameReading DEF C
<1>7. /\ \A t : GoodTicket(e, t) => GoodTicket(e, t)'
      /\ \A m : GoodMessage(e, m) => GoodMessage(e, m)'
  BY <1>0, <1>3, <1>5, SameGood
<1>8. run[e].selected = {} /\ run[e].selectedMessages = {}
  BY <1>0, <1>1 DEF RunOK
<1> HIDE DEF GoodTicket, GoodMessage, CandidateTicketIds, AttachmentsOf
<1>9. /\ run'[e].jobs = AttachmentsOf(run[e].gone)'
      /\ run'[e].now <= day'
      /\ \A t \in run'[e].gone \union run'[e].selected : GoodTicket(e, t)'
      /\ \A m \in run'[e].goneMessages \union run'[e].selectedMessages : GoodMessage(e, m)'
  BY <1>0, <1>1, <1>3, <1>5, <1>6, <1>7 DEF RunOK
<1>10. RunOK(e)'
  BY <1>0, <1>1, <1>3, <1>4, <1>5, <1>6, <1>8, <1>9 DEF RunOK
<1> QED BY <1>0, <1>1, <1>3, <1>4, <1>10, RunStepPreserves

LEMMA LockPreserves ==
  ASSUME RetInv, NEW e \in Events, LockHoldGraph(e)
  PROVE  RetInv'
<1>0. /\ InProgress(e) /\ run[e].step = "locking" /\ run' = run
      /\ UNCHANGED <<day, tickets, storeVars, held, messages, effectVars>>
  BY DEF LockHoldGraph, runVars
<1>1. /\ RetentionTypeOK /\ RunOK(e) /\ run[e] \in RunRecord /\ run[e] # Committed
      /\ tickets \subseteq Tickets
      /\ lock \in [Tickets -> Uploads \union Events \union {None}]
      /\ run \in [Events -> RunRecord \union {None, Committed}]
  BY <1>0, RunFacts DEF RetentionTypeOK
<1>2. PICK t \in tickets : lock[t] = None /\ lock' = [lock EXCEPT ![t] = e]
  BY DEF LockHoldGraph, Unlocked
<1>3. /\ lock' \in [Tickets -> Uploads \union Events \union {None}]
      /\ \A s \in Tickets : lock[s] # None => lock'[s] = lock[s]
  BY <1>1, <1>2
<1>4. run' = [run EXCEPT ![e] = run[e]] /\ run'[e] = run[e]
  BY <1>0, <1>1
<1>5. /\ CandidateTicketIds(e, run[e].table)' = CandidateTicketIds(e, run[e].table)
      /\ \A S : AttachmentsOf(S)' = AttachmentsOf(S)
  <2>1. \A table, d : Expired(e, table, d)' <=> Expired(e, table, d)
    BY <1>0 DEF Expired
  <2>2. TicketsLeft(e)' = TicketsLeft(e) /\ MessagesLeft(e)' = MessagesLeft(e)
    BY <1>0 DEF TicketsLeft, MessagesLeft
  <2>3. \A S : AttachmentsOf(S)' = AttachmentsOf(S)
    BY <1>0 DEF AttachmentsOf, storeVars
  <2> HIDE DEF TicketsLeft, MessagesLeft, Expired
  <2>4. CandidateTicketIds(e, run[e].table)' = CandidateTicketIds(e, run[e].table)
    BY <1>0, <2>1, <2>2 DEF CandidateTicketIds
  <2> QED BY <2>3, <2>4
<1>6. /\ \A t1 : GoodTicket(e, t1) => GoodTicket(e, t1)'
      /\ \A m : GoodMessage(e, m) => GoodMessage(e, m)'
  <2>1. \A s \in tickets : lock[s] = e => lock'[s] = e
    BY <1>1, <1>3, Numbers
  <2> QED BY <1>0, <2>1, SameGood
<1> HIDE DEF GoodTicket, GoodMessage, CandidateTicketIds, AttachmentsOf
<1>7. RunOK(e)'
  BY <1>0, <1>1, <1>5, <1>6 DEF RunOK
<1> QED BY <1>0, <1>1, <1>3, <1>4, <1>7, RunStepPreserves

(* Under its locks a run selects nothing that is on hold or not expired.    *)
LEMMA SelectedIsGood ==
  ASSUME RetInv, NEW e \in Events, InProgress(e), run[e].step = "locking", Unlocked(e) = {}
  PROVE  /\ run[e].table = "ticket" => \A t \in DisposableTickets(e) : GoodTicket(e, t)
         /\ run[e].table # "ticket" => \A m \in DisposableMessages(e) : GoodMessage(e, m)
<1>1. /\ RetentionTypeOK /\ RunOK(e) /\ run[e] \in RunRecord /\ messages \subseteq tickets \X Dates
      /\ CandidateTicketIds(e, run[e].table) \subseteq run[e].candidates
      /\ \A t \in run[e].gone : GoodTicket(e, t)
      /\ \A m \in run[e].goneMessages : GoodMessage(e, m)
      /\ run[e].table \in {"ticket_message", "ticket"}
  BY RunFacts, RecordFields DEF RunOK
<1>2. \A t \in CandidateTicketIds(e, run[e].table) : t \in tickets /\ lock[t] = e
  BY <1>1, CandidatesAreTickets DEF Unlocked
<1>3. ASSUME run[e].table = "ticket", NEW t \in DisposableTickets(e)
      PROVE  GoodTicket(e, t)
  <2>1. /\ t \in CandidateTicketIds(e, "ticket") /\ t \notin held /\ ~Blocked(e, t)
        /\ t \in tickets /\ lock[t] = e /\ t \notin run[e].gone
    BY <1>2, <1>3 DEF DisposableTickets, CandidateTicketIds, TicketsLeft
  <2>2. \A o \in Objects : row[o] = t => Expired(e, "ticket", uploaded[o])
    BY <2>1 DEF Blocked
  <2>3. ASSUME NEW m \in messages, m[1] = t
        PROVE  Expired(e, "ticket_message", m[2])
    <3>1. CASE m \in run[e].goneMessages
      BY <1>1, <3>1 DEF GoodMessage
    <3>2. CASE m \notin run[e].goneMessages
      <4>1. m \in MessagesLeft(e)
        BY <2>1, <2>3, <3>2 DEF MessagesLeft
      <4> QED BY <2>1, <2>3, <4>1 DEF Blocked
    <3> QED BY <3>1, <3>2
  <2> QED BY <2>1, <2>2, <2>3 DEF GoodTicket
<1>4. ASSUME run[e].table # "ticket", NEW m \in DisposableMessages(e)
      PROVE  GoodMessage(e, m)
  <2>1. /\ m \in MessagesLeft(e) /\ m[1] \notin held /\ Expired(e, "ticket_message", m[2])
    BY <1>4 DEF DisposableMessages
  <2>2. m[1] \in CandidateTicketIds(e, run[e].table)
    BY <1>1, <1>4, <2>1 DEF CandidateTicketIds
  <2> QED BY <1>2, <2>1, <2>2 DEF GoodMessage
<1> QED BY <1>3, <1>4

LEMMA SelectPreserves ==
  ASSUME RetInv, NEW e \in Events, SelectDisposal(e)
  PROVE  RetInv'
<1> DEFINE S == IF run[e].table = "ticket" THEN DisposableTickets(e) ELSE {}
           M == IF run[e].table = "ticket" THEN {} ELSE DisposableMessages(e)
           new == [run[e] EXCEPT !.step = "selected", !.selected = S, !.selectedMessages = M]
<1>0. /\ InProgress(e) /\ run[e].step = "locking" /\ Unlocked(e) = {}
      /\ UNCHANGED <<day, tickets, lock, storeVars, held, messages, effectVars>>
      /\ run' = [run EXCEPT ![e] = new]
  BY DEF SelectDisposal, Selected
<1>1. /\ RetentionTypeOK /\ RunOK(e) /\ run[e] \in RunRecord /\ run[e] # Committed
      /\ tickets \subseteq Tickets /\ messages \subseteq tickets \X Dates
      /\ lock \in [Tickets -> Uploads \union Events \union {None}]
      /\ run \in [Events -> RunRecord \union {None, Committed}]
  BY <1>0, RunFacts DEF RetentionTypeOK
<1>2. S \subseteq Tickets /\ M \subseteq Tickets \X Dates
  <2>1. DisposableTickets(e) \subseteq tickets
    BY <1>1, CandidatesAreTickets DEF DisposableTickets
  <2>2. DisposableMessages(e) \subseteq messages
    BY DEF DisposableMessages, MessagesLeft
  <2>3. tickets \X Dates \subseteq Tickets \X Dates
    BY <1>1
  <2> QED BY <1>1, <2>1, <2>2, <2>3
<1>3. /\ \A t \in S : GoodTicket(e, t)
      /\ \A m \in M : GoodMessage(e, m)
  BY <1>0, SelectedIsGood
<1>4. run[e].table # "ticket" => S = {}
  OBVIOUS
<1> HIDE DEF S, M
<1>5. /\ new \in RunRecord /\ run'[e] = new
      /\ new.step = "selected" /\ new.selected = S /\ new.selectedMessages = M
      /\ new.now = run[e].now /\ new.policy = run[e].policy /\ new.todo = run[e].todo
      /\ new.gone = run[e].gone /\ new.goneMessages = run[e].goneMessages /\ new.jobs = run[e].jobs
      /\ new.table = run[e].table
  <2>1. new \in RunRecord
    BY <1>1, <1>2 DEF RunRecord
  <2> QED BY <1>0, <1>1, <2>1 DEF RunRecord
<1> HIDE DEF new
<1>6. \A T : AttachmentsOf(T)' = AttachmentsOf(T)
  BY <1>0, <1>5, SameReading
<1>7. /\ \A t : GoodTicket(e, t) => GoodTicket(e, t)'
      /\ \A m : GoodMessage(e, m) => GoodMessage(e, m)'
  BY <1>0, <1>5, SameGood
<1> HIDE DEF GoodTicket, GoodMessage, CandidateTicketIds, AttachmentsOf
<1>8. RunOK(e)'
  BY <1>0, <1>1, <1>3, <1>4, <1>5, <1>6, <1>7 DEF RunOK
<1> QED BY <1>0, <1>1, <1>5, <1>8, RunStepPreserves

LEMMA DeletePreserves ==
  ASSUME RetInv, NEW e \in Events, DeleteWithOrm(e)
  PROVE  RetInv'
<1> DEFINE S == run[e].selected
           F == AttachmentsOf(S)
           new == [run[e] EXCEPT
             !.step = "next", !.todo = run[e].todo \ {run[e].table}, !.candidates = {},
             !.selected = {}, !.selectedMessages = {},
             !.gone = run[e].gone \union S,
             !.goneMessages = run[e].goneMessages \union run[e].selectedMessages,
             !.jobs = run[e].jobs \union F]
<1>0. /\ InProgress(e) /\ run[e].step = "selected"
      /\ UNCHANGED <<day, tickets, lock, storeVars, held, messages, effectVars>>
      /\ run' = [run EXCEPT ![e] = new]
  <2>1. run' = [run EXCEPT ![e] = new]
    <3>1. Deleted(e, F)
      BY DEF DeleteWithOrm
    <3> HIDE DEF F
    <3> QED BY <3>1 DEF Deleted
  <2> QED BY <2>1 DEF DeleteWithOrm
<1>1. /\ RetentionTypeOK /\ RunOK(e) /\ run[e] \in RunRecord /\ run[e] # Committed
      /\ lock \in [Tickets -> Uploads \union Events \union {None}]
      /\ run \in [Events -> RunRecord \union {None, Committed}]
  BY <1>0, RunFacts DEF RetentionTypeOK
<1>2. /\ S \subseteq Tickets /\ F \subseteq Objects
      /\ run[e].gone \subseteq Tickets /\ run[e].goneMessages \subseteq Tickets \X Dates
      /\ run[e].selectedMessages \subseteq Tickets \X Dates /\ run[e].jobs \subseteq Objects
      /\ run[e].todo \subseteq {"ticket_message", "ticket"}
  BY <1>1, RecordFields DEF AttachmentsOf
<1>3. /\ new \in RunRecord /\ run'[e] = new
      /\ new.step = "next" /\ new.selected = {} /\ new.selectedMessages = {}
      /\ new.now = run[e].now /\ new.policy = run[e].policy /\ new.todo = run[e].todo \ {run[e].table}
      /\ new.gone = run[e].gone \union S /\ new.jobs = run[e].jobs \union F
      /\ new.goneMessages = run[e].goneMessages \union run[e].selectedMessages
  <2> HIDE DEF S, F
  <2>1. new \in RunRecord
    BY <1>1, <1>2 DEF RunRecord
  <2> QED BY <1>0, <1>1, <2>1 DEF RunRecord
<1>4. AttachmentsOf(run[e].gone \union S) = AttachmentsOf(run[e].gone) \union F
  BY DEF AttachmentsOf
<1>5. \A T : AttachmentsOf(T)' = AttachmentsOf(T)
  BY <1>0 DEF AttachmentsOf, storeVars
<1> HIDE DEF new, F
<1>6. /\ \A t : GoodTicket(e, t) => GoodTicket(e, t)'
      /\ \A m : GoodMessage(e, m) => GoodMessage(e, m)'
  BY <1>0, <1>3, SameGood
<1>7. "ticket" \in new.todo => new.gone = {} /\ new.jobs = {}
  <2> SUFFICES ASSUME "ticket" \in new.todo
               PROVE  new.gone = {} /\ new.jobs = {}
    OBVIOUS
  <2>1. S = {} /\ run[e].gone = {} /\ run[e].jobs = {}
    BY <1>1, <1>3 DEF RunOK
  <2>2. F = {}
    BY <2>1 DEF F, AttachmentsOf
  <2> QED BY <1>3, <2>1, <2>2
<1> HIDE DEF GoodTicket, GoodMessage, CandidateTicketIds, AttachmentsOf
<1>8. RunOK(e)'
  BY <1>0, <1>1, <1>3, <1>4, <1>5, <1>6, <1>7 DEF RunOK
<1> QED BY <1>0, <1>1, <1>3, <1>8, RunStepPreserves

LEMMA RollBackPreserves ==
  ASSUME RetInv, NEW e \in Events, RollBack(e)
  PROVE  RetInv'
<1>0. /\ RetentionTypeOK /\ run[e] # Committed /\ lock' = Release(e) /\ run' = [run EXCEPT ![e] = None]
      /\ UNCHANGED <<day, tickets, storeVars, held, messages, effectVars>>
  BY RunFacts DEF RollBack
<1>1. /\ lock' \in [Tickets -> Uploads \union Events \union {None}]
      /\ \A t \in Tickets : lock[t] # None /\ lock[t] # e => lock'[t] = lock[t]
  BY <1>0, Releases
<1> QED BY <1>0, <1>1, RunStepPreserves

-----------------------------------------------------------------------------
(* The commit of a run.                                                     *)

(* What commits: the tickets that are gone were locked, and the files that  *)
(* get jobs are the ones that had rows of these tickets.                    *)
LEMMA CommitFacts ==
  ASSUME RetInv, NEW e \in Events, CommitRun(e)
  PROVE  /\ RetentionTypeOK /\ StoreTypeOK /\ FilesInv /\ UploadInv /\ WorkerInv /\ RunOK(e)
         /\ run[e] # Committed /\ run' = [run EXCEPT ![e] = Committed] /\ lock' = Release(e)
         /\ \A t \in run[e].gone : t \in tickets /\ t \in Tickets /\ t # None /\ lock[t] = e
         /\ run[e].jobs = AttachmentsOf(run[e].gone)
         /\ \A o \in Objects : o \in run[e].jobs <=> row[o] \in run[e].gone
         /\ \A o \in run[e].jobs :
              o \in Objects /\ row[o] # None /\ job[o] = None /\ o \in store /\ o \in used
<1>1. InProgress(e)
  BY DEF CommitRun
<1>2. /\ RetentionTypeOK /\ StoreTypeOK /\ FilesInv /\ UploadInv /\ WorkerInv /\ RunOK(e)
      /\ run[e] # Committed /\ run[e].gone \subseteq Tickets
  BY <1>1, RunFacts, RecordFields DEF RetInv
<1>3. run' = [run EXCEPT ![e] = Committed] /\ lock' = Release(e)
  BY DEF CommitRun
<1>4. \A t \in run[e].gone : t \in tickets /\ t \in Tickets /\ t # None /\ lock[t] = e
  BY <1>2, Numbers DEF RunOK, GoodTicket
<1>5. run[e].jobs = AttachmentsOf(run[e].gone)
  BY <1>2 DEF RunOK
<1>6. \A o \in Objects : o \in run[e].jobs <=> row[o] \in run[e].gone
  BY <1>5 DEF AttachmentsOf
<1>7. run[e].jobs \subseteq Objects
  BY <1>5 DEF AttachmentsOf
<1>8. \A o \in run[e].jobs :
        o \in Objects /\ row[o] # None /\ job[o] = None /\ o \in store /\ o \in used
  BY <1>2, <1>4, <1>6, <1>7 DEF FilesInv, StoreTypeOK
<1> QED BY <1>2, <1>3, <1>4, <1>5, <1>6, <1>8

LEMMA CommitPreserves ==
  ASSUME RetInv, NEW e \in Events, CommitRun(e)
  PROVE  RetInv'
<1> DEFINE G == run[e].gone
           J == run[e].jobs
<1>0. /\ RetentionTypeOK /\ StoreTypeOK /\ FilesInv /\ UploadInv /\ WorkerInv
      /\ run[e] # Committed /\ run' = [run EXCEPT ![e] = Committed] /\ lock' = Release(e)
      /\ \A t \in G : t \in tickets /\ t \in Tickets /\ t # None /\ lock[t] = e
      /\ \A o \in Objects : o \in J <=> row[o] \in G
      /\ \A o \in J : o \in Objects /\ row[o] # None /\ job[o] = None /\ o \in store /\ o \in used
  BY CommitFacts
<1>1. /\ tickets' = tickets \ G /\ held' = held \ G /\ messages' = MessagesLeft(e)
      /\ row' = [o \in Objects |-> IF row[o] \in G THEN None ELSE row[o]]
      /\ accessed' = [o \in Objects |-> IF row[o] \in G THEN None ELSE accessed[o]]
      /\ job' = [o \in Objects |-> IF o \in J THEN e ELSE job[o]]
      /\ cleaned' = IF J = {} THEN cleaned \union {e} ELSE cleaned
      /\ UNCHANGED <<day, uploaded, store, used, upload, lost, jobDone, certificates, exported, worker>>
  BY DEF CommitRun
<1>2. messages' \subseteq messages /\ \A m \in messages' : m[1] \notin G
  BY <1>1 DEF MessagesLeft
<1> HIDE DEF G, J
<1>3. /\ run'[e] = Committed /\ \A f \in Events : f # e => run'[f] = run[f]
      /\ run' \in [Events -> RunRecord \union {None, Committed}]
  BY <1>0 DEF RetentionTypeOK
<1>4. /\ lock' \in [Tickets -> Uploads \union Events \union {None}]
      /\ \A t \in Tickets : lock[t] # e => lock'[t] = lock[t]
  BY <1>0, Releases
<1>5. StoreTypeOK'
  <2>1. row' \in [Objects -> Tickets \union {None}] /\ accessed' \in [Objects -> Dates \union {None}]
    BY <1>0, <1>1 DEF StoreTypeOK
  <2> QED BY <1>0, <1>1, <2>1 DEF StoreTypeOK
<1>6. RetentionTypeOK'
  <2>1. messages' \subseteq tickets' \X Dates
    BY <1>0, <1>1, <1>2 DEF RetentionTypeOK
  <2>2. job' \in [Objects -> Events \union {None}]
    BY <1>0, <1>1 DEF RetentionTypeOK
  <2>3. jobDone' \subseteq {o \in Objects : job'[o] # None}
    BY <1>0, <1>1, Numbers DEF RetentionTypeOK
  <2>4. cleaned' \subseteq Events /\ certificates' \subseteq cleaned' /\ held' \subseteq tickets'
    BY <1>0, <1>1 DEF RetentionTypeOK
  <2> QED BY <1>0, <1>1, <1>3, <1>4, <1>5, <2>1, <2>2, <2>3, <2>4 DEF RetentionTypeOK
<1>7. FilesInv'
  <2>1. ASSUME NEW o \in Objects, row'[o] # None
        PROVE  row'[o] \in tickets' /\ o \in store' /\ job'[o] = None
    <3>1. row[o] \notin G /\ row'[o] = row[o] /\ o \notin J
      BY <1>0, <1>1, <2>1
    <3> QED BY <1>0, <1>1, <2>1, <3>1 DEF FilesInv
  <2>2. ASSUME NEW o \in Objects, job'[o] # None
        PROVE  o \in used' /\ row'[o] = None /\ run'[job'[o]] = Committed
    <3>1. CASE o \in J
      BY <1>0, <1>1, <1>3, <3>1
    <3>2. CASE o \notin J
      <4>1. job'[o] = job[o] /\ job[o] # None /\ job[o] \in Events
        BY <1>0, <1>1, <2>2, <3>2 DEF RetentionTypeOK
      <4>2. o \in used /\ row[o] = None /\ run[job[o]] = Committed
        BY <1>0, <4>1 DEF FilesInv
      <4> QED BY <1>0, <1>1, <1>3, <4>1, <4>2
    <3> QED BY <3>1, <3>2
  <2>3. jobDone' \intersect store' = {}
    BY <1>0, <1>1 DEF FilesInv
  <2> QED BY <2>1, <2>2, <2>3 DEF FilesInv
<1>8. UploadInv'
  <2>1. \A u \in Uploads : StoredBy(u)' = StoredBy(u) /\ StoredBy(u) \subseteq Objects
    <3>1. \A u \in Uploads : StoredBy(u)' = StoredBy(u)
      BY <1>1 DEF StoredBy
    <3> QED BY <3>1, UploadFacts
  <2>2. ASSUME NEW u \in Uploads, NEW o \in StoredBy(u)
        PROVE  o \in store' /\ row'[o] = None /\ job'[o] = None
    <3>1. o \in Objects /\ o \in store /\ row[o] = None /\ job[o] = None
      BY <1>0, <2>1 DEF UploadInv
    <3>2. o \notin J
      BY <1>0, <3>1
    <3> QED BY <1>1, <3>1, <3>2
  <2>3. \A u \in Uploads : upload[u].step = "storing" =>
          upload[u].ticket \in tickets' /\ lock'[upload[u].ticket] = u
    <3> SUFFICES ASSUME NEW u \in Uploads, upload[u].step = "storing"
                 PROVE  upload[u].ticket \in tickets' /\ lock'[upload[u].ticket] = u
      OBVIOUS
    <3>1. /\ upload[u].ticket \in tickets /\ upload[u].ticket \in Tickets
          /\ lock[upload[u].ticket] = u /\ u # e
      BY <1>0, Numbers DEF UploadInv, StoreTypeOK
    <3> QED BY <1>0, <1>1, <1>4, <3>1
  <2> HIDE DEF StoredBy
  <2> QED BY <1>0, <1>1, <2>1, <2>2, <2>3 DEF UploadInv
<1>9. WorkerInv'
  <2>1. \A o \in Objects : job[o] # None => job'[o] = job[o] /\ job[o] # e
    BY <1>0, <1>1 DEF FilesInv
  <2>2. \A w \in Workers : worker[w].step # "idle" =>
          /\ worker[w].object \in Objects /\ job[worker[w].object] # None
          /\ job'[worker[w].object] = job[worker[w].object] /\ job[worker[w].object] # e
    BY <1>0, <2>1 DEF WorkerInv
  <2>3. \A o \in Objects : \A f : f # e /\ f # None /\ job'[o] = f => job[o] = f
    BY <1>1
  <2>4. \A w \in Workers : worker[w].step = "locked" /\ worker[w].last =>
          \A p \in Objects \ {worker[w].object} :
            job'[p] = job'[worker[w].object] => p \in jobDone
    BY <1>0, <2>2, <2>3 DEF WorkerInv
  <2>5. ASSUME NEW f \in cleaned'
        PROVE  run'[f] = Committed /\ \A o \in Objects : job'[o] = f => o \in jobDone'
    <3>1. CASE f = e /\ J = {}
      <4>1. \A o \in Objects : job'[o] # e
        BY <1>0, <1>1, <2>1, <3>1, Numbers
      <4> QED BY <1>3, <3>1, <4>1
    <3>2. CASE f \in cleaned
      <4>1. f \in Events /\ run[f] = Committed /\ f # e /\ f # None
        BY <1>0, <3>2, Numbers DEF WorkerInv, RetentionTypeOK
      <4>2. \A o \in Objects : job[o] = f => o \in jobDone
        BY <1>0, <3>2 DEF WorkerInv
      <4> QED BY <1>1, <1>3, <2>3, <4>1, <4>2
    <3> QED BY <1>0, <1>1, <2>5, <3>1, <3>2 DEF FilesInv, WorkerInv
  <2> QED BY <1>0, <1>1, <2>2, <2>4, <2>5 DEF WorkerInv
<1>10. ASSUME NEW f \in Events
       PROVE  RunInv(f)'
  <2>1. CASE f = e
    BY <1>3, <2>1 DEF RunInv, InProgress
  <2>2. CASE f # e
    <3>1. \A t \in Tickets : lock[t] = f =>
            /\ t \notin G /\ lock'[t] = f
            /\ \A o \in Objects : row'[o] = t <=> row[o] = t
      BY <1>0, <1>1, <1>4, <2>2, Numbers
    <3>2. day <= day' /\ day' \in Dates
      BY <1>0, <1>1, StoreAssumption DEF RetentionTypeOK
    <3>3. Undisturbed(f)
      BY <1>1, <1>2, <1>3, <2>2, <3>1, <3>2 DEF Undisturbed
    <3> QED BY <1>0, <3>3, RunStable DEF RetInv
  <2> QED BY <2>1, <2>2
<1> QED BY <1>6, <1>7, <1>8, <1>9, <1>10 DEF RetInv

-----------------------------------------------------------------------------
(* The invariant of the specification.                                      *)

LEMMA InitRet ==
  RetentionInit => RetInv
<1> SUFFICES ASSUME RetentionInit
             PROVE  RetInv
  OBVIOUS
<1>1. PICK rows \in InitialRows :
        /\ day = 0 /\ tickets = {rows[o] : o \in DOMAIN rows}
        /\ lock = [t \in Tickets |-> None]
        /\ row = [o \in Objects |-> IF o \in DOMAIN rows THEN rows[o] ELSE None]
        /\ uploaded = [o \in Objects |-> 0] /\ accessed = [o \in Objects |-> None]
        /\ store = DOMAIN rows /\ used = DOMAIN rows
        /\ upload = [u \in Uploads |-> Idle] /\ lost = {}
  BY DEF RetentionInit, StoreInit
<1>2. /\ held = {} /\ messages = {<<t, 0>> : t \in tickets} /\ run = [e \in Events |-> None]
      /\ job = [o \in Objects |-> None] /\ jobDone = {} /\ cleaned = {} /\ certificates = {}
      /\ exported = {}
      /\ worker = [w \in Workers |-> [step |-> "idle", object |-> None, last |-> FALSE]]
  BY DEF RetentionInit
<1>3. /\ DOMAIN rows \subseteq Objects /\ \A o \in DOMAIN rows : rows[o] \in Tickets
      /\ 0 \in Dates
  BY StoreAssumption
<1>4. /\ Idle.step = "idle" /\ Idle.stored = << >>
      /\ Idle \in [step : {"idle", "received", "storing", "cleaning"},
                   ticket : Tickets \union {None}, stored : Seq(Objects)]
  BY DEF Idle
<1>5. StoreTypeOK
  BY <1>1, <1>3, <1>4 DEF StoreTypeOK
<1>6. RetentionTypeOK
  <2>1. messages \subseteq tickets \X Dates
    BY <1>2, <1>3
  <2>2. worker \in [Workers -> [step : {"idle", "claimed", "deleted", "locked"},
                               object : Objects \union {None}, last : BOOLEAN]]
    BY <1>2
  <2> QED BY <1>1, <1>2, <1>3, <1>5, <2>1, <2>2 DEF RetentionTypeOK
<1>7. FilesInv
  BY <1>1, <1>2, <1>3 DEF FilesInv
<1>8. \A u \in Uploads : StoredBy(u) = {}
  BY <1>1, <1>4 DEF StoredBy
<1>9. \A u \in Uploads : upload[u] = Idle /\ DOMAIN upload[u].stored = {}
  BY <1>1, <1>4
<1>10. UploadInv
  <2> HIDE DEF StoredBy
  <2> QED BY <1>4, <1>8, <1>9 DEF UploadInv
<1>11. WorkerInv
  BY <1>2 DEF WorkerInv
<1>12. \A e \in Events : RunInv(e)
  BY <1>2 DEF RunInv, InProgress
<1> QED BY <1>6, <1>7, <1>10, <1>11, <1>12 DEF RetInv

LEMMA NextRet ==
  ASSUME RetInv, [RetentionNext]_retentionVars
  PROVE  RetInv'
<1>1. CASE NextDay \/ \E t \in Tickets : SetHold(t) \/ AddMessage(t)
  BY <1>1, AroundPreserves
<1>2. CASE StoreSteps
  BY <1>2, StorePreserves
<1>3. ASSUME NEW e \in Events, RunSteps(e)
      PROVE  RetInv'
  <2>1. CASE \E p \in Policies : \E only \in SUBSET DOMAIN p : StartRun(e, p, only)
    BY <2>1, StartRunPreserves
  <2>2. CASE \E table \in {"ticket_message", "ticket"} : ListCandidates(e, table)
    BY <2>2, ListPreserves
  <2>3. CASE LockHoldGraph(e)
    BY <2>3, LockPreserves
  <2>4. CASE SelectDisposal(e)
    BY <2>4, SelectPreserves
  <2>5. CASE DeleteWithOrm(e)
    BY <2>5, DeletePreserves
  <2>6. CASE RollBack(e)
    BY <2>6, RollBackPreserves
  <2>7. CASE CommitRun(e)
    BY <2>7, CommitPreserves
  <2>8. CASE WriteCertificate(e) \/ RecordExport(e)
    BY <2>8, CertificatePreserves
  <2> QED BY <1>3, <2>1, <2>2, <2>3, <2>4, <2>5, <2>6, <2>7, <2>8 DEF RunSteps
<1>4. ASSUME NEW w \in Workers, WorkerSteps(w)
      PROVE  RetInv'
  BY <1>4, WorkersPreserve
<1>5. CASE UNCHANGED retentionVars
  <2>1. UNCHANGED <<day, tickets, lock, storeVars, runVars, effectVars>>
    BY <1>5 DEF retentionVars
  <2>2. /\ RetentionTypeOK /\ StoreTypeOK /\ FilesInv /\ UploadInv /\ WorkerInv
        /\ lock \in [Tickets -> Uploads \union Events \union {None}]
    BY DEF RetInv, RetentionTypeOK
  <2>3. StoreTypeOK'
    BY <2>1, <2>2 DEF StoreTypeOK, storeVars
  <2>4. FilesInv' /\ UploadInv'
    BY <2>1, <2>2, FilesSame, UploadsSame DEF storeVars, runVars, effectVars
  <2> QED BY <2>1, <2>2, <2>3, <2>4, StoreStepPreserves DEF storeVars
<1> QED BY <1>1, <1>2, <1>3, <1>4, <1>5 DEF RetentionNext

(* Every behaviour keeps the invariant.                                     *)
THEOREM RetentionInvariant ==
  RetentionSpec => []RetInv
BY InitRet, NextRet, PTL DEF RetentionSpec

(* The state keeps its types.                                               *)
THEOREM RetentionTypes ==
  RetentionSpec => []RetentionTypeOK
<1>1. RetInv => RetentionTypeOK
  BY DEF RetInv
<1> QED BY <1>1, RetentionInvariant, PTL

-----------------------------------------------------------------------------
(* What retention promises.                                                 *)

(* Nothing on hold and no ticket with a young message or attachment is      *)
(* disposed of, whatever happened since the candidates were listed          *)
(* (execute_retention).                                                     *)
THEOREM DisposalTheorem ==
  RetentionSpec => OnlyExpiredDisposed
<1>1. ASSUME RetInv, NEW e \in Events, CommitRun(e)
      PROVE  /\ \A t \in tickets \ tickets' :
                  /\ t \notin held
                  /\ \A o \in AttachmentsOf({t}) : Expired(e, "ticket", uploaded[o])
                  /\ \A m \in messages : m[1] = t => Expired(e, "ticket_message", m[2])
             /\ \A m \in messages \ messages' : m[1] \notin held
  <2>1. tickets' = tickets \ run[e].gone /\ messages' = MessagesLeft(e)
    BY <1>1 DEF CommitRun
  <2>2. RunOK(e)
    BY <1>1, CommitFacts
  <2>3. \A t \in tickets \ tickets' : GoodTicket(e, t)
    BY <2>1, <2>2 DEF RunOK
  <2>4. ASSUME NEW m \in messages \ messages'
        PROVE  m[1] \notin held
    <3>1. m \in run[e].goneMessages \/ m[1] \in run[e].gone
      BY <2>1, <2>4 DEF MessagesLeft
    <3> QED BY <2>2, <3>1 DEF RunOK, GoodTicket, GoodMessage
  <2> QED BY <2>3, <2>4 DEF GoodTicket, AttachmentsOf
<1>2. ASSUME RetInv
      PROVE  \A e \in Events : CommitRun(e) =>
               /\ \A t \in tickets \ tickets' :
                    /\ t \notin held
                    /\ \A o \in AttachmentsOf({t}) : Expired(e, "ticket", uploaded[o])
                    /\ \A m \in messages : m[1] = t => Expired(e, "ticket_message", m[2])
               /\ \A m \in messages \ messages' : m[1] \notin held
  BY <1>1, <1>2
<1> QED BY <1>2, RetentionInvariant, PTL DEF OnlyExpiredDisposed

-----------------------------------------------------------------------------
(* No stored file is forgotten.                                             *)

LEMMA InitForgotten ==
  RetentionInit => NoForgottenObject
<1> SUFFICES ASSUME RetentionInit, NEW o \in store
             PROVE  row[o] # None
  BY DEF NoForgottenObject
<1>1. PICK rows \in InitialRows :
        /\ row = [p \in Objects |-> IF p \in DOMAIN rows THEN rows[p] ELSE None]
        /\ store = DOMAIN rows
  BY DEF RetentionInit, StoreInit
<1>2. o \in Objects /\ rows[o] \in Tickets
  BY <1>1, StoreAssumption
<1> QED BY <1>1, <1>2, Numbers

(* The steps that leave the store and all that speaks for a file alone.     *)
LEMMA ForgottenSame ==
  ASSUME NoForgottenObject, UNCHANGED <<row, upload, job>>,
         store' \subseteq store, lost \subseteq lost', jobDone' \intersect store' \subseteq jobDone
  PROVE  NoForgottenObject'
<1>1. \A u \in Uploads : StoredBy(u)' = StoredBy(u)
  BY DEF StoredBy
<1> QED BY <1>1 DEF NoForgottenObject

LEMMA UploadForgottenNothing ==
  ASSUME RetInv, RetInv', NoForgottenObject, NEW u \in Uploads, UploadStep(u),
         UNCHANGED <<runVars, effectVars>>
  PROVE  NoForgottenObject'
<1>0. /\ StoreTypeOK /\ UploadInv /\ job' = job /\ jobDone' = jobDone
      /\ StoredBy(u) \subseteq Objects /\ upload[u].stored \in Seq(Objects)
  BY UploadFacts DEF effectVars, RetInv
<1>1. ASSUME \A v \in Uploads \ {u} : upload'[v] = upload[v],
             \A o \in StoredBy(u) : o \in StoredBy(u)' \/ o \in lost' \/ o \notin store' \/ row'[o] # None,
             \A o \in store' : o \in store \/ o \in lost' \/ o \in StoredBy(u)',
             \A o \in store : row[o] # None => row'[o] # None, lost \subseteq lost'
      PROVE  NoForgottenObject'
  <2>1. \A v \in Uploads \ {u} : StoredBy(v)' = StoredBy(v)
    BY <1>1 DEF StoredBy
  <2> HIDE DEF StoredBy
  <2> QED BY <1>0, <1>1, <2>1 DEF NoForgottenObject
<1>2. CASE (\E t \in tickets : ReceiveUpload(u, t)) \/ LockTicket(u) \/ RefuseUpload(u)
  <2>1. /\ UNCHANGED <<row, store, lost>> /\ \A v \in Uploads \ {u} : upload'[v] = upload[v]
    BY <1>0, <1>2 DEF ReceiveUpload, LockTicket, RefuseUpload, StoreTypeOK
  <2>2. StoredBy(u) = {}
    BY <1>2, UploadFacts DEF ReceiveUpload, LockTicket, RefuseUpload
  <2> QED BY <1>1, <2>1, <2>2
<1>3. ASSUME NEW o \in Objects, UploadToMinio(u, o)
      PROVE  NoForgottenObject'
  <2>1. /\ UNCHANGED <<row, lost>> /\ \A v \in Uploads \ {u} : upload'[v] = upload[v]
        /\ store' = store \union {o} /\ upload'[u].stored = Append(upload[u].stored, o)
    BY <1>0, <1>3 DEF UploadToMinio, StoreTypeOK
  <2>2. StoredBy(u)' = StoredBy(u) \union {o}
    <3> DEFINE s == upload[u].stored
    <3>1. s \in Seq(Objects) /\ StoredBy(u) = {s[i] : i \in DOMAIN s}
          /\ StoredBy(u)' = {Append(s, o)[i] : i \in DOMAIN Append(s, o)}
      BY <1>0, <2>1 DEF StoredBy
    <3> HIDE DEF s
    <3>2. /\ DOMAIN Append(s, o) = DOMAIN s \union {Len(s) + 1}
          /\ Append(s, o)[Len(s) + 1] = o
          /\ \A i \in DOMAIN s : Append(s, o)[i] = s[i]
      BY <3>1
    <3> QED BY <3>1, <3>2
  <2> QED BY <1>1, <2>1, <2>2
<1>4. ASSUME NEW orphans, UploadFails(u, orphans)
      PROVE  NoForgottenObject'
  <2>1. /\ UNCHANGED row /\ \A v \in Uploads \ {u} : upload'[v] = upload[v]
        /\ store' = store \union orphans /\ lost' = lost \union orphans
        /\ upload'[u].stored = upload[u].stored
    BY <1>0, <1>4 DEF UploadFails, StoreTypeOK
  <2>2. StoredBy(u)' = StoredBy(u)
    BY <2>1 DEF StoredBy
  <2> QED BY <1>1, <2>1, <2>2
<1>5. CASE RecordAttachments(u)
  <2>1. /\ UNCHANGED <<store, lost>> /\ \A v \in Uploads \ {u} : upload'[v] = upload[v]
        /\ row' = [o \in Objects |-> IF o \in StoredBy(u) THEN upload[u].ticket ELSE row[o]]
    BY <1>0, <1>5 DEF RecordAttachments, StoreTypeOK
  <2>2. upload[u].ticket # None
    BY <1>0, <1>5, Numbers DEF RecordAttachments, UploadInv, StoreTypeOK
  <2>3. store \subseteq Objects
    BY <1>0 DEF StoreTypeOK
  <2>4. \A o \in StoredBy(u) : row'[o] # None
    BY <1>0, <2>1, <2>2
  <2>5. \A o \in store : row[o] # None => row'[o] # None
    BY <2>1, <2>2, <2>3
  <2> QED BY <1>1, <2>1, <2>4, <2>5
<1>6. ASSUME NEW fails \in BOOLEAN, CleanupStoredObjects(u, fails)
      PROVE  NoForgottenObject'
  <2> DEFINE s == upload[u].stored
             n == Len(s)
  <2>1. /\ UNCHANGED row /\ \A v \in Uploads \ {u} : upload'[v] = upload[v]
    BY <1>0, <1>6 DEF CleanupStoredObjects, StoreTypeOK
  <2>2. CASE n = 0
    <3>1. UNCHANGED <<store, lost>>
      BY <1>6, <2>2 DEF CleanupStoredObjects
    <3>2. StoredBy(u) = {}
      BY <1>0, <2>2 DEF StoredBy
    <3> QED BY <1>1, <2>1, <3>1, <3>2
  <2>3. CASE n # 0
    <3>1. /\ upload'[u].stored = SubSeq(s, 1, n - 1)
          /\ \/ store' = store /\ lost' = lost \union {s[n]}
             \/ store' = store \ {s[n]} /\ lost' = lost
      BY <1>0, <1>6, <2>3 DEF CleanupStoredObjects, StoreTypeOK
    <3>2. ASSUME NEW o \in StoredBy(u), o # s[n]
          PROVE  o \in StoredBy(u)'
      <4>1. PICK i \in DOMAIN s : o = s[i]
        BY DEF StoredBy
      <4>2. i # n
        BY <3>2, <4>1
      <4>3. s \in Seq(Objects)
        BY <1>0
      <4> HIDE DEF s
      <4>4. i \in DOMAIN SubSeq(s, 1, n - 1) /\ SubSeq(s, 1, n - 1)[i] = s[i]
        BY <4>1, <4>2, <4>3
      <4> QED BY <3>1, <4>1, <4>4 DEF StoredBy
    <3>3. \A o \in StoredBy(u) : o \in StoredBy(u)' \/ o \in lost' \/ o \notin store'
      BY <3>1, <3>2
    <3> QED BY <1>1, <2>1, <3>1, <3>3
  <2> QED BY <2>2, <2>3
<1>7. CASE UploadCrash(u)
  <2>1. /\ UNCHANGED <<row, store>> /\ \A v \in Uploads \ {u} : upload'[v] = upload[v]
        /\ lost' = lost \union StoredBy(u)
    BY <1>0, <1>7 DEF UploadCrash, StoreTypeOK
  <2> QED BY <1>1, <2>1
<1> QED BY <1>2, <1>3, <1>4, <1>5, <1>6, <1>7 DEF UploadStep

LEMMA NextForgotten ==
  ASSUME RetInv, RetInv', NoForgottenObject, [RetentionNext]_retentionVars
  PROVE  NoForgottenObject'
<1>0. /\ StoreTypeOK /\ FilesInv /\ WorkerInv
  BY DEF RetInv, RetentionTypeOK
<1>1. CASE NextDay \/ \E t \in Tickets : SetHold(t) \/ AddMessage(t)
  <2>1. UNCHANGED <<storeVars, effectVars>>
    BY <1>1 DEF NextDay, SetHold, AddMessage
  <2> QED BY <2>1, ForgottenSame DEF storeVars, effectVars
<1>2. CASE StoreSteps
  <2>1. UNCHANGED <<runVars, effectVars>>
    BY <1>2 DEF StoreSteps
  <2>2. ASSUME NEW o \in Objects, Download(o, AttachmentLocked(o))
        PROVE  NoForgottenObject'
    BY <2>1, <2>2, ForgottenSame DEF Download, effectVars
  <2> QED BY <1>2, <2>1, <2>2, UploadForgottenNothing DEF StoreSteps
<1>3. ASSUME NEW e \in Events, RunSteps(e)
      PROVE  NoForgottenObject'
  <2>1. CASE CommitRun(e)
    <3>1. /\ row' = [o \in Objects |-> IF row[o] \in run[e].gone THEN None ELSE row[o]]
          /\ job' = [o \in Objects |-> IF o \in run[e].jobs THEN e ELSE job[o]]
          /\ UNCHANGED <<store, upload, lost, jobDone>>
      BY <2>1 DEF CommitRun
    <3>2. /\ \A o \in Objects : o \in run[e].jobs <=> row[o] \in run[e].gone
          /\ \A o \in run[e].jobs : job[o] = None
      BY <2>1, CommitFacts
    <3>3. \A u \in Uploads : StoredBy(u)' = StoredBy(u)
      BY <3>1 DEF StoredBy
    <3>4. store \subseteq Objects /\ jobDone \intersect store = {} /\ e # None
      BY <1>0, Numbers DEF StoreTypeOK, FilesInv
    <3> HIDE DEF StoredBy
    <3>5. ASSUME NEW o \in store
          PROVE  \/ row'[o] # None
                 \/ job'[o] # None /\ o \notin jobDone
                 \/ \E u \in Uploads : o \in StoredBy(u)
                 \/ o \in lost
      <4>1. CASE o \in run[e].jobs
        BY <3>1, <3>4, <4>1
      <4>2. CASE o \notin run[e].jobs
        BY <3>1, <3>2, <3>4, <4>2 DEF NoForgottenObject
      <4> QED BY <4>1, <4>2
    <3> QED BY <3>1, <3>3, <3>5 DEF NoForgottenObject
  <2>2. CASE ~CommitRun(e)
    <3>1. UNCHANGED <<storeVars, job, jobDone>>
      BY <1>3, <2>2 DEF RunSteps, StartRun, ListCandidates, LockHoldGraph, SelectDisposal,
        DeleteWithOrm, RollBack, WriteCertificate, RecordExport, effectVars
    <3> QED BY <3>1, ForgottenSame DEF storeVars
  <2> QED BY <2>1, <2>2
<1>4. ASSUME NEW w \in Workers, WorkerSteps(w)
      PROVE  NoForgottenObject'
  <2>1. UNCHANGED <<row, upload, job, lost>> /\ store' \subseteq store
    BY <1>4 DEF WorkerSteps, ClaimJob, DeleteObject, DeleteFails, LockEvent, CompleteJob,
      WorkerCrash, storeVars
  <2>2. jobDone' \intersect store' = {}
    BY DEF RetInv, FilesInv
  <2> QED BY <2>1, <2>2, ForgottenSame
<1>5. CASE UNCHANGED retentionVars
  BY <1>5, ForgottenSame DEF retentionVars, storeVars, effectVars
<1> QED BY <1>1, <1>2, <1>3, <1>4, <1>5 DEF RetentionNext

(* No stored file is forgotten by uploads, disposals and workers, however   *)
(* they interleave, fail and crash (cleanup_stored_objects,                 *)
(* enqueue_object_deletion_jobs).                                           *)
THEOREM ForgottenTheorem ==
  RetentionSpec => []NoForgottenObject
<1>1. RetInv /\ NoForgottenObject /\ RetInv' /\ [RetentionNext]_retentionVars => NoForgottenObject'
  BY NextForgotten
<1> QED BY <1>1, InitForgotten, RetentionInvariant, PTL DEF RetentionSpec

-----------------------------------------------------------------------------
(* Refinement of ObjectLifecycle.                                           *)

(* The phase of one file.                                                   *)
LEMMA PhaseOf ==
  ASSUME NEW o \in Objects
  PROVE  Phase[o] = IF job[o] # None THEN <<IF o \in store THEN "condemned" ELSE "removed", job[o]>>
                    ELSE IF row[o] # None THEN <<IF o \in store THEN "attached" ELSE "dangling", None>>
                    ELSE <<IF o \in store THEN "stored" ELSE "absent", None>>
BY DEF Phase

LEMMA SamePhase ==
  ASSUME UNCHANGED <<row, store, job>>
  PROVE  Phase' = Phase
BY DEF Phase

LEMMA InitLifecycle ==
  RetentionInit => Lifecycle!LifecycleInit
<1> SUFFICES ASSUME RetentionInit
             PROVE  Lifecycle!LifecycleInit
  OBVIOUS
<1>1. PICK rows \in InitialRows :
        /\ row = [p \in Objects |-> IF p \in DOMAIN rows THEN rows[p] ELSE None]
        /\ store = DOMAIN rows
  BY DEF RetentionInit, StoreInit
<1>2. job = [o \in Objects |-> None] /\ certificates = {}
  BY DEF RetentionInit
<1>3. \A o \in Objects : row[o] # None <=> o \in store
  BY <1>1, StoreAssumption, Numbers
<1>4. Phase = [o \in Objects |-> <<IF o \in store THEN "attached" ELSE "absent", None>>]
  BY <1>2, <1>3 DEF Phase
<1>5. Phase \in [Objects -> {"absent", "attached"} \X {None}]
  BY <1>4
<1> QED BY <1>2, <1>5 DEF Lifecycle!LifecycleInit

(* A file appears in the store or leaves it while it has no row.            *)
LEMMA StoreOne ==
  ASSUME RetInv, NEW o \in Objects, UNCHANGED <<row, job, certificates>>,
         row[o] = None, job[o] = None,
         \/ o \notin store /\ store' = store \union {o}
         \/ o \in store /\ store' = store \ {o}
  PROVE  Lifecycle!LifecycleNext
<1>1. Phase' = [Phase EXCEPT ![o] = <<IF o \in store' THEN "stored" ELSE "absent", None>>]
  BY DEF Phase
<1>2. Phase[o] = <<IF o \in store THEN "stored" ELSE "absent", None>>
  BY PhaseOf
<1>3. CASE o \notin store
  BY <1>1, <1>2, <1>3 DEF Lifecycle!LifecycleNext, Lifecycle!Store, Lifecycle!Is
<1>4. CASE o \in store
  BY <1>1, <1>2, <1>4 DEF Lifecycle!LifecycleNext, Lifecycle!Discard, Lifecycle!Is
<1> QED BY <1>3, <1>4

LEMMA UploadFollows ==
  ASSUME RetInv, NEW u \in Uploads, UploadStep(u), UNCHANGED <<runVars, effectVars>>
  PROVE  Lifecycle!LifecycleNext \/ UNCHANGED <<Phase, certificates>>
<1>0. /\ StoreTypeOK /\ FilesInv /\ UploadInv /\ UNCHANGED <<job, certificates>>
      /\ StoredBy(u) \subseteq Objects /\ upload[u].stored \in Seq(Objects)
  BY UploadFacts DEF effectVars
<1>1. \A o \in Objects \ used : row[o] = None /\ job[o] = None /\ o \notin store
  BY <1>0 DEF FilesInv, StoreTypeOK
<1>2. CASE (\E t \in tickets : ReceiveUpload(u, t)) \/ LockTicket(u) \/ RefuseUpload(u) \/ UploadCrash(u)
  <2>1. UNCHANGED <<row, store>>
    BY <1>2 DEF ReceiveUpload, LockTicket, RefuseUpload, UploadCrash
  <2> QED BY <1>0, <2>1, SamePhase
<1>3. ASSUME NEW o \in Objects, UploadToMinio(u, o)
      PROVE  Lifecycle!LifecycleNext
  <2>1. o \notin used /\ store' = store \union {o} /\ row' = row
    BY <1>3 DEF UploadToMinio
  <2> QED BY <1>0, <1>1, <2>1, StoreOne
<1>4. ASSUME NEW orphans, UploadFails(u, orphans)
      PROVE  Lifecycle!LifecycleNext \/ UNCHANGED <<Phase, certificates>>
  <2>1. row' = row /\ store' = store \union orphans
    BY <1>4 DEF UploadFails
  <2>2. CASE orphans = {}
    BY <1>0, <2>1, <2>2, SamePhase
  <2>3. ASSUME NEW o \in Objects \ (used \union Legacy), orphans = {o}
        PROVE  Lifecycle!LifecycleNext
    BY <1>0, <1>1, <2>1, <2>3, StoreOne
  <2> QED BY <1>4, <2>2, <2>3 DEF UploadFails
<1>5. CASE RecordAttachments(u)
  <2> DEFINE S == StoredBy(u)
  <2>1. /\ store' = store
        /\ row' = [o \in Objects |-> IF o \in S THEN upload[u].ticket ELSE row[o]]
    BY <1>5 DEF RecordAttachments
  <2>2. upload[u].ticket # None
    BY <1>0, <1>5, Numbers DEF RecordAttachments, UploadInv, StoreTypeOK
  <2>3. \A o \in S : o \in Objects /\ o \in store /\ row[o] = None /\ job[o] = None
    BY <1>0 DEF UploadInv
  <2> HIDE DEF S
  <2>4. \A o \in S : Phase[o] = <<"stored", None>>
    BY <2>3, PhaseOf
  <2>5. Phase' = [o \in Objects |-> IF o \in S THEN <<"attached", None>> ELSE Phase[o]]
    BY <1>0, <2>1, <2>2, <2>3 DEF Phase
  <2>6. S \in SUBSET Objects
    BY <2>3
  <2>7. Lifecycle!Attach(S)
    BY <1>0, <2>4, <2>5 DEF Lifecycle!Attach, Lifecycle!Is
  <2> QED BY <2>6, <2>7 DEF Lifecycle!LifecycleNext
<1>6. ASSUME NEW fails \in BOOLEAN, CleanupStoredObjects(u, fails)
      PROVE  Lifecycle!LifecycleNext \/ UNCHANGED <<Phase, certificates>>
  <2> DEFINE n == Len(upload[u].stored)
             o == upload[u].stored[n]
  <2>1. row' = row
    BY <1>6 DEF CleanupStoredObjects
  <2>2. store' = store \/ (n # 0 /\ store' = store \ {o})
    BY <1>6 DEF CleanupStoredObjects
  <2>3. CASE store' = store
    BY <1>0, <2>1, <2>3, SamePhase
  <2>4. CASE n # 0 /\ store' = store \ {o}
    <3>1. o \in StoredBy(u)
      BY <1>0, <2>4 DEF StoredBy
    <3>2. o \in Objects /\ o \in store /\ row[o] = None /\ job[o] = None
      BY <1>0, <3>1 DEF UploadInv
    <3> HIDE DEF o
    <3> QED BY <1>0, <2>1, <2>4, <3>2, StoreOne
  <2> QED BY <2>2, <2>3, <2>4
<1> QED BY <1>2, <1>3, <1>4, <1>5, <1>6 DEF UploadStep

LEMMA NextLifecycle ==
  ASSUME RetInv, [RetentionNext]_retentionVars
  PROVE  Lifecycle!LifecycleNext \/ UNCHANGED <<Phase, certificates>>
<1>0. /\ RetentionTypeOK /\ StoreTypeOK /\ FilesInv /\ WorkerInv /\ certificates \subseteq cleaned
  BY DEF RetInv, RetentionTypeOK
<1>1. CASE NextDay \/ \E t \in Tickets : SetHold(t) \/ AddMessage(t)
  <2>1. UNCHANGED <<storeVars, effectVars>>
    BY <1>1 DEF NextDay, SetHold, AddMessage
  <2> QED BY <2>1, SamePhase DEF storeVars, effectVars
<1>2. CASE StoreSteps
  <2>1. UNCHANGED <<runVars, effectVars>>
    BY <1>2 DEF StoreSteps
  <2>2. ASSUME NEW o \in Objects, Download(o, AttachmentLocked(o))
        PROVE  UNCHANGED <<Phase, certificates>>
    BY <2>1, <2>2, SamePhase DEF Download, effectVars
  <2> QED BY <1>2, <2>1, <2>2, UploadFollows DEF StoreSteps
<1>3. ASSUME NEW e \in Events, CommitRun(e)
      PROVE  Lifecycle!LifecycleNext
  <2> DEFINE J == run[e].jobs
  <2>1. /\ row' = [o \in Objects |-> IF row[o] \in run[e].gone THEN None ELSE row[o]]
        /\ job' = [o \in Objects |-> IF o \in J THEN e ELSE job[o]]
        /\ UNCHANGED <<store, certificates>>
    BY <1>3 DEF CommitRun
  <2>2. /\ \A o \in Objects : o \in J <=> row[o] \in run[e].gone
        /\ \A o \in J : o \in Objects /\ row[o] # None /\ job[o] = None /\ o \in store
        /\ run[e] # Committed
    BY <1>3, CommitFacts
  <2> HIDE DEF J
  <2>3. e \notin certificates /\ e # None
    BY <1>0, <2>2, Numbers DEF WorkerInv
  <2>4. \A o \in J : Phase[o] = <<"attached", None>>
    BY <2>2, PhaseOf
  <2>5. Phase' = [o \in Objects |-> IF o \in J THEN <<"condemned", e>> ELSE Phase[o]]
    BY <2>1, <2>2, <2>3 DEF Phase
  <2>6. Lifecycle!Condemn(J, e)
    BY <2>1, <2>3, <2>4, <2>5 DEF Lifecycle!Condemn, Lifecycle!Is
  <2>7. J \in SUBSET Objects
    BY <2>2
  <2> QED BY <2>6, <2>7 DEF Lifecycle!LifecycleNext
<1>4. ASSUME NEW e \in Events, WriteCertificate(e)
      PROVE  Lifecycle!LifecycleNext
  <2>1. /\ e \in cleaned /\ certificates' = certificates \union {e}
        /\ UNCHANGED <<row, store, job>>
    BY <1>4 DEF WriteCertificate, storeVars
  <2>2. \A o \in Objects : Phase[o] # <<"condemned", e>>
    <3> SUFFICES ASSUME NEW o \in Objects, Phase[o] = <<"condemned", e>>
                 PROVE  FALSE
      OBVIOUS
    <3>1. job[o] = e /\ o \in store
      <4>1. CASE job[o] # None /\ o \in store
        <5>1. Phase[o] = <<"condemned", job[o]>>
          BY <4>1, PhaseOf
        <5> QED BY <4>1, <5>1
      <4>2. CASE job[o] # None /\ o \notin store
        <5>1. Phase[o] = <<"removed", job[o]>>
          BY <4>2, PhaseOf
        <5> QED BY <5>1
      <4>3. CASE job[o] = None /\ o \in store
        <5>1. Phase[o] = <<"attached", None>> \/ Phase[o] = <<"stored", None>>
          BY <4>3, PhaseOf
        <5> QED BY <5>1
      <4>4. CASE job[o] = None /\ o \notin store
        <5>1. Phase[o] = <<"dangling", None>> \/ Phase[o] = <<"absent", None>>
          BY <4>4, PhaseOf
        <5> QED BY <5>1
      <4> QED BY <4>1, <4>2, <4>3, <4>4
    <3> QED BY <1>0, <2>1, <3>1 DEF WorkerInv, FilesInv
  <2>3. Phase' = Phase
    BY <2>1, SamePhase
  <2> QED BY <2>1, <2>2, <2>3 DEF Lifecycle!LifecycleNext, Lifecycle!Certify
<1>5. ASSUME NEW e \in Events, RunSteps(e), ~CommitRun(e), ~WriteCertificate(e)
      PROVE  UNCHANGED <<Phase, certificates>>
  <2>1. UNCHANGED <<row, store, job, certificates>>
    BY <1>5 DEF RunSteps, StartRun, ListCandidates, LockHoldGraph, SelectDisposal,
      DeleteWithOrm, RollBack, RecordExport, effectVars, storeVars
  <2> QED BY <2>1, SamePhase
<1>6. ASSUME NEW w \in Workers, WorkerSteps(w)
      PROVE  Lifecycle!LifecycleNext \/ UNCHANGED <<Phase, certificates>>
  <2>1. UNCHANGED <<row, job, certificates>>
    BY <1>6 DEF WorkerSteps, ClaimJob, DeleteObject, DeleteFails, LockEvent, CompleteJob,
      WorkerCrash, storeVars
  <2>2. \/ store' = store
        \/ worker[w].step = "claimed" /\ store' = store \ {worker[w].object}
    BY <1>6 DEF WorkerSteps, ClaimJob, DeleteObject, DeleteFails, LockEvent, CompleteJob,
      WorkerCrash, storeVars
  <2>3. CASE store' = store
    BY <2>1, <2>3, SamePhase
  <2>4. CASE worker[w].step = "claimed" /\ store' = store \ {worker[w].object} /\ store' # store
    <3> DEFINE o == worker[w].object
    <3>1. o \in Objects /\ job[o] # None /\ job[o] \in Events /\ o \in store
      BY <1>0, <2>4 DEF WorkerInv, RetentionTypeOK
    <3>2. Phase[o] = <<"condemned", job[o]>>
      BY <3>1, PhaseOf
    <3>3. store' = store \ {o}
      BY <2>4
    <3> HIDE DEF o
    <3>4. Phase' = [Phase EXCEPT ![o] = <<"removed", job[o]>>]
      BY <2>1, <3>1, <3>3 DEF Phase
    <3>5. Lifecycle!Remove(o)
      BY <2>1, <3>1, <3>2, <3>4 DEF Lifecycle!Remove
    <3> QED BY <3>1, <3>5 DEF Lifecycle!LifecycleNext
  <2> QED BY <2>2, <2>3, <2>4
<1>7. CASE UNCHANGED retentionVars
  BY <1>7, SamePhase DEF retentionVars, storeVars, effectVars
<1> QED BY <1>1, <1>2, <1>3, <1>4, <1>5, <1>6, <1>7 DEF RetentionNext

(* Uploads, disposals and workers implement ObjectLifecycle: an attachment  *)
(* always has its file, and the certificate of a disposal comes after the   *)
(* removal of all its files (process_retention_side_effects).               *)
THEOREM LifecycleTheorem ==
  RetentionSpec => ObjectsFollowLifecycle
<1>1. RetInv /\ [RetentionNext]_retentionVars => [Lifecycle!LifecycleNext]_<<Phase, certificates>>
  BY NextLifecycle
<1> QED BY <1>1, InitLifecycle, RetentionInvariant, PTL
      DEF RetentionSpec, ObjectsFollowLifecycle, Lifecycle!LifecycleSpec
=============================================================================
