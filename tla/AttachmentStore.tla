----------------------------- MODULE AttachmentStore -----------------------------
(***************************************************************************)
(* Uploads and downloads of attachments (files/views.py, files/services.py) *)
(* over two stores that share no transaction: the database, where a row    *)
(* appears at commit, and the object store, where a file is there at once. *)
(* An upload holds the row lock of its ticket while it stores the files.   *)
(***************************************************************************)
EXTENDS Naturals, Sequences

CONSTANTS
  Tickets,       \* primary keys, ordered as the database orders them
  Objects,       \* exact object versions (bucket, key, version); each is new
  Legacy,        \* stored before versions were recorded: rows without coordinates
  InitialRows,   \* the attachments there may be: functions from objects to tickets
  Uploads,       \* concurrent upload requests
  MaxFiles,      \* files of one request (10)
  Dates,         \* the days on which something happens
  None

ASSUME StoreAssumption ==
  /\ Tickets \subseteq Nat
  /\ \A rows \in InitialRows :
       /\ DOMAIN rows \subseteq Objects
       /\ \A o \in DOMAIN rows : rows[o] \in Tickets
  /\ Legacy \subseteq Objects
  /\ MaxFiles \in Nat \ {0}
  /\ Dates \subseteq Nat /\ 0 \in Dates
  /\ None \notin Nat \union Uploads

VARIABLES
  day,         \* the date
  tickets,     \* the tickets of the database
  lock,        \* the transaction that holds each ticket's row lock, or None
  row,         \* the ticket of each object's attachment row, or None
  uploaded,    \* date of the row (uploaded_at)
  accessed,    \* date of its last access log, None when there is none
  store,       \* objects in the object store
  used,        \* object keys given out
  upload,      \* each request: its step, ticket and the objects it has stored
  lost         \* history: objects that a crash or a failed deletion left behind

storeVars == <<row, uploaded, accessed, store, used, upload, lost>>

Idle == [step |-> "idle", ticket |-> None, stored |-> << >>]

StoreInit ==
  \E rows \in InitialRows :
    /\ day = 0
    /\ tickets = {rows[o] : o \in DOMAIN rows}
    /\ lock = [t \in Tickets |-> None]
    /\ row = [o \in Objects |-> IF o \in DOMAIN rows THEN rows[o] ELSE None]
    /\ uploaded = [o \in Objects |-> 0]
    /\ accessed = [o \in Objects |-> None]
    /\ store = DOMAIN rows
    /\ used = DOMAIN rows
    /\ upload = [u \in Uploads |-> Idle]
    /\ lost = {}

StoredBy(u) == {upload[u].stored[i] : i \in DOMAIN upload[u].stored}

Release(owner) == [t \in Tickets |-> IF lock[t] = owner THEN None ELSE lock[t]]

(* The request finds the ticket in scope and its files are valid.           *)
ReceiveUpload(u, t) ==
  /\ upload[u].step = "idle"
  /\ t \in tickets
  /\ upload' = [upload EXCEPT ![u] = [@ EXCEPT !.step = "received", !.ticket = t]]
  /\ UNCHANGED <<day, tickets, lock, row, uploaded, accessed, store, used, lost>>

(* Under the lock the ticket is looked up and permission decided again.     *)
LockTicket(u) ==
  /\ upload[u].step = "received"
  /\ upload[u].ticket \in tickets
  /\ lock[upload[u].ticket] = None
  /\ lock' = [lock EXCEPT ![upload[u].ticket] = u]
  /\ upload' = [upload EXCEPT ![u].step = "storing"]
  /\ UNCHANGED <<day, tickets, row, uploaded, accessed, store, used, lost>>

(* The ticket is gone, or the actor may no longer add to it.                *)
RefuseUpload(u) ==
  /\ upload[u].step = "received"
  /\ upload' = [upload EXCEPT ![u] = Idle]
  /\ UNCHANGED <<day, tickets, lock, row, uploaded, accessed, store, used, lost>>

UploadToMinio(u, o) ==
  /\ upload[u].step = "storing"
  /\ Len(upload[u].stored) < MaxFiles
  /\ o \notin used \union Legacy
  /\ used' = used \union {o}
  /\ store' = store \union {o}
  /\ upload' = [upload EXCEPT ![u].stored = Append(@, o)]
  /\ UNCHANGED <<day, tickets, lock, row, uploaded, accessed, lost>>

(* The put fails: the transaction is rolled back and the files stored so    *)
(* far are to be deleted.  It may have stored this one nonetheless, when    *)
(* the answer is lost or comes without a version.                           *)
UploadFails(u, orphans) ==
  /\ upload[u].step = "storing"
  /\ orphans = {} \/ \E o \in Objects \ (used \union Legacy) : orphans = {o}
  /\ used' = used \union orphans
  /\ store' = store \union orphans
  /\ lost' = lost \union orphans
  /\ lock' = Release(u)
  /\ upload' = [upload EXCEPT ![u].step = "cleaning"]
  /\ UNCHANGED <<day, tickets, row, uploaded, accessed>>

RecordAttachments(u) ==
  /\ upload[u].step = "storing"
  /\ upload[u].stored # << >>
  /\ row' = [o \in Objects |-> IF o \in StoredBy(u) THEN upload[u].ticket ELSE row[o]]
  /\ uploaded' = [o \in Objects |-> IF o \in StoredBy(u) THEN day ELSE uploaded[o]]
  /\ lock' = Release(u)
  /\ upload' = [upload EXCEPT ![u] = Idle]
  /\ UNCHANGED <<day, tickets, accessed, store, used, lost>>

(* The stored files are deleted, the last one first; a deletion that fails  *)
(* is logged and not tried again.                                           *)
CleanupStoredObjects(u, fails) ==
  LET n == Len(upload[u].stored) IN
  /\ upload[u].step = "cleaning"
  /\ IF n = 0
       THEN /\ upload' = [upload EXCEPT ![u] = Idle]
            /\ UNCHANGED <<store, lost>>
       ELSE /\ store' = IF fails THEN store ELSE store \ {upload[u].stored[n]}
            /\ lost' = IF fails THEN lost \union {upload[u].stored[n]} ELSE lost
            /\ upload' = [upload EXCEPT ![u].stored = SubSeq(@, 1, n - 1)]
  /\ UNCHANGED <<day, tickets, lock, row, uploaded, accessed, used>>

(* The process dies: the database rolls back, the object store does not.    *)
UploadCrash(u) ==
  /\ upload[u].step \in {"storing", "cleaning"}
  /\ lost' = lost \union StoredBy(u)
  /\ lock' = Release(u)
  /\ upload' = [upload EXCEPT ![u] = Idle]
  /\ UNCHANGED <<day, tickets, row, uploaded, accessed, store, used>>

(* A download writes an access log, which refers to the attachment: it      *)
(* waits for a transaction that has locked the attachment, and for no other. *)
Download(o, attachmentLocked) ==
  /\ row[o] # None
  /\ ~attachmentLocked
  /\ accessed' = [accessed EXCEPT ![o] = day]
  /\ UNCHANGED <<day, tickets, lock, row, uploaded, store, used, upload, lost>>

UploadStep(u) ==
  \/ \E t \in tickets : ReceiveUpload(u, t)
  \/ LockTicket(u) \/ RefuseUpload(u)
  \/ \E o \in Objects : UploadToMinio(u, o)
  \/ \E orphans \in {{}} \union {{o} : o \in Objects} : UploadFails(u, orphans)
  \/ RecordAttachments(u)
  \/ \E fails \in BOOLEAN : CleanupStoredObjects(u, fails)
  \/ UploadCrash(u)

StoreTypeOK ==
  /\ tickets \subseteq Tickets
  /\ row \in [Objects -> Tickets \union {None}]
  /\ uploaded \in [Objects -> Dates]
  /\ accessed \in [Objects -> Dates \union {None}]
  /\ store \subseteq used
  /\ used \subseteq Objects
  /\ upload \in [Uploads -> [step : {"idle", "received", "storing", "cleaning"},
                              ticket : Tickets \union {None}, stored : Seq(Objects)]]
  /\ lost \subseteq Objects
=============================================================================
