---------------------------- MODULE DataProcessing ----------------------------
(***************************************************************************)
(* The processing queue of Data Hub: admission of source files             *)
(* (data_management/library.py), the processor that turns the oldest       *)
(* admitted attempt into a published data set (processing.py), the files   *)
(* other applications read (publications.py) and the joint backup of       *)
(* database and files with its restoration (apps/maintenance.py).          *)
(*                                                                         *)
(* A process_attempt() holds two advisory locks, the shared gate of        *)
(* library_write() and the claim of processing_claim(), but each belongs   *)
(* to one connection and the rows are written through others: when the     *)
(* claim's connection is lost the processor goes on, and only the trigger  *)
(* that protects decided attempts stops it.                                *)
(*                                                                         *)
(* Rows of an import, its quality and its observations stand behind one    *)
(* snapshot per key; whether the input is acceptable is left open.  Files  *)
(* are not damaged, and revisions are clean ones (a "-dirty" revision      *)
(* never reuses a product).                                                *)
(***************************************************************************)
EXTENDS Naturals, Sequences, FiniteSets

CONSTANTS
  Workers,      \* supervised data workers
  Operators,    \* processors of one-shot commands
  Requests,     \* request identifiers of admissions
  Contents,     \* bytes of a file, by digest
  Parameters,   \* declarations and mapping under which bytes are processed
  Revisions,    \* code revisions under which admitting applications run
  Running,      \* the revision of the processors
  None,
  MaxCommands,  \* bound: starts of one-shot commands
  MaxFaults     \* bound: deaths of a processor from outside and lost claims

Processors == Workers \union Operators

ASSUME ProcessingAssumption ==
  /\ Workers \intersect Operators = {} /\ IsFiniteSet(Requests)
  /\ None \notin Processors \union Contents /\ Running \in Revisions
  /\ MaxCommands \in Nat /\ MaxFaults \in Nat

VARIABLES
  \* PostgreSQL: data_sources, data_processing_attempts by age, and the keys of
  \* the snapshots the import has committed, confirmed or not
  sources, attempts, snapshots,
  \* the host's directories: source bytes, and publications by snapshot
  bytes, files,
  \* the admission under way
  admitting,
  \* the processors and the advisory lock of processing_claim
  pc, outbox, current, product, claim,
  \* the backup: its phase, what its transaction sees, what it has copied
  backup, dump, archived,
  \* bounds
  commands, crashes, lost

database   == <<sources, attempts, snapshots>>
storage    == <<bytes, files>>
processors == <<pc, outbox, current, product, claim>>
backups    == <<backup, dump, archived>>
bounds     == <<commands, crashes, lost>>
vars       == <<database, storage, admitting, processors, backups, bounds>>

Decided == {"FAILED", "PUBLISHED"}
Status  == {"PENDING", "RUNNING"} \union Decided
Phase   == {"DOWN", "IDLE", "LOCKED", "REPAIRING", "PICKED", "LOOKING",
            "PUBLISHING", "CONFIRMING", "EXPORTING", "LEAVING"}
Slot    == 1..Cardinality(Requests)

Snapshot == [source : Slot, parameters : Parameters, revision : Revisions]
Attempt  == [request : Requests, source : Slot, parameters : Parameters,
             revision : Revisions, status : Status, snapshot : Snapshot \union {None}]

Empty == [sources |-> << >>, attempts |-> << >>, snapshots |-> {}]

Init ==
  /\ sources = << >> /\ attempts = << >> /\ snapshots = {}
  /\ bytes = {} /\ files = {}
  /\ admitting = None
  /\ pc = [p \in Processors |-> "DOWN"]
  /\ outbox = [p \in Processors |-> {}] /\ current = [p \in Processors |-> 0]
  /\ product = [p \in Processors |-> None]
  /\ claim = None
  /\ backup = "NONE" /\ dump = Empty /\ archived = {}
  /\ commands = 0 /\ crashes = 0 /\ lost = 0

-----------------------------------------------------------------------------
(* Admission: submit(), submit_reprocess().  The admission lock lets one      *)
(* request in; a request whose identifier has an attempt returns that attempt *)
(* or is rejected, and changes nothing here.                                  *)

GateOpen == backup # "HOLDING"

Unknown(request) == \A i \in DOMAIN attempts : attempts[i].request # request

NewAttempt(request, source, parameters, rev) ==
  [request |-> request, source |-> source, parameters |-> parameters, revision |-> rev,
   status |-> "PENDING", snapshot |-> None]

\* _receive: the bytes are durable before any row names them.
Store(request, content, parameters, rev) ==
  /\ admitting = None /\ GateOpen /\ Unknown(request)
  /\ bytes' = bytes \union {content}
  /\ admitting' = [content |-> content,
                   attempt |-> NewAttempt(request, Len(sources) + 1, parameters, rev)]
  /\ UNCHANGED <<database, files, processors, backups, bounds>>

\* Source and attempt in one transaction.
Admit ==
  /\ admitting # None
  /\ sources' = Append(sources, admitting.content)
  /\ attempts' = Append(attempts, admitting.attempt)
  /\ admitting' = None
  /\ UNCHANGED <<snapshots, storage, processors, backups, bounds>>

\* The application dies or the transaction fails: bytes nobody names stay.
AbandonAdmission ==
  /\ admitting # None
  /\ admitting' = None
  /\ UNCHANGED <<database, storage, processors, backups, bounds>>

Resubmit(request, source, parameters, rev) ==
  /\ admitting = None /\ GateOpen /\ Unknown(request)
  /\ attempts' = Append(attempts, NewAttempt(request, source, parameters, rev))
  /\ UNCHANGED <<sources, snapshots, storage, admitting, processors, backups, bounds>>

-----------------------------------------------------------------------------
(* The life of a processor and its claim.                                     *)

Goto(p, phase) == pc' = [pc EXCEPT ![p] = phase]

\* The process is gone, and with it its connections and its locks.
Down(p) ==
  /\ Goto(p, "DOWN")
  /\ outbox' = [outbox EXCEPT ![p] = {}]
  /\ current' = [current EXCEPT ![p] = 0]
  /\ product' = [product EXCEPT ![p] = None]
  /\ claim' = IF claim = p THEN None ELSE claim

Start(p) ==
  /\ pc[p] = "DOWN"
  /\ p \in Operators => commands < MaxCommands
  /\ Goto(p, "IDLE")
  /\ commands' = commands + (IF p \in Operators THEN 1 ELSE 0)
  /\ UNCHANGED <<database, storage, admitting, outbox, current, product, claim, backups,
                 crashes, lost>>

\* library_write, then the advisory lock of processing_claim.
Claim(p) ==
  /\ pc[p] = "IDLE" /\ GateOpen /\ claim = None
  /\ Goto(p, "LOCKED") /\ claim' = p
  /\ UNCHANGED <<database, storage, admitting, outbox, current, product, backups, bounds>>

\* Either lock is not granted within five seconds: the call raises.
TimeOut(p) ==
  /\ pc[p] = "IDLE" /\ (~GateOpen \/ claim # None)
  /\ Down(p)
  /\ UNCHANGED <<database, storage, admitting, backups, bounds>>

Interrupted(rows) ==
  [i \in DOMAIN rows |->
     IF rows[i].status = "RUNNING" THEN [rows[i] EXCEPT !.status = "FAILED"] ELSE rows[i]]

Confirmed == {i \in DOMAIN attempts : attempts[i].status = "PUBLISHED"}
Published == {attempts[i].snapshot : i \in Confirmed}

\* Faulty variant: a publication that was not exported is not repaired.
NothingMissing == {}

Missing == Published \ files

\* Whoever holds the claim takes every running attempt for a dead owner's, and
\* then reads which publications lack their file.
Interrupt(p) ==
  /\ pc[p] = "LOCKED"
  /\ Goto(p, "REPAIRING")
  /\ attempts' = Interrupted(attempts) /\ outbox' = [outbox EXCEPT ![p] = Missing]
  /\ UNCHANGED <<sources, snapshots, storage, admitting, current, product, claim, backups,
                 bounds>>

\* publish() links a finished file and accepts an equal one.
Repair(p) ==
  /\ pc[p] = "REPAIRING"
  /\ \E s \in outbox[p] :
       /\ files' = files \union {s}
       /\ outbox' = [outbox EXCEPT ![p] = @ \ {s}]
  /\ UNCHANGED <<database, bytes, admitting, pc, current, product, claim, backups, bounds>>

Pending == {i \in DOMAIN attempts : attempts[i].status = "PENDING"}

\* A worker takes the oldest pending attempt, a command the one it was given.
Offered(p) ==
  IF p \in Workers THEN {i \in Pending : \A j \in Pending : i <= j} ELSE Pending

Pick(p) ==
  /\ pc[p] = "REPAIRING" /\ outbox[p] = {}
  /\ \E i \in Offered(p) : current' = [current EXCEPT ![p] = i]
  /\ Goto(p, "PICKED")
  /\ UNCHANGED <<database, storage, admitting, outbox, product, claim, backups, bounds>>

\* Nothing is pending, or the command's attempt is not.
NothingToDo(p) ==
  /\ pc[p] = "REPAIRING" /\ outbox[p] = {}
  /\ Pending # {} => p \in Operators /\ Pending # DOMAIN attempts
  /\ Goto(p, "LEAVING")
  /\ UNCHANGED <<database, storage, admitting, outbox, current, product, claim, backups,
                 bounds>>

\* The locks are given back by ending their transactions, which fails for a
\* connection that is lost.
Leave(p) ==
  /\ pc[p] = "LEAVING"
  /\ IF claim = p /\ p \in Workers
     THEN /\ Goto(p, "IDLE") /\ claim' = None
          /\ current' = [current EXCEPT ![p] = 0]
          /\ product' = [product EXCEPT ![p] = None]
          /\ UNCHANGED outbox
     ELSE Down(p)
  /\ UNCHANGED <<database, storage, admitting, backups, bounds>>

-----------------------------------------------------------------------------
(* Processing one attempt: _process().                                        *)

Mine(p) == attempts[current[p]]

\* The trigger of data_processing_attempts: a decided row takes no update.
Writable(p) == Mine(p).status \notin Decided

Write(p, status, snapshot) ==
  attempts' = [attempts EXCEPT ![current[p]].status = status, ![current[p]].snapshot = snapshot]

Key(row) == [source |-> row.source, parameters |-> row.parameters, revision |-> row.revision]

\* processing_hash: not which source, but what it contains.
Meaning(row) == <<sources[row.source], row.parameters, row.revision>>

SameRevision(p) == Mine(p).revision = Running

\* _verify_source: the retained file is there and unchanged.
Available(p) == sources[Mine(p).source] \in bytes

Begin(p) ==
  /\ pc[p] = "PICKED" /\ SameRevision(p) /\ Writable(p)
  /\ Write(p, "RUNNING", None) /\ Goto(p, "LOOKING")
  /\ UNCHANGED <<sources, snapshots, storage, admitting, outbox, current, product, claim,
                 backups, bounds>>

Refuse(p) ==
  /\ pc[p] = "PICKED" /\ ~SameRevision(p) /\ Writable(p)
  /\ Write(p, "FAILED", None) /\ Goto(p, "LEAVING")
  /\ UNCHANGED <<sources, snapshots, storage, admitting, outbox, current, product, claim,
                 backups, bounds>>

\* Faulty variant: only the same source counts as the same work.
EquivalentSource(p) == {i \in Confirmed : Key(attempts[i]) = Key(Mine(p))}

Equivalent(p) == {i \in Confirmed : Meaning(attempts[i]) = Meaning(Mine(p))}

Lend(p, s) == product' = [product EXCEPT ![p] = s] /\ Goto(p, "CONFIRMING")

\* The oldest published attempt of the same meaning lends its product.
Reuse(p) ==
  /\ pc[p] = "LOOKING" /\ Available(p)
  /\ \E i \in Equivalent(p) :
       /\ \A j \in Equivalent(p) : i <= j
       /\ Lend(p, attempts[i].snapshot)
  /\ UNCHANGED <<database, storage, admitting, outbox, current, claim, backups, bounds>>

\* Otherwise _import_market writes its stages and takes a snapshot of the same
\* key, which an interrupted attempt left, as it is.
Import(p) ==
  /\ pc[p] = "LOOKING" /\ Available(p) /\ Equivalent(p) = {} /\ Writable(p)
  /\ IF Key(Mine(p)) \in snapshots
     THEN Lend(p, Key(Mine(p)))
     ELSE Goto(p, "PUBLISHING") /\ UNCHANGED product
  /\ UNCHANGED <<database, storage, admitting, outbox, current, claim, backups, bounds>>

\* The snapshot's own transaction, which asks nothing of the attempt.
PublishSnapshot(p) ==
  /\ pc[p] = "PUBLISHING"
  /\ snapshots' = snapshots \union {Key(Mine(p))}
  /\ Lend(p, Key(Mine(p)))
  /\ UNCHANGED <<sources, attempts, storage, admitting, outbox, current, claim, backups,
                 bounds>>

\* Faulty variant: the file is linked before the attempt is confirmed.
ConfirmExported(p) ==
  /\ pc[p] = "CONFIRMING"
  /\ files' = files \union {product[p]}
  /\ Goto(p, "EXPORTING")
  /\ UNCHANGED <<database, bytes, admitting, outbox, current, product, claim, backups,
                 bounds>>

Confirm(p) ==
  /\ pc[p] = "CONFIRMING" /\ Writable(p)
  /\ Write(p, "PUBLISHED", product[p]) /\ Goto(p, "EXPORTING")
  /\ UNCHANGED <<sources, snapshots, storage, admitting, outbox, current, product, claim,
                 backups, bounds>>

Export(p) ==
  /\ pc[p] = "EXPORTING"
  /\ files' = files \union {product[p]} /\ Goto(p, "LEAVING")
  /\ UNCHANGED <<database, bytes, admitting, outbox, current, product, claim, backups,
                 bounds>>

\* Bad input ends the attempt; an internal failure ends the processor as well.
Fail(p) ==
  /\ pc[p] \in {"LOOKING", "PUBLISHING", "CONFIRMING"} /\ Writable(p)
  /\ Write(p, "FAILED", None)
  /\ \/ /\ Goto(p, "LEAVING")
        /\ UNCHANGED <<outbox, current, product, claim>>
     \/ Down(p)
  /\ UNCHANGED <<sources, snapshots, storage, admitting, backups, bounds>>

\* Somebody decided the attempt: this write raises and so does writing FAILED.
Fenced(p) ==
  /\ pc[p] \in {"PICKED", "LOOKING", "PUBLISHING", "CONFIRMING"} /\ ~Writable(p)
  /\ Down(p)
  /\ UNCHANGED <<database, storage, admitting, backups, bounds>>

Crash(p) ==
  /\ pc[p] # "DOWN" /\ crashes + lost < MaxFaults
  /\ Down(p) /\ crashes' = crashes + 1
  /\ UNCHANGED <<database, storage, admitting, backups, commands, lost>>

\* The database ends the claim's transaction; the processor does not notice yet.
LoseClaim ==
  /\ claim # None /\ crashes + lost < MaxFaults
  /\ claim' = None /\ lost' = lost + 1
  /\ UNCHANGED <<database, storage, admitting, pc, outbox, current, product, backups,
                 commands, crashes>>

-----------------------------------------------------------------------------
(* Backup and restoration: apps/maintenance.py.                               *)

Quiet == admitting = None /\ \A p \in Processors : pc[p] \in {"DOWN", "IDLE"}

\* The statement that waits for the gate is the first of a REPEATABLE READ
\* transaction: what the backup sees is fixed before it waits.
BeginBackup ==
  /\ backup = "NONE"
  /\ backup' = "WAITING"
  /\ dump' = [sources |-> sources, attempts |-> attempts, snapshots |-> snapshots]
  /\ UNCHANGED <<database, storage, admitting, processors, archived, bounds>>

CloseGate ==
  /\ backup = "WAITING" /\ Quiet
  /\ backup' = "HOLDING"
  /\ UNCHANGED <<database, storage, admitting, processors, dump, archived, bounds>>

Contained(rows) == {rows[i] : i \in DOMAIN rows}

\* Faulty variant: pg_dump without --snapshot reads what is there now.
CopyBackupNow ==
  /\ backup = "HOLDING" /\ Contained(dump.sources) \subseteq bytes
  /\ archived' = Contained(dump.sources) /\ backup' = "DONE"
  /\ dump' = [sources |-> sources, attempts |-> attempts, snapshots |-> snapshots]
  /\ UNCHANGED <<database, storage, admitting, processors, bounds>>

\* References and pg_dump read one exported snapshot; a missing file raises.
CopyBackup ==
  /\ backup = "HOLDING" /\ Contained(dump.sources) \subseteq bytes
  /\ archived' = Contained(dump.sources) /\ backup' = "DONE"
  /\ UNCHANGED <<database, storage, admitting, processors, dump, bounds>>

\* The gate times out, a tool fails or the command dies.  One backup is followed.
AbandonBackup ==
  /\ backup \in {"WAITING", "HOLDING"}
  /\ backup' = "ABANDONED"
  /\ dump' = Empty
  /\ UNCHANGED <<database, storage, admitting, processors, archived, bounds>>

\* Into an empty database and new directories, with every application stopped;
\* reconcile() interrupts what ran.  These publications are not in the backup.
\* (That the directory of publications is new as well, the code does not check.)
Restore ==
  /\ backup = "DONE" /\ admitting = None /\ \A p \in Processors : pc[p] = "DOWN"
  /\ sources' = dump.sources /\ snapshots' = dump.snapshots
  /\ attempts' = Interrupted(dump.attempts)
  /\ bytes' = archived /\ files' = {}
  /\ backup' = "RESTORED" /\ dump' = Empty /\ archived' = {}
  /\ UNCHANGED <<admitting, processors, bounds>>

-----------------------------------------------------------------------------
Process(p) ==
  \/ Claim(p) \/ Interrupt(p) \/ Repair(p) \/ Pick(p) \/ NothingToDo(p)
  \/ Leave(p) \/ Begin(p) \/ Refuse(p) \/ Reuse(p) \/ Import(p) \/ PublishSnapshot(p)
  \/ Confirm(p) \/ Export(p) \/ Fail(p) \/ Fenced(p)

Next ==
  \/ \E r \in Requests, m \in Parameters, v \in Revisions :
       \/ \E c \in Contents : Store(r, c, m, v)
       \/ \E s \in DOMAIN sources : Resubmit(r, s, m, v)
  \/ Admit \/ AbandonAdmission
  \/ \E p \in Processors : Process(p) \/ TimeOut(p) \/ Crash(p) \/ Start(p)
  \/ LoseClaim
  \/ BeginBackup \/ CloseGate \/ CopyBackup \/ AbandonBackup \/ Restore

Spec == Init /\ [][Next]_vars

\* Processes are scheduled, workers are restarted (compose: unless-stopped),
\* and a backup has a bounded window.
FairSpec ==
  /\ Spec
  /\ \A p \in Processors : WF_vars(Process(p))
  /\ \A w \in Workers : WF_vars(Start(w))
  /\ WF_vars(CopyBackup \/ AbandonBackup)

-----------------------------------------------------------------------------
TypeOK ==
  /\ sources \in Seq(Contents) /\ Len(sources) \in 0..Cardinality(Requests)
  /\ attempts \in Seq(Attempt) /\ snapshots \subseteq Snapshot
  /\ \A i \in DOMAIN attempts : attempts[i].source \in DOMAIN sources
  /\ bytes \subseteq Contents /\ files \subseteq Snapshot
  /\ admitting \in [content : Contents, attempt : Attempt] \union {None}
  /\ pc \in [Processors -> Phase]
  /\ outbox \in [Processors -> SUBSET Snapshot]
  /\ current \in [Processors -> 0..Cardinality(Requests)]
  /\ product \in [Processors -> Snapshot \union {None}]
  /\ claim \in Processors \union {None}
  /\ backup \in {"NONE", "WAITING", "HOLDING", "ABANDONED", "DONE", "RESTORED"}
  /\ archived \subseteq Contents
  /\ commands \in 0..MaxCommands /\ crashes \in Nat /\ lost \in Nat /\ crashes + lost <= MaxFaults

\* A publication other applications can read belongs to a confirmed attempt whose
\* snapshot and source bytes are there, whatever crash or late processor wrote it
\* (processing.py:189, "Publication remains hidden until confirmed").
ReadableIsConfirmed ==
  \A s \in files :
    /\ s \in Published /\ s \in snapshots
    /\ sources[s.source] \in bytes

\* The library is in order, and so is what it lets others read.
LibraryIsSound == TypeOK /\ ReadableIsConfirmed

\* While no claim was lost, equal bytes under equal parameters and code have one
\* product, whichever source and attempt they came by (processing.py:124-136).  After
\* a lost claim two processors may both look before either confirms.
OneProductPerMeaning ==
  lost = 0 =>
    \A i, j \in Confirmed :
      Meaning(attempts[i]) = Meaning(attempts[j]) => attempts[i].snapshot = attempts[j].snapshot

\* A finished backup can be restored: every source its database names was copied,
\* also one that was admitted while the backup waited for the gate.
BackupIsWhole ==
  backup = "DONE" =>
    /\ Contained(dump.sources) \subseteq archived
    /\ \A i \in DOMAIN dump.attempts :
         /\ dump.attempts[i].source \in DOMAIN dump.sources
         /\ dump.attempts[i].status = "PUBLISHED" => dump.attempts[i].snapshot \in dump.snapshots

\* Admitted work is answered: an attempt fails, or its product becomes readable,
\* also after crashes, a lost claim and a restoration (unless the restored
\* database is older than the attempt).
AdmissionIsAnswered ==
  \A i \in Slot :
    i \in DOMAIN attempts ~>
      \/ i \notin DOMAIN attempts
      \/ attempts[i].status = "FAILED"
      \/ attempts[i].status = "PUBLISHED" /\ attempts[i].snapshot \in files
=============================================================================
