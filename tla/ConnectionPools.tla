--------------------------- MODULE ConnectionPools ---------------------------
(***************************************************************************)
(* The store's two pools of connections, and its operations statement by   *)
(* statement: IssueStore and the other modules take an operation for one   *)
(* step, this module shows what makes it one.  Besides the goroutines of   *)
(* the server, another process, gc, writes to the same file.               *)
(*                                                                         *)
(* SQLite is modelled from how the store uses it, in WAL mode: one writer  *)
(* at a time over all processes, readers that never wait, and transactions *)
(* that start with the snapshot of their first read.                       *)
(***************************************************************************)
EXTENDS Integers, FiniteSets

CONSTANTS
  Callers,          \* goroutines of the server, each with one operation
  ReaderPoolSize    \* readerPoolSize

ASSUME PoolAssumption == IsFiniteSet(Callers) /\ ReaderPoolSize \in Nat \ {0}

VARIABLES
  kind,       \* the operation each caller makes
  at,         \* how far it is
  result,     \* what it returned
  snapshot,   \* the version of the database its transaction reads
  patient,    \* whether the writing connection has a busy_timeout
  version,    \* the number of transactions committed
  gc          \* where the other process is

calls == <<kind, at, result, snapshot>>
database == <<patient, version, gc>>
poolVars == <<calls, database>>

(* SaveEvent; one writing statement; one query; Ping *)
Kinds == {"save", "write", "read", "ping"}

HasWriter == {c \in Callers : at[c] \in {"writing", "checked", "wrote"}}
HasReader == {c \in Callers : at[c] = "reading"}

(* The lock on the file is held from the first write to the commit. *)
LockFree == gc # "deleting" /\ \A c \in Callers : at[c] # "wrote"

-------------------------------------------------------------------------------
(* Operators named ...Slip are near misses of the definition they precede.  *)
(* No specification uses them: put in its place, each breaks a property.    *)
WriterPoolSizeSlip == 2

WriterPoolSize == 1

Move(c, place) == at' = [at EXCEPT ![c] = place]

Return(c, r) ==
  /\ Move(c, "done")
  /\ result' = [result EXCEPT ![c] = r]

(* A query asks the readers for a connection, everything else the writer. *)
Call(c, k) ==
  /\ kind' = [kind EXCEPT ![c] = k]
  /\ Move(c, IF k = "read" THEN "wants reader" ELSE "wants writer")
  /\ UNCHANGED <<result, snapshot, database>>

TakeWriter(c) ==
  /\ at[c] = "wants writer"
  /\ Cardinality(HasWriter) < WriterPoolSize
  /\ Move(c, "writing")
  /\ UNCHANGED <<kind, result, snapshot, database>>

TakeReaderSlip(c) ==    \* no SetMaxOpenConns: a connection for each query
  /\ at[c] = "wants reader"
  /\ Move(c, "reading")
  /\ UNCHANGED <<kind, result, snapshot, database>>

TakeReader(c) ==
  /\ at[c] = "wants reader"
  /\ Cardinality(HasReader) < ReaderPoolSize
  /\ Move(c, "reading")
  /\ UNCHANGED <<kind, result, snapshot, database>>

(* WAL: a query reads a committed version, whoever writes. *)
Query(c) ==
  /\ at[c] = "reading"
  /\ Return(c, "ok")
  /\ UNCHANGED <<kind, snapshot, database>>

(* Ping gives the writer back before it asks for a reader. *)
PingReader(c) ==
  /\ at[c] = "writing"
  /\ kind[c] = "ping"
  /\ Move(c, "wants reader")
  /\ UNCHANGED <<kind, result, snapshot, database>>

CheckSlip(c) ==    \* the query goes to writeDB, not to the transaction
  /\ at[c] = "writing"
  /\ kind[c] = "save"
  /\ Cardinality(HasWriter) < WriterPoolSize
  /\ snapshot' = [snapshot EXCEPT ![c] = version]
  /\ Move(c, "checked")
  /\ UNCHANGED <<kind, result, database>>

(* BeginTx takes no lock.  SaveEvent's first query fixes what the             *)
(* transaction reads: a duplicate, or an event to store.                      *)
Check(c) ==
  /\ at[c] = "writing"
  /\ kind[c] = "save"
  /\ snapshot' = [snapshot EXCEPT ![c] = version]
  /\ \/ Return(c, "ok")
     \/ Move(c, "checked") /\ UNCHANGED result
  /\ UNCHANGED <<kind, database>>

UpgradableSlip(c) == LockFree    \* as if it had read outside the transaction

(* A transaction that has read cannot wait for the lock, nor write on top of  *)
(* what it has not read: SQLite refuses it at once, whatever its busy_timeout. *)
Upgradable(c) == LockFree /\ snapshot[c] = version

Upsert(c) ==
  /\ at[c] = "checked"
  /\ IF Upgradable(c) THEN Move(c, "wrote") /\ UNCHANGED result
                      ELSE Return(c, "locked")
  /\ UNCHANGED <<kind, snapshot, database>>

Commit(c) ==
  /\ at[c] = "wrote"
  /\ version' = version + 1
  /\ Return(c, "ok")
  /\ UNCHANGED <<kind, snapshot, patient, gc>>

(* A statement on its own waits for the lock, if its connection has been told *)
(* to, and fails otherwise.  It is committed at once.                         *)
Exec(c) ==
  /\ at[c] = "writing"
  /\ kind[c] = "write"
  /\ \/ LockFree /\ version' = version + 1 /\ Return(c, "ok")
     \/ ~LockFree /\ ~patient /\ UNCHANGED version /\ Return(c, "locked")
  /\ UNCHANGED <<kind, snapshot, patient, gc>>

(* busy_timeout is over. *)
GiveUp(c) ==
  /\ at[c] = "writing"
  /\ kind[c] = "write"
  /\ ~LockFree /\ patient
  /\ Return(c, "timed out")
  /\ UNCHANGED <<kind, snapshot, database>>

(* The caller's context is canceled: what it began is rolled back, and the    *)
(* pool may replace its connection by one nobody gave a busy_timeout.         *)
Cancel(c) ==
  /\ at[c] \notin {"away", "done"}
  /\ Return(c, "canceled")
  /\ IF c \in HasWriter THEN patient' \in {patient, FALSE} ELSE UNCHANGED patient
  /\ UNCHANGED <<kind, snapshot, version, gc>>

(* trackdown gc: DeleteOldEvents of a process with pools of its own. *)
GcDelete ==
  /\ gc = "off"
  /\ LockFree
  /\ gc' = "deleting"
  /\ UNCHANGED <<calls, patient, version>>

(* It may have found nothing to delete. *)
GcCommit ==
  /\ gc = "deleting"
  /\ gc' = "ended"
  /\ version' \in {version, version + 1}
  /\ UNCHANGED <<calls, patient>>

Progress(c) ==
  \/ TakeWriter(c) \/ TakeReader(c) \/ Query(c) \/ PingReader(c)
  \/ Check(c) \/ Upsert(c) \/ Commit(c) \/ Exec(c)

(* Open gives the one writing connection there is its busy_timeout. *)
PoolInit ==
  /\ kind = [c \in Callers |-> "none"]
  /\ at = [c \in Callers |-> "away"]
  /\ result = [c \in Callers |-> "none"]
  /\ snapshot = [c \in Callers |-> 0]
  /\ patient = TRUE
  /\ version = 0
  /\ gc = "off"

-------------------------------------------------------------------------------
PoolTypeOK ==
  /\ kind \in [Callers -> Kinds \cup {"none"}]
  /\ at \in [Callers -> {"away", "open", "wants writer", "wants reader", "writing",
                         "checked", "wrote", "reading", "done"}]
  /\ result \in [Callers -> {"none", "ok", "locked", "timed out", "canceled",
                             "closed", "cut"}]
  /\ snapshot \in [Callers -> Nat]
  /\ patient \in BOOLEAN
  /\ version \in Nat
  /\ gc \in {"off", "deleting", "ended"}
  /\ Cardinality(HasReader) <= ReaderPoolSize

(* What SaveEvent decides on, that the event is not stored yet and which     *)
(* status its issue has, is still so when it writes and commits, whatever    *)
(* other processes do: that makes the transaction one step.                  *)
ReadsHold == \A c \in Callers : at[c] = "wrote" => snapshot[c] = version

(* "a single shared write connection avoids 'database is locked' errors      *)
(* under concurrent ingest": they take another process that writes.          *)
LockedOnlyByOthers ==
  \A c \in Callers : result[c] \in {"locked", "timed out"} => gc # "off"

(* "if a query ever does contend, wait up to 5s for the lock instead of      *)
(* failing immediately with 'database is locked.'"                           *)
ContendersWait == \A c \in Callers : result[c] # "locked"
===============================================================================
