--------------------------- MODULE LifecycleProofs ---------------------------
(***************************************************************************)
(* The safety of the pools and of a stop, for any number of goroutines and *)
(* any size of the reader pool.  The write pool of one connection makes    *)
(* the other writers of the process wait before they read, and the lock on *)
(* the file does the rest against other processes; that a drained server   *)
(* has no request left is what makes its end harmless.                     *)
(***************************************************************************)
EXTENDS Lifecycle, FiniteSetTheorems, TLAPS

OneWriter == \A c, d \in HasWriter : c = d

(* Whoever has written holds the lock, on top of what it has read. *)
LockHeld ==
  \A c \in Callers : at[c] = "wrote" => gc # "deleting" /\ snapshot[c] = version

(* Before another process writes, nothing changes under a transaction. *)
Undisturbed ==
  gc = "off" => \A c \in Callers : at[c] = "checked" => snapshot[c] = version

PoolInv == OneWriter /\ LockHeld /\ Undisturbed /\ LockedOnlyByOthers

(* An ending is known exactly when serve has left its select and the drain. *)
EndingKnown ==
  /\ ending = "none" <=> phase \in {"running", "draining"}
  /\ ending = "none" => status # "Stopped"

IInv == TypeOK /\ PoolInv /\ EndingKnown /\ StopsGracefully

-------------------------------------------------------------------------------
(* Nobody has a connection, and nothing has ended, in the beginning. *)
LEMMA InitIInv == Init => IInv
<1> SUFFICES ASSUME Init
             PROVE  IInv
  OBVIOUS
<1>1. HasReader = {} /\ HasWriter = {}
  BY DEF Init, PoolInit, HasReader, HasWriter
<1>2. Cardinality(HasReader) <= ReaderPoolSize
  BY <1>1, FS_EmptySet, PoolAssumption
<1>3. TypeOK
  BY <1>2 DEF Init, PoolInit, TypeOK, PoolTypeOK
<1>4. PoolInv
  BY <1>1 DEF Init, PoolInit, PoolInv, OneWriter, LockHeld, Undisturbed, LockedOnlyByOthers
<1>5. EndingKnown /\ StopsGracefully
  BY DEF Init, PoolInit, EndingKnown, StopsGracefully, Handlers
<1>6. QED
  BY <1>3, <1>4, <1>5 DEF IInv

(* A pool is not exceeded by giving connections back. *)
LEMMA FewerReaders ==
  ASSUME TypeOK, HasReader' \subseteq HasReader
  PROVE  Cardinality(HasReader') <= ReaderPoolSize
<1>1. IsFiniteSet(HasReader)
  BY PoolAssumption, FS_Subset DEF HasReader
<1>2. /\ IsFiniteSet(HasReader')
      /\ Cardinality(HasReader') <= Cardinality(HasReader)
  BY <1>1, FS_Subset
<1>3. Cardinality(HasReader) \in Nat /\ Cardinality(HasReader') \in Nat
  BY <1>1, <1>2, FS_CardinalityType
<1>4. Cardinality(HasReader) <= ReaderPoolSize
  BY Zenon DEF TypeOK, PoolTypeOK
<1>5. QED
  BY <1>2, <1>3, <1>4, PoolAssumption

(* The writer is free only when nobody has it. *)
LEMMA WriterFree ==
  ASSUME Cardinality(HasWriter) < WriterPoolSize
  PROVE  HasWriter = {}
<1>1. IsFiniteSet(HasWriter)
  BY PoolAssumption, FS_Subset DEF HasWriter
<1>2. Cardinality(HasWriter) \in Nat
  BY <1>1, FS_CardinalityType
<1>3. QED
  BY <1>1, <1>2, FS_EmptySet DEF WriterPoolSize

-------------------------------------------------------------------------------
(* The types, apart from what the prover takes for a formula. *)
Places == {"away", "open", "wants writer", "wants reader", "writing", "checked",
           "wrote", "reading", "done"}

Results == {"none", "ok", "locked", "timed out", "canceled", "closed", "cut"}

CallTypes ==
  /\ kind \in [Callers -> Kinds \cup {"none"}]
  /\ at \in [Callers -> Places]
  /\ result \in [Callers -> Results]
  /\ snapshot \in [Callers -> Nat]
  /\ version \in Nat
  /\ gc \in {"off", "deleting", "ended"}

LEMMA TypesSplit ==
  TypeOK <=> /\ CallTypes
             /\ patient \in BOOLEAN
             /\ Cardinality(HasReader) <= ReaderPoolSize
             /\ phase \in {"running", "draining", "closing", "closed", "exited"}
             /\ ending \in {"none", "drained", "timed out", "failed", "killed"}
             /\ status \in {"none", "StartPending", "Running", "StopPending", "Stopped"}
  BY Zenon DEF TypeOK, PoolTypeOK, CallTypes, Places, Results

(* What all the steps of a caller have in common: it moves, and no other;   *)
(* it is told one of the results; versions only grow by commits.            *)
CallerStep(c) ==
  /\ \E place \in Places : at' = [at EXCEPT ![c] = place]
  /\ result' = result \/ \E r \in Results : result' = [result EXCEPT ![c] = r]
  /\ kind' = kind \/ \E k \in Kinds : kind' = [kind EXCEPT ![c] = k]
  /\ snapshot' = snapshot \/ snapshot' = [snapshot EXCEPT ![c] = version]
  /\ version' \in {version, version + 1}
  /\ gc' = gc

(* Each step of a caller is of that form. *)
LEMMA StepForm ==
  ASSUME NEW c \in Callers,
         Progress(c) \/ GiveUp(c) \/ Cancel(c) \/ \E k \in Kinds : Call(c, k)
  PROVE  CallerStep(c)
<1> USE DEF CallerStep, Places, Results, Move, Return, database
<1>1. CASE TakeWriter(c) \/ TakeReader(c) \/ PingReader(c)
  BY <1>1 DEF TakeWriter, TakeReader, PingReader
<1>2. CASE Query(c)
  BY <1>2 DEF Query
<1>3. CASE Commit(c)
  BY <1>3 DEF Commit
<1>4. CASE GiveUp(c)
  BY <1>4 DEF GiveUp
<1>5. CASE Cancel(c)
  BY <1>5 DEF Cancel
<1>6. CASE Check(c)
  BY <1>6 DEF Check
<1>7. CASE Upsert(c)
  BY <1>7 DEF Upsert
<1>8. CASE Exec(c)
  BY <1>8 DEF Exec
<1>9. CASE \E k \in Kinds : Call(c, k)
  BY <1>9 DEF Call
<1>10. QED
  BY <1>1, <1>2, <1>3, <1>4, <1>5, <1>6, <1>7, <1>8, <1>9 DEF Progress

LEMMA StepTypes ==
  ASSUME CallTypes, NEW c \in Callers, CallerStep(c)
  PROVE  CallTypes'
<1>1. /\ at' \in [Callers -> Places]
      /\ result' \in [Callers -> Results]
  BY DEF CallTypes, CallerStep
<1>2. /\ kind' \in [Callers -> Kinds \cup {"none"}]
      /\ snapshot' \in [Callers -> Nat]
      /\ version' \in Nat
      /\ gc' \in {"off", "deleting", "ended"}
  BY DEF CallTypes, CallerStep
<1>3. QED
  BY <1>1, <1>2 DEF CallTypes

-------------------------------------------------------------------------------
(* The pools: a new reader is counted, and only TakeReader makes one. *)
LEMMA ReadersBounded ==
  ASSUME TypeOK, NEW c \in Callers,
         Progress(c) \/ GiveUp(c) \/ Cancel(c) \/ \E k \in Kinds : Call(c, k)
  PROVE  Cardinality(HasReader') <= ReaderPoolSize
<1>1. at \in [Callers -> Places]
  BY Zenon, TypesSplit DEF CallTypes
<1>2. CASE TakeReader(c)
  <2>1. HasReader' = HasReader \cup {c} /\ c \notin HasReader
    BY <1>1, <1>2 DEF TakeReader, Move, HasReader
  <2>2. IsFiniteSet(HasReader)
    BY PoolAssumption, FS_Subset DEF HasReader
  <2>3. Cardinality(HasReader') = Cardinality(HasReader) + 1
    BY <2>1, <2>2, FS_AddElement
  <2>4. Cardinality(HasReader) < ReaderPoolSize
    BY <1>2 DEF TakeReader
  <2>5. QED
    BY <2>2, <2>3, <2>4, FS_CardinalityType, PoolAssumption
<1>3. CASE ~TakeReader(c)
  <2>1. \E place \in Places \ {"reading"} : at' = [at EXCEPT ![c] = place]
    BY <1>3 DEF Progress, TakeWriter, Query, PingReader, Check, Upsert, Commit, Exec,
                GiveUp, Cancel, Call, Return, Move, Places
  <2>2. HasReader' \subseteq HasReader
    BY <1>1, <2>1 DEF HasReader
  <2>3. QED
    BY <2>2, FewerReaders
<1>4. QED
  BY <1>2, <1>3

(* A connection to write with is taken from nobody, and given back. *)
LEMMA WriterTaken ==
  ASSUME CallTypes, PoolInv, NEW c \in Callers, TakeWriter(c)
  PROVE  PoolInv'
<1>1. HasWriter = {}
  BY WriterFree DEF TakeWriter
<1>2. /\ at' = [at EXCEPT ![c] = "writing"]
      /\ UNCHANGED <<result, snapshot, version, gc>>
  BY DEF TakeWriter, Move, database
<1>3. OneWriter'
  BY <1>1, <1>2 DEF OneWriter, HasWriter, CallTypes
<1>4. LockHeld' /\ Undisturbed' /\ LockedOnlyByOthers'
  BY <1>2 DEF PoolInv, LockHeld, Undisturbed, LockedOnlyByOthers, CallTypes
<1>5. QED
  BY <1>3, <1>4 DEF PoolInv

(* A step that neither takes the writer nor reads or writes with it. *)
LEMMA WriterLeft ==
  ASSUME CallTypes, PoolInv, NEW c \in Callers,
         \E place \in {"wants writer", "wants reader", "reading", "done"} :
           at' = [at EXCEPT ![c] = place],
         \/ result' = result
         \/ \E r \in Results \ {"locked", "timed out"} :
              result' = [result EXCEPT ![c] = r],
         \A d \in Callers : d # c => snapshot'[d] = snapshot[d],
         UNCHANGED <<version, gc>>
  PROVE  PoolInv'
<1>1. OneWriter'
  BY DEF PoolInv, OneWriter, HasWriter, CallTypes
<1>2. LockHeld' /\ Undisturbed'
  BY DEF PoolInv, LockHeld, Undisturbed, CallTypes
<1>3. LockedOnlyByOthers'
  BY DEF PoolInv, LockedOnlyByOthers, CallTypes
<1>4. QED
  BY <1>1, <1>2, <1>3 DEF PoolInv

(* The caller with the writer is the only one: for the others, a commit of   *)
(* it changes nothing, and what keeps it from the lock is another process.   *)
LEMMA Alone ==
  ASSUME OneWriter, NEW c \in HasWriter, NEW d \in Callers, d # c
  PROVE  at[d] \notin {"writing", "checked", "wrote"}
  BY DEF OneWriter, HasWriter

LEMMA LockedByOther ==
  ASSUME PoolInv, NEW c \in HasWriter, at[c] # "wrote", ~LockFree
  PROVE  gc # "off"
  BY Alone DEF PoolInv, LockFree, HasWriter

(* The steps of SaveEvent's transaction. *)
LEMMA TransactionKeeps ==
  ASSUME CallTypes, PoolInv, NEW c \in Callers, Check(c) \/ Upsert(c) \/ Commit(c)
  PROVE  PoolInv'
<1>1. c \in HasWriter /\ OneWriter
  BY DEF HasWriter, Check, Upsert, Commit, PoolInv
<1>2. \A d \in Callers : d # c => at[d] \notin {"writing", "checked", "wrote"}
  BY <1>1, Alone
<1>3. OneWriter'
  <2>1. HasWriter' \subseteq HasWriter
    BY <1>1 DEF Check, Upsert, Commit, Return, Move, HasWriter, CallTypes
  <2>2. QED
    BY <1>1, <2>1 DEF OneWriter
<1>4. CASE Check(c)
  <2>1. /\ snapshot' = [snapshot EXCEPT ![c] = version]
        /\ at' = [at EXCEPT ![c] = "done"] \/ at' = [at EXCEPT ![c] = "checked"]
        /\ result' = result \/ result' = [result EXCEPT ![c] = "ok"]
        /\ UNCHANGED <<version, gc>>
    BY <1>4 DEF Check, Return, Move, database
  <2>2. LockHeld' /\ Undisturbed' /\ LockedOnlyByOthers'
    BY <2>1 DEF PoolInv, LockHeld, Undisturbed, LockedOnlyByOthers, CallTypes
  <2>3. QED
    BY <1>3, <2>2 DEF PoolInv
<1>5. CASE Upsert(c) /\ Upgradable(c)
  <2>1. /\ at' = [at EXCEPT ![c] = "wrote"]
        /\ UNCHANGED <<result, snapshot, version, gc>>
    BY <1>5 DEF Upsert, Move, database
  <2>2. gc # "deleting" /\ snapshot[c] = version
    BY <1>5 DEF Upgradable, LockFree
  <2>3. LockHeld' /\ Undisturbed' /\ LockedOnlyByOthers'
    BY <2>1, <2>2 DEF PoolInv, LockHeld, Undisturbed, LockedOnlyByOthers, CallTypes
  <2>4. QED
    BY <1>3, <2>3 DEF PoolInv
<1>6. CASE Upsert(c) /\ ~Upgradable(c)
  <2>1. /\ at[c] = "checked"
        /\ at' = [at EXCEPT ![c] = "done"]
        /\ result' = [result EXCEPT ![c] = "locked"]
        /\ UNCHANGED <<snapshot, version, gc>>
    BY <1>6 DEF Upsert, Return, Move, database
  <2>2. gc # "off"
    <3>1. CASE ~LockFree
      BY <1>1, <2>1, <3>1, LockedByOther
    <3>2. CASE snapshot[c] # version
      BY <2>1, <3>2 DEF PoolInv, Undisturbed
    <3>3. QED
      BY <1>6, <3>1, <3>2 DEF Upgradable
  <2>3. LockHeld' /\ Undisturbed' /\ LockedOnlyByOthers'
    BY <2>1, <2>2 DEF PoolInv, LockHeld, Undisturbed, LockedOnlyByOthers, CallTypes
  <2>4. QED
    BY <1>3, <2>3 DEF PoolInv
<1>7. CASE Commit(c)
  <2>1. /\ at' = [at EXCEPT ![c] = "done"]
        /\ result' = [result EXCEPT ![c] = "ok"]
        /\ UNCHANGED <<snapshot, gc>>
    BY <1>7 DEF Commit, Return, Move
  <2>2. LockHeld' /\ Undisturbed' /\ LockedOnlyByOthers'
    BY <1>2, <2>1 DEF PoolInv, LockHeld, Undisturbed, LockedOnlyByOthers, CallTypes
  <2>3. QED
    BY <1>3, <2>2 DEF PoolInv
<1>8. QED
  BY <1>4, <1>5, <1>6, <1>7

(* A statement of its own, which is done, refused or has waited too long. *)
LEMMA StatementKeeps ==
  ASSUME CallTypes, PoolInv, NEW c \in Callers, Exec(c) \/ GiveUp(c)
  PROVE  PoolInv'
<1>1. c \in HasWriter /\ OneWriter /\ at[c] = "writing"
  BY DEF HasWriter, Exec, GiveUp, PoolInv
<1>2. \A d \in Callers : d # c => at[d] \notin {"writing", "checked", "wrote"}
  BY <1>1, Alone
<1>3. at' = [at EXCEPT ![c] = "done"] /\ UNCHANGED <<snapshot, gc>>
  BY DEF Exec, GiveUp, Return, Move, database
<1>4. OneWriter'
  BY <1>1, <1>3 DEF OneWriter, HasWriter, CallTypes
<1>5. LockHeld' /\ Undisturbed'
  BY <1>2, <1>3 DEF PoolInv, LockHeld, Undisturbed, CallTypes
<1>6. LockedOnlyByOthers'
  <2>1. \/ result' = [result EXCEPT ![c] = "ok"]
        \/ ~LockFree /\ \E r \in Results : result' = [result EXCEPT ![c] = r]
    BY DEF Exec, GiveUp, Return, Results
  <2>2. ~LockFree => gc # "off"
    BY <1>1, LockedByOther
  <2>3. QED
    BY <1>3, <2>1, <2>2 DEF PoolInv, LockedOnlyByOthers, CallTypes
<1>7. QED
  BY <1>4, <1>5, <1>6 DEF PoolInv

(* What callers do keeps the invariant of the pools. *)
LEMMA CallersKeep ==
  ASSUME CallTypes, PoolInv, NEW c \in Callers,
         Progress(c) \/ Cancel(c) \/ GiveUp(c) \/ \E k \in Kinds : Call(c, k)
  PROVE  PoolInv'
<1>1. CASE TakeReader(c) \/ Query(c) \/ PingReader(c) \/ Cancel(c)
           \/ \E k \in Kinds : Call(c, k)
  <2>1. /\ \E place \in {"wants writer", "wants reader", "reading", "done"} :
             at' = [at EXCEPT ![c] = place]
        /\ \/ result' = result
           \/ \E r \in Results \ {"locked", "timed out"} :
                result' = [result EXCEPT ![c] = r]
        /\ UNCHANGED <<snapshot, version, gc>>
    BY <1>1 DEF TakeReader, Query, PingReader, Cancel, Call, Return, Move, Results, database
  <2>2. QED
    BY <2>1, WriterLeft
<1>2. QED
  BY <1>1, WriterTaken, TransactionKeeps, StatementKeeps DEF Progress

(* Another process writes only while nobody here has written. *)
LEMMA OtherKeeps ==
  ASSUME PoolInv, GcDelete \/ GcCommit
  PROVE  PoolInv'
<1>1. UNCHANGED <<at, result, snapshot>>
  BY DEF GcDelete, GcCommit, calls
<1>2. gc' # "off" /\ \A c \in Callers : at[c] # "wrote"
  BY DEF GcDelete, GcCommit, LockFree, PoolInv, LockHeld
<1>3. QED
  BY <1>1, <1>2 DEF PoolInv, OneWriter, HasWriter, LockHeld, Undisturbed, LockedOnlyByOthers

-------------------------------------------------------------------------------
(* A caller that is on its way spoils no stop: a handler is on its way only  *)
(* while the drain may still wait for it.                                    *)
LEMMA OnItsWay ==
  ASSUME CallTypes, EndingKnown, StopsGracefully, NEW c \in Callers, ~Idle(c),
         \E place \in Places : at' = [at EXCEPT ![c] = place],
         \/ result' = result
         \/ \E r \in Results \ {"cut", "closed"} : result' = [result EXCEPT ![c] = r]
         \/ phase = "closed" /\ \E r \in Results : result' = [result EXCEPT ![c] = r],
         UNCHANGED server
  PROVE  EndingKnown' /\ StopsGracefully'
<1>1. EndingKnown' /\ UNCHANGED <<phase, ending, status>>
  BY DEF EndingKnown, server
<1>2. ASSUME ending \in {"none", "drained"}
      PROVE  /\ \A h \in Handlers : result'[h] \notin {"cut", "closed"}
             /\ phase \notin {"running", "draining"} \/ status = "Stopped" =>
                  \A h \in Handlers : at'[h] \in {"away", "done"}
  <2>1. CASE phase \notin {"running", "draining"} \/ status = "Stopped"
    <3>1. c \notin Handlers
      BY <1>2, <2>1 DEF StopsGracefully
    <3>2. \A h \in Handlers : h \in Callers /\ h # c
      BY <3>1 DEF Handlers
    <3>3. \A h \in Handlers : at'[h] = at[h] /\ result'[h] = result[h]
      BY <3>2 DEF CallTypes
    <3>4. QED
      BY <1>2, <2>1, <3>3 DEF StopsGracefully, Idle
  <2>2. CASE ~(phase \notin {"running", "draining"} \/ status = "Stopped")
    <3>1. \A h \in Handlers : result[h] \notin {"cut", "closed"} /\ h \in Callers
      BY <1>2 DEF StopsGracefully, Handlers
    <3>2. QED
      BY <2>2, <3>1 DEF CallTypes
  <2>3. QED
    BY <2>1, <2>2
<1>3. QED
  BY <1>1, <1>2 DEF StopsGracefully, Idle

(* The parts of the invariant a step of the server leaves alone, as long as  *)
(* it does not touch the callers.                                            *)
LEMMA PoolsUntouched ==
  ASSUME IInv, UNCHANGED poolVars
  PROVE  /\ CallTypes' /\ patient' \in BOOLEAN
         /\ Cardinality(HasReader') <= ReaderPoolSize
         /\ PoolInv'
<1>1. /\ UNCHANGED <<kind, at, result, snapshot, version, gc>>
      /\ patient' = patient
  BY DEF poolVars, calls, database
<1>2. HasReader' = HasReader /\ HasWriter' = HasWriter
  BY <1>1 DEF HasReader, HasWriter
<1>3. CallTypes /\ patient \in BOOLEAN /\ Cardinality(HasReader) <= ReaderPoolSize /\ PoolInv
  BY Zenon, TypesSplit DEF IInv
<1>4. CallTypes' /\ PoolInv'
  BY <1>1, <1>2, <1>3 DEF CallTypes, PoolInv, OneWriter, LockHeld, Undisturbed,
                          LockedOnlyByOthers
<1>5. QED
  BY Zenon, <1>1, <1>2, <1>3, <1>4

(* The types of the server's own variables. *)
ServerTypes ==
  /\ phase \in {"running", "draining", "closing", "closed", "exited"}
  /\ ending \in {"none", "drained", "timed out", "failed", "killed"}
  /\ status \in {"none", "StartPending", "Running", "StopPending", "Stopped"}

LEMMA Together ==
  ASSUME CallTypes', patient' \in BOOLEAN, Cardinality(HasReader') <= ReaderPoolSize,
         PoolInv', ServerTypes', EndingKnown', StopsGracefully'
  PROVE  IInv'
  BY Zenon, TypesSplit DEF IInv, ServerTypes, TypeOK, PoolTypeOK, CallTypes, Places, Results

(* What callers do. *)
LEMMA CallersIInv ==
  ASSUME IInv, NEW c \in Callers, Caller(c)
  PROVE  IInv'
<1>1. /\ CallTypes /\ patient \in BOOLEAN /\ TypeOK /\ PoolInv
      /\ ServerTypes /\ EndingKnown /\ StopsGracefully
  BY Zenon, TypesSplit DEF IInv, ServerTypes
<1>2. UNCHANGED server
  BY DEF Caller, Begin, Work, FindClosed, WaitInVain, Abort, server
<1>3. ServerTypes'
  BY <1>1, <1>2 DEF ServerTypes, server
<1>4. CASE FindClosed(c)
  <2>1. /\ at[c] \in {"wants writer", "wants reader"} /\ phase = "closed"
        /\ at' = [at EXCEPT ![c] = "done"] /\ result' = [result EXCEPT ![c] = "closed"]
        /\ UNCHANGED <<kind, snapshot, version, gc>> /\ patient' = patient
    BY <1>4 DEF FindClosed, Return, Move, database
  <2>2. CallTypes'
    BY <1>1, <2>1 DEF CallTypes, Places, Results
  <2>3. PoolInv'
    BY <1>1, <2>1, WriterLeft DEF Results
  <2>4. HasReader' \subseteq HasReader
    BY <1>1, <2>1 DEF HasReader, CallTypes
  <2>5. EndingKnown' /\ StopsGracefully'
    <3>1. ~Idle(c)
      BY <2>1 DEF Idle
    <3>2. QED
      BY <1>1, <1>2, <2>1, <3>1, OnItsWay DEF Places, Results
  <2>6. patient' \in BOOLEAN
    BY <1>1, <2>1
  <2>7. QED
    BY <1>1, <1>3, <2>2, <2>3, <2>4, <2>5, <2>6, FewerReaders, Together
<1>5. CASE ~FindClosed(c)
  <2>1. Progress(c) \/ GiveUp(c) \/ Cancel(c) \/ \E k \in Kinds : Call(c, k)
    BY <1>5 DEF Caller, Begin, Work, WaitInVain, Abort, Kinds
  <2>2. CallTypes'
    BY <1>1, <2>1, StepForm, StepTypes
  <2>3. patient' \in BOOLEAN
    <3>1. patient' = patient \/ patient' \in {patient, FALSE}
      BY <2>1 DEF Progress, TakeWriter, TakeReader, Query, PingReader, Check, Upsert, Commit,
                  Exec, GiveUp, Cancel, Call, database
    <3>2. QED
      BY Zenon, <1>1, <3>1
  <2>4. PoolInv'
    BY <1>1, <2>1, CallersKeep
  <2>5. Cardinality(HasReader') <= ReaderPoolSize
    BY <1>1, <2>1, ReadersBounded
  <2>6. CASE at[c] # "away"
    <3>1. ~Idle(c)
      BY <1>5, <2>6 DEF Caller, Begin, Work, WaitInVain, Abort, Progress, TakeWriter,
           TakeReader, Query, PingReader, Check, Upsert, Commit, Exec, GiveUp, Cancel, Idle
    <3>2. \E place \in Places : at' = [at EXCEPT ![c] = place]
      BY <2>1, StepForm DEF CallerStep
    <3>3. \/ result' = result
          \/ \E r \in Results \ {"cut", "closed"} : result' = [result EXCEPT ![c] = r]
      BY <2>1 DEF Progress, TakeWriter, TakeReader, Query, PingReader, Check, Upsert,
           Commit, Exec, GiveUp, Cancel, Call, Return, Results
    <3>4. EndingKnown' /\ StopsGracefully'
      BY <1>1, <1>2, <3>1, <3>2, <3>3, OnItsWay
    <3>5. QED
      BY <1>3, <2>2, <2>3, <2>4, <2>5, <3>4, Together
  <2>7. CASE at[c] = "away"
    <3>1. c \notin Handlers /\ \E k \in Kinds : Call(c, k)
      BY <1>5, <2>7 DEF Caller, Begin, Work, WaitInVain, Abort, Progress, TakeWriter,
           TakeReader, Query, PingReader, Check, Upsert, Commit, Exec, GiveUp, Cancel,
           Kinds, Handlers
    <3>2. \A h \in Handlers : at'[h] = at[h] /\ result'[h] = result[h]
      BY <1>1, <3>1 DEF Call, Move, Handlers, CallTypes
    <3>3. EndingKnown' /\ StopsGracefully'
      BY <1>1, <1>2, <3>2 DEF EndingKnown, StopsGracefully, Idle, server
    <3>4. QED
      BY <1>3, <2>2, <2>3, <2>4, <2>5, <3>3, Together
  <2>8. QED
    BY <2>6, <2>7
<1>6. QED
  BY <1>4, <1>5

-------------------------------------------------------------------------------
(* What the server itself does. *)
LEMMA ServerIInv ==
  ASSUME IInv, Server
  PROVE  IInv'
<1>1. /\ CallTypes /\ patient \in BOOLEAN /\ TypeOK /\ PoolInv
      /\ ServerTypes /\ EndingKnown /\ StopsGracefully
  BY Zenon, TypesSplit DEF IInv, ServerTypes
<1>2. CASE ReportRunning \/ RequestStop
  <2>1. UNCHANGED poolVars
    BY <1>2 DEF ReportRunning, RequestStop
  <2>2. UNCHANGED <<at, result>> /\ ending' = ending /\ phase = "running"
        /\ phase' \in {"running", "draining"} /\ status' \in {"none", "Running", "StopPending"}
    BY <1>2, <2>1 DEF ReportRunning, RequestStop, Report, poolVars, calls
  <2>3. ServerTypes' /\ EndingKnown' /\ StopsGracefully'
    BY <1>1, <2>2 DEF ServerTypes, EndingKnown, StopsGracefully, Idle
  <2>4. QED
    BY <2>1, <2>3, PoolsUntouched, Together
<1>3. CASE FinishDrain \/ RunOutOfTime \/ ServeFails
  <2>1. UNCHANGED poolVars
    BY <1>3 DEF FinishDrain, RunOutOfTime, ServeFails
  <2>2. /\ UNCHANGED <<at, result>> /\ phase \in {"running", "draining"}
        /\ phase' = "closing" /\ ending' \in {"drained", "timed out", "failed"}
        /\ status' \in {"none", "Stopped"}
        /\ ending' = "drained" => \A h \in Handlers : Idle(h)
    BY <1>3, <2>1 DEF FinishDrain, RunOutOfTime, ServeFails, Report, poolVars, calls
  <2>3. ServerTypes' /\ EndingKnown' /\ StopsGracefully'
    BY <1>1, <2>2 DEF ServerTypes, EndingKnown, StopsGracefully, Idle
  <2>4. QED
    BY <2>1, <2>3, PoolsUntouched, Together
<1>4. CASE Close
  <2>1. UNCHANGED poolVars
    BY <1>4 DEF Close
  <2>2. UNCHANGED <<at, result, ending, status>> /\ phase = "closing" /\ phase' = "closed"
    BY <1>4, <2>1 DEF Close, poolVars, calls
  <2>3. ServerTypes' /\ EndingKnown' /\ StopsGracefully'
    BY <1>1, <2>2 DEF ServerTypes, EndingKnown, StopsGracefully, Idle
  <2>4. QED
    BY <2>1, <2>3, PoolsUntouched, Together
<1>5. CASE Exit \/ Kill
  <2>1. /\ phase' = "exited"
        /\ at' = [c \in Callers |-> IF Idle(c) THEN at[c] ELSE "done"]
        /\ result' = [c \in Callers |-> IF Idle(c) THEN result[c] ELSE "cut"]
        /\ UNCHANGED <<kind, snapshot, version, gc, status>> /\ patient' = patient
        /\ \/ phase = "closed" /\ ending' = ending
           \/ ending' = "killed"
    BY <1>5 DEF Exit, Kill, CutOff, database
  <2>2. CallTypes'
    BY <1>1, <2>1 DEF CallTypes, Places, Results, Idle
  <2>3. HasReader' = {} /\ HasWriter' = {}
    BY <2>1 DEF HasReader, HasWriter, Idle
  <2>4. Cardinality(HasReader') <= ReaderPoolSize
    BY <2>3, FS_EmptySet, PoolAssumption
  <2>5. PoolInv'
    <3>1. OneWriter' /\ LockHeld' /\ Undisturbed'
      BY <2>1, <2>3 DEF OneWriter, LockHeld, Undisturbed, Idle
    <3>2. LockedOnlyByOthers'
      BY <1>1, <2>1 DEF PoolInv, LockedOnlyByOthers
    <3>3. QED
      BY <3>1, <3>2 DEF PoolInv
  <2>6. ServerTypes' /\ EndingKnown'
    BY <1>1, <2>1 DEF ServerTypes, EndingKnown
  <2>7. StopsGracefully'
    <3>1. CASE ending' = "drained"
      <4>1. ending = "drained" /\ phase = "closed"
        BY <2>1, <3>1
      <4>2. \A h \in Handlers : Idle(h) /\ result[h] \notin {"cut", "closed"} /\ h \in Callers
        BY <1>1, <4>1 DEF StopsGracefully, Handlers
      <4>3. \A h \in Handlers : at'[h] = at[h] /\ result'[h] = result[h]
        BY <2>1, <4>2
      <4>4. QED
        BY <4>2, <4>3 DEF StopsGracefully, Idle
    <3>2. CASE ending' # "drained"
      BY <1>1, <2>1, <3>2 DEF EndingKnown, StopsGracefully
    <3>3. QED
      BY <3>1, <3>2
  <2>8. patient' \in BOOLEAN
    BY <1>1, <2>1
  <2>9. QED
    BY <2>2, <2>4, <2>5, <2>6, <2>7, <2>8, Together
<1>6. QED
  BY <1>2, <1>3, <1>4, <1>5 DEF Server

(* A request is let in while nothing has been said of an end. *)
LEMMA AcceptIInv ==
  ASSUME IInv, NEW c \in Handlers, Accept(c)
  PROVE  IInv'
<1>1. /\ CallTypes /\ patient \in BOOLEAN /\ TypeOK /\ PoolInv
      /\ ServerTypes /\ EndingKnown /\ StopsGracefully /\ c \in Callers
  BY Zenon, TypesSplit DEF IInv, ServerTypes, Handlers
<1>2. /\ at' = [at EXCEPT ![c] = "open"] /\ phase = "running"
      /\ UNCHANGED <<kind, result, snapshot, version, gc, phase, ending, status>>
      /\ patient' = patient
  BY DEF Accept, Move, database, server
<1>3. CallTypes'
  BY <1>1, <1>2 DEF CallTypes, Places
<1>4. HasReader' \subseteq HasReader /\ HasWriter' \subseteq HasWriter
  BY <1>1, <1>2 DEF HasReader, HasWriter, CallTypes
<1>5. PoolInv'
  BY <1>1, <1>2, <1>4 DEF CallTypes, PoolInv, OneWriter, LockHeld, Undisturbed,
                          LockedOnlyByOthers
<1>6. ServerTypes' /\ EndingKnown' /\ StopsGracefully'
  BY <1>1, <1>2 DEF ServerTypes, EndingKnown, StopsGracefully
<1>7. patient' \in BOOLEAN
  BY <1>1, <1>2
<1>8. QED
  BY <1>1, <1>3, <1>4, <1>5, <1>6, <1>7, FewerReaders, Together

(* gc, in its own process, is seen by the transactions only. *)
LEMMA OtherIInv ==
  ASSUME IInv, OtherProcess
  PROVE  IInv'
<1>1. /\ CallTypes /\ patient \in BOOLEAN /\ TypeOK /\ PoolInv
      /\ ServerTypes /\ EndingKnown /\ StopsGracefully
  BY Zenon, TypesSplit DEF IInv, ServerTypes
<1>2. /\ UNCHANGED <<kind, at, result, snapshot, phase, ending, status>>
      /\ patient' = patient
      /\ version' \in {version, version + 1} /\ gc' \in {"deleting", "ended"}
  BY DEF OtherProcess, GcDelete, GcCommit, calls, server
<1>3. CallTypes' /\ HasReader' = HasReader
  BY <1>1, <1>2 DEF CallTypes, HasReader
<1>4. PoolInv'
  BY <1>1, OtherKeeps DEF OtherProcess
<1>5. ServerTypes' /\ EndingKnown' /\ StopsGracefully'
  BY <1>1, <1>2 DEF ServerTypes, EndingKnown, StopsGracefully, Idle
<1>6. patient' \in BOOLEAN
  BY <1>1, <1>2
<1>7. QED
  BY <1>1, <1>3, <1>4, <1>5, <1>6, FewerReaders, Together

LEMMA NextIInv == IInv /\ [Next]_vars => IInv'
<1> SUFFICES ASSUME IInv, [Next]_vars
             PROVE  IInv'
  OBVIOUS
<1>1. CASE UNCHANGED vars
  <2>1. UNCHANGED poolVars /\ UNCHANGED <<at, result, phase, ending, status>>
    BY <1>1 DEF vars, poolVars, calls
  <2>2. ServerTypes /\ EndingKnown /\ StopsGracefully
    BY Zenon, TypesSplit DEF IInv, ServerTypes
  <2>3. ServerTypes' /\ EndingKnown' /\ StopsGracefully'
    BY <2>1, <2>2 DEF ServerTypes, EndingKnown, StopsGracefully, Idle
  <2>4. QED
    BY <2>1, <2>3, PoolsUntouched, Together
<1>2. CASE Next
  BY <1>2, CallersIInv, ServerIInv, AcceptIInv, OtherIInv DEF Next
<1>3. QED
  BY <1>1, <1>2

LEMMA IInvHolds == Spec => []IInv
  BY InitIInv, NextIInv, PTL DEF Spec

-------------------------------------------------------------------------------
(* The types, and that no pool ever has more connections than it may. *)
THEOREM TypeCorrect == Spec => []TypeOK
<1>1. IInv => TypeOK
  BY DEF IInv
<1>2. QED
  BY <1>1, IInvHolds, PTL

(* What SaveEvent read holds when it commits, for any number of goroutines   *)
(* and whatever another process writes: the transaction is one step.         *)
THEOREM TransactionsAtomic == Spec => []ReadsHold
<1>1. IInv => ReadsHold
  BY DEF IInv, PoolInv, LockHeld, ReadsHold
<1>2. QED
  BY <1>1, IInvHolds, PTL

(* The writers of one process never make each other fail. *)
THEOREM NeverLockedAlone == Spec => []LockedOnlyByOthers
<1>1. IInv => LockedOnlyByOthers
  BY DEF IInv, PoolInv
<1>2. QED
  BY <1>1, IInvHolds, PTL

(* No request is cut off, or finds the database closed, by a stop that was   *)
(* drained, in the foreground and under the service manager.                 *)
THEOREM StopGraceful == Spec => []StopsGracefully
<1>1. IInv => StopsGracefully
  BY DEF IInv
<1>2. QED
  BY <1>1, IInvHolds, PTL
===============================================================================
