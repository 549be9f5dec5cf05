------------------------------ MODULE Lifecycle ------------------------------
(***************************************************************************)
(* serve, from the running server to the end of its process, in the        *)
(* foreground or under the Windows service manager, with the requests and  *)
(* background goroutines that use the store meanwhile.                     *)
(***************************************************************************)
EXTENDS ConnectionPools

CONSTANTS
  Loops,       \* callers that are loops: retention and the retries of alerts
  Detached     \* callers nobody waits for or cancels: notifyAsync's

ASSUME CallersAssumption == Loops \cup Detached \subseteq Callers

VARIABLES
  phase,    \* of serve: running, draining, closing, closed, exited
  ending,   \* how it came to an end
  status    \* what the service manager was told; "none" in the foreground

vars == <<poolVars, phase, ending, status>>
server == <<phase, ending, status>>

Handlers == Callers \ (Loops \cup Detached)

Idle(c) == at[c] \in {"away", "done"}

Report(s) == status' = IF status = "none" THEN "none" ELSE s

-------------------------------------------------------------------------------
(* Execute reports the service as running: serve listens already. *)
ReportRunning ==
  /\ phase = "running"
  /\ status = "StartPending"
  /\ status' = "Running"
  /\ UNCHANGED <<poolVars, phase, ending>>

(* A request is let in; its body is still to come. *)
Accept(h) ==
  /\ phase = "running"
  /\ at[h] = "away"
  /\ Move(h, "open")
  /\ UNCHANGED <<kind, result, snapshot, database, server>>

(* Handlers use the store; loops until they are canceled; goroutines ever. *)
Begin(c) ==
  /\ \/ c \in Handlers /\ at[c] = "open" /\ \E k \in Kinds : Call(c, k)
     \/ c \in Loops /\ at[c] = "away" /\ phase = "running"
          /\ \E k \in {"read", "write"} : Call(c, k)
     \/ c \in Detached /\ at[c] = "away" /\ Call(c, "write")
  /\ phase # "exited"
  /\ UNCHANGED server

(* sql.DB serves no new query once it is closed. *)
Work(c) ==
  /\ phase # "exited"
  /\ phase = "closed" => at[c] \notin {"wants writer", "wants reader"}
  /\ Progress(c)
  /\ UNCHANGED server

FindClosed(c) ==
  /\ phase = "closed"
  /\ at[c] \in {"wants writer", "wants reader"}
  /\ Return(c, "closed")
  /\ UNCHANGED <<kind, snapshot, database, server>>

WaitInVain(c) == phase # "exited" /\ GiveUp(c) /\ UNCHANGED server

(* A client goes away; or serve has canceled the loops. *)
Abort(c) ==
  /\ phase # "exited"
  /\ c \in Handlers \/ (c \in Loops /\ phase # "running")
  /\ Cancel(c)
  /\ UNCHANGED server

(* An interrupt, or the service manager's stop: cancel, then srv.Shutdown,    *)
(* which lets nobody in.  A second signal changes nothing.                    *)
RequestStop ==
  /\ phase = "running"
  /\ status \in {"none", "Running"}
  /\ phase' = "draining"
  /\ Report("StopPending")
  /\ UNCHANGED <<poolVars, ending>>

FinishDrainSlip ==    \* serve ends with ListenAndServe, not with Shutdown
  /\ phase = "draining"
  /\ phase' = "closing"
  /\ ending' = "drained"
  /\ Report("Stopped")
  /\ UNCHANGED poolVars

FinishDrain ==
  /\ phase = "draining"
  /\ \A h \in Handlers : Idle(h)
  /\ phase' = "closing"
  /\ ending' = "drained"
  /\ Report("Stopped")
  /\ UNCHANGED poolVars

RunOutOfTimeSlip == FALSE /\ UNCHANGED vars    \* Shutdown without a deadline

(* shutdownTimeout is over. *)
RunOutOfTime ==
  /\ phase = "draining"
  /\ phase' = "closing"
  /\ ending' = "timed out"
  /\ Report("Stopped")
  /\ UNCHANGED poolVars

(* ListenAndServe returns an error: the port is taken, the listener breaks.   *)
ServeFails ==
  /\ phase = "running"
  /\ status # "StartPending"
  /\ phase' = "closing"
  /\ ending' = "failed"
  /\ Report("Stopped")
  /\ UNCHANGED poolVars

(* The deferred st.Close: connections in use are closed when given back. *)
Close ==
  /\ phase = "closing"
  /\ phase' = "closed"
  /\ UNCHANGED <<poolVars, ending, status>>

(* The goroutines end with the process, and their transactions roll back. *)
CutOff ==
  /\ phase' = "exited"
  /\ at' = [c \in Callers |-> IF Idle(c) THEN at[c] ELSE "done"]
  /\ result' = [c \in Callers |-> IF Idle(c) THEN result[c] ELSE "cut"]
  /\ UNCHANGED <<kind, snapshot, database, status>>

Exit == phase = "closed" /\ CutOff /\ UNCHANGED ending

(* SIGTERM, which serve does not handle, a crash, a power cut. *)
Kill == phase # "exited" /\ CutOff /\ ending' = "killed"

OtherProcess == (GcDelete \/ GcCommit) /\ UNCHANGED server

-------------------------------------------------------------------------------
Init ==
  /\ PoolInit
  /\ phase = "running"
  /\ ending = "none"
  /\ status \in {"none", "StartPending"}

Caller(c) == Begin(c) \/ Work(c) \/ FindClosed(c) \/ WaitInVain(c) \/ Abort(c)

Server ==
  \/ ReportRunning \/ RequestStop \/ FinishDrain \/ RunOutOfTime
  \/ ServeFails \/ Close \/ Exit \/ Kill

Next ==
  \/ \E h \in Handlers : Accept(h)
  \/ \E c \in Callers : Caller(c)
  \/ Server
  \/ OtherProcess

Spec == Init /\ [][Next]_vars

(* Goroutines run, the deadline of the drain comes, and gc comes to an end.  *)
(* Clients may take as long as they like over their bodies.                  *)
Fairness ==
  /\ \A c \in Callers : WF_vars(Work(c)) /\ WF_vars(FindClosed(c))
  /\ WF_vars(FinishDrain) /\ WF_vars(RunOutOfTime) /\ WF_vars(Close) /\ WF_vars(Exit)
  /\ WF_vars(OtherProcess /\ gc = "deleting")

FairSpec == Spec /\ Fairness

-------------------------------------------------------------------------------
TypeOK ==
  /\ PoolTypeOK
  /\ phase \in {"running", "draining", "closing", "closed", "exited"}
  /\ ending \in {"none", "drained", "timed out", "failed", "killed"}
  /\ status \in {"none", "StartPending", "Running", "StopPending", "Stopped"}

(* A stop is graceful: unless the drain runs out of time, serving fails or    *)
(* the process is killed, no request is cut off or finds the database         *)
(* closed, and "Stopped" is reported only when none is left.                  *)
StopsGracefully ==
  ending \in {"none", "drained"} =>
    /\ \A h \in Handlers : result[h] \notin {"cut", "closed"}
    /\ phase \notin {"running", "draining"} \/ status = "Stopped" =>
         \A h \in Handlers : Idle(h)

(* Whatever asks for a connection gets one and comes to an end: no operation  *)
(* waits for a connection while it keeps another from being given back.       *)
EveryCallEnds ==
  \A c \in Callers : (at[c] \notin {"away", "open", "done"}) ~> (at[c] = "done")

(* A stop comes to its end, however long clients take over their requests.    *)
EveryStopEnds == (phase = "draining") ~> (phase = "exited")
===============================================================================
