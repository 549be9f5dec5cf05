-------------------------------- MODULE Ingest --------------------------------
(***************************************************************************)
(* ServeEnvelope of internal/ingest over the store: handlers that run      *)
(* concurrently, each a few store operations apart, SDKs that send an      *)
(* envelope again until they see it accepted, operators who resolve and    *)
(* ignore issues meanwhile, retention, and crashes of the server.          *)
(*                                                                         *)
(* What a notification goes through is AlertDelivery's subject: here it is *)
(* in notices from the moment notifyAsync is called.                       *)
(***************************************************************************)
EXTENDS Integers, Sequences, FiniteSets

CONSTANTS
  Projects, Keys, EventIds, Fingerprints, IssueIds,
  Retention, ZoneOffset, MaxTime,    \* the store's, see IssueStore
  Envelopes,     \* what SDKs have to deliver
  Handlers,      \* requests served at the same time
  MaxCrashes     \* bound: crashes of the server

(* An item is an event that parses, or something the handler skips: an item *)
(* of another type or an event that does not parse.                         *)
Item ==
  [type : {"event"}, event_id : EventIds, fingerprint : Fingerprints]
    \cup [type : {"other", "malformed"}]

ASSUME IngestAssumption ==
  /\ \A env \in Envelopes : /\ env.project \in Projects
                            /\ env.key \in Keys
                            /\ env.items \in Seq(Item)
  /\ MaxCrashes \in Nat

VARIABLES
  now, projects, issues, events,    \* the store's
  pc,         \* where each handler is in ServeEnvelope
  request,    \* the envelope each handler serves
  pos,        \* the index of the item it is at
  report,     \* what its last SaveEvent returned
  acked,      \* the envelopes whose SDK has seen a 200
  notices,    \* the calls of notifyAsync
  openings,   \* history: the events whose saving opened or reopened an issue
  crashes

Store == INSTANCE IssueStore

store == <<now, projects, issues, events>>
locals == <<pc, request, pos, report>>
vars == <<store, locals, acked, notices, openings, crashes>>

Quiet == [isNew |-> FALSE, isRegression |-> FALSE]

CurrentItem(h) == request[h].items[pos[h]]

NoRequest == [items |-> << >>]

(* The handler returns. *)
Return(h) ==
  /\ pc' = [pc EXCEPT ![h] = "idle"]
  /\ request' = [request EXCEPT ![h] = NoRequest]
  /\ pos' = [pos EXCEPT ![h] = 1]

-------------------------------------------------------------------------------
(* Operators named ...Slip are near misses of the definition they precede.  *)
(* No specification uses them: put in its place, each breaks a property.    *)
AcceptSlip(h, env) ==    \* no EnsureProject
  /\ pc[h] = "idle"
  /\ env \notin acked
  /\ pc' = [pc EXCEPT ![h] = "items"]
  /\ request' = [request EXCEPT ![h] = env]
  /\ UNCHANGED <<store, pos, report, acked, notices, openings, crashes>>

-------------------------------------------------------------------------------
(* A request with a usable key and a body that parses is let in.  One that  *)
(* is refused, with 429, 401 or 400, ends before it touches the store.      *)
Accept(h, env) ==
  /\ pc[h] = "idle"
  /\ env \notin acked
  /\ pc' = [pc EXCEPT ![h] = "ensure"]
  /\ request' = [request EXCEPT ![h] = env]
  /\ UNCHANGED <<store, pos, report, acked, notices, openings, crashes>>

EnsureProject(h) ==
  /\ pc[h] = "ensure"
  /\ Store!EnsureProject(request[h].project, request[h].key)
  /\ pc' = [pc EXCEPT ![h] = "items"]
  /\ UNCHANGED <<request, pos, report, acked, notices, openings, crashes>>

SkipItemSlip(h) ==    \* the index is advanced twice
  /\ pc[h] = "items"
  /\ pos[h] <= Len(request[h].items)
  /\ CurrentItem(h).type # "event"
  /\ pos' = [pos EXCEPT ![h] = @ + 2]
  /\ UNCHANGED <<store, pc, request, report, acked, notices, openings, crashes>>

(* One item that is no event, or does not parse, does not fail the rest.    *)
SkipItem(h) ==
  /\ pc[h] = "items"
  /\ pos[h] <= Len(request[h].items)
  /\ CurrentItem(h).type # "event"
  /\ pos' = [pos EXCEPT ![h] = @ + 1]
  /\ UNCHANGED <<store, pc, request, report, acked, notices, openings, crashes>>

(* The issues this step creates, or moves from resolved to unresolved. *)
Opened ==
  {i \in DOMAIN issues' :
     \/ i \notin DOMAIN issues
     \/ issues[i].status = "resolved" /\ issues'[i].status = "unresolved"}

Saved(p, e, f) ==
  [isNew |-> Store!IsNew(p, e, f), isRegression |-> Store!IsRegression(p, e, f)]

WorthNotifyingSlip(result) == result.isNew

WorthNotifying(result) == result.isNew \/ result.isRegression

SaveEvent(h) ==
  /\ pc[h] = "items"
  /\ pos[h] <= Len(request[h].items)
  /\ CurrentItem(h).type = "event"
  /\ LET p == request[h].project
         e == CurrentItem(h).event_id
         f == CurrentItem(h).fingerprint
         result == Saved(p, e, f)
     IN  /\ Store!SaveEvent(p, e, f)
         /\ openings' = IF Opened = {} THEN openings ELSE openings \cup {<<p, e>>}
         /\ IF WorthNotifying(result)
            THEN /\ pc' = [pc EXCEPT ![h] = "notify"]
                 /\ report' = [report EXCEPT ![h] = result]
                 /\ UNCHANGED pos
            ELSE /\ pos' = [pos EXCEPT ![h] = @ + 1]
                 /\ UNCHANGED <<pc, report>>
  /\ UNCHANGED <<request, acked, notices, crashes>>

(* After the commit, the handler reads the issue back on a reader for its   *)
(* event count, taken to be 1 if the read fails, and calls notifyAsync.     *)
Notify(h) ==
  /\ pc[h] = "notify"
  /\ \E i \in Store!IssuesOf(request[h].project, CurrentItem(h).fingerprint) :
     \E count \in {issues[i].event_count, 1} :
       notices' = notices \cup
         {[project |-> request[h].project, event_id |-> CurrentItem(h).event_id,
           issue |-> i, isNew |-> report[h].isNew,
           isRegression |-> report[h].isRegression, eventCount |-> count]}
  /\ pos' = [pos EXCEPT ![h] = @ + 1]
  /\ pc' = [pc EXCEPT ![h] = "items"]
  /\ report' = [report EXCEPT ![h] = Quiet]
  /\ UNCHANGED <<store, request, acked, openings, crashes>>

(* The 200 may not reach the SDK, which then sends the envelope again. *)
Reply(h) ==
  /\ pc[h] = "items"
  /\ pos[h] > Len(request[h].items)
  /\ Return(h)
  /\ \/ acked' = acked \cup {request[h]}
     \/ UNCHANGED acked
  /\ UNCHANGED <<store, report, notices, openings, crashes>>

FailOnReadSlip(h) ==    \* an error of GetIssue ends the request, too
  /\ pc[h] \in {"ensure", "notify"}
  /\ Return(h)
  /\ UNCHANGED <<store, report, acked, notices, openings, crashes>>

FailSlip(h) ==    \* an event that cannot be saved is skipped
  /\ pc[h] = "items"
  /\ pos[h] <= Len(request[h].items)
  /\ pos' = [pos EXCEPT ![h] = @ + 1]
  /\ UNCHANGED <<store, pc, request, report, acked, notices, openings, crashes>>

(* EnsureProject or SaveEvent returns an error, the client's disconnecting  *)
(* included: the handler answers 500 in the middle of the envelope.         *)
Fail(h) ==
  /\ \/ pc[h] = "ensure"
     \/ /\ pc[h] = "items"
        /\ pos[h] <= Len(request[h].items)
        /\ CurrentItem(h).type = "event"
  /\ Return(h)
  /\ UNCHANGED <<store, report, acked, notices, openings, crashes>>

(* The process dies: the handlers go, what was committed stays. *)
Crash ==
  /\ crashes < MaxCrashes
  /\ crashes' = crashes + 1
  /\ pc' = [h \in Handlers |-> "idle"]
  /\ request' = [h \in Handlers |-> NoRequest]
  /\ pos' = [h \in Handlers |-> 1]
  /\ report' = [h \in Handlers |-> Quiet]
  /\ UNCHANGED <<store, acked, notices, openings>>

(* An operator resolves, ignores or reopens an issue; for one that is not    *)
(* there the answer is 404.                                                  *)
setIssueStatus ==
  \E p \in DOMAIN projects, id \in IssueIds, status \in Store!IssueStatus :
    Store!SetIssueStatus(p, id, status)

(* The retention loop's, at its start or a tick, or the gc command's.        *)
runOnce == Store!DeleteOldEvents

Background ==
  /\ setIssueStatus \/ runOnce \/ Store!Tick
  /\ UNCHANGED <<locals, acked, notices, openings, crashes>>

-------------------------------------------------------------------------------
Init ==
  /\ Store!Init
  /\ pc = [h \in Handlers |-> "idle"]
  /\ request = [h \in Handlers |-> NoRequest]
  /\ pos = [h \in Handlers |-> 1]
  /\ report = [h \in Handlers |-> Quiet]
  /\ acked = {}
  /\ notices = {}
  /\ openings = {}
  /\ crashes = 0

Progress(h) == EnsureProject(h) \/ SkipItem(h) \/ SaveEvent(h) \/ Notify(h) \/ Reply(h)

Next ==
  \/ \E h \in Handlers :
       (\E env \in Envelopes : Accept(h, env)) \/ Progress(h) \/ Fail(h)
  \/ Crash
  \/ Background

Spec == Init /\ [][Next]_vars

(* A handler that runs goes on: nothing it waits for is held for ever. *)
FairSpec == Spec /\ \A h \in Handlers : WF_vars(Progress(h))

-------------------------------------------------------------------------------
TypeOK ==
  /\ Store!TypeOK
  /\ pc \in [Handlers -> {"idle", "ensure", "items", "notify"}]
  /\ request \in [Handlers -> Envelopes \cup {NoRequest}]
  /\ \A h \in Handlers : pos[h] \in 1 .. Len(request[h].items) + 1
  /\ report \in [Handlers -> [isNew : BOOLEAN, isRegression : BOOLEAN]]
  /\ acked \in SUBSET Envelopes
  /\ notices \in SUBSET [project : Projects, event_id : EventIds,
                         issue : IssueIds, isNew : BOOLEAN,
                         isRegression : BOOLEAN, eventCount : Nat \ {0}]
  /\ openings \in SUBSET (Projects \X EventIds)
  /\ crashes \in 0 .. MaxCrashes

(* Whatever handlers, crashes, retries and operators do to the store is one  *)
(* of the store's own steps: no handler saves an event before its project    *)
(* is there, and what holds of every use of the store holds of this one.     *)
UsesStore == Store!Spec

EventItems(env) == {m \in DOMAIN env.items : env.items[m].type = "event"}

EventsIn(env) == {<<env.project, env.items[m].event_id>> : m \in EventItems(env)}

Occurrences(env, issue) ==
  {env.items[m].event_id :
     m \in {n \in EventItems(env) : /\ env.project = issue.project
                                    /\ env.items[n].fingerprint = issue.fingerprint}}

(* A 200 promises that every event of the envelope is stored.  It holds      *)
(* across failures in the middle of an envelope, retries and crashes, until  *)
(* retention can first delete anything.                                      *)
AckMeansStored ==
  now < Retention =>
    \A env \in acked : \A item \in EventsIn(env) : Store!Stored(item[1], item[2])

(* An envelope that is sent again, even while its first copy is still being  *)
(* served, adds no occurrence: until retention deletes events, an issue      *)
(* counts each event the SDKs have for it at most once.                      *)
EachEventCountedOnce ==
  now < Retention =>
    \A i \in DOMAIN issues :
      issues[i].event_count <=
        Cardinality(UNION {Occurrences(env, issues[i]) : env \in Envelopes})

Announced == {<<n.project, n.event_id>> : n \in notices}

Pending(h) == <<request[h].project, CurrentItem(h).event_id>>

Announcing == {h \in Handlers : pc[h] = "notify"}

(* Alerts and what happened to the issues agree: an event is announced, or   *)
(* about to be, exactly when saving it created an issue or reopened a        *)
(* resolved one.  Only a crash may leave an opening without its alert.       *)
OpeningsMatchAlerts ==
  LET alerts == Announced \cup {Pending(h) : h \in Announcing}
  IN  /\ alerts \subseteq openings
      /\ crashes = 0 => openings \subseteq alerts

(* No occurrence is announced twice, by concurrent copies of an envelope, a  *)
(* retry after a failure or after a crash, until retention deletes events.   *)
AnnouncedOnce ==
  now < Retention =>
    \A h \in Announcing :
      /\ Pending(h) \notin Announced
      /\ \A g \in Announcing \ {h} : Pending(g) # Pending(h)

(* "a missed alert being silently dropped forever is a correctness gap": on  *)
(* a server that does not crash there is always a later moment at which      *)
(* every event that opened or reopened an issue has gone to the notifier.    *)
EveryOpeningAnnounced == []<>(crashes > 0 \/ openings \subseteq Announced)
===============================================================================
