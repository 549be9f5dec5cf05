----------------------------- MODULE IngestProofs -----------------------------
(***************************************************************************)
(* The safety of Ingest, for any number of handlers and crashes and any    *)
(* set of envelopes, from three layers: what a handler knows about its own *)
(* request, that therefore every step is one of IssueStore's steps, and    *)
(* what those steps do to the issue of an event.                           *)
(***************************************************************************)
EXTENDS Ingest, FiniteSetTheorems, TLAPS

(* A handler past Accept serves an envelope, and one past EnsureProject     *)
(* finds its project there.                                                 *)
HandlersKnow ==
  /\ pc \in [Handlers -> {"idle", "ensure", "items", "notify"}]
  /\ request \in [Handlers -> Envelopes \cup {NoRequest}]
  /\ DOMAIN pos = Handlers
  /\ \A h \in Handlers :
       /\ pos[h] \in 1 .. Len(request[h].items) + 1
       /\ pc[h] = "idle" => pos[h] = 1
       /\ pc[h] # "idle" => request[h] \in Envelopes
       /\ pc[h] \in {"items", "notify"} => request[h].project \in DOMAIN projects
       /\ pc[h] = "notify" => /\ pos[h] <= Len(request[h].items)
                              /\ CurrentItem(h).type = "event"

(* What the handlers rely on about the store. *)
StoreSound == Store!TypeOK /\ Store!OneIssuePerFingerprint

-------------------------------------------------------------------------------
(* The items of an envelope are items, and events carry what SaveEvent needs. *)
LEMMA ItemFacts ==
  ASSUME NEW env \in Envelopes, NEW m \in 1 .. Len(env.items)
  PROVE  /\ env.project \in Projects /\ env.key \in Keys
         /\ Len(env.items) \in Nat
         /\ env.items[m].type = "event" => /\ env.items[m].event_id \in EventIds
                                           /\ env.items[m].fingerprint \in Fingerprints
<1>1. env.project \in Projects /\ env.key \in Keys /\ env.items \in Seq(Item)
  BY IngestAssumption
<1>2. env.items[m] \in Item
  BY <1>1
<1>3. QED
  BY <1>1, <1>2 DEF Item

(* Every step of the handlers and of the background is a step of the store, *)
(* or leaves it alone.                                                      *)
LEMMA StepOfStore ==
  ASSUME HandlersKnow, [Next]_vars
  PROVE  [Store!Next]_(Store!vars)
<1>1. ASSUME NEW h \in Handlers, EnsureProject(h)
      PROVE  Store!Next
  <2>1. request[h].project \in Projects /\ request[h].key \in Keys
    BY <1>1, IngestAssumption DEF EnsureProject, HandlersKnow
  <2>2. QED
    BY <1>1, <2>1 DEF EnsureProject, Store!Next
<1>2. ASSUME NEW h \in Handlers, SaveEvent(h)
      PROVE  Store!Next
  <2>1. request[h] \in Envelopes /\ pos[h] \in 1 .. Len(request[h].items)
    BY <1>2 DEF SaveEvent, HandlersKnow
  <2>2. /\ request[h].project \in DOMAIN projects
        /\ CurrentItem(h).event_id \in EventIds
        /\ CurrentItem(h).fingerprint \in Fingerprints
        /\ Store!SaveEvent(request[h].project, CurrentItem(h).event_id,
                           CurrentItem(h).fingerprint)
    BY <1>2, <2>1, ItemFacts DEF SaveEvent, HandlersKnow, CurrentItem
  <2>3. QED
    BY <2>2 DEF Store!Next
<1>3. CASE Background
  BY <1>3 DEF Background, setIssueStatus, runOnce, Store!Next
<1>4. QED
  BY <1>1, <1>2, <1>3 DEF Next, Progress, Accept, SkipItem, Notify, Reply, Fail,
     Crash, vars, store, Store!vars

(* Projects are never dropped. *)
LEMMA ProjectsStay ==
  ASSUME [Store!Next]_(Store!vars)
  PROVE  DOMAIN projects \subseteq DOMAIN projects'
  BY DEF Store!Next, Store!vars, Store!Tick, Store!EnsureProject, Store!SaveEvent,
     Store!SetIssueStatus, Store!DeleteOldEvents


(* A handler's knowledge survives its own steps and everybody else's. *)
LEMMA KnowledgeStep ==
  ASSUME HandlersKnow, [Next]_vars
  PROVE  HandlersKnow'
<1>1. DOMAIN projects \subseteq DOMAIN projects'
  BY StepOfStore, ProjectsStay
<1>2. Len(NoRequest.items) = 0
  BY DEF NoRequest
<1>3. \A env \in Envelopes : Len(env.items) \in Nat
  BY IngestAssumption
<1>4. ASSUME NEW h \in Handlers, NEW env \in Envelopes, Accept(h, env)
      PROVE  HandlersKnow'
  BY <1>1, <1>2, <1>3, <1>4 DEF HandlersKnow, Accept, CurrentItem
<1>5. ASSUME NEW h \in Handlers, EnsureProject(h)
      PROVE  HandlersKnow'
  <2>1. request[h].project \in DOMAIN projects'
    BY <1>5 DEF EnsureProject, Store!EnsureProject
  <2>2. QED
    BY <1>1, <1>5, <2>1 DEF HandlersKnow, EnsureProject, CurrentItem
<1>6. ASSUME NEW h \in Handlers, SkipItem(h)
      PROVE  HandlersKnow'
  BY <1>1, <1>3, <1>6 DEF HandlersKnow, SkipItem, CurrentItem
<1>7. ASSUME NEW h \in Handlers, SaveEvent(h)
      PROVE  HandlersKnow'
  <2>1. \/ pc' = [pc EXCEPT ![h] = "notify"] /\ pos' = pos
        \/ pc' = pc /\ pos' = [pos EXCEPT ![h] = @ + 1]
    <3> DEFINE result == Saved(request[h].project, CurrentItem(h).event_id,
                               CurrentItem(h).fingerprint)
    <3>1. IF WorthNotifying(result)
          THEN pc' = [pc EXCEPT ![h] = "notify"] /\ pos' = pos
          ELSE pos' = [pos EXCEPT ![h] = @ + 1] /\ pc' = pc
      BY <1>7, Zenon DEF SaveEvent
    <3>2. QED
      BY <3>1
  <2>2. /\ pc[h] = "items" /\ pos[h] <= Len(request[h].items)
        /\ CurrentItem(h).type = "event" /\ request' = request
    BY <1>7 DEF SaveEvent
  <2>3. CASE pc' = [pc EXCEPT ![h] = "notify"] /\ pos' = pos
    BY <1>1, <1>3, <2>2, <2>3 DEF HandlersKnow, CurrentItem
  <2>4. CASE pc' = pc /\ pos' = [pos EXCEPT ![h] = @ + 1]
    BY <1>1, <1>3, <2>2, <2>4 DEF HandlersKnow, CurrentItem
  <2>5. QED
    BY <2>1, <2>3, <2>4
<1>8. ASSUME NEW h \in Handlers, Notify(h)
      PROVE  HandlersKnow'
  BY <1>1, <1>3, <1>8 DEF HandlersKnow, Notify, CurrentItem
<1>9. ASSUME NEW h \in Handlers, Return(h)
      PROVE  HandlersKnow'
  BY <1>1, <1>2, <1>9 DEF HandlersKnow, Return, CurrentItem
<1>10. CASE Crash
  BY <1>1, <1>2, <1>10 DEF HandlersKnow, Crash, CurrentItem
<1>11. CASE UNCHANGED locals
  BY <1>1, <1>11 DEF HandlersKnow, locals, CurrentItem
<1>12. QED
  BY <1>4, <1>5, <1>6, <1>7, <1>8, <1>9, <1>10, <1>11
     DEF Next, Progress, Reply, Fail, Background, setIssueStatus, runOnce, vars

(* The handlers' knowledge holds of every behaviour. *)
LEMMA KnowledgeHolds == Spec => []HandlersKnow
<1>1. Init => HandlersKnow
  BY DEF Init, HandlersKnow, NoRequest
<1>2. HandlersKnow /\ [Next]_vars => HandlersKnow'
  BY KnowledgeStep
<1>3. QED
  BY <1>1, <1>2, PTL DEF Spec

(* Ingest implements IssueStore: no handler saves an event of a project     *)
(* that is not there, whatever fails, crashes or is sent again, so all that *)
(* is proved of the store holds of the server.                              *)
THEOREM StoreUsedRight == Spec => UsesStore
<1>1. Init => Store!Init
  BY DEF Init
<1>2. HandlersKnow /\ [Next]_vars => [Store!Next]_(Store!vars)
  BY StepOfStore
<1>3. QED
  BY <1>1, <1>2, KnowledgeHolds, PTL DEF Spec, UsesStore, Store!Spec


-------------------------------------------------------------------------------
(* What SaveEvent's transaction does for an event that is not stored: the   *)
(* row of one issue of p and f is there afterwards, made or moved on.       *)
LEMMA OccurrenceFacts ==
  ASSUME StoreSound, NEW p \in DOMAIN projects, NEW e \in EventIds,
         NEW f \in Fingerprints, Store!SaveOccurrence(p, e, f)
  PROVE  \E id \in IssueIds :
           /\ issues' = [i \in DOMAIN issues \cup {id} |-> issues'[i]]
           /\ \A i \in DOMAIN issues : i # id => issues'[i] = issues[i]
           /\ issues'[id] \in Store!Issue
           /\ issues'[id].project = p /\ issues'[id].fingerprint = f
           /\ id \in DOMAIN issues =>
                /\ Store!IssuesOf(p, f) = {id}
                /\ issues'[id].status = Store!StatusAfterEvent(issues[id].status)
           /\ id \notin DOMAIN issues => Store!IssuesOf(p, f) = {}
           /\ events' = events \cup {[project |-> p, event_id |-> e, issue |-> id,
                                      received_at |-> now]}
           /\ issues'[id].event_count =
                IF id \in DOMAIN issues THEN issues[id].event_count + 1 ELSE 1
<1>1. PICK id \in Store!UpsertIds(p, f) :
        Store!UpsertIssue(id, p, f) /\ Store!InsertEvent(p, e, id)
  BY DEF Store!SaveOccurrence
<1>2. /\ p \in Projects /\ now \in Nat /\ DOMAIN issues \subseteq IssueIds
      /\ \A i \in DOMAIN issues : issues[i] \in Store!Issue
  BY DEF StoreSound, Store!TypeOK
<1>3. id \in IssueIds
  BY <1>1, <1>2 DEF Store!UpsertIds, Store!IssuesOf
<1>4. id \in DOMAIN issues => Store!IssuesOf(p, f) = {id}
  BY <1>1 DEF Store!UpsertIds, Store!IssuesOf, StoreSound, Store!OneIssuePerFingerprint
<1>5. id \notin DOMAIN issues => Store!IssuesOf(p, f) = {}
  BY <1>1 DEF Store!UpsertIds, Store!IssuesOf
<1>6. /\ issues' = [i \in DOMAIN issues \cup {id} |-> issues'[i]]
      /\ \A i \in DOMAIN issues : i # id => issues'[i] = issues[i]
      /\ id \in DOMAIN issues => issues'[id] = Store!Recurrence(issues[id])
      /\ id \notin DOMAIN issues => issues'[id] = Store!NewIssue(p, f)
  BY <1>1 DEF Store!UpsertIssue
<1>7. CASE id \in DOMAIN issues
  <2>1. /\ issues[id] \in Store!Issue
        /\ issues[id].project = p /\ issues[id].fingerprint = f
    BY <1>2, <1>4, <1>7 DEF Store!IssuesOf
  <2>2. /\ issues[id].status \in Store!IssueStatus
        /\ issues[id].event_count \in Nat
    BY <2>1 DEF Store!Issue
  <2>3. /\ Store!StatusAfterEvent(issues[id].status) \in Store!IssueStatus
        /\ issues[id].event_count + 1 \in Nat
    BY <2>2 DEF Store!StatusAfterEvent, Store!IssueStatus
  <2>4. /\ Store!Recurrence(issues[id]) \in Store!Issue
        /\ Store!Recurrence(issues[id]).project = issues[id].project
        /\ Store!Recurrence(issues[id]).fingerprint = issues[id].fingerprint
        /\ Store!Recurrence(issues[id]).status
             = Store!StatusAfterEvent(issues[id].status)
        /\ Store!Recurrence(issues[id]).event_count = issues[id].event_count + 1
    BY <1>2, <2>1, <2>3 DEF Store!Recurrence, Store!Issue
  <2>5. QED
    BY <1>1, <1>3, <1>4, <1>6, <1>7, <2>1, <2>4 DEF Store!InsertEvent
<1>8. CASE id \notin DOMAIN issues
  <2>1. /\ Store!NewIssue(p, f) \in Store!Issue
        /\ Store!NewIssue(p, f).project = p
        /\ Store!NewIssue(p, f).fingerprint = f
        /\ Store!NewIssue(p, f).event_count = 1
    BY <1>2 DEF Store!NewIssue, Store!Issue, Store!IssueStatus
  <2>2. QED
    BY <1>1, <1>3, <1>5, <1>6, <1>8, <2>1 DEF Store!InsertEvent
<1>9. QED
  BY <1>7, <1>8

(* Every step of the store keeps it sound. *)
LEMMA SoundStep ==
  ASSUME StoreSound, [Store!Next]_(Store!vars)
  PROVE  StoreSound'
<1>1. ASSUME NEW p \in DOMAIN projects, NEW e \in EventIds, NEW f \in Fingerprints,
             Store!SaveOccurrence(p, e, f), UNCHANGED <<now, projects>>
      PROVE  StoreSound'
  <2>1. PICK id \in IssueIds :
          /\ issues' = [i \in DOMAIN issues \cup {id} |-> issues'[i]]
          /\ \A i \in DOMAIN issues : i # id => issues'[i] = issues[i]
          /\ issues'[id] \in Store!Issue
          /\ issues'[id].project = p /\ issues'[id].fingerprint = f
          /\ id \in DOMAIN issues => Store!IssuesOf(p, f) = {id}
          /\ id \notin DOMAIN issues => Store!IssuesOf(p, f) = {}
          /\ events' = events \cup {[project |-> p, event_id |-> e, issue |-> id,
                                     received_at |-> now]}
    BY <1>1, OccurrenceFacts
  <2>2. Store!OneIssuePerFingerprint'
    BY <2>1 DEF StoreSound, Store!OneIssuePerFingerprint, Store!IssuesOf
  <2>3. \A i \in DOMAIN issues : issues[i] \in Store!Issue
    BY DEF StoreSound, Store!TypeOK
  <2>4. DOMAIN issues' = DOMAIN issues \cup {id}
    BY <2>1
  <2>5. issues' \in [DOMAIN issues' -> Store!Issue]
    BY <2>1, <2>3, <2>4
  <2>6. events' \in SUBSET Store!Event
    BY <2>1 DEF StoreSound, Store!TypeOK, Store!Event
  <2>7. QED
    BY <1>1, <2>2, <2>4, <2>5, <2>6 DEF StoreSound, Store!TypeOK
<1>2. ASSUME NEW p \in Projects, NEW key \in Keys, Store!EnsureProject(p, key)
      PROVE  StoreSound'
  <2>1. /\ projects' \in [DOMAIN projects' -> Keys]
        /\ DOMAIN projects' \subseteq Projects
    BY <1>2 DEF Store!EnsureProject, StoreSound, Store!TypeOK
  <2>2. QED
    BY <1>2, <2>1 DEF Store!EnsureProject, StoreSound, Store!TypeOK,
       Store!OneIssuePerFingerprint
<1>3. ASSUME NEW p \in DOMAIN projects, NEW id \in IssueIds,
             NEW status \in Store!IssueStatus, Store!SetIssueStatus(p, id, status)
      PROVE  StoreSound'
  <2>1. /\ DOMAIN issues' = DOMAIN issues
        /\ issues' \in [DOMAIN issues -> Store!Issue]
        /\ \A i \in DOMAIN issues : /\ issues'[i].project = issues[i].project
                                    /\ issues'[i].fingerprint = issues[i].fingerprint
    BY <1>3 DEF Store!SetIssueStatus, StoreSound, Store!TypeOK, Store!Issue
  <2>2. QED
    BY <1>3, <2>1 DEF Store!SetIssueStatus, StoreSound, Store!TypeOK,
       Store!OneIssuePerFingerprint
<1>4. ASSUME UNCHANGED <<projects, issues>>, now' \in Nat, events' \subseteq events
      PROVE  StoreSound'
  BY <1>4 DEF StoreSound, Store!TypeOK, Store!OneIssuePerFingerprint
<1>5. now \in Nat /\ now + 1 \in Nat
  BY DEF StoreSound, Store!TypeOK
<1>6. QED
  BY <1>1, <1>2, <1>3, <1>4, <1>5 DEF Store!Next, Store!vars, Store!Tick,
     Store!SaveEvent, Store!SaveDuplicate, Store!DeleteOldEvents

(* The store is sound in every behaviour. *)
LEMMA SoundHolds == Spec => []StoreSound
<1>1. Init => StoreSound
  BY DEF Init, Store!Init, StoreSound, Store!TypeOK, Store!OneIssuePerFingerprint
<1>2. StoreSound /\ HandlersKnow /\ [Next]_vars => StoreSound'
  BY StepOfStore, SoundStep
<1>3. QED
  BY <1>1, <1>2, KnowledgeHolds, PTL DEF Spec


-------------------------------------------------------------------------------
(* The items a handler is done with, the one it is about to announce among  *)
(* them.                                                                    *)
Handled(h) ==
  {m \in 1 .. Len(request[h].items) : m < pos[h] \/ (m = pos[h] /\ pc[h] = "notify")}

(* AckMeansStored, already while the envelope is being served. *)
HandledStored ==
  now < Retention =>
    \A h \in Handlers : \A m \in Handled(h) :
      request[h].items[m].type = "event" =>
        Store!Stored(request[h].project, request[h].items[m].event_id)

(* Until retention sets in, what is stored stays stored. *)
LEMMA StoredStays ==
  ASSUME StoreSound, [Store!Next]_(Store!vars), Store!StoreAssumption,
         ZoneOffset <= 0, now' < Retention
  PROVE  /\ now < Retention
         /\ \A p, e : Store!Stored(p, e) => Store!Stored(p, e)'
<1>1. now \in Nat /\ \A ev \in events : ev.received_at \in Nat
  BY DEF StoreSound, Store!TypeOK, Store!Event
<1>2. now' = now \/ now' = now + 1
  BY DEF Store!Next, Store!vars, Store!Tick, Store!EnsureProject, Store!SaveEvent,
     Store!SetIssueStatus, Store!DeleteOldEvents
<1>3. Retention \in Nat /\ ZoneOffset \in Int
  BY DEF Store!StoreAssumption
<1>4. now < Retention
  BY <1>1, <1>2, <1>3
<1>5. CASE Store!DeleteOldEvents
  <2>1. \A ev \in events : ev.received_at > now + ZoneOffset - Retention
    BY <1>1, <1>3, <1>4
  <2>2. events' = events
    BY <1>5, <2>1 DEF Store!DeleteOldEvents, Store!Cutoff
  <2>3. QED
    BY <1>4, <2>2 DEF Store!Stored
<1>6. CASE events \subseteq events'
  BY <1>4, <1>6 DEF Store!Stored
<1>7. QED
  BY <1>5, <1>6 DEF Store!Next, Store!vars, Store!Tick, Store!EnsureProject,
     Store!SaveEvent, Store!SaveDuplicate, Store!SaveOccurrence,
     Store!InsertEvent, Store!SetIssueStatus

(* After SaveEvent the event is stored, by this request or an earlier one. *)
LEMMA SavedIsStored ==
  ASSUME NEW p, NEW e, NEW f, Store!SaveEvent(p, e, f)
  PROVE  Store!Stored(p, e)'
<1>1. CASE Store!SaveDuplicate(p, e)
  BY <1>1 DEF Store!SaveDuplicate, Store!Stored
<1>2. ASSUME NEW id, Store!InsertEvent(p, e, id)
      PROVE  Store!Stored(p, e)'
  <2> DEFINE row == [project |-> p, event_id |-> e, issue |-> id, received_at |-> now]
  <2>1. row \in events' /\ row.project = p /\ row.event_id = e
    BY <1>2 DEF Store!InsertEvent
  <2>2. QED
    BY <2>1 DEF Store!Stored
<1>3. QED
  BY <1>1, <1>2 DEF Store!SaveEvent, Store!SaveOccurrence

(* What a handler is done with stays stored, and so does what it saves. *)
LEMMA HandledStep ==
  ASSUME HandlersKnow, StoreSound, HandledStored, [Next]_vars,
         Store!StoreAssumption, ZoneOffset <= 0
  PROVE  HandledStored'
<1> DEFINE Fine(h, m) ==
      request[h].items[m].type = "event" =>
        Store!Stored(request[h].project, request[h].items[m].event_id)
<1> SUFFICES ASSUME now' < Retention,
                    NEW h \in Handlers, NEW m \in Handled(h)'
             PROVE  Fine(h, m)'
  BY DEF HandledStored
<1>1. now < Retention /\ \A p, e : Store!Stored(p, e) => Store!Stored(p, e)'
  BY StepOfStore, StoredStays
<1>2. CASE m \in Handled(h) /\ request'[h] = request[h]
  BY <1>1, <1>2 DEF HandledStored
<1>3. CASE /\ SaveEvent(h) /\ m = pos[h]
           /\ request'[h] = request[h]
  <2>1. Store!SaveEvent(request[h].project, request[h].items[m].event_id,
                        request[h].items[m].fingerprint)
    BY <1>3 DEF SaveEvent, CurrentItem
  <2>2. \A p, e, f : Store!SaveEvent(p, e, f) =>
          \E ev \in events' : ev.project = p /\ ev.event_id = e
    BY SavedIsStored DEF Store!Stored
  <2>3. \E ev \in events' : /\ ev.project = request[h].project
                            /\ ev.event_id = request[h].items[m].event_id
    BY <2>1, <2>2
  <2>4. QED
    BY <1>3, <2>3 DEF Store!Stored
<1>4. CASE /\ SkipItem(h) /\ m = pos[h]
           /\ request'[h] = request[h]
  BY <1>4 DEF SkipItem, CurrentItem
<1>5. \/ m \in Handled(h) /\ request'[h] = request[h]
      \/ SaveEvent(h) /\ m = pos[h] /\ request'[h] = request[h]
      \/ SkipItem(h) /\ m = pos[h] /\ request'[h] = request[h]
  <2>1. /\ m \in 1 .. Len(request'[h].items)
        /\ m < pos'[h] \/ (m = pos'[h] /\ pc'[h] = "notify")
    BY DEF Handled
  <2>2. /\ pos[h] \in Nat /\ m \in Nat \ {0} /\ h \in DOMAIN pos
        /\ h \in DOMAIN pc /\ h \in DOMAIN request
    BY <2>1 DEF HandlersKnow
  <2>3. ASSUME UNCHANGED <<pc[h], request[h], pos[h]>>
        PROVE  m \in Handled(h) /\ request'[h] = request[h]
    BY <2>1, <2>3 DEF Handled
  <2>4. ASSUME pos'[h] = 1, pc'[h] # "notify"
        PROVE  FALSE
    BY <2>1, <2>2, <2>4
  <2>5. ASSUME NEW g \in Handlers, g # h, Progress(g) \/ Fail(g)
        PROVE  UNCHANGED <<pc[h], request[h], pos[h]>>
    BY <2>2, <2>5 DEF HandlersKnow, Progress, EnsureProject, SkipItem, SaveEvent,
       Notify, Reply, Fail, Return
  <2>6. CASE SkipItem(h) \/ SaveEvent(h)
    <3>1. /\ request'[h] = request[h] /\ pc[h] = "items"
          /\ \/ pos'[h] = pos[h] + 1 /\ pc'[h] = "items"
             \/ pos'[h] = pos[h] /\ pc'[h] = "notify"
      BY <2>2, <2>6 DEF SkipItem, SaveEvent
    <3>2. QED
      BY <2>1, <2>2, <2>6, <3>1 DEF Handled
  <2>7. CASE EnsureProject(h)
    BY <2>1, <2>2, <2>7 DEF EnsureProject, Handled
  <2>8. CASE Notify(h)
    BY <2>1, <2>2, <2>8 DEF Notify, Handled
  <2>9. CASE Reply(h) \/ Fail(h)
    BY <2>2, <2>4, <2>9 DEF Reply, Fail, Return
  <2>10. ASSUME NEW g \in Handlers, NEW env \in Envelopes, Accept(g, env)
         PROVE  m \in Handled(h) /\ request'[h] = request[h]
    <3>1. CASE g = h
      BY <2>2, <2>4, <2>10, <3>1 DEF Accept, HandlersKnow
    <3>2. CASE g # h
      BY <2>2, <2>3, <2>10, <3>2 DEF Accept
    <3>3. QED
      BY <3>1, <3>2
  <2>11. CASE Crash
    BY <2>4, <2>11 DEF Crash
  <2>12. CASE UNCHANGED locals
    BY <2>3, <2>12 DEF locals
  <2>13. QED
    BY <2>3, <2>5, <2>6, <2>7, <2>8, <2>9, <2>10, <2>11, <2>12
       DEF Next, Progress, Background, setIssueStatus, runOnce, vars
<1>6. QED
  BY <1>2, <1>3, <1>4, <1>5


(* An SDK sees its 200 when every item was handled. *)
LEMMA AckStep ==
  ASSUME HandlersKnow, StoreSound, HandledStored, AckMeansStored, [Next]_vars,
         Store!StoreAssumption, ZoneOffset <= 0
  PROVE  AckMeansStored'
<1> SUFFICES ASSUME now' < Retention,
                    NEW env \in acked', NEW m \in EventItems(env)
             PROVE  Store!Stored(env.project, env.items[m].event_id)'
  <2>1. SUFFICES ASSUME now' < Retention, NEW env \in acked',
                        NEW item \in EventsIn(env)
                 PROVE  Store!Stored(item[1], item[2])'
    BY DEF AckMeansStored
  <2>2. PICK m \in EventItems(env) : item = <<env.project, env.items[m].event_id>>
    BY DEF EventsIn
  <2>3. QED
    BY <2>1, <2>2
<1>1. now < Retention /\ \A p, e : Store!Stored(p, e) => Store!Stored(p, e)'
  BY StepOfStore, StoredStays
<1>2. CASE env \in acked
  <2> DEFINE item == <<env.project, env.items[m].event_id>>
  <2>1. item \in EventsIn(env)
    BY DEF EventsIn
  <2>2. Store!Stored(item[1], item[2])
    BY <1>1, <1>2, <2>1 DEF AckMeansStored
  <2>3. QED
    BY <1>1, <2>2
<1>3. ASSUME NEW h \in Handlers, Reply(h), env = request[h]
      PROVE  Store!Stored(env.project, env.items[m].event_id)
  <2>1. request[h] \in Envelopes /\ pos[h] > Len(request[h].items)
    BY <1>3 DEF Reply, HandlersKnow
  <2>2. env.items \in Seq(Item)
    BY <1>3, <2>1, IngestAssumption
  <2>3. m \in 1 .. Len(env.items) /\ env.items[m].type = "event"
    BY <2>2 DEF EventItems
  <2>4. pos[h] \in Nat
    BY DEF HandlersKnow
  <2>5. m \in Handled(h)
    BY <1>3, <2>1, <2>2, <2>3, <2>4 DEF Handled
  <2>6. QED
    BY <1>1, <1>3, <2>3, <2>5 DEF HandledStored
<1>4. env \in acked \/ \E h \in Handlers : Reply(h) /\ env = request[h]
  BY DEF Next, Progress, Accept, EnsureProject, SkipItem, SaveEvent, Notify,
     Reply, Fail, Crash, Background, setIssueStatus, runOnce, vars
<1>5. QED
  BY <1>1, <1>2, <1>3, <1>4

(* A 200 is a promise kept, whatever failed, crashed or was sent again in   *)
(* between: until retention deletes, every event of an acknowledged         *)
(* envelope is stored.  East of UTC retention may delete before its time.   *)
THEOREM AckHonoured ==
  ASSUME Store!StoreAssumption, ZoneOffset <= 0
  PROVE  Spec => []AckMeansStored
<1>1. Init => HandledStored /\ AckMeansStored
  BY DEF Init, HandledStored, Handled, NoRequest, AckMeansStored
<1>2. HandlersKnow /\ StoreSound /\ HandledStored /\ AckMeansStored /\ [Next]_vars
        => (HandledStored /\ AckMeansStored)'
  BY HandledStep, AckStep
<1>3. QED
  BY <1>1, <1>2, KnowledgeHolds, SoundHolds, PTL DEF Spec


-------------------------------------------------------------------------------
(* SaveEvent reports a new issue or a regression exactly when it opens one. *)
LEMMA OpenedIsReported ==
  ASSUME StoreSound, NEW p \in DOMAIN projects, NEW e \in EventIds,
         NEW f \in Fingerprints, Store!SaveEvent(p, e, f)
  PROVE  /\ Opened # {} <=> WorthNotifying(Saved(p, e, f))
         /\ WorthNotifying(Saved(p, e, f)) => ~ Store!Stored(p, e)
<1>1. WorthNotifying(Saved(p, e, f)) <=> Store!IsNew(p, e, f) \/ Store!IsRegression(p, e, f)
  BY DEF WorthNotifying, Saved
<1>2. CASE Store!SaveDuplicate(p, e)
  BY <1>1, <1>2 DEF Store!SaveDuplicate, Opened, Store!IsNew, Store!IsRegression
<1>3. CASE Store!SaveOccurrence(p, e, f)
  <2>1. PICK id \in IssueIds :
          /\ issues' = [i \in DOMAIN issues \cup {id} |-> issues'[i]]
          /\ \A i \in DOMAIN issues : i # id => issues'[i] = issues[i]
          /\ id \in DOMAIN issues =>
               /\ Store!IssuesOf(p, f) = {id}
               /\ issues'[id].status = Store!StatusAfterEvent(issues[id].status)
          /\ id \notin DOMAIN issues => Store!IssuesOf(p, f) = {}
    BY <1>3, OccurrenceFacts
  <2>2. ~ Store!Stored(p, e)
    BY <1>3 DEF Store!SaveOccurrence
  <2>3. DOMAIN issues' = DOMAIN issues \cup {id}
    BY <2>1
  <2>4. Opened # {} <=> id \notin DOMAIN issues \/ issues[id].status = "resolved"
    BY <2>1, <2>3 DEF Opened, Store!StatusAfterEvent
  <2>5. Store!IsNew(p, e, f) \/ Store!IsRegression(p, e, f)
          <=> id \notin DOMAIN issues \/ issues[id].status = "resolved"
    BY <2>1, <2>2 DEF Store!IsNew, Store!IsRegression
  <2>6. QED
    BY <1>1, <2>2, <2>4, <2>5
<1>4. QED
  BY <1>2, <1>3 DEF Store!SaveEvent

(* The ways a step can change what is announced: an event is about to be    *)
(* announced (Fresh), one is handed over (Passed), all that was about to be *)
(* is forgotten, or nothing happens.                                        *)
PendingKept == \A g \in Announcing' : Pending(g)' = Pending(g)

Fresh(h) ==
  /\ h \notin Announcing /\ Announcing' = Announcing \cup {h}
  /\ ~ Store!Stored(request[h].project, CurrentItem(h).event_id)
  /\ openings' = openings \cup {Pending(h)}
  /\ UNCHANGED <<notices, crashes>>

Passed(h) ==
  /\ h \in Announcing /\ Announcing' = Announcing \ {h}
  /\ Announced' = Announced \cup {Pending(h)}
  /\ UNCHANGED <<openings, crashes>>

Forgotten ==
  /\ Announcing' = {}
  /\ crashes' = crashes + 1
  /\ UNCHANGED <<notices, openings>>

Nothing == Announcing' = Announcing /\ UNCHANGED <<notices, openings, crashes>>

LEMMA AlertEffect ==
  ASSUME HandlersKnow, StoreSound, [Next]_vars
  PROVE  /\ PendingKept
         /\ \/ \E h \in Handlers : Fresh(h) \/ Passed(h)
            \/ Forgotten
            \/ Nothing
<1>1. /\ pc \in [Handlers -> {"idle", "ensure", "items", "notify"}]
      /\ DOMAIN request = Handlers /\ DOMAIN pos = Handlers
  BY DEF HandlersKnow
<1>2. ASSUME NEW h \in Handlers, SaveEvent(h)
      PROVE  PendingKept /\ (Fresh(h) \/ Nothing)
  <2> DEFINE p == request[h].project
             e == CurrentItem(h).event_id
             f == CurrentItem(h).fingerprint
             result == Saved(p, e, f)
  <2>1. /\ request[h] \in Envelopes /\ pos[h] \in 1 .. Len(request[h].items)
        /\ p \in DOMAIN projects
    BY <1>2 DEF SaveEvent, HandlersKnow
  <2>2. e \in EventIds /\ f \in Fingerprints
    BY <1>2, <2>1, ItemFacts DEF SaveEvent, CurrentItem
  <2>3. /\ Store!SaveEvent(p, e, f)
        /\ openings' = IF Opened = {} THEN openings ELSE openings \cup {<<p, e>>}
        /\ IF WorthNotifying(result)
           THEN pc' = [pc EXCEPT ![h] = "notify"] /\ pos' = pos
           ELSE pos' = [pos EXCEPT ![h] = @ + 1] /\ pc' = pc
        /\ pc[h] = "items"
        /\ UNCHANGED <<request, notices, crashes>>
    BY <1>2, Zenon DEF SaveEvent
  <2>4. /\ Opened # {} <=> WorthNotifying(result)
        /\ WorthNotifying(result) => ~ Store!Stored(p, e)
    BY <2>1, <2>2, <2>3, OpenedIsReported
  <2>5. CASE WorthNotifying(result)
    <3>1. /\ openings' = openings \cup {<<p, e>>} /\ ~ Store!Stored(p, e)
          /\ pc' = [pc EXCEPT ![h] = "notify"] /\ pos' = pos /\ request' = request
      BY <2>3, <2>4, <2>5
    <3>2. PendingKept
      BY <3>1 DEF PendingKept, Pending, CurrentItem
    <3>3. h \notin Announcing /\ Announcing' = Announcing \cup {h}
      BY <1>1, <2>3, <3>1 DEF Announcing
    <3>4. QED
      BY <2>3, <3>1, <3>2, <3>3 DEF Fresh, Pending
  <2>6. CASE ~ WorthNotifying(result)
    <3>1. /\ openings' = openings /\ pos' = [pos EXCEPT ![h] = @ + 1]
          /\ pc' = pc /\ request' = request
      BY <2>3, <2>4, <2>6
    <3>2. PendingKept
      BY <1>1, <2>3, <3>1 DEF PendingKept, Announcing, Pending, CurrentItem
    <3>3. QED
      BY <2>3, <3>1, <3>2 DEF Nothing, Announcing
  <2>7. QED
    BY <2>5, <2>6
<1>3. ASSUME NEW h \in Handlers, Notify(h)
      PROVE  PendingKept /\ Passed(h)
  <2>1. /\ pc[h] = "notify"
        /\ pc' = [pc EXCEPT ![h] = "items"] /\ pos' = [pos EXCEPT ![h] = @ + 1]
        /\ UNCHANGED <<request, openings, crashes>>
    BY <1>3 DEF Notify
  <2>2. PICK n : /\ notices' = notices \cup {n}
                 /\ n.project = request[h].project
                 /\ n.event_id = CurrentItem(h).event_id
    <3> DEFINE notice(i, count) ==
          [project |-> request[h].project, event_id |-> CurrentItem(h).event_id,
           issue |-> i, isNew |-> report[h].isNew,
           isRegression |-> report[h].isRegression, eventCount |-> count]
    <3>1. PICK i, count : notices' = notices \cup {notice(i, count)}
      BY <1>3, Zenon DEF Notify
    <3>2. /\ notice(i, count).project = request[h].project
          /\ notice(i, count).event_id = CurrentItem(h).event_id
      OBVIOUS
    <3> HIDE DEF notice
    <3>3. QED
      BY <3>1, <3>2
  <2>3. Announced' = Announced \cup {Pending(h)}
    BY <2>2 DEF Announced, Pending
  <2>4. h \in Announcing /\ Announcing' = Announcing \ {h}
    BY <1>1, <2>1 DEF Announcing
  <2>5. PendingKept
    BY <1>1, <2>1 DEF PendingKept, Announcing, Pending, CurrentItem
  <2>6. QED
    BY <2>1, <2>3, <2>4, <2>5 DEF Passed
<1>4. CASE Crash
  BY <1>4 DEF Crash, Forgotten, Announcing, PendingKept
<1>5. ASSUME UNCHANGED <<notices, openings, crashes>>, NEW h \in Handlers,
             pc[h] # "notify", pc'[h] # "notify", DOMAIN pc' = Handlers,
             \A g \in Handlers \ {h} : UNCHANGED <<pc[g], request[g], pos[g]>>
      PROVE  PendingKept /\ Nothing
  BY <1>5 DEF PendingKept, Nothing, Announcing, Pending, CurrentItem
<1>6. ASSUME NEW h \in Handlers,
             \/ \E env \in Envelopes : Accept(h, env)
             \/ EnsureProject(h) \/ SkipItem(h) \/ Reply(h) \/ Fail(h)
      PROVE  PendingKept /\ Nothing
  <2>1. pc[h] # "notify" /\ UNCHANGED <<notices, openings, crashes>>
    BY <1>6 DEF Accept, EnsureProject, SkipItem, Reply, Fail
  <2>2. pc'[h] # "notify" /\ DOMAIN pc' = Handlers
    BY <1>1, <1>6 DEF Accept, EnsureProject, SkipItem, Reply, Fail, Return
  <2>3. \A g \in Handlers \ {h} : UNCHANGED <<pc[g], request[g], pos[g]>>
    BY <1>1, <1>6 DEF Accept, EnsureProject, SkipItem, Reply, Fail, Return
  <2>4. QED
    BY <1>5, <2>1, <2>2, <2>3
<1>7. CASE UNCHANGED <<locals, notices, openings, crashes>>
  BY <1>7 DEF locals, PendingKept, Nothing, Announcing, Pending, CurrentItem
<1>8. QED
  BY <1>2, <1>3, <1>4, <1>6, <1>7 DEF Next, Progress, Background, setIssueStatus, runOnce, vars


-------------------------------------------------------------------------------
(* Alerts match openings: an occurrence is announced, or about to be, only  *)
(* if saving it opened or reopened an issue, and unless the server crashed, *)
(* every such occurrence is.                                                *)
THEOREM OpeningsMatched == Spec => []OpeningsMatchAlerts
<1>1. Init => OpeningsMatchAlerts /\ crashes \in Nat
  BY DEF Init, OpeningsMatchAlerts, Announced, Announcing
<1>2. OpeningsMatchAlerts /\ crashes \in Nat /\ HandlersKnow /\ StoreSound /\ [Next]_vars
        => (OpeningsMatchAlerts /\ crashes \in Nat)'
  <2> DEFINE alerts == Announced \cup {Pending(h) : h \in Announcing}
  <2> SUFFICES ASSUME alerts \subseteq openings, crashes = 0 => openings \subseteq alerts,
                      HandlersKnow, StoreSound, crashes \in Nat, [Next]_vars
               PROVE  /\ alerts' \subseteq openings'
                      /\ crashes' = 0 => openings' \subseteq alerts'
                      /\ crashes' \in Nat
    BY DEF OpeningsMatchAlerts
  <2>1. PendingKept
    BY AlertEffect
  <2>2. ASSUME NEW h \in Handlers, Fresh(h)
        PROVE  alerts' = alerts \cup {Pending(h)} /\ crashes' = crashes
    BY <2>1, <2>2 DEF Fresh, PendingKept, Announced
  <2>3. ASSUME NEW h \in Handlers, Passed(h)
        PROVE  alerts' = alerts /\ UNCHANGED <<openings, crashes>>
    BY <2>1, <2>3 DEF Passed, PendingKept
  <2>4. CASE Nothing
    BY <2>1, <2>4 DEF Nothing, PendingKept, Announced
  <2>5. CASE Forgotten
    BY <2>5 DEF Forgotten, Announced
  <2>6. QED
    BY <2>2, <2>3, <2>4, <2>5, AlertEffect DEF Fresh
<1>3. QED
  BY <1>1, <1>2, KnowledgeHolds, SoundHolds, PTL DEF Spec


(* What was announced is stored. *)
AnnouncedStored ==
  now < Retention => \A a \in Announced : Store!Stored(a[1], a[2])

(* So is what is about to be. *)
LEMMA PendingStored ==
  ASSUME HandlersKnow, HandledStored, now < Retention, NEW h \in Announcing
  PROVE  /\ Store!Stored(request[h].project, CurrentItem(h).event_id)
         /\ Store!Stored(Pending(h)[1], Pending(h)[2])
<1>1. /\ request[h] \in Envelopes
      /\ pos[h] \in 1 .. Len(request[h].items) + 1 /\ pos[h] <= Len(request[h].items)
      /\ CurrentItem(h).type = "event" /\ pc[h] = "notify"
  BY DEF Announcing, HandlersKnow
<1>2. Len(request[h].items) \in Nat
  BY <1>1, IngestAssumption
<1>3. pos[h] \in Handled(h)
  BY <1>1, <1>2 DEF Handled
<1>4. QED
  BY <1>1, <1>3 DEF HandledStored, Announcing, CurrentItem, Pending

LEMMA OnceStep ==
  ASSUME HandlersKnow, StoreSound, HandledStored, AnnouncedStored, AnnouncedOnce,
         [Next]_vars, Store!StoreAssumption, ZoneOffset <= 0
  PROVE  AnnouncedStored' /\ AnnouncedOnce'
<1> SUFFICES ASSUME now' < Retention
             PROVE  /\ \A a \in Announced' : Store!Stored(a[1], a[2])'
                    /\ \A h \in Announcing' :
                         /\ Pending(h)' \notin Announced'
                         /\ \A g \in Announcing' \ {h} : Pending(g)' # Pending(h)'
  BY DEF AnnouncedStored, AnnouncedOnce
<1>1. now < Retention /\ \A p, e : Store!Stored(p, e) => Store!Stored(p, e)'
  BY StepOfStore, StoredStays
<1>2. /\ \A a \in Announced : Store!Stored(a[1], a[2])
      /\ \A h \in Announcing : Store!Stored(Pending(h)[1], Pending(h)[2])
  BY <1>1, PendingStored DEF AnnouncedStored
<1>3. \A h \in Announcing :
        /\ Pending(h) \notin Announced
        /\ \A g \in Announcing \ {h} : Pending(g) # Pending(h)
  BY <1>1 DEF AnnouncedOnce
<1>4. PendingKept
  BY AlertEffect
<1>5. ASSUME NEW h \in Handlers, Fresh(h)
      PROVE  /\ Announced' = Announced
             /\ Announcing' = Announcing \cup {h} /\ h \notin Announcing
             /\ Pending(h) \notin Announced
             /\ \A g \in Announcing : Pending(g) # Pending(h)
  <2>1. ~ Store!Stored(Pending(h)[1], Pending(h)[2])
    BY <1>5 DEF Fresh, Pending
  <2>2. QED
    BY <1>2, <1>5, <2>1 DEF Fresh, Announced
<1>6. \A h \in Announcing' :
        /\ Pending(h)' \notin Announced'
        /\ \A g \in Announcing' \ {h} : Pending(g)' # Pending(h)'
  <2>1. ASSUME NEW h \in Handlers, Fresh(h)
        PROVE  \A g \in Announcing' :
                 /\ Pending(g) \notin Announced'
                 /\ \A k \in Announcing' \ {g} : Pending(k) # Pending(g)
    BY <1>3, <1>5, <2>1
  <2>2. ASSUME NEW h \in Handlers, Passed(h)
        PROVE  \A g \in Announcing' :
                 /\ Pending(g) \notin Announced'
                 /\ \A k \in Announcing' \ {g} : Pending(k) # Pending(g)
    BY <1>3, <2>2 DEF Passed
  <2>3. CASE Forgotten \/ Nothing
    BY <1>3, <1>4, <2>3 DEF Forgotten, Nothing, Announced, PendingKept
  <2>4. QED
    BY <1>4, <2>1, <2>2, <2>3, AlertEffect DEF PendingKept
<1>7. Announced' \subseteq Announced \cup {Pending(h) : h \in Announcing}
  BY AlertEffect DEF Fresh, Passed, Forgotten, Nothing, Announced
<1>8. \A a \in Announced' : Store!Stored(a[1], a[2])
  BY <1>2, <1>7
<1>9. QED
  BY <1>1, <1>6, <1>8

(* No occurrence is announced twice, by copies of its envelope served side  *)
(* by side, after a failure, a crash or a lost reply, until retention sets  *)
(* in: the existence check and the upsert are one transaction.              *)
THEOREM NeverAnnouncedTwice ==
  ASSUME Store!StoreAssumption, ZoneOffset <= 0
  PROVE  Spec => []AnnouncedOnce
<1>1. Init => HandledStored /\ AnnouncedStored /\ AnnouncedOnce
  BY DEF Init, HandledStored, Handled, NoRequest, AnnouncedStored, AnnouncedOnce,
     Announced, Announcing
<1>2. HandlersKnow /\ StoreSound /\ HandledStored /\ AnnouncedStored /\ AnnouncedOnce
        /\ [Next]_vars => (HandledStored /\ AnnouncedStored /\ AnnouncedOnce)'
  BY HandledStep, OnceStep
<1>3. QED
  BY <1>1, <1>2, KnowledgeHolds, SoundHolds, PTL DEF Spec
-------------------------------------------------------------------------------
(* What TypeOK says beyond HandlersKnow and StoreSound, and the one fact it *)
(* needs: the event count a notice may carry is never zero.                 *)
Typed ==
  /\ report \in [Handlers -> [isNew : BOOLEAN, isRegression : BOOLEAN]]
  /\ acked \in SUBSET Envelopes
  /\ notices \in SUBSET [project : Projects, event_id : EventIds,
                         issue : IssueIds, isNew : BOOLEAN,
                         isRegression : BOOLEAN, eventCount : Nat \ {0}]
  /\ openings \in SUBSET (Projects \X EventIds)
  /\ crashes \in 0 .. MaxCrashes

CountsPositive == \A i \in DOMAIN issues : issues[i].event_count \in Nat \ {0}

(* An issue is made with its first event, and its count only grows. *)
LEMMA CountsPositiveStep ==
  ASSUME StoreSound, CountsPositive, [Store!Next]_(Store!vars)
  PROVE  CountsPositive'
<1>1. ASSUME NEW p \in DOMAIN projects, NEW e \in EventIds, NEW f \in Fingerprints,
             Store!SaveOccurrence(p, e, f)
      PROVE  CountsPositive'
  <2>1. PICK id \in IssueIds :
          /\ issues' = [i \in DOMAIN issues \cup {id} |-> issues'[i]]
          /\ \A i \in DOMAIN issues : i # id => issues'[i] = issues[i]
          /\ issues'[id].event_count =
               IF id \in DOMAIN issues THEN issues[id].event_count + 1 ELSE 1
    BY <1>1, OccurrenceFacts
  <2>2. DOMAIN issues' = DOMAIN issues \cup {id}
    BY <2>1
  <2>3. QED
    BY <2>1, <2>2 DEF CountsPositive
<1>2. ASSUME NEW p \in DOMAIN projects, NEW id \in IssueIds,
             NEW status \in Store!IssueStatus, Store!SetIssueStatus(p, id, status)
      PROVE  CountsPositive'
  <2>1. /\ DOMAIN issues' = DOMAIN issues
        /\ \A i \in DOMAIN issues : issues'[i].event_count = issues[i].event_count
    BY <1>2 DEF Store!SetIssueStatus, StoreSound, Store!TypeOK, Store!Issue
  <2>2. QED
    BY <2>1 DEF CountsPositive
<1>3. CASE UNCHANGED issues
  BY <1>3 DEF CountsPositive
<1>4. QED
  BY <1>1, <1>2, <1>3 DEF Store!Next, Store!vars, Store!Tick, Store!EnsureProject,
     Store!SaveEvent, Store!SaveDuplicate, Store!DeleteOldEvents

(* The event a handler is at, and where it comes from. *)
LEMMA CurrentEvent ==
  ASSUME HandlersKnow, NEW h \in Handlers, pc[h] \in {"items", "notify"},
         pos[h] <= Len(request[h].items), CurrentItem(h).type = "event"
  PROVE  /\ request[h] \in Envelopes
         /\ pos[h] \in 1 .. Len(request[h].items)
         /\ request[h].project \in DOMAIN projects
         /\ request[h].project \in Projects
         /\ CurrentItem(h).event_id \in EventIds
         /\ CurrentItem(h).fingerprint \in Fingerprints
<1>1. /\ request[h] \in Envelopes /\ pos[h] \in 1 .. Len(request[h].items) + 1
      /\ request[h].project \in DOMAIN projects
  BY DEF HandlersKnow
<1>2. pos[h] \in 1 .. Len(request[h].items)
  BY <1>1, IngestAssumption
<1>3. QED
  BY <1>1, <1>2, ItemFacts DEF CurrentItem

(* Notices, reports and openings are about events handlers were at. *)
LEMMA TypedStep ==
  ASSUME HandlersKnow, StoreSound, CountsPositive, Typed, [Next]_vars
  PROVE  Typed'
<1>1. ASSUME NEW h \in Handlers, SaveEvent(h)
      PROVE  Typed'
  <2> DEFINE p == request[h].project
             e == CurrentItem(h).event_id
             result == Saved(p, e, CurrentItem(h).fingerprint)
  <2>1. p \in Projects /\ e \in EventIds
    BY <1>1, CurrentEvent DEF SaveEvent
  <2>2. /\ openings' = openings \/ openings' = openings \cup {<<p, e>>}
        /\ report' = report \/ report' = [report EXCEPT ![h] = result]
        /\ UNCHANGED <<acked, notices, crashes>>
    BY <1>1, Zenon DEF SaveEvent
  <2>3. result \in [isNew : BOOLEAN, isRegression : BOOLEAN]
    BY DEF Saved, Store!IsNew, Store!IsRegression
  <2> HIDE DEF p, e, result
  <2>4. QED
    BY <2>1, <2>2, <2>3 DEF Typed
<1>2. ASSUME NEW h \in Handlers, Notify(h)
      PROVE  Typed'
  <2>1. /\ request[h].project \in Projects
        /\ CurrentItem(h).event_id \in EventIds
    BY <1>2, CurrentEvent DEF Notify, HandlersKnow
  <2> DEFINE notice(i, count) ==
        [project |-> request[h].project, event_id |-> CurrentItem(h).event_id,
         issue |-> i, isNew |-> report[h].isNew,
         isRegression |-> report[h].isRegression, eventCount |-> count]
  <2>2. PICK i, count :
          /\ i \in Store!IssuesOf(request[h].project, CurrentItem(h).fingerprint)
          /\ count \in {issues[i].event_count, 1}
          /\ notices' = notices \cup {notice(i, count)}
    BY <1>2, Zenon DEF Notify
  <2>3. i \in IssueIds /\ count \in Nat \ {0}
    BY <2>2 DEF Store!IssuesOf, StoreSound, Store!TypeOK, CountsPositive
  <2>4. /\ report[h].isNew \in BOOLEAN
        /\ report[h].isRegression \in BOOLEAN
    BY DEF Typed
  <2>5. notice(i, count) \in [project : Projects, event_id : EventIds,
                              issue : IssueIds, isNew : BOOLEAN,
                              isRegression : BOOLEAN, eventCount : Nat \ {0}]
    BY <2>1, <2>3, <2>4
  <2>6. /\ report' = [report EXCEPT ![h] = Quiet]
        /\ UNCHANGED <<acked, openings, crashes>>
    BY <1>2 DEF Notify
  <2> HIDE DEF notice
  <2>7. QED
    BY <2>2, <2>5, <2>6 DEF Typed, Quiet
<1>3. ASSUME NEW h \in Handlers, Reply(h)
      PROVE  Typed'
  <2>1. request[h] \in Envelopes
    BY <1>3 DEF Reply, HandlersKnow
  <2>2. QED
    BY <1>3, <2>1 DEF Reply, Typed
<1>4. CASE Crash
  BY <1>4, IngestAssumption DEF Crash, Typed, Quiet
<1>5. CASE UNCHANGED <<report, acked, notices, openings, crashes>>
  BY <1>5 DEF Typed
<1>6. QED
  BY <1>1, <1>2, <1>3, <1>4, <1>5 DEF Next, Progress, Accept, EnsureProject, SkipItem,
     Fail, Background, setIssueStatus, runOnce, locals, vars

(* Type correctness of the handlers, the store under them and the alerts. *)
THEOREM TypeCorrect == Spec => []TypeOK
<1>1. Init => CountsPositive /\ Typed
  BY IngestAssumption DEF Init, Store!Init, CountsPositive, Typed, Quiet
<1>2. HandlersKnow /\ StoreSound /\ CountsPositive /\ Typed /\ [Next]_vars
        => CountsPositive' /\ Typed'
  BY StepOfStore, CountsPositiveStep, TypedStep
<1>3. HandlersKnow /\ StoreSound /\ Typed => TypeOK
  BY DEF HandlersKnow, StoreSound, Typed, TypeOK
<1>4. QED
  BY <1>1, <1>2, <1>3, KnowledgeHolds, SoundHolds, PTL DEF Spec
-------------------------------------------------------------------------------
(* The events SDKs have for an issue, and those of them stored for it. *)
OccurrencesOf(issue) == UNION {Occurrences(env, issue) : env \in Envelopes}

IdsOf(i) == {ev.event_id : ev \in Store!EventsOf(i)}

(* Whatever is stored for an issue came in an envelope, for that issue. *)
EventsExplained ==
  \A ev \in events :
    /\ ev.issue \in DOMAIN issues
    /\ issues[ev.issue].project = ev.project
    /\ ev.event_id \in OccurrencesOf(issues[ev.issue])

(* Until retention deletes, the count is that of the events still there. *)
CountsBounded ==
  now < Retention =>
    \A i \in DOMAIN issues : issues[i].event_count <= Cardinality(IdsOf(i))

(* An envelope holds finitely many events, and so do finitely many. *)
LEMMA OccurrencesFinite ==
  ASSUME IsFiniteSet(Envelopes), NEW issue
  PROVE  IsFiniteSet(OccurrencesOf(issue))
<1>1. ASSUME NEW env \in Envelopes
      PROVE  IsFiniteSet(Occurrences(env, issue))
  <2> DEFINE S == {n \in EventItems(env) : /\ env.project = issue.project
                                           /\ env.items[n].fingerprint = issue.fingerprint}
             g == [m \in S |-> env.items[m].event_id]
  <2>1. S \subseteq 1 .. Len(env.items) /\ Len(env.items) \in Nat
    BY IngestAssumption DEF EventItems
  <2>2. IsFiniteSet(S)
    <3>1. IsFiniteSet(1 .. Len(env.items))
      BY <2>1, FS_Interval
    <3> HIDE DEF S
    <3>2. QED
      BY <2>1, <3>1, FS_Subset
  <2>3. Occurrences(env, issue) = {env.items[m].event_id : m \in S}
    BY DEF Occurrences
  <2>4. g \in Surjection(S, Occurrences(env, issue))
    BY <2>3 DEF Surjection
  <2> HIDE DEF S, g
  <2>5. QED
    BY <2>2, <2>4, FS_Surjection
<1> DEFINE T == {Occurrences(env, issue) : env \in Envelopes}
           g == [env \in Envelopes |-> Occurrences(env, issue)]
<1>2. g \in Surjection(Envelopes, T)
  BY DEF Surjection
<1>3. \A U \in T : IsFiniteSet(U)
  BY <1>1
<1>4. OccurrencesOf(issue) = UNION T
  BY DEF OccurrencesOf
<1> HIDE DEF T, g
<1>5. IsFiniteSet(T)
  BY <1>2, FS_Surjection
<1>6. QED
  BY <1>3, <1>4, <1>5, FS_UNION

(* The stored events of an issue are among those, so there is no end of them. *)
LEMMA IdsFinite ==
  ASSUME IsFiniteSet(Envelopes), EventsExplained, NEW i \in IssueIds
  PROVE  /\ IdsOf(i) \subseteq OccurrencesOf(issues[i])
         /\ IsFiniteSet(IdsOf(i))
<1>1. IdsOf(i) \subseteq OccurrencesOf(issues[i])
  BY DEF IdsOf, Store!EventsOf, EventsExplained
<1>2. QED
  BY <1>1, OccurrencesFinite, FS_Subset

(* A step that adds no event and no occurrence, and keeps the issues'       *)
(* identity, keeps both.                                                    *)
LEMMA CountsUnmoved ==
  ASSUME EventsExplained, CountsBounded, StoreSound,
         DOMAIN issues' = DOMAIN issues,
         \A i \in DOMAIN issues : /\ issues'[i].project = issues[i].project
                                  /\ issues'[i].fingerprint = issues[i].fingerprint
                                  /\ issues'[i].event_count = issues[i].event_count,
         events' \subseteq events,
         now' < Retention => now < Retention /\ events' = events
  PROVE  EventsExplained' /\ CountsBounded'
<1>1. \A i \in DOMAIN issues : OccurrencesOf(issues'[i]) = OccurrencesOf(issues[i])
  BY DEF OccurrencesOf, Occurrences
<1>2. EventsExplained'
  BY <1>1 DEF EventsExplained, OccurrencesOf, Occurrences
<1>3. ASSUME now' < Retention
      PROVE  \A i \in DOMAIN issues' : issues'[i].event_count <= Cardinality(IdsOf(i)')
  <2>1. now < Retention /\ events' = events
    BY <1>3
  <2>2. \A i : IdsOf(i)' = IdsOf(i)
    BY <2>1 DEF IdsOf, Store!EventsOf
  <2>3. QED
    BY <2>1, <2>2 DEF CountsBounded
<1>4. QED
  BY <1>2, <1>3 DEF CountsBounded

(* The existence check lets an event through once: its id is not yet among  *)
(* those of the issue whose count it moves.                                 *)
LEMMA CountsSave ==
  ASSUME IsFiniteSet(Envelopes), EventsExplained, CountsBounded, StoreSound,
         NEW env \in Envelopes, NEW m \in EventItems(env),
         env.project \in DOMAIN projects,
         Store!SaveOccurrence(env.project, env.items[m].event_id, env.items[m].fingerprint),
         now' = now
  PROVE  EventsExplained' /\ CountsBounded'
<1> DEFINE p == env.project
           e == env.items[m].event_id
           f == env.items[m].fingerprint
<1>1. /\ e \in EventIds /\ f \in Fingerprints /\ p \in DOMAIN projects
      /\ Store!SaveOccurrence(p, e, f)
  <2>1. m \in 1 .. Len(env.items) /\ env.items[m].type = "event"
    BY IngestAssumption DEF EventItems
  <2>2. QED
    BY <2>1, ItemFacts
<1> HIDE DEF p, e, f
<1>2. PICK id \in IssueIds :
        /\ issues' = [i \in DOMAIN issues \cup {id} |-> issues'[i]]
        /\ \A i \in DOMAIN issues : i # id => issues'[i] = issues[i]
        /\ issues'[id] \in Store!Issue
        /\ issues'[id].project = p /\ issues'[id].fingerprint = f
        /\ id \in DOMAIN issues => Store!IssuesOf(p, f) = {id}
        /\ events' = events \cup {[project |-> p, event_id |-> e, issue |-> id,
                                   received_at |-> now]}
        /\ issues'[id].event_count =
             IF id \in DOMAIN issues THEN issues[id].event_count + 1 ELSE 1
  BY <1>1, OccurrenceFacts
<1>3. DOMAIN issues' = DOMAIN issues \cup {id}
  BY <1>2
<1>4. id \in DOMAIN issues => issues[id].project = p /\ issues[id].fingerprint = f
  BY <1>2 DEF Store!IssuesOf
<1>5. \A i \in DOMAIN issues : /\ issues'[i].project = issues[i].project
                               /\ issues'[i].fingerprint = issues[i].fingerprint
  BY <1>2, <1>4
<1>6. \A i \in DOMAIN issues : OccurrencesOf(issues'[i]) = OccurrencesOf(issues[i])
  BY <1>5 DEF OccurrencesOf, Occurrences
<1>7. e \in OccurrencesOf(issues'[id])
  BY <1>2 DEF OccurrencesOf, Occurrences, p, e, f
<1>8. EventsExplained'
  <2> DEFINE row == [project |-> p, event_id |-> e, issue |-> id, received_at |-> now]
  <2>1. ASSUME NEW ev \in events
        PROVE  /\ ev.issue \in DOMAIN issues'
               /\ issues'[ev.issue].project = ev.project
               /\ ev.event_id \in OccurrencesOf(issues'[ev.issue])
    BY <1>3, <1>5, <1>6 DEF EventsExplained
  <2>2. row.issue = id /\ row.project = p /\ row.event_id = e
    OBVIOUS
  <2>3. events' = events \cup {row}
    BY <1>2
  <2> HIDE DEF row
  <2>4. \A ev \in events' : /\ ev.issue \in DOMAIN issues'
                            /\ issues'[ev.issue].project = ev.project
                            /\ ev.event_id \in OccurrencesOf(issues'[ev.issue])
    BY <1>2, <1>3, <1>7, <2>1, <2>2, <2>3
  <2>5. QED
    BY <2>4 DEF EventsExplained, OccurrencesOf, Occurrences
<1>9. \A i : IdsOf(i)' = IF i = id THEN IdsOf(id) \cup {e} ELSE IdsOf(i)
  <2> DEFINE row == [project |-> p, event_id |-> e, issue |-> id, received_at |-> now]
  <2>1. row.issue = id /\ row.event_id = e /\ events' = events \cup {row}
    BY <1>2
  <2> HIDE DEF row
  <2>2. QED
    BY <2>1 DEF IdsOf, Store!EventsOf
<1>10. e \notin IdsOf(id)
  <2>1. \A ev \in events : ~ (ev.project = p /\ ev.event_id = e)
    BY <1>1 DEF Store!SaveOccurrence, Store!Stored
  <2>2. \A ev \in events : ev.issue = id => ev.project = p
    BY <1>4 DEF EventsExplained
  <2>3. QED
    BY <2>1, <2>2 DEF IdsOf, Store!EventsOf
<1>11. IsFiniteSet(IdsOf(id)) /\ Cardinality(IdsOf(id)) \in Nat
  BY IdsFinite, FS_CardinalityType
<1>12. Cardinality(IdsOf(id) \cup {e}) = Cardinality(IdsOf(id)) + 1
  BY <1>10, <1>11, FS_AddElement
<1>13. ASSUME now' < Retention, NEW i \in DOMAIN issues'
       PROVE  issues'[i].event_count <= Cardinality(IdsOf(i)')
  <2>1. \A j \in DOMAIN issues : issues[j].event_count <= Cardinality(IdsOf(j))
    BY <1>13 DEF CountsBounded
  <2>2. CASE i # id
    BY <1>2, <1>3, <1>9, <2>1, <2>2
  <2>3. CASE i = id /\ id \in DOMAIN issues
    <3>1. issues[id].event_count \in Nat
      BY <2>3 DEF StoreSound, Store!TypeOK, Store!Issue
    <3>2. issues'[id].event_count = issues[id].event_count + 1
      BY <1>2, <2>3
    <3>3. IdsOf(i)' = IdsOf(id) \cup {e}
      BY <1>9, <2>3
    <3>4. issues[id].event_count <= Cardinality(IdsOf(id))
      BY <2>1, <2>3
    <3>5. QED
      BY <1>11, <1>12, <2>3, <3>1, <3>2, <3>3, <3>4
  <2>4. CASE i = id /\ id \notin DOMAIN issues
    <3>1. issues'[id].event_count = 1
      BY <1>2, <2>4
    <3>2. IdsOf(i)' = IdsOf(id) \cup {e}
      BY <1>9, <2>4
    <3>3. QED
      BY <1>11, <1>12, <2>4, <3>1, <3>2
  <2>5. QED
    BY <1>3, <2>2, <2>3, <2>4
<1>14. QED
  BY <1>8, <1>13 DEF CountsBounded

(* Every step of the server keeps the counts within the events stored. *)
LEMMA CountsStep ==
  ASSUME HandlersKnow, StoreSound, EventsExplained, CountsBounded, [Next]_vars,
         IsFiniteSet(Envelopes), Store!StoreAssumption, ZoneOffset <= 0
  PROVE  EventsExplained' /\ CountsBounded'
<1>1. ASSUME NEW h \in Handlers, SaveEvent(h),
             ~ Store!SaveDuplicate(request[h].project, CurrentItem(h).event_id)
      PROVE  EventsExplained' /\ CountsBounded'
  <2>1. /\ request[h] \in Envelopes /\ pos[h] \in 1 .. Len(request[h].items)
        /\ request[h].project \in DOMAIN projects
        /\ CurrentItem(h).type = "event"
    BY <1>1, CurrentEvent DEF SaveEvent
  <2>2. pos[h] \in EventItems(request[h])
    BY <2>1, IngestAssumption DEF EventItems, CurrentItem
  <2>3. /\ Store!SaveOccurrence(request[h].project, request[h].items[pos[h]].event_id,
                                request[h].items[pos[h]].fingerprint)
        /\ now' = now
    BY <1>1 DEF SaveEvent, Store!SaveEvent, CurrentItem
  <2>4. QED
    BY <2>1, <2>2, <2>3, CountsSave
<1>2. ASSUME UNCHANGED <<now, issues, events>>
      PROVE  EventsExplained' /\ CountsBounded'
  BY <1>2, CountsUnmoved
<1>3. CASE Background
  <2>1. ASSUME NEW p \in DOMAIN projects, NEW id \in IssueIds,
               NEW status \in Store!IssueStatus, Store!SetIssueStatus(p, id, status)
        PROVE  EventsExplained' /\ CountsBounded'
    <3>1. /\ DOMAIN issues' = DOMAIN issues
          /\ \A i \in DOMAIN issues : /\ issues'[i].project = issues[i].project
                                      /\ issues'[i].fingerprint = issues[i].fingerprint
                                      /\ issues'[i].event_count = issues[i].event_count
          /\ UNCHANGED <<now, events>>
      BY <2>1 DEF Store!SetIssueStatus, StoreSound, Store!TypeOK, Store!Issue
    <3>2. QED
      BY <3>1, CountsUnmoved
  <2>2. now \in Nat /\ \A ev \in events : ev.received_at \in Nat
    BY DEF StoreSound, Store!TypeOK, Store!Event
  <2>3. Retention \in Nat /\ ZoneOffset \in Int
    BY DEF Store!StoreAssumption
  <2>4. CASE Store!DeleteOldEvents
    <3>1. UNCHANGED <<now, issues>> /\ events' \subseteq events
      BY <2>4 DEF Store!DeleteOldEvents
    <3>2. now < Retention => events' = events
      BY <2>2, <2>3, <2>4 DEF Store!DeleteOldEvents, Store!Cutoff
    <3>3. QED
      BY <3>1, <3>2, CountsUnmoved
  <2>5. CASE Store!Tick
    <3>1. now' = now + 1 /\ UNCHANGED <<issues, events>>
      BY <2>5 DEF Store!Tick
    <3>2. now' < Retention => now < Retention
      BY <2>2, <2>3, <3>1
    <3>3. QED
      BY <3>1, <3>2, CountsUnmoved
  <2>6. QED
    BY <1>3, <2>1, <2>4, <2>5 DEF Background, setIssueStatus, runOnce
<1>4. ASSUME NEW h \in Handlers, SaveEvent(h),
             Store!SaveDuplicate(request[h].project, CurrentItem(h).event_id)
      PROVE  UNCHANGED <<now, issues, events>>
  BY <1>4 DEF SaveEvent, Store!SaveEvent, Store!SaveDuplicate
<1>5. QED
  BY <1>1, <1>2, <1>3, <1>4 DEF Next, Progress, Accept, EnsureProject,
     Store!EnsureProject, SkipItem, Notify, Reply, Fail, Crash, vars, store

(* However often an envelope is sent and by how many handlers its copies are *)
(* served at once, an issue counts each event the SDKs have for it at most   *)
(* once, until retention deletes: from then on an event sent again is a new  *)
(* one, and east of UTC that is so before its time.                          *)
THEOREM CountedOnce ==
  ASSUME Store!StoreAssumption, ZoneOffset <= 0, IsFiniteSet(Envelopes)
  PROVE  Spec => []EachEventCountedOnce
<1>1. Init => EventsExplained /\ CountsBounded
  BY DEF Init, Store!Init, EventsExplained, CountsBounded
<1>2. HandlersKnow /\ StoreSound /\ EventsExplained /\ CountsBounded /\ [Next]_vars
        => EventsExplained' /\ CountsBounded'
  BY CountsStep
<1>3. StoreSound /\ EventsExplained /\ CountsBounded => EachEventCountedOnce
  <2> SUFFICES ASSUME StoreSound, EventsExplained, CountsBounded, now < Retention,
                      NEW i \in DOMAIN issues
               PROVE  issues[i].event_count <= Cardinality(OccurrencesOf(issues[i]))
    BY DEF EachEventCountedOnce, OccurrencesOf
  <2>1. i \in IssueIds /\ issues[i].event_count \in Nat
    BY DEF StoreSound, Store!TypeOK, Store!Issue
  <2>2. /\ IdsOf(i) \subseteq OccurrencesOf(issues[i])
        /\ IsFiniteSet(IdsOf(i)) /\ IsFiniteSet(OccurrencesOf(issues[i]))
    BY <2>1, IdsFinite, OccurrencesFinite
  <2>3. /\ Cardinality(IdsOf(i)) <= Cardinality(OccurrencesOf(issues[i]))
        /\ Cardinality(IdsOf(i)) \in Nat
        /\ Cardinality(OccurrencesOf(issues[i])) \in Nat
    BY <2>2, FS_Subset, FS_CardinalityType
  <2>4. issues[i].event_count <= Cardinality(IdsOf(i))
    BY DEF CountsBounded
  <2>5. QED
    BY <2>1, <2>3, <2>4
<1>4. QED
  BY <1>1, <1>2, <1>3, KnowledgeHolds, SoundHolds, PTL DEF Spec
===============================================================================
