--------------------------- MODULE IssueStoreProofs ---------------------------
(***************************************************************************)
(* The safety invariants of IssueStore, for every set of projects, event   *)
(* ids and fingerprints, any retention, any zone offset and any clock      *)
(* bound.  They are inductive only together: the upsert keeps one issue    *)
(* per fingerprint because event rows and issue rows agree, and a count    *)
(* covers its events because no event row is attached to a missing issue.  *)
(***************************************************************************)
EXTENDS IssueStore, FiniteSetTheorems, TLAPS

SeenInPast ==
  \A i \in DOMAIN issues :
    issues[i].first_seen <= now /\ issues[i].last_seen <= now

IInv ==
  /\ TypeOK
  /\ OneIssuePerFingerprint
  /\ EventsBelongToIssues
  /\ EventsUnique
  /\ SeenWindow
  /\ SeenInPast
  /\ IsFiniteSet(events)
  /\ StoredEventsCounted

-------------------------------------------------------------------------------
(* The empty database satisfies the inductive invariant. *)
LEMMA InitIInv == Init => IInv
  BY FS_EmptySet DEF Init, IInv, TypeOK, OneIssuePerFingerprint,
     EventsBelongToIssues, EventsUnique, SeenWindow, SeenInPast,
     StoredEventsCounted

(* What SaveEvent does to a row: the issue of the event it inserts exists   *)
(* afterwards with a count one higher, and no other issue is touched.       *)
LEMMA UpsertFacts ==
  ASSUME TypeOK, NEW p \in Projects, NEW f \in Fingerprints,
         NEW id \in UpsertIds(p, f), UpsertIssue(id, p, f)
  PROVE  /\ id \in IssueIds
         /\ DOMAIN issues' = DOMAIN issues \cup {id}
         /\ \A i \in DOMAIN issues : i # id => issues'[i] = issues[i]
         /\ id \in DOMAIN issues => /\ IssuesOf(p, f) # {}
                                    /\ id \in IssuesOf(p, f)
                                    /\ issues'[id] = Recurrence(issues[id])
         /\ id \notin DOMAIN issues => /\ IssuesOf(p, f) = {}
                                       /\ issues'[id] = NewIssue(p, f)
  BY DEF TypeOK, UpsertIds, UpsertIssue, IssuesOf

(* The row a recurrence leaves: same project and fingerprint, count and     *)
(* last_seen moved on.                                                      *)
LEMMA RecurrenceFacts ==
  ASSUME NEW issue \in Issue, now \in Nat
  PROVE  /\ Recurrence(issue) \in Issue
         /\ Recurrence(issue).project = issue.project
         /\ Recurrence(issue).fingerprint = issue.fingerprint
         /\ Recurrence(issue).event_count = issue.event_count + 1
         /\ Recurrence(issue).first_seen = issue.first_seen
         /\ Recurrence(issue).last_seen = now
         /\ Recurrence(issue).status = StatusAfterEvent(issue.status)
<1>1. issue.status \in IssueStatus /\ issue.event_count \in Nat
  BY DEF Issue
<1>2. StatusAfterEvent(issue.status) \in IssueStatus
  BY <1>1 DEF StatusAfterEvent, IssueStatus
<1>3. issue.event_count + 1 \in Nat
  BY <1>1
<1>4. Recurrence(issue) \in Issue
  BY <1>2, <1>3 DEF Recurrence, Issue
<1>5. QED
  BY <1>4 DEF Recurrence, Issue

(* The row a first occurrence inserts. *)
LEMMA NewIssueFacts ==
  ASSUME NEW p \in Projects, NEW f \in Fingerprints, now \in Nat
  PROVE  /\ NewIssue(p, f) \in Issue
         /\ NewIssue(p, f).project = p
         /\ NewIssue(p, f).fingerprint = f
         /\ NewIssue(p, f).event_count = 1
         /\ NewIssue(p, f).first_seen = now
         /\ NewIssue(p, f).last_seen = now
  BY DEF NewIssue, Issue, IssueStatus

-------------------------------------------------------------------------------
(* Storing a new event preserves the invariant. *)
LEMMA OccurrenceStep ==
  ASSUME IInv, NEW p \in DOMAIN projects, NEW e \in EventIds,
         NEW f \in Fingerprints, SaveOccurrence(p, e, f),
         UNCHANGED <<now, projects>>
  PROVE  IInv'
<1>1. PICK id \in UpsertIds(p, f) : UpsertIssue(id, p, f) /\ InsertEvent(p, e, id)
  BY DEF SaveOccurrence
<1> DEFINE row == [project |-> p, event_id |-> e, issue |-> id, received_at |-> now]
<1>2. p \in Projects /\ now \in Nat /\ TypeOK
  BY DEF IInv, TypeOK
<1>3. /\ id \in IssueIds
      /\ DOMAIN issues' = DOMAIN issues \cup {id}
      /\ \A i \in DOMAIN issues : i # id => issues'[i] = issues[i]
      /\ id \in DOMAIN issues => /\ id \in IssuesOf(p, f)
                                 /\ issues'[id] = Recurrence(issues[id])
      /\ id \notin DOMAIN issues => /\ IssuesOf(p, f) = {}
                                    /\ issues'[id] = NewIssue(p, f)
  BY <1>1, <1>2, UpsertFacts
<1>4. events' = events \cup {row}
  BY <1>1 DEF InsertEvent
<1>5. row \in Event /\ row \notin events
  BY <1>2, <1>3 DEF Event, SaveOccurrence, Stored
<1>6. \A i \in DOMAIN issues : issues[i] \in Issue
  BY <1>2 DEF TypeOK
<1>7. id \in DOMAIN issues =>
        /\ issues'[id] \in Issue
        /\ issues'[id].project = issues[id].project
        /\ issues'[id].fingerprint = issues[id].fingerprint
        /\ issues'[id].event_count = issues[id].event_count + 1
        /\ issues'[id].first_seen = issues[id].first_seen
        /\ issues'[id].last_seen = now
  BY <1>2, <1>3, <1>6, RecurrenceFacts
<1>8. id \notin DOMAIN issues =>
        /\ issues'[id] \in Issue
        /\ issues'[id].project = p
        /\ issues'[id].fingerprint = f
        /\ issues'[id].event_count = 1
        /\ issues'[id].first_seen = now
        /\ issues'[id].last_seen = now
  BY <1>2, <1>3, NewIssueFacts
<1>9. issues'[id].project = p /\ issues'[id].fingerprint = f
  BY <1>3, <1>7, <1>8 DEF IssuesOf
<1>10. TypeOK'
  <2>1. \A i \in DOMAIN issues' : issues'[i] \in Issue
    BY <1>3, <1>6, <1>7, <1>8
  <2>2. issues' = [i \in DOMAIN issues' |-> issues'[i]]
    BY <1>1 DEF UpsertIssue
  <2>3. events' \in SUBSET Event
    BY <1>2, <1>4, <1>5 DEF TypeOK
  <2>4. DOMAIN issues' \subseteq IssueIds
    BY <1>2, <1>3 DEF TypeOK
  <2>5. QED
    BY <2>1, <2>2, <2>3, <2>4, <1>2 DEF TypeOK
<1>11. OneIssuePerFingerprint'
  BY <1>3, <1>7, <1>9 DEF IInv, OneIssuePerFingerprint, IssuesOf
<1>12. EventsBelongToIssues'
  BY <1>3, <1>4, <1>7, <1>9 DEF IInv, EventsBelongToIssues
<1>13. EventsUnique'
  BY <1>4 DEF IInv, EventsUnique, SaveOccurrence, Stored
<1>14. SeenWindow' /\ SeenInPast'
  <2>1. \A ev \in events : ev.issue \in DOMAIN issues /\ ev.received_at \in Nat
    BY <1>2 DEF IInv, EventsBelongToIssues, TypeOK, Event
  <2>2. \A i \in DOMAIN issues : /\ issues[i].first_seen \in Nat
                                 /\ issues[i].last_seen \in Nat
    BY <1>6 DEF Issue
  <2>3. \A i \in DOMAIN issues' : /\ issues'[i].first_seen <= now
                                  /\ issues'[i].last_seen <= now
    BY <1>2, <1>3, <1>7, <1>8 DEF IInv, SeenInPast
  <2>4. \A ev \in events : ev.issue # id =>
          /\ issues'[ev.issue].first_seen <= ev.received_at
          /\ ev.received_at <= issues'[ev.issue].last_seen
    BY <2>1, <1>3 DEF IInv, SeenWindow
  <2>5. \A ev \in events : ev.issue = id =>
          /\ issues'[id].first_seen <= ev.received_at
          /\ ev.received_at <= issues'[id].last_seen
    BY <2>1, <2>2, <1>2, <1>7 DEF IInv, SeenWindow, SeenInPast
  <2>6. /\ issues'[row.issue].first_seen <= row.received_at
        /\ row.received_at <= issues'[row.issue].last_seen
    BY <2>3, <1>2, <1>3, <1>7, <1>8
  <2>7. SeenWindow'
    BY <2>4, <2>5, <2>6, <1>4 DEF SeenWindow
  <2>8. QED
    BY <2>3, <2>7 DEF SeenInPast
<1>15. IsFiniteSet(events')
  BY <1>4, FS_AddElement DEF IInv
<1>16. StoredEventsCounted'
  <2>1. ASSUME NEW i \in DOMAIN issues', i # id
        PROVE  Cardinality(EventsOf(i)') <= issues'[i].event_count
    <3>1. EventsOf(i)' = EventsOf(i) /\ i \in DOMAIN issues
      BY <2>1, <1>3, <1>4 DEF EventsOf
    <3>2. QED
      BY <3>1, <2>1, <1>3 DEF IInv, StoredEventsCounted
  <2>2. EventsOf(id)' = EventsOf(id) \cup {row} /\ row \notin EventsOf(id)
    BY <1>4, <1>5 DEF EventsOf
  <2>3. IsFiniteSet(EventsOf(id))
    BY FS_Subset DEF IInv, EventsOf
  <2>4. /\ Cardinality(EventsOf(id)) \in Nat
        /\ Cardinality(EventsOf(id)') = Cardinality(EventsOf(id)) + 1
    BY <2>2, <2>3, FS_AddElement, FS_CardinalityType
  <2>5. CASE id \in DOMAIN issues
    <3>1. Cardinality(EventsOf(id)) <= issues[id].event_count
      BY <2>5 DEF IInv, StoredEventsCounted
    <3>2. issues[id].event_count \in Nat
      BY <2>5, <1>6 DEF Issue
    <3>3. Cardinality(EventsOf(id)') <= issues'[id].event_count
      BY <3>1, <3>2, <2>4, <2>5, <1>7
    <3>4. QED
      BY <3>3, <2>1 DEF StoredEventsCounted
  <2>6. CASE id \notin DOMAIN issues
    <3>1. EventsOf(id) = {}
      BY <2>6 DEF IInv, EventsBelongToIssues, EventsOf
    <3>2. Cardinality(EventsOf(id)') <= issues'[id].event_count
      BY <3>1, <2>4, <2>6, <1>8, FS_EmptySet
    <3>3. QED
      BY <3>2, <2>1 DEF StoredEventsCounted
  <2>7. QED
    BY <2>5, <2>6
<1>17. QED
  BY <1>10, <1>11, <1>12, <1>13, <1>14, <1>15, <1>16 DEF IInv

(* An operator's resolve, ignore or reopen preserves the invariant. *)
LEMMA StatusStep ==
  ASSUME IInv, NEW p \in DOMAIN projects, NEW id \in IssueIds,
         NEW status \in IssueStatus, SetIssueStatus(p, id, status)
  PROVE  IInv'
<1>1. /\ id \in DOMAIN issues
      /\ issues' = [issues EXCEPT ![id].status = status]
      /\ UNCHANGED <<now, projects, events>>
  BY DEF SetIssueStatus
<1>2. TypeOK /\ DOMAIN issues' = DOMAIN issues
  BY <1>1 DEF IInv, TypeOK
<1>3. \A i \in DOMAIN issues :
        /\ issues'[i] \in Issue
        /\ issues'[i].project = issues[i].project
        /\ issues'[i].fingerprint = issues[i].fingerprint
        /\ issues'[i].event_count = issues[i].event_count
        /\ issues'[i].first_seen = issues[i].first_seen
        /\ issues'[i].last_seen = issues[i].last_seen
  BY <1>1, <1>2 DEF TypeOK, Issue
<1>4. TypeOK'
  BY <1>1, <1>2, <1>3 DEF TypeOK
<1>5. OneIssuePerFingerprint' /\ EventsBelongToIssues' /\ EventsUnique'
  BY <1>1, <1>2, <1>3
     DEF IInv, OneIssuePerFingerprint, EventsBelongToIssues, EventsUnique
<1>6. SeenWindow' /\ SeenInPast'
  BY <1>1, <1>2, <1>3 DEF IInv, SeenWindow, SeenInPast, EventsBelongToIssues
<1>7. IsFiniteSet(events') /\ StoredEventsCounted'
  BY <1>1, <1>2, <1>3 DEF IInv, StoredEventsCounted, EventsOf
<1>8. QED
  BY <1>4, <1>5, <1>6, <1>7 DEF IInv

(* Pruning preserves the invariant: it only takes event rows away, and a    *)
(* count that covered them still covers those left.                         *)
LEMMA PruneStep ==
  ASSUME IInv, DeleteOldEvents
  PROVE  IInv'
<1>1. events' \subseteq events /\ UNCHANGED <<now, projects, issues>>
  BY DEF DeleteOldEvents
<1>2. TypeOK' /\ OneIssuePerFingerprint' /\ EventsBelongToIssues' /\ EventsUnique'
  BY <1>1 DEF IInv, TypeOK, OneIssuePerFingerprint, EventsBelongToIssues,
              EventsUnique
<1>3. SeenWindow' /\ SeenInPast'
  BY <1>1 DEF IInv, SeenWindow, SeenInPast
<1>4. IsFiniteSet(events')
  BY <1>1, FS_Subset DEF IInv
<1>5. StoredEventsCounted'
  <2>1. SUFFICES ASSUME NEW i \in DOMAIN issues
                 PROVE  Cardinality(EventsOf(i)') <= issues[i].event_count
    BY <1>1 DEF StoredEventsCounted
  <2>2. EventsOf(i)' \subseteq EventsOf(i) /\ IsFiniteSet(EventsOf(i))
    BY <1>1, FS_Subset DEF IInv, EventsOf
  <2>3. /\ Cardinality(EventsOf(i)') <= Cardinality(EventsOf(i))
        /\ Cardinality(EventsOf(i)') \in Nat
        /\ Cardinality(EventsOf(i)) \in Nat
    BY <2>2, FS_Subset, FS_CardinalityType
  <2>4. /\ Cardinality(EventsOf(i)) <= issues[i].event_count
        /\ issues[i].event_count \in Nat
    BY DEF IInv, StoredEventsCounted, TypeOK, Issue
  <2>5. QED
    BY <2>3, <2>4
<1>6. QED
  BY <1>2, <1>3, <1>4, <1>5 DEF IInv

(* Creating a project, or finding it, preserves the invariant. *)
LEMMA EnsureProjectStep ==
  ASSUME IInv, NEW p \in Projects, NEW key \in Keys, EnsureProject(p, key)
  PROVE  IInv'
<1>1. /\ DOMAIN projects' = DOMAIN projects \cup {p}
      /\ UNCHANGED <<now, issues, events>>
  BY DEF EnsureProject
<1>2. TypeOK'
  BY <1>1 DEF IInv, TypeOK, EnsureProject
<1>3. EventsBelongToIssues'
  BY <1>1 DEF IInv, EventsBelongToIssues
<1>4. QED
  BY <1>1, <1>2, <1>3 DEF IInv, OneIssuePerFingerprint, EventsUnique, SeenWindow,
                          SeenInPast, StoredEventsCounted, EventsOf

(* The passing of time preserves the invariant. *)
LEMMA TickStep ==
  ASSUME IInv, Tick
  PROVE  IInv'
<1>1. now' = now + 1 /\ now \in Nat /\ UNCHANGED <<projects, issues, events>>
  BY DEF Tick, IInv, TypeOK
<1>2. \A i \in DOMAIN issues : /\ issues[i].first_seen \in Nat
                               /\ issues[i].last_seen \in Nat
  BY DEF IInv, TypeOK, Issue
<1>3. TypeOK' /\ SeenInPast'
  BY <1>1, <1>2 DEF IInv, TypeOK, SeenInPast
<1>4. QED
  BY <1>1, <1>3 DEF IInv, OneIssuePerFingerprint, EventsBelongToIssues,
                    EventsUnique, SeenWindow, StoredEventsCounted, EventsOf

-------------------------------------------------------------------------------
(* Every step of the store preserves the inductive invariant. *)
LEMMA NextIInv == IInv /\ [Next]_vars => IInv'
<1> SUFFICES ASSUME IInv, [Next]_vars
             PROVE  IInv'
  OBVIOUS
<1>1. CASE Tick
  BY <1>1, TickStep
<1>2. ASSUME NEW p \in Projects, NEW key \in Keys, EnsureProject(p, key)
      PROVE  IInv'
  BY <1>2, EnsureProjectStep
<1>3. ASSUME NEW p \in DOMAIN projects, NEW e \in EventIds,
             NEW f \in Fingerprints, SaveEvent(p, e, f)
      PROVE  IInv'
  <2>1. CASE SaveOccurrence(p, e, f)
    BY <1>3, <2>1, OccurrenceStep DEF SaveEvent
  <2>2. CASE SaveDuplicate(p, e)
    BY <1>3, <2>2 DEF SaveEvent, SaveDuplicate, IInv, TypeOK,
       OneIssuePerFingerprint, EventsBelongToIssues, EventsUnique, SeenWindow,
       SeenInPast, StoredEventsCounted, EventsOf
  <2>3. QED
    BY <1>3, <2>1, <2>2 DEF SaveEvent
<1>4. ASSUME NEW p \in DOMAIN projects, NEW id \in IssueIds,
             NEW status \in IssueStatus, SetIssueStatus(p, id, status)
      PROVE  IInv'
  BY <1>4, StatusStep
<1>5. CASE DeleteOldEvents
  BY <1>5, PruneStep
<1>6. CASE UNCHANGED vars
  BY <1>6 DEF vars, IInv, TypeOK, OneIssuePerFingerprint, EventsBelongToIssues,
     EventsUnique, SeenWindow, SeenInPast, StoredEventsCounted, EventsOf
<1>7. QED
  BY <1>1, <1>2, <1>3, <1>4, <1>5, <1>6 DEF Next

(* The store's inductive invariant holds of every behaviour. *)
LEMMA IInvHolds == Spec => []IInv
  BY InitIInv, NextIInv, PTL DEF Spec

(* Type correctness of the three tables. *)
THEOREM TypeCorrect == Spec => []TypeOK
<1>1. IInv => TypeOK
  BY DEF IInv
<1>2. QED
  BY <1>1, IInvHolds, PTL

(* However saves, status changes and pruning interleave, a project has one  *)
(* issue per fingerprint.                                                   *)
THEOREM FingerprintUnique == Spec => []OneIssuePerFingerprint
<1>1. IInv => OneIssuePerFingerprint
  BY DEF IInv
<1>2. QED
  BY <1>1, IInvHolds, PTL

(* Without SQLite's foreign keys, every stored event still refers to an     *)
(* existing issue of its own, existing project.                             *)
THEOREM ReferencesHold == Spec => []EventsBelongToIssues
<1>1. IInv => EventsBelongToIssues
  BY DEF IInv
<1>2. QED
  BY <1>1, IInvHolds, PTL

(* The event count of an issue covers the events stored for it. *)
THEOREM CountCoversEvents == Spec => []StoredEventsCounted
<1>1. IInv => StoredEventsCounted
  BY DEF IInv
<1>2. QED
  BY <1>1, IInvHolds, PTL

(* No event_id is stored twice in a project, however often it is sent. *)
THEOREM StoredOnce == Spec => []EventsUnique
<1>1. IInv => EventsUnique
  BY DEF IInv
<1>2. QED
  BY <1>1, IInvHolds, PTL

(* The stored events of an issue lie between its first_seen and last_seen.  *)
THEOREM SeenWindowCovers == Spec => []SeenWindow
<1>1. IInv => SeenWindow
  BY DEF IInv
<1>2. QED
  BY <1>1, IInvHolds, PTL

(* All of them at once: the tables agree with one another for ever. *)
THEOREM TablesAgree == Spec => []TablesConsistent
<1>1. IInv => TablesConsistent
  BY DEF IInv, TablesConsistent
<1>2. QED
  BY <1>1, IInvHolds, PTL

-------------------------------------------------------------------------------
(* What a new event does to every issue's count and status. *)
LEMMA OccurrenceEffect ==
  ASSUME IInv, NEW p \in DOMAIN projects, NEW e \in EventIds,
         NEW f \in Fingerprints, SaveOccurrence(p, e, f)
  PROVE  \E id \in IssueIds, row \in Event :
           /\ row.issue = id /\ row \notin events
           /\ events' = events \cup {row}
           /\ DOMAIN issues' = DOMAIN issues \cup {id}
           /\ \A i \in DOMAIN issues : i # id => issues'[i] = issues[i]
           /\ id \in DOMAIN issues =>
                /\ IssuesOf(p, f) = {id}
                /\ issues'[id].event_count = issues[id].event_count + 1
                /\ issues'[id].status = StatusAfterEvent(issues[id].status)
           /\ id \notin DOMAIN issues => /\ IssuesOf(p, f) = {}
                                         /\ issues'[id].event_count = 1
<1>1. PICK id \in UpsertIds(p, f) : UpsertIssue(id, p, f) /\ InsertEvent(p, e, id)
  BY DEF SaveOccurrence
<1> DEFINE row == [project |-> p, event_id |-> e, issue |-> id, received_at |-> now]
<1>2. p \in Projects /\ now \in Nat /\ TypeOK
  BY DEF IInv, TypeOK
<1>3. /\ id \in IssueIds
      /\ DOMAIN issues' = DOMAIN issues \cup {id}
      /\ \A i \in DOMAIN issues : i # id => issues'[i] = issues[i]
      /\ id \in DOMAIN issues => /\ id \in IssuesOf(p, f)
                                 /\ issues'[id] = Recurrence(issues[id])
      /\ id \notin DOMAIN issues => /\ IssuesOf(p, f) = {}
                                    /\ issues'[id] = NewIssue(p, f)
  BY <1>1, <1>2, UpsertFacts
<1>4. events' = events \cup {row} /\ row \in Event /\ row \notin events
  BY <1>1, <1>2, <1>3 DEF InsertEvent, Event, SaveOccurrence, Stored
<1>5. id \in DOMAIN issues => IssuesOf(p, f) = {id}
  BY <1>3 DEF IInv, OneIssuePerFingerprint, IssuesOf
<1>6. id \in DOMAIN issues =>
        /\ issues'[id].event_count = issues[id].event_count + 1
        /\ issues'[id].status = StatusAfterEvent(issues[id].status)
  BY <1>2, <1>3, RecurrenceFacts DEF TypeOK
<1>7. id \notin DOMAIN issues => issues'[id].event_count = 1
  BY <1>2, <1>3, NewIssueFacts
<1>8. row.issue = id
  OBVIOUS
<1>9. QED
  BY <1>3, <1>4, <1>5, <1>6, <1>7, <1>8

(* In no step does a stored event move a status except from resolved to     *)
(* unresolved, on its own issue.                                            *)
THEOREM IgnoredStaysIgnored == Spec => EventsOnlyRegress
<1> DEFINE Step(i) == events' # events /\ issues'[i].status # issues[i].status =>
         /\ issues[i].status = "resolved"
         /\ issues'[i].status = "unresolved"
         /\ \E ev \in events' \ events : ev.issue = i
<1>1. ASSUME IInv, [Next]_vars
      PROVE  [\A i \in DOMAIN issues : Step(i)]_vars
  <2>1. ASSUME NEW p \in DOMAIN projects, NEW e \in EventIds,
               NEW f \in Fingerprints, SaveOccurrence(p, e, f)
        PROVE  \A i \in DOMAIN issues : Step(i)
    <3>1. PICK id \in IssueIds, row \in Event :
            /\ row.issue = id /\ row \notin events
            /\ events' = events \cup {row}
            /\ \A i \in DOMAIN issues : i # id => issues'[i] = issues[i]
            /\ id \in DOMAIN issues =>
                 issues'[id].status = StatusAfterEvent(issues[id].status)
      BY <1>1, <2>1, OccurrenceEffect
    <3>2. QED
      BY <3>1 DEF StatusAfterEvent
  <2>2. ASSUME UNCHANGED issues \/ UNCHANGED events
        PROVE  \A i \in DOMAIN issues : Step(i)
    BY <2>2
  <2>3. QED
    BY <1>1, <2>1, <2>2 DEF Next, vars, Tick, EnsureProject, SaveEvent,
       SaveDuplicate, SetIssueStatus, DeleteOldEvents
<1>2. QED
  BY <1>1, IInvHolds, PTL DEF Spec, EventsOnlyRegress

(* Every step moves an issue's count by the number of event rows it inserts *)
(* for that issue: a duplicate delivery moves neither.                      *)
THEOREM CountExact == Spec => CountMovesWithEvents
<1> DEFINE Step(i) ==
      EventCount(i)' - EventCount(i) = Cardinality(EventsOf(i)' \ EventsOf(i))
<1>1. ASSUME IInv, [Next]_vars
      PROVE  [\A i \in IssueIds : Step(i)]_vars
  <2>1. \A i \in DOMAIN issues : issues[i].event_count \in Nat
    BY <1>1 DEF IInv, TypeOK, Issue
  <2>2. ASSUME NEW p \in DOMAIN projects, NEW e \in EventIds,
               NEW f \in Fingerprints, SaveOccurrence(p, e, f)
        PROVE  \A i \in IssueIds : Step(i)
    <3>1. PICK id \in IssueIds, row \in Event :
            /\ row.issue = id /\ row \notin events
            /\ events' = events \cup {row}
            /\ DOMAIN issues' = DOMAIN issues \cup {id}
            /\ \A i \in DOMAIN issues : i # id => issues'[i] = issues[i]
            /\ id \in DOMAIN issues =>
                 issues'[id].event_count = issues[id].event_count + 1
            /\ id \notin DOMAIN issues => issues'[id].event_count = 1
      BY <1>1, <2>2, OccurrenceEffect
    <3>2. ASSUME NEW i \in IssueIds, i # id
          PROVE  Step(i)
      <4>1. EventsOf(i)' \ EventsOf(i) = {} /\ EventCount(i)' = EventCount(i)
        BY <3>1, <3>2 DEF EventsOf, EventCount
      <4>2. EventCount(i) \in Nat
        BY <2>1 DEF EventCount
      <4>3. Cardinality(EventsOf(i)' \ EventsOf(i)) = 0
        BY <4>1, FS_EmptySet
      <4>4. EventCount(i)' - EventCount(i) = 0
        BY <4>1, <4>2
      <4>5. QED
        BY <4>3, <4>4
    <3>3. Step(id)
      <4>1. EventsOf(id)' \ EventsOf(id) = {row}
        BY <3>1 DEF EventsOf
      <4>2. EventCount(id)' = EventCount(id) + 1 /\ EventCount(id) \in Nat
        BY <2>1, <3>1 DEF EventCount
      <4>3. Cardinality(EventsOf(id)' \ EventsOf(id)) = 1
        BY <4>1, FS_Singleton
      <4>4. EventCount(id)' - EventCount(id) = 1
        BY <4>2
      <4>5. QED
        BY <4>3, <4>4
    <3>4. QED
      BY <3>2, <3>3
  <2>3. ASSUME NEW i \in IssueIds,
               EventCount(i)' = EventCount(i), events' \subseteq events
        PROVE  Step(i)
    <3>1. EventsOf(i)' \ EventsOf(i) = {} /\ EventCount(i) \in Nat
      BY <2>1, <2>3 DEF EventsOf, EventCount
    <3>2. QED
      BY <3>1, <2>3, FS_EmptySet
  <2>4. ASSUME NEW p \in DOMAIN projects, NEW id \in IssueIds,
               NEW status \in IssueStatus, SetIssueStatus(p, id, status)
        PROVE  \A i \in IssueIds : Step(i)
    <3>1. \A i \in IssueIds : EventCount(i)' = EventCount(i)
      BY <1>1, <2>4 DEF SetIssueStatus, EventCount, IInv, TypeOK, Issue
    <3>2. QED
      BY <3>1, <2>3, <2>4 DEF SetIssueStatus
  <2>5. ASSUME UNCHANGED issues, events' \subseteq events
        PROVE  \A i \in IssueIds : Step(i)
    BY <2>3, <2>5 DEF EventCount
  <2>6. QED
    BY <1>1, <2>2, <2>4, <2>5 DEF Next, vars, Tick, EnsureProject, SaveEvent,
       SaveDuplicate, DeleteOldEvents
<1>2. QED
  BY <1>1, IInvHolds, PTL DEF Spec, CountMovesWithEvents

(* SaveEvent's two answers are true: isNew when, and only when, the call    *)
(* created an issue, isRegression when it reopened a resolved one.          *)
THEOREM SignalsTrue == Spec => SignalsMatchTransitions
<1> DEFINE Reopened == \E i \in DOMAIN issues : /\ issues[i].status = "resolved"
                                                /\ issues'[i].status = "unresolved"
           Answers(p, e, f) == /\ IsNew(p, e, f) <=> DOMAIN issues' # DOMAIN issues
                               /\ IsRegression(p, e, f) <=> Reopened
<1>1. ASSUME IInv, NEW p \in DOMAIN projects, NEW e \in EventIds,
             NEW f \in Fingerprints, SaveEvent(p, e, f)
      PROVE  Answers(p, e, f)
  <2>1. CASE SaveDuplicate(p, e)
    BY <2>1 DEF SaveDuplicate, IsNew, IsRegression
  <2>2. CASE SaveOccurrence(p, e, f)
    <3>1. PICK id \in IssueIds :
            /\ DOMAIN issues' = DOMAIN issues \cup {id}
            /\ \A i \in DOMAIN issues : i # id => issues'[i] = issues[i]
            /\ id \in DOMAIN issues =>
                 /\ IssuesOf(p, f) = {id}
                 /\ issues'[id].status = StatusAfterEvent(issues[id].status)
            /\ id \notin DOMAIN issues => IssuesOf(p, f) = {}
      BY <1>1, <2>2, OccurrenceEffect
    <3>2. ~ Stored(p, e)
      BY <2>2 DEF SaveOccurrence
    <3>3. IsNew(p, e, f) <=> DOMAIN issues' # DOMAIN issues
      BY <3>1, <3>2 DEF IsNew
    <3>4. IsRegression(p, e, f) <=>
            id \in DOMAIN issues /\ issues[id].status = "resolved"
      BY <3>1, <3>2 DEF IsRegression
    <3>5. Reopened <=> id \in DOMAIN issues /\ issues[id].status = "resolved"
      BY <3>1 DEF StatusAfterEvent
    <3>6. QED
      BY <3>3, <3>4, <3>5
  <2>3. QED
    BY <1>1, <2>1, <2>2 DEF SaveEvent
<1>2. ASSUME IInv, [Next]_vars
      PROVE  [\A p \in DOMAIN projects, e \in EventIds, f \in Fingerprints :
                SaveEvent(p, e, f) => Answers(p, e, f)]_vars
  BY <1>1, <1>2
<1>3. QED
  BY <1>2, IInvHolds, PTL DEF Spec, SignalsMatchTransitions
===============================================================================
