------------------------------ MODULE IssueStore ------------------------------
(***************************************************************************)
(* The projects, issues and events tables of internal/store, and the       *)
(* operations that write them.  All writes go through writeDB, a pool of   *)
(* exactly one connection, and each operation is one statement or one      *)
(* transaction on it, so each is one atomic step here.  An operation that  *)
(* fails is rolled back and changes nothing: it is a stuttering step.      *)
(*                                                                         *)
(* Foreign keys are declared in the schema but SQLite does not enforce     *)
(* them unless asked to, and Open never asks: what the rows refer to is up *)
(* to this code.                                                           *)
(***************************************************************************)
EXTENDS Integers, FiniteSets

CONSTANTS
  Projects,       \* ids a DSN may name
  Keys,           \* public keys found in DSNs
  EventIds,       \* Sentry event ids
  Fingerprints,   \* what grouping.Fingerprint returns
  IssueIds,       \* the AUTOINCREMENT ids of issues
  Retention,      \* -retention-days, in clock ticks
  ZoneOffset,     \* local wall clock minus UTC, in clock ticks
  MaxTime         \* bound: the clock stops here

ASSUME StoreAssumption ==
  /\ Retention \in Nat
  /\ ZoneOffset \in Int
  /\ MaxTime \in Nat

VARIABLES
  now,        \* the wall clock, in UTC
  projects,   \* project id -> public key, for the projects that exist
  issues,     \* issue id -> its row, for the issues that exist
  events      \* the rows of the events table

vars == <<now, projects, issues, events>>

IssueStatus == {"unresolved", "resolved", "ignored"}

Issue ==
  [project : Projects, fingerprint : Fingerprints, status : IssueStatus,
   event_count : Nat, first_seen : Nat, last_seen : Nat]

Event ==
  [project : Projects, event_id : EventIds, issue : IssueIds, received_at : Nat]

-------------------------------------------------------------------------------
(* Operators named ...Slip are near misses of the definition they precede.  *)
(* No specification uses them: put in its place, each breaks a property.    *)

-------------------------------------------------------------------------------
(* EnsureProject: INSERT ... ON CONFLICT(id) DO NOTHING.                    *)
EnsureProject(p, key) ==
  /\ projects' = [q \in DOMAIN projects \cup {p} |->
                    IF q \in DOMAIN projects THEN projects[q] ELSE key]
  /\ UNCHANGED <<now, issues, events>>

-------------------------------------------------------------------------------
(* SaveEvent and what it returns: isNew and isRegression are computed from  *)
(* the rows its transaction reads, before it writes.                        *)

StoredSlip(p, e) == FALSE    \* no existence check

Stored(p, e) == \E ev \in events : ev.project = p /\ ev.event_id = e

IssuesOf(p, f) ==
  {i \in DOMAIN issues : issues[i].project = p /\ issues[i].fingerprint = f}

IsNewSlip(p, e, f) ==    \* the fingerprint is looked up in all projects
  ~ Stored(p, e) /\ \A i \in DOMAIN issues : issues[i].fingerprint # f

IsNew(p, e, f) == ~ Stored(p, e) /\ IssuesOf(p, f) = {}

IsRegressionSlip(p, e, f) ==    \* whether or not e is stored
  \E i \in IssuesOf(p, f) : issues[i].status = "resolved"

IsRegression(p, e, f) ==
  /\ ~ Stored(p, e)
  /\ \E i \in IssuesOf(p, f) : issues[i].status = "resolved"

StatusAfterEventSlip(status) == "unresolved"    \* ignored issues reopen, too

StatusWordSlip(status) == IF status = "resolved" THEN "regressed" ELSE status

StatusAfterEvent(status) == IF status = "resolved" THEN "unresolved" ELSE status

NewIssue(p, f) ==
  [project |-> p, fingerprint |-> f, status |-> "unresolved",
   event_count |-> 1, first_seen |-> now, last_seen |-> now]

Recurrence(issue) ==
  [issue EXCEPT !.status = StatusAfterEvent(@), !.event_count = @ + 1,
                !.last_seen = now]

(* The id the upsert returns: the existing row's, or a fresh one. *)
UpsertIds(p, f) ==
  IF IssuesOf(p, f) = {} THEN IssueIds \ DOMAIN issues ELSE IssuesOf(p, f)

UpsertIssue(id, p, f) ==
  issues' = [i \in DOMAIN issues \cup {id} |->
               IF i # id THEN issues[i]
               ELSE IF id \in DOMAIN issues THEN Recurrence(issues[id])
               ELSE NewIssue(p, f)]

InsertEvent(p, e, id) ==
  events' = events \cup
    {[project |-> p, event_id |-> e, issue |-> id, received_at |-> now]}

SaveDuplicateSlip(p, e) ==    \* the issue is updated before the check
  /\ Stored(p, e)
  /\ issues' = [i \in DOMAIN issues |->
                  IF \E ev \in events : /\ ev.project = p /\ ev.event_id = e
                                        /\ ev.issue = i
                  THEN Recurrence(issues[i]) ELSE issues[i]]
  /\ UNCHANGED events

SaveDuplicate(p, e) ==
  /\ Stored(p, e)
  /\ UNCHANGED <<issues, events>>

SaveOccurrence(p, e, f) ==
  /\ ~ Stored(p, e)
  /\ \E id \in UpsertIds(p, f) : UpsertIssue(id, p, f) /\ InsertEvent(p, e, id)

SaveEvent(p, e, f) ==
  /\ SaveDuplicate(p, e) \/ SaveOccurrence(p, e, f)
  /\ UNCHANGED <<now, projects>>

-------------------------------------------------------------------------------
(* SetIssueStatus: resolve, ignore or reopen, whatever the status was.      *)
(* When the project has no such issue it returns sql.ErrNoRows.             *)
SetIssueStatus(p, id, status) ==
  /\ id \in DOMAIN issues
  /\ issues[id].project = p
  /\ issues' = [issues EXCEPT ![id].status = status]
  /\ UNCHANGED <<now, projects, events>>

(* DeleteOldEvents compares received_at, which SQLite wrote in UTC, as text *)
(* with the cutoff, which the driver writes in the local zone; issues stay. *)
(* Both are read to the second, and the cutoff's text is the longer one,    *)
(* so an event received in the very second of the cutoff goes too.          *)
Cutoff == now + ZoneOffset - Retention

DeleteOldEvents ==
  /\ events' = {ev \in events : ev.received_at > Cutoff}
  /\ UNCHANGED <<now, projects, issues>>

Tick ==
  /\ now < MaxTime
  /\ now' = now + 1
  /\ UNCHANGED <<projects, issues, events>>

-------------------------------------------------------------------------------
Init ==
  /\ now = 0
  /\ projects = [p \in {} |-> {}]
  /\ issues = [i \in {} |-> {}]
  /\ events = {}

(* ServeEnvelope calls SaveEvent only after its EnsureProject succeeded. *)
Next ==
  \/ Tick
  \/ \E p \in Projects, key \in Keys : EnsureProject(p, key)
  \/ \E p \in DOMAIN projects, e \in EventIds, f \in Fingerprints :
       SaveEvent(p, e, f)
  \/ \E p \in DOMAIN projects, id \in IssueIds, status \in IssueStatus :
       SetIssueStatus(p, id, status)
  \/ DeleteOldEvents

Spec == Init /\ [][Next]_vars

-------------------------------------------------------------------------------
TypeOK ==
  /\ now \in Nat
  /\ DOMAIN projects \subseteq Projects
  /\ projects \in [DOMAIN projects -> Keys]
  /\ DOMAIN issues \subseteq IssueIds
  /\ issues \in [DOMAIN issues -> Issue]
  /\ events \in SUBSET Event

(* The upsert never splits a fingerprint: a project has one issue for it,   *)
(* however saves, status changes and pruning interleave.                    *)
OneIssuePerFingerprint ==
  \A i, j \in DOMAIN issues :
    /\ issues[i].project = issues[j].project
    /\ issues[i].fingerprint = issues[j].fingerprint
    => i = j

EventsOf(i) == {ev \in events : ev.issue = i}

(* With foreign keys off, it is SaveEvent's order of writes that keeps every *)
(* stored event attached to an existing issue of its own project.            *)
EventsBelongToIssues ==
  \A ev \in events :
    /\ ev.project \in DOMAIN projects
    /\ ev.issue \in DOMAIN issues
    /\ issues[ev.issue].project = ev.project

(* No event_id is stored twice in a project: SaveEvent's existence check.   *)
EventsUnique ==
  \A ev, other \in events :
    ev.project = other.project /\ ev.event_id = other.event_id => ev = other

(* An issue was first seen no later, and last seen no earlier, than every   *)
(* event of it that is still stored: ListIssues sorts by last_seen.         *)
SeenWindow ==
  \A ev \in events :
    /\ issues[ev.issue].first_seen <= ev.received_at
    /\ ev.received_at <= issues[ev.issue].last_seen

(* event_count is the number of events ever saved for the issue: pruning    *)
(* lets it exceed the events still stored, nothing lets it fall behind.     *)
StoredEventsCounted ==
  \A i \in DOMAIN issues : Cardinality(EventsOf(i)) <= issues[i].event_count

(* The three tables agree with one another, though SQLite enforces none of   *)
(* it but the two UNIQUE constraints, and those only if the statements have  *)
(* them: what every page and every later SaveEvent takes for granted.        *)
TablesConsistent ==
  /\ OneIssuePerFingerprint
  /\ EventsBelongToIssues
  /\ EventsUnique
  /\ SeenWindow
  /\ StoredEventsCounted

EventCount(i) == IF i \in DOMAIN issues THEN issues[i].event_count ELSE 0

(* A retried delivery does not inflate the count: an issue's count moves    *)
(* by one exactly when one more event row is inserted for it.               *)
CountMovesWithEvents ==
  [][\A i \in IssueIds :
       EventCount(i)' - EventCount(i) = Cardinality(EventsOf(i)' \ EventsOf(i))]_vars

(* What SaveEvent reports is what happened: isNew when this call created    *)
(* the issue, isRegression when it moved one from resolved to unresolved.   *)
SignalsMatchTransitions ==
  [][\A p \in DOMAIN projects, e \in EventIds, f \in Fingerprints :
       SaveEvent(p, e, f) =>
         /\ IsNew(p, e, f) <=> DOMAIN issues' # DOMAIN issues
         /\ IsRegression(p, e, f) <=>
              \E i \in DOMAIN issues : /\ issues[i].status = "resolved"
                                       /\ issues'[i].status = "unresolved"]_vars

(* A step that stores an event changes no status but resolved to unresolved, *)
(* and of that event's issue only: an ignored issue stays ignored until      *)
(* SetIssueStatus is called.                                                 *)
EventsOnlyRegress ==
  [][\A i \in DOMAIN issues :
       events' # events /\ issues'[i].status # issues[i].status =>
         /\ issues[i].status = "resolved"
         /\ issues'[i].status = "unresolved"
         /\ \E ev \in events' \ events : ev.issue = i]_vars

(* DeleteOldEvents removes an event only when it was received at least      *)
(* Retention ago ("received before now.Add(-olderThan)").                   *)
RetentionHonoured ==
  [][\A ev \in events \ events' : ev.received_at <= now - Retention]_vars
===============================================================================
