# Trackdown in TLA+

TLA+ models of [Trackdown](../src/README.md), a self-hosted error tracker that
speaks Sentry's envelope protocol: one Go process over one SQLite file. The
modules here model its store and the connections beneath it, its ingest path with
the parsing of envelopes and events and their grouping into issues, its alert
delivery, its rate limiters, its source maps from upload to display, and the end
of the server. TLC checks them on small instances, and TLAPS proves the most
important of their properties for every value of the constants.

- [The system](#the-system): inventory of the components
- [The models](#the-models): which module models what, and how
- [The runs](#the-runs): what TLC checks, with which bounds
- [Fairness](#fairness)
- [The proofs](#the-proofs)
- [What the runs found](#what-the-runs-found)
- [What is not modelled](#what-is-not-modelled)
- [The plan](#the-plan)

`tlc -config X.cfg M` checks a configuration, `tlapm M.tla` a proof module;
PROJECT.json lists which configuration belongs to which module, the source
lines every definition stands for, and the hazards the properties are for.

## The system

### Components

| component | source | state | operations |
|---|---|---|---|
| issue store | `internal/store/store.go` | tables `projects`, `issues`, `events` | `EnsureProject`, `SaveEvent`, `SetIssueStatus`, `DeleteOldEvents`, listings |
| alert outbox | `internal/store/store.go` | table `alert_outbox` | `EnqueueAlert`, `DueAlerts`, `MarkAlertDelivered`, `MarkAlertFailed` |
| releases and artifacts | `internal/store/store.go`, `internal/ingest/releases.go` | tables `releases`, `artifacts` | `CreateRelease`, `UploadArtifact`, `FindArtifact` |
| connection pools | `internal/store/store.go` | one writer connection, four readers, WAL, `busy_timeout` | `Open`, `Ping`, `Close`, every statement |
| envelope ingest | `internal/ingest/ingest.go` | none of its own; a request is a sequence of store operations | `ServeEnvelope`, `setIssueStatus`, `notifyAsync`, JSON listings |
| rate limiter | `internal/ratelimit/limiter.go` | map of token buckets under a mutex | `Allow` (and the sweep inside it) |
| alert delivery | `internal/ingest`, `internal/alert`, `cmd/trackdown` | a goroutine per alert, the retry loop's batch | `notifyAsync`, `MultiNotifier.Notify`, `retryDueAlerts` |
| retention | `cmd/trackdown/main.go` | a 24 hour ticker | `runRetentionLoop`, `trackdown gc` |
| lifecycle | `cmd/trackdown/main.go`, `service_*.go` | the context, `http.Server`, the service manager's state | `serve`, `runAsService`, `Execute`, shutdown |
| admin authentication | `internal/auth/auth.go` | a limiter of failures | `Require` |
| envelope and event parsing | `internal/protocol` | none | `ParseEnvelope`, `ParseEvent` |
| grouping | `internal/grouping/fingerprint.go` | none | `Fingerprint`, `Title` |
| symbolication | `internal/symbolicate`, `internal/server/symbolication.go` | a page's cache of parsed maps | `Parse`, `Resolve` |
| notifier transports | `internal/alert/smtp.go`, `webhook.go` | none | `Notify` |
| configuration | `internal/config/config.go` | none after the start | `Load`, `BuildNotifier` |
| web UI | `internal/server` | none | pages and status buttons |
| backup, service installation, development tools | `cmd/trackdown`, `tools` | none | one command each |

### How they interact

- An SDK posts an envelope. `ServeEnvelope` asks the rate limiter, parses the
  body, calls `EnsureProject`, and then, item by item, `ParseEvent`,
  `grouping.Fingerprint`, `Title` and `SaveEvent`. Each of these is a transaction of its own: an envelope is not
  atomic, and an error in the middle ends the request with a 500 that leaves the
  earlier items saved. An SDK that sees no 200 sends the envelope again.
- When `SaveEvent` returns `isNew` or `isRegression`, `ServeEnvelope` reads the
  issue back and calls `notifyAsync`, which starts a goroutine the request does
  not wait for. The goroutine tries every target once, in order (the mail server
  first) and under one deadline of ten seconds for all; if any of them fails it
  writes the alert to the outbox.
- The retry loop wakes up every thirty seconds, reads at most twenty due rows,
  and works through that snapshot: a delivery, then an update of the row by id.
  Failures back off along a schedule and end, after the maximum of attempts, in
  the status `dead`.
- Operators call `setIssueStatus`; the retention loop or a `gc` process deletes
  events at any moment. Both only meet the rest in the store.
- On an interrupt `serve` cancels the context of the loops *first*, then waits
  for requests in flight, and returns, which closes the store. Nobody waits for the
  goroutines of `notifyAsync` or for the loops: they find the store closed, or end
  with the process. The Windows service manager's stop takes the same way through
  `Execute`, which reports what it does.
- A build posts a release and uploads source maps for it, each upload in two
  steps: the release is created, then the body is read and stored. The page of an
  event looks up a map for each generated file in its stack trace, with a query of
  its own, and resolves the frames with it.
- All writes go through `writeDB`, a pool of exactly one connection, so writes
  of one process never interleave inside an operation; reads have a pool of
  their own and see committed states. The `gc` and `backup` commands open the same
  file from processes of their own: there only SQLite's lock keeps writers apart.

### What is hard, and what must hold

| component | hard behaviours | properties that make it correct |
|---|---|---|
| issue store | two SDKs saving the same event or creating the same project; status changes between occurrences; foreign keys that are declared but not enforced; time zones | one issue per fingerprint, events attached to it, counts that move with rows, truthful `isNew`/`isRegression`, ignored stays ignored, retention deletes only what is old |
| ingest | concurrent copies of an envelope; failure in its middle; resend after a lost reply; a crash between commit and notification | a 200 means stored; each event counted and announced once; every opening announced |
| alert delivery | updates by id from a stale snapshot; partial failure of targets, which share a deadline; a mail server that heeds none; shutdown and crash at every point; recording with a canceled context | queued is never lost; no early dead-lettering; settled rows stay; what got through is not sent again; a working target is served whichever others fail; every row settles |
| rate limiter | lazy refill, refusals that move `lastSeen`, sweeping, rates below one | never more than burst and rate allow, never less; the sweep is invisible |
| envelope parsing | two ways to say where a payload ends, line ends, payloads that look like headers, bodies cut at the limit | what was put in comes out; nothing is made up |
| releases and artifacts | builds that create one release at the same time, uploads under way | a path leads to one artifact |
| symbolication | uploads between two frames of a page; deltas, signs, digits, the ends of a segment's reach | one file is shown by one map; positions mean what the bundler meant |
| event parsing, grouping | several forms of one field; recursion, library frames, chains of causes, threads; a title from the first event | any two events share an issue exactly when they are about the same bug; no event is lost for a form SDKs use; the title fits every event |
| connection pools | a transaction that holds the only writer; `gc` between two statements of it; a canceled request that takes its connection along | what a transaction read holds when it commits; nobody waits for itself; only other processes lock anybody out |
| lifecycle | requests, loops and goroutines under way when the server stops; a client that never finishes; a stop that comes twice, or as SIGTERM | a drained stop hurts no request and reports its end last; every stop ends |

## The models

```
IssueStore <--INSTANCE-- Ingest              AlertOutbox <--EXTENDS-- AlertDelivery --INSTANCE--> AlertSpec
     ^                  ^                                              ^          ^
IssueStoreProofs   IngestProofs                     AlertDeliveryProofs          MCAlertDelivery
     MCIssueStore      MCIngest

RateLimiter --INSTANCE--> TokenBucket               EnvelopeFraming
     ^   ^                                            ^          ^
RateLimiterProofs  MCRateLimiter            FramingProofs    MCEnvelopeFraming

SourceMap <--EXTENDS-- Artifacts                    EventParsing <--EXTENDS-- Grouping
                        ^     ^                                     ^           ^
          ArtifactsProofs     MCArtifacts                     GroupingProofs     MCGrouping

ConnectionPools <--EXTENDS-- Lifecycle
                              ^     ^
                LifecycleProofs     MCLifecycle
```

Operators named `...Slip` stand before the definition they are a near miss of: a
dropped guard, a swapped order, an off-by-one. No specification uses them. Each
shows that a property has teeth: put in its definition's place it makes TLC
report that property, as PROJECT.json's `mutants` list records.

### IssueStore

The three tables: `projects` and `issues` are functions from the ids that exist,
`events` is a set of rows. One action per writing operation; each is atomic
because it is one statement or one transaction on the only writing connection
(`ReadsHold`, below, is what that takes), and one that fails is rolled back, which is
a stuttering step.

- `SaveEvent` is the transaction of the code in its order: the existence check
  (`Stored`), the read of the prior status (`IsNew`, `IsRegression`), the upsert
  (`UpsertIds`, `UpsertIssue` with `NewIssue` or `Recurrence`), the insertion.
  An AUTOINCREMENT id is any id not in use: only that it is fresh matters.
- `DeleteOldEvents` compares texts of two time zones (`Cutoff`, `ZoneOffset`).
  `received_at` is SQLite's `CURRENT_TIMESTAMP`, in UTC and without a zone; the
  cutoff is a Go time in the local zone, and its longer text sorts after an
  equal second, which is why the comparison is `>` for what stays.
- `event_count` and the seen times are in the rows; titles, levels, payloads and
  wording are left out.

### AlertOutbox, AlertDelivery, AlertSpec

`AlertOutbox` is the table as a sequence whose index is the id, and the store's
four methods as operators. `AlertDelivery` is everything that uses it.
`firstTry[a]` is where the goroutine of alert `a` is, `batch` is the rest of the
retry loop's snapshot. `Shutdown` (cancel), `Exit` (the process ends, with whatever
goroutines it has), `Crash` and `Start` are the server's.

`MultiNotifier.Notify` takes a step per target, in the order of `Notifiers`: a `Call`
is the target it is at, whether its deadline is over, and whether a target has failed;
`attempt[a]` is the goroutine's, `redelivery` the loop's. `Answers` says what a target
may answer. All targets of a call share its deadline. One that heeds it
(`WebhookNotifier`) fails once it is over, be that before its turn; one that does not
(`SMTPNotifier`, in `Untimed`) may accept long after it, and use up the time of those
behind it, or never answer at all: then no step of the call is ever taken. Those in
`Healthy` answer at once and accept what reaches them before the deadline. What an
answer leads to is `After`, what the call returns in the end `Result`. The loop's
result, `outcome`, waits to be recorded in a step of its own, which is where a shutdown
bites. The ten seconds themselves are not counted: any answer may be late.

`received`, `notified`, `failures` and `unrecorded` (the alerts a delivery of which was
forgotten before `MarkAlertDelivered`) are history variables. `now` advances only
while a pending row waits for it: it is compared with nothing but
`next_attempt_at`, so other time cannot be seen, and without that the state space
would be infinite. How long a batch takes is not modelled: any
number of ticks may pass between two steps as long as a row waits.

`AlertSpec` is the promise: each alert moves through raised, queued, delivered,
dead; a queued one is never lost, and one not yet queued only where the server
may stop or a write fail. `KeepsPromise` says that `AlertDelivery` implements it
under the mapping `Stage`.

### Ingest

`ServeEnvelope` as a handler with a program counter over an instance of
`IssueStore`: `Accept`, `EnsureProject`, then per item `SkipItem` or `SaveEvent`
and `Notify`, then `Reply`, whose 200 may get lost. `Fail` is an error of the
store, or the client's disconnecting, at every place where the code returns
early. `Crash` takes all handlers. `Background` is what acts on the store
meanwhile: operators (`setIssueStatus`), retention (`runOnce`), time. An SDK sends any envelope it has not seen
accepted, any number of times, also while an earlier copy is being served.
`notices` is the set of `notifyAsync`'s calls: what becomes of one is
`AlertDelivery`'s subject.

The event count of a notice is read after the transaction that opened the issue
and is 1 if the read fails; both are possible in `Notify`.

What comes out of `ParseEnvelope` is what an envelope is here; how it comes out
is `EnvelopeFraming`'s subject, and what an event's fingerprint is `Grouping`'s.

### EnvelopeFraming

`ParseEnvelope`'s loop, a state per round: what is left of the body, the items so
far, and whether it goes on. First an SDK writes an envelope item by item
(`WriteItem`), and notes where each ends; then `Arrive(n)` lets its first `n` bytes
through, as the limits of `readEnvelopeBody`, for the body and for what it unzips to,
do: a plain body over the limit is not refused but shortened, and so is what a
compressed one unzips to. A compressed body that is itself cut is refused by gzip before
`ParseEnvelope` sees it, and has no behaviour here. `readLine` and
`consumeNewline` are the operators `Line`, `AfterLine`, `AtEOF` and
`DropNewline`; that the latter looks for a line feed only, and leaves a blank line
behind where lines end in CR, LF, is in the model as it is in the code. A JSON
object is two tokens, so that half of one can arrive. White space but for CR, and
lengths below zero, which no SDK writes, are left out.

### EventParsing, Grouping

`EventParsing` has no state: `ParseEvent` and the `UnmarshalJSON` methods as
operators on JSON values, which are records tagged with their kind. A field that is
absent is null. `Parsable` says which values a method accepts; what the text of a
number or of a time is, `encoding/json` and `time.Parse` decide, so a number is its
value and a time its local reading and offset. `Written` is the other direction,
an SDK's: every field in each of the forms listed in `Forms`. What is said of an
event's form is said of these. Not among them are a tag whose value is not a text and a
message or `logentry` with a parameter that is not one, though JSON allows both: the
code's `map[string]string` and `[]string` refuse them, and with them the whole event.

`Grouping` is `fingerprint.go` on what `ParseEvent` yields. `Collapse` is the loop of
`frameComponents`, a recursive function of the number of frames it has seen; so are
`filterInApp` and `Tags`. Joining the components with NUL is modelled, because
an empty module or message must not run into its neighbour; SHA-256 is taken to be
injective, and a text not to contain NUL (`IsMeant`, which `SentAssumption` demands of
all that is sent; a JSON string could). `Receive` is the part of `ServeEnvelope` and `SaveEvent` that decides which
issue an event goes to and with which title, `Skip` what becomes of an item that does
not parse. `Alike` is the reference: what an event is about, said of what the SDK
meant, without a loop over frames: two stacks are one path if their counting frames
can be matched in order, site by site (`SamePath`).

### ConnectionPools, Lifecycle

`ConnectionPools` takes the operations of the store apart. A caller is a goroutine
with one operation (`kind`): `SaveEvent`, a single writing statement, a query, or
`Ping`; `at` says how far it is, and a connection is held from `TakeWriter` or
`TakeReader` to the end. `SaveEvent` is `Check`, which fixes what the transaction
reads (`snapshot`), `Upsert`, which asks for the file's lock, and `Commit`; the
two queries before the upsert are one step, since both read the same snapshot, and so
are the upsert and the insert, as the lock is held from the first on. Of the database
only the number of commits is kept (`version`). `gc` is another process with
`DeleteOldEvents`. What SQLite does is taken from its documentation, for WAL mode and
deferred transactions, and marked external in PROJECT.json: readers never wait; a
statement on its own waits for the lock up to the connection's `busy_timeout`; a
transaction that has read does not, and may not write on top of what it has not read
(`Upgradable`). `busy_timeout` belongs to a connection, and `Open` sets it on one of
each pool: `patient` says whether the writer still has it, which it loses when the
pool replaces a connection that a canceled context broke (`Cancel`).

`Lifecycle` adds `serve`. `phase` goes from running through draining (`srv.Shutdown`)
and closing (`serve` has returned, the deferred `st.Close` is due) to closed and
exited; `status` is what the service manager was told, `"none"` in the foreground:
one module for both, as `Execute` does what `serve`'s `select` does and reports. A
handler is let in (`Accept`) only while the server runs and may stay as it is for as
long as its client likes; loops begin only while their context lives; a goroutine of
`notifyAsync` may begin at any moment. `Work` is a caller's next step in the pools;
`FindClosed` what it gets from a closed `sql.DB`; `CutOff` the end of the process, by
`Exit` or `Kill` (SIGTERM, which `serve` does not handle, included).

### SourceMap, Artifacts

`SourceMap` has no state: `Parse` and `Resolve` as operators. The loops of
`decodeMappings` are recursive functions, `read[n]` the variables after `n` digits
(`Digits`), segments (`Segments`) and lines (`Parse`); an empty segment is passed over,
and after an error nothing is read. The text of the mappings is a sequence of lines of segments of digits; the lists of
sources and names, in which `Resolve` looks up its indices, are left out, and so is
an overflow of `int`. `Encoded` is the other direction, a bundler's, written from
the format the code reads: `Previous` looks a field up where it last was, in this line or
any before, `Deltas` subtracts it, `VLQ` takes a number apart from its low end. `Meant`
says by quantifiers what a map says of a position. `sort.Search` is `Beyond`'s minimum,
as long as the columns of a line never decrease, which the code takes from the
specification of source maps (sourcemap.go:94) and `IsMap` says.

`Artifacts` is the two tables, the requests that write them and one page. An upload
is two actions, `BeginUpload`, which creates the release, and `FinishUpload` or
`RefuseUpload`; between them anything may happen. The page takes its frames one at a
time (`ShowRaw`, `ShowFrame`), because each first frame of a file is a query of its
own; `Lookup` gives what it may lead to, nothing at all if the query fails. `held` is
history: what each path of the event's release has led to since the page began.
A content is a name: `Mappings` says what `Parse` reads in it, and `Built` which map
its bundler meant, if it was one that wrote it.

### RateLimiter, TokenBucket

`Allow` holds the mutex and reads the clock under it: it is one action,
`AllowNew` for a key that is not in the map and `AllowKnown` for one that is.
Tokens are counted in whole units (`Token` to a token, `Rate` to a tick), so
rates below one per tick exist; float64's rounding is left out. `window` is an
observer that may start to count at any moment, which turns "in any stretch of
time" into an invariant. `TokenBucket` is the limiter one would describe: a
bucket per client, always there, filled at every tick.

## The runs

| run | module, cfg | shows | bounds |
|---|---|---|---|
| `store` | MCIssueStore | the tables are consistent and `SaveEvent` reports what it did, under any interleaving of the operations | two projects, two keys, two event ids, two fingerprints; one tick, after which everything stored before it is pruned. Four issues are the most there can be. Two events on one fingerprint give recurrence and regression, on two fingerprints or projects the separation |
| `store_zone` | MCIssueStoreZone | **violation**: retention deletes too early east of UTC | one issue, two events, a retention of two ticks, an offset of one |
| `alerts` | MCAlertDelivery | the outbox is consistent, and the promise kept, with a crash, a shutdown, failing writes and a slow or silent mail server anywhere; a call that keeps its deadline serves the webhook; only what was not recorded is sent again; if every call ends, every alert leaves its goroutine and every row settles | two alerts, a mail server that may do anything before a healthy webhook, three attempts (one in the goroutine, two in the loop, so both branches of `MarkAlertFailed` occur), batches of one: a backlog longer than a batch |
| `alert_stalled` | MCAlertStalled | **violation**: a slow mail server leaves a working webhook no time, and a silent one stops the retry loop for ever | one alert, the same targets, no stops and no failing writes |
| `alert_dropped` | MCAlertDroppedAtShutdown | **violation**: a graceful shutdown drops an alert whose first attempt failed | one alert, one shutdown |
| `ingest` | MCIngest | acknowledged means stored; counted and announced once; alerts match openings; every step of the store is one of `IssueStore`'s; while the server does not crash every opening is announced | two handlers, two envelopes (two events of one issue with an item between them that is skipped; no event, and another key), one crash, a retention of one tick, so that events expire, are pruned and come again. Two events of one issue are what it takes to open, recur and reopen |
| `framing` | MCEnvelopeFraming | what an SDK put in comes out; a cut body yields nothing that was not put in | up to two items of five payloads with a length (an envelope's line, line ends and nothing among them) and three without, both line ends, with and without the last, the limit at every byte. Two items show that the second is found behind every kind of first |
| `artifacts` | MCArtifacts | a path leads to one artifact, a page shows a file by one map, positions mean what the bundler meant | two projects with one release each, two uploads under way for one file, pages of three frames out of four (three in the file, with and without a column, one without a position); two maps and a text that breaks off. The maps have segments of one, four and five fields, fields that go up and down and run on over an empty line, values of up to three digits, two segments at one column, and lines that start late; `Columns` are those around the ends of their segments. That files do not disturb each other on a page is left to the proof |
| `limiter` | MCRateLimiter | the lazily filled and swept map allows what a bucket per client would | three clients and a sweep from two keys on, two thirds of a token per tick, a burst of two, six ticks: enough to drain a bucket, refill it wholly (three ticks), go stale and be swept |
| `grouping` | MCGrouping | any two events are in one issue exactly when they are about the same bug; none of the forms loses or splits an event; the title fits | every pair of some 250 events in their forms: one exception with each trace of up to three of four frames (two sites in the application, one of them at two lines, and a library's); chains of causes, without traces, types and texts; messages under two threads of any kind, with sites that differ only in where a NUL falls; two events in all forms; five values that are no event |
| `lifecycle` | MCLifecycle | transactions are atomic, only `gc` locks anybody out, a drained stop hurts no request, every call and every stop ends | a request, a loop and a goroutine, each with any operation it may make, one reader, `gc`; foreground and service. With one connection in each pool two callers contend for both |
| `busy` | MCLifecycleBusy | **violation**: `SaveEvent` fails at once, whatever the `busy_timeout`, when `gc` writes between its query and its upsert | one request and `gc` |

`Spec`'s only bounds are in guards: `MaxTime` (the clock of the store and the
limiter), `MaxCrashes`, `MaxShutdowns`, `MaxItems`, `MaxEvents`, `MaxFrames`,
`Columns`, the size of the sets, and `AlertDelivery`'s `failures`, which stops
counting at the maximum it is compared with. `MaxEvents = 2` is enough for `grouping`,
whose properties speak of pairs. A caller of `Lifecycle` makes one operation and `gc`
runs once: what they leave behind is the same as before but for `version`, which is
compared only with a snapshot of it.

Deadlock is checked wherever the system can always do something. `framing`
switches it off, as a parser ends; so do `grouping`, which ends with its events,
`lifecycle` and `busy`, which end with the process, and the outbox's configurations:
once every alert has been raised and settled and the bounded stops are used up there
is nothing left to do, which is the state they should end in. `EveryRowSettles`,
`EveryAlertSettles`, `EveryCallEnds` and `EveryStopEnds` show that nothing stops
earlier. Symmetry is used for safety only, never with liveness.

## Fairness

- `AlertDelivery`: goroutines and the loop are scheduled by Go's runtime, the
  ticker fires, the clock advances, so their steps have weak fairness, but for one kind:
  a call that is at a target which ignores the deadline (`TryWaits`, `LoopWaits`) need
  never go on, unless the target is in `Healthy`. At any other target the deadline ends
  the call, so that an answer, if only an error, is due. Weak fairness have, too,
  `Exit` (`shutdownTimeout` bounds the wait) and `Start` (a service manager's
  restart). `SF_vars(Record)`: a row whose update failed stays due and is tried
  again every thirty seconds; that *every* one of infinitely many updates fails is
  excluded, and that is all it excludes. `EveryRowSettles` would not hold otherwise,
  nor should it. Of the targets nothing is assumed but that those in `Healthy` work and
  that those not in `Untimed` heed their context, as `net/http` does; all others may fail
  for ever, and the mail server may leave a connection open and say nothing, which nothing
  in `SMTPNotifier` ends (TCP's keepalive ends a connection to a host that has vanished,
  not one to a server that is silent). `EveryAlertSettles` and `EveryRowSettles`
  therefore have the premise `CallsEnd`: no call stays at such a target for ever. Without
  it both are false, and `alert_stalled` shows why.
- `Ingest`: a handler that runs goes on (`WF` of `Progress(h)`): its steps wait
  for nothing but the write connection, whose holders release it after a bounded
  transaction (`EveryCallEnds`). Nothing is assumed of the SDKs or the operators.
- `Lifecycle`: goroutines are scheduled, so each caller's own steps (`Work`,
  `FindClosed`) have weak fairness, and so have `serve`'s (`FinishDrain`, `Close`,
  `Exit`); `RunOutOfTime` is the timer of `shutdownTimeout`. That `gc`, once it
  deletes, comes to an end is a statement of bounded length in another process. Nothing
  is assumed of clients, who may never finish a body or go away, nor that a
  `busy_timeout` ever runs out.

## The proofs

Everything proved is of the form `Spec => []P` or `Spec => [][A]_vars`, by an
invariant that is inductive. The steps are one per action; frame lemmas say what
an operation leaves alone.

**IssueStoreProofs**: `TypeCorrect`, `FingerprintUnique`, `ReferencesHold`,
`CountCoversEvents`, `SeenWindowCovers`, `StoredOnce` and what the run checks of
them together, `TablesAgree`; `IgnoredStaysIgnored`, `SignalsTrue` and `CountExact`.
The invariants the runs check are nearly inductive: the seen window needs that no
row is from the future (`SeenInPast`), or a later event could be older than
`last_seen`; counting needs that `events` is finite, which follows from
`Init` and the operations and not from the types. None needs an assumption but
`StoreAssumption`.

**IngestProofs**: `StoreUsedRight` (`Ingest` implements `IssueStore`, whatever its
handlers do), `AckHonoured`, `OpeningsMatched` and `NeverAnnouncedTwice`, for any
number of handlers, envelopes and crashes; `TypeCorrect`; and `CountedOnce`, for
finitely many envelopes, without which there would be no number to count up to. A handler knows what it saved and
announced (`HandlersKnow`): the items before its program counter are stored, and
their openings announced, as long as retention deletes nothing early, hence
`ZoneOffset <= 0` in `AckHonoured`, `NeverAnnouncedTwice` and `CountedOnce`. An event is announced
once because what was announced or is about to be is stored (`AnnouncedStored`,
`HandledStored`), and what is stored is a duplicate. An instance's theorems cannot be
cited by the prover, so the facts about the store are proved again for the
instance (`StoreSound`). That an issue counts no more events than its SDKs have for it takes
three facts that are inductive together: every row of `events` is an occurrence in some
envelope (`EventsExplained`), `event_count` is no more than the rows of the issue
(`CountsBounded`; `SaveEvent` adds one of each), and before retention no row goes away.
`TypeCorrect` has to show that the count in a notice is positive although `Notify` reads
it after the transaction (`CountsPositive`).

**AlertDeliveryProofs**: `TypeCorrect`, `SnapshotCurrent`, `QueuedOnce`,
their conjunction `LoopAlone`, `NoEarlyDeadLetter`, `SettledForGood`,
`BroughtInTime` and `SuccessIsFinal`. What makes the update by id from a
snapshot sound is that nobody but the loop touches a row once it exists
(`BatchIsCurrent`), which holds because a row's goroutine has ended
(`RowsAreHandedOver`), so that there is one row per alert. A dead letter is earned
because a pending row has attempts left (`PendingHaveAttempts`), no attempt is recorded
that did not fail (`FailuresCounted`), and a call of the loop belongs to the head of a
batch (`LoopIdle`). A working target is served before the deadline because
`MultiNotifier` goes on after a refusal: as long as a call is not late, every working
target it has passed has the alert (`CallsBring`), and when it is over it has passed them
all. What got through is not sent again because an alert that was notified, and whose
delivery was not forgotten, has no pending row but the one that is about to be recorded
(`NotifiedIsSettled`): a forgotten one is one whose recording fell to a stop, a canceled
context or a failed write. Neither theorem needs an assumption beyond those on the
constants; `BroughtInTime` says nothing of a call that misses its deadline, and
`alert_stalled` shows what becomes of a working target then.

The last theorem of the module is `PromiseKept`, the refinement of `AlertSpec`. On top of
the invariant above it needs that an alert whose goroutine is done and that has no row
was notified, and so was the alert of a delivered row (`NotifiedKnown`), and that
a server stops only where `MayLose` allows it (`StoppingAllowed`).

**RateLimiterProofs**: `TypeCorrect`, `NeverTooMany`, `PatienceRewarded`,
`PromiseKept`, for every `Rate`, `Token`, `StaleAfter` that fills a bucket
(`LimiterAssumption`, true of both limiters `serve` makes) and every
`Burst >= 1`. The last is needed: see what is said of `-ingest-rate-limit` below. The strengthening is
stated over the credit a key has *now* (`Credit`), not over what its bucket
contains: what a client was granted and the credit it has left never exceed a
burst and what the time brought; and a client that was granted nothing has at least the
smaller of a burst and what the time brought.

**ArtifactsProofs**: `TypeCorrect`, `FoundUniquely` and `PageConsistent`, for any
number of projects, builds and frames, and whatever the maps say; `MapRead` and
`ReadAsBuilt`, for every map a bundler may write (`IsMap`: any number of lines and of
segments with one, four or five fields, any natural numbers in them, columns that do not
decrease in a line) and every column of it. A path leads to one artifact because no release has
two rows (`ReleasesUnique`), which `CreateRelease` keeps. A page goes by one content
per file (`GoesBy`): what its cache holds and what its frames show follow from a
content the file had since the page began (`held`) or from none, and as long as the
file is not in the cache no frame of it has been resolved.

`MapsReadRight` has no step to preserve it: `ArtifactsAssumption` says that what a bundler
built is the encoding of a map, so that the property is about `Parse` and `Resolve` alone,
and the proof is about their loops, from the inside out. It rests on the same lemmas of
induction as GroupingProofs below, repeated here because that module is about other
variables.

- *A number.* `VLQ` recurs on `n \div 32`, which is no induction by one: `VLQPrefixes`
  shows that a function solves its equation up to any number, `VLQUnique` that such
  functions agree, `VLQFacts` that `VLQ` is one. `NumberRead`: from whatever state
  `decodeVLQ`'s loop is in (`Within`: a result so far, a weight), the digits of `n` in a
  row add `n` times the weight and end the number (`Behind`). The weight has to be any,
  because the rest of a number is read with a larger one.
- *A segment.* `FlattenPrefixes` and `GathersPlaces` say where each number stands in the
  text of a segment, `ValuesRead` that the text is read to the values put in.
- *A field.* `PreviousInLine` and `PreviousInNextLine` turn "the last segment before this
  one that has the field" into what one segment or the end of a line does to it, which is
  what the loop's four running variables do (`SegmentRead`).
- *A line, a map.* Between two segments and between two lines the states are known
  (`Between`, `AtLine`): the part of the map read so far and the fields as they last
  were. They satisfy the equations of the loops, which have one solution
  (`SegmentsReach`, `ParseReach`), so `MapParsed`: `Parse(Encoded(map))` is `map`.
- *A position.* `SearchRight`: where columns do not decrease, the segments up to the index
  `sort.Search` leads to are those that begin at the column or before, so
  `ResolvedAsMeant`.

**LifecycleProofs**: `TypeCorrect`, `TransactionsAtomic`, `NeverLockedAlone` and
`StopGraceful`, for any number of callers and any size of the reader pool, in the
foreground and as a service. The strengthening (`PoolInv`): one caller at most has the
writer (`OneWriter`), `gc` and a transaction that wrote exclude each other
(`LockHeld`), and while no other process has written a transaction's snapshot is
current (`Undisturbed`), so that it is never refused. A drained stop is graceful because
`FinishDrain` waits for every handler to be idle, `Accept` lets nobody in after it, and
what becomes of `ending` says how the process got where it is (`EndingKnown`).

**FramingProofs**: `ReadBack` and `CutRead`, for any payloads that satisfy
`FramingAssumption` (an implicit one has no line feed and no carriage return; one with a
length may contain anything, line ends and whole envelopes included), any number of items,
and a body cut after any byte. The properties say nothing of where the reader is, which is
what decides whether it goes wrong, so the invariant `IInv` has three parts:

- The body is laid out as it was written (`WellWritten`): item `i` is an object, a line
  end, its payload and a line end, from `Start(i)` to `End(i)`. `Writes` shows that another
  item leaves those before it where they are.
- `arrived` is a place in the body.
- The reader is where it should be (`Reading`): it has read `k` items as they were written,
  and what is left begins at item `k + 1` or at the line end behind the payload of item
  `k` (`Place`), which `consumeNewline` leaves where lines end in CR, LF; or it has
  finished with all that arrived, or with an item cut short (`CutItem`).

`LineRead` and `LineCut` say what `readLine` returns at a place of the body, with the
line's end among what arrived and without. From these `Seen` lists what the reader can have
in front of it: nothing, a line end, half of a header or a header. Then each
action leads from a place to a place.

**GroupingProofs**: `GroupedRight`, `ReadAsMeant`, `SameIssueIffAlike` and
`TitleOfGroup`, for any events that satisfy `SentAssumption`, with any number of
frames, exceptions, threads and tags. The invariant is short: an event is stored with
the issue of its fingerprint and is what its SDK sent (`StoredAsSent`), an issue is titled
by one of its events (`TitledByMember`), and only what is no event is skipped
(`OnlyBrokenSkipped`). The work is in what the operators compute, from the bottom up:

- *Induction.* The library's induction theorems take an operator as a parameter, which no
  prover here can instantiate. A statement about all numbers up to `N` is made one
  about a set instead: the numbers for which it fails have a least element
  (`LeastElement`, from the well-foundedness of `<`), so there are none (`UpTo`). The same
  lemma, on the set of numbers up to which a function exists that follows a recursive
  definition, shows that `f[n \in 0 .. N] == ...` defines one (`Recursive`).
- *A fingerprint forgets nothing.* `FlattenPrefixes` says what `FlattenSeq` returns,
  prefix by prefix. `JoinInjective`: components that contain no NUL are equal if the joined
  texts are, also where some are empty; `PairsInjective`: so are call paths if the
  sequences of their modules and functions are.
- *Collapsing.* `CollapseRuns` gives every collapsed site the run of frames it stands for,
  from which a matching of the frames of two stacks can be read off
  (`CollapsedMatch`). Conversely a matching forces the collapsed paths to be equal
  (`MatchedCollapse`), by following both from the end. `CollapseIffSamePath` puts them
  together with the choice of the frames that count.
- *Reading.* `ListRead`, `ThreadsRead`, `TextRead`, `TagsRead` and, for all fields
  together, `ParsedAsMeant`: a form is read as what was written in it.

`DescribedIffAlike` joins the two halves: fingerprints are equal exactly if the events
are about the same bug. `TitleOfGroup` needs that an exception has a type or a value
(`ExceptionsNamed`): see below for one that has neither.

Only model-checked:

- liveness (`EveryRowSettles`, `EveryAlertSettles`, `EveryOpeningAnnounced`,
  `EveryCallEnds`, `EveryStopEnds`): TLAPS has no rules for fairness or `ENABLED`.

Every other property of a passing run is stated by a theorem.

## What the runs found

Each is a run that TLC ends with a counterexample, of a sentence the repository
says of itself; PROJECT.json has the quotations.

1. `store_zone`: `DeleteOldEvents` formats its cutoff in the local zone and
   compares it with UTC text. East of UTC events go hours too early, west too late.
2. `alert_dropped`: "If that first attempt fails, it's no longer dropped" fails
   when a graceful shutdown falls between the attempt and the enqueueing.
3. `alert_stalled`: "a slow or unreachable notifier must not stall the loop" and "one
   down notifier ... must not prevent a working webhook from firing". All targets of a
   call share one deadline, the mail server is tried first, and `SMTPNotifier` ignores the
   deadline. The run has both halves: in the first attempt the mail server answers late,
   and the webhook, which works, fails at once on the deadline that is over; in the
   retry it says nothing at all, and the only retry loop waits for it for ever, with every
   row behind it.
4. `busy`: "if a query ever does contend ... wait up to 5s for the lock instead of
   failing immediately" does not hold of `SaveEvent`. Its transaction reads before it
   writes, and SQLite lets such a transaction not wait for the lock, so that an event
   that arrives while `gc` runs may be answered with a 500.

Smaller, without a run of their own:

- An alert exists only in memory between `SaveEvent`'s commit and the end of
  `notifyAsync`, and the resent event is a duplicate that raises none: a crash there
  loses it for good. `OpeningsMatchAlerts` and `EveryOpeningAnnounced` therefore
  except crashes; without the exception TLC refutes both. SIGTERM, which systemd and
  launchd send, is such a crash, as `serve` handles `os.Interrupt` only, though
  `docs/self-hosting.md` describes a graceful stop.
- `int(rate*3)` is 0 for rates below a third, and a bucket that starts at minus one
  never fills: with `-ingest-rate-limit 0.3` everything after a client's first request
  is refused. `PatientAllowed` is stated for bursts of at least one.
- The comment of `SaveEvent` promises that a pair of
  project and event id is counted once; that holds until retention first deletes the
  row the check relies on, after which a resent event is stored and counted again. Hence
  the `now < Retention` in `Ingest`'s invariants.
- A plain body over `maxEnvelopeSize`, or one that unzips to more, is not refused, as an
  artifact of that size is, but shortened: an event without a length that the cut hits
  no longer parses and is skipped, and the SDK gets its 200 all the same.
- `Title` passes over an exception without type and value and takes the message,
  while `Fingerprint` still groups by the exception: two such events with different
  messages are one issue, titled by the message of the first, although the comment says
  that "the title always describes what was actually grouped on". `TitleOfGroup` therefore
  has `ExceptionsNamed` as its hypothesis, which holds of the events of `grouping`.
- A tag whose value is a number, or such a parameter of a message or `logentry`, makes
  `ParseEvent` fail, and the event is skipped behind a 200. `FormsAgree` and
  `ReadAsMeant` speak of the listed `Forms`, to which these do not belong.
- A delivered alert may be sent again after a graceful shutdown: the outcome of a
  redelivery is recorded with the context that shutdown cancels first, so the row stays
  pending, although `docs/architecture/alerting.md` says that it "stops showing up in
  `DueAlerts`". `SuccessNotRepeated` therefore excepts the alerts a delivery of which was
  never recorded (`unrecorded`), and nothing else; without the exception TLC refutes it.
- An alert that several targets are to get is retried for all of them if one fails: a
  target that accepted it gets it again with each retry. The outbox has no row per target.

## What is not modelled

Unzipping, the extraction of the key and the JSON endpoints, which end before they
touch the store or only read it; admin authentication and the order of the middleware;
the SMTP and webhook exchanges (`AlertDelivery` keeps whether they are accepted, refused,
late or never answered); configuration and templates; `VACUUM INTO`, which is SQLite's own snapshot; the
Windows service installation; the building of the server before it listens; the
development tools under `tools/`. Of SQLite the models keep who may write when and what
a transaction sees, not its files (nor the shared-cache mode of `:memory:`, which the
tests use): a crash of the machine that loses a commit WAL had
not synchronized is left out. Fields of an event that no decision depends on are left
out of `EventParsing`.

## The plan

| step | modules | about |
|---|---|---|
| done | `IssueStore`, `AlertOutbox`, `AlertDelivery`, `AlertSpec`, `Ingest`, `RateLimiter`, `TokenBucket`, `Artifacts`, `ConnectionPools`, `Lifecycle`, `EnvelopeFraming`, `EventParsing`, `Grouping`, `SourceMap`, and their proofs | the core, source maps, parsing and grouping, pools and the end of the server |
| 1 | `Pipeline`: `Ingest` with `AlertDelivery` | from the event to the delivered alert; an issue ignored while its alert waits; a crash anywhere |
| 2 | `Gate` | the order of limiter, authentication and handler in front of the management API and ingest |
