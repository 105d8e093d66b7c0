# DuckStream in TLA+

DuckStream is a Go server that turns SQL queries over append-only DuckDB tables
into streams: rows are posted over HTTP, each registered query polls its table
with a cursor, and new rows go out over QUIC. This directory models its core as
state machines, checks them with TLC on small instances, and proves the most
important facts about them with TLAPS for all values of the constants.

Contents: [the system](#the-system), [the modules](#the-modules),
[the runs](#the-runs), [what is proved](#what-is-proved),
[where the code and its documents disagree](#where-the-code-and-its-documents-disagree),
[what is not modelled](#what-is-not-modelled), [the plan](#the-plan).

## The system

| Component | Source | State | Operations | What is hard |
|---|---|---|---|---|
| Query executor | `internal/query/executor.go` | `running`, `plan`, `stopCh`, `StreamState` (cursor, rows sent) | `Start`, `run`, `poll`, `Stop` | polls race with commits, failing sends, cancellation |
| Query manager | `internal/query/manager.go` | `queries`, one lock | `Register`, `Unregister`, `List`, state getters | the lock is held while the plan compiles and the executor starts |
| QUIC connections | `internal/quic/server.go` | `sessions` by remote address, `activeClients` | `acceptLoop`, `RemoveSession`, `Session.Run` | counting, address reuse, connections lost at any moment |
| QUIC delivery | `internal/quic/server.go`, `cmd/main.go` | `streams`, `activeStreams` of a session | `sender.SendToQuery`, `Session.SendToQuery`, `OpenStreamSync` | many senders, limits checked before they are counted, calls that wait for the client |
| Ingestion | `internal/duckdb/ingest.go`, `client.go` | `buffer`, `lastFlush`; tables and sequences in DuckDB | `Handle`, `flush`, `InsertEvents`, `InsertRow` | concurrent flushes, failing transactions, ids against commits |
| Stream plan compiler | `internal/query/streamplan.go` | none | `CompileStreamPlan` and its checks, `BuildStreamingSQL` | a SQL parser made of string searches |
| HTTP API and SSE | `internal/httpapi/handler.go` | subscriber maps | register, unregister, list, metrics, streams | maps shared between goroutines, readings taken at different moments, waits for the manager's lock |
| REPL | `internal/repl/repl.go` | none | parses lines, calls the manager, ends the process | one pattern for a grammar with optional clauses |
| Metrics, protocol, configuration | `internal/metrics`, `internal/protocol`, `internal/config` | atomic counters; none; constants | increments; frame encoding | nothing |
| Process | `cmd/main.go` | the context | wiring, `/exec`, the signal handler | shutdown runs beside everything else |
| Demo client, dashboard | `cmd/demo`, `frontend` | outside the server | | |

How they interact: HTTP handlers and the REPL call `Manager.Register`, which
compiles a plan and starts an executor *inside its lock*. The executor's
goroutine reads DuckDB and calls `sender.SendToQuery`, which walks a snapshot of
the QUIC sessions until one takes the frame. Ingestion writes the tables the
executors read; nothing but the cursor connects the two. `Unregister` cancels
the executor's context, closes its stop channel and forgets it without waiting.

What makes each correct:

- executor: the cursor passes no row unsent; what is sent twice is sent for a
  known reason; the reported count is right; every row is delivered unless a
  batch the cursor cannot pass is in front of it; a cancelled query ends unless a
  client holds it;
- manager: no goroutine escapes it, no id has two, its limit bounds goroutines,
  and nobody but an unresponsive client can keep its lock;
- connections: the map lists the running sessions, the limit holds, refusals are
  justified;
- delivery: limits hold under racing senders, a send fails only for a reason and
  comes back unless a client holds it; every row the cursor passes was written to
  a client, a client reads forward, and twice only for a known reason;
- ingestion: each event is in one place, a full buffer is being flushed, ids
  become visible in order but for overlapping transactions, and answers are true;
- plan compiler: what the documents forbid is refused, what they allow accepted,
  the plan means what the statement meant, and what is accepted can be polled
  (each with exceptions, which the properties name);
- HTTP: a subscriber is found while it is there and forgotten when it goes, the
  loop comes round, the readings of `/metrics` belong together.

`PROJECT.json` lists the hazards one by one with their lines.

## The modules

| Module | Models | Uses |
|---|---|---|
| `CursorStream` | what a subscription promises its reader (abstract) | |
| `Executor` | one executor and its table | instantiates `CursorStream` |
| `ExecutorProofs` | theorems about `Executor` | instantiates `Incarnation` |
| `MCExecutor` | an instance: six rows | |
| `Delivery` | the executor, the sender and the connections, up to what clients read | extends `Executor` |
| `DeliveryProofs` | theorems about `Delivery` | extends `ExecutorProofs` |
| `MCDelivery` | four rows with a tie, two clients, alike as far as they are | |
| `ManagerView` | what the rest of the server sees of the manager (abstract) | |
| `QueryManager` | the manager, its callers and all executors ever made | instantiates `ManagerView` |
| `Metrics` | a scrape of `/metrics` | extends `QueryManager` |
| `MCMetrics` | three ids that are alike | |
| `QueryManagerProofs` | theorems about `QueryManager` and `Metrics` | extends `Metrics`, instantiates `Incarnation` |
| `Incarnation` | the life of an executor, as its manager may rely on it (abstract) | |
| `SseHub` | the event streams and `broadcastLoop` beside the manager | extends `ManagerView` |
| `SseHubProofs` | theorems about `SseHub` | |
| `MCSseHub` | two streams of one query, one of events | |
| `SessionRegistry` | the accept loop and the sessions' goroutines | |
| `SessionRegistryProofs` | theorems about `SessionRegistry` | |
| `MCSessionRegistry` | four connections, two of one address | |
| `QuicDelivery` | senders over the sessions | extends `SessionRegistry` |
| `QuicDeliveryProofs` | theorems about `QuicDelivery` | extends `SessionRegistryProofs` |
| `MCQuicDelivery` | two clients, two senders, two queries | |
| `Ingest` | the ingest handlers, DuckDB's transactions and sequence, shutdown | |
| `IngestProofs` | theorems about `Ingest` | |
| `MCIngest` | four posts, those of one endpoint alike | |
| `Statement` | texts, the grammar of the documents, and what an author means | |
| `Registration` | from a submitted statement to the first poll of its plan | extends `Statement` |
| `RegistrationProofs` | theorems about `Registration` | |
| `MCRegistration` | 14,460 requests | |

Every module names, at its head, a few operators that are faulty versions of
others (a lost guard, a swapped order). No specification uses them; each is put
in the place of the operator it spoils to see that a property notices.

### Executor

One query from `Start` to the end of its goroutine. `pc` is the place in `run`
and `poll`: `select`, then `scan`, `send`, `advance` of a poll in progress, or
one of `Telling`, in a send of a frame without rows. Such a send goes through the
same `SendToQuery` as a batch and may wait for a client as long; whether a session
takes it or none does comes to the same.

| Action | Code |
|---|---|
| `StartBeginning`, `StartNow`, `StartFails` | `Start`, `initializeStreamState`, `getMaxCursor` |
| `PollFetch` | `QueryContext` on the statement of `BuildStreamingSQL`: matching rows above the cursor, ordered, limited; rows of equal value come in any order |
| `PollFails` | every early return of `poll` before the row loop, up to its `sendError` |
| `Scan` | the row loop: rows that do not scan are reported, counted and skipped; a cancelled context or an error of the driver ends it early, for `rows.Err` is never asked |
| `SendOk`, `SendFails` | `SendToQuery` returns; after an error `poll` sends another frame |
| `Told` | `sendError` returns and the error is counted, or the last frame has gone out |
| `Advance` | the update of cursor and `RowsSent`, skipped when the last value does not parse |
| `Cancel`, `Stop` | the two calls of `Unregister` |
| `RunCancelled`, `RunStopped` | the two exits of the select, up to the last frame |
| `Commit` | a row becomes visible in the table |

A row is a model value with a cursor value, whether it matches the `WHERE`
clause, whether it scans, whether its cursor parses. `Order` says how commits
are ordered along the cursor: `strict` (what `docs/queries.md` asks of an id),
`monotone` (what it asks of a timestamp) or `arbitrary` (what concurrent
transactions do, see `Ingest`). A poll that finds nothing changes nothing and is
not an action. `StreamState.ErrorCount` is not modelled: the code never changes
it, although `docs/STARTMODE_INITIALIZATION.md` calls it "Total errors
encountered". `errors` is what the query adds to the global counter. The variables
`floor`, `accepted`, `resent` and `late` are history: no guard reads them.

### Delivery

`Executor` says when a send succeeds or fails; `Delivery` says what that means
for a client. All the executor's steps but the two ends of its send are
`ExecutorStep`. The send itself is that of `sender.SendToQuery`: a snapshot of the
sessions, then one after another refuses (`QuicDelivery` has the reasons) or
begins a write; `Written` ends the loop, `WriteFails` goes to the next session,
`NoTaker` is the error `poll` sees. A batch is on the wire from the beginning of
its write, so that a client may read it, and the connection drop, before the
write returns. `Drop` loses what is on the wire: the connection ends, or its
client stops the query's stream, which for this query comes to the same, since the
session keeps the dead stream and every later write to it fails. Error frames
carry no rows and are left out.

### QueryManager

`Register` and `Unregister` with the lock as a variable, in the steps at which
others can see something: the id is reserved by the lock while `CompileStreamPlan`
runs, the executor starts, its initialisation fails or not, a failure is
reported to some client, the entry is published. Every `Register` makes a new
*incarnation*; it fetches, sends, fails and leaves beside the manager. Each of its
sends is a state of its own (`holding` a batch, `telling` an error, `leaving` with
a last frame), since each may wait for a client. `MaxRegs` bounds how many are
ever made.

`ManagerView` is the manager with everything inside left out: the ids `List`
returns, and a lock that is free, held, or held by one who waits for a client.
`QueryManager` implements it (`ImplementsManagerView`, with its fairness), and
`SseHub` is built on it, so that what is shown of the hub holds beside the real
manager.

### Metrics and SseHub

`Metrics` adds to `QueryManager` a handler that reads the two counters, the list
and the states, each at its own moment. `GetState` copies under the executor's
lock, so that one state is never torn.

In `SseHub` a viewer is one request for `/stream/queries/{id}` or
`/stream/events`. It enters its map in two steps, because another goroutine may
see the map while it is being written; it lists, watches, and leaves when its
client hangs up. `broadcastLoop` lists the queries, then for each looks up the
map under the lock and walks it without: the walk sees entries added meanwhile or
not, as Go's `range` may. If a viewer is writing to the map that is walked,
`Collide` ends the process, as the Go runtime may.

### SessionRegistry and QuicDelivery

A connection is dialled, queued, refused or admitted (counted, not yet in the
map), running (in the map), leaving (`RemoveSession` has run) and left (the
deferred function has subtracted once more). `AddrOf` gives two connections one
address. `crossed` is history: the sessions that overlapped with another of
their address.

`QuicDelivery` adds the senders: a snapshot of the sessions, then for each the
room check, the lookup, the second room check, the count, the wait for the
stream, the entry in the map and the write, each a step of its own because
another goroutine can come between. `PeerLimit` is how many streams a client
lets the server open; a client outside `Readers` may leave a write waiting. A
client in `Stoppers` may stop a stream (STOP_SENDING) and stay connected: the
write that finds out fails, the session keeps the stream, and later writes fail
too. If racing senders opened two streams for the query, the one that is kept may
be the stopped one or not.

### Ingest

`/ingest` appends to the buffer under the lock, then the same goroutine may
flush; `flush` takes the whole buffer under the lock and inserts it row by row
in one transaction. `/ingest/events` inserts in a transaction of its own. A
row's id is drawn when it is inserted, and visible when the transaction
commits; a failed transaction keeps its ids drawn. The signal handler flushes
while `main` may return; `QUIT` at the prompt ends the process with no flush.
`crossed` is history: the pairs of events of which one drew its id while the
other had drawn one and was not committed.

### Registration

The compiler works on strings, with searches for `" FROM "`, `" WHERE "` and
parentheses, some in the text as it came and some in a copy with white space
collapsed. What tells its cases apart is which words follow one another and what
lies between them, so a text is a sequence of words, each with the gap before it
(`none`, `one` space, `wide`, `line`). Keywords, names, punctuation and
expressions without parentheses are single words. Of the letters of a word only
that matters which a search can catch: `BeginLike` and `EndLike` say which words
begin or end like a keyword, as `nowcast` and `valid_from` do.
The module follows one request: the REPL's pattern or the HTTP fields,
`validateSQL`, `parseSQL`, the choice of the cursor column, and what the database
and the executor make of the plan at its first poll. Registration looks at no
column and no expression, so which words the database cannot bind over the bare
table is part of a request (`unbound`): an unknown column, a comparison it cannot
type, a `?` that is one placeholder more than the program fills. What is left of a
projection that was cut short may be a projection or not, and both are tried.

The other side is `Statement`: what a client asks for, by the documents. A
request is a record of the front end, the text, the places `at` which its source,
its condition and the rest begin, the fields of the HTTP form, and the schema of
the table and the words it does not bind; from it `MeantTable`, `MeantCursor`,
`MeantMode`, `Projected`, `Filter` and `Constructs` say what its author wanted.
The properties compare that with what came out. Which texts there are is a constant, `Requests`, of which
`RegistrationAssumption` asks only that they follow the grammar of
docs/queries.md:36-40 (`Grammatical`): words of any kind and number in the
projection, the source and the condition, keywords inside parentheses or quotes
among them, in any layout that leaves white space around the clauses' keywords,
except behind SELECT, where a `*` needs none. A statement with a subquery need
only have its parts in order.
The other half of the assumption is that no table is called `NOW`, `BEGINNING` or
nothing, and no `FROM` or `BEGINNING` begins like `NOW`. `MCRegistration` puts such requests together from heads, sources,
conditions and tails.

## The runs

| Run | Configuration | Result | Shows |
|---|---|---|---|
| `executor_strict` | `MCExecutor_strict.cfg` | holds, 56,976 states | no gap, exact count, reported skips, refinement, delivery, termination |
| `delivery` | `MCDelivery.cfg` | holds, 1,947,242 states | with ties and late commits: why rows are lost or repeated, and what clients read |
| `delivery_reconnect` | `MCDelivery_reconnect.cfg` | `ResentOnReconnect` fails | a batch in a dropped connection's buffer is lost |
| `sessions` | `MCSessionRegistry.cfg` | holds, 6,885 states | the map, the count, refusals, departures |
| `quic_delivery` | `MCQuicDelivery.cfg` | holds, 1,328,071 states, about two minutes | limits, failures and waiting under racing senders |
| `manager` | `MCQueryManager.cfg` | holds, 278,497 states, a minute and a half | no orphan, capacity, last batch, termination, refinement |
| `manager_zombie` | `MCQueryManager_zombie.cfg` | `RegisteredMeansRunning` fails | a registered query without a goroutine |
| `metrics` | `MCMetrics.cfg` | holds, 3,125,760 states | how far the readings of a scrape are apart |
| `ingest` | `MCIngest.cfg` | holds, 1,806,592 states | each event in one place, buffer bound, answers, order of ids |
| `sse_hub` | `MCSseHub.cfg` | holds, 74,112 states, about two minutes | who is in which map, who is forgotten, who comes back |
| `http_crash` | `MCSseHub_crash.cfg` | `NeverCrashes` fails | a map walked while it is written |
| `registration` | `MCRegistration.cfg` | holds, 72,515 states, about a minute | verdicts, plans, failing polls |

A run is repeated with `tlc -workers 2 -config <cfg> <module>`, for example
`tlc -workers 2 -config MCExecutor_strict.cfg MCExecutor`. State counts are
after symmetry, where a configuration uses it (clients, rows or query ids that are
alike, requests to one endpoint); no run with symmetry has a liveness property.

The type invariants `ChannelTypeOK`, `DeliveryTypeOK`, `HubTypeOK` and
`IngestTypeOK` are no part of these runs: they are proved, and the inductive
invariants below rest on them.

### Bounds

- Executor: six rows and a batch of two. Two rows fill a batch, so three polls
  are needed, a `LIMIT` cuts between rows, one row does not match, one does not
  scan, one does not parse, and a row can lie at the starting position. The row
  that does not parse can end a batch with another row behind it, which is then
  never reached: the third way out of `RowsDelivered`. The error counter saturates
  at `MaxErrors`; only `SkipsReported` reads it.
- Delivery, end to end: four rows in batches of two, committed in any order, two
  of one cursor value and one that does not parse, so that ties, late commits,
  parse failures and `LIMIT` meet; two clients, each of which may drop with up to
  `Window` batches unread, one having been refused or broken before the other.
- Registry: four connections and a limit of two: the limit is reached, passed,
  and reached again after departures; two connections share an address.
- QUIC delivery: two clients, two senders, one of them for both queries: both can
  work on one query or on two, on one session or on two. The stream limit of two
  lets one query fill it with the other waiting. The first client allows any
  stream, need not read it and may stop it; the second reads but allows none, so
  that a sender waits in the opening there.
- Manager: three ids for two places, three incarnations: one id can be
  registered twice over with another beside it. Both callers can be anywhere
  the lock lets them.
- Metrics: as the manager, with one caller, who may be anywhere between any two
  of the readings.
- Ingest: four events, one of them direct, a batch of two: several handlers
  flush at once and meet an empty, a full or an over-full buffer.
- SSE hub: two streams of one query are enough for one to write while the loop
  walks and the other waits; one stream of events; each request is made once.
  `ChanSize` is one ping instead of a hundred.
- Registration: of each of six parts (white space in front, projection, `FROM`,
  source, condition, what comes behind) there are the usual forms and others: one
  of each construct the documents forbid, and those that a string search mistakes,
  such as a keyword in parentheses or quotes, a `FROM` in small letters or on a
  line of its own, a second table, a name that begins or ends like a keyword. All
  requests are there in which at most two parts are not usual, through both front
  ends (one line only for the REPL), since each search reads one part and can be
  misled by another; and every schema, hint and mode for statements in the usual
  layout. Each exception the three properties make is needed for some of these
  requests.

Deadlock is not checked: each system may rest, since nobody has to send, dial,
commit or register.

### Fairness

- Executor: the goroutine runs and its ticker fires; the database may fail again
  and again, but not for ever (strong fairness of `PollFetch`); Go's select chooses
  at random among ready cases, so an exit that stays ready is begun (strong
  fairness of `Exit`, for polls may make the goroutine leave the select again and
  again). Whatever sends a frame has no fairness: `Scan`, which may have a row to
  report, `SendOk`, `SendFails`, and `Told`, with the last frames of a cancelled
  query and the error of a failed start. `OpenStreamSync` and `Write` wait as long as
  a live client wants. So `ExitsAfterCancel` says that a cancelled query ends *or*
  hangs in one send for ever, and `RowsDelivered` has the clients' and the driver's
  good will as a premise (`Served`). Commits, `Cancel` and `Stop` owe nobody
  anything.
- Registry: the accept loop and `Run` goroutines run. Clients need not dial or
  hang up.
- Delivery: a sender keeps going, except in a write to a client that neither
  reads nor stops the stream. It is not assumed that a client allows a stream.
- End-to-end delivery: none, it has only safety properties.
- Manager: the lock holder and the choice to leave (strong fairness of `Leave`).
  `Reported`, `SendBatch`, `Fail` and `Told`, which wait for clients, have none;
  `CancelledEnds`, like `ExitsAfterCancel`, names the sends in which a cancelled
  executor may hang.
- SSE hub: handlers and the loop run. The manager takes its lock again and again,
  and a reader waiting for an `RWMutex` gets in when the writer before it lets
  go: strong fairness of `Listed` and `LoopList`. A `select` with a tick and a
  hang-up both ready picks at random: strong fairness of `Leave` for the streams
  of events. Of the manager only what `ManagerView` promises and `QueryManager`
  is shown to keep; a holder that waits for a client is an exception in both
  liveness properties (`Excused`).
- Ingest, Registration, Metrics: none.

## What is proved

`tlapm` checks every proof to its last leaf; nothing is assumed but the named
assumptions on the constants (`ExecutorAssumption`, `RegistryAssumption`,
`ManagerAssumption`, `DeliveryAssumption` and the like), which TLC evaluates in
the runs. Where a module extends another, the first theorem about it is that it
leaves the other's behaviour alone (`DeliveryRefinesExecutor`,
`SendersLeaveRegistry`, `MetricsRefinesManager`), so that the other's invariants
need not be proved again.

**Executor**, for every finite set of rows, batch size and choice of rows that
match, scan and parse. The cursor is all that a query remembers, so the invariant
`IInv` says what the cursor is worth and, to carry that over an `Advance`, what
a batch is worth while a poll holds it: `Held` (what is held or accepted is
committed, above the floor, and above the cursor for the batch) and `NoHole` (no
deliverable row between the cursor and a row of the batch is missing from it,
unless it is tied or late). `NoHole` is needed because rows are committed
between the fetch and the advance.

- `TypeCorrect`, `LossIsTieOrLate`, `CursorEvidence`, `CursorMonotone`: for any
  order of commits;
- `ResendIsParseFailure`: by `Above`, accepted rows above the cursor are in the
  batch being retired;
- `AtLeastOnce`, `CountIsExact` and `Refinement` (every step is a step of
  `CursorStream` or changes nothing of it): with `Order = "strict"`, where
  `SInv` adds that nothing is tied and nothing late;
- `NoSilentSkip`, also `strict`: a poll that has not scanned yet misses no row
  (`Whole`), so what its scan drops between two rows it has also counted;
- `LossIsTie`: with `Order = "monotone"` a late row is a tied one (`LateIsTied`),
  so that ties are the only loss left;
- `OnceIfStrict`: what docs/queries.md:30 claims of ids and timestamps alike,
  "rows are delivered exactly once", holds of the executor if the values increase
  strictly and all parse.

**Delivery**, for any number of connections, whatever the order of commits. What
the executor calls accepted was written to some connection (`Vouched`), from
which with the executor's `LossNeedsTieOrLateCommit` follows `NothingElseIsLost`.
`TwiceIsBrokenWrite` needs to know where the rows written to a connection come
from (`Traced`), `ClientsReadForward` that what is on the wire to a client lies
above what it has read, unless a cursor did not parse (`Ascending`).
`OnceToClientsIfStrict` carries `OnceIfStrict` to the clients: each row the cursor
has passed was written to one, and a row is written twice only if a write of it
broke. Being written is not being read (`delivery_reconnect`).

**SessionRegistry**, for any number of connections, addresses and clients
allowed. The count is `|live| - |departed|` (`CountExact`): a departure takes
two off where its arrival added one. From it follow `OvershootIsBounded` and
`RefusalIsJustified`; `CountDrifts` states it by itself. `ListedIsRunning` and
`RunningIsReachable` need to know that two running sessions of one address are
both in `crossed`. `ReachableIfApart` says the same without history: if no two
connections ever have one address, nothing crosses, and the map leads to every
running session.

**QueryManager**, for any number of ids, callers and incarnations.
`MInv` follows an incarnation through the hands of the lock holder:
`HolderSound` says what the holder's place means, `EntriesSound` what an entry
leads to. `NoneOrphaned`, `OneLastBatch`, and `CapacityIsRespected`, by an
injection of the uncancelled goroutines into the registered ids and the one
being published, for which `WithinLimit` keeps a place.

`RegisteredRuns` is the other side of the finding `RegisteredMeansRunning`: an
executor that failed to start is the *only* dead entry the table can have, because
an incarnation that ended was told to (`EndedTold`), and one that was told to is
on its way out of the table (`EntriesSound`).

`ManagerIsWhatItLooks` is the safety half of `ImplementsManagerView`: every step
is, from outside the lock, one `ManagerView` allows.

**Between executor and manager.** The executors of `QueryManager` are reduced to
the places where they start, hold a batch, wait in a send and end. That real ones
do nothing else to their manager is not assumed but proved. `Incarnation` is the
interface: `IncarnationsLive` says that each incarnation of `QueryManager` lives by
it, `ExecutorIsIncarnation` that `Executor`, with its polls, errors and retries,
does too. An executor that ended by itself, fetched after its context was
cancelled or had two batches in hand would break the second, and with it what
`NoOrphan` and `AtMostOneBatchAfterCancel` say of the real program.

**Metrics**, on top of the manager. The counters and the table agree after every
step (`CountersExact`), so that a reading can be compared with the counters as
they are now; `ReadingsPast` says within which bounds. An injection of the
entries without a state into the executors that failed gives
`ReadingsAreExplained`.

**QuicDelivery**, for any number of senders, sessions, queries and any limits.
The two bounds hold because a sender does one thing at a time. `Overshoot` adds
to the count of a session the senders between the check and the count, and stays
below the limit plus the number of senders; `OpenedOnce` counts the streams
opened with the senders that may yet open one. `FailureIsJustified` needs
`TriedInVain`: a session left behind is dead, full, or one whose client has
stopped a stream of the query, and remains so, because a connection does not come
back, a count does not fall, and a stopped stream is not opened again.

**Ingest**, for any number of events and handlers. The buffer, the
transactions, the table and the dropped events are disjoint and together hold
what was accepted (`PlaceInv`), whence `EveryEventOnce`; a request to the table
endpoint keeps to its own event until it is in the table (`DirectAckIsTrue`).
Each handler about to flush stands for the one event by which the buffer may be
too long (`BufferIsBounded`); ids are drawn from a counter, so that a row which
becomes visible below another drew its id while the other's transaction was
open, which is what `crossed` records (`DisorderIsOverlap`). `IdsAreDistinct`: a
counter that only rises gives no two rows one id, and a failed transaction takes
its ids with it. Together they say when `Order = "strict"` may be assumed of the
events table: as long as no two transactions overlap.

**SseHub**, for any number of viewers and ids: a viewer's phase says in which
map it is (`PlaceIsMap`), and entering or leaving it moves nobody else
(`OpenStreamIsListed`). `WritersAreAlone`: the locks do keep two handlers from
writing to one map at once, so that in finding 3 the walk is the one to blame.

**Registration**, for every set of requests that follow the grammar and every set
of tables: sources, projections and conditions of any words and any length. The
invariant `StepInv` says what is known of a request at each step: that
the statement handed on is its text up to `KeptLen`, that every check so far
accepted it, and that the plan holds what the searches cut out of it; a refusal
that one of them did not. What remains is to say where a search stops. By
`FirstIsMin` the first `FROM` in the collapsed text is that of the clause unless
one precedes it; from there `SectionIs`, `TableIs`, `WhereIs` and `FilterIs` say
what is cut out, `HintIs` and `NowIsLast` what the REPL's pattern leaves on. A
parenthesis or a quotation cannot hide what `Lexical` keeps inside it, but a
subquery can hide anything: `ReachedRefused` says which ones the search finds, and
`Hidden` names the rest. `NoSubquery` says what else the search takes for one,
`SelectFirst` and `Roomless` where the projection begins and when the slice has no
room, `NowFound` and `NowSaid` when the substring `FROM NOW` is the clause and when
it is something else. From these follow `VerdictIsRight`, `PlanIsFaithful` and
`FailingPollsExplained`.

Only model-checked: everything about liveness (`RowsDelivered`,
`ExitsAfterCancel`, `LostSessionForgotten`, `SendReturns`, `CancelledEnds`,
`ViewerForgotten`, `HubAnswers`, the fairness half of `ImplementsManagerView`),
which is out of the prover's reach. Every safety property of the passing runs
is stated by a theorem.

## Where the code and its documents disagree

Each of these has a run that shows it, and an entry under "findings":

1. README.md:273 "If connection drops after delivery, cursor is not advanced;
   rows are re-sent on reconnect" (and docs/queries.md:131-133): the cursor
   advances when the connection has buffered the batch, and a drop then loses it
   (`delivery_reconnect`).
2. A query whose cursor cannot be initialised is registered without a goroutine
   (`manager_zombie`).
3. `broadcastLoop` walks a map that handlers write to; Go may end the process
   (`http_crash`).

The properties of the other runs say exactly what else was met while modelling:

- `activeClients` loses two for each client that leaves (`server.go:213-214`), so
  more than `MaxClients` get in; `OvershootBounded` says how many more. The
  reading `active_clients` of `/metrics` may be negative.
- At the stream limit a session refuses also the streams it has
  (`server.go:290`): with the default limit of ten, the tenth query's stream
  silences all ten. It is an excuse of `FailureJustified`.
- A stream that its client has stopped stays in the session's map: to that session
  nothing of its query is ever written again (`FailureJustified`).
- One client that does not read, or allows no stream, can hold a cancelled query's
  goroutine in its last frame (`executor.go:153`, `156`) after `Unregister` has
  forgotten it (`ExitsAfterCancel`, `CancelledEnds`).
- A whole batch of which no row scans, or whose last row's cursor does not parse
  (`executor.go:252`), is fetched again for ever, and in the second case sent again
  each time; no row behind it is delivered (`Stuck` in `RowsDelivered`).
- Increasing timestamps are not enough for the cursor, although docs/queries.md:30
  says "Both ensure rows are delivered exactly once": two rows may carry one
  timestamp (`LossNeedsTieOrLateCommit`).
- Ids become visible in another order than they are drawn when transactions
  overlap (`DisorderNeedsOverlap`); a row that does is never sent
  (`LossNeedsTieOrLateCommit` again), although docs/queries.md:21 makes it the
  cursor of the events table.
- The buffer has no timer; docs/configuration.md:20 calls `BatchTimeout` the "Max
  time before flush" and docs/architecture.md:322 draws a "Flush Timer".
- Only one of several clients receives a batch (`DuplicateNeedsBrokenWrite`).
- docs/architecture.md:228 "If a query passes registration, it will never fail
  during polling": it fails whenever the database cannot bind it, since
  registration looks up no column and types no expression (`PollFailureExplained`).
  The documents' own `data ? 'error'` (docs/queries.md:105, 212) is such a query:
  the `?` is taken for a third placeholder. So is a query that does not select its
  cursor column, one laid out with extra white space in front of `FROM`, and the
  grammar's own `WHERE ... FROM BEGINNING` (docs/queries.md:36-40), whose last two
  words become part of the condition.
- docs/queries.md:287-290 says that `SELECT COUNT(*) FROM events` is rejected at
  registration; there is no check of aggregates. It is accepted (`VerdictRight`) and
  then fails at every poll, as a rule for want of a cursor column.
- docs/architecture.md:196-201 forbids subqueries in every clause; those in the
  projection and behind an earlier parenthesis are accepted (`VerdictRight`).
- What nobody forbids is refused: `ORDER BY a, b` without a `WHERE`, whose comma is
  taken for that of a second table (`streamplan.go:195`); a quoted `JOIN` or `OVER`; a
  parenthesis with a word like `selected` behind it; `SELECT* FROM t`
  (`streamplan.go:171-174`). If in the last case a later word ends in `SELECT` and
  is behind the first `FROM`, or next to it, the slice at line 177 is out of range
  and the compiler panics (`VerdictRight`).
- `FROM NOW` is looked for as a substring (`handler.go:127`, `repl.go:126`): a
  `FROM NOW()` inside `EXTRACT`, a table called `nowcast`, a column `valid_from` with
  the alias `nowadays`, or a quotation make a query that asks for the beginning start
  at the end. With two spaces between the words NOW is missed (`PlanFaithful`).
- docs/architecture.md:208-210 looks for a BIGINT `id`, then for `created_at`; an
  `id` of another type hides `created_at` (`VerdictRight`).
- A `WHERE` at the beginning of a line is ignored without a word, although
  docs/queries.md:204-212 and 222-234 lay their examples out like that (those at
  84-97 are found, being indented by two spaces); a `FROM` there, or in small
  letters, is refused; `WITH CURSOR c FROM BEGINNING` loses `c`, and where only `c`
  would have done, the query is refused (`PlanFaithful`, `VerdictRight`).
- A `FROM` inside the projection, as in `EXTRACT(year FROM created_at)`, is taken
  for the clause: in capitals the next word becomes the table, and the query is
  refused; in small letters it is accepted, if no comma follows, and fails at
  every poll (`VerdictRight`, `PollFailureExplained`).

Seen while reading, beyond any property: an executor's last batch may travel on the stream of its
successor with the same id; the answer 200 to `/ingest` precedes the insertion
that docs/architecture.md:76-79 shows before it; `QUIT` ends the server, not just
the prompt; `/stream/queries/{id}` sends no results, and nobody reads the
channels `broadcastLoop` fills; the map of a query nobody watches any more is
never deleted; the demo client opens a stream of its own instead of accepting the
server's, and takes each read for one whole frame.

## What is not modelled

- The wire protocol: five bytes and a payload, no state. Configuration:
  constants of the modules. Start-up of the process, which runs once. The demo
  client and the dashboard, which are outside the server.
- `GET /ingestion/events`, which reads a log, and `/exec`: deletes and updates made
  through it are outside the append-only contract of the documents.
- In `server.go`: `SendToStream`, `handleStream` and streams opened by clients,
  none of which the program reaches (`onData` is never set).
- In `client.go`: `Exec`, `MaxEventID`, schema lookups.
- Rows with a NULL cursor, which neither the poll nor `MAX` sees.
- SQL itself: an expression without parentheses is a word, of which only
  `unbound` says whether the database takes it; columns are not qualified by their
  table; comments are not modelled, and quotations are around words.

## The plan

Done: every component that has behaviour of its own is modelled, and each safety
property the runs check is proved. What could still be added:

1. `Executor` with deletes and updates through `/exec`, should the documents come
   to allow them.
2. `Registration` with comments, and with names qualified by a table.
3. `Delivery` with several executors, for a stream shared by a query and its
   successor of the same id.
