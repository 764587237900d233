# A TLA+ model of the TimescaleDB event streamer

The streamer reads the logical decoding stream of one PostgreSQL replication
slot, turns row changes of vanilla tables and of TimescaleDB hypertables into
events, hands them to a sink (Kafka, NATS, ...), and remembers how far it got, in
a state file and at the server, so that it can resume after a crash. This
directory holds TLA+ modules that model it, TLC configurations that check them on
small instances, and TLAPS proofs of what matters most for all instances.

## The system

### Components, their state, and how they interact

| part | source (under `src/`) | state | operations |
|---|---|---|---|
| receive loop | `internal/replication/replicationchannel/replicationhandler.go` | known relations, last xid, restart LSN | receive, skip, decode, enqueue; send status updates every 5 s and on keepalives |
| task manager | `internal/taskmanager/taskmanager.go`, `internal/containers/unboundedchannel.go` | one unbounded task queue, registered handlers | EnqueueTask, EnqueueTaskAndWait, RunTask, dispatcher loop, shutdown |
| transaction tracker | `internal/replication/logicalreplicationresolver/transactiontracker.go` | the active transaction: queue, deadline, compression and decompression updates, marker flag | On...Event, pushTransactionEntry, drain, startTransaction |
| resolver | `.../replicationresolver.go` | relations, chunk lookup, queues of chunks under snapshot | On...Event, enqueueOrExecute, chunk snapshot hand-off |
| event emitter | `internal/eventing/eventemitting/eventemitter.go` | retry policy | emit with retries, acknowledge |
| replication context | `internal/replication/replicationcontext/replicationcontext.go` | last received, processed, begin, commit LSN | AcknowledgeProcessed, Offset |
| replication connection | `internal/replication/replicationconnection/replicationconnection.go` | connection, slot created? | locateRestartLSN, StartReplication, SendStatusUpdate, slot handling |
| state storage | `spi/statestorage/*.go` | offsets and encoded states, in memory and in a file | Load, Save (timer and stop), Get, Set, SnapshotContextTransaction |
| replication channel, replicator | `.../replicationchannel.go`, `internal/replication/replicator.go` | shutdown flag, stop function | start snapshot or replication, stop |
| snapshotter, watermarks | `internal/systemcatalog/snapshotting`, `spi/watermark` | per-partition queues, low and high watermark per table | EnqueueSnapshot, snapshot of a chunk or of a table in batches |
| system catalog | `internal/systemcatalog` | indexes of tables, hypertables and chunks; tables already handled | register, unregister, catalog events, scheduling of snapshots |
| containers | `internal/containers` | | RelationCache, CasCache, Queue, UnboundedChannel, Channel |
| waiting | `internal/waiting` | one-shot channels | ShutdownAwaiter, Waiter, MultiWaiter |
| publication manager, side channel | `internal/publicationmanager`, `internal/sidechannel` | the publication; short transactions on connections of their own | create, attach, drop; batches, cursors, watermarks |
| sinks and streams | `internal/eventing/sink`, `spi/stream`, `internal/eventing/namingstrategy` | sink context, streams by table | Emit |
| filters | `internal/eventing/eventfiltering`, `internal/systemcatalog/tablefiltering` | parsed patterns, cached answers | Evaluate, Enabled |
| type manager | `internal/typemanager`, `spi/pgtypes` | registered types, converters, decoder plans | resolve, register, decode, convert, marshal |
| event schema | `spi/schema` | builders with parameters | envelopes, keys, column schemas |
| start and stop | `cmd/timescaledb-event-streamer/main.go`, `internal/replication/replicator.go` | shutdown tasks | start, signal, stop |
| encoding, configuration, versions, wiring | `spi/...` | | |

The receive loop and the dispatcher are two goroutines that share the task queue.
Messages are enqueued by the receive loop; the dispatcher runs each task to its
end, and a task may enqueue more tasks: the tracker hands a message to the
resolver, the resolver enqueues the event, and only when the dispatcher reaches
that task is the event emitted and acknowledged. Snapshot workers, one per
partition, enqueue tasks as well and sometimes wait for them. The auto-save
goroutine writes the state file; status updates go to the server from the receive
loop.

### What is hard

* The acknowledged position is a single number, and the streamer may die at any
  point between emitting, acknowledging, saving and reporting.
* Messages arrive in commit order but carry positions in WAL order.
* Messages and events share one queue, and both goroutines append to it.
* The window around a transaction may time out, fill up, or be cut by a restart.
* Snapshot workers, dispatcher and scheduler wait for each other.
* The catalog is read while the WAL already contains later changes of it.

### What makes each part correct

* Delivery path: at-least-once delivery over crashes, delivery in commit order,
  no row between two stages, nothing acknowledged that is still on its way,
  everything delivered in the end.
* Restart: the confirmed position never moves back; what a restart skips has been
  replicated.
* Tracker: a transaction leaves the window as a whole unless it timed out; only
  rows written back by a decompression are discarded.
* Snapshots: every row that existed when the snapshot was taken is read once, every
  table gets its turn, and replication starts afterwards.
* Catalog: all indexes agree, and agree with the last catalog event.
* Task manager: nothing accepted is lost, nobody waits forever.
* Chunks: a row of a new chunk reaches the sink by the snapshot or by the stream,
  and the newest version last.
* Events: the sink has them in order, each with the schema that describes it, with
  values of the announced types.
* Start and stop: all selected tables are published, what a process created it
  drops, what it stored it reads back.

## Modules

| module | contents |
|---|---|
| `Delivery` | the delivery path, its properties, and the faulty variants that the properties are tested with |
| `DeliveryInvariant` | the inductive invariants `PathInv`, `DeliveryInv` and `DoneInv`, and the condition `Spaced` on the WAL |
| `DeliveryStreams` | small WALs for TLC |
| `MCDelivery`, `MCDeliveryModes` | instances of `Delivery`: one with the window; one that holds the other modes and the relation cache side by side |
| `DeliveryProofs` | type correctness, confirmed position, sessions, and what receiving does to the pipeline |
| `DeliverySafety` | what the dispatcher does to the pipeline; the invariants are inductive; their consequences |
| `RelationMap` | abstract: a map from relation ids to values |
| `RelationCache` | the slice behind the relation cache, and that it implements `RelationMap` |
| `TaskManager`, `MCTaskManager` | task queue, goroutines and shutdown, their invariant and properties |
| `InitialSnapshot`, `MCInitialSnapshot` | start of the replication channel, snapshots of tables in batches, watermarks, offsets |
| `InitialSnapshotInvariant` | the inductive invariant behind the order and the completeness of a snapshot, in three layers |
| `InitialSnapshotProofs` | no row of a table is skipped; what the stream skips is at most what was committed during the snapshot |
| `InitialSnapshotTurns` | one table has its turn at a time; which rows are handed on |
| `InitialSnapshotOrder` | the rows of a table are emitted in the order of its key |
| `InitialSnapshotComplete` | a snapshot that ends is complete |
| `ChunkHandoff` | a chunk that is created while the streamer runs: publication, snapshot, parked changes |
| `SystemCatalog` | the catalog under catalog events, read at starts that may be ahead of the WAL |
| `Lifecycle` | the steps of start and stop, signals, known tables, publication and slot |
| `LifecycleProofs` | a complete stop drops what the process created; all selected tables are published |
| `StateFile` | the bytes of the state file |
| `Emission` | emitter, streams, event filters, sinks, changes of tables |
| `ComponentProofs` | the relation cache: invariant of the slice, bounds, refinement; the task manager: its invariant and the consequences; emission: the sink has the events in order, and schemas describe the rows sent with them |
| `Values` | types, codecs, converters and marshallers of values |
| `SchemaBuilders` | schema builders and the maps they share |
| `TypeManager`, `MCTypeManager` | registration of user-defined types, decoder plans, rows |
| `TableFilter` | parsing and matching of includes and excludes |
| `MCComponents` | instances of nine of the components, as disjoint behaviours of one run |

### Delivery

The messages of the slot are the constant `Stream`; a message is its position in
it and has a kind, a WAL position (`lsn`, `size`), the position of its commit
record (`final`) and a relation. PostgreSQL is modelled by the order of the
stream, by `ResumesAt` (a restarted slot sends all transactions whose commit
record does not lie before the requested position, from their beginning), and by
`slot`, the confirmed position.

| code | model |
|---|---|
| `lastProcessedLSN`, offset in the state storage, state file | `processed`, `offset`, `disk` |
| `StartReplication`, `locateRestartLSN`, `SendStatusUpdate` | actions of the same name |
| auto-save, save on stop | `Save` |
| crash or stop | `Crash`: memory is lost, `slot` and `disk` stay |
| one turn of the receive loop | `ReceiveRelation`, `ReceiveMessage` |
| task queue | `tasks`: relation, logical, record and finished tasks |
| `activeTransaction` | `active`, `finalLSN`, `spilled`, `compression`, `decompression`, `ongoing`, `held` |
| `drain()` | `Drain`, one collected message per step, because the receive loop appends in between |
| handlers of the tracker | `OnBeginEvent`, `OnCommitEvent`, `OnInsertEvent`, `OnChangeEvent`, `OnChunkUpdateEvent`, `OnMarkerEvent` |
| resolver | `Resolve`, `Records` |
| emitter | `OnRecordEvent`, `OnTransactionFinishedEvent`, `EmitEvent`, `AcknowledgeProcessed` |

`emitted`, `failed` and `dropped` record history for the properties. Values of
columns, event layout, and positions that only end up in event metadata are left
out. Rows stand for tables that are replicated with their events enabled. Whether
the catalog still has the old status of a chunk when an update is looked at
depends on when it was read, so both answers are possible.

`Mode` is how tracker and resolver are put together (`NewResolver`): a tracker with a
window, one that expects decompression markers, or none, with or without markers in
the database. `Tracking` and `Marking` say which of them track transactions and see
markers. A resolver that sees markers emits a decompression event at once, ahead of
the task queue.

### RelationCache

`cache`, `size`, `lowerBound` and `upperBound` are the fields of the struct; the
slice is a function from `0 .. size - 1`. `Set` is one action with everything the
method does: new bounds (`NewLower`, `NewUpper`), allocation of one and a half times
the span (`NewCacheSize`), copying behind the new lower bound (`Diff`, `Moved`), and
the store. `Get` is an operator. The receive loop, the tracker and the resolver
have caches of their own, each used by one goroutine, so there is nothing to
interleave. Ids are at least 1, because 0
means "unset" to the code, and span at most two thirds of the range of `uint32`,
so that the size does not wrap (`OidAssumption`).

### TaskManager

| code | model |
|---|---|
| goroutines: receive loop, dispatcher, one worker per partition | `pc`, one program counter each |
| `EnqueueTask`, `EnqueueTaskAndWait` | `EnqueueTask` (test of `shutdownActive`), `Send` (test of `closed`), `Pump` (the send); others run in between |
| the goroutine of the unbounded channel | always ready to receive, so a send is one step; `inQueue` is its buffer |
| closing the channel | `FlagClosed`, `CloseInput`; a later send panics |
| dispatcher loop | `Dispatch`, then what the task does (`EnqueueRecord`, `EnqueueSnapshot`, `SubmitSnapshot`), then `FinishTask`; `Leave` on the shutdown signal |
| a snapshot worker | `TakeSnapshot`, `SendRow`, `FinishSnapshot`, waiting, `Leave` |
| `StopReplication` | `stop`: the steps from `StopReplicationChannel` to `StopReturns` in the order of the reversed shutdown tasks |

A task is its kind and the worker it belongs to. `refused` records whose task
the task manager turned down. A panic or `Fatalf` stops the whole program
(`Down`). Left out: shutdown steps that touch neither the queue nor its users
(known tables, sink, state storage, statistics), failures of the connection,
which end the program, and snapshots of whole tables, which `InitialSnapshot` has.

### InitialSnapshot

A position of the WAL is the number of committed transactions; other clients commit
at any time (`Commit`).

| code | model |
|---|---|
| configuration | `config`: snapshot mode, state file or not, slot with a configured or a random name, autodrop, rows and key of each table |
| `ReplicationChannel.StartReplicationChannel`, the goroutine that waits for the shutdown | `StartReplicationChannel`, `AwaitShutdown`, which sets `requested` |
| snapshotting handler of the catalog | `OnSnapshottingStarted`, `OnTableSnapshotStarted`, `OnTableSnapshotFinished`, `OnSnapshottingFinished` with `handled` |
| snapshot worker | `TakeSnapshot` to `EndTransaction`; each of the transactions on the snapshot context reads and writes it in two steps, and the other workers run in between |
| watermarks | `context`; `Decodes` says which contexts can be read back |
| emitter, offset | `OnReadEvent`: emitted and acknowledged with the position of the batch |
| state file | `file`: `AutoStore`, `StopReplication`; a `Crash` keeps it |
| slot | `slots`, `slot`, `created`; `stream` is where replication starts |

`finished`, `fresh`, `out`, `emitted`, `dropped` and `batchLSN` are history. The key of
a table may be one column, composite (the marshaller fails), a time dimension with
ties, or none. `Fatal` ends the process.

### ChunkHandoff

One chunk is created while the streamer runs. The database has open and committed
versions of its rows and a WAL; a transaction writes first and commits later, so
the order of positions and the order of visibility differ. The handler sends what is
published, the dispatcher runs tasks, the worker attaches the chunk, opens its
cursor, sends the rows and finishes; changes are parked meanwhile (`ParkEvent`). The
worker's transaction takes its snapshot (`BeginSnapshot`) before it reads the position
(`ReadPosition`), and others write in between. The parked changes are replayed or
dropped one by one (`ReplayParked`) before `OnChunkSnapshotFinishedEvent` ends it.
`StopReplication` and `Crash` start again behind an acknowledged position. `blind`
holds the writes that the snapshot misses although they lie before its position.

### SystemCatalog

Statements of the database write the catalog's rows and entries of the WAL: create,
rename, compress and drop hypertables, continuous aggregates, create, compress and
drop chunks. The handlers (`OnHypertable...`, `OnChunk...`, `OnRelationEvent`) apply the
entries one by one and query the database of the moment where the code does. A
start reads the whole catalog while the WAL may still hold older entries. The
indexes of the catalog are functions by id and by name; `missed` marks hypertables
whose event could not be applied.

### Lifecycle

The start goes through the steps container, statistics, dispatcher, context, emitter,
snapshotter, known tables, collection, publication, slot, attach, replicate, each of
which may register a shutdown task (`tasks`) and may fail. `Signal` starts a stop in
a goroutine of its own at any point; it runs the tasks registered so far in reverse
order (`RunTask`). The drops at the end of the channel may fail, each on its own
(`DropCreated`). The state file, the list of known tables, the publication and the slot
outlive the process.

### StateFile

A byte has `Base` values, so that lengths, their widths and short reads keep their
meaning. `MarshalOffset` and `UnmarshalOffset`, `encodeKnownTables` and
`decodeKnownTables`, `MarshalContext` and `UnmarshalContext`, `Save` and `Load` are the
functions of the code; a map is written in any order of its keys. A slice that is
too short would end the process (`ok`).

### Emission

Events arrive in order; the emitter converts them, looks up the stream, asks the
filters and hands the message to one of the seven sinks, with retries. An attempt may
fail before or after the sink stored the message. An event may share the position
and the millisecond of the one before; SQS keeps one of two messages with the same
position, transaction id and envelope. Tables have or have not a primary key, hypertables
included, and are altered, dropped and created again in between. Streams
are cached by name, as `streammanager.go` does.

### Values, SchemaBuilders, TypeManager, TableFilter

`Values` takes a value of every registered type along one of two paths: decode,
convert, emit; or, as a key, marshal into the watermark, load, and write into the
query of the next batch, where an apostrophe is put behind a backslash, so that the
query is refused. `SchemaBuilders` has a heap of parameter maps, because the
builders of the code share them, and parses column defaults by the type of the schema
(`ParsedDefault`). `TypeManager` lets the receive loop plan the decoding
of a relation while the dispatcher registers the types, and columns are added and
dropped while a plan is kept. `TableFilter` parses
tokens character by character, since quoting, escapes and lengths are what it is
about, and compares the result with the documentation's description. The characters
of a quoted name go into the regular expression as they are, so `|`, `^` and `$` are
operators there and an open bracket does not compile.

PostgreSQL, TimescaleDB, the sinks' servers and client libraries are external: they
are modelled by what the code relies on.

## Runs

| run | module | question | result |
|---|---|---|---|
| `window` | `MCDelivery` | the tracker collects transactions; crashes, saved or unsaved positions, timeouts | holds, liveness included |
| `modes` | `MCDeliveryModes` | chunks are compressed and decompressed; decompression markers; no tracker, with and without markers; undecodable rows and failing sinks; the relation cache against a map | holds, liveness included |
| `shutdown` | `MCTaskManager` | tasks, workers and dispatcher when StopReplication begins at any moment | holds, liveness included |
| `snapshot` | `MCInitialSnapshot` | snapshots of tables over crashes and restarts, two workers | holds, liveness included |
| `components` | `MCComponents` | catalog, values, emission, schema builders, type manager, hand-off of chunks, life cycle, table filter, state file | holds |
| `overlapping` | `MCDelivery` | is everything that a restart skips already replicated (`replicationhandler.go:196`)? | violated |
| `discarded` | `MCDelivery` | does a tracker only discard rows written back by a decompression (`transactiontracker.go:209`)? | violated |
| `fullwindow` | `MCDelivery` | is a full window emptied (`README.md:319`)? | violated |
| `fullqueue` | `MCTaskManager` | does StopReplication return (`replicator.go:233`)? | violated when a worker's queue is full |
| `closedchannel` | `MCTaskManager` | is writing to a closed channel prevented (`unboundedchannel.go:77`)? | violated by a task that enqueues another one |
| `neverstarts` | `MCInitialSnapshot` | does the replication start once the initial snapshot is finished? | violated: the shutdown flag is set too early |
| `composite` | `MCTypeManager` | are composite types handled (`README.md:178`)? | violated: an attribute whose type needs no converter |

### window, modes

The streamer starts at most twice (`MaxStarts = 2`; once for compression), so a crash
may hit every state of the first session and the second one has to cope with what is
left. The streams have two or three transactions: one to be cut by the crash and
one that follows. `WindowSize = 3` lets the largest transaction of these streams
fit; the timeout is a choice at every push. Rows that cannot be decoded and sinks
that fail are in an instance of `modes` with two transactions of one row each, because
with the longer stream of `window` they take too many states. The relation cache sees six ids with
gaps between them in all orders of arrival.

The streams of the passing runs satisfy `Spaced`: transactions do not overlap in
the WAL, a row starts behind the end of everything sent before it, and there is
one free position per start. `overlapping` shows that the condition is needed.
Variations of it are violated in the same way: rows of one record (a multi-insert),
a record that starts right behind the last one, where the reported position is one too
high, and the markers mode with decompression events, where an event is emitted ahead
of the rows that are still queued. (The instance of `modes` that emits at once has such an
event with no row ahead of it.)

Fairness: the server keeps sending and the receive loop keeps reading
(`WF(Receive)`), the dispatcher goroutine keeps running (`WF(Dispatch)`), and a
stopped streamer is started again (`WF(StartReplication)`), which is how it is
operated. No fairness is assumed of saving and reporting.

### shutdown, fullqueue, closedchannel

Two workers, two messages, two chunks, one event, chunks of at most one row. In
`shutdown` the queues have room for all chunks (`Capacity = 2`, 128 in the
code), so the dispatcher never blocks; `fullqueue` has three chunks and room for
one. Two workers let one finish while the other is told to stop; more messages
or rows only lengthen the queue. Deadlock is not checked in these runs, because
a stopped or dead program takes no step; `StopTerminates` and `WaitersReleased`
say what may not get stuck. Fairness: every goroutine that can go on does
(Go's scheduler), and StopReplication goes on once it was called, which nothing
forces. The select of the dispatcher may ignore the signal while there are tasks;
tasks are finitely many once receive loop and workers have gone. What is still
queued when the dispatcher takes the signal is not run any more.

### snapshot, neverstarts

Nine configurations of two tables with up to three rows: the snapshot modes, with and
without a state file, a random or a fixed slot name, the kinds of keys. A batch has at
most two rows, so a table takes two batches; two starts, one commit by others.
Fairness: the goroutines of a running program run (dispatcher, each worker, the
goroutine that waits for the shutdown); nothing makes the program start, stop, crash
or save. `FreshSnapshotEnds` is about snapshots that find no stored context; one that
finds a table that is finished there does not end (see below).

### components

The nine instances do not interact: the first state selects one. They share a run
because each is small; the ones that do interact in the code are composed within a
module.

| instance | bounds |
|---|---|
| `SystemCatalog` | 2 names of which 1 is selected, 4 hypertables, 3 chunks, 3 statements after one of 3 databases, 2 starts |
| `Values` | every registered type, with values at the edges of its range, texts with an apostrophe, floats of more decimals than are written |
| `Emission` | 2 events, 1 retry, 1 change of a table, 7 sink configurations; tables and hypertables with and without a primary key |
| `SchemaBuilders` | 8 maps |
| `TypeManager` | tables with each kind of user-defined type, altered once, a restart |
| `ChunkHandoff` | 2 keys, 2 writes, 2 parked changes, 2 starts |
| `Lifecycle` | 1 chunk, 1 table, all combinations of the options, 3 starts |
| `TableFilter` | one exclude and one include of a set of terms with each wildcard, quotes, escapes, keywords, operators of regular expressions |
| `StateFile` | `Base = 3`, 3 starts |

Larger instances were checked once without a different result: the catalog with
five statements, the life cycle with two chunks.

## Proofs

### Delivery

Everything is proved for every stream, window size, mode and number of starts
that the assumptions of `Delivery` admit. `StreamAssumption` says what PostgreSQL
guarantees: transactions are sent one after the other, each with a Begin first and its
commit last, and no two have the same commit position.

Without any condition on the positions in the WAL:

* `TypeCorrect`, `ConfirmedMonotone`. The second needs `processed + 1 >= slot` within a
  session.
* `RelationsAlwaysKnown`. `KnownInv` says that the
  description of a relation is ahead of every row that needs it, in the task queue or
  already applied, for the receive loop and the resolver each.
* `PathHolds`: `PathInv` is inductive. It says that the stages of the pipeline (task
  queue, window, commit in progress) are in stream order (`PipelineInv`), that the
  commit of every Begin that was received comes behind it and was not taken off yet
  (`PairedInv`, `OpenInv`), so that no Begin finds an open transaction and
  `startTransaction` throws nothing away, and the same of decompression markers
  (`MarksInv`).
* `TransactionsWhole` follows: while the window is open, every event on its way was sent
  before the Begin of the open transaction, and everything collected after it.
* `MarkersDropReinserted`: the trackers that do not collect discard only rows that a
  decompression writes back. The tracker with the window does not have this property
  (run `discarded`), hence the hypothesis on the mode.

Under `Spaced` and `NothingAtOnce` (not both markers and decompression events):

* `InvariantHolds`, `NothingIsLost`, `DeliveredInOrder`, `NothingIsForgotten`, and
  `SkipsOnlyReplicated`, which is the property that `overlapping` refutes without
  `Spaced`.

`NoLoss` alone is not inductive: an acknowledgement in the future must not move
past a row that is still on its way. `DeliveryInv` therefore adds to `PathInv` where
every unsettled row is (`NothingForgotten`), so that the event at the head of the queue
is the oldest unsettled one and its acknowledgement stays before all others
(`AckBound`, `SessionBound`). Every start may move the confirmed position by one;
`Spare` counts the starts to come.

`NothingAcknowledgedOnItsWay` (`AcknowledgedIsDone`) needs more than the unsettled rows:
a row that was delivered before a crash is sent again, and again it must not be
overtaken. `DoneInv` therefore speaks of all rows in flight and of those the receive
loop may still let in, and says that no row has two events in the queue (`OnceEach`);
only then is everything behind the event at the head of the queue behind the position
it acknowledges.

### Relation cache

For all sets of ids under `OidAssumption` and all values. `CacheInv` says that the
slice covers the span of the bounds and that its slack, behind the largest id, is
nil; without the latter, raising `upperBound` could uncover a stale element.
`AccessInBounds` and the refinement `CacheIsMap` follow: `Set` changes what `Get`
returns for one id and for no other.

### Task manager

For any number of workers, any capacity, and any number of messages, events,
chunks and rows. `TaskInv` adds to the properties what their induction needs: who
sends which task (`SendingInv`), that nothing of a worker stands behind its
`Finish` while it waits (`FinishInv`), and what StopReplication has waited for
(`StopInv`). `NobodyWaitsForever` and `NothingElseRefused` rest on the order of the
shutdown, `FinishComesLast` on the order of the queue.

### Initial snapshot

For any tables, rows, batch limits, workers, configurations, starts and crashes that
`ConfigsAssumption` admits; `NoneAssumption` only says that the absent value is none of
the others.

* `NothingSkipped` (`NoRowSkipped`). The property is not inductive, because a worker
  moves the low watermark in its own copy of the context, which is stored later, over
  the context in memory and, with the next save, over the one in the file. `SkipInv` says
  of the copies as well that all keys up to their low watermarks are emitted, queued or
  went down with a queue, and that a worker's batch is made of consecutive rows from the
  first one above its copy's low watermark (`BatchOK`), so that raising the watermark by
  one row covers just that row.
* `SkipsOnlySnapshot` (`SkipsAtMostSnapshot`). `LsnInv` adds that every position that
  was acknowledged, stored or is queued is at most that of the newest batch, and that
  one at most the WAL's.
* `RowsAreInOrder` (`RowsInKeyOrder`) and `SnapshotIsComplete` (`SnapshotComplete`). The
  invariant has three layers, each proved on top of the ones before.
  * `TurnInv` (theorem `OneTableAtATime`): one table has its turn at a time. The scheduling
    task, the entry of a partition queue and the busy worker are never there for two tables;
    the queue holds rows of one table only, with at most one other task behind them; and no
    table that is neither handled nor in its turn has emitted anything.
  * `OrderInv`: every copy of the snapshot context (in memory, in each worker) has the low
    watermark of a table at one of two places, where this process found it at its start or
    at the row it has handed on last. A batch is made from one of these copies, so it either
    continues the pass or begins it again. The second happens when a worker that has
    finished another table writes back its old copy; it makes rows be emitted twice but
    none out of order. The low watermarks found at the start are a parameter of the
    invariant, and a start chooses them anew.
  * `CompleteInv`: in every copy, the keys up to the low watermark were handed on, and a
    table that is marked complete or handled has all of its keys handed on; once over
    all processes, and once for this process alone if it found no stored context.

### Emission

`SinkFollows` (`SinkFollowsEvents`), for any tables, events, retries and filters, under
`SinksConfigured`: the sink is one of the seven in the code. `EmissionInv` adds that
the message at hand is of the last event, which is neither acknowledged nor failed, and
that what SQS holds of it, or of one equal to it, is the very message, so that a retry is
a duplicate for it.

`RowsDescribed` (`SchemaDescribesRow`) needs `TablesConfigured` besides: only tables of the
model have events. `SchemaInv` follows the columns a table was created with: the catalog
and the table's stream have exactly these until the table is created again or the
continuous aggregate is altered, whatever columns are added in the database, so the message
at hand and all that is stored lists no others. Keys of (de)compression events are left
out: they name the schema and the table (see below).

### Life cycle

`StopDrops` (`CreatedIsDropped`), for any chunks, tables and starts, under `NoneApart`: the
absent value is not the name of a shutdown task. `StopInv` says that a streamer that runs
has registered the shutdown task of the replication channel, and that a stop asked for
then still has that task to run or has dropped slot and publication, unless the
drop itself failed.

`TablesPublished` (`AllTablesPublished`), under `NoneApart` and `ListsApart`: the absent value
is not a list of tables either. `PublishInv` follows a table through the start, from the
catalog that was read or the list of known tables to the collected tables and from there
to the publication, and through catalog events and the snapshots of chunks; a table that
exists and is on none of these ways is in `missed`.

### Only model-checked

* Liveness (`EverythingSettled`, `WaitersReleased`, `StopTerminates`,
  `FreshSnapshotEnds`), which the prover does not support, and the runs with violations.
* `NoLoss`, `OnlyReinsertedDropped` and `EverythingSettled` of the run `modes` are those of
  six instances of `Delivery` in one state space. `NothingIsLost` and
  `MarkersDropReinserted` cover what they say for the modes they assume, stated of
  `Delivery` itself.
* The properties of `components` except `SinkFollowsEvents`, `SchemaDescribesRow`,
  `CreatedIsDropped` and `AllTablesPublished`. What `Values`, `StateFile` and `TableFilter` say of conversions
  (`PayloadMatchesSchema`, `KeyKept`, `SelectsAsDescribed`) is about recursive definitions over
  data and would need induction over it, which is out of the prover's reach.
  `Converged`, `OriginIsOwner`, `ColumnsIndependent`, `DecodedAsSent` and
  `HandedOver` are safety properties of modules for which no inductive invariant has been
  worked out.

## What the models show beside the runs

These follow from the exceptions in the properties and from outcomes in the models.

* A snapshot that resumes with a finished table in its context never ends: the table is
  skipped without being marked as handled and scheduled for ever
  (`systemcatalog.go:619`). A context with an empty table cannot be read back
  (`watermarks.go:197`), and rows that were in the task queue when the process ended are
  skipped (`sidechannel.go:470`).
* Read events of a snapshot acknowledge a position, so that changes committed between
  the consistent point of the slot and the last batch are skipped by the stream.
* A batch skips rows with the time of the last row of the batch before, if the table has
  no other key than its dimension (`sidechannel.go:432`).
* A write to a new chunk that is open when the snapshot's cursor is opened is lost if its
  position lies before the snapshot's (`replicationresolver.go:709`), and a hand-off that
  is cut off after the creation of the chunk was acknowledged is not taken up again.
* A hypertable loses its view when an event changes it (`hypertable.go:182`), and an event
  that is completed by a query under an old name fails (`catalogeventhandler.go:107`).
* A list of known tables hides tables that were created while the streamer was down, or
  whose publication was dropped by a stop that did not store the list.
* Streams keep the schema of a table that was dropped and created again.
* SQS dereferences a transaction id that non-transactional logical messages do not have
  (`awssqs.go:108`), and drops all but one of equal rows that one record or batch yields
  within a millisecond (`awssqs.go:113`).
* Events of compressions and decompressions have the key `{schema, table}`, which the schema
  of a primary key does not describe (`eventemitter.go:290`, `eventschema.go:228`).
* A text key with an apostrophe makes the next batch's query fail (`index.go:259`), and a
  floating point key is asked for with six decimals (`index.go:219`).
* Includes of an event filter have no effect, because it accepts tables by default
  (`eventfilter.go:64`; the README, lines 372 to 376, describes includes).
* A quoted name with a wildcard is a regular expression in which `|`, `^`, `$` and brackets
  are not escaped (`tablefilter.go:263`).
* Types without a marshaller in a key panic (`marshallers.go:86`); dates beyond 292 years
  from 1970 are clamped (`builtin_converters.go:193`).
* A row that cannot be decoded, or that the sink refuses for all retries, is only logged,
  and the next event moves the position behind it (`replicationhandler.go:226`).
* The queue of parked changes of a chunk is bounded and blocks the dispatcher, which is the
  one that would end the snapshot (`replicationresolver.go:184`).
* Empty tokens make the table filter panic at the start (`tablefilter.go:188`).

## Not modelled

* Which kinds of events are disabled, and the identities of chunks in the tracker.
* Statements as SQL text, reconnection of broken connections, TLS, the sinks' clients.
* Names: sanitization, topic names, schema names; names outside ASCII in the table filter,
  whose loop counts bytes and indexes characters.
* The type map of pgx, which the receive loop, the dispatcher and the snapshot workers use
  without a lock while types are registered (`typemanager.go:563`): a race inside a map of
  the library, which ends the process or results in one of the two orders, which
  `TypeManager` has.
* Configuration lookup, version comparison, logging, statistics and dependency injection,
  which have no state that a property could be about.
* The emitter's end under the shutdown of the task manager: both models together
  are out of TLC's reach.
* The settings behind the tracker's early returns: with inserts of hypertables disabled,
  those of vanilla tables are dropped as well (`transactiontracker.go:200`), and the
  status remembered for one chunk is compared with another's (`:261`); whether the status
  is known is a choice in `Delivery`.
* The data race on the offset between acknowledging and the auto-save
  (`replicationcontext.go:277`), whose parts are single words.
* Columns of hypertables in the catalog, which only a start reads (`catalogeventhandler.go:46`);
  `Emission` has what stale columns do to events.
* Full partition queues of the snapshotter in `InitialSnapshot` (`snapshotter.go:346`): 128
  entries, and a worker puts back the one it took.
* A second `Set` of a key of `CasCache`, which keeps the old value (`cascache.go:106`), and the
  sink's start, which depends on the persisted sink context (`sinkmanager.go:50`).
* `Channel` (`internal/containers/ringbuffer.go`), a ring buffer that nothing uses.

`PROJECT.json` lists every component with what is left out of it.

