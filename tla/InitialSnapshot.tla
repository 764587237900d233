--------------------------- MODULE InitialSnapshot ---------------------------
(***************************************************************************)
(* The initial snapshot: ReplicationChannel.StartReplicationChannel        *)
(* decides whether there is one, the snapshotting handler of the system    *)
(* catalog runs the tables one after the other, the workers of the         *)
(* snapshotter read them in batches between two watermarks, the event      *)
(* emitter emits the rows, and the state storage keeps the watermarks and  *)
(* the offset over a crash or a restart.                                   *)
(*                                                                         *)
(* A goroutine is interrupted wherever another one could see the           *)
(* difference: between reading and writing the snapshot context, and       *)
(* while it waits.  A LSN is the number of transactions committed.         *)
(***************************************************************************)
EXTENDS Integers, Sequences, FiniteSets

CONSTANTS
  None,          \* no offset, watermark, snapshot context or table
  Hypertables, VanillaTables,
  Partitions,    \* the snapshot workers
  PartitionOf,   \* [table -> partition], the hash of the table's name
  BatchLimit,    \* rows read in one batch
  Configs,       \* the configurations and databases to start from:
                 \*   mode: "always", "initial_only" or "never"
                 \*   file: state is kept in a file, and not in memory alone
                 \*   named: the slot has a name; otherwise it is random
                 \*   autodrop: a slot the program has created is dropped at its end
                 \*   rows: [table -> number of rows], numbered in the order of the key
                 \*   key: [table -> "single", "composite", "dimension" or "none"],
                 \*     its snapshot index
  MaxStarts,     \* bound: starts of the program
  MaxCommits     \* bound: transactions other clients commit

Tables == Hypertables \cup VanillaTables

ASSUME ConfigsAssumption ==
  /\ \A c \in Configs : c.rows \in [Tables -> Nat]
  /\ PartitionOf \in [Tables -> Partitions]
  /\ BatchLimit \in Nat

Watermarks == [complete : BOOLEAN, high : Nat, low : Nat]
Contexts == [Tables -> Watermarks \cup {None}]

ASSUME NoneAssumption == None \notin Watermarks /\ None \notin Contexts

VARIABLES
  config,        \* the one of Configs that this behaviour has
  up,            \* the program runs
  starts,        \* how often it was started
  commits,       \* WAL position of the server
  slots,         \* [slot -> consistent point]; the replication slots of the server
  slot,          \* name of the slot in use
  created,       \* replicationSlotCreated
  offsets,       \* [slot -> LSN], in memory
  context,       \* the encoded snapshot context, in memory
  file,          \* what the state file holds of both
  tasks,         \* queue of the task manager
  queue,         \* [partition -> queue of the worker]
  worker,        \* [partition -> state of the worker]
  handled,       \* handledTables
  requested,     \* shutdownRequested of the replication channel
  monitor,       \* the goroutine that awaits the shutdown was spawned
  stream,        \* where replication was started, or None
  finished,      \* OnSnapshottingFinishedEvent has run (history)
  fresh,         \* no context was stored when the program started (history)
  out,           \* [table -> rows emitted since the start] (history)
  emitted,       \* [table -> rows ever emitted] (history)
  dropped,       \* [table -> rows in the task queue when the program ended] (history)
  batchLSN       \* WAL position at which the latest batch was read (history)

server == <<commits, slots>>
storage == <<offsets, context, file>>
channel == <<slot, created, requested, monitor, stream>>
history == <<fresh, out, emitted, dropped, batchLSN>>
vars == <<config, up, starts, server, storage, channel, tasks, queue, worker, handled,
          finished, history>>

Task(kind, table) == [kind |-> kind, table |-> table, row |-> 0, lsn |-> 0]
ReadEvent(table, row, lsn) ==
  [kind |-> "row", table |-> table, row |-> row, lsn |-> lsn]

Idle == [at |-> "idle", table |-> None, next |-> FALSE, local |-> None,
         batch |-> <<>>, lsn |-> 0]

Init ==
  /\ config \in Configs
  /\ up = FALSE /\ starts = 0
  /\ commits = 0 /\ slots = <<>>
  /\ slot = None /\ created = FALSE
  /\ offsets = <<>> /\ context = None
  /\ file = [offsets |-> <<>>, context |-> None]
  /\ tasks = <<>>
  /\ queue = [p \in Partitions |-> <<>>]
  /\ worker = [p \in Partitions |-> Idle]
  /\ handled = {}
  /\ requested = FALSE /\ monitor = FALSE /\ stream = None
  /\ finished = FALSE /\ fresh = FALSE
  /\ out = [t \in Tables |-> <<>>]
  /\ emitted = [t \in Tables |-> {}]
  /\ dropped = [t \in Tables |-> {}]
  /\ batchLSN = 0

-----------------------------------------------------------------------------
(* The snapshot context: [table -> watermark or None], or None.            *)

EmptyContext == [t \in Tables |-> None]
NewWatermark == [complete |-> FALSE, high |-> 0, low |-> 0]

(***************************************************************************)
(* MarshalBinary writes the columns of a high watermark that are there,    *)
(* UnmarshalBinary reads as many as the key has: the context of a table    *)
(* without rows cannot be read back.                                       *)
(***************************************************************************)
Decodes(c) == \A t \in Tables : c[t] # None => c[t].high > 0

(* A transaction that does not create the context fails without one. *)
Readable == context # None /\ Decodes(context)

(***************************************************************************)
(* The column of a high watermark over a composite key is the record, and  *)
(* has no type in the watermark.                                           *)
(***************************************************************************)
Encodes(c) == \A t \in Tables : c[t] # None => config.key[t] # "composite" \/ c[t].high = 0

IsComplete(w) == w # None /\ w.complete

(* A faulty variant: some low watermark is enough. *)
CheckAnyLow(w) == [w EXCEPT !.complete = w.low > 0]

CheckComplete(w) == [w EXCEPT !.complete = w.high = 0 \/ w.high = w.low]
SetHighWatermark(w, key) == [w EXCEPT !.high = key]
(* A faulty variant: the low watermark runs ahead of the rows. *)
SetLowAhead(w, key) == CheckComplete([w EXCEPT !.low = w.high])

SetLowWatermark(w, key) == CheckComplete([w EXCEPT !.low = key])

(***************************************************************************)
(* The key of a row by the snapshot index.  Without a primary key, that is *)
(* the dimension of the hypertable, and two rows may have the same time.   *)
(***************************************************************************)
Key(t, row) == IF config.key[t] = "dimension" THEN (row \div 2) + 1 ELSE row
LastKey(t) == IF config.rows[t] = 0 THEN 0 ELSE Key(t, config.rows[t])
KeysOf(t, rows) == {Key(t, row) : row \in rows}

-----------------------------------------------------------------------------
(* The program ends: killed, by Fatalf, or by a panic.                     *)

QueuedRows(q, t) == {q[i].row : i \in {j \in DOMAIN q : q[j].kind = "row" /\ q[j].table = t}}

Ends ==
  /\ up' = FALSE
  /\ dropped' = [t \in Tables |-> dropped[t] \cup QueuedRows(tasks, t)]
  /\ tasks' = <<>>
  /\ queue' = [p \in Partitions |-> <<>>]
  /\ worker' = [p \in Partitions |-> Idle]
  /\ handled' = {}
  /\ finished' = FALSE
  /\ requested' = FALSE /\ monitor' = FALSE /\ stream' = None
  /\ offsets' = <<>> /\ context' = None
  /\ UNCHANGED <<config, starts, commits, slot, created, fresh, out, emitted,
                 batchLSN>>

Crash ==
  /\ up
  /\ Ends
  /\ UNCHANGED <<slots, file>>

SaveState == file' = IF config.file THEN [offsets |-> offsets, context |-> context] ELSE file

(***************************************************************************)
(* StopReplication waits for the workers, drops a slot this process has    *)
(* created, and saves the state.                                           *)
(***************************************************************************)
StopReplication ==
  /\ up
  /\ \A p \in Partitions : worker[p].at = "idle"
  /\ Ends
  /\ SaveState
  /\ slots' = IF created /\ config.autodrop THEN [s \in DOMAIN slots \ {slot} |-> slots[s]] ELSE slots

AutoStore ==
  /\ up
  /\ SaveState
  /\ UNCHANGED <<config, up, starts, server, offsets, context, channel, tasks, queue,
                 worker, handled, finished, history>>

(* Another client commits a change to a published table. *)
Commit ==
  /\ commits < MaxCommits
  /\ commits' = commits + 1
  /\ UNCHANGED <<config, up, starts, slots, storage, channel, tasks, queue, worker,
                 handled, finished, history>>

-----------------------------------------------------------------------------
(* Start of the replication channel.                                       *)

Offset(os, s) == IF s \in DOMAIN os THEN os[s] ELSE None

AtLeast(a, b) == IF a > b THEN a ELSE b

(* locateRestartLSN: the higher one of the slot's and the stored position *)
LocateRestartLSN(point, offset) ==
  IF offset = None THEN point ELSE AtLeast(point, offset)

StartReplication(point, offset) ==
  stream' = IF requested THEN stream ELSE LocateRestartLSN(point, offset)

SlotName == IF config.named THEN 0 ELSE starts + 1

(***************************************************************************)
(* A slot that exists exports no snapshot.  Nothing ever sets the Snapshot *)
(* flag of an offset, so that with an offset there is nothing to resume.   *)
(***************************************************************************)
WantsSnapshot(isNew, offset) ==
  /\ isNew
  /\ config.mode = "always" \/ (config.mode = "initial_only" /\ offset = None)

(* Load *)
LoadState == offsets' = file.offsets /\ context' = file.context

(* A new slot has its consistent point where the WAL is now. *)
CreateReplicationSlot(name) ==
  slots' = IF name \in DOMAIN slots THEN slots
           ELSE [s \in DOMAIN slots \cup {name} |-> IF s = name THEN commits ELSE slots[s]]

StartReplicationChannel ==
  LET isNew == SlotName \notin DOMAIN slots
      offset == Offset(file.offsets, SlotName)
      snapshot == WantsSnapshot(isNew, offset)
  IN  /\ ~up /\ starts < MaxStarts
      /\ config.mode = "always" => isNew
      /\ starts' = starts + 1
      /\ up' = TRUE
      /\ slot' = SlotName /\ created' = isNew
      /\ CreateReplicationSlot(SlotName)
      /\ LoadState
      /\ fresh' = (snapshot /\ file.context = None)
      /\ out' = [t \in Tables |-> <<>>]
      /\ IF snapshot
           THEN /\ tasks' = <<Task("started", None)>>
                /\ UNCHANGED stream
           ELSE /\ StartReplication(slots'[SlotName], offset)
                /\ UNCHANGED tasks
      /\ monitor' = TRUE
      /\ UNCHANGED <<config, commits, file, queue, worker, handled, requested, finished,
                     emitted, dropped, batchLSN>>

(***************************************************************************)
(* The goroutine of the replication channel, which marks the channel as    *)
(* shutting down before it waits for the shutdown.                         *)
(***************************************************************************)
AwaitShutdown ==
  /\ monitor /\ ~requested
  /\ requested' = TRUE
  /\ UNCHANGED <<config, up, starts, server, storage, slot, created, monitor, stream,
                 tasks, queue, worker, handled, finished, history>>

-----------------------------------------------------------------------------
(* Tasks of the dispatcher.                                                *)

Running(kind) == up /\ tasks # <<>> /\ Head(tasks).kind = kind

(* Maps are iterated in any order, hypertables first. *)
FirstOf(hs, vs) == IF hs # {} THEN hs ELSE vs

NextTask(candidates) ==
  IF candidates = {} THEN {Task("finished", None)}
  ELSE {Task("table", t) : t \in candidates}

Unhandled(done) == FirstOf(Hypertables \ done, VanillaTables \ done)

OnSnapshottingStarted ==
  /\ Running("started")
  /\ \E task \in NextTask(Unhandled({})) : tasks' = Append(Tail(tasks), task)
  /\ UNCHANGED <<config, up, starts, server, storage, channel, queue, worker, handled,
                 finished, history>>

SnapshotBaseTable(t) ==
  queue' = [queue EXCEPT ![PartitionOf[t]] = Append(@, [table |-> t, next |-> FALSE])]

(* A handler that returns an error has its task logged and forgotten. *)
OnTableSnapshotStarted ==
  LET t == Head(tasks).table
  IN  /\ Running("table")
      /\ IF context # None /\ ~Decodes(context) THEN
           /\ tasks' = Tail(tasks)
           /\ UNCHANGED queue
         ELSE IF context # None /\ IsComplete(context[t]) THEN
           /\ \E task \in NextTask(Unhandled(handled)) : tasks' = Append(Tail(tasks), task)
           /\ UNCHANGED queue
         ELSE
           /\ SnapshotBaseTable(t)
           /\ tasks' = Tail(tasks)
      /\ UNCHANGED <<config, up, starts, server, storage, channel, worker, handled,
                     finished, history>>

(* A faulty variant: the position of the server when the row is emitted. *)
AcknowledgedNow(lsn) == AtLeast(lsn, commits)

(***************************************************************************)
(* emit and AcknowledgeProcessed: the offset moves to the WAL position at  *)
(* which the batch of the row was read.                                    *)
(***************************************************************************)
Acknowledged(lsn) == AtLeast(lsn, IF slot \in DOMAIN offsets THEN offsets[slot] ELSE 0)

OnReadEvent ==
  LET e == Head(tasks)
  IN  /\ Running("row")
      /\ tasks' = Tail(tasks)
      /\ out' = [out EXCEPT ![e.table] = Append(@, e.row)]
      /\ emitted' = [emitted EXCEPT ![e.table] = @ \cup {e.row}]
      /\ offsets' = [s \in DOMAIN offsets \cup {slot} |->
                       IF s = slot THEN Acknowledged(e.lsn) ELSE offsets[s]]
      /\ UNCHANGED <<config, up, starts, server, context, file, channel, queue, worker,
                     handled, finished, fresh, dropped, batchLSN>>

(* GetOrCreateWatermark, MarkComplete *)
MarkedComplete(c, t) ==
  [c EXCEPT ![t] = [(IF @ = None THEN NewWatermark ELSE @) EXCEPT !.complete = TRUE]]

(* A faulty variant: the table is not recorded as handled. *)
FinishedUnhandled ==
  LET t == Head(tasks).table
  IN  /\ Running("done")
      /\ worker' = [worker EXCEPT ![PartitionOf[t]].at = "release"]
      /\ context' = MarkedComplete(context, t)
      /\ \E task \in NextTask(Unhandled(handled)) : tasks' = Append(Tail(tasks), task)
      /\ UNCHANGED <<config, up, starts, server, offsets, file, channel, queue,
                     handled, finished, history>>

(* Releases the worker that waits in EnqueueTaskAndWait. *)
OnTableSnapshotFinished ==
  LET t == Head(tasks).table
  IN  /\ Running("done")
      /\ worker' = [worker EXCEPT ![PartitionOf[t]].at = "release"]
      /\ IF ~Readable THEN
           /\ tasks' = Tail(tasks)
           /\ UNCHANGED <<context, handled>>
         ELSE
           /\ handled' = handled \cup {t}
           /\ context' = MarkedComplete(context, t)
           /\ \E task \in NextTask(Unhandled(handled')) : tasks' = Append(Tail(tasks), task)
      /\ UNCHANGED <<config, up, starts, server, offsets, file, channel, queue, finished,
                     history>>

OnSnapshottingFinished ==
  /\ Running("finished")
  /\ tasks' = Tail(tasks)
  /\ finished' = TRUE
  /\ StartReplication(slots[slot], Offset(offsets, slot))
  /\ UNCHANGED <<config, up, starts, server, storage, slot, created, requested, monitor,
                 queue, worker, handled, history>>

-----------------------------------------------------------------------------
(* A snapshot worker: snapshotBaseTable, in three transactions on the      *)
(* snapshot context that read it, change a copy, and write the copy.       *)

At(p, place) == up /\ worker[p].at = place

Goes(p, w) == worker' = [worker EXCEPT ![p] = w]

Fatal == Ends /\ UNCHANGED <<slots, file>>

TakeSnapshot(p) ==
  /\ At(p, "idle") /\ queue[p] # <<>>
  /\ queue' = [queue EXCEPT ![p] = Tail(@)]
  /\ Goes(p, [Idle EXCEPT !.at = "begin", !.table = Head(queue[p]).table,
                          !.next = Head(queue[p]).next])
  /\ UNCHANGED <<config, up, starts, server, storage, channel, tasks, handled, finished,
                 history>>

(***************************************************************************)
(* getOrCreateSnapshotContext stores a new context before it has a         *)
(* watermark.  Read back, a context without watermarks has no map, and     *)
(* adding one to it panics.                                                *)
(***************************************************************************)
GetOrCreateContext(p) ==
  /\ At(p, "begin")
  /\ IF context = None THEN
       /\ context' = EmptyContext
       /\ Goes(p, [worker[p] EXCEPT !.at = "create", !.local = EmptyContext])
       /\ UNCHANGED <<config, up, starts, server, offsets, file, channel, tasks, queue,
                      handled, finished, history>>
     ELSE IF ~Decodes(context) \/ context = EmptyContext THEN Fatal
     ELSE
       /\ Goes(p, [worker[p] EXCEPT !.at = "create", !.local = context])
       /\ UNCHANGED <<config, up, starts, server, storage, channel, tasks, queue,
                      handled, finished, history>>

WithHigh(c, t, next) ==
  IF c[t] = None THEN [c EXCEPT ![t] = SetHighWatermark(NewWatermark, LastKey(t))]
  ELSE IF next THEN [c EXCEPT ![t] = SetHighWatermark(@, LastKey(t))]
  ELSE c

(* ReadSnapshotHighWatermark needs a snapshot index. *)
StoreHighWatermark(p) ==
  LET w == worker[p]
      t == w.table
      c == WithHigh(w.local, t, w.next)
  IN  /\ At(p, "create")
      /\ IF ((w.local[t] = None \/ w.next) /\ config.key[t] = "none") \/ ~Encodes(c) THEN Fatal
         ELSE /\ context' = c
              /\ Goes(p, [w EXCEPT !.at = "load"])
              /\ UNCHANGED <<config, up, starts, server, offsets, file, channel, tasks,
                             queue, handled, finished, history>>

(* The last row with a key up to this one; rows are numbered by their keys. *)
LastUpTo(t, key) ==
  CHOOSE n \in 0..config.rows[t] :
    \A row \in 1..config.rows[t] : Key(t, row) <= key <=> row <= n

(* A faulty variant: the row of the low watermark is read again. *)
BatchFromLow(t, low, high) ==
  LET first == LastUpTo(t, low - 1)
      n == LastUpTo(t, high) - first
  IN [i \in 1..(IF n < BatchLimit THEN n ELSE BatchLimit) |-> first + i]

Batch(t, low, high) ==
  LET first == LastUpTo(t, low)
      n == LastUpTo(t, high) - first
  IN [i \in 1..(IF n < BatchLimit THEN n ELSE BatchLimit) |-> first + i]

(***************************************************************************)
(* FetchTableSnapshotBatch: the rows above the low and up to the high      *)
(* watermark, in the order of the key, as many as the limit allows.        *)
(***************************************************************************)
FetchBatch(p) ==
  LET t == worker[p].table
  IN  /\ At(p, "load")
      /\ IF ~Readable \/ context[t] = None
           THEN Fatal
           ELSE /\ Goes(p, [worker[p] EXCEPT !.at = "rows", !.local = context, !.lsn = commits,
                              !.batch = Batch(t, context[t].low, context[t].high)])
                /\ batchLSN' = commits
                /\ UNCHANGED <<config, up, starts, server, storage, channel, tasks, queue,
                               handled, finished, fresh, out, emitted, dropped>>

EnqueueRow(p) ==
  LET w == worker[p]
      t == w.table
      row == Head(w.batch)
  IN  /\ At(p, "rows") /\ w.batch # <<>>
      /\ Goes(p, [w EXCEPT !.local[t] = SetLowWatermark(@, Key(t, row)), !.batch = Tail(@)])
      /\ tasks' = Append(tasks, ReadEvent(t, row, w.lsn))
      /\ UNCHANGED <<config, up, starts, server, storage, channel, queue, handled,
                     finished, history>>

StoreLowWatermark(p) ==
  /\ At(p, "rows") /\ worker[p].batch = <<>>
  /\ context' = worker[p].local
  /\ Goes(p, [worker[p] EXCEPT !.at = "check"])
  /\ UNCHANGED <<config, up, starts, server, offsets, file, channel, tasks, queue,
                 handled, finished, history>>

(* Complete: waits for the dispatcher.  Otherwise: queues the next batch. *)
EndBatch(p) ==
  LET t == worker[p].table
  IN  /\ At(p, "check")
      /\ IF ~Readable \/ context[t] = None THEN Fatal
         ELSE /\ IF context[t].complete THEN
                   /\ Goes(p, [worker[p] EXCEPT !.at = "wait", !.local = context])
                   /\ tasks' = Append(tasks, Task("done", t))
                   /\ UNCHANGED queue
                 ELSE
                   /\ Goes(p, [worker[p] EXCEPT !.at = "release", !.local = context])
                   /\ queue' = [queue EXCEPT ![p] = Append(@, [table |-> t, next |-> TRUE])]
                   /\ UNCHANGED tasks
              /\ UNCHANGED <<config, up, starts, server, storage, channel, handled,
                             finished, history>>

(* The end of the third transaction writes the copy read at its beginning. *)
EndTransaction(p) ==
  /\ At(p, "release")
  /\ context' = worker[p].local
  /\ Goes(p, Idle)
  /\ UNCHANGED <<config, up, starts, server, offsets, file, channel, tasks, queue,
                 handled, finished, history>>

-----------------------------------------------------------------------------
Dispatch ==
  OnSnapshottingStarted \/ OnTableSnapshotStarted \/ OnReadEvent
    \/ OnTableSnapshotFinished \/ OnSnapshottingFinished

SnapshotWorker(p) ==
  TakeSnapshot(p) \/ GetOrCreateContext(p) \/ StoreHighWatermark(p) \/ FetchBatch(p)
    \/ EnqueueRow(p) \/ StoreLowWatermark(p) \/ EndBatch(p) \/ EndTransaction(p)

Next ==
  \/ StartReplicationChannel \/ AwaitShutdown
  \/ OnSnapshottingStarted \/ OnTableSnapshotStarted \/ OnReadEvent
  \/ OnTableSnapshotFinished \/ OnSnapshottingFinished
  \/ \E p \in Partitions :
       \/ TakeSnapshot(p) \/ GetOrCreateContext(p) \/ StoreHighWatermark(p) \/ FetchBatch(p)
       \/ EnqueueRow(p) \/ StoreLowWatermark(p) \/ EndBatch(p) \/ EndTransaction(p)
  \/ AutoStore \/ StopReplication \/ Crash
  \/ Commit

Spec == Init /\ [][Next]_vars

(***************************************************************************)
(* Goroutines that can run do run; nothing makes the program start, stop,  *)
(* crash or save, or other clients commit.                                 *)
(***************************************************************************)
FairSpec ==
  /\ Spec
  /\ WF_vars(AwaitShutdown)
  /\ WF_vars(Dispatch)
  /\ \A p \in Partitions : WF_vars(SnapshotWorker(p))

-----------------------------------------------------------------------------
(* Properties.                                                             *)

(***************************************************************************)
(* Between a start and the end of the program, the rows of a table are     *)
(* emitted in the order of its key, and none twice in one pass.  A pass    *)
(* begins again only where the first one of this process began: a worker   *)
(* that has finished another table writes back a copy of the context that  *)
(* is as old as that (snapshotBaseTable, SnapshotContextTransaction); no   *)
(* batch, resumed snapshot or other worker makes one begin elsewhere       *)
(* (FetchTableSnapshotBatch).                                              *)
(***************************************************************************)
RowsInKeyOrder ==
  \A t \in Tables : \A i \in DOMAIN out[t] :
    i > 1 => out[t][i] > out[t][i - 1] \/ out[t][i] = out[t][1]

(***************************************************************************)
(* When OnSnapshottingFinishedEvent runs, every row of every table with a  *)
(* primary key was emitted: all of them by this process, if it found no    *)
(* snapshot context; otherwise, those it has not emitted were emitted, or  *)
(* at least handed to the task manager, by an earlier one.  Of a table     *)
(* that is read by its dimension, every time was; a row that has its time  *)
(* in common with the last row of a batch is not read                      *)
(* (FetchTableSnapshotBatch).                                              *)
(***************************************************************************)
SnapshotComplete ==
  finished =>
    \A t \in Tables :
      KeysOf(t, 1..config.rows[t])
        \subseteq KeysOf(t, IF fresh THEN {out[t][i] : i \in DOMAIN out[t]}
                             ELSE emitted[t] \cup dropped[t])

(***************************************************************************)
(* A snapshot that is resumed skips no row but those in the task queue     *)
(* when an earlier process ended: every key up to a low watermark, stored  *)
(* or in memory, was emitted, is queued, or was queued then                *)
(* (SetLowWatermark comes before the row is handed on).                    *)
(***************************************************************************)
NoRowSkipped ==
  \A c \in {context, file.context}, t \in Tables :
    c # None /\ c[t] # None =>
      1..c[t].low \subseteq KeysOf(t, emitted[t] \cup dropped[t] \cup QueuedRows(tasks, t))

(***************************************************************************)
(* Replication starts beyond the consistent point of its slot only as far  *)
(* as rows of the snapshot were emitted: a change committed after the last *)
(* batch was read is never skipped (AcknowledgeProcessed on read events,   *)
(* locateRestartLSN).  Changes committed before that batch are.            *)
(***************************************************************************)
SkipsAtMostSnapshot == stream # None => stream <= AtLeast(slots[slot], batchLSN)

(***************************************************************************)
(* A snapshot that begins without a stored context ends: the replication   *)
(* is told, or the program stops (scheduleNextSnapshotHypertableOrFinish). *)
(* A snapshot that finds a finished table in a stored context does not.    *)
(***************************************************************************)
FreshSnapshotEnds == (up /\ fresh) ~> (finished \/ ~up)

(***************************************************************************)
(* Once all tables are handled, the replicator starts                      *)
(* (scheduleNextSnapshotHypertableOrFinish, OnSnapshottingFinishedEvent).  *)
(***************************************************************************)
ReplicationStarts == (up /\ finished) ~> (stream # None \/ ~up)
===============================================================================
