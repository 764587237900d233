------------------------------- MODULE Delivery -------------------------------
(***************************************************************************)
(* The replication path of the streamer, from the logical decoding stream  *)
(* of one replication slot to the acknowledged position that survives a    *)
(* crash: replicationHandler (the receive loop), the task queue and its    *)
(* dispatcher, transactionTracker, logicalReplicationResolver,             *)
(* EventEmitter, replicationContext, ReplicationConnection and the file    *)
(* state storage.                                                          *)
(*                                                                         *)
(* The WAL does not depend on the streamer, so the messages the server     *)
(* will ever send are the constant Stream, in the order a logical slot     *)
(* sends them: transaction by transaction, in commit order.  A message is  *)
(* named by its position in Stream.  The server may send the next message  *)
(* at any moment, which stands for the time its transaction commits.       *)
(*                                                                         *)
(* lastReceivedLSN, lastBeginLSN, lastCommitLSN and lastTransactionId are  *)
(* only copied into event metadata and never read by the control flow;     *)
(* they are left out.                                                      *)
(***************************************************************************)
EXTENDS Integers, Sequences

CONSTANTS
  Stream,            \* the messages of the slot, in the order they are sent
  Relations,         \* the relation ids that row messages refer to
  CreatedAt,         \* confirmed_flush_lsn of the slot when it was created
  XLogPos,           \* IDENTIFY_SYSTEM's position, the fallback restart point
  Mode,              \* how transactions are treated, see Modes
  WindowSize,        \* capacity of the transaction queue (maxsize + 1)
  GenCompression,    \* timescaledb.events.compression
  GenDecompression,  \* timescaledb.events.decompression
  Faults,            \* may decoding or emitting a row fail for good?
  MaxStarts          \* bound: how often the streamer is started

(***************************************************************************)
(* "window": the tracker collects transactions.  "markers": the tracker    *)
(* is installed but TimescaleDB writes decompression markers, so it passes *)
(* messages on.  "direct" and "directmarkers": the window is disabled,     *)
(* only the resolver runs, without and with markers.                       *)
(***************************************************************************)
Modes == {"window", "markers", "direct", "directmarkers"}
Tracking == Mode \in {"window", "markers"}
Marking == Mode \in {"markers", "directmarkers"}

(***************************************************************************)
(* insert and change (update, delete, truncate, logical message) concern   *)
(* user data, of tables that are replicated and for which such events are  *)
(* enabled; what is disabled is dropped on the way and leaves no trace.    *)
(* compress and decompress are updates of the status column of the chunk   *)
(* catalog, drop is the deletion of a compressed chunk from it.  startmark *)
(* and endmark are the decompression markers.                              *)
(***************************************************************************)
RowKinds == {"insert", "change"}
ChunkKinds == {"compress", "decompress", "drop"}
MarkKinds == {"startmark", "endmark"}
Kinds == RowKinds \cup ChunkKinds \cup MarkKinds \cup {"begin", "commit"}

(***************************************************************************)
(* lsn is WALStart (of a commit: the end of the commit record), size is    *)
(* len(WALData), final is the start of the transaction's commit record.    *)
(***************************************************************************)
Message == [kind: Kinds, lsn: Nat, size: Nat, final: Nat, relation: Relations]

Positions == 1..Len(Stream)
Rows == {i \in Positions : Stream[i].kind \in RowKinds}

(***************************************************************************)
(* A transaction is written before its commit record, whose end is where   *)
(* the commit message starts.  Transactions are sent one after the other,  *)
(* in the order of their commit records: each one from its Begin message   *)
(* on, in the order it was written, and to its commit message before       *)
(* anything of the next one.                                               *)
(***************************************************************************)
ASSUME StreamAssumption ==
  /\ Stream \in Seq(Message)
  /\ \A i \in Positions :
       IF Stream[i].kind = "commit" THEN Stream[i].lsn >= Stream[i].final
                                    ELSE Stream[i].lsn <= Stream[i].final
  /\ \A i, j \in Positions : i < j =>
       /\ Stream[i].final <= Stream[j].final
       /\ Stream[i].kind = "commit" \/ Stream[j].kind = "begin" => Stream[i].final < Stream[j].final
       /\ Stream[i].final = Stream[j].final => Stream[i].lsn <= Stream[j].lsn
       /\ Stream[i].kind = "begin" /\ Stream[i].final < Stream[j].final =>
            \E k \in i..(j - 1) : Stream[k].kind = "commit" /\ Stream[k].final = Stream[i].final

ASSUME ConfigAssumption ==
  /\ CreatedAt \in Nat \ {0}
  /\ XLogPos \in Nat
  /\ Mode \in Modes
  /\ WindowSize \in Nat \ {0}
  /\ GenCompression \in BOOLEAN
  /\ GenDecompression \in BOOLEAN
  /\ Faults \in BOOLEAN
  /\ MaxStarts \in Nat \ {0}

VARIABLES
  slot,        \* confirmed_flush_lsn of the replication slot (in PostgreSQL)
  disk,        \* the offset in the state file, 0 when there is none
  phase,       \* "down", "up", or "fatal" after a Fatalf
  starts,      \* how often the streamer was started
  restart,     \* restartLSN of this session
  processed,   \* lastProcessedLSN
  offset,      \* the offset held by the state storage in memory
  cursor,      \* position of the next message the server sends
  described,   \* relations the server has described in this session
  received,    \* relations known to the receive loop
  resolved,    \* relations known to tracker and resolver
  tasks,       \* the task queue
  active,      \* of activeTransaction: between its BEGIN and its COMMIT
  finalLSN,    \* of activeTransaction: the position of its commit record
  spilled,     \* of activeTransaction: timedOut or overflowed
  compression, decompression,  \* of activeTransaction: such an update was seen
  ongoing,     \* of activeTransaction: between the decompression markers
  held,        \* of activeTransaction: the queue of collected messages
  draining,    \* the dispatcher is inside drain()
  closing,     \* the commit to forward after drain(), 0 when there is none
  emitted,     \* messages the sink has accepted an event for, over all sessions
  failed,      \* rows given up on: decoding failed or retries were exhausted
  dropped      \* rows discarded as part of a compression or decompression

durable == <<slot, disk>>
session == <<phase, starts, restart>>
context == <<processed, offset>>
server == <<cursor, described>>
flags == <<compression, decompression, ongoing>>
tracker == <<active, finalLSN, spilled, flags, held, draining, closing>>
history == <<emitted, failed, dropped>>
vars == <<durable, session, context, server, received, resolved, tasks, tracker, history>>

Task == [op: {"relation", "logical", "record", "finished"}, at: Positions]

NewTask(op, i) == [op |-> op, at |-> i]

Larger(a, b) == IF a > b THEN a ELSE b

(***************************************************************************)
(* Rows that need no further work: delivered, given up on, or discarded.   *)
(***************************************************************************)
Settled == emitted \cup failed \cup dropped

-------------------------------------------------------------------------------
\* Start, crash, and what survives a crash

(***************************************************************************)
(* Mutant: the position confirmed to the server is ignored on a restart.   *)
(***************************************************************************)
StoredOffsetOnly == IF disk = 0 THEN XLogPos ELSE disk

(***************************************************************************)
(* The larger of confirmed_flush_lsn and the stored offset; if both are 0, *)
(* the server's current position.                                          *)
(***************************************************************************)
locateRestartLSN ==
  LET known == Larger(slot, disk) IN IF known = 0 THEN XLogPos ELSE known

(***************************************************************************)
(* The server resumes with the first transaction whose commit record does  *)
(* not lie before the requested position.                                  *)
(***************************************************************************)
ResumesAt(c, lsn) ==
  /\ \A i \in Positions : i < c => Stream[i].final < lsn
  /\ \A i \in Positions : i >= c => Stream[i].final >= lsn

StartReplication ==
  /\ phase = "down"
  /\ starts < MaxStarts
  /\ phase' = "up"
  /\ starts' = starts + 1
  /\ restart' = locateRestartLSN
  /\ processed' = restart'
  /\ offset' = disk
  /\ cursor' \in 1..(Len(Stream) + 1)
  /\ ResumesAt(cursor', restart')
  /\ described' = {}
  /\ received' = {}
  /\ resolved' = {}
  /\ tasks' = <<>>
  /\ active' = FALSE
  /\ finalLSN' = 0
  /\ spilled' = FALSE
  /\ compression' = FALSE
  /\ decompression' = FALSE
  /\ ongoing' = FALSE
  /\ held' = <<>>
  /\ draining' = FALSE
  /\ closing' = 0
  /\ UNCHANGED <<durable, history>>

(***************************************************************************)
(* The process ends, by a crash or after an orderly stop; everything in    *)
(* memory is gone.  The last start allowed by the bound keeps running.     *)
(***************************************************************************)
Crash ==
  /\ phase = "up"
  /\ starts < MaxStarts
  /\ phase' = "down"
  /\ UNCHANGED <<durable, starts, restart, context, server, received, resolved,
                 tasks, tracker, history>>

Save ==
  /\ phase = "up"
  /\ disk' = offset
  /\ UNCHANGED <<slot, session, context, server, received, resolved, tasks,
                 tracker, history>>

(***************************************************************************)
(* The standby status update reports the processed position plus one; the  *)
(* server takes it over as confirmed_flush_lsn.                            *)
(***************************************************************************)
SendStatusUpdate ==
  /\ phase = "up"
  /\ slot' = processed + 1
  /\ UNCHANGED <<disk, session, context, server, received, resolved, tasks,
                 tracker, history>>

-------------------------------------------------------------------------------
\* The receive loop

HasRelation(i) == Stream[i].kind \in RowKinds \cup ChunkKinds

(***************************************************************************)
(* Mutant: relation messages are skipped as well.                          *)
(***************************************************************************)
SkipsRelations(type, lsn) == restart > lsn

(***************************************************************************)
(* Messages that start before the restart position are skipped, relation   *)
(* messages never: they carry WALStart 0.                                  *)
(***************************************************************************)
Skips(type, lsn) == type # "relation" /\ restart > lsn

(***************************************************************************)
(* Before the first row of a relation in a session the server describes    *)
(* the relation.                                                           *)
(***************************************************************************)
ReceiveRelation ==
  /\ phase = "up"
  /\ cursor \in Positions
  /\ HasRelation(cursor)
  /\ Stream[cursor].relation \notin described
  /\ described' = described \cup {Stream[cursor].relation}
  /\ IF Skips("relation", 0)
       THEN UNCHANGED <<received, tasks>>
       ELSE /\ received' = received \cup {Stream[cursor].relation}
            /\ tasks' = Append(tasks, NewTask("relation", cursor))
  /\ UNCHANGED <<durable, session, context, cursor, resolved, tracker, history>>

(***************************************************************************)
(* One iteration of the receive loop.  A row whose relation is unknown is  *)
(* fatal; a row that cannot be decoded is logged and forgotten.            *)
(***************************************************************************)
ReceiveMessage ==
  /\ phase = "up"
  /\ cursor \in Positions
  /\ HasRelation(cursor) => Stream[cursor].relation \in described
  /\ cursor' = cursor + 1
  /\ LET skipped == Skips("logical", Stream[cursor].lsn)
         known == HasRelation(cursor) => Stream[cursor].relation \in received
     IN /\ phase' = IF skipped \/ known THEN phase ELSE "fatal"
        /\ \/ /\ skipped \/ ~known
              /\ UNCHANGED <<tasks, failed>>
           \/ /\ ~skipped /\ known
              /\ tasks' = Append(tasks, NewTask("logical", cursor))
              /\ UNCHANGED failed
           \/ /\ ~skipped /\ known
              /\ Faults /\ HasRelation(cursor)
              /\ failed' = failed \cup {cursor}
              /\ UNCHANGED tasks
  /\ UNCHANGED <<durable, starts, restart, context, described, received, resolved,
                 tracker, emitted, dropped>>

-------------------------------------------------------------------------------
\* The emitter

AcknowledgeProcessed(lsn) ==
  /\ processed' = Larger(processed, lsn)
  /\ offset' = processed'

(***************************************************************************)
(* Mutant: an event acknowledges the commit record of its transaction.     *)
(***************************************************************************)
EmitAcksTransaction(i) ==
  \/ /\ emitted' = emitted \cup {i}
     /\ AcknowledgeProcessed(Stream[i].final)
     /\ UNCHANGED failed
  \/ /\ Faults
     /\ failed' = failed \cup {i}
     /\ UNCHANGED <<context, emitted>>

(***************************************************************************)
(* The sink takes the event, or refuses it until the retries are used up.  *)
(* The failure is logged by the dispatcher; the position stays where it    *)
(* was until a later event is acknowledged.                                *)
(***************************************************************************)
EmitEvent(i) ==
  \/ /\ emitted' = emitted \cup {i}
     /\ AcknowledgeProcessed(Stream[i].lsn + Stream[i].size)
     /\ UNCHANGED failed
  \/ /\ Faults
     /\ failed' = failed \cup {i}
     /\ UNCHANGED <<context, emitted>>

-------------------------------------------------------------------------------
\* The resolver

(***************************************************************************)
(* Does the resolver enqueue an event for message i?  Whether a chunk      *)
(* update still finds the chunk uncompressed, and a dropped chunk is still *)
(* marked as compressed, depends on when the catalog was read: both        *)
(* answers are possible.                                                   *)
(***************************************************************************)
Records(i) ==
  CASE Stream[i].kind \in RowKinds \cup MarkKinds -> {TRUE}
    [] Stream[i].kind = "compress" -> {FALSE, GenCompression}
    [] Stream[i].kind = "drop" -> {FALSE, GenDecompression}
    [] OTHER -> {FALSE}

(***************************************************************************)
(* Mutant: compression events are emitted at once, too.                    *)
(***************************************************************************)
ResolveCompressionAtOnce(i, q) ==
  \E record \in Records(i) :
    /\ IF record /\ Stream[i].kind \in ChunkKinds /\ Marking
         THEN EmitEvent(i) /\ tasks' = q
         ELSE /\ tasks' = IF record THEN Append(q, NewTask("record", i)) ELSE q
              /\ UNCHANGED <<context, emitted, failed>>
    /\ UNCHANGED phase

(***************************************************************************)
(* The resolver handles message i while the rest of the task queue is q.   *)
(* With decompression markers a decompression event is not enqueued but    *)
(* emitted at once.                                                        *)
(***************************************************************************)
Resolve(i, q) ==
  LET known == HasRelation(i) => Stream[i].relation \in resolved
  IN /\ phase' = IF known THEN phase ELSE "fatal"
     /\ \E record \in IF known THEN Records(i) ELSE {FALSE} :
          IF record /\ Stream[i].kind = "drop" /\ Marking
            THEN EmitEvent(i) /\ tasks' = q
            ELSE /\ tasks' = IF record THEN Append(q, NewTask("record", i)) ELSE q
                 /\ UNCHANGED <<context, emitted, failed>>

-------------------------------------------------------------------------------
\* The transaction tracker

(***************************************************************************)
(* Mutants: the window is drained at its deadline but stays open; the      *)
(* entry whose push finds the deadline passed is lost.                     *)
(***************************************************************************)
PushKeepsOpen(i) ==
  /\ Len(held) < WindowSize
  /\ held' = Append(held, i)
  /\ tasks' = Tail(tasks)
  /\ draining' \in BOOLEAN
  /\ UNCHANGED <<phase, context, emitted, failed, spilled>>

PushLosesLast(i) ==
  /\ Len(held) < WindowSize
  /\ tasks' = Tail(tasks)
  /\ \E timedOut \in BOOLEAN : /\ held' = IF timedOut THEN held ELSE Append(held, i)
                               /\ spilled' = timedOut /\ draining' = timedOut
  /\ UNCHANGED <<phase, context, emitted, failed>>

(***************************************************************************)
(* pushTransactionEntry.  A push into a full queue blocks the dispatcher.  *)
(* The deadline is looked at after the push; once it has passed, the queue *)
(* is drained and the rest of the transaction passes through.  (maxSize of *)
(* the transaction is never set, so its length never matters.)             *)
(***************************************************************************)
Push(i) ==
  /\ Len(held) < WindowSize
  /\ held' = Append(held, i)
  /\ tasks' = Tail(tasks)
  /\ \E timedOut \in BOOLEAN : spilled' = timedOut /\ draining' = timedOut
  /\ UNCHANGED <<phase, context, emitted, failed>>

Collects == Mode = "window" /\ active /\ ~spilled

(***************************************************************************)
(* Collect message i or hand it to the resolver.                           *)
(***************************************************************************)
PushOrResolve(i) ==
  /\ IF Collects THEN Push(i)
     ELSE Resolve(i, Tail(tasks)) /\ UNCHANGED <<spilled, held, draining>>
  /\ UNCHANGED <<active, finalLSN, closing>>

(***************************************************************************)
(* The dispatcher takes the first task, which is a message of this kind.   *)
(***************************************************************************)
Dispatches(kinds) ==
  /\ phase = "up"
  /\ ~draining
  /\ tasks # <<>>
  /\ Head(tasks).op = "logical"
  /\ Stream[Head(tasks).at].kind \in kinds

OnRelationEvent ==
  /\ phase = "up"
  /\ ~draining
  /\ tasks # <<>>
  /\ Head(tasks).op = "relation"
  /\ resolved' = resolved \cup {Stream[Head(tasks).at].relation}
  /\ tasks' = Tail(tasks)
  /\ UNCHANGED <<durable, session, context, server, received, tracker, history>>

(***************************************************************************)
(* startTransaction throws away whatever is left in the queue.             *)
(***************************************************************************)
OnBeginEvent ==
  /\ Dispatches({"begin"})
  /\ tasks' = Tail(tasks)
  /\ IF ~Tracking
       THEN UNCHANGED tracker
       ELSE /\ active' = TRUE
            /\ finalLSN' = Stream[Head(tasks).at].final
            /\ spilled' = FALSE
            /\ compression' = FALSE
            /\ decompression' = FALSE
            /\ ongoing' = FALSE
            /\ held' = <<>>
            /\ UNCHANGED <<draining, closing>>
  /\ UNCHANGED <<durable, session, context, server, received, resolved, history>>

(***************************************************************************)
(* Mutants: the commit is passed on before the window is drained; the      *)
(* window is not drained; the transaction stays active.                    *)
(***************************************************************************)
CommitBeforeDrain ==
  /\ Dispatches({"commit"})
  /\ tasks' = Append(Tail(tasks), NewTask("finished", Head(tasks).at))
  /\ draining' = (Mode = "window" /\ active)
  /\ active' = FALSE
  /\ UNCHANGED <<durable, session, context, server, received, resolved, finalLSN,
                 spilled, flags, held, closing, history>>

CommitWithoutDrain ==
  /\ Dispatches({"commit"})
  /\ tasks' = Append(Tail(tasks), NewTask("finished", Head(tasks).at))
  /\ active' = FALSE
  /\ UNCHANGED <<durable, session, context, server, received, resolved, finalLSN,
                 spilled, flags, held, draining, closing, history>>

CommitStaysActive ==
  /\ Dispatches({"commit"})
  /\ tasks' = IF active THEN Tail(tasks)
              ELSE Append(Tail(tasks), NewTask("finished", Head(tasks).at))
  /\ draining' = active
  /\ closing' = IF active THEN Head(tasks).at ELSE 0
  /\ UNCHANGED <<durable, session, context, server, received, resolved, active, finalLSN,
                 spilled, flags, held, history>>

(***************************************************************************)
(* A commit outside of a collected transaction is passed on.  A commit     *)
(* that compresses or decompresses a chunk enqueues the event for it (at   *)
(* the position of the commit) and returns: neither the collected messages *)
(* nor the commit itself are passed on.  Any other commit drains the queue *)
(* and is passed on after that.                                            *)
(***************************************************************************)
OnCommitEvent ==
  /\ Dispatches({"commit"})
  /\ LET i == Head(tasks).at
         rest == Tail(tasks)
         event == <<NewTask("record", i)>>
     IN \/ /\ Mode # "window" \/ ~active
           /\ tasks' = Append(rest, NewTask("finished", i))
           /\ UNCHANGED <<draining, closing, dropped>>
        \/ /\ Mode = "window" /\ active
           /\ compression \/ decompression
           /\ tasks' = rest
                \o (IF compression /\ GenCompression THEN event ELSE <<>>)
                \o (IF decompression /\ GenDecompression THEN event ELSE <<>>)
           /\ dropped' = dropped \cup {held[n] : n \in DOMAIN held}
           /\ UNCHANGED <<draining, closing>>
        \/ /\ Mode = "window" /\ active
           /\ ~compression /\ ~decompression
           /\ tasks' = rest
           /\ draining' = TRUE
           /\ closing' = i
           /\ UNCHANGED dropped
  /\ active' = FALSE
  /\ UNCHANGED <<durable, session, context, server, received, resolved, finalLSN,
                 spilled, flags, held, emitted, failed>>

(***************************************************************************)
(* Inserts of a decompression are the rows that were compressed before and *)
(* are discarded.                                                          *)
(***************************************************************************)
OnInsertEvent ==
  /\ Dispatches({"insert"})
  /\ LET i == Head(tasks).at
     IN IF active /\ (decompression \/ ongoing)
          THEN /\ dropped' = dropped \cup {i}
               /\ tasks' = Tail(tasks)
               /\ UNCHANGED <<phase, context, tracker, emitted, failed>>
          ELSE PushOrResolve(i) /\ UNCHANGED <<flags, dropped>>
  /\ UNCHANGED <<durable, starts, restart, server, received, resolved>>

(***************************************************************************)
(* OnUpdateEvent, OnDeleteEvent, OnTruncateEvent and OnMessageEvent for    *)
(* user data, OnDeleteEvent for a chunk of the catalog.                    *)
(***************************************************************************)
OnChangeEvent ==
  /\ Dispatches({"change", "drop"})
  /\ PushOrResolve(Head(tasks).at)
  /\ UNCHANGED <<durable, starts, restart, server, received, resolved, flags, dropped>>

(***************************************************************************)
(* OnUpdateEvent for a chunk of the catalog.  The tracker recognises the   *)
(* compression or decompression by comparing with the status in its        *)
(* catalog, which may have been read after the update was made.            *)
(***************************************************************************)
OnChunkUpdateEvent ==
  /\ Dispatches({"compress", "decompress"})
  /\ \E recognised \in {FALSE, Mode = "window"} :
       LET kind == Stream[Head(tasks).at].kind
       IN /\ compression' = (compression \/ (recognised /\ kind = "compress"))
          /\ decompression' = (decompression \/ (recognised /\ kind = "decompress"))
  /\ PushOrResolve(Head(tasks).at)
  /\ UNCHANGED <<durable, starts, restart, server, received, resolved, ongoing, dropped>>

(***************************************************************************)
(* Mutant: the end marker does not end the decompression.                  *)
(***************************************************************************)
MarkersNeverEnd ==
  /\ Dispatches(MarkKinds)
  /\ ongoing' = TRUE
  /\ tasks' = Tail(tasks)
  /\ UNCHANGED <<durable, session, context, server, received, resolved, active, finalLSN,
                 spilled, compression, decompression, held, draining, closing, history>>

(***************************************************************************)
(* The decompression markers switch the discarding of inserts on and off;  *)
(* a tracker that does not expect them treats them as logical messages.    *)
(***************************************************************************)
OnMarkerEvent ==
  /\ Dispatches(MarkKinds)
  /\ LET i == Head(tasks).at
         start == Stream[i].kind = "startmark"
     IN IF Mode = "markers" /\ (start \/ (active /\ ongoing))
          THEN /\ ongoing' = start
               /\ tasks' = Tail(tasks)
               /\ UNCHANGED <<phase, context, active, finalLSN, spilled, held, draining,
                              closing, emitted, failed>>
          ELSE PushOrResolve(i) /\ UNCHANGED ongoing
  /\ UNCHANGED <<durable, starts, restart, server, received, resolved, compression,
                 decompression, dropped>>

(***************************************************************************)
(* Mutant: drain() starts with the newest message.                         *)
(***************************************************************************)
DrainNewest ==
  /\ phase = "up"
  /\ draining
  /\ IF held # <<>>
       THEN /\ Resolve(held[Len(held)], tasks)
            /\ held' = SubSeq(held, 1, Len(held) - 1)
            /\ UNCHANGED <<draining, closing>>
       ELSE /\ draining' = FALSE
            /\ closing' = 0
            /\ tasks' = IF closing = 0 THEN tasks
                        ELSE Append(tasks, NewTask("finished", closing))
            /\ UNCHANGED <<phase, context, held, emitted, failed>>
  /\ UNCHANGED <<durable, starts, restart, server, received, resolved, active,
                 finalLSN, spilled, flags, dropped>>

(***************************************************************************)
(* drain() hands the collected messages to the resolver one by one, while  *)
(* the receive loop may append to the task queue; then the commit follows. *)
(***************************************************************************)
Drain ==
  /\ phase = "up"
  /\ draining
  /\ IF held # <<>>
       THEN /\ Resolve(Head(held), tasks)
            /\ held' = Tail(held)
            /\ UNCHANGED <<draining, closing>>
       ELSE /\ draining' = FALSE
            /\ closing' = 0
            /\ tasks' = IF closing = 0 THEN tasks
                        ELSE Append(tasks, NewTask("finished", closing))
            /\ UNCHANGED <<phase, context, held, emitted, failed>>
  /\ UNCHANGED <<durable, starts, restart, server, received, resolved, active,
                 finalLSN, spilled, flags, dropped>>

-------------------------------------------------------------------------------
\* Tasks of the resolver, executed by the emitter

OnRecordEvent ==
  /\ phase = "up"
  /\ ~draining
  /\ tasks # <<>>
  /\ Head(tasks).op = "record"
  /\ EmitEvent(Head(tasks).at)
  /\ tasks' = Tail(tasks)
  /\ UNCHANGED <<durable, session, server, received, resolved, tracker, dropped>>

(***************************************************************************)
(* The end of a transaction acknowledges TransactionEndLSN, which is the   *)
(* WALStart of the commit message.                                         *)
(***************************************************************************)
OnTransactionFinishedEvent ==
  /\ phase = "up"
  /\ ~draining
  /\ tasks # <<>>
  /\ Head(tasks).op = "finished"
  /\ AcknowledgeProcessed(Stream[Head(tasks).at].lsn)
  /\ tasks' = Tail(tasks)
  /\ UNCHANGED <<durable, session, server, received, resolved, tracker, history>>

-------------------------------------------------------------------------------
Init ==
  /\ slot = CreatedAt
  /\ disk = 0
  /\ phase = "down"
  /\ starts = 0
  /\ restart = 0
  /\ processed = 0
  /\ offset = 0
  /\ cursor = 1
  /\ described = {}
  /\ received = {}
  /\ resolved = {}
  /\ tasks = <<>>
  /\ active = FALSE
  /\ finalLSN = 0
  /\ spilled = FALSE
  /\ compression = FALSE
  /\ decompression = FALSE
  /\ ongoing = FALSE
  /\ held = <<>>
  /\ draining = FALSE
  /\ closing = 0
  /\ emitted = {}
  /\ failed = {}
  /\ dropped = {}

Receive == ReceiveRelation \/ ReceiveMessage

Dispatch ==
  \/ OnRelationEvent
  \/ OnBeginEvent
  \/ OnCommitEvent
  \/ OnInsertEvent
  \/ OnChangeEvent
  \/ OnChunkUpdateEvent
  \/ OnMarkerEvent
  \/ Drain
  \/ OnRecordEvent
  \/ OnTransactionFinishedEvent

Next ==
  \/ StartReplication
  \/ Crash
  \/ Save
  \/ SendStatusUpdate
  \/ Receive
  \/ Dispatch

Spec == Init /\ [][Next]_vars

(***************************************************************************)
(* The server keeps sending, the two goroutines keep running, and whoever  *)
(* operates the streamer starts it again.                                  *)
(***************************************************************************)
Fairness ==
  /\ WF_vars(StartReplication)
  /\ WF_vars(Receive)
  /\ WF_vars(Dispatch)

FairSpec == Spec /\ Fairness

-------------------------------------------------------------------------------
\* Properties

(***************************************************************************)
(* Types: in particular every task and every collected entry refers to a   *)
(* message the server can send, and the receive loop never runs past the   *)
(* end of the stream.                                                      *)
(***************************************************************************)
TypeOK ==
  /\ slot \in Nat /\ disk \in Nat
  /\ phase \in {"down", "up", "fatal"}
  /\ starts \in 0..MaxStarts
  /\ restart \in Nat /\ processed \in Nat /\ offset \in Nat
  /\ cursor \in 1..(Len(Stream) + 1)
  /\ described \subseteq Relations
  /\ received \subseteq Relations
  /\ resolved \subseteq Relations
  /\ tasks \in Seq(Task)
  /\ active \in BOOLEAN /\ finalLSN \in Nat /\ spilled \in BOOLEAN
  /\ compression \in BOOLEAN /\ decompression \in BOOLEAN /\ ongoing \in BOOLEAN
  /\ held \in Seq(Positions)
  /\ draining \in BOOLEAN
  /\ closing \in {0} \cup Positions
  /\ emitted \subseteq Positions
  /\ failed \subseteq Positions
  /\ dropped \subseteq Positions

(***************************************************************************)
(* At-least-once delivery across crashes: no row lies before the position  *)
(* from which a restart would resume (locateRestartLSN: the larger of      *)
(* confirmed_flush_lsn and the stored offset) unless its event has been    *)
(* accepted by the sink, given up on, or deliberately discarded.           *)
(***************************************************************************)
NoLoss ==
  \A i \in Rows : Stream[i].lsn < Larger(slot, disk) => i \in Settled

(***************************************************************************)
(* What the receive loop says of its skip rule: "Skip all entries that     *)
(* were already replicated before the streamer was shut down".             *)
(***************************************************************************)
SkippedWereReplicated ==
  phase = "up" => \A i \in Rows : Stream[i].lsn < restart => i \in Settled

(***************************************************************************)
(* Events reach the sink in commit order: the event of a message is only   *)
(* accepted once every earlier row is settled, in whatever session.        *)
(***************************************************************************)
InOrder ==
  \A i \in emitted : \A j \in Rows : j < i => j \in Settled

(***************************************************************************)
(* The transaction window collects "all WAL entries of the transaction     *)
(* before replicating it out": as long as the window of a transaction is   *)
(* open and has not timed out, no event of it is on its way to the sink,   *)
(* and the window holds messages of this transaction only.                 *)
(***************************************************************************)
WholeTransactions ==
  phase = "up" /\ Collects =>
    /\ \A n \in DOMAIN tasks :
         tasks[n].op = "record" => Stream[tasks[n].at].final # finalLSN
    /\ \A n \in DOMAIN held : Stream[held[n]].final = finalLSN

(***************************************************************************)
(* A row that a decompression writes back: TimescaleDB announces it in the *)
(* same transaction by a start marker before it, and no end marker between *)
(* the two, or by the update of the chunk's status.                        *)
(***************************************************************************)
Reinserted(i) ==
  /\ Stream[i].kind = "insert"
  /\ \E k \in Positions :
       /\ Stream[k].final = Stream[i].final
       /\ \/ Stream[k].kind = "decompress"
          \/ /\ Stream[k].kind = "startmark" /\ k < i
             /\ \A m \in k..i : Stream[m].kind # "endmark"

(***************************************************************************)
(* The tracker discards inserts because "those are the re-inserted,        *)
(* uncompressed rows that were already replicated into events in the past":*)
(* no other row is ever discarded.                                         *)
(***************************************************************************)
OnlyReinsertedDropped == \A i \in dropped \cap Rows : Reinserted(i)

(***************************************************************************)
(* Neither the receive loop nor the resolver meets a row of a relation it  *)
(* does not know (both would end the process with Fatalf), also when a     *)
(* session resumes inside a transaction.                                   *)
(***************************************************************************)
NeverFatal == phase # "fatal"

(***************************************************************************)
(* The collected messages that drain() will still hand to the resolver.    *)
(***************************************************************************)
Held == IF active \/ draining THEN held ELSE <<>>

InFlight(i, q, h) ==
  \/ \E n \in DOMAIN q : q[n].op \in {"logical", "record"} /\ q[n].at = i
  \/ \E n \in DOMAIN h : h[n] = i

(***************************************************************************)
(* Nothing falls between two stages: a row the receive loop has taken and  *)
(* that is not settled yet is in the task queue, as a message or as an     *)
(* event, or in the queue of a transaction that will still be drained.     *)
(***************************************************************************)
NothingForgotten ==
  phase = "up" => \A i \in Rows : i < cursor => i \in Settled \/ InFlight(i, tasks, Held)

(***************************************************************************)
(* What is acknowledged is done with (AcknowledgeProcessed): no row before *)
(* lastProcessedLSN is in the task queue, as a message or as an event, or  *)
(* in the window, be it sent for the first time or once more after a       *)
(* restart.  Otherwise the next status update would confirm a row that is  *)
(* still on its way, or a row be delivered again that was confirmed.       *)
(***************************************************************************)
AcknowledgedIsDone ==
  phase = "up" => \A i \in Rows : InFlight(i, tasks, Held) => Stream[i].lsn >= processed

Messages(q) == {n \in DOMAIN q : q[n].op = "logical"}
Events(q) == {n \in DOMAIN q : q[n].op \in {"record", "finished"}}

Ordered(q, h, c) ==
  /\ \A m, n \in Messages(q) : m < n => q[m].at < q[n].at
  /\ \A m, n \in Events(q) : m < n => q[m].at <= q[n].at
  /\ \A m \in Events(q), n \in Messages(q) : q[m].at < q[n].at
  /\ \A m, n \in DOMAIN h : m < n => h[m] < h[n]
  /\ \A m \in Events(q), n \in DOMAIN h : q[m].at < h[n]
  /\ \A m \in DOMAIN h, n \in Messages(q) : h[m] < q[n].at
  /\ c # 0 => /\ \A m \in Events(q) : q[m].at < c
              /\ \A m \in DOMAIN h : h[m] < c
              /\ \A n \in Messages(q) : c < q[n].at

(***************************************************************************)
(* The stages of the pipeline never overtake each other, although messages *)
(* and events share one queue and the receive loop appends to it while the *)
(* dispatcher does: events in the queue precede collected messages, those  *)
(* precede the commit being processed, and that precedes the messages that *)
(* wait for the tracker; each stage by itself is in stream order.          *)
(***************************************************************************)
PipelineOrder == phase = "up" => Ordered(tasks, Held, closing)

(***************************************************************************)
(* The position confirmed to the server never moves backwards, over        *)
(* restarts with a lost or an outdated state file too.                     *)
(***************************************************************************)
ConfirmedNeverBack == [][slot' >= slot]_vars

(***************************************************************************)
(* Every row of the stream is settled in the end.                          *)
(***************************************************************************)
EverythingSettled == <>(Rows \subseteq Settled)

(***************************************************************************)
(* Of postgresql.transaction.window.maxsize the README says that once the  *)
(* maximum number of entries is cached "replication will start": a full    *)
(* window is emptied.                                                      *)
(***************************************************************************)
FullWindowStarts == (Len(held) = WindowSize) ~> (held = <<>>)
===============================================================================
