----------------------------- MODULE ChunkHandoff -----------------------------
(***************************************************************************)
(* How the rows of a new chunk reach the sink.  The streamer learns of the *)
(* chunk from the stream, starts to park the chunk's events, adds the      *)
(* chunk to the publication, reads what is in it through a cursor and,     *)
(* when this has finished, replays the parked events that are not older    *)
(* than the cursor.  The replication handler, the dispatcher, a snapshot   *)
(* worker and the transactions of the database run side by side; the       *)
(* streamer may end and start again at any point.                          *)
(*                                                                         *)
(* A row is a key; every transaction writes a new version of one key.      *)
(***************************************************************************)
EXTENDS Integers, Sequences, FiniteSets

CONSTANTS Keys, None,
          MaxWrites,     \* transactions that write to the chunk
          MaxParked,     \* capacity of the queue of parked events
          MaxStarts      \* starts of the streamer

VARIABLES lsn,           \* the last log position given to a write or a commit
          open,          \* writes not yet committed: [key, version, lsn, published]
          committed,     \* key -> its committed version; 0 is no row
          wal,           \* committed transactions, as the slot sends them
          published,     \* the chunk is in the publication
          sent,          \* transactions received
          queue,         \* the dispatcher's queue
          acked,         \* transactions acknowledged
          inCatalog,     \* the catalog knows the chunk
          parked,        \* eventQueues, for the chunk; None if there is none
          worker,        \* the snapshot worker: [at, lsn, rows]
          known,         \* previously known chunks in the state storage; None, TRUE or FALSE
          last,          \* key -> the version in the last event the sink got
          blind,         \* writes before the cursor's position that its snapshot does not have
          interrupted,   \* the streamer ended inside a hand-off it does not repeat
          handedOff,     \* the hand-off of the last cursor has finished
          starts

database == <<lsn, open, committed, wal>>
session == <<sent, queue, acked, inCatalog, parked, worker>>
vars == <<database, published, session, known, last, blind, interrupted, handedOff, starts>>

Idle == [at |-> "idle", lsn |-> 0, rows |-> {}]
Task(k, i, e) == [kind |-> k, at |-> i, event |-> e]
NoEvent == [key |-> None, version |-> 0, lsn |-> 0]

Init ==
  /\ lsn = 0 /\ open = {} /\ committed = [k \in Keys |-> 0] /\ wal = <<>> /\ published = FALSE
  /\ sent = 0 /\ queue = <<>> /\ acked = 0 /\ inCatalog = FALSE /\ parked = <<None>> /\ worker = Idle
  /\ known = None /\ last = [k \in Keys |-> 0]
  /\ blind = {} /\ interrupted = FALSE /\ handedOff = FALSE /\ starts = 1

NotParking == parked = <<None>>

-----------------------------------------------------------------------------
(* The database.  The transaction that creates the chunk inserts a row.     *)
ChunkExists == wal # <<>>

CreateChunk ==
  /\ ~ChunkExists
  /\ \E k \in Keys :
       /\ committed' = [committed EXCEPT ![k] = 1]
       /\ wal' = <<[kind |-> "chunk", event |-> NoEvent, published |-> TRUE]>>
  /\ lsn' = 1
  /\ UNCHANGED <<open, published, session, known, last, blind, interrupted, handedOff, starts>>

(* The row lock keeps a second writer of the key out. *)
Write ==
  /\ ChunkExists /\ Cardinality(open) + Len(wal) <= MaxWrites /\ lsn' = lsn + 1
  /\ \E k \in Keys :
       /\ \A w \in open : w.key # k
       /\ open' = open \cup {[key |-> k, version |-> committed[k] + 1, lsn |-> lsn', published |-> published]}
  /\ UNCHANGED <<committed, wal, published, session, known, last, blind, interrupted, handedOff, starts>>

(* The server sends transactions in the order of their commits.  A change  *)
(* carries the position it was written at, and is left out if the chunk    *)
(* was not published then.                                                 *)
Commit ==
  \E w \in open :
    /\ open' = open \ {w} /\ lsn' = lsn + 1
    /\ committed' = [committed EXCEPT ![w.key] = w.version]
    /\ wal' = Append(wal, [kind |-> "row", published |-> w.published,
                           event |-> [key |-> w.key, version |-> w.version, lsn |-> w.lsn]])
    /\ UNCHANGED <<published, session, known, last, blind, interrupted, handedOff, starts>>

-----------------------------------------------------------------------------
(* The replication handler hands the events of a transaction over. *)
handleReplicationEvents ==
  /\ sent < Len(wal) /\ sent' = sent + 1
  /\ queue' = Append(queue, Task("resolve", sent', wal[sent'].event))
  /\ UNCHANGED <<database, published, acked, inCatalog, parked, worker, known, last, blind, interrupted, handedOff, starts>>

-----------------------------------------------------------------------------
(* The dispatcher.  The resolver enqueues what the events ask for.          *)
Dispatch(kind) == queue # <<>> /\ Head(queue).kind = kind

TransactionFinished == Task("finished", Head(queue).at, NoEvent)

onChunkInsertEvent ==
  /\ Dispatch("resolve") /\ wal[Head(queue).at].kind = "chunk"
  /\ queue' = Tail(queue) \o <<Task("added", Head(queue).at, NoEvent), TransactionFinished>>
  /\ UNCHANGED <<database, published, sent, acked, inCatalog, parked, worker, known, last, blind, interrupted, handedOff, starts>>

(* isSnapshotting: the event is parked; a full queue blocks the dispatcher. *)
ParkEvent ==
  /\ Dispatch("resolve") /\ wal[Head(queue).at].kind = "row"
  /\ wal[Head(queue).at].published /\ inCatalog /\ ~NotParking
  /\ Len(parked) < MaxParked
  /\ parked' = Append(parked, Head(queue).event)
  /\ queue' = Append(Tail(queue), TransactionFinished)
  /\ UNCHANGED <<database, published, sent, acked, inCatalog, worker, known, last, blind, interrupted, handedOff, starts>>

(* Events of a chunk the catalog does not know are dropped. *)
ExecuteEvent ==
  /\ Dispatch("resolve") /\ wal[Head(queue).at].kind = "row"
  /\ ~(wal[Head(queue).at].published /\ inCatalog /\ ~NotParking)
  /\ queue' = Tail(queue)
              \o (IF wal[Head(queue).at].published /\ inCatalog
                  THEN <<Task("emit", Head(queue).at, Head(queue).event)>> ELSE <<>>)
              \o <<TransactionFinished>>
  /\ UNCHANGED <<database, published, sent, acked, inCatalog, parked, worker, known, last, blind, interrupted, handedOff, starts>>

(* Whether or not the chunk is in the publication, it is snapshotted. *)
OnChunkAddedEvent ==
  /\ Dispatch("added")
  /\ inCatalog' = TRUE
  /\ queue' = Append(Tail(queue), Task("started", Head(queue).at, NoEvent))
  /\ UNCHANGED <<database, published, sent, acked, parked, worker, known, last, blind, interrupted, handedOff, starts>>

OnChunkSnapshotStartedEvent ==
  /\ Dispatch("started")
  /\ parked' = <<>>
  /\ worker' = [Idle EXCEPT !.at = "queued"]
  /\ queue' = Tail(queue)
  /\ UNCHANGED <<database, published, sent, acked, inCatalog, known, last, blind, interrupted, handedOff, starts>>

OnTransactionFinishedEvent ==
  /\ Dispatch("finished")
  /\ acked' = IF Head(queue).at > acked THEN Head(queue).at ELSE acked
  /\ queue' = Tail(queue)
  /\ UNCHANGED <<database, published, sent, inCatalog, parked, worker, known, last, blind, interrupted, handedOff, starts>>

Emit ==
  /\ Dispatch("emit")
  /\ last' = [last EXCEPT ![Head(queue).event.key] = Head(queue).event.version]
  /\ queue' = Tail(queue)
  /\ UNCHANGED <<database, published, sent, acked, inCatalog, parked, worker, known, blind, interrupted, handedOff, starts>>

(* The position of the change, not the one of its commit, is compared. *)
Replayed(event, snapshot) == ~(event.lsn < snapshot)

(* The end of the chunk's snapshot: the parked events are taken out one by *)
(* one, and the transactions of others may come between two of them.       *)
ReplayParked ==
  /\ Dispatch("chunkFinished") /\ parked # <<>> /\ parked' = Tail(parked)
  /\ queue' = IF Replayed(Head(parked), worker.lsn) THEN Append(queue, Task("emit", 0, Head(parked))) ELSE queue
  /\ UNCHANGED <<database, published, sent, acked, inCatalog, worker, known, last, blind, interrupted, handedOff, starts>>

OnChunkSnapshotFinishedEvent ==
  /\ Dispatch("chunkFinished") /\ parked = <<>>
  /\ parked' = <<None>> /\ worker' = Idle /\ handedOff' = TRUE
  /\ queue' = Tail(queue)
  /\ UNCHANGED <<database, published, sent, acked, inCatalog, known, last, blind, interrupted, starts>>

-----------------------------------------------------------------------------
(* The snapshot worker. *)
AttachTablesToPublication ==
  /\ worker.at = "queued" /\ worker' = [worker EXCEPT !.at = "attached"]
  /\ published' = TRUE
  /\ UNCHANGED <<database, sent, queue, acked, inCatalog, parked, known, last, blind, interrupted, handedOff, starts>>

SnapshotRows == {<<k, committed[k]>> : k \in {key \in Keys : committed[key] > 0}}

(* A faulty variant: the snapshot is taken before the chunk is published. *)
SnapshotFirst ==
  /\ worker.at = "queued" /\ worker' = [worker EXCEPT !.at = "begun", !.rows = SnapshotRows]
  /\ handedOff' = FALSE
  /\ UNCHANGED <<database, published, sent, queue, acked, inCatalog, parked, known, last, blind, interrupted, starts>>

(* SnapshotChunkTable: the first query of the transaction takes its         *)
(* snapshot of the database ...                                            *)
BeginSnapshot ==
  /\ worker.at = "attached" /\ worker' = [worker EXCEPT !.at = "begun", !.rows = SnapshotRows]
  /\ handedOff' = FALSE
  /\ UNCHANGED <<database, published, sent, queue, acked, inCatalog, parked, known, last, blind, interrupted, starts>>

(* ... and reads the current position, the end of the log at that time.    *)
Writes == open \cup {wal[i].event : i \in DOMAIN wal}
Unseen(w) == \A row \in worker.rows : row[1] = w.key => row[2] < w.version

ReadPosition ==
  /\ worker.at = "begun" /\ worker' = [worker EXCEPT !.at = "rows", !.lsn = lsn + 1]
  /\ blind' = {<<w.key, w.version>> : w \in {v \in Writes : Unseen(v)}}
  /\ UNCHANGED <<database, published, sent, queue, acked, inCatalog, parked, known, last, interrupted, handedOff, starts>>

DecodeMapAndSink ==
  /\ worker.at = "rows"
  /\ \E row \in worker.rows :
       /\ worker' = [worker EXCEPT !.rows = @ \ {row}]
       /\ queue' = Append(queue, Task("emit", 0, [key |-> row[1], version |-> row[2], lsn |-> worker.lsn]))
  /\ UNCHANGED <<database, published, sent, acked, inCatalog, parked, known, last, blind, interrupted, handedOff, starts>>

EnqueueFinish ==
  /\ worker.at = "rows" /\ worker.rows = {}
  /\ worker' = [worker EXCEPT !.at = "waits"]
  /\ queue' = Append(queue, Task("chunkFinished", 0, NoEvent))
  /\ UNCHANGED <<database, published, sent, acked, inCatalog, parked, known, last, blind, interrupted, handedOff, starts>>

-----------------------------------------------------------------------------
(* The chunks to add when the streamer starts: the previously known ones   *)
(* that still exist or, without such a list, all; those that are published *)
(* already are left out.                                                   *)
collectChunksForPublication(state) == ChunkExists /\ (state = None \/ state = TRUE) /\ ~published

(* The hand-off is not over before the parked events are at the sink. *)
HandoffPending == ~handedOff \/ ~NotParking \/ \E i \in DOMAIN queue : queue[i].kind = "emit" /\ queue[i].at = 0

(* The streamer ends, cleanly or not, and starts again.  The catalog is    *)
(* read from the database, missing chunks are published, and the stream    *)
(* goes on after a position that was acknowledged.                         *)
Restart(state, from) ==
  /\ starts < MaxStarts /\ starts' = starts + 1
  /\ known' = state
  /\ sent' = from /\ acked' = from /\ queue' = <<>> /\ parked' = <<None>> /\ worker' = Idle
  /\ inCatalog' = ChunkExists
  /\ published' = (published \/ collectChunksForPublication(state))
  /\ interrupted' = (interrupted \/ (from > 0 /\ HandoffPending))
  /\ UNCHANGED <<database, last, blind, handedOff>>

StopReplication == Restart(inCatalog, acked)
Crash == \E from \in 0..acked : Restart(known, from)

-----------------------------------------------------------------------------
Next ==
  \/ CreateChunk
  \/ Write
  \/ Commit
  \/ handleReplicationEvents
  \/ onChunkInsertEvent
  \/ ParkEvent
  \/ ExecuteEvent
  \/ OnChunkAddedEvent
  \/ OnChunkSnapshotStartedEvent
  \/ OnTransactionFinishedEvent
  \/ Emit
  \/ ReplayParked
  \/ OnChunkSnapshotFinishedEvent
  \/ AttachTablesToPublication
  \/ BeginSnapshot
  \/ ReadPosition
  \/ DecodeMapAndSink
  \/ EnqueueFinish
  \/ StopReplication
  \/ Crash

Spec == Init /\ [][Next]_vars

-----------------------------------------------------------------------------
Quiet == sent = Len(wal) /\ queue = <<>> /\ worker = Idle /\ NotParking /\ ChunkExists

(* Once the streamer has caught up, the last event the sink has of a row   *)
(* is its committed version, however the writes, the publication of the    *)
(* chunk, the snapshot, its position, the parked events and restarts fall  *)
(* together.  Two exceptions: a write that lies before the position of the *)
(* snapshot it is missing from, because it was not committed when that was *)
(* taken (enqueueOrExecute compares positions), and a hand-off that was    *)
(* cut off after the chunk's creation had been acknowledged, which is not  *)
(* taken up again.                                                         *)
HandedOver ==
  Quiet /\ ~interrupted => \A k \in Keys : last[k] = committed[k] \/ <<k, committed[k]>> \in blind
=============================================================================
