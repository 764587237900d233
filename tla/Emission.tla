------------------------------- MODULE Emission -------------------------------
(***************************************************************************)
(* From a decoded event to the sink: the event emitter converts the row,  *)
(* takes the stream of the table (made on first use and kept for the life *)
(* of the process), builds key and value with the stream's schemas, asks  *)
(* the event filter, and hands the message to the sink until it is        *)
(* accepted or the retries are used up.  Meanwhile tables are altered,    *)
(* dropped and created again.  All of this runs on the dispatcher         *)
(* goroutine of the task manager, one event after the other.              *)
(*                                                                        *)
(* A row is the set of its columns, a schema the set of the fields it     *)
(* describes.  Events are numbered; positions and times are the number of *)
(* the first event that has them.                                         *)
(***************************************************************************)
EXTENDS Integers, Sequences, FiniteSets

CONSTANTS nil,           \* the absent value
          PrimaryKey,    \* table -> the columns of its primary key
          Dimensions,    \* table -> its dimensions; a hypertable has some
          Aggregates,    \* the hypertables of continuous aggregates
          Configurations, \* [sink, filters, tables] of the process
          MaxEvents,     \* how many events arrive
          MaxRetries,    \* 8 in the code
          MaxChanges     \* how often a table is altered or recreated

VARIABLES config,        \* its sink, its filters and the tables that have events
          db,            \* table -> its columns in the database
          announced,     \* table -> its columns in the last relation message
          catalog,       \* table -> its columns in the system catalog
          reused,        \* tables dropped and created again under their name
          streams,       \* streamManager.streams
          job,           \* the message being emitted, nil between two events
          received,      \* the number of events received
          latest,        \* the event received last: [op, table, lsn, ts_ms]
          stored,        \* what the sink has stored, in order
          acked,         \* the events acknowledged: [n, value], with nil if nothing was sent
          failed,        \* the events given up
          live           \* FALSE once the process panicked

emitterVars == <<config, db, announced, catalog, reused, streams, job, received, latest,
                 stored, acked, failed, live>>
tables == <<db, announced, catalog, reused>>

-----------------------------------------------------------------------------
Tables == DOMAIN PrimaryKey
IsHypertable(t) == Dimensions[t] # {}
Original(t) == PrimaryKey[t] \cup Dimensions[t] \cup {"a"}

(* The columns of the snapshot index: the primary key, for a hypertable  *)
(* without one its dimensions.                                           *)
KeyIndexColumns(t) ==
  IF IsHypertable(t) /\ PrimaryKey[t] = {} THEN Dimensions[t] ELSE PrimaryKey[t]

-----------------------------------------------------------------------------
(* Names.                                                                *)
TopicPrefix == "timescaledb"
EventTopicName(t) == <<TopicPrefix, "schema", t>>
MessageTopicName == <<TopicPrefix, "message">>

-----------------------------------------------------------------------------
(* Schemas: the fields they list.                                        *)
SourceSchema ==
  {"version", "connector", "name", "ts_ms", "snapshot", "schema", "table", "txId", "lsn", "xmin"}
KeySchema(t, columns) == columns \cap PrimaryKey[t]
EnvelopeSchema(columns) ==
  [row |-> columns, source |-> SourceSchema,
   fields |-> {"before", "after", "source", "op", "tsdb_op", "ts_ms"}]
MessageKeySchema == {"prefix"}
MessageValueSchema == {"op", "ts_ms", "source", "message"}
EnvelopeMessageSchema ==
  [row |-> MessageValueSchema, source |-> SourceSchema,
   fields |-> {"source", "op", "tsdb_op", "ts_ms"}]

-----------------------------------------------------------------------------
(* Payloads: field -> content.                                           *)
Field(field, content) == [f \in {field} |-> content]
With(fields, others) ==
  [f \in DOMAIN fields \cup DOMAIN others |-> IF f \in DOMAIN fields THEN fields[f] ELSE others[f]]
Present(field, content) == IF content = nil THEN <<>> ELSE Field(field, content)
Event(op, source) == [op |-> op, source |-> source, ts_ms |-> latest'.ts_ms]

ReadEvent(record, source) == With(Field("after", record), Event("r", source))
CreateEvent(record, source) == With(Field("after", record), Event("c", source))
UpdateEvent(before, after, source) ==
  With(Present("before", before), With(Present("after", after), Event("u", source)))
DeleteEvent(before, source, tombstone) ==
  With(Present("before", before),
       With(IF tombstone THEN Field("after", nil) ELSE <<>>, Event("d", source)))
TruncateEvent(source) == Event("t", source)
MessageEvent(source) == With(Field("message", {"prefix", "content"}), Event("m", source))
CompressionEvent(source) == With(Field("tsdb_op", "c"), Event("$", source))
DecompressionEvent(source) == With(Field("tsdb_op", "d"), Event("$", source))

TimescaleKey == {"schema", "table"}
Source(lsn, snapshot, table, transactionId) ==
  [snapshot |-> snapshot, table |-> table, txId |-> transactionId, lsn |-> lsn]
Envelope(schema, payload) == [schema |-> schema, payload |-> payload]

-----------------------------------------------------------------------------
(* Streams, made from the catalog's columns at the time of the first use. *)
NewTableStream(t) ==
  [topicName |-> EventTopicName(t), tableKeyColumns |-> KeyIndexColumns(t),
   keySchema |-> KeySchema(t, catalog[t]), envelopeSchema |-> EnvelopeSchema(catalog[t])]
NewMessageStream ==
  [topicName |-> MessageTopicName, tableKeyColumns |-> {"prefix"},
   keySchema |-> MessageKeySchema, envelopeSchema |-> EnvelopeMessageSchema]

getStream(name) == IF name \in DOMAIN streams THEN streams[name] ELSE nil
createStream(name) == IF name = "message" THEN NewMessageStream ELSE NewTableStream(name)
GetOrCreateStream(name) ==
  IF getStream(name) # nil THEN getStream(name) ELSE createStream(name)

Key(stream, values) == values \cap stream.tableKeyColumns

(* The catalog's columns of the table that the row has.  One value that *)
(* cannot be converted fails the event.                                 *)
convertColumnValues(t, values) ==
  IF values = nil THEN nil ELSE values \cap catalog[t]

-----------------------------------------------------------------------------
(* The filters that apply to a table are asked in turn; an event passes    *)
(* when all of them say yes.  A condition is the operations it is true of; *)
(* it fails on those whose value lacks the field it looks at.              *)
evaluate(filter, value) ==
  IF value["op"] \in filter.errors THEN "error"
  ELSE IF (value["op"] \in filter.condition) = filter.defaultValue THEN "accept"
  ELSE "refuse"

compositeFilter(t, value) ==
  LET applies == SelectSeq(config.filters, LAMBDA f : t \in f.tables)
      verdicts == [i \in 1..Len(applies) |-> evaluate(applies[i], value)]
      negative == {i \in DOMAIN verdicts : verdicts[i] # "accept"}
  IN IF negative = {} THEN "accept"
     ELSE verdicts[CHOOSE i \in negative : \A j \in negative : i <= j]

-----------------------------------------------------------------------------
NewEventEmitter ==
  /\ config \in Configurations
  /\ db = [t \in Tables |-> Original(t)]
  /\ announced = db /\ catalog = db
  /\ reused = {} /\ streams = <<>> /\ job = nil /\ received = 0
  /\ latest = [op |-> nil, table |-> nil, lsn |-> 0, ts_ms |-> 0]
  /\ stored = <<>> /\ acked = {} /\ failed = {}
  /\ live = TRUE

Idle == live /\ job = nil

(* The rows of a snapshot share their position, and so do those of one     *)
(* record of the log that inserts several; some are sent within the same   *)
(* millisecond.                                                            *)
SharesPosition(op, t) == latest.op = op /\ latest.table = t /\ op \in {"r", "c"}
NewEvent(op, t) ==
  /\ Idle /\ received < MaxEvents /\ received' = received + 1
  /\ \E at \in {<<received', received'>>}
             \cup (IF SharesPosition(op, t) THEN {latest.lsn} \X {latest.ts_ms, received'} ELSE {}) :
       latest' = [op |-> op, table |-> t, lsn |-> at[1], ts_ms |-> at[2]]

(* AcknowledgeProcessed with the event's LSN. *)
Acknowledge(n, value) == acked' = acked \cup {[n |-> n, value |-> value]}

(* Key and source of an event. *)
RowKey(t, values) == Key(GetOrCreateStream(t), values)
RowSource(t, snapshot) == Source(latest'.lsn, snapshot, t, "xid")

(* emit0: the stream, key and value of the event, then the filter. *)
emit0(t, keyValues, payload) ==
  LET stream == GetOrCreateStream(t)
      key == Envelope(stream.keySchema, keyValues)
      value == Envelope(stream.envelopeSchema, payload)
      verdict == compositeFilter(t, value.payload)
  IN /\ streams' = With(Field(t, stream), streams)
     /\ CASE verdict = "accept" ->
               /\ job' = [n |-> received', table |-> t, topic |-> stream.topicName,
                          key |-> key, value |-> value, tries |-> 0]
               /\ UNCHANGED <<acked, failed>>
          [] verdict = "refuse" ->
               /\ Acknowledge(received', nil)
               /\ UNCHANGED <<job, failed>>
          [] OTHER ->
               /\ failed' = failed \cup {received'}
               /\ UNCHANGED <<job, acked>>
     /\ UNCHANGED <<config, tables, stored, live>>

(* A value does not convert: the handler returns the error, before the   *)
(* stream is asked for.                                                  *)
ConversionFails ==
  /\ NewEvent(nil, nil)
  /\ failed' = failed \cup {received'}
  /\ UNCHANGED <<config, tables, streams, job, stored, acked, live>>

(* Rows come with the columns of the relation message that precedes them. *)
Rows(t) == announced[t] = db[t]

OnReadEvent(t) ==
  /\ NewEvent("r", t) /\ Rows(t)
  /\ emit0(t, RowKey(t, db[t]), ReadEvent(convertColumnValues(t, db[t]), RowSource(t, TRUE)))
OnInsertEvent(t) ==
  /\ NewEvent("c", t) /\ Rows(t)
  /\ emit0(t, RowKey(t, db[t]), CreateEvent(convertColumnValues(t, db[t]), RowSource(t, FALSE)))
OnUpdateEvent(t, old) ==
  /\ NewEvent("u", t) /\ Rows(t)
  /\ emit0(t, RowKey(t, db[t]),
           UpdateEvent(convertColumnValues(t, old), convertColumnValues(t, db[t]), RowSource(t, FALSE)))
OnDeleteEvent(t, old, tombstone) ==
  /\ NewEvent("d", t) /\ Rows(t)
  /\ emit0(t, RowKey(t, old), DeleteEvent(convertColumnValues(t, old), RowSource(t, FALSE), tombstone))
OnTruncateEvent(t) ==
  /\ NewEvent("t", t)
  /\ emit0(t, {}, TruncateEvent(RowSource(t, FALSE)))
OnChunkCompressedEvent(t) ==
  /\ NewEvent("$", t) /\ IsHypertable(t)
  /\ emit0(t, TimescaleKey, CompressionEvent(RowSource(t, FALSE)))
OnChunkDecompressedEvent(t) ==
  /\ NewEvent("$", t) /\ IsHypertable(t)
  /\ emit0(t, TimescaleKey, DecompressionEvent(RowSource(t, FALSE)))

(* Logical messages pass no filter; only a transactional one has an xid. *)
emitMessageEvent(transactional) ==
  LET stream == GetOrCreateStream("message")
      source == Source(latest'.lsn, FALSE, nil, IF transactional THEN "xid" ELSE nil)
  IN /\ streams' = With(Field("message", stream), streams)
     /\ job' = [n |-> received', table |-> nil, topic |-> stream.topicName,
                key |-> Envelope(stream.keySchema, Key(stream, {"prefix"})),
                value |-> Envelope(stream.envelopeSchema, MessageEvent(source)), tries |-> 0]
     /\ UNCHANGED <<config, tables, stored, acked, failed, live>>
OnMessageEvent(transactional) == NewEvent("m", nil) /\ emitMessageEvent(transactional)

(* The commit of a transaction is acknowledged as it is. *)
OnTransactionFinishedEvent ==
  /\ NewEvent(nil, nil)
  /\ Acknowledge(received', nil)
  /\ UNCHANGED <<config, tables, streams, job, stored, failed, live>>

-----------------------------------------------------------------------------
(* What each sink sends of a message.                                      *)
Sent(topic, key, value) ==
  [n |-> job.n, table |-> job.table, topic |-> topic, key |-> key, value |-> value]
kafkaSink == Sent(job.topic, job.key, job.value)
natsSink == Sent(job.topic, job.key, job.value)
redisSink == Sent(job.topic, job.key, job.value)
httpSink == Sent(nil, nil, job.value)
awsKinesisSink == Sent(job.topic, nil, job.value)
awsSqsSink == Sent(job.topic, nil, job.value)
stdoutSink == Sent(nil, nil, [job.value EXCEPT !.schema = nil])
Sinks == [kafka |-> kafkaSink, nats |-> natsSink, redis |-> redisSink, http |-> httpSink,
          kinesis |-> awsKinesisSink, sqs |-> awsSqsSink, stdout |-> stdoutSink]

(* A faulty variant: the position stands for the message. *)
PositionAsId(value) == value.payload["source"].lsn

(* SQS drops a message whose deduplication id it has seen: a hash of the   *)
(* position, the transaction id, which is dereferenced, and the envelope,  *)
(* which has both of them.                                                 *)
MessageDeduplicationId(value) == value
SqsPanics == config.sink = "sqs" /\ job.value.payload["source"].txId = nil
Deduplicated(message) ==
  /\ config.sink = "sqs"
  /\ \E i \in DOMAIN stored : MessageDeduplicationId(stored[i].value) = MessageDeduplicationId(message.value)

Store ==
  LET message == Sinks[config.sink]
  IN stored' = IF Deduplicated(message) THEN stored ELSE Append(stored, message)

(* One try of the retryable operation: the sink stores the message and    *)
(* says so.                                                               *)
SinkAccepts ==
  /\ live /\ job # nil /\ ~SqsPanics
  /\ Store
  /\ Acknowledge(job.n, job.value)
  /\ job' = nil
  /\ UNCHANGED <<config, tables, streams, received, latest, failed, live>>

(* An error: once more, up to eight times, then the event is given up.  *)
Retry ==
  IF job.tries < MaxRetries
  THEN job' = [job EXCEPT !.tries = @ + 1] /\ UNCHANGED <<acked, failed>>
  ELSE job' = nil /\ failed' = failed \cup {job.n} /\ UNCHANGED acked

(* The sink answers with an error, or does not answer in time; in the     *)
(* second case it may have stored the message all the same.               *)
SinkFails ==
  /\ live /\ job # nil /\ ~SqsPanics
  /\ Retry
  /\ UNCHANGED <<config, tables, streams, received, latest, stored, live>>
SinkTimesOut ==
  /\ live /\ job # nil /\ ~SqsPanics
  /\ Store
  /\ Retry
  /\ UNCHANGED <<config, tables, streams, received, latest, live>>

SinkPanics ==
  /\ live /\ job # nil /\ SqsPanics
  /\ live' = FALSE
  /\ UNCHANGED <<config, tables, streams, job, received, latest, stored, acked, failed>>

-----------------------------------------------------------------------------
(* The tables change.                                                    *)
Changes == Cardinality(UNION {db[t] \ Original(t) : t \in Tables}) + Cardinality(reused)

AddColumn(t) ==
  /\ Idle /\ Changes < MaxChanges
  /\ \E c \in {"b", "c"} \ UNION {db[u] : u \in Tables} :
        db' = [db EXCEPT ![t] = @ \cup {c}]
  /\ UNCHANGED <<config, announced, catalog, reused, streams, job, received, latest, stored,
                 acked, failed, live>>

(* A faulty variant: the columns of every hypertable are read again. *)
RelationRefreshesAll(t) ==
  /\ Idle /\ announced[t] # db[t]
  /\ announced' = [announced EXCEPT ![t] = db[t]]
  /\ catalog' = IF IsHypertable(t) THEN [catalog EXCEPT ![t] = db[t]] ELSE catalog
  /\ UNCHANGED <<config, db, reused, streams, job, received, latest, stored,
                 acked, failed, live>>

(* The relation message that follows: the catalog reads the columns again  *)
(* for the tables of continuous aggregates only.                           *)
OnRelationEvent(t) ==
  /\ Idle /\ announced[t] # db[t]
  /\ announced' = [announced EXCEPT ![t] = db[t]]
  /\ catalog' = IF t \in Aggregates THEN [catalog EXCEPT ![t] = db[t]] ELSE catalog
  /\ UNCHANGED <<config, db, reused, streams, job, received, latest, stored,
                 acked, failed, live>>

(* The hypertable is dropped and created again with other columns: it is   *)
(* registered anew, its stream stays.                                      *)
OnHypertableAddedEvent(t) ==
  /\ Idle /\ Changes < MaxChanges /\ IsHypertable(t) /\ t \notin Aggregates \cup reused
  /\ db' = [db EXCEPT ![t] = PrimaryKey[t] \cup Dimensions[t] \cup {"d"}]
  /\ announced' = [announced EXCEPT ![t] = db'[t]]
  /\ catalog' = [catalog EXCEPT ![t] = db'[t]]
  /\ reused' = reused \cup {t}
  /\ UNCHANGED <<config, streams, job, received, latest, stored, acked, failed, live>>

-----------------------------------------------------------------------------
EmitterNext ==
  \/ \E t \in config.tables :
        \/ OnReadEvent(t)
        \/ OnInsertEvent(t)
        \/ \E old \in {nil, KeyIndexColumns(t), db[t]} : OnUpdateEvent(t, old)
        \/ \E old \in {KeyIndexColumns(t), db[t]}, tombstone \in BOOLEAN :
              OnDeleteEvent(t, old, tombstone)
        \/ OnTruncateEvent(t)
        \/ OnChunkCompressedEvent(t)
        \/ OnChunkDecompressedEvent(t)
        \/ AddColumn(t)
        \/ OnRelationEvent(t)
        \/ OnHypertableAddedEvent(t)
  \/ \E transactional \in BOOLEAN : OnMessageEvent(transactional)
  \/ OnTransactionFinishedEvent
  \/ ConversionFails
  \/ SinkAccepts
  \/ SinkFails
  \/ SinkTimesOut
  \/ SinkPanics

EmitterSpec == NewEventEmitter /\ [][EmitterNext]_emitterVars

-----------------------------------------------------------------------------
(* The sink holds the events in the order they were received, whatever     *)
(* retries and lost answers there were; the copies of an event stand side  *)
(* by side and SQS holds one; and an event that counts as processed is in  *)
(* the sink unless a filter refused it: itself, or in SQS an event with    *)
(* the same envelope, position and time included.                          *)
SinkFollowsEvents ==
  /\ \A i, j \in DOMAIN stored : i < j =>
       \/ stored[i].n < stored[j].n
       \/ stored[i].n = stored[j].n /\ config.sink # "sqs"
  /\ \A a \in acked : a.value # nil =>
       \E i \in DOMAIN stored : stored[i].n = a.n \/ (config.sink = "sqs" /\ stored[i].value = a.value)
  /\ \A a \in acked : a.n \notin failed

(* A stored row has no column that the schema sent along does not          *)
(* describe, even after columns were added, and with a primary key no key  *)
(* column that the key's schema does not describe; the exceptions are a    *)
(* table created again under its name and the altered continuous           *)
(* aggregate, whose stream keeps the old schema, and the key of a          *)
(* (de)compression, which names the schema and the table under the schema  *)
(* of the primary key.                                                     *)
SchemaDescribesRow ==
  \A i \in DOMAIN stored :
    LET message == stored[i]
        value == message.value
        rows == {value.payload[f] : f \in DOMAIN value.payload \cap {"before", "after"}} \ {nil}
        t == message.table
    IN value.schema # nil /\ t # nil /\ t \notin reused /\ (t \in Aggregates => db[t] = Original(t)) =>
         /\ DOMAIN value.payload \subseteq value.schema.fields
         /\ UNION rows \subseteq value.schema.row
         /\ message.key # nil /\ PrimaryKey[t] # {} /\ value.payload["op"] # "$" =>
              message.key.payload \subseteq message.key.schema
=============================================================================
