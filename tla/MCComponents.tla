---------------------------- MODULE MCComponents ----------------------------
(***************************************************************************)
(* The components that share no state with the delivery of events, each on *)
(* an instance of its own: a behaviour is one of the components            *)
(* instantiated below, whose variables are the first ones of x1 .. x20. A  *)
(* behaviour stays with the component it starts with.                      *)
(***************************************************************************)
EXTENDS Integers, Sequences, TLC

CONSTANT None

VARIABLES
  x1, x2, x3, x4, x5, x6, x7, x8, x9, x10, x11, x12, x13, x14, x15, x16, x17, x18, x19, x20,
  component   \* the component, by its name in Init

(* An empty database; a hypertable with a compressed chunk; a continuous     *)
(* aggregate with a chunk next to an ordinary hypertable.                    *)
Hypertable(name, view, compressed, state) ==
  [name |-> name, view |-> view, compressed |-> compressed, state |-> state, columns |-> 1]
Chunk(hypertable, compressed, chunk) ==
  [hypertable |-> hypertable, compressed |-> compressed, chunk |-> chunk, dropped |-> FALSE]
Databases ==
  {[hypertables |-> <<>>, chunks |-> <<>>, parent |-> <<>>],
   [hypertables |-> <<Hypertable(1, 0, 2, 1), Hypertable(4, 0, 0, 2)>>,
    chunks |-> <<Chunk(1, FALSE, 2), Chunk(2, TRUE, 0)>>, parent |-> (2 :> 1)],
   [hypertables |-> <<Hypertable(3, 1, 0, 0), Hypertable(2, 0, 0, 0)>>,
    chunks |-> <<Chunk(1, FALSE, 0)>>, parent |-> <<>>]}

(* A plain table, hypertables with and without a primary key, and that of    *)
(* a continuous aggregate.                                                   *)
PrimaryKeys == [plain |-> {"id"}, keyed |-> {"id", "time"}, hyper |-> {}, cagg |-> {}]
HypertableDimensions == [plain |-> {}, keyed |-> {"time"}, hyper |-> {"time"}, cagg |-> {"time"}]

(* Every sink, with tables of every kind; filters that accept and that fail. *)
Creates == [tables |-> {"plain", "hyper"}, defaultValue |-> TRUE, condition |-> {"c", "u"}, errors |-> {"t", "$"}]
Deletes == [tables |-> {"hyper"}, defaultValue |-> FALSE, condition |-> {"d"}, errors |-> {}]
Sink(kind, filters, tables) == [sink |-> kind, filters |-> filters, tables |-> tables]
SinkConfigurations ==
  {Sink("kafka", <<>>, {"plain", "keyed"}), Sink("nats", <<>>, {"cagg"}),
   Sink("redis", <<Creates>>, {"plain"}), Sink("sqs", <<Deletes, Creates>>, {"hyper"}),
   Sink("http", <<>>, {"plain"}), Sink("kinesis", <<Deletes>>, {"hyper"}), Sink("stdout", <<>>, {"plain"})}

(* Tables with columns of the same types, with and without a length, a       *)
(* default, allowed values, elements or fields.                              *)
Column(name, type, modifiers, nullable, default) ==
  [name |-> name, type |-> type, modifiers |-> modifiers, nullable |-> nullable, default |-> default]
TableColumns ==
  [short |-> <<Column("a", "varchar", 9, TRUE, "x"), Column("b", "varchar", 5, FALSE, "7"),
               Column("m", "mood", -1, TRUE, "a")>>,
   long |-> <<Column("v", "varchar", -1, FALSE, ""), Column("b", "bit", 4, FALSE, "1.5"),
              Column("k", "code", -1, TRUE, "1")>>,
   nested |-> <<Column("vs", "varchar[]", 14, FALSE, ""), Column("p", "pair", -1, TRUE, ""),
                Column("w", "varchar", 24, FALSE, ""), Column("ms", "mood[]", -1, FALSE, ""),
                Column("g", "geometry", -1, FALSE, "")>>]

(* A hypertable with a column of each user-defined type.                     *)
Typed(name, type) == [name |-> name, type |-> type]
UserTypes == {"mood", "pair", "mixed", "rated", "nested", "mood[]", "pair[]", "code", "ltree"}
Definitions == {<<Typed("a", "int4"), Typed("b", "text"), Typed("c", type)>> : type \in UserTypes}

Options == [file : BOOLEAN, slotAutoDrop : BOOLEAN, publicationAutoDrop : BOOLEAN]

(* Names and records as bytes of three values.                               *)
SlotNames == {<<1, 0>>, <<2>>}
Offsets ==
  {[timestamp |-> 5, snapshot |-> FALSE, snapshotOffset |-> 0, lsn |-> 4000,
    snapshotName |-> <<>>, snapshotDone |-> FALSE, snapshotKeyset |-> <<>>],
   [timestamp |-> 6, snapshot |-> TRUE, snapshotOffset |-> 40, lsn |-> 1,
    snapshotName |-> <<<<1, 2>>>>, snapshotDone |-> TRUE, snapshotKeyset |-> <<2, 1>>]}
StoredTables == {<<<<1>>, <<2>>>>, <<<<1>>, <<2, 2>>>>}
Attributes == {<<1>> :> <<2, 2>>}

(* Patterns with and without quotes, with every wildcard, and malformed    *)
(* ones.                                                                   *)
q == "\""
Tokens ==
  {<<"a">>, <<"A">>, <<"a", "*">>, <<"a", "+">>, <<"?", "b">>, <<"*", "b", "*">>, <<"+", "+">>,
   <<q, "A", q>>, <<q, "A", "?", q>>, <<q, "a", "(", "*", q>>, <<q, "a", "\\", "*", q>>,
   <<q, "\\", "*", "+", q>>, <<q, "a", q, q, "b", q>>, <<q, "a", "|", "b", q>>, <<q, "a", "|", "+", q>>,
   <<q, "a", "$", "*", q>>, <<"a", "(">>, <<"a", "a">>, <<"a", "b", "a", "b", "a">>, <<>>}
Terms == {<<<<"b">>, t>> : t \in Tokens} \cup {<<<<"*">>, <<"a", "*">>>>, <<<<"?">>, <<"b">>>>}
FilteredTables ==
  {<<<<"b">>, n>> : n \in {<<"a">>, <<"a", "b">>, <<"b">>, <<"A">>, <<"a", "|", "b">>}} \cup {<<<<"b", "b">>, <<"a">>>>}
Keywords == {<<"a", "a">>}

-----------------------------------------------------------------------------
Catalog == INSTANCE SystemCatalog WITH
  NumNames <- 2, Included <- {1}, Databases <- Databases, MaxHypertables <- 4,
  MaxChunks <- 3, MaxOps <- 3, MaxStarts <- 2,
  dbHypertables <- x1, dbChunks <- x2, wal <- x3, ops <- x4, lastHypertable <- x5,
  lastChunk <- x6, parent <- x7, up <- x8, starts <- x9, pos <- x10, hypertables <- x11,
  hypertableNameIndex <- x12, hypertable2compressed <- x13, compressed2hypertable <- x14,
  chunks <- x15, chunk2Hypertable <- x16, hypertable2chunks <- x17, filterCache <- x18,
  scheduled <- x19, missed <- x20

Value == INSTANCE Values WITH
  type <- x1, original <- x2, value <- x3, stage <- x4

Emitter == INSTANCE Emission WITH
  nil <- None, PrimaryKey <- PrimaryKeys, Dimensions <- HypertableDimensions,
  Aggregates <- {"cagg"}, Configurations <- SinkConfigurations, MaxEvents <- 2,
  MaxRetries <- 1, MaxChanges <- 1,
  config <- x1, db <- x2, announced <- x3, catalog <- x4, reused <- x5, streams <- x6,
  job <- x7, received <- x8, latest <- x9, stored <- x10, acked <- x11, failed <- x12,
  live <- x13

Builders == INSTANCE SchemaBuilders WITH
  TableColumns <- TableColumns, MaxMaps <- 8,
  heap <- x1, typeBuilders <- x2, schemas <- x3

Types == INSTANCE TypeManager WITH
  TableDefs <- Definitions, MaxRows <- 2, MaxStarts <- 2,
  columns <- x1, chunk <- x2, attached <- x3, wal <- x4, sent <- x5, announced <- x6,
  queue <- x7, done <- x8, tm <- x9, plan <- x10, catalog <- x11, results <- x12,
  status <- x13, starts <- x14

Handoff == INSTANCE ChunkHandoff WITH
  Keys <- {"k1", "k2"}, None <- None, MaxWrites <- 2, MaxParked <- 2, MaxStarts <- 2,
  lsn <- x1, open <- x2, committed <- x3, wal <- x4, published <- x5, sent <- x6,
  queue <- x7, acked <- x8, inCatalog <- x9, parked <- x10, worker <- x11, known <- x12,
  last <- x13, blind <- x14, interrupted <- x15, handedOff <- x16, starts <- x17

Life == INSTANCE Lifecycle WITH
  None <- None, Chunks <- {"c1"}, Tables <- {"t1"}, Configs <- Options, MaxStarts <- 3,
  config <- x1, existing <- x2, slot <- x3, pending <- x4, publication <- x5, file <- x6,
  main <- x7, tasks <- x8, stopping <- x9, known <- x10, catalog <- x11, initial <- x12,
  snapshotting <- x13, created <- x14, stopped <- x15, missed <- x16, starts <- x17

State == INSTANCE StateFile WITH
  Base <- 3, SlotNames <- SlotNames, Offsets <- Offsets, TableNames <- StoredTables,
  AttributeMaps <- Attributes, MaxStarts <- 3,
  slot <- x1, offsets <- x2, states <- x3, meant <- x4, known <- x5, attributes <- x6,
  file <- x7, stored <- x8, loaded <- x9, running <- x10, starts <- x11

Filter == INSTANCE TableFilter WITH
  Terms <- Terms, TableNames <- FilteredTables, Keywords <- Keywords, MaxLength <- 4,
  config <- x1, filter <- x2, filterCache <- x3, answer <- x4

(* The variables that a component with k of them does not have.              *)
Rest17 == <<x18, x19, x20>>
Rest14 == <<x15, x16, x17, Rest17>>
Rest13 == <<x14, Rest14>>
Rest11 == <<x12, x13, Rest13>>
Rest4 == <<x5, x6, x7, x8, x9, x10, x11, Rest11>>
Rest3 == <<x4, Rest4>>

Unused17 == x18 = None /\ x19 = None /\ x20 = None
Unused14 == x15 = None /\ x16 = None /\ x17 = None /\ Unused17
Unused13 == x14 = None /\ Unused14
Unused11 == x12 = None /\ x13 = None /\ Unused13
Unused4 == x5 = None /\ x6 = None /\ x7 = None /\ x8 = None /\ x9 = None /\ x10 = None /\ x11 = None /\ Unused11
Unused3 == x4 = None /\ Unused4

In(c) == component = c /\ component' = c

Init ==
  \/ component = "catalog" /\ Catalog!Init
  \/ component = "values" /\ Value!Init /\ Unused4
  \/ component = "emission" /\ Emitter!NewEventEmitter /\ Unused13
  \/ component = "builders" /\ Builders!Init /\ Unused3
  \/ component = "types" /\ Types!Init /\ Unused14
  \/ component = "handoff" /\ Handoff!Init /\ Unused17
  \/ component = "lifecycle" /\ Life!Init /\ Unused17
  \/ component = "statefile" /\ State!Init /\ Unused11
  \/ component = "filter" /\ Filter!Init /\ Unused4

Next ==
  \/ In("catalog") /\ Catalog!Next
  \/ In("values") /\ Value!Next /\ UNCHANGED Rest4
  \/ In("emission") /\ Emitter!EmitterNext /\ UNCHANGED Rest13
  \/ In("builders") /\ Builders!Next /\ UNCHANGED Rest3
  \/ In("types") /\ Types!Next /\ UNCHANGED Rest14
  \/ In("handoff") /\ Handoff!Next /\ UNCHANGED Rest17
  \/ In("lifecycle") /\ Life!Next /\ UNCHANGED Rest17
  \/ In("statefile") /\ State!Next /\ UNCHANGED Rest11
  \/ In("filter") /\ Filter!Next /\ UNCHANGED Rest4

vars == <<component, x1, x2, x3, Rest3>>
Spec == Init /\ [][Next]_vars

-----------------------------------------------------------------------------
(***************************************************************************)
(* Once the WAL is read, the catalog of hypertables and chunks holds what  *)
(* the database does (OnHypertable*Event, OnChunk*Event).                  *)
(***************************************************************************)
Converged == component = "catalog" => Catalog!Converged

(***************************************************************************)
(* A chunk is never taken for a part of another hypertable than the one it *)
(* was created for (ResolveOriginHypertable).                              *)
(***************************************************************************)
OriginIsOwner == component = "catalog" => Catalog!OriginIsOwner

(***************************************************************************)
(* What is emitted for a value has the schema type of its PostgreSQL type  *)
(* (convertColumnValues).                                                  *)
(***************************************************************************)
PayloadMatchesSchema == component = "values" => Value!PayloadMatchesSchema

(***************************************************************************)
(* A watermark key is loaded as it was stored, and the next batch is asked *)
(* for from it (BinaryMarshall, param2value).                              *)
(***************************************************************************)
KeyKept == component = "values" => Value!KeyKept

(***************************************************************************)
(* The sink holds the events in the order they were received, and those    *)
(* that count as processed (emit, with its retries).                       *)
(***************************************************************************)
SinkFollowsEvents == component = "emission" => Emitter!SinkFollowsEvents

(***************************************************************************)
(* A stored row has no column that the schema sent along does not describe *)
(* (streams, OnRelationEvent).                                             *)
(***************************************************************************)
SchemaDescribesRow == component = "emission" => Emitter!SchemaDescribesRow

(***************************************************************************)
(* The schema of a column is that of its own definition, whichever columns *)
(* of its type were built before (schemabuilder Build).                    *)
(***************************************************************************)
ColumnsIndependent == component = "builders" => Builders!ColumnsIndependent

(***************************************************************************)
(* A row is decoded by the codecs of its own columns, although the         *)
(* decoding is planned ahead of the registration of their types (type      *)
(* manager, decoder plan).                                                 *)
(***************************************************************************)
DecodedAsSent == component = "types" => Types!DecodedAsSent

(***************************************************************************)
(* The last event of a row of a new chunk is its committed version,        *)
(* however the writes, the chunk's snapshot, the parked events and         *)
(* restarts fall together (snapshotChunk0, parking of the tracker).        *)
(***************************************************************************)
HandedOver == component = "handoff" => Handoff!HandedOver

(***************************************************************************)
(* A running streamer that caught up has all selected tables in its        *)
(* publication, except those it was not told of (start, stop, publication  *)
(* manager).                                                               *)
(***************************************************************************)
AllTablesPublished == component = "lifecycle" => Life!AllTablesPublished

(***************************************************************************)
(* A full stop leaves no slot or publication behind that this process made *)
(* and may drop (StopReplication).                                         *)
(***************************************************************************)
CreatedIsDropped == component = "lifecycle" => Life!CreatedIsDropped

(***************************************************************************)
(* A table is selected exactly if no exclude describes it, and an include  *)
(* does or there are none in a filter that accepts by default (Enabled of  *)
(* the table filter).                                                      *)
(***************************************************************************)
SelectsAsDescribed == component = "filter" => Filter!SelectsAsDescribed

(***************************************************************************)
(* The snapshot of a new chunk is enqueued exactly when its hypertable is  *)
(* one that the user selected (OnChunkAddedEvent).                         *)
(***************************************************************************)
ScheduledAsSelected == [][component = "catalog" => Catalog!SchedulesSelected]_vars

(***************************************************************************)
(* What a start decodes from the state file is what the last save was to   *)
(* store (Save, load, MarshalBinary, UnmarshalBinary).                     *)
(***************************************************************************)
LoadedAsStored == [][component = "statefile" => State!DecodesStored]_vars
=============================================================================
