------------------------------ MODULE TypeManager ------------------------------
(***************************************************************************)
(* The type manager and its three users.  The replication handler decodes  *)
(* the tuples as it receives them, with a plan that is made once for a     *)
(* relation; the system catalog registers the types of a table's columns   *)
(* when, later and on the dispatcher, it learns of the table; the event    *)
(* emitter converts the decoded values.  Types are loaded at the start and *)
(* when a column of an unknown type turns up.                              *)
(*                                                                         *)
(* One hypertable with one chunk, created while the streamer runs.  A      *)
(* value is the column it belongs to with the codec that decoded it.       *)
(***************************************************************************)
EXTENDS Integers, Sequences, FiniteSets, SequencesExt, TLC

CONSTANTS TableDefs,     \* the definitions the hypertable may have: sequences of [name, type]
          MaxRows,       \* rows inserted
          MaxStarts      \* starts of the streamer

VARIABLES columns,       \* the hypertable's columns in the database; <<>> before it is created
          chunk,         \* TRUE once the chunk exists
          attached,      \* the chunk in the publication: no, asked (a snapshot of it is scheduled), yes
          wal,           \* what the slot has to send
          sent,          \* how much of it was sent
          announced,     \* the columns in the last relation message; <<>> if none
          queue,         \* tasks for the dispatcher
          done,          \* how many entries of wal the dispatcher is through with
          tm,            \* the type manager: [types, converters, typeMap, result]
          plan,          \* decoderPlanCache, of the chunk
          catalog,       \* [known, columns, failed]: the hypertable in the catalog
          results,       \* the rows that reached the event emitter
          status, starts

vars == <<columns, chunk, attached, wal, sent, announced, queue, done, tm, plan,
          catalog, results, status, starts>>
database == <<columns, chunk, wal>>

-----------------------------------------------------------------------------
(* Types.                                                                *)
CoreTypes == {"int4", "text", "uuid"}
Enums == {"mood"}
Composites == "pair" :> <<"uuid", "uuid">> @@ "mixed" :> <<"uuid", "int4">> @@
              "rated" :> <<"uuid", "mood">> @@ "nested" :> <<"uuid", "pair">>
Arrays == "mood[]" :> "mood" @@ "pair[]" :> "pair"
Domains == {"code"}
Optimized == {"ltree"}
UserTypes == Enums \cup DOMAIN Composites \cup DOMAIN Arrays \cup Domains \cup Optimized

(* The core types whose registration names a converter. *)
HasConverter(t) == t = "uuid"

-----------------------------------------------------------------------------
(* registerType: what is known of a type once it was read.  Only the         *)
(* converter of a composite type is left open.                               *)
registerType(m, t) ==
  [m EXCEPT !.types = @ \cup {t},
            !.converters = IF t \in Enums \cup Optimized THEN t :> "converter" @@ @
                           ELSE IF t \in DOMAIN Composites /\ t \notin DOMAIN @ THEN t :> "nil" @@ @
                           ELSE @,
            !.typeMap = IF t \in Enums \cup Optimized THEN @ \cup {t} ELSE @]

ResolveDataType(m, t) == IF t \in m.types THEN m ELSE registerType(m, t)

(* nil for a core type without one. *)
ResolveTypeConverter(m, t) ==
  IF t \in CoreTypes THEN (IF HasConverter(t) THEN "converter" ELSE "nil")
  ELSE IF t \in DOMAIN m.converters THEN m.converters[t] ELSE "unsupported"

(* The attributes must be cached types; reading them fails otherwise. *)
CompositeColumnsKnown(m, t) == \A i \in DOMAIN Composites[t] : Composites[t][i] \in m.types
(* A codec needs the types of the attributes in the type map. *)
newCompositeCodec(m, t) == \A i \in DOMAIN Composites[t] : Composites[t][i] \in m.typeMap

(* A composite type's converter calls the ones of its attributes. *)
newCompositeConverter(m, t) ==
  IF \E i \in DOMAIN Composites[t] : ResolveTypeConverter(m, Composites[t][i]) = "nil"
  THEN "callsNil" ELSE "converter"

(* A type that is not an array: composite types are completed, a domain is *)
(* no record and the panic is not recovered.                               *)
registerStruct(m, t) ==
  IF t \in m.typeMap \/ m.result # "ok" THEN m
  ELSE IF t \in Domains THEN [m EXCEPT !.result = "panic"]
  ELSE IF ~CompositeColumnsKnown(m, t) THEN [m EXCEPT !.result = "panic"]
  ELSE IF ~newCompositeCodec(m, t) THEN [m EXCEPT !.result = "error"]
  ELSE [m EXCEPT !.converters = t :> newCompositeConverter(m, t) @@ @, !.typeMap = @ \cup {t}]

lazilyRegisterTypeMap(m, t) ==
  IF t \notin DOMAIN Arrays THEN registerStruct(ResolveDataType(m, t), t)
  ELSE LET r == ResolveDataType(m, t)
           e == registerStruct(ResolveDataType(r, Arrays[t]), Arrays[t])
       IN IF t \in r.typeMap \/ e.result # "ok" THEN e
          ELSE [e EXCEPT !.converters = t :> ResolveTypeConverter(e, Arrays[t]) @@ @,
                         !.typeMap = @ \cup {t}]

(* A faulty variant: a type is registered when it is resolved, or never. *)
ResolveColumnTypes(m, cols) ==
  FoldLeft(LAMBDA a, c : ResolveDataType(a, c.type), [m EXCEPT !.result = "ok"], cols)

(* ReadHypertableSchema: the types of all columns are resolved, the        *)
(* columns are set, then one by one their types are registered, up to an   *)
(* error.                                                                  *)
RegisterColumnTypes(m, cols) ==
  LET resolved == FoldLeft(LAMBDA a, c : ResolveDataType(a, c.type), [m EXCEPT !.result = "ok"], cols)
  IN FoldLeft(LAMBDA a, c : IF a.result = "ok" THEN lazilyRegisterTypeMap(a, c.type) ELSE a, resolved, cols)

-----------------------------------------------------------------------------
(* A value whose type the type map does not know is taken for a string. *)
planTupleDecoder(cols) ==
  [i \in DOMAIN cols |->
     [of |-> cols[i], codec |-> IF cols[i].type \in tm.typeMap THEN cols[i].type ELSE "string"]]

GetOrPlanTupleDecoder(cols) == IF plan # <<>> THEN plan ELSE planTupleDecoder(cols)

(* The columns of the relation a plan was made for. *)
Planned(p) == [i \in DOMAIN p |-> p[i].of]

(* The decoders go over the tuple by position. *)
Decodable(p, tuple) == Len(p) <= Len(tuple)
Decode(p, tuple) ==
  FoldLeft(LAMBDA values, i : p[i].of.name :> [of |-> tuple[i].name, codec |-> p[i].codec] @@ values,
           <<>>, [i \in 1..Len(p) |-> i])

(* What the emitter makes of the value of column c, if the catalog has it. *)
Converted(c, values) ==
  LET converter == ResolveTypeConverter(tm, c.type)
  IN IF c.name \notin DOMAIN values THEN "absent"
     ELSE IF converter = "unsupported" THEN "error"
     ELSE IF values[c.name].codec = "string" /\ c.type \notin {"text"} \cup Enums /\ converter # "nil"
          THEN "error"
     ELSE IF converter = "callsNil" THEN "panic"
     ELSE "ok"

-----------------------------------------------------------------------------
Unstarted == [types |-> CoreTypes, converters |-> <<>>, typeMap |-> CoreTypes, result |-> "ok"]

(* initialize: all types of the database. *)
initialize(existing) == FoldSet(LAMBDA t, m : registerType(m, t), Unstarted, existing)

(* Some user types may exist before the streamer starts. *)
Init ==
  /\ columns = <<>> /\ chunk = FALSE /\ attached = "no"
  /\ wal = <<>> /\ sent = 0 /\ announced = <<>> /\ queue = <<>> /\ done = 0
  /\ \E existing \in {{}, UserTypes} : tm = initialize(existing)
  /\ plan = <<>> /\ catalog = [known |-> FALSE, columns |-> <<>>, failed |-> FALSE]
  /\ results = <<>> /\ status = "running" /\ starts = 1

(* The database. *)
CreateHypertable ==
  /\ columns = <<>>
  /\ columns' \in TableDefs
  /\ wal' = Append(wal, [kind |-> "hypertable", tuple |-> <<>>])
  /\ UNCHANGED <<chunk, attached, sent, announced, queue, done, tm, plan, catalog, results, status, starts>>

CreateChunk ==
  /\ columns # <<>> /\ ~chunk
  /\ chunk' = TRUE
  /\ wal' = Append(wal, [kind |-> "chunk", tuple |-> <<>>])
  /\ UNCHANGED <<columns, attached, sent, announced, queue, done, tm, plan, catalog, results, status, starts>>

(* Rows of a chunk that is not in the publication are not sent. *)
Insert ==
  /\ attached = "yes" /\ Len(wal) < MaxRows + 2
  /\ wal' = Append(wal, [kind |-> "row", tuple |-> columns])
  /\ UNCHANGED <<columns, chunk, attached, sent, announced, queue, done, tm, plan, catalog, results, status, starts>>

(* Bound: the table is altered once. *)
Unaltered == columns \in TableDefs

DropColumn ==
  /\ Unaltered
  /\ \E i \in DOMAIN columns : columns' = RemoveAt(columns, i)
  /\ UNCHANGED <<chunk, attached, wal, sent, announced, queue, done, tm, plan, catalog, results, status, starts>>

(* A new column is the last one, of a type that may not be registered. *)
Added == [name |-> "d", type |-> "pair"]
AddColumn ==
  /\ Unaltered
  /\ columns' = Append(columns, Added)
  /\ UNCHANGED <<chunk, attached, wal, sent, announced, queue, done, tm, plan, catalog, results, status, starts>>

-----------------------------------------------------------------------------
(* The replication handler.  The server describes a relation before its    *)
(* first row and again once it has changed.                                *)
ReceiveRelation ==
  /\ status = "running" /\ sent < Len(wal)
  /\ wal[sent + 1].kind = "row" /\ wal[sent + 1].tuple # announced
  /\ announced' = wal[sent + 1].tuple
  /\ queue' = Append(queue, [kind |-> "relation", tuple |-> announced', values |-> <<>>, planned |-> <<>>])
  /\ UNCHANGED <<database, attached, sent, done, tm, plan, catalog, results, status, starts>>

(* The rows of the catalog tables are of core types. *)
ReceiveCatalogRow ==
  /\ status = "running" /\ sent < Len(wal) /\ wal[sent + 1].kind # "row"
  /\ queue' = Append(queue, [kind |-> wal[sent + 1].kind, tuple |-> <<>>, values |-> <<>>, planned |-> <<>>])
  /\ sent' = sent + 1
  /\ UNCHANGED <<database, attached, announced, done, tm, plan, catalog, results, status, starts>>

handleInsertMessage ==
  LET tuple == wal[sent + 1].tuple
      p == GetOrPlanTupleDecoder(announced)
  IN /\ status = "running" /\ sent < Len(wal)
     /\ wal[sent + 1].kind = "row" /\ tuple = announced
     /\ plan' = p
     /\ IF Decodable(p, tuple)
        THEN /\ queue' = Append(queue, [kind |-> "row", tuple |-> tuple, values |-> Decode(p, tuple),
                                        planned |-> Planned(p)])
             /\ sent' = sent + 1
             /\ UNCHANGED status
        ELSE status' = "panic" /\ UNCHANGED <<queue, sent>>
     /\ UNCHANGED <<database, attached, announced, done, tm, catalog, results, starts>>

-----------------------------------------------------------------------------
(* The dispatcher.                                                       *)
Task(kind) == status = "running" /\ queue # <<>> /\ Head(queue).kind = kind /\ queue' = Tail(queue)

ReadHypertableSchema(cols) ==
  LET m == RegisterColumnTypes(tm, cols)
  IN /\ tm' = [m EXCEPT !.result = "ok"]
     /\ status' = IF m.result = "panic" THEN "panic" ELSE status
     /\ catalog' = [known |-> TRUE, columns |-> cols, failed |-> m.result # "ok"]

OnHypertableAddedEvent ==
  /\ Task("hypertable") /\ done' = done + 1
  /\ ReadHypertableSchema(columns)
  /\ UNCHANGED <<database, attached, sent, announced, plan, results, starts>>

(* A query fails after the hypertable was registered: it has no columns. *)
SchemaReadFails ==
  /\ Task("hypertable") /\ done' = done + 1
  /\ catalog' = [known |-> TRUE, columns |-> <<>>, failed |-> TRUE]
  /\ UNCHANGED <<database, attached, sent, announced, tm, plan, results, status, starts>>

OnChunkAddedEvent ==
  /\ Task("chunk") /\ done' = done + 1
  /\ attached' = IF catalog.known /\ attached = "no" THEN "asked" ELSE attached
  /\ UNCHANGED <<database, sent, announced, tm, plan, catalog, results, status, starts>>

(* A row of the cursor is decoded with the types the query returns; one    *)
(* that the type map does not know is an error.                            *)
newRowDecoder(cols) ==
  [i \in DOMAIN cols |-> [of |-> cols[i], codec |-> cols[i].type]]

(* A snapshot worker adds the chunk to the publication and reads its first *)
(* row; an error is fatal.                                                 *)
snapshotChunk ==
  /\ status = "running" /\ attached = "asked" /\ attached' = "yes"
  /\ IF \A i \in DOMAIN columns : columns[i].type \in tm.typeMap
     THEN /\ queue' = Append(queue, [kind |-> "read", tuple |-> columns, planned |-> columns,
                                    values |-> Decode(newRowDecoder(columns), columns)])
          /\ UNCHANGED status
     ELSE status' = "fatal" /\ UNCHANGED queue
  /\ UNCHANGED <<database, sent, announced, done, tm, plan, catalog, results, starts>>

OnRelationEvent ==
  /\ Task("relation")
  /\ plan' = GetOrPlanTupleDecoder(Head(queue).tuple)
  /\ UNCHANGED <<database, attached, sent, announced, done, tm, catalog, results, status, starts>>

(* The emitter converts the row; a nil converter is called: panic. *)
OnInsertEvent ==
  /\ Task("row") \/ Task("read")
  /\ done' = IF Head(queue).kind = "row" THEN done + 1 ELSE done
  /\ LET row == Head(queue)
         outcomes == {Converted(catalog.columns[i], row.values) : i \in DOMAIN catalog.columns}
     IN /\ status' = IF "panic" \in outcomes THEN "panic" ELSE status
        /\ results' = Append(results, [tuple |-> row.tuple, planned |-> row.planned, values |-> row.values,
             columns |-> ToSet(catalog.columns), failed |-> catalog.failed])
  /\ UNCHANGED <<database, attached, sent, announced, tm, plan, catalog, starts>>

(* The streamer starts again from what was processed: all types are read,  *)
(* the schemas of the known tables, and chunks missing in the publication  *)
(* are attached.                                                           *)
Restart ==
  /\ starts < MaxStarts /\ starts' = starts + 1
  /\ sent' = done /\ announced' = <<>> /\ queue' = <<>> /\ plan' = <<>>
  /\ LET m == RegisterColumnTypes(initialize(UserTypes), columns)
     IN /\ tm' = [m EXCEPT !.result = "ok"]
        /\ status' = IF m.result = "ok" THEN "running" ELSE IF m.result = "error" THEN "fatal" ELSE "panic"
        /\ catalog' = [known |-> columns # <<>>, columns |-> columns, failed |-> m.result # "ok"]
        /\ attached' = IF attached = "yes" \/ (chunk /\ m.result = "ok") THEN "yes" ELSE "no"
  /\ UNCHANGED <<database, done, results>>

-----------------------------------------------------------------------------
Next ==
  \/ CreateHypertable
  \/ CreateChunk
  \/ Insert
  \/ DropColumn
  \/ AddColumn
  \/ ReceiveRelation
  \/ ReceiveCatalogRow
  \/ handleInsertMessage
  \/ OnHypertableAddedEvent
  \/ SchemaReadFails
  \/ OnChunkAddedEvent
  \/ snapshotChunk
  \/ OnRelationEvent
  \/ OnInsertEvent
  \/ Restart

Spec == Init /\ [][Next]_vars

-----------------------------------------------------------------------------
(* A row that reaches the emitter carries each column the catalog has of   *)
(* it under the column's own name and decoded by the codec of its own      *)
(* type, although the handler plans the decoding on its own, ahead of the  *)
(* dispatcher that registers the types: a chunk is published after its     *)
(* hypertable's schema was read.  So do the rows of a snapshot.  A plan    *)
(* that is older than an altered table keeps this for the columns it has,  *)
(* as long as they are the first ones of the row: only columns added since *)
(* are missing.  The type of an added column may be registered after the   *)
(* plan was made, which takes its values for strings.  Past a dropped      *)
(* column, and for a schema that could not be read, nothing is claimed.    *)
DecodedAsSent ==
  \A k \in DOMAIN results :
    LET r == results[k]
        present == DOMAIN r.values
    IN ~r.failed /\ IsPrefix(r.planned, r.tuple) =>
         \A c \in ToSet(r.tuple) \cap r.columns :
           /\ c.name \in present =>
                /\ r.values[c.name].of = c.name
                /\ r.values[c.name].codec \in {c.type} \cup (IF c = Added THEN {"string"} ELSE {})
           /\ c.name \notin present => c \notin ToSet(r.planned)

(* The README (line 178): the streamer "supports user defined Enum data    *)
(* types, as well as Composite types and handles them correctly".          *)
UserTypesHandled == status # "panic"
=============================================================================
