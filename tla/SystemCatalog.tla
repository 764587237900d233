---------------------------- MODULE SystemCatalog ----------------------------
(***************************************************************************)
(* The system catalog: what the program knows of the hypertables and       *)
(* chunks of the database.  It is read once at the start, and then kept    *)
(* up to date by the handlers of systemCatalogReplicationEventHandler,     *)
(* which see the rows of _timescaledb_catalog.hypertable and .chunk in the *)
(* order of the WAL, but ask the database of the moment for whatever a     *)
(* row does not tell (replica identity, view of a continuous aggregate,    *)
(* columns).                                                               *)
(*                                                                         *)
(* A name is a number: the first NumNames are given by users, and the      *)
(* tables TimescaleDB creates have one of their own.                       *)
(***************************************************************************)
EXTENDS Integers, Sequences, FiniteSets, Functions

CONSTANTS
  NumNames,        \* names users give to hypertables and continuous aggregates
  Included,        \* the names that the hypertable filter selects
  Databases,       \* the databases to start from: [hypertables, chunks, parent]
  MaxHypertables,  \* bound: hypertables ever created
  MaxChunks,       \* bound: chunks ever created
  MaxOps,          \* bound: statements run in the database
  MaxStarts        \* bound: starts of the program

Names == 1..NumNames
InternalName(id) == NumNames + id

VARIABLES
  \* the database
  dbHypertables,   \* [id -> row of _timescaledb_catalog.hypertable]
  dbChunks,        \* [id -> row of _timescaledb_catalog.chunk]
  wal,             \* every change of the two, in order
  ops,             \* statements run so far
  lastHypertable, lastChunk,  \* the ids given out
  parent,          \* [compressed hypertable -> the hypertable it belongs to] (history)
  \* the program
  up, starts,
  pos,             \* the next entry of the WAL to handle
  hypertables, hypertableNameIndex, hypertable2compressed, compressed2hypertable,
  chunks, chunk2Hypertable, hypertable2chunks,
  filterCache,     \* [name -> selected], of the table filter
  scheduled,       \* chunks for which a snapshot was enqueued
  missed           \* hypertables of which an event could not be applied (history)

database == <<dbHypertables, dbChunks, wal, ops, lastHypertable, lastChunk, parent>>
tables == <<hypertables, hypertableNameIndex, hypertable2compressed, compressed2hypertable>>
parts == <<chunks, chunk2Hypertable, hypertable2chunks>>
process == <<up, starts>>
vars == <<database, process, pos, tables, parts, filterCache, scheduled, missed>>

NoMap == <<>>
Put(f, k, v) == [x \in DOMAIN f \cup {k} |-> IF x = k THEN v ELSE f[x]]
Delete(f, k) == Restrict(f, DOMAIN f \ {k})

Init ==
  /\ \E d \in Databases :
       /\ dbHypertables = d.hypertables /\ lastHypertable = Cardinality(DOMAIN d.hypertables)
       /\ dbChunks = d.chunks /\ lastChunk = Cardinality(DOMAIN d.chunks)
       /\ parent = d.parent
  /\ wal = <<>> /\ ops = 0
  /\ up = FALSE /\ starts = 0 /\ pos = 1
  /\ hypertables = NoMap /\ hypertableNameIndex = NoMap
  /\ hypertable2compressed = NoMap /\ compressed2hypertable = NoMap
  /\ chunks = NoMap /\ chunk2Hypertable = NoMap /\ hypertable2chunks = NoMap
  /\ filterCache = NoMap /\ scheduled = <<>> /\ missed = {}

-----------------------------------------------------------------------------
(* The database: a statement changes the rows and writes the changes to    *)
(* the WAL.  The id 0 stands for NULL, the view 0 for an ordinary table.   *)

HypertableRow(name, view, state) ==
  [name |-> name, view |-> view, compressed |-> 0, state |-> state, columns |-> 1]
ChunkRow(h, compressed) ==
  [hypertable |-> h, compressed |-> compressed, chunk |-> 0, dropped |-> FALSE]

Change(op, id, row) == [op |-> op, id |-> id, row |-> row]
NoRow == [name |-> 0]

Statement(changes) ==
  /\ ops < MaxOps
  /\ ops' = ops + 1
  /\ wal' = wal \o changes
  /\ UNCHANGED <<process, pos, tables, parts, filterCache, scheduled, missed>>

TableNames == {dbHypertables[h].name : h \in DOMAIN dbHypertables}
ChunksOf(h) == {c \in DOMAIN dbChunks : dbChunks[c].hypertable = h}
IsUserTable(h) == dbHypertables[h].state # 2

CreateHypertable(name) ==
  /\ name \notin TableNames /\ lastHypertable < MaxHypertables
  /\ LET h == lastHypertable + 1
         row == HypertableRow(name, 0, 0)
     IN /\ dbHypertables' = Put(dbHypertables, h, row)
        /\ lastHypertable' = h
        /\ Statement(<<Change("hypertable+", h, row)>>)
  /\ UNCHANGED <<dbChunks, lastChunk, parent>>

CreateContinuousAggregate(view) ==
  /\ lastHypertable < MaxHypertables
  /\ \A h \in DOMAIN dbHypertables : dbHypertables[h].view # view
  /\ LET h == lastHypertable + 1
         row == HypertableRow(InternalName(h), view, 0)
     IN /\ dbHypertables' = Put(dbHypertables, h, row)
        /\ lastHypertable' = h
        /\ Statement(<<Change("hypertable+", h, row)>>)
  /\ UNCHANGED <<dbChunks, lastChunk, parent>>

Rename(h, name) ==
  /\ IsUserTable(h) /\ dbHypertables[h].view = 0
  /\ name \notin TableNames
  /\ LET row == [dbHypertables[h] EXCEPT !.name = name]
     IN /\ dbHypertables' = Put(dbHypertables, h, row)
        /\ Statement(<<Change("hypertable*", h, row)>>)
  /\ UNCHANGED <<dbChunks, lastHypertable, lastChunk, parent>>

(* The relation message comes with the next row of the table. *)
AlterTable(h) ==
  /\ IsUserTable(h)
  /\ LET row == [dbHypertables[h] EXCEPT !.columns = @ + 1]
     IN /\ dbHypertables' = Put(dbHypertables, h, row)
        /\ Statement(<<Change("relation", h, row)>>)
  /\ UNCHANGED <<dbChunks, lastHypertable, lastChunk, parent>>

EnableCompression(h) ==
  /\ IsUserTable(h) /\ dbHypertables[h].compressed = 0 /\ lastHypertable < MaxHypertables
  /\ LET c == lastHypertable + 1
         crow == HypertableRow(InternalName(c), 0, 2)
         row == [dbHypertables[h] EXCEPT !.compressed = c, !.state = 1]
     IN /\ dbHypertables' = Put(Put(dbHypertables, h, row), c, crow)
        /\ lastHypertable' = c
        /\ parent' = Put(parent, c, h)
        /\ Statement(<<Change("hypertable+", c, crow), Change("hypertable*", h, row)>>)
  /\ UNCHANGED <<dbChunks, lastChunk>>

DisableCompression(h) ==
  /\ IsUserTable(h) /\ dbHypertables[h].compressed # 0
  /\ ChunksOf(dbHypertables[h].compressed) = {}
  /\ LET c == dbHypertables[h].compressed
         row == [dbHypertables[h] EXCEPT !.compressed = 0, !.state = 0]
     IN /\ dbHypertables' = Delete(Put(dbHypertables, h, row), c)
        /\ Statement(<<Change("hypertable*", h, row), Change("hypertable-", c, NoRow)>>)
  /\ UNCHANGED <<dbChunks, lastHypertable, lastChunk, parent>>

CreateChunk(h) ==
  /\ IsUserTable(h) /\ lastChunk < MaxChunks
  /\ LET c == lastChunk + 1
         row == ChunkRow(h, FALSE)
     IN /\ dbChunks' = Put(dbChunks, c, row)
        /\ lastChunk' = c
        /\ Statement(<<Change("chunk+", c, row)>>)
  /\ UNCHANGED <<dbHypertables, lastHypertable, parent>>

CompressChunk(c) ==
  /\ ~dbChunks[c].compressed /\ dbChunks[c].chunk = 0 /\ ~dbChunks[c].dropped
  /\ dbHypertables[dbChunks[c].hypertable].compressed # 0 /\ lastChunk < MaxChunks
  /\ LET k == lastChunk + 1
         krow == ChunkRow(dbHypertables[dbChunks[c].hypertable].compressed, TRUE)
         row == [dbChunks[c] EXCEPT !.chunk = k]
     IN /\ dbChunks' = Put(Put(dbChunks, c, row), k, krow)
        /\ lastChunk' = k
        /\ Statement(<<Change("chunk+", k, krow), Change("chunk*", c, row)>>)
  /\ UNCHANGED <<dbHypertables, lastHypertable, parent>>

DecompressChunk(c) ==
  /\ dbChunks[c].chunk # 0
  /\ LET k == dbChunks[c].chunk
         row == [dbChunks[c] EXCEPT !.chunk = 0]
     IN /\ dbChunks' = Delete(Put(dbChunks, c, row), k)
        /\ Statement(<<Change("chunk*", c, row), Change("chunk-", k, NoRow)>>)
  /\ UNCHANGED <<dbHypertables, lastHypertable, lastChunk, parent>>

(* The row of a chunk that was materialized stays, marked as dropped. *)
DropChunk(c, keep) ==
  /\ dbChunks[c].chunk = 0 /\ ~dbChunks[c].compressed /\ ~dbChunks[c].dropped
  /\ LET row == [dbChunks[c] EXCEPT !.dropped = TRUE]
     IN IF keep
          THEN /\ dbChunks' = Put(dbChunks, c, row)
               /\ Statement(<<Change("chunk*", c, row)>>)
          ELSE /\ dbChunks' = Delete(dbChunks, c)
               /\ Statement(<<Change("chunk-", c, NoRow)>>)
  /\ UNCHANGED <<dbHypertables, lastHypertable, lastChunk, parent>>

Removed(op, ids) == [i \in 1..Cardinality(ids) |->
  Change(op, CHOOSE x \in ids : Cardinality({y \in ids : y < x}) = i - 1, NoRow)]

DropHypertable(h) ==
  /\ IsUserTable(h)
  /\ LET hs == {h} \cup ({dbHypertables[h].compressed} \ {0})
         cs == UNION {ChunksOf(x) : x \in hs}
     IN /\ dbChunks' = Restrict(dbChunks, DOMAIN dbChunks \ cs)
        /\ dbHypertables' = Restrict(dbHypertables, DOMAIN dbHypertables \ hs)
        /\ Statement(Removed("chunk-", cs) \o Removed("hypertable-", hs))
  /\ UNCHANGED <<lastHypertable, lastChunk, parent>>

Database ==
  \/ \E name \in Names : CreateHypertable(name) \/ CreateContinuousAggregate(name)
  \/ \E h \in DOMAIN dbHypertables :
       \/ \E name \in Names : Rename(h, name)
       \/ AlterTable(h) \/ EnableCompression(h) \/ DisableCompression(h)
       \/ CreateChunk(h) \/ DropHypertable(h)
  \/ \E c \in DOMAIN dbChunks :
       \/ CompressChunk(c) \/ DecompressChunk(c)
       \/ \E keep \in BOOLEAN : DropChunk(c, keep)

-----------------------------------------------------------------------------
(* Lookups.  An index leads to an id, and the id to an entry or to none.   *)

Entry(row, view, columns) ==
  [name |-> row.name, view |-> view, compressed |-> row.compressed,
   state |-> row.state, columns |-> columns]

IsCompressedTable(e) == e.state = 2

FindHypertableByName(name) ==
  {hypertableNameIndex[n] : n \in {name} \cap DOMAIN hypertableNameIndex}
    \cap DOMAIN hypertables
FindHypertableByChunkId(c) ==
  {chunk2Hypertable[x] : x \in {c} \cap DOMAIN chunk2Hypertable} \cap DOMAIN hypertables
FindHypertableByCompressedHypertableId(c) ==
  {compressed2hypertable[x] : x \in {c} \cap DOMAIN compressed2hypertable}
    \cap DOMAIN hypertables
FindCompressedHypertableByHypertableId(h) ==
  {hypertable2compressed[x] : x \in {h} \cap DOMAIN hypertable2compressed}
    \cap DOMAIN hypertables

(* The hypertable that h is, or whose compressed chunks h holds: a set of  *)
(* one or none.                                                            *)
ResolveUncompressedHypertable(h) ==
  IF h \notin DOMAIN hypertables THEN {}
  ELSE IF ~IsCompressedTable(hypertables[h]) THEN {h}
  ELSE FindHypertableByCompressedHypertableId(h)

ResolveOriginHypertable(chunk) == ResolveUncompressedHypertable(chunk.hypertable)

(* A continuous aggregate is matched by the name of its view. *)
Matches(e) == (IF e.view # 0 THEN e.view ELSE e.name) \in Included

(* A faulty variant: the filter looks at the internal name of a continuous *)
(* aggregate.                                                              *)
EnabledByName(e) ==
  IF e.name \in DOMAIN filterCache THEN filterCache[e.name] ELSE e.name \in Included

Enabled(e) ==
  IF e.name \in DOMAIN filterCache THEN filterCache[e.name] ELSE Matches(e)
Tested(e) == Put(filterCache, e.name, Enabled(e))

IsHypertableSelectedForReplication(h) ==
  \E u \in ResolveUncompressedHypertable(h) : Enabled(hypertables[u])

GetAllChunks ==
  {c \in DOMAIN chunks :
     IsHypertableSelectedForReplication(chunks[c].hypertable) /\ ~chunks[c].dropped}

-----------------------------------------------------------------------------
(* Registration.                                                           *)

(* A faulty variant: the way back from the compressed hypertable is missing. *)
RegisterOneWay(h, e) ==
  /\ hypertables' = Put(hypertables, h, e)
  /\ hypertableNameIndex' = Put(hypertableNameIndex, e.name, h)
  /\ hypertable2chunks' = Put(hypertable2chunks, h, <<>>)
  /\ hypertable2compressed' = IF e.compressed = 0 THEN hypertable2compressed
                              ELSE Put(hypertable2compressed, h, e.compressed)
  /\ UNCHANGED compressed2hypertable

RegisterHypertable(h, e) ==
  /\ hypertables' = Put(hypertables, h, e)
  /\ hypertableNameIndex' = Put(hypertableNameIndex, e.name, h)
  /\ hypertable2chunks' = Put(hypertable2chunks, h, <<>>)
  /\ hypertable2compressed' = IF e.compressed = 0 THEN hypertable2compressed
                              ELSE Put(hypertable2compressed, h, e.compressed)
  /\ compressed2hypertable' = IF e.compressed = 0 THEN compressed2hypertable
                              ELSE Put(compressed2hypertable, e.compressed, h)

UnregisterHypertable(h) ==
  /\ hypertables' = Delete(hypertables, h)
  /\ hypertableNameIndex' = Delete(hypertableNameIndex, hypertables[h].name)
  /\ hypertable2compressed' = Delete(hypertable2compressed, h)
  /\ compressed2hypertable' = Delete(compressed2hypertable, h)
  /\ hypertable2chunks' = Delete(hypertable2chunks, h)

(* A faulty variant: a chunk that is known is left as it is. *)
RegisterUnknown(c, e) ==
  IF e.hypertable \in DOMAIN hypertables /\ c \notin DOMAIN chunks
    THEN /\ chunks' = Put(chunks, c, e)
         /\ chunk2Hypertable' = Put(chunk2Hypertable, c, e.hypertable)
         /\ hypertable2chunks' = Put(hypertable2chunks, e.hypertable,
              Append(hypertable2chunks[e.hypertable], c))
    ELSE UNCHANGED parts

RegisterChunk(c, e) ==
  IF e.hypertable \in DOMAIN hypertables
    THEN /\ chunks' = Put(chunks, c, e)
         /\ chunk2Hypertable' = Put(chunk2Hypertable, c, e.hypertable)
         /\ hypertable2chunks' = Put(hypertable2chunks, e.hypertable,
              Append(hypertable2chunks[e.hypertable], c))
    ELSE UNCHANGED parts

WithoutFirst(s, x) ==
  IF \A i \in DOMAIN s : s[i] # x THEN s
  ELSE LET k == CHOOSE i \in DOMAIN s : s[i] = x /\ \A j \in 1..(i - 1) : s[j] # x
       IN SubSeq(s, 1, k - 1) \o SubSeq(s, k + 1, Len(s))

UnregisterChunk(c) ==
  /\ chunks' = Delete(chunks, c)
  /\ chunk2Hypertable' = Delete(chunk2Hypertable, c)
  /\ hypertable2chunks' = [h \in DOMAIN hypertable2chunks |->
       IF h \in FindHypertableByChunkId(c) THEN WithoutFirst(hypertable2chunks[h], c)
       ELSE hypertable2chunks[h]]

-----------------------------------------------------------------------------
(* The start: the catalog is read as it is now, and the WAL from where the *)
(* slot restarts, which may be behind the catalog.                         *)

InitiallySelected == {h \in DOMAIN dbHypertables : Matches(dbHypertables[h])}

RegisteredCompressed(hs) == {h \in hs : dbHypertables[h].compressed # 0}

InitializeSystemCatalog ==
  LET hs == InitiallySelected
      cs == {c \in DOMAIN dbChunks : dbChunks[c].hypertable \in hs}
  IN /\ hypertables' = Restrict(dbHypertables, hs)
     /\ hypertableNameIndex' = [n \in {dbHypertables[h].name : h \in hs} |->
                                  CHOOSE h \in hs : dbHypertables[h].name = n]
     /\ hypertable2compressed' = [h \in RegisteredCompressed(hs) |-> dbHypertables[h].compressed]
     /\ compressed2hypertable' =
          [k \in {dbHypertables[h].compressed : h \in RegisteredCompressed(hs)} |->
             CHOOSE h \in hs : dbHypertables[h].compressed = k]
     /\ chunks' = Restrict(dbChunks, cs)
     /\ chunk2Hypertable' = [c \in cs |-> dbChunks[c].hypertable]
     /\ hypertable2chunks' = [h \in hs |-> [i \in 1..Cardinality(ChunksOf(h)) |->
          CHOOSE c \in ChunksOf(h) : Cardinality({d \in ChunksOf(h) : d < c}) = i - 1]]
     /\ filterCache' = [n \in TableNames |->
          \E h \in DOMAIN dbHypertables : dbHypertables[h].name = n /\ Matches(dbHypertables[h])]

Start(p) ==
  /\ ~up /\ starts < MaxStarts
  /\ up' = TRUE /\ starts' = starts + 1
  /\ pos' = p
  /\ InitializeSystemCatalog
  /\ scheduled' = <<>> /\ missed' = {}
  /\ UNCHANGED database

(* The process ends, and with it what it held in memory. *)
Stop ==
  /\ up /\ up' = FALSE
  /\ hypertables' = NoMap /\ hypertableNameIndex' = NoMap
  /\ hypertable2compressed' = NoMap /\ compressed2hypertable' = NoMap
  /\ chunks' = NoMap /\ chunk2Hypertable' = NoMap /\ hypertable2chunks' = NoMap
  /\ filterCache' = NoMap /\ scheduled' = <<>> /\ missed' = {}
  /\ UNCHANGED <<database, starts, pos>>

-----------------------------------------------------------------------------
(* The handlers.  An error is logged by the task manager, and the next     *)
(* entry of the WAL is handled.                                            *)

Event(op) ==
  /\ up /\ pos <= Len(wal) /\ wal[pos].op = op
  /\ pos' = pos + 1
  /\ UNCHANGED <<database, process>>

(* The side channel looks tables up by name, in the database of the moment. *)
TableExists(name) == name \in TableNames
ColumnsOf(name) ==
  IF TableExists(name)
    THEN LET h == CHOOSE x \in DOMAIN dbHypertables : dbHypertables[x].name = name
         IN dbHypertables[h].columns
    ELSE 0

(* The schema of internal tables other than continuous aggregates is not   *)
(* read.                                                                   *)
ReadHypertableSchema(name, view, columns) ==
  IF view = 0 /\ name \notin Names THEN columns ELSE ColumnsOf(name)

ReadContinuousAggregate(h) ==
  IF h \in DOMAIN dbHypertables THEN dbHypertables[h].view ELSE 0

OnRelationEvent ==
  /\ Event("relation")
  /\ LET name == wal[pos].row.name
         found == {h \in FindHypertableByName(name) :
                     hypertables[h].view # 0 \/ name \notin Names}
     IN hypertables' = [h \in DOMAIN hypertables |->
          IF h \in found
            THEN [hypertables[h] EXCEPT !.columns =
                    ReadHypertableSchema(hypertables[h].name, hypertables[h].view, @)]
            ELSE hypertables[h]]
  /\ UNCHANGED <<hypertableNameIndex, hypertable2compressed, compressed2hypertable, parts,
                 filterCache, scheduled, missed>>

OnHypertableAdded ==
  /\ Event("hypertable+")
  /\ LET h == wal[pos].id
         row == wal[pos].row
         view == IF row.view # 0 THEN ReadContinuousAggregate(h) ELSE 0
     IN IF TableExists(row.name)
          THEN /\ RegisterHypertable(h, Entry(row, view, ReadHypertableSchema(row.name, view, 0)))
               /\ UNCHANGED missed
          ELSE /\ missed' = missed \cup {h}
               /\ UNCHANGED <<tables, hypertable2chunks>>
  /\ UNCHANGED <<chunks, chunk2Hypertable, filterCache, scheduled>>

(* ApplyChanges keeps the columns, and forgets the view. *)
OnHypertableUpdated ==
  /\ Event("hypertable*")
  /\ LET h == wal[pos].id
         row == wal[pos].row
     IN IF h \notin DOMAIN hypertables
          THEN UNCHANGED <<tables, hypertable2chunks, missed>>
        ELSE IF TableExists(hypertables[h].name)
          THEN /\ RegisterHypertable(h, Entry(row, 0, hypertables[h].columns))
               /\ UNCHANGED missed
          ELSE /\ missed' = missed \cup {h}
               /\ UNCHANGED <<tables, hypertable2chunks>>
  /\ UNCHANGED <<chunks, chunk2Hypertable, filterCache, scheduled>>

OnHypertableDeleted ==
  /\ Event("hypertable-")
  /\ IF wal[pos].id \in DOMAIN hypertables
       THEN UnregisterHypertable(wal[pos].id)
       ELSE UNCHANGED <<tables, hypertable2chunks>>
  /\ UNCHANGED <<chunks, chunk2Hypertable, filterCache, scheduled, missed>>

(* A chunk that is in the publication already is snapshotted all the same. *)
OnChunkAdded ==
  /\ Event("chunk+")
  /\ LET c == wal[pos].id
         row == wal[pos].row
         asked == {u \in ResolveUncompressedHypertable(row.hypertable) : ~row.compressed}
     IN /\ RegisterChunk(c, row)
        /\ filterCache' = IF asked = {} THEN filterCache
                          ELSE Tested(hypertables[CHOOSE u \in asked : TRUE])
        /\ scheduled' = IF \E u \in asked : Enabled(hypertables[u])
                          THEN Append(scheduled, c) ELSE scheduled
  /\ UNCHANGED <<tables, missed>>

(* ApplyChanges forgets that a chunk is compressed, too. *)
OnChunkUpdated ==
  /\ Event("chunk*")
  /\ IF wal[pos].id \in DOMAIN chunks
       THEN RegisterChunk(wal[pos].id, [wal[pos].row EXCEPT !.compressed = FALSE])
       ELSE UNCHANGED parts
  /\ UNCHANGED <<tables, filterCache, scheduled, missed>>

OnChunkDeleted ==
  /\ Event("chunk-")
  /\ IF wal[pos].id \in DOMAIN chunks
       THEN UnregisterChunk(wal[pos].id)
       ELSE UNCHANGED parts
  /\ UNCHANGED <<tables, filterCache, scheduled, missed>>

Next ==
  \/ Database
  \/ \E p \in 1..pos : Start(p)
  \/ Stop
  \/ OnRelationEvent
  \/ OnHypertableAdded \/ OnHypertableUpdated \/ OnHypertableDeleted
  \/ OnChunkAdded \/ OnChunkUpdated \/ OnChunkDeleted

Spec == Init /\ [][Next]_vars

-----------------------------------------------------------------------------
CaughtUp == up /\ pos > Len(wal)

(***************************************************************************)
(* Once the WAL is read, the catalog holds what the database does: every   *)
(* entry of a hypertable whose events could all be applied has the name,   *)
(* the compressed hypertable and the state of its row and is found by its  *)
(* name, and exactly the chunks of the known hypertables are known, as     *)
(* their rows are (OnHypertable*Event, OnChunk*Event of the catalog).      *)
(***************************************************************************)
Converged ==
  CaughtUp =>
    /\ \A h \in DOMAIN hypertables \ missed :
         /\ h \in DOMAIN dbHypertables
         /\ hypertables[h].name = dbHypertables[h].name
         /\ hypertables[h].compressed = dbHypertables[h].compressed
         /\ hypertables[h].state = dbHypertables[h].state
         /\ missed = {} => FindHypertableByName(hypertables[h].name) = {h}
    /\ \A c \in DOMAIN chunks :
         /\ c \in DOMAIN dbChunks
         /\ chunks[c].chunk = dbChunks[c].chunk
         /\ chunks[c].dropped = dbChunks[c].dropped
    /\ \A c \in DOMAIN dbChunks :
         dbChunks[c].hypertable \in DOMAIN hypertables => c \in DOMAIN chunks

(***************************************************************************)
(* A chunk is never taken for a part of another hypertable, at any moment  *)
(* of any history: what ResolveOriginHypertable finds is the hypertable    *)
(* that the chunk, or its compressed hypertable, was created for.  And it  *)
(* is found whenever that hypertable is known and up to date.              *)
(***************************************************************************)
OriginIsOwner ==
  \A c \in DOMAIN chunks :
    LET h == chunks[c].hypertable
        owner == IF h \in DOMAIN parent THEN parent[h] ELSE h
    IN /\ ResolveOriginHypertable(chunks[c]) \subseteq {owner}
       /\ (CaughtUp /\ missed = {} /\ owner \in DOMAIN hypertables)
            => ResolveOriginHypertable(chunks[c]) = {owner}

SchedulesSelected ==
  \A h \in DOMAIN hypertables :
    (up /\ up' /\ pos' > pos /\ wal[pos].op = "chunk+" /\ wal[pos].row.hypertable = h
       /\ h \in DOMAIN dbHypertables \ missed
       /\ hypertables[h].name = dbHypertables[h].name
       /\ hypertables[h].view = dbHypertables[h].view)
    => scheduled' = IF Matches(dbHypertables[h]) /\ ~wal[pos].row.compressed
                      THEN Append(scheduled, wal[pos].id) ELSE scheduled

(***************************************************************************)
(* The snapshot of a new chunk is enqueued exactly when its hypertable is  *)
(* one that the user selected, for every hypertable whose view, if it has  *)
(* one, the catalog still knows; compressed chunks are never snapshotted   *)
(* (OnChunkAddedEvent).                                                    *)
(***************************************************************************)
ScheduledAsSelected == [][SchedulesSelected]_vars
===============================================================================
