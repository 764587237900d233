------------------------------ MODULE StateFile ------------------------------
(***************************************************************************)
(* The bytes of the state file: the offsets of the replication slots, the  *)
(* tables that were known at the last stop and the attributes of the sink. *)
(* A stop encodes and saves them, the storage saves what it holds from     *)
(* time to time, a start loads and decodes them.  Go's maps are written in *)
(* any order.  A byte has Base values, so the widths of the code keep      *)
(* their meaning.                                                          *)
(***************************************************************************)
EXTENDS Integers, Sequences, SequencesExt, TLC

CONSTANTS Base,          \* values of a byte
          SlotNames, Offsets,
          TableNames,    \* tables as <<schema, name>>, each a sequence of bytes
          AttributeMaps, \* attributes a sink has set
          MaxStarts

VARIABLES slot,        \* the slot's name: configured, or a random one for every start
          offsets,     \* slot name -> Offset, in memory
          states,      \* encodedStates
          meant,       \* what the encoded states stand for
          known,       \* the tables in the catalog
          attributes,  \* of the sink context
          file,        \* the bytes of the file
          stored,      \* what was to be stored in it
          loaded,      \* what the last start has decoded; <<>> if there was none
          running, starts

vars == <<slot, offsets, states, meant, known, attributes, file, stored, loaded, running, starts>>

-----------------------------------------------------------------------------
(* Big-endian numbers and length-prefixed strings.                         *)
BigEndian(n, width) == [i \in 1..width |-> (n \div Base^(width - i)) % Base]
Number(bytes) == FoldLeft(LAMBDA n, b : n * Base + b, 0, bytes)
PutBool(b) == <<IF b THEN 1 ELSE 0>>
PutString(s) == BigEndian(Len(s), 4) \o s

(* A reader: the value read last, what is left, and whether all went well. *)
(* A slice that is too short ends the process.                             *)
Reader(bytes) == [value |-> <<>>, rest |-> bytes, ok |-> TRUE]
With(r, x) == [r EXCEPT !.value = x]
Padded(bytes, n) == [i \in 1..n |-> IF i <= Len(bytes) THEN bytes[i] ELSE 0]
Slice(r, n) == [value |-> Padded(r.rest, n), rest |-> SubSeq(r.rest, n + 1, Len(r.rest)),
                ok |-> r.ok /\ n <= Len(r.rest)]

(* A read from a buffer is short without an error unless nothing is left.  *)
Read(r, n) == [Slice(r, n) EXCEPT !.ok = r.ok /\ (n = 0 \/ r.rest # <<>>)]
ReadUint32(r) == LET d == Read(r, 4) IN With(d, Number(d.value))
ReadString(r) == LET length == ReadUint32(r) IN Read(length, length.value)

readUint32(r) == LET d == Slice(r, 4) IN With(d, Number(d.value))
readString(r) == LET length == readUint32(r) IN Slice(length, length.value)

(* The values of n items that are read one after the other. *)
Items(r, n, Item(_)) ==
  FoldLeft(LAMBDA all, i : LET x == Item(all) IN With(x, Append(all.value, x.value)),
           With(r, <<>>), [i \in 1..n |-> i])

(* A map from a list of pairs; a later pair replaces an earlier one. *)
AsMap(pairs) == FoldLeft(LAMBDA f, p : (p[1] :> p[2]) @@ f, <<>>, pairs)

-----------------------------------------------------------------------------
(* A faulty variant: the keys are written without their length. *)
MarshalUnsized(o) ==
  BigEndian(o.timestamp, 8) \o PutBool(o.snapshot) \o BigEndian(o.snapshotOffset, 4) \o BigEndian(o.lsn, 8)
    \o (IF o.snapshotName = <<>> THEN <<0>> ELSE <<1, Len(o.snapshotName[1]) % Base>> \o o.snapshotName[1])
    \o PutBool(o.snapshotDone) \o o.snapshotKeyset

(* An offset; its name is absent or a 1-tuple, and its length takes one    *)
(* byte.                                                                   *)
MarshalOffset(o) ==
  BigEndian(o.timestamp, 8) \o PutBool(o.snapshot) \o BigEndian(o.snapshotOffset, 4) \o BigEndian(o.lsn, 8)
    \o (IF o.snapshotName = <<>> THEN <<0>> ELSE <<1, Len(o.snapshotName[1]) % Base>> \o o.snapshotName[1])
    \o PutBool(o.snapshotDone)
    \o (IF o.snapshotKeyset = <<>> THEN <<>> ELSE PutString(o.snapshotKeyset))

UnmarshalOffset(bytes) ==
  LET At(first, n) == Padded(SubSeq(bytes, first, Len(bytes)), n)
      hasSnapshotName == At(22, 1) = <<1>>
      nameLength == IF hasSnapshotName THEN At(23, 1)[1] ELSE 0
      done == nameLength + IF hasSnapshotName THEN 24 ELSE 23
      length == IF Len(bytes) > done THEN Number(At(done + 1, 4)) ELSE 0
  IN [value |-> [timestamp |-> Number(At(1, 8)), snapshot |-> At(9, 1) = <<1>>,
                 snapshotOffset |-> Number(At(10, 4)), lsn |-> Number(At(14, 8)),
                 snapshotName |-> IF nameLength > 0 THEN <<At(24, nameLength)>> ELSE <<>>,
                 snapshotDone |-> At(done, 1) = <<1>>, snapshotKeyset |-> At(done + 5, length)],
      ok |-> Len(bytes) = done \/ Len(bytes) >= done + 4]

-----------------------------------------------------------------------------
encodeKnownTables(tables) ==
  BigEndian(Len(tables), 4) \o FlattenSeq([i \in DOMAIN tables |-> PutString(tables[i][1]) \o PutString(tables[i][2])])

decodeKnownTables(bytes) ==
  LET Table(r) == LET schema == ReadString(r) name == ReadString(schema) IN With(name, <<schema.value, name.value>>)
      count == ReadUint32(Reader(bytes))
  IN Items(count, count.value, Table)

(* The lengths of key and value come before both. *)
MarshalContext(keys, map) ==
  BigEndian(Len(keys), 4)
    \o FlattenSeq([i \in DOMAIN keys |-> BigEndian(Len(keys[i]), 4) \o BigEndian(Len(map[keys[i]]), 4)
                                         \o keys[i] \o map[keys[i]]])

UnmarshalContext(bytes) ==
  LET Pair(r) == LET keyLength == readUint32(r)
                     valueLength == readUint32(keyLength)
                     key == Slice(valueLength, keyLength.value)
                     value == Slice(key, valueLength.value)
                 IN With(value, <<key.value, value.value>>)
      count == readUint32(Reader(bytes))
  IN Items(count, count.value, Pair)

-----------------------------------------------------------------------------
(* The file.                                                              *)
Entries(keys, map) ==
  BigEndian(Len(keys), 4) \o FlattenSeq([i \in DOMAIN keys |-> PutString(keys[i]) \o PutString(map[keys[i]])])

Save(slots, names, encoded) ==
  Entries(slots, [s \in DOMAIN offsets |-> MarshalOffset(offsets[s])]) \o Entries(names, encoded)

(* Load: an absent or empty file leaves the maps empty. *)
Load(bytes) ==
  LET OffsetEntry(r) == LET key == readString(r)
                            data == readString(key)
                            o == UnmarshalOffset(data.value)
                        IN [With(data, <<key.value, o.value>>) EXCEPT !.ok = data.ok /\ o.ok]
      StateEntry(r) == LET name == readString(r) data == readString(name) IN With(data, <<name.value, data.value>>)
      count == readUint32(Reader(bytes))
      read == Items(count, count.value, OffsetEntry)
      more == readUint32(read)
      rest == Items(more, more.value, StateEntry)
  IN IF bytes = <<>> THEN [offsets |-> <<>>, states |-> <<>>, ok |-> TRUE]
     ELSE [offsets |-> AsMap(read.value), states |-> AsMap(rest.value), ok |-> rest.ok]

(* The names of the encoded states. *)
knownTables == <<1>>
sinkContext == <<1, 2>>

Init ==
  /\ slot \in SlotNames /\ offsets = <<>> /\ states = <<>> /\ meant = <<>> /\ known = {} /\ attributes = <<>>
  /\ file = <<>> /\ stored = [offsets |-> <<>>, states |-> <<>>] /\ loaded = <<>>
  /\ running = TRUE /\ starts = 1

AcknowledgeProcessed ==
  /\ running
  /\ \E o \in Offsets : offsets' = (slot :> o) @@ offsets
  /\ UNCHANGED <<slot, states, meant, known, attributes, file, stored, loaded, running, starts>>

RegisterTable ==
  /\ running
  /\ \E t \in TableNames \ known : known' = known \cup {t}
  /\ UNCHANGED <<slot, offsets, states, meant, attributes, file, stored, loaded, running, starts>>

SetAttribute ==
  /\ running
  /\ \E map \in AttributeMaps : attributes' = map @@ attributes
  /\ UNCHANGED <<slot, offsets, states, meant, known, file, stored, loaded, running, starts>>

SaveTo(encoded) ==
  \E slots \in SetToSeqs(DOMAIN offsets), names \in SetToSeqs(DOMAIN encoded) : file' = Save(slots, names, encoded)

AutoStore ==
  /\ running
  /\ SaveTo(states) /\ stored' = [offsets |-> offsets, states |-> meant]
  /\ UNCHANGED <<slot, offsets, states, meant, known, attributes, loaded, running, starts>>

(* The known tables and the sink context are encoded before the storage    *)
(* saves.                                                                  *)
Stop ==
  /\ running /\ running' = FALSE
  /\ \E tables \in SetToSeqs(known), keys \in SetToSeqs(DOMAIN attributes) :
       states' = (knownTables :> encodeKnownTables(tables)) @@ (sinkContext :> MarshalContext(keys, attributes)) @@ states
  /\ meant' = <<known, attributes>>
  /\ SaveTo(states') /\ stored' = [offsets |-> offsets, states |-> meant']
  /\ UNCHANGED <<slot, offsets, known, attributes, loaded, starts>>

Crash ==
  /\ running /\ running' = FALSE
  /\ UNCHANGED <<slot, offsets, states, meant, known, attributes, file, stored, loaded, starts>>

(* The storage loads the file, the sink manager and the collection of the  *)
(* tables decode what is theirs; the catalog is read from the database.    *)
Start ==
  /\ ~running /\ running' = TRUE /\ starts < MaxStarts /\ starts' = starts + 1 /\ slot' \in SlotNames
  /\ \E data \in {Load(file)} :
     LET present == DOMAIN data.states # {}
     IN \E tables \in {IF present THEN decodeKnownTables(data.states[knownTables]) ELSE Reader(<<>>)},
           pairs \in {IF present THEN UnmarshalContext(data.states[sinkContext]) ELSE Reader(<<>>)} :
          /\ offsets' = data.offsets /\ states' = data.states /\ attributes' = AsMap(pairs.value)
          /\ loaded' = [offsets |-> data.offsets,
                        states |-> IF present THEN <<ToSet(tables.value), AsMap(pairs.value)>> ELSE <<>>,
                        ok |-> data.ok /\ tables.ok /\ pairs.ok]
  /\ meant' = stored.states
  /\ UNCHANGED <<known, file, stored>>

Next ==
  \/ AcknowledgeProcessed
  \/ RegisterTable
  \/ SetAttribute
  \/ AutoStore
  \/ Stop
  \/ Crash
  \/ Start

Spec == Init /\ [][Next]_vars

-----------------------------------------------------------------------------
DecodesStored ==
  starts' # starts => loaded'.ok /\ loaded'.offsets = stored.offsets /\ loaded'.states = stored.states

(* What a start decodes from the file is what the last save was to store:  *)
(* the offset of every slot with all its fields, the known tables and the  *)
(* sink's attributes, in whatever order the maps were written.             *)
LoadedAsStored == [][DecodesStored]_vars
=============================================================================
