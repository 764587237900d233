---------------------------- MODULE SchemaBuilders ----------------------------
(***************************************************************************)
(* The schema of a table is put together from builders: each PostgreSQL    *)
(* type owns one, a column takes a clone of it and adds its own name,      *)
(* default, nullability and length.  A clone is shallow: its map of        *)
(* parameters is the map of the builder it was cloned from.  The maps are  *)
(* a heap here; everything else of a builder is copied and is a value.     *)
(***************************************************************************)
EXTENDS Integers, Sequences, SequencesExt, TLC

CONSTANTS TableColumns,  \* table -> the sequence of its columns
          MaxMaps        \* bounds the builds: no map is added beyond this many

VARIABLES heap,          \* the maps of parameters, by reference
          typeBuilders,  \* type -> pgType.schemaBuilder, of those resolved so far
          schemas        \* table -> the schema last built for it

vars == <<heap, typeBuilders, schemas>>

-----------------------------------------------------------------------------
(* The types: name |-> kind, element or base type, composite columns.    *)
Types == {"int4", "varchar", "bit", "json", "mood", "geometry", "varchar[]", "mood[]", "code", "pair"}
ElementType == "varchar[]" :> "varchar" @@ "mood[]" :> "mood"
BaseType == "code" :> "varchar"
CompositeColumns == "pair" :> <<"varchar", "mood">>
IsPrimitive(type) ==
  type \notin DOMAIN ElementType \cup DOMAIN BaseType \cup DOMAIN CompositeColumns

(* A column's length, from the modifiers of its type; -1 without one. *)
AsFieldLength(type, modifiers) ==
  IF type = "bit" /\ modifiers > 1 THEN modifiers
  ELSE IF type \in {"varchar", "varchar[]"} /\ modifiers > 5 THEN modifiers - 4
  ELSE -1

-----------------------------------------------------------------------------
(* A faulty variant: the map of parameters is made with the builder. *)
NewWithParameters(schemaType) ==
  [schemaType |-> schemaType, fieldName |-> "", schemaName |-> "", optional |-> FALSE,
   defaultValue |-> "", index |-> -1, parameters |-> 1, fields |-> <<>>, valueSchema |-> <<>>]

(* parameters is 0 and defaultValue "" for nil; fields and valueSchema     *)
(* hold builders.                                                          *)
NewSchemaBuilder(schemaType) ==
  [schemaType |-> schemaType, fieldName |-> "", schemaName |-> "", optional |-> FALSE,
   defaultValue |-> "", index |-> -1, parameters |-> 0, fields |-> <<>>, valueSchema |-> <<>>]

(* The index is not copied: a clone has index 0. *)
Clone(b) == [b EXCEPT !.index = 0]

(* The heap, then the builder, after b.Parameter(key, value). *)
Parameter(h, b, key, value) ==
  IF b.parameters = 0
  THEN <<Append(h, key :> value), [b EXCEPT !.parameters = Len(h) + 1]>>
  ELSE <<[h EXCEPT ![b.parameters] = key :> value @@ @], b>>

Field(b, name, index, builder) ==
  [b EXCEPT !.fields = Append(@, [Clone(builder) EXCEPT !.fieldName = name, !.index = index])]

(* The special string types.  The enum's allowed values are a parameter,   *)
(* in the map with reference 2.                                            *)
Enum == [NewSchemaBuilder("string") EXCEPT !.schemaName = "Enum", !.parameters = 2]
Json == [NewSchemaBuilder("string") EXCEPT !.schemaName = "Json"]
Geometry ==
  Field(Field(NewSchemaBuilder("struct"), "wkb", 0, NewSchemaBuilder("string")),
        "srid", 1, NewSchemaBuilder("int32"))

primitiveSchemaBuilder(type) ==
  IF type = "geometry" THEN Geometry
  ELSE IF type = "int4" THEN NewSchemaBuilder("int32")
  ELSE IF type = "mood" THEN Enum
  ELSE IF type = "json" THEN Json
  ELSE NewSchemaBuilder("string")

Resolved(type) == typeBuilders[type]
resolveSchemaBuilder(type) ==
  IF type \in DOMAIN ElementType
       THEN [NewSchemaBuilder("array") EXCEPT !.valueSchema = <<Clone(Resolved(ElementType[type]))>>]
  ELSE IF type \in DOMAIN CompositeColumns
       THEN LET columns == CompositeColumns[type]
                compositeColumn(i) == [Clone(Resolved(columns[i])) EXCEPT !.fieldName = ToString(i)]
            IN FoldLeft(LAMBDA b, i : Field(b, ToString(i), i - 1, compositeColumn(i)),
                        NewSchemaBuilder("struct"), [i \in 1..Len(columns) |-> i])
  ELSE IF type \in DOMAIN BaseType
       THEN [Clone(Resolved(BaseType[type])) EXCEPT !.schemaName = type]
  ELSE primitiveSchemaBuilder(type)

-----------------------------------------------------------------------------
(* A column's builder: a clone of the type's, with the column's own parts. *)
ColumnSchemaBuilder(h, builder, c) ==
  LET b == [Clone(builder) EXCEPT !.fieldName = c.name, !.defaultValue = c.default, !.optional = c.nullable]
      length == AsFieldLength(c.type, c.modifiers)
      result == IF length > -1 THEN Parameter(h, b, "length", length) ELSE <<h, b>>
  IN <<result[1], Clone(result[2])>>

(* The table's builder; the type builders it needs are there. *)
TableSchemaBuilder(columns, builders) ==
  FoldLeft(LAMBDA acc, i :
             LET column == ColumnSchemaBuilder(acc[1], builders[columns[i].type], columns[i])
             IN <<column[1], Field(acc[2], columns[i].name, i - 1, column[2])>>,
           <<heap, NewSchemaBuilder("struct")>>, [i \in 1..Len(columns) |-> i])

(* The texts strconv parses, of those used here.  The first parser that    *)
(* takes a default decides, so that "1" and "0" are booleans.              *)
ParseBool == {"0", "1", "t", "f", "true", "false"}
ParseInt == {"0", "1", "7", "42"}
ParseFloat == ParseInt \cup {"1.5", "NaN"}
ParsedDefault(default) ==
  [text |-> default,
   as |-> IF default \in ParseBool THEN "bool"
          ELSE IF default \in ParseInt THEN "int64"
          ELSE IF default \in ParseFloat THEN "float64" ELSE "string"]

(* The parameters are written into the schema itself. *)
Parameters(h, b) == IF b.parameters = 0 THEN <<>> ELSE h[b.parameters]
BuildScalar(h, b) ==
  Parameters(h, b) @@ "type" :> b.schemaType @@ "field" :> b.fieldName @@ "name" :> b.schemaName
    @@ "index" :> b.index @@ "optional" :> b.optional
    @@ (IF b.defaultValue = "" THEN <<>> ELSE "default" :> ParsedDefault(b.defaultValue))
Build(h, b) ==
  "fields" :> [i \in 1..Len(b.fields) |-> BuildScalar(h, b.fields[i])]
    @@ "valueSchema" :> [i \in 1..Len(b.valueSchema) |-> BuildScalar(h, b.valueSchema[i])]
    @@ BuildScalar(h, b)
BuildTable(h, b) == [i \in 1..Len(b.fields) |-> Build(h, b.fields[i])]

-----------------------------------------------------------------------------
(* The types with a primitive schema type are resolved as they are made. *)
Init ==
  /\ heap = <<<<>>, "allowed" :> "a,b">>
  /\ typeBuilders = [t \in {t \in Types : IsPrimitive(t)} |-> primitiveSchemaBuilder(t)]
  /\ schemas = <<>>

(* pgType.SchemaBuilder resolves the builder of another type on first use. *)
ResolveType(type) ==
  /\ type \notin DOMAIN typeBuilders
  /\ typeBuilders' = type :> resolveSchemaBuilder(type) @@ typeBuilders
  /\ UNCHANGED <<heap, schemas>>

(* The stream of a table builds its schema; a table built again, after it  *)
(* was dropped and created, gets a new one.                                *)
BuildSchema(table) ==
  LET columns == TableColumns[table]
      builder == TableSchemaBuilder(columns, typeBuilders)
  IN /\ Len(heap) < MaxMaps
     /\ \A i \in DOMAIN columns : columns[i].type \in DOMAIN typeBuilders
     /\ heap' = builder[1]
     /\ schemas' = table :> BuildTable(builder[1], builder[2]) @@ schemas
     /\ UNCHANGED typeBuilders

Next ==
  \/ \E type \in Types : ResolveType(type)
  \/ \E table \in DOMAIN TableColumns : BuildSchema(table)

Spec == Init /\ [][Next]_vars

-----------------------------------------------------------------------------
(* A column's own definition says whether it has a length; the definition  *)
(* of its type whether it has allowed values.                              *)
HasLength(c) == AsFieldLength(c.type, c.modifiers) > -1

(* The schema of a column is that of its own definition, whichever columns *)
(* of the same types were built before it, in this table or in another: no *)
(* length, default, name or set of allowed values travels from one column  *)
(* to another through the builder of their type.                           *)
ColumnsIndependent ==
  \A table \in DOMAIN schemas : \A i \in DOMAIN schemas[table] :
    LET c == TableColumns[table][i]
        schema == schemas[table][i]
    IN /\ ("length" \in DOMAIN schema) <=> HasLength(c)
       /\ HasLength(c) => schema["length"] = AsFieldLength(c.type, c.modifiers)
       /\ ("allowed" \in DOMAIN schema) <=> c.type = "mood"
       /\ schema["field"] = c.name /\ schema["optional"] = c.nullable
       /\ schema["index"] = i - 1
       /\ ("default" \in DOMAIN schema) <=> c.default # ""
       /\ c.default # "" => schema["default"].text = c.default
       /\ \A k \in DOMAIN schema["valueSchema"] : "length" \notin DOMAIN schema["valueSchema"][k]
       /\ \A k \in DOMAIN schema["fields"] : "length" \notin DOMAIN schema["fields"][k]
=============================================================================
