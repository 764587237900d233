------------------------------- MODULE Values -------------------------------
(***************************************************************************)
(* Column values on their way out.  A codec decodes a value into a Go      *)
(* value; the converter that the type manager registers for the type turns *)
(* it into what the event carries; the event schema announces the schema   *)
(* type of the same registration.  The values of a snapshot key go another *)
(* way: unconverted into the watermark, from there into the state storage  *)
(* and back (marshallers.go), and into the WHERE clause of the next batch  *)
(* (index.go).                                                             *)
(*                                                                         *)
(* A Go value is a record with its type in "go" and as much of its content *)
(* in "datum" as the conversions tell apart.  Times of day are in hours,   *)
(* floating point keys in units of a tenth of the last decimal of "%f",    *)
(* and strings are short sequences of a letter, apostrophes and            *)
(* backslashes.                                                            *)
(***************************************************************************)
EXTENDS Integers, Sequences, SequencesExt, TLC

VARIABLES
  type,      \* the type of the column
  original,  \* what the database holds: a Go value, or a sequence of them for an array
  value,     \* what became of it
  stage      \* how far it is: read, decoded, emitted, stored, loaded, asked, failed

vars == <<type, original, value, stage>>

Go(goType, x) == [go |-> goType, datum |-> x]
Text(x) == Go("string", x)
Nil == Go("nil", 0)
Error == Go("error", 0)       \* the conversion returns errIllegalValue
Panics == Go("panic", 0)
Is(x, types) == x.go \in types

-----------------------------------------------------------------------------
(* Converters.  What is not told apart below is given as 0.                *)

(* Converter :> <<the Go types it accepts, the one it produces>>.  An      *)
(* invalid value, which some of them map to nil, is a nil already when it  *)
(* comes from a codec.                                                     *)
PostGisConverters == "postgis2struct" :> <<{"Geometry", "Geography"}, "map">>
NumberConverters ==
  "enum2string" :> <<{"string"}, "string">> @@
  "float42float" :> <<{"Float4", "float32", "float64"}, "float32">> @@
  "float82float" :> <<{"Float8", "float32", "float64"}, "float64">>
TextConverters ==
  "char2text" :> <<{"int32"}, "string">> @@ "timestamp2text" :> <<{"Time"}, "string">>
InstantConverters == "timestamp2int64" :> <<{"Time"}, "int64">>
DocumentConverters ==
  "json2text" :> <<{"map"}, "string">> @@ "uuid2text" :> <<{"UUID", "[16]byte"}, "string">> @@
  "uint322int64" :> <<{"uint32"}, "int64">> @@ "macaddr2text" :> <<{"HardwareAddr"}, "string">> @@
  "addr2text" :> <<{"Prefix"}, "string">> @@ "interval2int64" :> <<{"Interval"}, "int64">> @@
  "numeric2float64" :> <<{"Numeric"}, "float64">> @@ "bytes2hexstring" :> <<{"[]byte"}, "string">> @@
  "ltree2string" :> <<{"Ltree"}, "string">> @@ "hstore2map" :> <<{"map", "Hstore"}, "map">>
GeometricConverters ==
  "box2string" :> <<{"Box"}, "string">> @@ "line2string" :> <<{"Line"}, "string">> @@
  "lseg2string" :> <<{"Lseg"}, "string">> @@ "polygon2string" :> <<{"Polygon"}, "string">> @@
  "path2string" :> <<{"Path"}, "string">> @@ "circle2string" :> <<{"Circle"}, "string">> @@
  "point2string" :> <<{"Point"}, "string">>
Converters ==
  PostGisConverters @@ NumberConverters @@ TextConverters @@ InstantConverters
    @@ DocumentConverters @@ GeometricConverters

(* Days since 1970, in a difference that saturates at 106751 days          *)
(* (time.Duration).                                                        *)
MaxDays == 106751
date2int32(x) ==
  IF ~Is(x, {"Date", "Time"}) THEN Error
  ELSE Go("int32", IF x.datum > MaxDays THEN MaxDays ELSE IF x.datum < -MaxDays THEN -MaxDays ELSE x.datum)

(* Without the fields below the hour. *)
time2text(x) == IF Is(x, {"pgtype.Time", "Timetz"}) THEN Text(x.datum) ELSE Error

(* The bits of x.datum.bytes, most significant first, as many as           *)
(* x.datum.len says.                                                       *)
Bit(byte, i) == (byte \div (2 ^ (7 - i))) % 2
bits2string(x) ==
  IF ~Is(x, {"Bits"}) THEN Error
  ELSE LET remaining(k) == x.datum.len - 8 * (k - 1)
           taken(k) == IF remaining(k) < 8 THEN remaining(k) ELSE 8
       IN Text(FlattenSeq([k \in DOMAIN x.datum.bytes |->
                             [i \in 1..taken(k) |-> Bit(x.datum.bytes[k], i - 1)]]))

(* The text of a bound; the bounds of an empty range are nil. *)
Bound(conv, x) ==
  IF conv = "intrange2string" THEN Text(x.datum)
  ELSE IF conv = "numrange2string"
    THEN IF Is(x, {"float64", "big.Int", "Numeric"}) THEN Text(x.datum) ELSE Error
  ELSE IF Is(x, {"Time"}) THEN Text(x.datum) ELSE Error

range2string(conv, x) ==
  IF ~Is(x, {"Range"}) THEN Error
  ELSE LET r == x.datum
           lower == IF r.lowerType # "unbounded" THEN Bound(conv, r.lower) ELSE Text(0)
           upper == IF r.upperType # "unbounded" THEN Bound(conv, r.upper) ELSE Text(0)
       IN IF Error \in {lower, upper} THEN Error
          ELSE Text(<<r.lowerType = "inclusive", lower.datum, upper.datum, r.upperType = "inclusive">>)

Converted(conv, x) ==
  IF conv = "date2int32" THEN date2int32(x)
  ELSE IF conv = "time2text" THEN time2text(x)
  ELSE IF conv = "bits2string" THEN bits2string(x)
  ELSE IF conv \in {"intrange2string", "numrange2string", "timestamprange2string"}
    THEN range2string(conv, x)
  ELSE IF Is(x, Converters[conv][1]) THEN Go(Converters[conv][2], x.datum)
  ELSE Error

(* Elements are converted one by one, and no converter accepts a nil. *)
ArrayConverted(conv, elements) ==
  LET out == [i \in DOMAIN elements |-> Converted(conv, elements[i])]
  IN IF \E i \in DOMAIN out : out[i] = Error THEN Error ELSE Go("slice", out)

-----------------------------------------------------------------------------
(* The registrations of coretypes.go: type :> <<schema type, converter>>.  *)
(* The array of a type has the element's converter, if there is one.       *)

NumberTypes ==
  "bool" :> <<"BOOLEAN", "none">> @@ "int2" :> <<"INT16", "none">> @@
  "int4" :> <<"INT32", "none">> @@ "int8" :> <<"INT64", "none">> @@
  "float4" :> <<"FLOAT32", "float42float">> @@ "float8" :> <<"FLOAT64", "float82float">>
TextTypes ==
  "bpchar" :> <<"STRING", "none">> @@ "char" :> <<"STRING", "char2text">> @@
  "varchar" :> <<"STRING", "none">> @@ "text" :> <<"STRING", "none">>

(* A faulty variant: a timestamp is emitted as text. *)
TimestampAsText ==
  "timestamp" :> <<"INT64", "timestamp2text">> @@
  "timestamptz" :> <<"STRING", "timestamp2text">> @@ "interval" :> <<"INT64", "interval2int64">>

TimestampTypes ==
  "timestamp" :> <<"INT64", "timestamp2int64">> @@
  "timestamptz" :> <<"STRING", "timestamp2text">> @@ "interval" :> <<"INT64", "interval2int64">>
DocumentTypes ==
  "bytea" :> <<"STRING", "bytes2hexstring">> @@ "json" :> <<"STRING", "json2text">> @@
  "jsonb" :> <<"STRING", "json2text">> @@ "uuid" :> <<"STRING", "uuid2text">> @@
  "name" :> <<"STRING", "none">>
SystemTypes ==
  "oid" :> <<"INT64", "uint322int64">> @@ "xid" :> <<"INT64", "uint322int64">> @@
  "cid" :> <<"INT64", "uint322int64">>
NetworkTypes ==
  "cidr" :> <<"STRING", "addr2text">> @@ "macaddr" :> <<"STRING", "macaddr2text">> @@
  "macaddr8" :> <<"STRING", "macaddr2text">> @@ "inet" :> <<"STRING", "addr2text">>
DateTypes ==
  "date" :> <<"INT32", "date2int32">> @@ "time" :> <<"STRING", "time2text">> @@
  "numeric" :> <<"FLOAT64", "numeric2float64">>
RangeTypes ==
  "int4range" :> <<"STRING", "intrange2string">> @@ "int8range" :> <<"STRING", "intrange2string">> @@
  "numrange" :> <<"STRING", "numrange2string">> @@
  "tsrange" :> <<"STRING", "timestamprange2string">> @@
  "tstzrange" :> <<"STRING", "timestamprange2string">> @@
  "daterange" :> <<"STRING", "timestamprange2string">>
BitTypes ==
  "bit" :> <<"STRING", "bits2string">> @@ "varbit" :> <<"STRING", "bits2string">> @@
  "timetz" :> <<"STRING", "time2text">> @@ "xml" :> <<"STRING", "none">>
GeometricTypes ==
  "point" :> <<"STRING", "point2string">> @@ "box" :> <<"STRING", "box2string">> @@
  "line" :> <<"STRING", "line2string">> @@ "polygon" :> <<"STRING", "polygon2string">> @@
  "circle" :> <<"STRING", "circle2string">> @@ "path" :> <<"STRING", "path2string">> @@
  "lseg" :> <<"STRING", "lseg2string">>
OptimizedTypes ==
  "geometry" :> <<"STRING", "postgis2struct">> @@ "geography" :> <<"STRING", "postgis2struct">> @@
  "ltree" :> <<"STRING", "ltree2string">> @@ "hstore" :> <<"MAP", "hstore2map">>

Registered ==
  NumberTypes @@ TextTypes @@ TimestampTypes @@ DocumentTypes @@ SystemTypes @@ NetworkTypes
    @@ DateTypes @@ RangeTypes @@ BitTypes @@ GeometricTypes @@ OptimizedTypes
ColumnTypes == DOMAIN Registered
SchemaType(t) == Registered[t][1]
Converter(t) == Registered[t][2]

(* The schema builder of geometry and geography announces a structure      *)
(* (schema.Geometry()) in place of the schema type.                        *)
AnnouncedType(t) == IF t \in {"geometry", "geography"} THEN "STRUCT" ELSE SchemaType(t)

(* convertColumnValues: null stays null, and without a converter a value   *)
(* is kept.                                                                *)
Emitted(t, x) ==
  IF x = Nil \/ Converter(t) = "none" THEN x
  ELSE Converted(Converter(t), x)

EmittedArray(t, elements) ==
  IF Converter(t) = "none" THEN Go("slice", elements)
  ELSE ArrayConverted(Converter(t), elements)

-----------------------------------------------------------------------------
(* The codecs of this repository.  PostgreSQL sends the local time of a    *)
(* timetz and its zone: in binary the hours west, in text the hours east.  *)

ScanTimetzBinary(local, west) == Go("Timetz", local + west)
ScanTimetzText(local, east) == Go("Timetz", local - east)

(* A path with the version of its encoding in front. *)
ScanLtreeBinary(src) ==
  IF Len(src) < 2 THEN Error
  ELSE IF src[1] # 1 THEN Error
  ELSE Go("Ltree", SubSeq(src, 2, Len(src)))
ScanLtreeText(src) == Go("Ltree", src)

ScanPostGisBinary(src) ==
  IF Len(src) < 2 THEN Error
  ELSE IF src[1] # 1 THEN Error
  ELSE Go("Geometry", src)
ScanPostGisText(src) == Go("Geometry", src)

(* Split at the delimiter of the type: an empty array has one empty element. *)
ScanEnhancedArray(elements) ==
  IF elements = <<>> \/ \E i \in DOMAIN elements : elements[i] = Nil
    THEN Error
    ELSE Go("slice", elements)

-----------------------------------------------------------------------------
(* The key of a snapshot, as the row decoder yields it.                    *)

boolMarshaller == {"bool"}
intMarshaller == {"int8", "int16", "int32", "int64"}
floatMarshaller == {"float32", "float64"}
stringMarshaller == {"string"}
timestampMarshaller == {"Time"}
intervalMarshaller == {"Duration"}
jsonMarshaller == {"map"}
uuidMarshaller == {"UUID"}
noMarshaller == {}                                                  \* nil: FIXME

marshallers ==
  "bool" :> boolMarshaller @@ "bit" :> boolMarshaller @@ "int2" :> intMarshaller @@
  "int4" :> intMarshaller @@ "int8" :> intMarshaller @@ "float4" :> floatMarshaller @@
  "float8" :> floatMarshaller @@ "char" :> stringMarshaller @@ "varchar" :> stringMarshaller @@
  "text" :> stringMarshaller @@ "timestamp" :> timestampMarshaller @@
  "timestamptz" :> timestampMarshaller @@ "interval" :> intervalMarshaller @@
  "json" :> jsonMarshaller @@ "jsonb" :> jsonMarshaller @@ "uuid" :> uuidMarshaller @@
  "point" :> noMarshaller @@ "numeric" :> noMarshaller

BinaryMarshall(t, x) ==
  IF t \notin DOMAIN marshallers THEN Error
  ELSE IF marshallers[t] = {} THEN Panics
  ELSE IF Is(x, marshallers[t]) THEN Go("data", x)
  ELSE Error

(* The Go type of what is read back is the one of the type's oid. *)
intUnmarshaller == "int2" :> "int16" @@ "int4" :> "int32" @@ "int8" :> "int64"
floatUnmarshaller == "float4" :> "float32" @@ "float8" :> "float64"
unmarshallers ==
  intUnmarshaller @@ floatUnmarshaller @@ "bool" :> "bool" @@ "bit" :> "bool" @@
  "char" :> "string" @@ "varchar" :> "string" @@ "text" :> "string" @@
  "timestamp" :> "Time" @@ "timestamptz" :> "Time" @@ "interval" :> "Duration" @@
  "json" :> "map" @@ "jsonb" :> "map" @@ "uuid" :> "UUID"

BinaryUnmarshall(t, data) == Go(unmarshallers[t], data.datum.datum)

(* "%f" keeps six decimals: n is in units of a tenth of the sixth. *)
Rounded(n) == ((n + 5) \div 10) * 10

Backslash == "\\"
Apostrophe == "'"

(* A faulty variant: backslashes are escaped, too. *)
EscapesBackslashes(val) ==
  FlattenSeq([i \in DOMAIN val |-> IF val[i] \in {Backslash, Apostrophe} THEN <<Backslash, val[i]>> ELSE <<val[i]>>])

(* A backslash before every apostrophe, unless it has one already. *)
sanitizeString(val) ==
  FlattenSeq([i \in DOMAIN val |->
    IF val[i] = Apostrophe /\ (i = 1 \/ val[i - 1] # Backslash) THEN <<Backslash, Apostrophe>> ELSE <<val[i]>>])

(* How PostgreSQL reads the text between the quotes.  A backslash stands   *)
(* for itself, and an apostrophe after one ends the literal too early.     *)
ReadLiteral(text) == IF Apostrophe \in ToSet(text) THEN Error ELSE Go("literal", text)

(* The value as PostgreSQL reads it in the WHERE clause.  A nil panics, too. *)
param2value(t, x) ==
  LET s == SchemaType(t)
  IN IF s \in {"FLOAT32", "FLOAT64"}
       THEN IF Is(x, {"float32", "float64"}) THEN Go("literal", Rounded(x.datum)) ELSE Panics
     ELSE IF s \in {"INT16", "INT32", "INT64"}
       THEN IF Is(x, {"int16", "int32", "int64"}) THEN Go("literal", x.datum) ELSE Panics
     ELSE IF s = "BOOLEAN" THEN IF Is(x, {"bool"}) THEN Go("literal", x.datum) ELSE Panics
     ELSE IF s = "STRING"
       THEN IF Is(x, {"string"}) THEN ReadLiteral(sanitizeString(x.datum))
            ELSE IF Is(x, {"Time"}) THEN Go("literal", x.datum) ELSE Panics
     ELSE Go("literal", 0)                           \* the zero value of a map

-----------------------------------------------------------------------------
(* What PostgreSQL holds, as the codecs of pgx decode it (external); the   *)
(* types with a codec of this repository are on the wire as they are sent. *)

RangeValue(lt, l, u, ut) == Go("Range", [lowerType |-> lt, lower |-> l, upper |-> u, upperType |-> ut])
Ranges(l, u) == {RangeValue("inclusive", l, u, "exclusive"), RangeValue("unbounded", Nil, u, "inclusive"),
                 RangeValue("exclusive", l, Nil, "unbounded"), RangeValue("empty", Nil, Nil, "empty")}
Numbers(go) == {Go(go, n) : n \in 0..12}
Strings ==
  {Text(x) : x \in {<<>>, <<"a">>, <<"a", Backslash>>, <<Apostrophe, "a">>, <<Backslash, Apostrophe>>,
                    <<Apostrophe, Apostrophe>>}}
GoTypes ==
  "bool" :> "bool" @@ "int2" :> "int16" @@ "int4" :> "int32" @@ "int8" :> "int64" @@
  "float4" :> "float32" @@ "float8" :> "float64" @@ "bpchar" :> "string" @@ "char" :> "int32" @@
  "varchar" :> "string" @@ "text" :> "string" @@ "interval" :> "Interval" @@
  "bytea" :> "[]byte" @@ "uuid" :> "[16]byte" @@ "name" :> "string" @@ "oid" :> "uint32" @@
  "xid" :> "uint32" @@ "cid" :> "uint32" @@ "cidr" :> "Prefix" @@ "macaddr" :> "HardwareAddr" @@
  "macaddr8" :> "HardwareAddr" @@ "inet" :> "Prefix" @@ "time" :> "pgtype.Time" @@
  "numeric" :> "Numeric" @@ "xml" :> "string" @@ "point" :> "Point" @@ "box" :> "Box" @@
  "line" :> "Line" @@ "polygon" :> "Polygon" @@ "circle" :> "Circle" @@ "path" :> "Path" @@
  "lseg" :> "Lseg" @@ "hstore" :> "map"

Decoded(t) ==
  {Nil} \cup
  IF t \in DOMAIN GoTypes THEN IF GoTypes[t] = "string" THEN Strings ELSE Numbers(GoTypes[t])
  ELSE IF t \in {"timestamp", "timestamptz"} THEN Numbers("Time") \cup {Go("InfinityModifier", 1)}
  ELSE IF t = "date"
    THEN {Go("Time", n) : n \in {-200000, -1, 0, 19358, 106751, 106752}} \cup {Go("InfinityModifier", 1)}
  ELSE IF t \in {"json", "jsonb"} THEN Strings \cup {Go(g, 0) : g \in {"map", "[]any", "float64", "bool"}}
  ELSE IF t \in {"int4range", "int8range"} THEN Ranges(Go("int64", 1), Go("int64", 2))
  ELSE IF t = "numrange" THEN Ranges(Go("Numeric", 1), Go("Numeric", 2))
  ELSE IF t \in {"tsrange", "tstzrange", "daterange"} THEN Ranges(Go("Time", 1), Go("Time", 2))
  ELSE IF t \in {"bit", "varbit"}
    THEN {Go("Bits", [len |-> n, bytes |-> IF n > 8 THEN <<165, 64>> ELSE <<165>>]) : n \in 1..16}
  ELSE IF t = "timetz"
    THEN {ScanTimetzBinary(h, z) : h \in 0..23, z \in -14..12}
         \cup {ScanTimetzText(h, -z) : h \in 0..23, z \in -14..12}
  ELSE IF t = "ltree" THEN {ScanLtreeBinary(<<1, 7, 7>>), ScanLtreeText(<<7, 7>>)}
  ELSE {ScanPostGisBinary(<<1, 7>>), ScanPostGisText(<<1, 7>>)}

Init ==
  /\ type \in ColumnTypes
  /\ original \in Decoded(type) /\ value = original
  /\ stage = "decoded"

Becomes(x, to) ==
  /\ value' = x
  /\ stage' = IF Is(x, {"error", "panic"}) THEN "failed" ELSE to
  /\ UNCHANGED <<type, original>>

EmitValue == stage = "decoded" /\ Becomes(Emitted(type, value), "emitted")

EmitArray ==
  /\ stage = "decoded"
  /\ \E other \in Decoded(type) :
       LET wire == <<value, other>>
       IN Becomes(IF type \in {"box", "geometry", "geography"}
                    THEN LET scanned == ScanEnhancedArray(wire)
                         IN IF scanned = Error THEN Error ELSE EmittedArray(type, scanned.datum)
                    ELSE EmittedArray(type, wire), "emitted")

StoreWatermark == stage = "decoded" /\ Becomes(BinaryMarshall(type, value), "stored")
LoadWatermark == stage = "stored" /\ Becomes(BinaryUnmarshall(type, value), "loaded")
AskNextBatch == stage \in {"decoded", "loaded"} /\ value # Nil /\ Becomes(param2value(type, value), "asked")

Next == EmitValue \/ EmitArray \/ StoreWatermark \/ LoadWatermark \/ AskNextBatch
Spec == Init /\ [][Next]_vars

-----------------------------------------------------------------------------
(* The Go types that are encoded as a schema type says. *)
Represents ==
  "BOOLEAN" :> {"bool"} @@ "INT16" :> {"int16"} @@ "INT32" :> {"int32"} @@ "INT64" :> {"int64"} @@
  "FLOAT32" :> {"float32"} @@ "FLOAT64" :> {"float64"} @@ "STRING" :> {"string"} @@
  "STRUCT" :> {"map"} @@ "MAP" :> {"map"}

Fits(x) == x = Nil \/ x.go \in Represents[AnnouncedType(type)]

(***************************************************************************)
(* An event carries what its schema announces: whatever a codec decodes a  *)
(* value of a type into, and whatever the elements of an array are, what   *)
(* is emitted has the schema type of the type, or nothing is emitted; and  *)
(* the text of a bit string has exactly the bits of the value              *)
(* (convertColumnValues, coretypes.go, builtin_converters.go).             *)
(***************************************************************************)
PayloadMatchesSchema ==
  stage = "emitted" =>
    /\ IF Is(value, {"slice"}) THEN \A i \in DOMAIN value.datum : Fits(value.datum[i]) ELSE Fits(value)
    /\ (Is(original, {"Bits"}) /\ Is(value, {"string"})) =>
         value.datum = [i \in 1..original.datum.len |->
                        (original.datum.bytes[((i - 1) \div 8) + 1] \div (2 ^ (7 - ((i - 1) % 8)))) % 2]

(***************************************************************************)
(* A watermark outlives a restart: a key that can be stored is loaded as   *)
(* it was, with its Go type, and where the next batch is asked for at all, *)
(* it is asked for from that very key.  The exception are floating point   *)
(* keys with more decimals than "%f" writes.  A text with an apostrophe    *)
(* can be stored but not asked for: the query is refused (BinaryMarshall,  *)
(* BinaryUnmarshall, param2value, sanitizeString).                         *)
(***************************************************************************)
KeyKept ==
  /\ stage = "loaded" => value = original
  /\ (stage = "asked" /\ SchemaType(type) \in {"FLOAT32", "FLOAT64"} /\ original.datum % 10 = 0) =>
       value.datum = original.datum
  /\ (stage = "asked" /\ SchemaType(type) \in {"BOOLEAN", "INT16", "INT32", "INT64", "STRING"}) =>
       value.datum = original.datum

=============================================================================
