----------------------------- MODULE ObjectData ------------------------------
(***************************************************************************)
(* The binary output and input every serializer writes to and reads from   *)
(* (object_data.go, buffer_util.go, big_int.go), and the builtin           *)
(* serializers (default_serializer.go).                                    *)
(*                                                                         *)
(* A buffer is a function from positions to cells.  A cell is what one     *)
(* write put there: its width in bytes, its value and the byte order.  A   *)
(* write removes the cells it overlaps.  A read finds a value only when    *)
(* exactly such a cell starts at its position; bytes nobody wrote are      *)
(* zeros; everything else is Broken, which also stands for a panic.        *)
(* Positions, widths and the numbers that are narrowed on the way are      *)
(* those of the source.  A text is a record of its length in bytes and an  *)
(* identity.                                                               *)
(***************************************************************************)
EXTENDS Integers, Sequences, FiniteSets, SequencesExt

CONSTANTS Nil, Broken

NilArrayLength == -1
BitsInAByte    == 8
EmptyText      == [bytes |-> 0, text |-> "empty"]

Plus(position, n) == IF position = Broken \/ n = Broken THEN Broken ELSE position + n

---------------------------------------------------------------------------
(***************************************************************************)
(* Output.                                                                 *)
(***************************************************************************)
Order(bigEndian) == IF bigEndian THEN "big" ELSE "little"

\* service is the state of the serialization service, which serializers
\* change while they write and read; a panic ends the serialization
NewObjectDataOutput(service, bigEndian) ==
    [cells |-> <<>>, position |-> 0, bo |-> Order(bigEndian), service |-> service, failed |-> FALSE]
Panic(o) == [o EXCEPT !.failed = TRUE]

Overlap(cells, q, p, w) == q < p + w /\ p < q + cells[q].w

\* bo is "any" where it makes no difference: single bytes and texts
StoreAs(o, p, w, v, bo) ==
    [o EXCEPT !.cells = [q \in {q \in DOMAIN @ : ~Overlap(@, q, p, w)} |-> @[q]]
                        @@ (p :> [w |-> w, v |-> v, bo |-> IF w = 1 THEN "any" ELSE bo])]
Store(o, p, w, v) == StoreAs(o, p, w, v, o.bo)

WriteZeroBytes(o, n) == [o EXCEPT !.position = @ + n]
WriteCell(o, w, v)   == [Store(o, o.position, w, v) EXCEPT !.position = @ + w]
WriteRaw(o, w, v)    ==
    IF w = 0 THEN o ELSE [StoreAs(o, o.position, w, v, "any") EXCEPT !.position = @ + w]

WriteByte(o, v)       == WriteCell(o, 1, v % 256)
WriteSignedByte(o, v) == WriteCell(o, 1, v % 256)
WriteBool(o, v)       == WriteCell(o, 1, IF v THEN 1 ELSE 0)
WriteUInt16(o, v)     == WriteCell(o, 2, v % 65536)
WriteInt16(o, v)      == WriteCell(o, 2, v % 65536)
WriteInt32(o, v)      == WriteCell(o, 4, v)
WriteInt64(o, v)      == WriteCell(o, 8, v)
WriteFloat32(o, v)    == WriteCell(o, 4, v)
WriteFloat64(o, v)    == WriteCell(o, 8, v)
WriteInt32BigEndian(o, v) == [StoreAs(o, o.position, 4, v, "big") EXCEPT !.position = @ + 4]
WriteString(o, v)      == WriteRaw(WriteInt32(o, v.bytes), v.bytes, v)
\* the name of a portable's field: a byte for every rune, no length
WriteStringBytes(o, v) == WriteRaw(o, v.bytes, v)

WriteArray(o, v, Write(_, _)) ==
    IF v = Nil THEN WriteInt32(o, NilArrayLength) ELSE FoldLeft(Write, WriteInt32(o, Len(v)), v)

WriteByteArray(o, v) ==
    IF v = Nil THEN WriteInt32(o, NilArrayLength) ELSE WriteRaw(WriteInt32(o, Len(v)), Len(v), v)
WriteInt8Array(o, v)    == WriteArray(o, v, WriteSignedByte)
WriteBoolArray(o, v)    == WriteArray(o, v, WriteBool)
WriteUInt16Array(o, v)  == WriteArray(o, v, WriteUInt16)
WriteInt16Array(o, v)   == WriteArray(o, v, WriteInt16)
WriteInt32Array(o, v)   == WriteArray(o, v, WriteInt32)
WriteInt64Array(o, v)   == WriteArray(o, v, WriteInt64)
WriteFloat32Array(o, v) == WriteArray(o, v, WriteFloat32)
WriteFloat64Array(o, v) == WriteArray(o, v, WriteFloat64)
WriteStringArray(o, v)  == WriteArray(o, v, WriteString)

\* PositionalObjectDataOutput
PWriteByte(o, p, v)    == Store(o, p, 1, v % 256)
PWriteInt16(o, p, v)   == Store(o, p, 2, v % 65536)
PWriteInt32(o, p, v)   == Store(o, p, 4, v)
PWriteInt64(o, p, v)   == Store(o, p, 8, v)
PWriteFloat32(o, p, v) == Store(o, p, 4, v)
PWriteFloat64(o, p, v) == Store(o, p, 8, v)

BitOf(byte, n) == (byte \div 2 ^ n) % 2 = 1
PWriteBoolBit(o, p, n, v) ==
    LET b == IF p \in DOMAIN o.cells THEN o.cells[p].v ELSE 0
    IN  Store(o, p, 1, IF v = BitOf(b, n) THEN b ELSE IF v THEN b + 2 ^ n ELSE b - 2 ^ n)

---------------------------------------------------------------------------
(***************************************************************************)
(* Input.  A read that advances returns its value and the input after it.  *)
(***************************************************************************)
NewObjectDataInput(o, offset, service, bigEndian) ==
    [cells |-> o.cells, length |-> o.position, position |-> offset, bo |-> Order(bigEndian), service |-> service]

Result(v, i)      == [v |-> v, in |-> i]
SetPosition(i, p) ==
    [i EXCEPT !.position = IF p = Broken THEN Broken ELSE IF p \in 0..i.length THEN p ELSE Broken]

\* AssertAvailable, and the bounds of a slice
Load(i, p, w, bo) ==
    IF p = Broken THEN Broken
    ELSE IF p < 0 \/ p + w > i.length THEN Broken
    ELSE IF p \in DOMAIN i.cells
         THEN IF i.cells[p].w = w /\ i.cells[p].bo \in {bo, "any"} THEN i.cells[p].v ELSE Broken
    ELSE IF \E q \in DOMAIN i.cells : Overlap(i.cells, q, p, w) THEN Broken ELSE 0

Signed(v, w)  == IF v = Broken THEN Broken ELSE IF v >= 2 ^ (8 * w - 1) THEN v - 2 ^ (8 * w) ELSE v
Truth(v)      == IF v = Broken THEN Broken ELSE v = 1
Advance(i, w) == [i EXCEPT !.position = Plus(@, w)]
Here(i, w)    == Load(i, i.position, w, i.bo)

ReadByteAtPosition(i, p)       == Load(i, p, 1, i.bo)
ReadSignedByteAtPosition(i, p) == Signed(Load(i, p, 1, i.bo), 1)
ReadBoolAtPosition(i, p)       == Truth(Load(i, p, 1, i.bo))
ReadUInt16AtPosition(i, p)     == Load(i, p, 2, i.bo)
ReadInt16AtPosition(i, p)      == Signed(Load(i, p, 2, i.bo), 2)
ReadInt32AtPosition(i, p)      == Load(i, p, 4, i.bo)
ReadInt64AtPosition(i, p)      == Load(i, p, 8, i.bo)
ReadFloat32AtPosition(i, p)    == Load(i, p, 4, i.bo)
ReadFloat64AtPosition(i, p)    == Load(i, p, 8, i.bo)

ReadByte(i)       == Result(Here(i, 1), Advance(i, 1))
ReadSignedByte(i) == Result(Signed(Here(i, 1), 1), Advance(i, 1))
ReadBool(i)       == Result(Truth(Here(i, 1)), Advance(i, 1))
ReadUInt16(i)     == Result(Here(i, 2), Advance(i, 2))
ReadInt16(i)      == Result(Signed(Here(i, 2), 2), Advance(i, 2))
ReadInt32(i)      == Result(Here(i, 4), Advance(i, 4))
ReadInt64(i)      == Result(Here(i, 8), Advance(i, 8))
ReadFloat32(i)    == Result(Here(i, 4), Advance(i, 4))
ReadFloat64(i)    == Result(Here(i, 8), Advance(i, 8))

\* what was written as one piece; none is the value of an empty piece
ReadPiece(i, none) ==
    LET Piece(n) == IF n.v = Broken THEN n
                    ELSE IF n.v = 0 THEN Result(none, n.in) ELSE Result(Here(n.in, n.v), Advance(n.in, n.v))
    IN  Piece(ReadInt32(i))

ReadString(i) == LET n == Here(i, 4) IN IF n = NilArrayLength THEN Result(EmptyText, Advance(i, 4))
                                        ELSE ReadPiece(i, EmptyText)
ReadStringAtPosition(i, p) == ReadString(SetPosition(i, p)).v
ReadByteArray(i) == LET n == Here(i, 4) IN IF n = NilArrayLength THEN Result(Nil, Advance(i, 4))
                                           ELSE ReadPiece(i, <<>>)

\* one more value behind those of acc
Behind(acc, r) == Result(Append(acc.v, r.v), r.in)

ReadMany(i, n, Read(_)) ==
    FoldLeft(LAMBDA acc, k : Behind(acc, Read(acc.in)), Result(<<>>, i), [k \in 1..n |-> k])

ReadArray(i, Read(_)) ==
    LET Array(n) == IF n.v = NilArrayLength THEN Result(Nil, n.in)
                    ELSE IF n.v = Broken THEN n ELSE ReadMany(n.in, n.v, Read)
    IN  Array(ReadInt32(i))

\* the calls of the read methods of these types, one after another
ReadFields(i, types) ==
    FoldLeft(LAMBDA acc, t :
                Behind(acc, CASE t = "byte"  -> ReadByte(acc.in)
                              [] t = "bool"  -> ReadBool(acc.in)
                              [] t = "int16" -> ReadInt16(acc.in)
                              [] t = "int32" -> ReadInt32(acc.in)
                              [] t = "int64" -> ReadInt64(acc.in)),
             Result(<<>>, i), types)

ReadInt8Array(i)    == ReadArray(i, ReadSignedByte)
ReadBoolArray(i)    == ReadArray(i, ReadBool)
ReadUInt16Array(i)  == ReadArray(i, ReadUInt16)
ReadInt16Array(i)   == ReadArray(i, ReadInt16)
ReadInt32Array(i)   == ReadArray(i, ReadInt32)
ReadInt64Array(i)   == ReadArray(i, ReadInt64)
ReadFloat32Array(i) == ReadArray(i, ReadFloat32)
ReadFloat64Array(i) == ReadArray(i, ReadFloat64)
ReadStringArray(i)  == ReadArray(i, ReadString)

ReadByteArrayAtPosition(i, p)    == ReadByteArray(SetPosition(i, p)).v
ReadBoolArrayAtPosition(i, p)    == ReadBoolArray(SetPosition(i, p)).v
ReadUInt16ArrayAtPosition(i, p)  == ReadUInt16Array(SetPosition(i, p)).v
ReadInt16ArrayAtPosition(i, p)   == ReadInt16Array(SetPosition(i, p)).v
ReadInt32ArrayAtPosition(i, p)   == ReadInt32Array(SetPosition(i, p)).v
ReadInt64ArrayAtPosition(i, p)   == ReadInt64Array(SetPosition(i, p)).v
ReadFloat32ArrayAtPosition(i, p) == ReadFloat32Array(SetPosition(i, p)).v
ReadFloat64ArrayAtPosition(i, p) == ReadFloat64Array(SetPosition(i, p)).v
ReadStringArrayAtPosition(i, p)  == ReadStringArray(SetPosition(i, p)).v

---------------------------------------------------------------------------
(***************************************************************************)
(* Integers of any size, as java.math.BigInteger stores them: the shortest *)
(* two's complement, the most significant byte first.                      *)
(***************************************************************************)
Magnitude(b) == IF b < 0 THEN -b ELSE b
bitsLen(m)   == CHOOSE n \in 0..31 : (n = 31 \/ m < 2 ^ n) /\ (n = 0 \/ m >= 2 ^ (n - 1))
bitLength(b) ==
    LET n == bitsLen(Magnitude(b)) IN IF b < 0 /\ Magnitude(b) = 2 ^ (n - 1) THEN n - 1 ELSE n
getByte(b, n) == (b \div 256 ^ n) % 256
BigIntBytes(b) == LET n == bitLength(b) \div 8 + 1 IN [k \in 1..n |-> getByte(b, n - k)]

Unsigned(bytes) == FoldLeft(LAMBDA acc, x : acc * 256 + x, 0, bytes)
stripLeadingZeroBytes(bytes) == Unsigned(bytes)
\* one's complement, and one more
makePositive(bytes) == Unsigned([n \in DOMAIN bytes |-> 255 - bytes[n]]) + 1
NewBigIntFromByteArray(bytes) ==
    IF bytes \in {Nil, Broken} THEN Broken
    ELSE IF bytes = <<>> THEN Broken
    ELSE IF bytes[1] >= 128 THEN -makePositive(bytes) ELSE stripLeadingZeroBytes(bytes)

WriteBigInt(o, b)  == WriteByteArray(o, BigIntBytes(IF b = Nil THEN 0 ELSE b))
ReadBigInt(i)      == LET Number(r) == Result(NewBigIntFromByteArray(r.v), r.in) IN Number(ReadByteArray(i))

\* a decimal is an unscaled value and a scale
WriteDecimal(o, d) == WriteInt32(WriteBigInt(o, d.unscaled), d.scale)
ReadDecimal(i) ==
    LET Scaled(u) == Result([unscaled |-> u.v, scale |-> ReadInt32(u.in).v], Advance(u.in, 4)) IN Scaled(ReadBigInt(i))

---------------------------------------------------------------------------
(***************************************************************************)
(* Dates and times: <<year, month, day>>, <<hour, minute, second, nanos>>  *)
(* and the offset of the zone in seconds.                                  *)
(***************************************************************************)
NoDate   == <<0, 1, 1>>
NoClock  == <<0, 0, 0, 0>>
Local    == "local"
Moment(date, clock, zone) == [date |-> date, clock |-> clock, zone |-> zone]

WriteDate(o, t) == WriteByte(WriteByte(WriteInt32(o, t.date[1]), t.date[2]), t.date[3])
WriteTime(o, t) ==
    WriteInt32(WriteByte(WriteByte(WriteByte(o, t.clock[1]), t.clock[2]), t.clock[3]), t.clock[4])
WriteTimestamp(o, t)             == WriteTime(WriteDate(o, t), t)
WriteTimestampWithTimezone(o, t) == WriteInt32(WriteTimestamp(o, t), t.zone)

readDate == <<"int32", "byte", "byte">>
readTime == <<"byte", "byte", "byte", "int32">>

ADate(r)      == Result(Moment(r.v, NoClock, Local), r.in)
ATime(r)      == Result(Moment(NoDate, r.v, Local), r.in)
ATimestamp(r) == Result(Moment(SubSeq(r.v, 1, 3), SubSeq(r.v, 4, 7), IF Len(r.v) = 8 THEN r.v[8] ELSE Local), r.in)

ReadDate(i)      == ADate(ReadFields(i, readDate))
ReadTime(i)      == ATime(ReadFields(i, readTime))
ReadTimestamp(i) == ATimestamp(ReadFields(i, readDate \o readTime))
ReadTimestampWithTimezone(i) == ATimestamp(ReadFields(i, readDate \o readTime \o <<"int32">>))
---------------------------------------------------------------------------
(***************************************************************************)
(* The serializers the client has by itself (default_serializer.go).  An   *)
(* object is its Go type and its value; a builtin serializer is called by  *)
(* the Go type it is for, or by the Java type when no Go type leads to it. *)
(* A value of time.Time is a number of microseconds.                       *)
(***************************************************************************)
CONSTANT IdentifiedFactories  \* factory ID -> class ID -> number of fields

Obj(go, v)     == [go |-> go, v |-> v]
NilObject      == Obj("nil", Nil)
Object(r, go)  == Result(Obj(go, r.v), r.in)

TypePortable         == -1
TypeDataSerializable == -2
TypeCompact          == -55

TypeOf ==
    [nil |-> 0, uint8 |-> -3, int8 |-> -3, bool |-> -4, uint16 |-> -5, int16 |-> -6, int32 |-> -7, int |-> -8,
     int64 |-> -8, float32 |-> -9, float64 |-> -10, string |-> -11]
    @@ ("[]uint8" :> -12) @@ ("[]bool" :> -13) @@ ("[]uint16" :> -14) @@ ("[]int16" :> -15) @@ ("[]int32" :> -16)
    @@ ("[]int64" :> -17) @@ ("[]float32" :> -18) @@ ("[]float64" :> -19) @@ ("[]string" :> -20)
    @@ [UUID |-> -21, JavaClass |-> -24, Time |-> -25, BigInt |-> -26, Decimal |-> -27, JavaArray |-> -28]
    @@ ("[]interface{}" :> -29)
    @@ [JavaLinkedList |-> -30, LocalDate |-> -51, LocalTime |-> -52, LocalDateTime |-> -53,
        OffsetDateTime |-> -54, JSON |-> -130, gob |-> -140]

\* which serializer reads a type: not the ones of int and int8
BuiltinDeserializers ==
    [id \in {TypeOf[s] : s \in DOMAIN TypeOf} |->
        CHOOSE s \in DOMAIN TypeOf \ {"int", "int8"} : TypeOf[s] = id]

\* the Go types of the switch; the Java types and gob are not among them
lookupBuiltinSerializer(obj) ==
    IF obj.go = "[]int" THEN "[]int64"
    ELSE IF obj.go \in DOMAIN TypeOf \ {"JavaClass", "JavaArray", "JavaLinkedList", "gob"} THEN obj.go ELSE Nil

---------------------------------------------------------------------------
WriteNumber(s, o, v) ==
    CASE s \in {"uint8", "int8"} -> WriteByte(o, v)
      [] s = "uint16"  -> WriteUInt16(o, v)
      [] s = "int16"   -> WriteInt16(o, v)
      [] s = "int32"   -> WriteInt32(o, v)
      [] s \in {"int", "int64"} -> WriteInt64(o, v)
      [] s = "float32" -> WriteFloat32(o, v)
      [] s = "float64" -> WriteFloat64(o, v)
      [] s = "bool"    -> WriteBool(o, v)

ReadNumber(s, i) ==
    CASE s = "uint8"   -> ReadByte(i)
      [] s = "uint16"  -> ReadUInt16(i)
      [] s = "int16"   -> ReadInt16(i)
      [] s = "int32"   -> ReadInt32(i)
      [] s = "int64"   -> ReadInt64(i)
      [] s = "float32" -> ReadFloat32(i)
      [] s = "float64" -> ReadFloat64(i)
      [] s = "bool"    -> ReadBool(i)

WriteNumbers(s, o, v) ==
    CASE s = "[]uint8"   -> WriteByteArray(o, v)
      [] s = "[]bool"    -> WriteBoolArray(o, v)
      [] s = "[]uint16"  -> WriteUInt16Array(o, v)
      [] s = "[]int16"   -> WriteInt16Array(o, v)
      [] s = "[]int32"   -> WriteInt32Array(o, v)
      [] s = "[]int64"   -> WriteInt64Array(o, v)
      [] s = "[]float32" -> WriteFloat32Array(o, v)
      [] s = "[]float64" -> WriteFloat64Array(o, v)
      [] s = "[]string"  -> WriteStringArray(o, v)

ReadNumbers(s, i) ==
    CASE s = "[]uint8"   -> ReadByteArray(i)
      [] s = "[]bool"    -> ReadBoolArray(i)
      [] s = "[]uint16"  -> ReadUInt16Array(i)
      [] s = "[]int16"   -> ReadInt16Array(i)
      [] s = "[]int32"   -> ReadInt32Array(i)
      [] s = "[]int64"   -> ReadInt64Array(i)
      [] s = "[]float32" -> ReadFloat32Array(i)
      [] s = "[]float64" -> ReadFloat64Array(i)
      [] s = "[]string"  -> ReadStringArray(i)

\* division of Go: towards zero
Quotient(a, b) == IF a < 0 THEN -((-a) \div b) ELSE a \div b
WriteJavaDate(o, t) == WriteInt64(o, Quotient(t, 1000))
ReadJavaDate(i) ==
    LET Micros(r) == Result(IF r.v = Broken THEN Broken ELSE r.v * 1000, r.in) IN Micros(ReadInt64(i))

WriteUUID(o, u) == WriteInt64(WriteInt64(o, u[1]), u[2])
ReadUUID(i) == ReadFields(i, <<"int64", "int64">>)

\* the bytes the gob library makes of an object stand for the object
WriteGob(o, obj) == WriteRaw(WriteInt32(o, obj.v.bytes), obj.v.bytes, obj)
ReadGob(i)       == ReadPiece(i, Broken)

---------------------------------------------------------------------------
(***************************************************************************)
(* Serializers that call the service for what is inside.                   *)
(***************************************************************************)
WriteList(o, v, WriteObject(_, _)) ==
    IF v = Nil THEN WriteInt32(o, 0) ELSE FoldLeft(WriteObject, WriteInt32(o, Len(v)), v)
\* JavaLinkedList, JavaArray and JavaArrayList
ReadList(i, ReadObject(_)) ==
    LET Elements(n) == IF n.v = Broken THEN n
                       ELSE IF n.v < 0 THEN Result(Broken, n.in) ELSE ReadMany(n.in, n.v, ReadObject)
    IN  Elements(ReadInt32(i))

\* the user's WriteData and ReadData write and read the fields as objects
IdentifiedWrite(o, obj, WriteObject(_, _)) ==
    FoldLeft(WriteObject, WriteInt32(WriteInt32(WriteBool(o, TRUE), obj.v.factory), obj.v.class), obj.v.fields)
IdentifiedRead(i, ReadObject(_)) ==
    LET Known(f, c)   == f \in DOMAIN IdentifiedFactories /\ c \in DOMAIN IdentifiedFactories[f]
        Made(f, c, r) == Result(Obj("identified", [factory |-> f, class |-> c, fields |-> r.v]), r.in)
        \* header: whether it is identified, the factory and the class
        Instance(header, f, c) ==
            IF header.v[1] # TRUE \/ ~Known(f, c) THEN Result(Broken, header.in)
            ELSE Made(f, c, ReadMany(header.in, IdentifiedFactories[f][c], ReadObject))
        Body(header)  == Instance(header, header.v[2], header.v[3])
    IN  Body(ReadFields(i, <<"bool", "int32", "int32">>))

---------------------------------------------------------------------------
WriteTemporal(s, o, t) ==
    CASE s = "LocalDate"      -> WriteDate(o, t)
      [] s = "LocalTime"      -> WriteTime(o, t)
      [] s = "LocalDateTime"  -> WriteTimestamp(o, t)
      [] s = "OffsetDateTime" -> WriteTimestampWithTimezone(o, t)

ReadTemporal(s, i) ==
    CASE s = "LocalDate"      -> ReadDate(i)
      [] s = "LocalTime"      -> ReadTime(i)
      [] s = "LocalDateTime"  -> ReadTimestamp(i)
      [] s = "OffsetDateTime" -> ReadTimestampWithTimezone(i)

\* strings, JSON values and the types of java.math and java.util
WriteSimple(s, o, v) ==
    CASE s \in {"string", "JSON"} -> WriteString(o, v)
      [] s = "UUID"    -> WriteUUID(o, v)
      [] s = "Time"    -> WriteJavaDate(o, v)
      [] s = "BigInt"  -> WriteBigInt(o, v)
      [] s = "Decimal" -> WriteDecimal(o, v)

ReadSimple(s, i) ==
    CASE s \in {"string", "JSON", "JavaClass"} -> ReadString(i)
      [] s = "UUID"    -> ReadUUID(i)
      [] s = "Time"    -> ReadJavaDate(i)
      [] s = "BigInt"  -> ReadBigInt(i)
      [] s = "Decimal" -> ReadDecimal(i)

NumberTypes   == {"uint8", "int8", "uint16", "int16", "int32", "int", "int64", "float32", "float64", "bool"}
TemporalTypes == {"LocalDate", "LocalTime", "LocalDateTime", "OffsetDateTime"}
SimpleTypes   == {"string", "JSON", "JavaClass", "UUID", "Time", "BigInt", "Decimal"}

\* Write and Read of a serializer; the Java types that are only read write
\* nothing
BuiltinWrite(s, o, obj, WriteObject(_, _)) ==
    CASE s \in {"nil", "JavaClass", "JavaArray", "JavaLinkedList"} -> o
      [] s \in NumberTypes     -> WriteNumber(s, o, obj.v)
      [] s \in SimpleTypes \ {"JavaClass"} -> WriteSimple(s, o, obj.v)
      [] s \in TemporalTypes   -> WriteTemporal(s, o, obj.v)
      [] s = "gob"             -> WriteGob(o, obj)
      [] s = "[]interface{}"   -> WriteList(o, obj.v, WriteObject)
      \* a []int is copied to a []int64, which is never nil
      [] OTHER -> WriteNumbers(s, o, IF obj.go = "[]int" /\ obj.v = Nil THEN <<>> ELSE obj.v)

BuiltinRead(s, i, ReadObject(_)) ==
    CASE s = "nil"            -> Result(NilObject, i)
      [] s \in NumberTypes    -> Object(ReadNumber(s, i), s)
      [] s \in SimpleTypes    -> Object(ReadSimple(s, i), IF s = "JavaClass" THEN "string" ELSE s)
      [] s \in TemporalTypes  -> Object(ReadTemporal(s, i), s)
      [] s = "gob"            -> ReadGob(i)
      [] s \in {"JavaArray", "JavaLinkedList", "[]interface{}"} -> Object(ReadList(i, ReadObject), "[]interface{}")
      [] OTHER                -> Object(ReadNumbers(s, i), s)
=============================================================================
