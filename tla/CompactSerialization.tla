-------------------------- MODULE CompactSerialization --------------------------
(***************************************************************************)
(* Compact serialization: schemas, the writer and the reader, and the      *)
(* schema service.  The kind of a field is a pair of its form and its base *)
(* type; field names are numbers, ordered as the names are.  A type has    *)
(* the serializer the user wrote: the fields it writes, in its order, and  *)
(* the fields it reads.  The fingerprint of a schema is taken to be the    *)
(* schema's own type name and kinds: two schemas never share one.          *)
(* service.client is the client and service.schemas the schemas it has     *)
(* learned beside those of its configuration.                              *)
(***************************************************************************)
EXTENDS ObjectData

CONSTANTS
    Clients,         \* the clients
    CompactTypes,    \* Go type -> [typeName, writes, reads]
    CompactTypesOf,  \* client -> the compact types it has serializers for
    Replicated       \* the schemas a member answers with

---------------------------------------------------------------------------
(***************************************************************************)
(* Schemas.                                                                *)
(***************************************************************************)
FieldKindSize ==
    [k \in {"Int8", "Int16", "Int32", "Int64", "Float32", "Float64", "Boolean"} |->
        CASE k = "Int8" -> 1 [] k = "Int16" -> 2 [] k \in {"Int32", "Float32"} -> 4
          [] k \in {"Int64", "Float64"} -> 8 [] OTHER -> 0]
Primitive(base)     == <<"plain", base>>
NullableOf(base)    == <<"nullable", base>>
ArrayOf(base)       == <<"array", base>>
ArrayOfNullable(base) == <<"nullables", base>>
IsVariable(kind)    == kind[1] # "plain" \/ kind[2] \notin DOMAIN FieldKindSize
IsBoolean(kind)     == kind = Primitive("Boolean")

SortedBy(S, Before(_, _)) ==
    [n \in 1..Cardinality(S) |-> CHOOSE f \in S : Cardinality({g \in S : Before(g, f)}) = n - 1]
Sum(s) == FoldLeft(LAMBDA acc, n : acc + n, 0, s)

\* kinds: field name -> kind.  Fixed size fields come first, the widest in
\* front, then the bits of the Booleans, then the variable size fields; the
\* names decide among equals.
NewSchema(typeName, kinds) ==
    LET Size(f)  == FieldKindSize[kinds[f][2]]
        fixed    == SortedBy({f \in DOMAIN kinds : ~IsVariable(kinds[f]) /\ ~IsBoolean(kinds[f])},
                             LAMBDA f, g : Size(f) > Size(g) \/ (Size(f) = Size(g) /\ f < g))
        booleans == SortedBy({f \in DOMAIN kinds : IsBoolean(kinds[f])}, <)
        vars     == SortedBy({f \in DOMAIN kinds : IsVariable(kinds[f])}, <)
        At(s, f) == CHOOSE n \in DOMAIN s : s[n] = f
        length   == Sum([n \in DOMAIN fixed |-> Size(fixed[n])])
        Offset(f) ==
            IF IsVariable(kinds[f]) THEN 0
            ELSE IF IsBoolean(kinds[f]) THEN length + (At(booleans, f) - 1) \div BitsInAByte
            ELSE Sum([n \in 1..(At(fixed, f) - 1) |-> Size(fixed[n])])
        BitOffset(f) == IF IsBoolean(kinds[f]) THEN (At(booleans, f) - 1) % BitsInAByte ELSE 0
        Index(f)     == IF IsVariable(kinds[f]) THEN At(vars, f) - 1 ELSE 0
    IN  [id |-> [typeName |-> typeName, kinds |-> kinds], typeName |-> typeName,
         fields |-> [f \in DOMAIN kinds |-> [kind      |-> kinds[f], offset |-> Offset(f),
                                             bitOffset |-> BitOffset(f), index |-> Index(f)]],
         numberOfVarSizeFields |-> Len(vars),
         fixedSizeFieldsLength |-> length + (Len(booleans) + BitsInAByte - 1) \div BitsInAByte]

\* SchemaWriter: the serializer writes the zero value of its type; a name
\* that is used twice is refused
addFieldIsRefused(writes) == \E m, n \in DOMAIN writes : m < n /\ writes[m].name = writes[n].name
KindsWritten(writes) ==
    [f \in {writes[n].name : n \in DOMAIN writes} |-> (CHOOSE w \in Range(writes) : w.name = f).kind]
makeSchemaFromSerializer(serializer) ==
    IF addFieldIsRefused(serializer.writes) THEN Broken
    ELSE NewSchema(serializer.typeName, KindsWritten(serializer.writes))

IsRegisteredAsCompact(service, go) == go \in CompactTypesOf[service.client]
typeToSchema == [go \in DOMAIN CompactTypes |-> makeSchemaFromSerializer(CompactTypes[go])]
MakeSchemasFromConfig == [c \in Clients |-> {typeToSchema[go] : go \in CompactTypesOf[c]}]
typeNameToSerializer(service, typeName) ==
    LET found == {go \in CompactTypesOf[service.client] : CompactTypes[go].typeName = typeName}
    IN  IF found = {} THEN Nil ELSE CHOOSE go \in found : TRUE

\* SchemaService.Get asks the members for a schema it does not know and
\* keeps the answer (putLocal)
GetSchema(i, id) ==
    LET Find(schemas) == {s \in schemas : s.id = id}
        Known(local, replicated) ==
            IF local # {} THEN Result(CHOOSE s \in local : TRUE, i)
            ELSE IF replicated # {}
                 THEN Result(CHOOSE s \in replicated : TRUE, [i EXCEPT !.service.schemas = @ \union replicated])
            ELSE Result(Broken, i)
    IN  Known(Find(MakeSchemasFromConfig[i.service.client] \union i.service.schemas), Find(Replicated))

---------------------------------------------------------------------------
(***************************************************************************)
(* Offsets are as wide as the length of the data asks for.                 *)
(***************************************************************************)
byteOffsetReaderRange  == 127 - (-128)
shortOffsetReaderRange == 32767 - (-32768)
nullOffset             == -1

getOffsetReader(dataLength) ==
    IF dataLength < byteOffsetReaderRange THEN 1 ELSE IF dataLength < shortOffsetReaderRange THEN 2 ELSE 4

getOffset(i, width, offsetsPos, index) ==
    CASE width = 1 -> LET Byte(b) == IF b = 255 THEN nullOffset ELSE b IN Byte(ReadByteAtPosition(i, Plus(offsetsPos, index)))
      [] width = 2 -> ReadInt16AtPosition(i, Plus(offsetsPos, index * 2))
      [] width = 4 -> ReadInt32AtPosition(i, Plus(offsetsPos, index * 4))

\* a writer that takes a length of 255 for a short one
writeOffsetsUpToRange(o, dataLength, offsets) ==
    CASE dataLength <= byteOffsetReaderRange -> FoldLeft(WriteByte, o, offsets)
      [] dataLength > byteOffsetReaderRange  -> FoldLeft(WriteInt16, o, offsets)

writeOffsets(o, dataLength, offsets) ==
    CASE getOffsetReader(dataLength) = 1 -> FoldLeft(WriteByte, o, offsets)
      [] getOffsetReader(dataLength) = 2 -> FoldLeft(WriteInt16, o, offsets)
      [] getOffsetReader(dataLength) = 4 -> FoldLeft(WriteInt32, o, offsets)

---------------------------------------------------------------------------
(***************************************************************************)
(* The writer: w.out is the output, w.offsets the offsets of the variable  *)
(* size fields by their index.                                             *)
(***************************************************************************)
NewDefaultCompactWriter(o, schema) ==
    LET n      == schema.numberOfVarSizeFields
        header == IF n # 0 THEN 4 ELSE 0
    IN  [out |-> WriteZeroBytes(o, header + schema.fixedSizeFieldsLength), start |-> o.position + header,
         schema |-> schema, offsets |-> [k \in 1..n |-> 0]]

End(w) ==
    LET dataLength == w.out.position - w.start
    IN  IF w.schema.numberOfVarSizeFields = 0 THEN w.out
        ELSE PWriteInt32(writeOffsets(w.out, dataLength, w.offsets), w.start - 4, dataLength)

setPosition(w, fd)       == [w EXCEPT !.offsets[fd.index + 1] = w.out.position - w.start]
setPositionAsNull(w, fd) == [w EXCEPT !.offsets[fd.index + 1] = nullOffset]

writeBooleanBits(o, v) ==
    LET p    == o.position + 4
        zero == WriteZeroBytes(WriteInt32(o, Len(v)), (Len(v) + BitsInAByte - 1) \div BitsInAByte)
    IN  FoldLeft(LAMBDA acc, n : PWriteBoolBit(acc, p + (n - 1) \div BitsInAByte, (n - 1) % BitsInAByte, v[n]),
                 zero, [n \in DOMAIN v |-> n])

\* WriteBoolean, WriteInt8, ..., WriteFloat64
WriteFixed(w, fd, v) ==
    LET p == fd.offset + w.start
    IN  [w EXCEPT !.out =
            CASE fd.kind[2] = "Boolean" -> PWriteBoolBit(@, p, fd.bitOffset, v)
              [] fd.kind[2] = "Int8"    -> PWriteByte(@, p, v)
              [] fd.kind[2] = "Int16"   -> PWriteInt16(@, p, v)
              [] fd.kind[2] = "Int32"   -> PWriteInt32(@, p, v)
              [] fd.kind[2] = "Int64"   -> PWriteInt64(@, p, v)
              [] fd.kind[2] = "Float32" -> PWriteFloat32(@, p, v)
              [] fd.kind[2] = "Float64" -> PWriteFloat64(@, p, v)]

\* WriteArrayOfBoolean, WriteArrayOfInt8, ..., WriteArrayOfFloat64
WritePrimitives(o, base, v) ==
    CASE base = "Boolean" -> writeBooleanBits(o, v)
      [] base = "Int8"    -> WriteInt8Array(o, v)
      [] base = "Int16"   -> WriteInt16Array(o, v)
      [] base = "Int32"   -> WriteInt32Array(o, v)
      [] base = "Int64"   -> WriteInt64Array(o, v)
      [] base = "Float32" -> WriteFloat32Array(o, v)
      [] base = "Float64" -> WriteFloat64Array(o, v)

\* WriteString, ..., WriteTimestampWithTimezone, and their array elements
WriteVariable(o, base, v) ==
    CASE base = "String"    -> WriteString(o, v)
      [] base = "Decimal"   -> WriteDecimal(o, v)
      [] base = "Time"      -> WriteTime(o, v)
      [] base = "Date"      -> WriteDate(o, v)
      [] base = "Timestamp" -> WriteTimestamp(o, v)
      [] base = "TimestampWithTimezone" -> WriteTimestampWithTimezone(o, v)

\* WriteNullableBoolean, ..., WriteNullableFloat64, and their array elements
WriteNullable(o, base, v) ==
    CASE base = "Boolean" -> WriteBool(o, v)
      [] base = "Int8"    -> WriteSignedByte(o, v)
      [] base = "Int16"   -> WriteInt16(o, v)
      [] base = "Int32"   -> WriteInt32(o, v)
      [] base = "Int64"   -> WriteInt64(o, v)
      [] base = "Float32" -> WriteFloat32(o, v)
      [] base = "Float64" -> WriteFloat64(o, v)

\* an array whose elements have offsets of their own
writeArrayOfVariableSize(o, v, Write(_, _)) ==
    LET start == o.position + 8
        Element(acc, e) ==
            IF e = Nil THEN [acc EXCEPT !.offsets = Append(@, nullOffset)]
            ELSE [out |-> Write(acc.out, e), offsets |-> Append(acc.offsets, acc.out.position - start)]
        all   == FoldLeft(Element, [out |-> WriteInt32(WriteZeroBytes(o, 4), Len(v)), offsets |-> <<>>], v)
        dataLength == all.out.position - start
    IN  writeOffsets(PWriteInt32(all.out, o.position, dataLength), dataLength, all.offsets)

RECURSIVE CompactWrite(_, _)

WriteElement(o, base, v) ==
    IF base = "Compact" THEN CompactWrite(o, v)
    ELSE IF base \in DOMAIN FieldKindSize THEN WriteNullable(o, base, v) ELSE WriteVariable(o, base, v)

\* one call of the user's serializer
WriteField(w, field, v) ==
    LET fd == w.schema.fields[field.name]
        k  == field.kind
        W(o, e) == WriteElement(o, k[2], e)
        at == setPosition(w, fd)
        \* WriteArrayOfCompact
        mixed == k[2] = "Compact" /\ \E m, n \in DOMAIN v : v[m] # Nil /\ v[n] # Nil /\ v[m].go # v[n].go
    IN  IF fd.kind # k THEN [w EXCEPT !.out = Panic(@)]  \* getFieldDescriptorChecked
        ELSE IF ~IsVariable(k) THEN WriteFixed(w, fd, v)
        ELSE IF v = Nil THEN setPositionAsNull(w, fd)
        ELSE CASE k[1] \in {"plain", "nullable"} -> [at EXCEPT !.out = W(@, v)]
               [] k[1] = "array" /\ k[2] \in DOMAIN FieldKindSize -> [at EXCEPT !.out = WritePrimitives(@, k[2], v)]
               [] OTHER -> [at EXCEPT !.out = IF mixed THEN Panic(@) ELSE writeArrayOfVariableSize(@, v, W)]

CompactWrite(o, obj) ==
    LET serializer == CompactTypes[obj.go]
        schema     == typeToSchema[obj.go]
        w          == NewDefaultCompactWriter(WriteInt64(o, schema.id), schema)
        Field(acc, n) == WriteField(acc, serializer.writes[n], obj.v[n])
    IN  IF ~IsRegisteredAsCompact(o.service, obj.go) THEN Panic(o)
        ELSE End(FoldLeft(Field, w, [n \in DOMAIN obj.v |-> n]))

---------------------------------------------------------------------------
(***************************************************************************)
(* The reader.  A method reads its field from wherever it is and leaves    *)
(* the position of the input as it was.                                    *)
(***************************************************************************)
NewDefaultCompactReader(i, schema) ==
    LET n == schema.numberOfVarSizeFields
        Fixed == [in |-> SetPosition(i, Plus(i.position, schema.fixedSizeFieldsLength)), schema |-> schema, start |-> i.position,
                  width |-> 4, offsetsPos |-> 0]
        From(start, pos, width) ==
            [in |-> SetPosition(i, Plus(pos, n * width)), schema |-> schema, start |-> start,
             width |-> width, offsetsPos |-> pos]
        Offsets(length) ==
            From(length.in.position, Plus(length.in.position, length.v), getOffsetReader(length.v))
    IN  IF n = 0 THEN Fixed ELSE Offsets(ReadInt32(i))

\* the value, and the input back where it was
Back(r, d) == Result(r.v, [r.in EXCEPT !.position = d.in.position])

readVariableSizeFieldPosition(d, fd) ==
    LET Position(offset) == IF offset = nullOffset THEN nullOffset ELSE Plus(offset, d.start)
    IN  Position(getOffset(d.in, d.width, d.offsetsPos, fd.index))

readVariableSizeField(d, fd, Read(_)) ==
    LET Field(p) == IF p = nullOffset THEN Result(Nil, d.in) ELSE Back(Read(SetPosition(d.in, p)), d)
    IN  Field(readVariableSizeFieldPosition(d, fd))

readVariableSizeAsNonNull(r) == IF r.v = Nil THEN Result(Broken, r.in) ELSE r

readBoolean(d, fd) ==
    LET Bit(b) == IF b = Broken THEN Broken ELSE BitOf(b, fd.bitOffset)
    IN  Bit(ReadByteAtPosition(d.in, Plus(fd.offset, d.start)))

\* ReadBoolean, ..., ReadFloat64 of a field of that kind
ReadFixed(d, fd) ==
    LET p == Plus(fd.offset, d.start)
    IN  CASE fd.kind[2] = "Boolean" -> readBoolean(d, fd)
          [] fd.kind[2] = "Int8"    -> ReadSignedByteAtPosition(d.in, p)
          [] fd.kind[2] = "Int16"   -> ReadInt16AtPosition(d.in, p)
          [] fd.kind[2] = "Int32"   -> ReadInt32AtPosition(d.in, p)
          [] fd.kind[2] = "Int64"   -> ReadInt64AtPosition(d.in, p)
          [] fd.kind[2] = "Float32" -> ReadFloat32AtPosition(d.in, p)
          [] fd.kind[2] = "Float64" -> ReadFloat64AtPosition(d.in, p)

readBooleanBits(i) ==
    LET Bit(byte, k) == IF byte = Broken THEN Broken ELSE BitOf(byte, (k - 1) % BitsInAByte)
        Byte(n, k)   == ReadByteAtPosition(i, n.in.position + (k - 1) \div BitsInAByte)
        Bits(n)      ==
            IF n.v = Broken THEN n
            ELSE IF n.v = NilArrayLength THEN Result(Nil, n.in)
            ELSE Result([k \in 1..n.v |-> Bit(Byte(n, k), k)], Advance(n.in, (n.v + BitsInAByte - 1) \div BitsInAByte))
    IN  Bits(ReadInt32(i))

ReadPrimitives(i, base) ==
    CASE base = "Boolean" -> readBooleanBits(i)
      [] base = "Int8"    -> ReadInt8Array(i)
      [] base = "Int16"   -> ReadInt16Array(i)
      [] base = "Int32"   -> ReadInt32Array(i)
      [] base = "Int64"   -> ReadInt64Array(i)
      [] base = "Float32" -> ReadFloat32Array(i)
      [] base = "Float64" -> ReadFloat64Array(i)

ReadVariable(i, base) ==
    CASE base = "String"    -> ReadString(i)
      [] base = "Decimal"   -> ReadDecimal(i)
      [] base = "Time"      -> ReadTime(i)
      [] base = "Date"      -> ReadDate(i)
      [] base = "Timestamp" -> ReadTimestamp(i)
      [] base = "TimestampWithTimezone" -> ReadTimestampWithTimezone(i)

ReadNullable(i, base) ==
    CASE base = "Boolean" -> ReadBool(i)
      [] base = "Int8"    -> ReadSignedByte(i)
      [] base = "Int16"   -> ReadInt16(i)
      [] base = "Int32"   -> ReadInt32(i)
      [] base = "Int64"   -> ReadInt64(i)
      [] base = "Float32" -> ReadFloat32(i)
      [] base = "Float64" -> ReadFloat64(i)

\* where the elements and their offsets are
ArrayHeader(d, p) ==
    LET Header(r, dataLength) ==
            [in |-> r.in, count |-> r.v[2], start |-> r.in.position,
             width |-> IF dataLength = Broken THEN Broken ELSE getOffsetReader(dataLength),
             offsetsPos |-> Plus(r.in.position, dataLength)]
        Read(r) == Header(r, r.v[1])
    IN  Read(ReadFields(SetPosition(d.in, p), <<"int32", "int32">>))

OffsetsOf(h) == [n \in 1..h.count |-> getOffset(h.in, h.width, h.offsetsPos, n - 1)]

\* does not look at the kind of the field
readArrayOfVariableSize(d, fd, Read(_)) ==
    LET Element(acc, offset, start) ==
            Behind(acc, IF offset = nullOffset THEN Result(Nil, acc.in)
                        ELSE Read(SetPosition(acc.in, Plus(offset, start))))
        Elements(h) ==
            IF Broken \in {h.count, h.width} THEN Result(Broken, d.in)
            ELSE Back(FoldLeft(LAMBDA acc, offset : Element(acc, offset, h.start), Result(<<>>, h.in), OffsetsOf(h)), d)
        Array(p) == IF p = nullOffset THEN Result(Nil, d.in) ELSE Elements(ArrayHeader(d, p))
    IN  Array(readVariableSizeFieldPosition(d, fd))

\* the elements are read one behind the other
readNullableArrayAsPrimitiveArray(d, fd, Read(_)) ==
    LET Elements(h) ==
            IF Broken \in {h.count, h.width} THEN Result(Broken, d.in)
            ELSE IF nullOffset \in Range(OffsetsOf(h)) THEN Result(Broken, d.in)
            ELSE Back(Read(SetPosition(d.in, h.start - 4)), d)
        Array(p) == IF p = nullOffset THEN Result(Nil, d.in) ELSE Elements(ArrayHeader(d, p))
    IN  Array(readVariableSizeFieldPosition(d, fd))

readPrimitiveArrayAsNullableArray(d, fd, Read(_)) == readVariableSizeField(d, fd, LAMBDA i : ReadArray(i, Read))

RECURSIVE CompactRead(_)

ReadElement(i, base) ==
    IF base = "Compact" THEN CompactRead(i)
    ELSE IF base \in DOMAIN FieldKindSize THEN ReadNullable(i, base) ELSE ReadVariable(i, base)

(***************************************************************************)
(* One call of the user's serializer: field.kind is the method it uses.    *)
(***************************************************************************)
ReadPlain(d, fd, base) ==
    LET Checked(r) == IF fd.kind = NullableOf(base) THEN readVariableSizeAsNonNull(r) ELSE r
    IN  CASE fd.kind = Primitive(base) /\ base \in DOMAIN FieldKindSize -> Result(ReadFixed(d, fd), d.in)
          [] fd.kind = NullableOf(base) \/ (fd.kind = Primitive(base) /\ base \notin DOMAIN FieldKindSize) ->
                Checked(readVariableSizeField(d, fd, LAMBDA i : ReadElement(i, base)))
          [] OTHER -> Result(Broken, d.in)

ReadNullableField(d, fd, base) ==
    CASE fd.kind = Primitive(base)  -> Result(ReadFixed(d, fd), d.in)
      [] fd.kind = NullableOf(base) -> readVariableSizeField(d, fd, LAMBDA i : ReadNullable(i, base))
      [] OTHER -> Result(Broken, d.in)

ReadArrayField(d, fd, base) ==
    LET R(i) == ReadElement(i, base)
        P(i) == ReadPrimitives(i, base)
    IN  CASE base \notin DOMAIN FieldKindSize -> readArrayOfVariableSize(d, fd, R)
          [] base \in DOMAIN FieldKindSize /\ fd.kind = ArrayOf(base) -> readVariableSizeField(d, fd, P)
          [] fd.kind = ArrayOfNullable(base) -> readNullableArrayAsPrimitiveArray(d, fd, P)
          [] OTHER -> Result(Broken, d.in)

ReadArrayOfNullableField(d, fd, base) ==
    LET R(i) == ReadNullable(i, base)
    IN  CASE fd.kind = ArrayOfNullable(base) -> readArrayOfVariableSize(d, fd, R)
          \* the conversion of a nil slice panics
          [] fd.kind = ArrayOf(base) /\ base = "Boolean" -> readVariableSizeAsNonNull(readVariableSizeField(d, fd, readBooleanBits))
          [] fd.kind = ArrayOf(base) /\ base # "Boolean" -> readPrimitiveArrayAsNullableArray(d, fd, R)
          [] OTHER -> Result(Broken, d.in)

ReadField(d, field) ==
    LET fd   == d.schema.fields[field.name]
        base == field.kind[2]
    IN  IF field.name \notin DOMAIN d.schema.fields THEN Result(Broken, d.in)  \* getFieldDefinition
        ELSE CASE field.kind[1] = "plain"     -> ReadPlain(d, fd, base)
               [] field.kind[1] = "nullable"  -> ReadNullableField(d, fd, base)
               [] field.kind[1] = "array"     -> ReadArrayField(d, fd, base)
               [] field.kind[1] = "nullables" -> ReadArrayOfNullableField(d, fd, base)

CompactRead(i) ==
    LET Fields(d, go) ==
            FoldLeft(LAMBDA acc, field : Behind(acc, ReadField([d EXCEPT !.in = acc.in], field)),
                     Result(<<>>, d.in), CompactTypes[go].reads)
        Instance(schema, go) == IF go = Nil THEN Result(Broken, i)
                                ELSE Object(Fields(NewDefaultCompactReader(schema.in, schema.v), go), go)
        Body(schema) == IF schema.v = Broken THEN schema
                        ELSE Instance(schema, typeNameToSerializer(i.service, schema.v.typeName))
    IN  Body(GetSchema(Advance(i, 8), ReadInt64(i).v))
=============================================================================
