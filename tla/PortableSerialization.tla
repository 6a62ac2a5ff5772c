-------------------------- MODULE PortableSerialization --------------------------
(***************************************************************************)
(* Portable serialization: class definitions, the writer, the reader and   *)
(* the reader for another version of the class.  A portable is its         *)
(* factory, class and version and the fields its WritePortable writes, in  *)
(* that order; a field is its name, its type and its value, and of, the    *)
(* factory and class WriteNilPortable is called with.  Raw data is an      *)
(* int32 behind the fields.                                                *)
(***************************************************************************)
EXTENDS ObjectData

\* <<factory, class>> -> the version of this client and what its
\* ReadPortable reads
CONSTANT PortableFactories

Moments == {"Date", "Time", "Timestamp", "TimestampWithTimezone"}
MomentArrays == {"[]Date", "[]Time", "[]Timestamp", "[]TimestampWithTimezone"}
Scalars == {"uint8", "bool", "uint16", "int16", "int32", "int64", "float32", "float64"}
Arrays  == {"[]uint8", "[]bool", "[]uint16", "[]int16", "[]int32", "[]int64", "[]float32", "[]float64", "[]string"}

---------------------------------------------------------------------------
(***************************************************************************)
(* Class definitions; service.classes are the ones the client has.         *)
(***************************************************************************)
NewClassDefinition(factoryID, classID, version) ==
    [factory |-> factoryID, class |-> classID, version |-> version, fields |-> <<>>]

NewFieldDefinition(index, type, factoryID, classID, version) ==
    [index |-> index, type |-> type, factory |-> factoryID, class |-> classID, version |-> version]

\* FieldsOf is a function from names; the empty one is the empty sequence
AddField(cd, name, fd) ==
    IF cd = Broken THEN Broken
    ELSE IF name \in DOMAIN cd.fields THEN Broken ELSE [cd EXCEPT !.fields = @ @@ (name :> fd)]

addNewFieldDefinition(cd, name, type) ==
    AddField(cd, name, NewFieldDefinition(Cardinality(DOMAIN cd.fields), type, 0, 0, cd.version))

AddPortableField(cd, name, type, def) ==
    IF def = Broken THEN Broken ELSE IF def.class = 0 THEN Broken
    ELSE AddField(cd, name, NewFieldDefinition(Cardinality(DOMAIN cd.fields), type, def.factory, def.class, cd.version))

LookUpClassDefinition(service, factoryID, classID, version) ==
    LET found == {cd \in service.classes : <<cd.factory, cd.class, cd.version>> = <<factoryID, classID, version>>}
    IN  IF found = {} THEN Nil ELSE CHOOSE cd \in found : TRUE

\* the definition and the service after it; a different one of the same
\* class and version is refused
RegisterClassDefinition(service, cd) ==
    LET current == LookUpClassDefinition(service, cd.factory, cd.class, cd.version)
    IN  IF cd = Broken THEN Result(Broken, service)
        ELSE IF current = Nil THEN Result(cd, [service EXCEPT !.classes = @ \union {cd}])
        ELSE IF current # cd THEN Result(Broken, service) ELSE Result(cd, service)

RECURSIVE LookUpOrRegisterClassDefinition(_, _)

\* one call of WritePortable on a ClassDefinitionWriter; acc is the
\* definition and the service
DefineField(acc, field) ==
    LET nested(p) == LookUpOrRegisterClassDefinition(acc.in, p)
        Portable(r) == Result(AddPortableField(acc.v, field.name, field.type, r.v), r.in)
        nil == LookUpClassDefinition(acc.in, field.of[1], field.of[2], 0)
    IN  IF acc.v = Broken THEN acc
        ELSE CASE field.type = "raw" -> acc
               [] field.type = "Portable" /\ field.v # Nil -> Portable(nested(field.v))
               [] field.type = "Portable" /\ field.v = Nil ->  \* WriteNilPortable
                     Portable(Result(IF nil = Nil THEN Broken ELSE nil, acc.in))
               [] field.type = "[]Portable" ->
                     IF field.v \in {Nil, <<>>} THEN Result(Broken, acc.in) ELSE Portable(nested(field.v[1]))
               [] OTHER -> Result(addNewFieldDefinition(acc.v, field.name, field.type), acc.in)

LookUpOrRegisterClassDefinition(service, p) ==
    LET found   == LookUpClassDefinition(service, p.factory, p.class, p.version)
        written == FoldLeft(DefineField, Result(NewClassDefinition(p.factory, p.class, p.version), service), p.fields)
    IN  IF found # Nil THEN Result(found, service)
        ELSE IF written.v = Broken THEN written ELSE RegisterClassDefinition(written.in, written.v)

---------------------------------------------------------------------------
(***************************************************************************)
(* The writer.                                                             *)
(***************************************************************************)
WritePortableDate(o, t) == WriteByte(WriteByte(WriteInt16(o, t.date[1]), t.date[2]), t.date[3])
WritePortableTime(o, t) ==
    WriteInt32(WriteByte(WriteByte(WriteByte(o, t.clock[1]), t.clock[2]), t.clock[3]), t.clock[4])
WritePortableTimestamp(o, t)             == WritePortableTime(WritePortableDate(o, t), t)
WritePortableTimestampWithTimezone(o, t) == WriteInt32(WritePortableTimestamp(o, t), t.zone)

WriteMoment(o, type, t) ==
    CASE type \in {"Date", "[]Date"} -> WritePortableDate(o, t)
      [] type \in {"Time", "[]Time"} -> WritePortableTime(o, t)
      [] type \in {"Timestamp", "[]Timestamp"} -> WritePortableTimestamp(o, t)
      [] type \in {"TimestampWithTimezone", "[]TimestampWithTimezone"} -> WritePortableTimestampWithTimezone(o, t)

writeNullableField(o, v, Write(_, _)) == LET b == WriteBool(o, v = Nil) IN IF v = Nil THEN b ELSE Write(b, v)

\* a position for every element, then the elements
WriteElements(o, v, Write(_, _)) ==
    FoldLeft(LAMBDA acc, n : Write(PWriteInt32(acc, o.position + 4 * (n - 1), acc.position), v[n]),
             WriteZeroBytes(o, 4 * Len(v)), [n \in DOMAIN v |-> n])
ArrayLength(v) == IF v = Nil THEN NilArrayLength ELSE Len(v)
\* writeArrayOfTime and WriteDecimalArray
writeArrayOf(o, v, Write(_, _)) ==
    LET n == WriteInt32(o, ArrayLength(v)) IN IF v = Nil THEN n ELSE WriteElements(n, v, Write)

\* w.out is the output, w.offset where the positions of the fields are
NewDefaultPortableWriter(o, cd) ==
    LET n == Cardinality(DOMAIN cd.fields)
        h == WriteInt32(WriteZeroBytes(o, 4), n)
    IN  [out |-> WriteZeroBytes(h, 4 * (n + 1)), cd |-> cd, begin |-> o.position, offset |-> h.position, raw |-> FALSE]

PortableEnd(w) == PWriteInt32(w.out, w.begin, w.out.position)

\* the position of the field, its name and its type
setFieldPosition(w, field) ==
    LET at   == PWriteInt32(w.out, w.offset + 4 * w.cd.fields[field.name].index, w.out.position)
        name == WriteStringBytes(WriteInt16(at, field.name.bytes), field.name)
    IN  IF w.raw \/ field.name \notin DOMAIN w.cd.fields THEN Panic(w.out) ELSE WriteRaw(name, 1, field.type)

GetRawDataOutput(w) ==
    IF w.raw THEN w.out ELSE PWriteInt32(w.out, w.offset + 4 * Cardinality(DOMAIN w.cd.fields), w.out.position)

RECURSIVE PortableWriteObject(_, _)

WriteFieldValue(o, field, fd) ==
    LET v == field.v
        ids(b) == WriteInt32(WriteInt32(b, fd.factory), fd.class)
    IN  CASE field.type \in Scalars -> WriteNumber(field.type, o, v)
          [] field.type = "string"  -> WriteString(o, v)
          [] field.type \in Arrays  -> WriteNumbers(field.type, o, v)
          [] field.type \in Moments -> writeNullableField(o, v, LAMBDA b, t : WriteMoment(b, field.type, t))
          [] field.type = "Decimal" -> writeNullableField(o, v, WriteDecimal)
          [] field.type \in MomentArrays -> writeArrayOf(o, v, LAMBDA b, t : WriteMoment(b, field.type, t))
          [] field.type = "[]Decimal" -> writeArrayOf(o, v, WriteDecimal)
          [] field.type = "Portable" ->
                IF v = Nil THEN ids(WriteBool(o, TRUE)) ELSE PortableWriteObject(ids(WriteBool(o, FALSE)), v)
          [] field.type = "[]Portable" ->
                LET n == ids(WriteInt32(o, ArrayLength(v)))
                IN  IF v = Nil THEN n ELSE WriteElements(n, v, PortableWriteObject)

WritePortableField(w, field) ==
    IF field.type = "raw" THEN [w EXCEPT !.out = WriteInt32(GetRawDataOutput(w), field.v), !.raw = TRUE]
    ELSE LET at == setFieldPosition(w, field)
         IN  [w EXCEPT !.out = IF at.failed THEN at ELSE WriteFieldValue(at, field, w.cd.fields[field.name])]

PortableWriteObject(o, p) ==
    LET def == LookUpOrRegisterClassDefinition(o.service, p)
        out == WriteInt32([o EXCEPT !.service = def.in], def.v.version)
    IN  IF def.v = Broken THEN Panic(o)
        ELSE PortableEnd(FoldLeft(WritePortableField, NewDefaultPortableWriter(out, def.v), p.fields))

PortableWrite(o, p) == PortableWriteObject(WriteInt32(WriteInt32(o, p.factory), p.class), p)

---------------------------------------------------------------------------
(***************************************************************************)
(* The class definition as it stands in the data.                          *)
(***************************************************************************)
RECURSIVE ReadClassDefinitionFromInput(_, _, _, _)

\* acc: the definition so far, whether to register it, the input
ReadFieldDefinition(acc, n, offset) ==
    LET failed == [acc EXCEPT !.cd = Broken]
        With(name, type, f, c, version, register, in) ==
            [cd |-> AddField(acc.cd, name, NewFieldDefinition(n, type, f, c, version)), register |-> register, in |-> in]
        Descend(name, type, f, c, version, register, r) ==
            IF r.v = Broken THEN failed ELSE With(name, type, f, c, version, register, r.in)
        Inner(name, type, f, c, register, version) ==
            Descend(name, type, f, c, version.v, register, ReadClassDefinitionFromInput(version.in, f, c, version.v))
        \* header: a bool or a length, then the factory and the class
        Portable(name, header, f, c, register) ==
            IF register THEN Inner(name, "Portable", f, c, TRUE, ReadInt32(header.in))
            ELSE With(name, "Portable", f, c, acc.cd.version, FALSE, header.in)
        PortableArray(name, header, f, c, present) ==
            IF present THEN Inner(name, "[]Portable", f, c, acc.register,
                                  ReadInt32(SetPosition(header.in, ReadInt32(header.in).v)))
            ELSE With(name, "[]Portable", f, c, acc.cd.version, FALSE, header.in)
        Header(name, type, h) ==
            IF h.v[1] = Broken THEN failed
            ELSE IF type = "Portable" THEN Portable(name, h, h.v[2], h.v[3], acc.register /\ h.v[1] = FALSE)
            ELSE PortableArray(name, h, h.v[2], h.v[3], h.v[1] > 0)
        Named(name, i, type) ==
            IF Broken \in {name, type} THEN failed
            ELSE IF type \in {"Portable", "[]Portable"}
                 THEN Header(name, type, ReadFields(Advance(i, 1), <<IF type = "Portable" THEN "bool" ELSE "int32", "int32", "int32">>))
            ELSE With(name, type, 0, 0, acc.cd.version, acc.register, Advance(i, 1))
        AtType(name, i) == Named(name, i, ReadByte(i).v)
        AtName(length) ==
            IF length.v = Broken THEN failed ELSE AtType(Here(length.in, length.v), Advance(length.in, length.v))
    IN  IF acc.cd = Broken THEN failed
        ELSE AtName(ReadInt16(SetPosition(acc.in, ReadInt32AtPosition(acc.in, Plus(offset, 4 * n)))))

\* a nil portable or an empty array on the way keeps the definition from
\* being registered
ReadClassDefinitionFromInput(i, factoryID, classID, version) ==
    LET Fields(count) ==
            FoldLeft(LAMBDA acc, n : ReadFieldDefinition(acc, n, count.in.position),
                     [cd |-> NewClassDefinition(factoryID, classID, version), register |-> TRUE, in |-> count.in],
                     [n \in 1..count.v |-> n - 1])
        Registered(in, r) == Result(r.v, [in EXCEPT !.service = r.in])
        Register(read) ==
            IF read.cd = Broken \/ ~read.register THEN Result(read.cd, read.in)
            ELSE Registered(read.in, RegisterClassDefinition(read.in.service, read.cd))
        Counted(count) == IF count.v = Broken THEN Result(Broken, i) ELSE Register(Fields(count))
    IN  Counted(ReadInt32(Advance(i, 4)))

---------------------------------------------------------------------------
(***************************************************************************)
(* The reader.  d.in is the input; a method leaves its position as it was, *)
(* but for GetRawDataInput.                                                *)
(***************************************************************************)
readPortableDate == <<"int16", "byte", "byte">>
ReadPortableDate(i) == ADate(ReadFields(i, readPortableDate))
ReadPortableTime(i) == ReadTime(i)
ReadPortableTimestamp(i) == ATimestamp(ReadFields(i, readPortableDate \o readTime))
ReadPortableTimestampWithTimezone(i) == ATimestamp(ReadFields(i, readPortableDate \o readTime \o <<"int32">>))

ReadMoment(i, type) ==
    CASE type \in {"Date", "[]Date"} -> ReadPortableDate(i)
      [] type \in {"Time", "[]Time"} -> ReadPortableTime(i)
      [] type \in {"Timestamp", "[]Timestamp"} -> ReadPortableTimestamp(i)
      [] type \in {"TimestampWithTimezone", "[]TimestampWithTimezone"} -> ReadPortableTimestampWithTimezone(i)

NewDefaultPortableReader(i, cd) ==
    LET Reader(h) == [in |-> h.in, cd |-> cd, offset |-> h.in.position, finalPos |-> h.v[1], raw |-> FALSE]
    IN  Reader(ReadFields(i, <<"int32", "int32">>))

positionByField(d, name, type) ==
    LET BehindName(p) == Plus(p, Plus(3, ReadInt16AtPosition(d.in, p)))
    IN  IF d.raw \/ name \notin DOMAIN d.cd.fields THEN Broken
        ELSE IF d.cd.fields[name].type # type THEN Broken
        ELSE BehindName(ReadInt32AtPosition(d.in, Plus(d.offset, 4 * d.cd.fields[name].index)))

\* runAtPosition: the value, with the input back where it was
At(d, p, Read(_)) ==
    LET Back(r) == Result(r.v, [r.in EXCEPT !.position = d.in.position]) IN Back(Read(SetPosition(d.in, p)))

readNullable(i, Read(_)) ==
    LET Value(b) == IF b.v = TRUE THEN Result(Nil, b.in) ELSE Read(b.in) IN Value(ReadBool(i))

ReadElements(i, n, Read(_)) ==
    FoldLeft(LAMBDA acc, k :
                Behind(acc, Read(SetPosition(acc.in, ReadInt32AtPosition(acc.in, Plus(i.position, 4 * k))))),
             Result(<<>>, i), [k \in 1..n |-> k - 1])
readArrayOf(i, Read(_)) ==
    LET Array(n) == IF n.v = Broken THEN n
                    ELSE IF n.v = NilArrayLength THEN Result(Nil, n.in) ELSE ReadElements(n.in, n.v, Read)
    IN  Array(ReadInt32(i))

RECURSIVE PortableReadObject(_, _, _)

readPortable(i) ==
    LET Value(h) == IF h.v[1] = TRUE THEN Result(Nil, h.in) ELSE PortableReadObject(h.in, h.v[2], h.v[3])
    IN  Value(ReadFields(i, <<"bool", "int32", "int32">>))
\* an array without elements is read as nil
readPortableArray(i) ==
    LET Array(h) == IF h.v[1] = Broken THEN Result(Broken, h.in)
                    ELSE IF h.v[1] <= 0 THEN Result(Nil, h.in)
                    ELSE ReadElements(h.in, h.v[1], LAMBDA j : PortableReadObject(j, h.v[2], h.v[3]))
    IN  Array(ReadFields(i, <<"int32", "int32", "int32">>))

\* what the methods of DefaultPortableReader read
ReadFieldValue(i, type) ==
    CASE type \in Scalars -> ReadNumber(type, i)
      [] type = "string"  -> ReadString(i)
      [] type \in Arrays  -> ReadNumbers(type, i)
      [] type \in Moments -> readNullable(i, LAMBDA j : ReadMoment(j, type))
      [] type = "Decimal" -> readNullable(i, ReadDecimal)
      [] type \in MomentArrays -> readArrayOf(i, LAMBDA j : ReadMoment(j, type))
      [] type = "[]Decimal"  -> readArrayOf(i, ReadDecimal)
      [] type = "Portable"   -> readPortable(i)
      [] type = "[]Portable" -> readPortableArray(i)

DefaultRead(d, name, type) ==
    LET Value(p) == IF p = Broken THEN Result(Broken, d.in) ELSE At(d, p, LAMBDA i : ReadFieldValue(i, type))
    IN  Value(positionByField(d, name, type))

GetRawDataInput(d) ==
    LET p == ReadInt32AtPosition(d.in, Plus(d.offset, 4 * Cardinality(DOMAIN d.cd.fields)))
    IN  IF d.raw THEN d.in ELSE SetPosition(d.in, p)

---------------------------------------------------------------------------
(***************************************************************************)
(* The reader of another version: a missing field has its zero value, a    *)
(* narrower number is widened.  Dates, times and decimals are left to the  *)
(* reader above.                                                           *)
(***************************************************************************)
Widens(type) ==
    CASE type = "int16"   -> {"uint8"}
      [] type = "int32"   -> {"uint8", "uint16", "int16"}
      [] type \in {"int64", "float32"} -> {"uint8", "uint16", "int16", "int32"}
      [] type = "float64" -> {"uint8", "uint16", "int16", "int32", "int64", "float32"}
      [] OTHER            -> {}

ZeroOf(type) ==
    CASE type = "bool" -> FALSE
      [] type \in Scalars \ {"bool"} -> 0
      [] type = "string" -> EmptyText
      [] OTHER -> Nil

Morphs(type) == type \notin Moments \union MomentArrays \union {"Decimal", "[]Decimal"}
HasZero(d, name, type) == Morphs(type) /\ name \notin DOMAIN d.cd.fields
\* the type to read as; validateTypeCompatibility is the check of DefaultRead
MorphingRead(d, name, type) ==
    LET written == d.cd.fields[name].type
    IN  IF Morphs(type) /\ written \in Widens(type) THEN written ELSE type

---------------------------------------------------------------------------
\* one call of ReadPortable; acc is the fields read and the reader
ReadPortableField(acc, field, morphing) ==
    LET After(r) == [v |-> Append(acc.v, r.v), d |-> [acc.d EXCEPT !.in = r.in, !.raw = @ \/ field.type = "raw"]]
    IN  After(IF field.type = "raw" THEN ReadInt32(GetRawDataInput(acc.d))
              ELSE IF morphing /\ HasZero(acc.d, field.name, field.type) THEN Result(ZeroOf(field.type), acc.d.in)
              ELSE DefaultRead(acc.d, field.name,
                               IF morphing THEN MorphingRead(acc.d, field.name, field.type) ELSE field.type))

PortableReadObject(i, factoryID, classID) ==
    LET Back(here, r) == Result(r.v, [r.in EXCEPT !.position = here.position])
        Define(here, version, found) ==
            IF found # Nil THEN Result(found, here)
            ELSE Back(here, ReadClassDefinitionFromInput(here, factoryID, classID, version))
        Versioned(v) == Define(v.in, v.v, LookUpClassDefinition(v.in.service, factoryID, classID, v.v))
        Made(own, read) ==
            Result([factory |-> factoryID, class |-> classID, version |-> own.version,
                    fields |-> [n \in DOMAIN own.reads |-> [own.reads[n] EXCEPT !.v = read.v[n]]]],
                   SetPosition(read.d.in, read.d.finalPos))
        Fields(own, def) ==
            FoldLeft(LAMBDA acc, field : ReadPortableField(acc, field, def.v.version # own.version),
                     [v |-> <<>>, d |-> NewDefaultPortableReader(def.in, def.v)], own.reads)
        Instance(own, def) == IF def.v = Broken THEN def ELSE Made(own, Fields(own, def))
    IN  IF <<factoryID, classID>> \notin DOMAIN PortableFactories THEN Result(Broken, i)  \* createNewPortableInstance
        ELSE Instance(PortableFactories[<<factoryID, classID>>], Versioned(ReadInt32(i)))

PortableRead(i) ==
    LET Body(h) == Object(PortableReadObject(h.in, h.v[1], h.v[2]), "portable")
    IN  Body(ReadFields(i, <<"int32", "int32">>))
=============================================================================
