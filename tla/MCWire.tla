-------------------------------- MODULE MCWire --------------------------------
(***************************************************************************)
(* What the client writes to and reads from the wire: the messages of      *)
(* every codec, the stream of a socket, and the objects inside messages.   *)
(* scenario names the part that runs.                                      *)
(***************************************************************************)
EXTENDS Codecs, MessageReader, Serialization

VARIABLE scenario

OnWire(f, w) == [frames |-> f, whole |-> w]
MCStreams ==
    {<<OnWire(<<2, 0>>, TRUE), OnWire(<<0, 1>>, TRUE), OnWire(<<3>>, TRUE)>>,
     <<OnWire(<<1>>, TRUE), OnWire(<<1, 2>>, FALSE), OnWire(<<1>>, TRUE)>>}

---------------------------------------------------------------------------
(***************************************************************************)
(* Values at the edges of their types.                                     *)
(***************************************************************************)
Text(n, t) == [bytes |-> n, text |-> t]
MaxInt32   == 2147483647
Noon       == Moment(<<2023, 2, 28>>, <<23, 59, 58, 999999999>>, -3600)
Midnight   == Moment(<<-1, 12, 31>>, <<0, 0, 0, 1>>, 0)

Numbers ==
    [uint8   |-> {0, 128, 255}, int8 |-> {-128, -1, 127}, bool |-> BOOLEAN, uint16 |-> {0, 32768, 65535},
     int16   |-> {-32768, -1, 32767}, int32 |-> {-MaxInt32, MaxInt32}, int |-> {-1}, int64 |-> {-MaxInt32},
     float32 |-> {-1}, float64 |-> {MaxInt32}]
NumberArrays ==
    ("[]uint8" :> {Nil, <<>>, <<0, 255>>}) @@ ("[]bool" :> {Nil, <<>>, <<TRUE, FALSE>>})
    @@ ("[]uint16" :> {Nil, <<65535, 1>>}) @@ ("[]int16" :> {Nil, <<-32768, 32767>>}) @@ ("[]int32" :> {<<>>, <<-1>>})
    @@ ("[]int64" :> {Nil, <<MaxInt32>>}) @@ ("[]int" :> {Nil, <<-5, 5>>}) @@ ("[]float32" :> {<<1, 2>>})
    @@ ("[]float64" :> {<<-1>>}) @@ ("[]string" :> {Nil, <<EmptyText, Text(3, "abc")>>})
OfTypes(values) == UNION {{Obj(go, v) : v \in values[go]} : go \in DOMAIN values}

BigInts == {Nil, 0, 1, -1, 127, 128, -128, -129, 255, 256, -255, -256, 32767, 32768, -32768, -32769, 8388608}

Singles ==
    OfTypes(Numbers) \union OfTypes(NumberArrays)
    \union {Obj("BigInt", b) : b \in BigInts}
    \union {Obj("Decimal", [unscaled |-> b, scale |-> s]) : b \in {-129, 0, 128}, s \in {-1, 3}}
    \union {Obj(go, t) : go \in {"LocalDate", "LocalTime", "LocalDateTime", "OffsetDateTime"}, t \in {Noon, Midnight}}
    \union {Obj("Time", t) : t \in {-1500, 1999, 2000}}
    \union {Obj("string", EmptyText), Obj("JSON", Text(4, "json")), Obj("UUID", <<1, -2>>), NilObject,
            Obj("[]int8", Text(3, "bytes")), Obj("custom", Text(5, "object")), Obj("other", Text(6, "thing"))}

List(v) == Obj("[]interface{}", v)
Identified(class, fields) == Obj("identified", [factory |-> 1, class |-> class, fields |-> fields])
MCIdentifiedFactories == (1 :> ((1 :> 2) @@ (2 :> 0)))
Nested ==
    {List(Nil), List(<<>>), List(<<Obj("string", Text(3, "abc")), NilObject, List(<<Obj("int8", -1)>>)>>),
     Identified(1, <<Identified(2, <<>>), List(<<Obj("custom", Text(5, "object")), Obj("bool", TRUE)>>)>>)}

---------------------------------------------------------------------------
(***************************************************************************)
(* Compact types: every kind of field, fields in an order that is not the  *)
(* one of the schema, lengths around those that widen the offsets, fields  *)
(* read with the methods of the other kinds, types of two versions, and    *)
(* one whose schema no member has.                                         *)
(***************************************************************************)
Fixed    == <<"Int8", "Boolean", "Int64", "Int16", "Boolean", "Float32", "Int32", "Float64", "Boolean",
              "Boolean", "Boolean", "Boolean", "Boolean", "Boolean", "Boolean", "Int8">>
Bases    == <<"Boolean", "Int8", "Int16", "Int32", "Int64", "Float32", "Float64">>
Variable == <<"String", "Decimal", "Time", "Date", "Timestamp", "TimestampWithTimezone", "Compact">>

CompactField(n, kind) == [name |-> n, kind |-> kind]
\* the names descend, so that the schema orders the fields the other way
Fields(bases, Kind(_)) == [n \in DOMAIN bases |-> CompactField(20 - n, Kind(bases[n]))]
CompactType(name, writes, reads) == [typeName |-> name, writes |-> writes, reads |-> reads]
Plainly(name, fields) == CompactType(name, fields, fields)

Swapped(kind) ==
    CASE kind[1] = "plain" -> NullableOf(kind[2]) [] kind[1] = "nullable" -> Primitive(kind[2])
      [] kind[1] = "array" -> ArrayOfNullable(kind[2]) [] kind[1] = "nullables" -> ArrayOf(kind[2])
Crossed(name, fields) ==
    CompactType(name, fields, [n \in DOMAIN fields |-> [fields[n] EXCEPT !.kind = Swapped(@)]])

MCCompactTypes ==
    [Fixed      |-> Plainly("fixed", Fields(Fixed, Primitive)),
     Plain      |-> Plainly("plain", Fields(Variable, Primitive)),
     Arrays     |-> Plainly("arrays", Fields(Bases \o Variable, ArrayOf)),
     Nullables  |-> Plainly("nullables", Fields(Bases, NullableOf) \o <<CompactField(1, Primitive("Int32"))>>),
     NullableArrays |-> Plainly("nullableArrays", Fields(Bases, ArrayOfNullable)),
     Long       |-> Plainly("long", <<CompactField(1, Primitive("String")), CompactField(2, Primitive("String"))>>),
     PlainRead  |-> Crossed("plainRead", Fields(Bases, Primitive)),
     NullableRead |-> Crossed("nullableRead", Fields(Bases, NullableOf)),
     ArrayRead  |-> Crossed("arrayRead", Fields(Tail(Bases), ArrayOf)),
     NullableArrayRead |-> Crossed("nullableArrayRead", Fields(Tail(Bases), ArrayOfNullable)),
     BitsRead   |-> Crossed("bitsRead", <<CompactField(1, ArrayOf("Boolean"))>>),
     Inner      |-> Plainly("inner", <<CompactField(2, Primitive("String")), CompactField(1, Primitive("Int16"))>>),
     PersonV1   |-> Plainly("person", <<CompactField(1, Primitive("String"))>>),
     PersonV2   |-> CompactType("person", <<CompactField(1, Primitive("String")), CompactField(2, Primitive("Int32"))>>,
                                <<CompactField(1, Primitive("String"))>>),
     Private    |-> Plainly("private", <<CompactField(1, Primitive("Int8"))>>),
     Stranger   |-> Plainly("private", <<CompactField(1, Primitive("Int16"))>>)]

MCReplicated    == {makeSchemaFromSerializer(MCCompactTypes[go]) : go \in DOMAIN MCCompactTypes \ {"Private"}}
MCCompactTypesOf ==
    [c \in Clients |-> DOMAIN MCCompactTypes \ IF c = "c1" THEN {"PersonV2", "Stranger"} ELSE {"PersonV1", "Private"}]

InnerObject(n) == Obj("Inner", <<Text(n, "inner"), -n>>)
CompactSample(base, n) ==
    CASE base = "Boolean" -> n % 2 = 1
      [] base = "Int8"    -> IF n = 1 THEN -128 ELSE 127
      [] base = "Int16"   -> IF n = 1 THEN -32768 ELSE 32767
      [] base \in {"Int32", "Int64", "Float32", "Float64"} -> IF n = 1 THEN -MaxInt32 ELSE MaxInt32
      [] base = "String"  -> IF n = 1 THEN EmptyText ELSE Text(n, "text")
      [] base = "Decimal" -> [unscaled |-> 126 + n, scale |-> n]
      [] base \in {"Time", "Date", "Timestamp", "TimestampWithTimezone"} -> IF n = 1 THEN Noon ELSE Midnight
      [] base = "Compact" -> InnerObject(n)

\* nothing, empty arrays, one or two elements, and elements that are nil
CompactFieldValue(kind, p) ==
    LET one == CompactSample(kind[2], p)
    IN  CASE kind[1] = "plain" /\ p = 0 -> IF kind[2] \in DOMAIN FieldKindSize THEN CompactSample(kind[2], 2)
                                           ELSE Nil
          [] kind[1] = "plain" /\ p > 0 -> one
          [] kind[1] = "nullable" -> IF p = 0 THEN Nil ELSE one
          [] OTHER -> IF p = 0 THEN Nil ELSE IF p = 1 THEN <<>>
                      ELSE IF p = 2 THEN <<CompactSample(kind[2], 1), one, one>> ELSE <<Nil, one, Nil>>

CompactObject(go, p) ==
    LET w == MCCompactTypes[go].writes IN Obj(go, [n \in DOMAIN w |-> CompactFieldValue(w[n].kind, p)])

PrimitiveArrays == {"ArrayRead", "BitsRead"}
Compacts ==
    {CompactObject(go, p) : go \in DOMAIN MCCompactTypes \ {"Arrays"}, p \in 0..2}
    \union {CompactObject(go, 3) : go \in {"NullableArrays", "NullableArrayRead"}}
    \union {[CompactObject("Arrays", p) EXCEPT !.v =
                [n \in DOMAIN @ |-> IF p = 3 /\ n <= Len(Bases) THEN [k \in 1..9 |-> CompactSample(Bases[n], k)] ELSE @[n]]] :
            p \in 0..3}
    \* 8 bytes of lengths: the data is 254, 255, 256, 65534 and 65535 bytes long
    \union {Obj("Long", <<Text(n, "long"), Text(m, "more")>>) : n \in {1}, m \in {245, 246, 247, 65525, 65526}}
    \union {Obj("Long", <<Text(n, "long"), Text(1, "more")>>) : n \in {32763, 32764, 65530}}
    \union {Obj("Long", <<Nil, Text(251, "more")>>)}

---------------------------------------------------------------------------
(***************************************************************************)
(* Portables: every type of field, nested ones, other versions.            *)
(***************************************************************************)
Names == <<"a", "b", "c", "d", "e", "f", "g", "h", "i", "j", "k", "l", "m", "n", "o", "p", "q", "r", "s", "t", "u",
           "v", "w", "x", "y", "z", "ä", "ö", "ü">>
PortableTypes ==
    <<"uint8", "bool", "uint16", "int16", "int32", "int64", "float32", "float64", "string", "[]uint8", "[]bool",
      "[]uint16", "[]int16", "[]int32", "[]int64", "[]float32", "[]float64", "[]string", "Date", "Time",
      "Timestamp", "TimestampWithTimezone", "Decimal", "[]Date", "[]Time", "[]Timestamp",
      "[]TimestampWithTimezone", "[]Decimal">>
PortableField(n, type, v, of) == [name |-> Text(n, Names[n]), type |-> type, v |-> v, of |-> of]
NoClass == <<0, 0>>
PField(n, type, v) == PortableField(n, type, v, NoClass)
RawData(v) == PortableField(29, "raw", v, NoClass)
Portable(class, version, fields) ==
    [factory |-> 1, class |-> class, version |-> version, fields |-> fields]

PortableValue(type, p) ==
    CASE type \in Scalars \ {"bool"} -> IF p = 1 THEN 1 ELSE 255
      [] type = "bool"    -> p = 1
      [] type = "string"  -> IF p = 1 THEN EmptyText ELSE Text(3, "abc")
      [] type = "[]bool"  -> IF p = 1 THEN Nil ELSE <<TRUE, FALSE>>
      [] type = "[]string" -> IF p = 1 THEN Nil ELSE <<Text(3, "abc"), EmptyText>>
      [] type \in Arrays \ {"[]bool", "[]string"} -> IF p = 1 THEN <<>> ELSE <<3, 2, 1>>
      [] type \in Moments -> IF p = 1 THEN Nil ELSE Noon
      [] type = "Decimal" -> IF p = 1 THEN Nil ELSE [unscaled |-> -129, scale |-> 2]
      [] type \in MomentArrays -> IF p = 1 THEN Nil ELSE <<Noon, Midnight>>
      [] type = "[]Decimal" -> IF p = 1 THEN <<>> ELSE <<[unscaled |-> 128, scale |-> 0], [unscaled |-> 0, scale |-> 9]>>

Everything(p) == [n \in DOMAIN PortableTypes |-> PField(n, PortableTypes[n], PortableValue(PortableTypes[n], p))]
                 \o <<RawData(17)>>

\* class 3 of two versions inside class 4 inside class 5
Leaf(version) == Portable(3, version, <<PField(1, "int32", 5)>>)
Middle(v)     == Portable(4, 1, <<PortableField(2, "Portable", v, <<1, 3>>), PField(3, "string", Text(2, "in"))>>)
Outer(v, m)   == Portable(5, 1, <<PortableField(4, "[]Portable", v, <<1, 4>>),
                                  PortableField(5, "Portable", m, <<1, 4>>)>>)
Elder == Portable(2, 0, <<PField(1, "uint8", 200), PField(2, "int16", -3), PField(3, "int32", 7), PField(4, "string", EmptyText)>>)
Younger == Portable(2, 1, <<PField(1, "int16", 0), PField(2, "int64", 0), PField(3, "float64", 0), PField(4, "string", EmptyText),
                            PField(5, "[]int32", Nil), PField(6, "bool", FALSE), PField(7, "Date", Nil), PField(8, "Portable", Nil)>>)

MCPortableFactories ==
    (<<1, 1>> :> [version |-> 1, reads |-> Everything(1)]) @@ (<<1, 2>> :> [version |-> 1, reads |-> Younger.fields])
    @@ (<<1, 3>> :> [version |-> 1, reads |-> Leaf(1).fields]) @@ (<<1, 4>> :> [version |-> 1, reads |-> Middle(Nil).fields])
    @@ (<<1, 5>> :> [version |-> 1, reads |-> Outer(Nil, Nil).fields])
MCClassDefinitions ==
    {[factory |-> 1, class |-> 3, version |-> 0, fields |-> (Text(1, "a") :> NewFieldDefinition(0, "int32", 0, 0, 0))]}

Portables ==
    {Portable(1, 1, Everything(p)) : p \in 1..2} \union {Elder} \union {Leaf(1), Leaf(0)}
    \union {Middle(Nil), Middle(Leaf(1)), Middle(Leaf(0))}
    \union {Outer(<<Middle(Leaf(1)), Middle(Nil)>>, Middle(Leaf(1))), Outer(<<>>, Middle(Leaf(1))),
            Outer(<<Middle(Leaf(0))>>, Middle(Leaf(0)))}

MCObjects == Singles \union Nested \union Compacts \union {Obj("portable", p) : p \in Portables}
\* the classes that are inside one another
MCRepeated == {Obj("portable", p) : p \in {q \in Portables : q.class \in 3..5}}
MCCustomSerializers == [custom |-> 50]

---------------------------------------------------------------------------
Init ==
    /\ scenario \in {"codec", "reader", "serial"}
    /\ CodecInit /\ (scenario # "codec" => codec = AllCodecs[1] /\ part = "request" /\ profile = "empty")
    /\ ReaderInit /\ (scenario # "reader" => stream = CHOOSE s \in Streams : TRUE)
    /\ SerialInit /\ (scenario # "serial" => config.bigEndian /\ config.global = Nil)
    /\ (config.global # Nil => ~config.bigEndian)

Next ==
    /\ scenario' = scenario
    /\ \/ scenario = "codec" /\ CodecNext /\ UNCHANGED <<readerVars, serialVars>>
       \/ scenario = "reader" /\ ReaderNext /\ UNCHANGED <<codecVars, serialVars>>
       \/ scenario = "serial" /\ SerialNext /\ UNCHANGED <<codecVars, readerVars>>

Spec == Init /\ [][Next]_<<scenario, codecVars, readerVars, serialVars>>
=============================================================================
