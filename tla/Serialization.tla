------------------------------ MODULE Serialization ------------------------------
(***************************************************************************)
(* The serialization service (serialization.go) of two clients that        *)
(* exchange objects through the cluster: one turns an object into Data,    *)
(* the other or the same one turns the Data into an object.  What a client *)
(* learns on the way, schemas and class definitions, stays with it.        *)
(***************************************************************************)
EXTENDS CompactSerialization, PortableSerialization

CONSTANTS
    Objects,            \* what they exchange
    CustomSerializers,  \* Go type -> ID of the user's serializer for it
    GlobalSerializer,   \* ID of the user's global serializer
    ClassDefinitions,   \* class definitions of the configuration
    Repeated,           \* bound: the objects that are exchanged one after another
    MaxRounds           \* bound on the objects exchanged

VARIABLES
    service,   \* client -> the schemas and class definitions it has learned
    config,    \* the byte order and the global serializer of the clients
    sent,      \* the object on its way
    data,      \* its Data
    returned,  \* the client that read it and what it got
    rounds     \* number of objects sent

serialVars == <<service, config, sent, data, returned, rounds>>

---------------------------------------------------------------------------
\* the serializer of an object and the type ID it writes
Serializer(kind, name, id) == [kind |-> kind, name |-> name, id |-> id]

LookUpDefaultSerializer(known, obj) ==
    LET Or(builtin) ==
            CASE builtin # Nil -> Serializer("builtin", builtin, TypeOf[builtin])
              [] builtin = Nil /\ IsRegisteredAsCompact(known, obj.go) -> Serializer("compact", obj.go, TypeCompact)
              [] obj.go = "identified" -> Serializer("identified", obj.go, TypeDataSerializable)
              [] obj.go = "portable"   -> Serializer("portable", obj.go, TypePortable)
              [] OTHER                 -> Nil
    IN  Or(lookupBuiltinSerializer(obj))

lookUpCustomSerializer(obj) ==
    IF obj.go \in DOMAIN CustomSerializers THEN Serializer("user", obj.go, CustomSerializers[obj.go]) ELSE Nil

lookUpGlobalSerializer == IF config.global = Nil THEN Nil ELSE Serializer("user", "global", config.global)

gobSerializer == Serializer("builtin", "gob", TypeOf["gob"])

FindSerializerFor(known, obj) ==
    LET candidates == <<LookUpDefaultSerializer(known, obj), lookUpCustomSerializer(obj), lookUpGlobalSerializer,
                        gobSerializer>>
    IN  Head(SelectSeq(candidates, LAMBDA s : s # Nil))

\* what reads a type: builtin, compact, portable and identified come first
registry ==
    [id \in {CustomSerializers[go] : go \in DOMAIN CustomSerializers} \union ({config.global} \ {Nil}) |->
        IF id = config.global THEN "global" ELSE CHOOSE go \in DOMAIN CustomSerializers : CustomSerializers[go] = id]

lookupBuiltinDeserializer(id) ==
    CASE id = TypeCompact  -> Serializer("compact", "compact", id)
      [] id = TypePortable -> Serializer("portable", "portable", id)
      [] id = TypeDataSerializable -> Serializer("identified", "identified", id)
      [] id \in DOMAIN BuiltinDeserializers -> Serializer("builtin", BuiltinDeserializers[id], id)
      [] OTHER -> Nil

DeserializerOf(id) ==
    IF lookupBuiltinDeserializer(id) # Nil THEN lookupBuiltinDeserializer(id)
    ELSE IF id \in DOMAIN registry THEN Serializer("user", registry[id], id) ELSE Nil

---------------------------------------------------------------------------
RECURSIVE WriteObject(_, _), ReadObject(_), WriteWith(_, _, _), ReadWith(_, _)

\* a user's serializer writes the object as one piece, like gob
WriteWith(s, o, obj) ==
    CASE s.kind = "builtin"    -> BuiltinWrite(s.name, o, obj, WriteObject)
      [] s.kind = "compact"    -> CompactWrite(o, obj)
      [] s.kind = "identified" -> IdentifiedWrite(o, obj, WriteObject)
      [] s.kind = "portable"   -> PortableWrite(o, obj.v)
      [] s.kind = "user"       -> WriteGob(o, obj)

ReadWith(s, i) ==
    CASE s.kind = "builtin"    -> BuiltinRead(s.name, i, ReadObject)
      [] s.kind = "compact"    -> CompactRead(i)
      [] s.kind = "identified" -> IdentifiedRead(i, ReadObject)
      [] s.kind = "portable"   -> PortableRead(i)
      [] s.kind = "user"       -> ReadGob(i)

WriteObject(o, obj) ==
    LET By(s) == WriteWith(s, WriteInt32(o, s.id), obj) IN By(FindSerializerFor(o.service, obj))

ReadBy(s, i)  == IF s = Nil THEN Result(Broken, i) ELSE ReadWith(s, i)
ReadObject(i) == ReadBy(DeserializerOf(ReadInt32(i).v), Advance(i, 4))

DataOffset == 8

\* the partition hash and the type stand in front, big endian
ToData(client, obj) ==
    LET o == NewObjectDataOutput(service[client], config.bigEndian)
        By(s) == WriteWith(s, WriteInt32BigEndian(WriteInt32BigEndian(o, 0), s.id), obj)
    IN  By(FindSerializerFor(service[client], obj))

ToObject(client, d) ==
    LET i == NewObjectDataInput(d, DataOffset, service[client], config.bigEndian)
    IN  ReadBy(DeserializerOf(Load(i, 4, 4, "big")), i)

---------------------------------------------------------------------------
Nobody   == "nobody"
NotRead  == [by |-> Nobody, object |-> NilObject]
Failed   == Obj("error", Broken)

SerialInit ==
    /\ service = [c \in Clients |-> [client |-> c, schemas |-> {}, classes |-> ClassDefinitions]]
    /\ config \in [bigEndian : BOOLEAN, global : {Nil, GlobalSerializer}]
    /\ sent = NilObject /\ data = Nil /\ returned = NotRead /\ rounds = 0

CanWrite(c, obj) == obj.go \in DOMAIN CompactTypes => obj.go \in CompactTypesOf[c]

Send(c, obj) ==
    /\ data = Nil /\ rounds < MaxRounds
    /\ (rounds > 0 => {sent, obj} \subseteq Repeated) /\ CanWrite(c, obj)
    /\ \E o \in {ToData(c, obj)} :
          /\ service' = [service EXCEPT ![c] = o.service]
          /\ data' = IF o.failed THEN Nil ELSE o
          /\ returned' = IF o.failed THEN [by |-> c, object |-> Failed] ELSE NotRead
    /\ sent' = obj /\ rounds' = rounds + 1
    /\ UNCHANGED config

Receive(c) ==
    /\ data # Nil
    /\ \E r \in {ToObject(c, data)} :
          /\ returned' = [by |-> c, object |-> r.v]
          /\ service' = [service EXCEPT ![c] = r.in.service]
    /\ data' = Nil
    /\ UNCHANGED <<config, sent, rounds>>

SerialNext ==
    \/ \E c \in Clients, obj \in Objects : Send(c, obj)
    \/ \E c \in Clients : Receive(c)

---------------------------------------------------------------------------
(***************************************************************************)
(* What has to come out.  Go types that share a type ID come back as the   *)
(* first of them, times without what their type does not have.             *)
(***************************************************************************)
Kept(base, t) ==
    IF t = Nil THEN Nil
    ELSE CASE base \in {"Date", "LocalDate"} -> Moment(t.date, NoClock, Local)
           [] base \in {"Time", "LocalTime"} -> Moment(NoDate, t.clock, Local)
           [] base \in {"Timestamp", "LocalDateTime"} -> [t EXCEPT !.zone = Local]
           [] OTHER -> t
Each(v, F(_)) == IF v = Nil THEN Nil ELSE [n \in DOMAIN v |-> F(v[n])]

\* a field that is written as one kind and read with the method of another
CompactValue(written, read, v, Inner(_)) ==
    LET value == IF read[1] \in {"array", "nullables"} THEN Each(v, Inner) ELSE Inner(v)
        base  == read[2]
    IN  IF written = read THEN value
        ELSE IF written = NullableOf(base) /\ read = Primitive(base) /\ v = Nil THEN Broken
        ELSE IF written = ArrayOfNullable(base) /\ read = ArrayOf(base) /\ v # Nil /\ Nil \in Range(v) THEN Broken
        ELSE IF {written, read} \in {{NullableOf(base), Primitive(base)}, {ArrayOfNullable(base), ArrayOf(base)}}
             THEN value
        ELSE Broken

RECURSIVE ExpectedCompact(_, _)

ExpectedCompact(c, obj) ==
    LET type   == CompactTypes[obj.go]
        go     == typeNameToSerializer(service[c], type.typeName)
        known  == obj.go \in CompactTypesOf[c] \/ typeToSchema[obj.go] \in Replicated
        Inner(base, v) == IF v = Nil THEN Nil
                          ELSE IF base = "Compact" THEN ExpectedCompact(c, v)
                          ELSE IF base \in {"Date", "Time", "Timestamp"} THEN Kept(base, v) ELSE v
        Field(r) ==
            LET w == CHOOSE n \in DOMAIN type.writes : type.writes[n].name = r.name
            IN  IF \A n \in DOMAIN type.writes : type.writes[n].name # r.name THEN Broken
                ELSE CompactValue(type.writes[w].kind, r.kind, obj.v[w], LAMBDA v : Inner(r.kind[2], v))
    IN  IF ~known \/ go = Nil THEN Broken
        ELSE Obj(go, [n \in DOMAIN CompactTypes[go].reads |-> Field(CompactTypes[go].reads[n])])

ElementOf == ("[]Date" :> "Date") @@ ("[]Time" :> "Time") @@ ("[]Timestamp" :> "Timestamp")
             @@ ("[]TimestampWithTimezone" :> "TimestampWithTimezone")

RECURSIVE ExpectedPortable(_)

\* a field the class of the writer does not have is zero, if it is of
\* another version and the morphing reader knows the type
ExpectedPortable(p) ==
    LET own == PortableFactories[<<p.factory, p.class>>]
        Value(r, w) ==
            CASE r.type = "raw" -> w.v
              [] r.type = "Portable"   -> IF w.v = Nil THEN Nil ELSE ExpectedPortable(w.v)
              [] r.type = "[]Portable" -> IF w.v \in {Nil, <<>>} THEN Nil ELSE Each(w.v, ExpectedPortable)
              [] r.type \in Moments    -> Kept(r.type, w.v)
              [] r.type \in MomentArrays -> Each(w.v, LAMBDA t : Kept(ElementOf[r.type], t))
              [] OTHER -> w.v
        Field(r) ==
            LET found == SelectSeq(p.fields, LAMBDA f : f.name = r.name)
                w     == Head(found)
            IN  IF found # <<>>
                THEN IF w.type = r.type \/ (p.version # own.version /\ w.type \in Widens(r.type))
                     THEN Value(r, w) ELSE Broken
                ELSE IF p.version = own.version \/ r.type \in Moments \union MomentArrays \union {"Decimal", "[]Decimal"}
                     THEN Broken ELSE ZeroOf(r.type)
    IN  [factory |-> p.factory, class |-> p.class, version |-> own.version,
         fields |-> [n \in DOMAIN own.reads |-> [own.reads[n] EXCEPT !.v = Field(own.reads[n])]]]

RECURSIVE ExpectedObject(_, _)

ExpectedObject(c, obj) ==
    CASE obj.go = "int"    -> Obj("int64", obj.v)
      [] obj.go = "int8"   -> Obj("uint8", obj.v % 256)
      [] obj.go = "[]int"  -> Obj("[]int64", IF obj.v = Nil THEN <<>> ELSE obj.v)
      [] obj.go = "Time"   -> Obj("Time", Quotient(obj.v, 1000) * 1000)
      [] obj.go = "BigInt" -> Obj("BigInt", IF obj.v = Nil THEN 0 ELSE obj.v)
      [] obj.go \in {"LocalDate", "LocalTime", "LocalDateTime"} -> Obj(obj.go, Kept(obj.go, obj.v))
      [] obj.go = "[]interface{}" ->
            Obj(obj.go, IF obj.v = Nil THEN <<>> ELSE Each(obj.v, LAMBDA e : ExpectedObject(c, e)))
      [] obj.go = "identified" -> [obj EXCEPT !.v.fields = Each(@, LAMBDA e : ExpectedObject(c, e))]
      [] obj.go = "portable"   -> Obj(obj.go, ExpectedPortable(obj.v))
      [] obj.go \in DOMAIN CompactTypes -> ExpectedCompact(c, obj)
      [] OTHER -> obj

(***************************************************************************)
(* What the code is known to get wrong or to refuse (README, Divergences). *)
(***************************************************************************)
\* class definitions are made from an object that has no hole
RECURSIVE HasHole(_)
HasHole(p) ==
    \E n \in DOMAIN p.fields :
        LET f == p.fields[n]
        IN  \/ f.type = "Portable" /\ (IF f.v = Nil THEN TRUE ELSE HasHole(f.v))
            \/ f.type = "[]Portable" /\ (IF f.v \in {Nil, <<>>} THEN TRUE ELSE \E m \in DOMAIN f.v : HasHole(f.v[m]))

\* an array of Booleans that is read with the method of the other kind
SwapsBooleans(obj) ==
    LET type == CompactTypes[obj.go]
    IN  obj.go \in DOMAIN CompactTypes /\
        \E w \in Range(type.writes), r \in Range(type.reads) :
            w.name = r.name /\ {w.kind, r.kind} = {ArrayOf("Boolean"), ArrayOfNullable("Boolean")}

\* a class of one version inside a class of another: a definition that is
\* read from data has the version of the inner class where one that is made
\* from an object has the version of the outer class
RECURSIVE MixesVersions(_)
MixesVersions(p) ==
    \E n \in DOMAIN p.fields :
        LET f     == p.fields[n]
            Mixes(q) == q.version # p.version \/ MixesVersions(q)
        IN  \/ f.type = "Portable" /\ (IF f.v = Nil THEN FALSE ELSE Mixes(f.v))
            \/ f.type = "[]Portable" /\ (IF f.v = Nil THEN FALSE ELSE \E m \in DOMAIN f.v : Mixes(f.v[m]))

\* a definition that was read from such an object
KnowsMixed(known) == \E cd \in known.classes : \E f \in DOMAIN cd.fields : cd.fields[f].version # cd.version

\* an offset of two bytes from 32768 on is read as a negative one
LosesOffsets(obj, read, expected) ==
    /\ obj.go \in DOMAIN CompactTypes
    /\ \E n \in DOMAIN obj.v :
          CompactTypes[obj.go].writes[n].kind = Primitive("String") /\ obj.v[n] # Nil /\ obj.v[n].bytes + 4 > 32767
    /\ \A n \in DOMAIN expected.v : read.v[n] \in {expected.v[n], Broken}

(***************************************************************************)
(* What a client reads is what a client wrote, for every type, in both     *)
(* byte orders, whatever schemas and class definitions either of them has  *)
(* met before: offsets, widths and lengths of the writers and the readers  *)
(* agree, also where a length makes the offsets wider, and class           *)
(* definitions learned from data fit the ones made from objects.           *)
(***************************************************************************)
RoundTrip ==
    returned # NotRead =>
        \/ returned.object = ExpectedObject(returned.by, sent)
        \/ returned.object = Failed /\ sent.go = "portable" /\ HasHole(sent.v)
        \/ /\ returned.object = Obj("portable", Broken) /\ sent.go = "portable"
           /\ MixesVersions(sent.v) \/ KnowsMixed(service[returned.by])
        \/ SwapsBooleans(sent)
        \/ LosesOffsets(sent, returned.object, ExpectedObject(returned.by, sent))
=============================================================================
