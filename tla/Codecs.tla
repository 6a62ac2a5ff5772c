-------------------------------- MODULE Codecs --------------------------------
(***************************************************************************)
(* Encode and Decode walk the descriptors of BuiltinCodecs the way the     *)
(* functions of builtin.go call each other.  Then one message on its way   *)
(* between this client and a member: a request the client writes, or an    *)
(* answer, an error or an event a member writes and the client reads.  The *)
(* protocol packs the fixed size fields of a message behind its header in  *)
(* order; a member does so (external), the client uses the offsets its     *)
(* generated codecs declare.                                               *)
(***************************************************************************)
EXTENDS MapCodecs, CollectionCodecs, ServiceCodecs

---------------------------------------------------------------------------
(***************************************************************************)
(* The frame iterator.                                                     *)
(***************************************************************************)
RECURSIVE FastForward(_, _, _)
FastForward(frames, pos, expectedEndFrames) ==
    IF expectedEndFrames = 0 THEN pos
    ELSE FastForward(frames, pos + 1,
            CASE IsEndFrame(frames[pos])   -> expectedEndFrames - 1
              [] IsBeginFrame(frames[pos]) -> expectedEndFrames + 1
              [] OTHER                     -> expectedEndFrames)

\* a mutant that takes the end of a nested structure for the end of this one
FastForwardToFirstEnd(frames, pos) ==
    1 + CHOOSE p \in pos..Len(frames) : IsEndFrame(frames[p]) /\ \A q \in pos..(p - 1) : ~IsEndFrame(frames[q])

FastForwardToEndFrame(frames, pos) == FastForward(frames, pos, 1)

---------------------------------------------------------------------------
(***************************************************************************)
(* Fixed size records: the elements of single frame lists and of the       *)
(* columns of an SQL page.                                                 *)
(***************************************************************************)
RECURSIVE RecordWidth(_)
RecordWidth(types) == IF types = <<>> THEN 0 ELSE Width[Head(types)] + RecordWidth(Tail(types))

EncodeRecord(types, v) ==
    LET n == Len(types)
        PutItem(buffer, k) == Put(buffer, RecordWidth(SubSeq(types, 1, k - 1)), EncodeFixed(types[k], v.s[k].a))
    IN  FoldLeft(PutItem, Bytes(RecordWidth(types)), [k \in 1..n |-> k])

DecodeRecord(types, buffer, offset) ==
    Parts([k \in DOMAIN types |->
        Atom(DecodeFixed(types[k], buffer, offset + RecordWidth(SubSeq(types, 1, k - 1))))])

EncodeListFixed(types, v) ==
    <<NewFrame(FlattenSeq([k \in DOMAIN v.s |-> EncodeRecord(types, v.s[k])]))>>

DecodeListFixed(types, frames, pos) ==
    LET content   == frames[pos].content
        itemCount == Len(content) \div RecordWidth(types)
    IN  Read(Parts([k \in 1..itemCount |-> DecodeRecord(types, content, (k - 1) * RecordWidth(types))]), pos + 1)

---------------------------------------------------------------------------
(***************************************************************************)
(* SQL pages.  A column of a fixed size type is one frame: kind, count and *)
(* the items; when only some are null, every 8 items are preceded by a     *)
(* bit mask of those that are present.  Members write it (Encode...).      *)
(***************************************************************************)
cnFixedSizeTypeNull    == 1
cnFixedSizeTypeNotNull == 2
cnFixedSizeTypeMixed   == 3
cnHeaderSize           == Width["Byte"] + Width["Int"]
cnItemsPerBitmask      == 8

Bit(mask, i) == (mask \div (2 ^ i)) % 2

RECURSIVE MaskOf(_)
MaskOf(bits) == IF bits = {} THEN 0 ELSE LET i == CHOOSE i \in bits : TRUE IN 2 ^ i + MaskOf(bits \ {i})

EncodeListCNFixedSize(types, items) ==
    LET n        == Len(items)
        absent   == {k \in 1..n : items[k] = Null}
        kind     == CASE Cardinality(absent) = n -> cnFixedSizeTypeNull
                      [] absent = {}             -> cnFixedSizeTypeNotNull
                      [] OTHER                   -> cnFixedSizeTypeMixed
        header   == CellsOf(<<kind>>, 1) \o CellsOf(<<n>>, 4)
        Item(k)  == IF k \in absent THEN <<>> ELSE EncodeRecord(types, items[k])
        Mask(k)  == CellsOf(<<MaskOf({i \in 0..7 : k + i <= n /\ k + i \notin absent})>>, 1)
        Chunk(k) == IF kind = cnFixedSizeTypeMixed /\ (k - 1) % 8 = 0 THEN Mask(k) \o Item(k) ELSE Item(k)
    IN  <<NewFrame(header \o FlattenSeq([k \in 1..n |-> Chunk(k)]))>>

\* The loop over the batches of a mixed column: result is what was read so
\* far, bitmask the one of the current batch.
RECURSIVE ReadMixed(_, _, _, _, _, _)
ReadMixed(types, buf, pos, count, bitmask, result) ==
    LET i == Len(result) % cnItemsPerBitmask
    IN  CASE Len(result) = count -> result
          [] Len(result) < count /\ i = 0 /\ bitmask = <<>> ->
                ReadMixed(types, buf, pos + 1, count, Get(buf, pos, 1), result)
          [] OTHER ->
                LET present == Bit(bitmask[1], i) = 1
                IN  ReadMixed(types, buf, IF present THEN pos + RecordWidth(types) ELSE pos, count,
                              IF i = cnItemsPerBitmask - 1 THEN <<>> ELSE bitmask,
                              Append(result, IF present THEN DecodeRecord(types, buf, pos) ELSE Null))

DecodeListCNFixedSize(types, frames, pos) ==
    LET buf   == frames[pos].content
        typ   == Get(buf, 0, 1)[1]
        count == Get(buf, 1, 4)[1]
        items == CASE typ = cnFixedSizeTypeNull    -> [k \in 1..count |-> Null]
                   [] typ = cnFixedSizeTypeNotNull ->
                        [k \in 1..count |-> DecodeRecord(types, buf, cnHeaderSize + (k - 1) * RecordWidth(types))]
                   [] OTHER -> ReadMixed(types, buf, cnHeaderSize, count, <<>>, <<>>)
    IN  Read(Parts(items), pos + 1)

EncodeListCNNull(n) == <<NewFrame(CellsOf(<<n>>, 4))>>

DecodeListCNNull(frames, pos) ==
    Read(Parts([k \in 1..Get(frames[pos].content, 0, 4)[1] |-> Null]), pos + 1)

\* An unscaled value of n bytes between its length and its scale.
EncodeDecimal(v, n) ==
    <<NewFrame(CellsOf(<<n>>, 4) \o CellsOf(v.a, n) \o CellsOf(v.a \o <<0>>, 4))>>

DecodeDecimal(frames, pos) ==
    LET content == frames[pos].content
        bl      == Get(content, 0, 4)[1]
        bint    == Get(content, 4, bl)
        scale   == Get(content, 4 + bl, 4)
    IN  Read(Atom(IF scale = bint \o <<0>> THEN bint ELSE Garbage), pos + 1)

---------------------------------------------------------------------------
(***************************************************************************)
(* Writing a parameter                                                     *)
(***************************************************************************)
Wrapped(frames) == <<BeginFrame>> \o frames \o <<EndFrame>>

\* What a newer member appends to a structure: a parameter of one frame and
\* one that is a structure itself.
Unknown(peer) == IF peer = "newer" THEN EncodeString(Blank) \o Wrapped(EncodeString(Blank) \o Wrapped(<<>>)) ELSE <<>>

EncodePage(v, peer, column(_, _)) ==
    LET types == v.s[2]
    IN  Wrapped(<<NewFrame(EncodeBoolean(v.s[1].a))>> \o EncodeListFixed(<<"Int">>, types)
                \o FlattenSeq([k \in DOMAIN types.s |-> column(types.s[k].s[1].a[1], v.s[k + 2])])
                \o Unknown(peer))

RECURSIVE Encode(_, _, _)
Encode(t, v, peer) ==
    LET All(ts, vs) == FlattenSeq([k \in DOMAIN ts |-> Encode(ts[k], vs[k], peer)])
        Each(of, vs) == FlattenSeq([k \in DOMAIN vs |-> Encode(of, vs[k], peer)])
        Column(type, items) ==
            CASE type = ColumnTypeNull       -> EncodeListCNNull(Len(items.s))
              [] type \in DOMAIN FixedColumns -> EncodeListCNFixedSize(FixedColumns[type], items.s)
              [] OTHER                        -> Encode(MultiFrameColumns[type], items, peer)
    IN  CASE t.k = "String"         -> EncodeString(v)
          [] t.k = "Data"           -> EncodeData(v)
          [] t.k = "ByteArray"      -> EncodeByteArray(v)
          [] t.k = "Decimal"        -> EncodeDecimal(v, 3)
          [] t.k = "NullableString" -> EncodeNullableForString(v)
          [] t.k = "NullableData"   -> EncodeNullableData(v)
          [] t.k = "Nullable"       -> IF v = Null THEN <<NullFrame>> ELSE Encode(t.of, v, peer)
          [] t.k = "FixedList"      -> EncodeListFixed(t.types, v)
          [] t.k = "List"           -> Wrapped(Each(t.of, v.s))
          [] t.k = "NullableElements" ->
                Wrapped(FlattenSeq([k \in DOMAIN v.s |->
                    IF v.s[k] = Null THEN <<NullFrame>> ELSE Encode(t.of, v.s[k], peer)]))
          [] t.k = "Pairs"          ->
                Wrapped(FlattenSeq([k \in DOMAIN v.s |-> All(<<t.key, t.value>>, v.s[k].s)]))
          [] t.k = "UUIDListInteger" ->
                Wrapped(Each(ListInteger, [k \in DOMAIN v.s |-> v.s[k].s[2]]))
                \o EncodeListFixed(<<"UUID">>, Parts([k \in DOMAIN v.s |-> v.s[k].s[1]]))
          [] t.k = "Struct"         ->
                LET f      == Len(t.fixed)
                    n      == Len(t.params) - IF peer = "older" THEN t.optional ELSE 0
                    fields == EncodeFields(t.size, t.fixed, v.s, peer)
                IN  Wrapped((IF t.fixed = <<>> THEN <<>> ELSE <<NewFrame(fields)>>)
                            \o All(SubSeq(t.params, 1, n), SubSeq(v.s, f + 1, f + n)) \o Unknown(peer))
          [] t.k = "SQLPage"        -> EncodePage(v, peer, Column)

---------------------------------------------------------------------------
(***************************************************************************)
(* Reading a parameter: its value and the position after it.               *)
(***************************************************************************)
RECURSIVE Decode(_, _, _), DecodeUntilEnd(_, _, _), DecodeAll(_, _, _, _)

\* for !NextFrameIsDataStructureEndFrame { append }, and the end frame
DecodeUntilEnd(ts, frames, pos) ==
    IF NextFrameIsDataStructureEndFrame(frames, pos) THEN Read(<<>>, pos + 1)
    ELSE LET r    == DecodeAll(ts, 0, frames, pos)
             rest == DecodeUntilEnd(ts, frames, r.pos)
         IN  Read(<<Parts(r.v)>> \o rest.v, rest.pos)

\* One parameter after the other; the last `optional` ones are read unless
\* the end frame comes first.
DecodeAll(ts, optional, frames, pos) ==
    IF ts = <<>> THEN Read(<<>>, pos)
    ELSE LET missing == Len(ts) <= optional /\ NextFrameIsDataStructureEndFrame(frames, pos)
             r    == IF missing THEN Read(Empty, pos) ELSE Decode(Head(ts), frames, pos)
             rest == DecodeAll(Tail(ts), optional, frames, r.pos)
         IN  Read(<<r.v>> \o rest.v, rest.pos)

DecodeNullableElement(t, frames, pos) ==
    IF NextFrameIsNullFrame(frames, pos) THEN Read(Null, pos + 1) ELSE Decode(t, frames, pos)

RECURSIVE DecodeListMultiFrameContainsNullable(_, _, _)
DecodeListMultiFrameContainsNullable(t, frames, pos) ==
    IF NextFrameIsDataStructureEndFrame(frames, pos) THEN Read(<<>>, pos + 1)
    ELSE LET r    == DecodeNullableElement(t, frames, pos)
             rest == DecodeListMultiFrameContainsNullable(t, frames, r.pos)
         IN  Read(<<r.v>> \o rest.v, rest.pos)

DecodeSQLColumn(type, frames, pos) ==
    CASE type = ColumnTypeNull        -> DecodeListCNNull(frames, pos)
      [] type \in DOMAIN FixedColumns -> DecodeListCNFixedSize(FixedColumns[type], frames, pos)
      [] OTHER                        -> Decode(MultiFrameColumns[type], frames, pos)

RECURSIVE DecodeColumns(_, _, _)
DecodeColumns(types, frames, pos) ==
    IF types = <<>> THEN Read(<<>>, pos)
    ELSE LET r    == DecodeSQLColumn(Head(types).s[1].a[1], frames, pos)
             rest == DecodeColumns(Tail(types), frames, r.pos)
         IN  Read(<<r.v>> \o rest.v, rest.pos)

DecodeSQLPage(frames, pos) ==
    LET last  == Atom(DecodeBoolean(frames[pos + 1].content, 0))
        types == DecodeListFixed(<<"Int">>, frames, pos + 2)
        cols  == DecodeColumns(types.v.s, frames, types.pos)
    IN  Read(Parts(<<last, types.v>> \o cols.v), FastForwardToEndFrame(frames, cols.pos))

DecodeUUIDListInteger(frames, pos) ==
    LET values == DecodeUntilEnd(<<ListInteger>>, frames, pos + 1)
        keys   == DecodeListFixed(<<"UUID">>, frames, values.pos)
    IN  Read(Parts([k \in DOMAIN keys.v.s |-> Parts(<<keys.v.s[k], values.v[k].s[1]>>)]), keys.pos)

DecodeStruct(t, frames, pos) ==
    LET fields == IF t.fixed = <<>> THEN <<>> ELSE DecodeFields(t.fixed, frames[pos + 1].content)
        params == DecodeAll(t.params, t.optional, frames, pos + IF t.fixed = <<>> THEN 1 ELSE 2)
    IN  Read(Parts(fields \o params.v), FastForwardToEndFrame(frames, params.pos))

Decode(t, frames, pos) ==
    CASE t.k = "String"         -> DecodeString(frames, pos)
      [] t.k \in {"Data", "ByteArray"} -> DecodeData(frames, pos)
      [] t.k = "Decimal"        -> DecodeDecimal(frames, pos)
      [] t.k = "NullableString" -> DecodeNullableForString(frames, pos)
      [] t.k = "NullableData"   -> DecodeNullableForData(frames, pos)
      [] t.k = "Nullable"       -> DecodeNullableElement(t.of, frames, pos)
      [] t.k = "FixedList"      -> DecodeListFixed(t.types, frames, pos)
      [] t.k = "List"           ->
            LET r == DecodeUntilEnd(<<t.of>>, frames, pos + 1)
            IN  Read(Parts([k \in DOMAIN r.v |-> r.v[k].s[1]]), r.pos)
      [] t.k = "NullableElements" ->
            LET r == DecodeListMultiFrameContainsNullable(t.of, frames, pos + 1) IN Read(Parts(r.v), r.pos)
      [] t.k = "Pairs"          ->
            LET r == DecodeUntilEnd(<<t.key, t.value>>, frames, pos + 1) IN Read(Parts(r.v), r.pos)
      [] t.k = "UUIDListInteger" -> DecodeUUIDListInteger(frames, pos)
      [] t.k = "Struct"         -> DecodeStruct(t, frames, pos)
      [] t.k = "SQLPage"        -> DecodeSQLPage(frames, pos)

---------------------------------------------------------------------------
(***************************************************************************)
(* Messages                                                                *)
(***************************************************************************)
\* Encode...Request: the fixed size fields, the header, the parameters.
EncodeRequest(r, values) ==
    LET n       == Len(r.fixed)
        initial == NewFrameWith(EncodeFields(r.size, r.fixed, values, "same"), UnfragmentedMessage)
        first   == SetPartitionId(SetMessageType(<<initial>>, <<r.type>>), <<-1>>)
    IN  first \o FlattenSeq([k \in DOMAIN r.params |-> Encode(r.params[k], values[n + k], "same")])

\* Decode...Response and the branch of Handle... for an event.
DecodeMessage(m, frames) ==
    DecodeFields(m.fixed, frames[1].content) \o DecodeAll(m.params, 0, frames, 2).v

---------------------------------------------------------------------------
AllCodecs == MapMessages \o CollectionMessages \o ServiceMessages

Profiles == {"null", "empty", "blank", "full"}

VARIABLES
    codec,    \* the codec
    part,     \* "request", "response", "error" or the number of an event
    profile,  \* which values the parameters have
    rows,     \* which rows of an SQL page have values
    peer,     \* the version of the member that writes
    frames,   \* the frames on the wire
    received  \* what the reader got

codecVars == <<codec, part, profile, rows, peer, frames, received>>

---------------------------------------------------------------------------
(***************************************************************************)
(* Sample values.  Every field has a value of its own, so that one that is *)
(* read from the wrong place is noticed; Booleans alternate.               *)
(***************************************************************************)
SampleField(type, p, path) ==
    Atom(CASE type = "Boolean" -> IF (Last(path) % 2 = 0) = (p = "full") THEN One ELSE Zero
           [] type = "UUID" /\ p = "null" -> Zero
           [] OTHER -> path)

Count(p) == CASE p \in {"null", "empty"} -> 0 [] p = "blank" -> 1 [] p = "full" -> 2

SampleRecord(types, p, path) == Parts([k \in DOMAIN types |-> SampleField(types[k], p, Append(path, k))])

\* A page with a column of every type.
SamplePage(p, path, Item(_, _)) ==
    LET types == [k \in 1..16 |-> k - 1]
    IN  Parts(<<Atom(IF p = "full" THEN One ELSE Zero),
                Parts([k \in 1..16 |-> Parts(<<Atom(<<types[k]>>)>>)])>>
              \o [k \in 1..16 |-> Parts([r \in DOMAIN rows |->
                    IF rows[r] /\ types[k] # ColumnTypeNull THEN Item(types[k], path \o <<k, r>>) ELSE Null])])

RECURSIVE Sample(_, _, _)
Sample(t, p, path) ==
    LET Item(type, q) ==
            CASE type \in DOMAIN FixedColumns -> SampleRecord(FixedColumns[type], p, q)
              [] type = 15 -> Parts(<<Atom(q)>>)
              [] OTHER     -> Atom(q)
        Many(Element(_)) == Parts([k \in 1..Count(p) |-> Element(Append(path, k))])
    IN  CASE t.k = "String" /\ p = "empty"  -> Empty
          [] t.k = "NullableString" /\ p \in {"null", "empty"} -> Empty
          [] t.k = "NullableString" /\ p = "blank" -> Blank
          [] t.k \in {"NullableData", "Nullable"} /\ p = "null" -> Null
          [] t.k = "Nullable" /\ p # "null" -> Sample(t.of, p, path)
          [] t.k = "FixedList" -> Many(LAMBDA q : SampleRecord(t.types, p, q))
          [] t.k = "List"      -> Many(LAMBDA q : Sample(t.of, p, q))
          [] t.k = "NullableElements" -> Many(LAMBDA q : IF Last(q) = 1 THEN Null ELSE Sample(t.of, p, q))
          [] t.k = "Pairs"     ->
                Many(LAMBDA q : Parts(<<Sample(t.key, p, Append(q, 1)), Sample(t.value, p, Append(q, 2))>>))
          [] t.k = "UUIDListInteger" ->
                Many(LAMBDA q : Parts(<<SampleRecord(<<"UUID">>, p, Append(q, 1)),
                                        Sample(ListInteger, p, Append(q, 2))>>))
          [] t.k = "Struct"    ->
                Parts([k \in DOMAIN t.fixed |-> SampleField(t.fixed[k].type, p, path \o <<1, k>>)]
                      \o [k \in DOMAIN t.params |-> Sample(t.params[k], p, path \o <<2, k>>)])
          [] t.k = "SQLPage"   -> SamplePage(p, path, Item)
          [] OTHER             -> Atom(path)

Message == IF part = "request" THEN codec.request
           ELSE IF part = "response" THEN codec.response
           ELSE IF part = "error" THEN Response(<<>>, <<DecodeError>>)
           ELSE codec.events[IF part = "event1" THEN 1 ELSE 2]

Values(p) ==
    [k \in DOMAIN Message.fixed |-> SampleField(Message.fixed[k].type, p, <<5, k>>)]
    \o [k \in DOMAIN Message.params |-> Sample(Message.params[k], p, <<6, k>>)]

\* What the reader makes of a written value.
RECURSIVE Expected(_, _)
Expected(t, v) ==
    LET n == Len(t.fixed)
    IN  CASE t.k = "NullableString" -> IF v \in {Blank, Null} THEN Empty ELSE v
          [] t.k = "Nullable" /\ v # Null -> Expected(t.of, v)
          [] t.k = "List"   -> Parts([k \in DOMAIN v.s |-> Expected(t.of, v.s[k])])
          [] t.k = "Pairs"  -> Parts([k \in DOMAIN v.s |->
                                  Parts(<<Expected(t.key, v.s[k].s[1]), Expected(t.value, v.s[k].s[2])>>)])
          [] t.k = "Struct" ->
                Parts([k \in DOMAIN t.fixed |->
                          IF peer = "older" /\ t.fixed[k].guard # "always" THEN Atom(Zero) ELSE v.s[k]]
                      \o [k \in DOMAIN t.params |->
                          IF peer = "older" /\ k > Len(t.params) - t.optional THEN Empty
                          ELSE Expected(t.params[k], v.s[n + k])])
          [] OTHER -> v

---------------------------------------------------------------------------
(***************************************************************************)
(* The member (external): packed fields, every parameter it knows.         *)
(***************************************************************************)
HeaderSize == IF part \in {"response", "error"} THEN ResponseHeaderSize ELSE RequestHeaderSize

Packed(fixed) ==
    [k \in DOMAIN fixed |->
        [fixed[k] EXCEPT !.offset = HeaderSize + RecordWidth([j \in 1..(k - 1) |-> fixed[j].type])]]

PackedSize(fixed) == HeaderSize + RecordWidth([j \in DOMAIN fixed |-> fixed[j].type])

MessageTypeOf ==
    CASE part = "response" -> codec.request.type + 1
      [] part = "error"    -> 0
      [] OTHER             -> Message.type

MemberWrites ==
    LET n       == Len(Message.fixed)
        values  == Values(profile)
        content == EncodeFields(PackedSize(Message.fixed), Packed(Message.fixed), values, peer)
        first   == SetMessageType(<<NewFrameWith(content, UnfragmentedMessage)>>, <<MessageTypeOf>>)
    IN  first \o FlattenSeq([k \in DOMAIN Message.params |-> Encode(Message.params[k], values[n + k], peer)])
        \o Unknown(peer)

MemberReads(fs) ==
    LET params == DecodeAll(Message.params, 0, fs, 2)
    IN  [values |-> DecodeFields(Packed(Message.fixed), fs[1].content) \o params.v,
         rest   |-> Len(fs) + 1 - params.pos]

---------------------------------------------------------------------------
Nothing == [values |-> <<>>, rest |-> -1]

\* Pages shorter than, as long as and longer than the 8 items of a bit mask,
\* with at most two values or at most two nulls.
RowPatterns ==
    UNION {{pattern \in [1..n -> BOOLEAN] : \E b \in BOOLEAN : Cardinality({r \in 1..n : pattern[r] = b}) <= 2} :
           n \in {0, 1, 7, 8, 9}}

HasPage == part = "response" /\ DecodeNullableForSQLPage \in Range(codec.response.params)

CodecInit ==
    /\ codec \in Range(AllCodecs)
    /\ part \in {"request", "response"} \union {<<"event1", "event2">>[k] : k \in DOMAIN codec.events}
                \union (IF codec = AllCodecs[1] THEN {"error"} ELSE {})
    /\ profile \in Profiles
    /\ rows \in IF HasPage /\ profile = "full" THEN RowPatterns ELSE {<<>>}
    /\ peer \in IF part = "request" THEN {"same"} ELSE Peers
    /\ frames = <<>>
    /\ received = Nothing

\* The invocation sets the correlation ID of a request before it is written.
SendRequest ==
    /\ part = "request" /\ frames = <<>>
    /\ frames' = Write(SetCorrelationID(EncodeRequest(Message, Values(profile)), <<7, 7>>))
    /\ UNCHANGED <<codec, part, profile, rows, peer, received>>

SendAnswer ==
    /\ part # "request" /\ frames = <<>>
    /\ frames' = Write(SetCorrelationID(MemberWrites, <<7, 7>>))
    /\ UNCHANGED <<codec, part, profile, rows, peer, received>>

ReadRequest ==
    /\ part = "request" /\ frames # <<>> /\ received = Nothing
    /\ received' = MemberReads(frames)
    /\ UNCHANGED <<codec, part, profile, rows, peer, frames>>

ReadAnswer ==
    /\ part # "request" /\ frames # <<>> /\ received = Nothing
    /\ received' = [values |-> DecodeMessage(Message, frames), rest |-> 0]
    /\ UNCHANGED <<codec, part, profile, rows, peer, frames>>

CodecNext == SendRequest \/ SendAnswer \/ ReadRequest \/ ReadAnswer


---------------------------------------------------------------------------
ExpectedValues ==
    LET n == Len(Message.fixed)
        values == Values(profile)
        Lost(f) == (peer = "older" /\ f.guard # "always") \/ (peer = "same" /\ f.guard = ">")
    IN  [k \in 1..n |-> IF Lost(Message.fixed[k]) THEN Atom(Zero) ELSE values[k]]
        \o [k \in DOMAIN Message.params |-> Expected(Message.params[k], values[n + k])]

(***************************************************************************)
(* A member that reads a request finds every parameter the client passed,  *)
(* nothing behind the last one, and the header the invocation wrote: no    *)
(* field of any codec overlaps another one or the header, leaves a gap or  *)
(* is written with another width than its successor's offset allows for.   *)
(* The run writes sample values; that the layout is sound is asked for     *)
(* itself, because it is what makes every other value arrive, too.         *)
(***************************************************************************)
RequestArrives ==
    (part = "request" /\ received # Nothing) =>
        /\ LaidOut(RequestHeaderSize, Message.size, Message.fixed)
        /\ received = [values |-> ExpectedValues, rest |-> 0]
        /\ MessageType(frames) = <<Message.type>> /\ CorrelationID(frames) = <<7, 7>>
        /\ PartitionID(frames) = <<-1>>
        /\ \A k \in DOMAIN frames : IsFinalFrame(frames[k]) <=> k = Len(frames)

(***************************************************************************)
(* The client reads from an answer, an error or an event of a member of    *)
(* its own, an older or a newer version the values the member wrote:       *)
(* unknown fields, parameters and nested structures are skipped, missing   *)
(* ones have their default.  The one exception is isInfiniteRows of        *)
(* SqlExecute, whose length guard asks for one byte too many: it is lost   *)
(* unless the member writes something behind it.                           *)
(***************************************************************************)
AnswerUnderstood ==
    (part # "request" /\ received # Nothing) => received.values = ExpectedValues

Types(c) == {c.request.type, c.request.type + 1} \union {c.events[k].type : k \in DOMAIN c.events}

(***************************************************************************)
(* Listeners and pending invocations are told apart by the type of the     *)
(* message alone: no other codec uses a type of this one, and the events   *)
(* of a codec are neither its request nor its answer nor each other.       *)
(***************************************************************************)
TypesUnambiguous ==
    /\ Cardinality({n \in DOMAIN AllCodecs : Types(AllCodecs[n]) \intersect Types(codec) # {}}) = 1
    /\ Cardinality(Types(codec)) = 2 + Len(codec.events)
=============================================================================
