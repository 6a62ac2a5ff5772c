---------------------------- MODULE BuiltinCodecs ----------------------------
(***************************************************************************)
(* internal/proto/codec/builtin.go: the types of the parameters of a       *)
(* message, how the values of one frame and the fixed size fields are      *)
(* written and read back, and the structures among the parameters.         *)
(*                                                                         *)
(* A parameter type is a descriptor with a kind k, which the module Codecs *)
(* walks.  A value is a tree [a |-> atom, s |-> parts].  The writer of a   *)
(* message is the client itself or a member; a member may be older (it     *)
(* does not write parameters that were added later) or newer (it writes    *)
(* parameters this client does not know, which the protocol appends to the *)
(* structure).                                                             *)
(***************************************************************************)
EXTENDS ClientMessage, FiniteSets

Peers == {"older", "same", "newer"}

Atom(a)  == [a |-> a, s |-> <<>>]
Parts(s) == [a |-> <<>>, s |-> s]

Null  == Atom(<<-2>>)
Empty == Atom(<<-3>>)   \* "", and what a missing parameter is read as
Blank == Atom(<<-4>>)   \* a string of spaces

Read(v, pos) == [v |-> v, pos |-> pos]

---------------------------------------------------------------------------
(***************************************************************************)
(* The frame iterator.                                                     *)
(***************************************************************************)
\* Consumes the frame when it is null: the position is the caller's to move.
NextFrameIsNullFrame(frames, pos) == IsNullFrame(frames[pos])

NextFrameIsDataStructureEndFrame(frames, pos) == IsEndFrame(frames[pos])

---------------------------------------------------------------------------
(***************************************************************************)
(* Single frame values                                                     *)
(***************************************************************************)
ContentOf(v) == IF v = Empty THEN <<>> ELSE <<Cell(v.a, 0)>>

ValueOf(content) == IF content = <<>> THEN Empty ELSE Atom(content[1].v)

EncodeString(v) == <<NewFrame(ContentOf(v))>>

DecodeString(frames, pos) == Read(ValueOf(frames[pos].content), pos + 1)

EncodeData(v) == <<NewFrame(ContentOf(v))>>

DecodeData(frames, pos) == Read(ValueOf(frames[pos].content), pos + 1)

EncodeNullableData(v) == IF v = Null THEN <<NullFrame>> ELSE EncodeData(v)

DecodeNullableForData(frames, pos) ==
    IF NextFrameIsNullFrame(frames, pos) THEN Read(Null, pos + 1) ELSE DecodeData(frames, pos)

EncodeByteArray(v) == <<NewFrame(ContentOf(v))>>

\* strings.TrimSpace: a blank string is sent as null
EncodeNullableForString(v) == IF v \in {Empty, Blank, Null} THEN <<NullFrame>> ELSE EncodeString(v)

DecodeNullableForString(frames, pos) ==
    IF NextFrameIsNullFrame(frames, pos) THEN Read(Empty, pos + 1) ELSE DecodeString(frames, pos)

---------------------------------------------------------------------------
(***************************************************************************)
(* Descriptors of the parameter types.                                     *)
(***************************************************************************)
String         == [k |-> "String"]
Data           == [k |-> "Data"]
ByteArray      == [k |-> "ByteArray"]
Decimal        == [k |-> "Decimal"]
NullableString == [k |-> "NullableString"]
NullableData   == [k |-> "NullableData"]
SQLPage        == [k |-> "SQLPage"]
FixedListOf(types)   == [k |-> "FixedList", types |-> types]
ListOf(t)            == [k |-> "List", of |-> t]
NullableElements(t)  == [k |-> "NullableElements", of |-> t]
PairsOf(key, value)  == [k |-> "Pairs", key |-> key, value |-> value]
Nullable(t)          == [k |-> "Nullable", of |-> t]

\* A structure: begin frame, a frame of fixed size fields unless there are
\* none, the parameters in order, unknown ones skipped, end frame.
Field(name, type, offset)        == [name |-> name, type |-> type, offset |-> offset, guard |-> "always"]
FieldIf(name, type, offset, guard) == [name |-> name, type |-> type, offset |-> offset, guard |-> guard]
Struct(size, fixed, params, optional) ==
    [k |-> "Struct", size |-> size, fixed |-> fixed, params |-> params, optional |-> optional]

ListInteger == FixedListOf(<<"Int">>)
ListLong    == FixedListOf(<<"Long">>)
LongArray   == FixedListOf(<<"Long">>)
ListUUID    == FixedListOf(<<"UUID">>)

EncodeListMultiFrameForData   == ListOf(Data)
EncodeListMultiFrameForString == ListOf(String)
EncodeListMultiFrameNullableForData == NullableElements(Data)
EncodeEntryListForDataAndData == PairsOf(Data, Data)
EncodeEntryListForDataAndListData == PairsOf(Data, ListOf(Data))
EncodeEntryListUUIDLong       == FixedListOf(<<"UUID", "Long">>)
EncodeMapForStringAndString   == PairsOf(String, String)

DecodeListMultiFrameForData   == ListOf(Data)
DecodeListMultiFrameForString == ListOf(String)
DecodeListMultiFrameContainsNullableString  == NullableElements(String)
DecodeListMultiFrameContainsNullableData    == NullableElements(Data)
DecodeListMultiFrameContainsNullableDecimal == NullableElements(Decimal)
DecodeEntryListForDataAndData == PairsOf(Data, Data)
DecodeEntryListUUIDLong       == FixedListOf(<<"UUID", "Long">>)
DecodeEntryListIntegerUUID    == FixedListOf(<<"Int", "UUID">>)
DecodeEntryListIntegerLong    == FixedListOf(<<"Int", "Long">>)
DecodeEntryListForStringAndEntryListIntegerLong == PairsOf(String, DecodeEntryListIntegerLong)
DecodeEntryListUUIDListInteger == [k |-> "UUIDListInteger"]
DecodeListUUID                == ListUUID
DecodeListLong                == ListLong
DecodeNullableForLongArray    == Nullable(LongArray)
DecodeMapForStringAndString   == PairsOf(String, String)
DecodeDistributedObjectInfo   == Struct(0, <<>>, <<String, String>>, 0)
DecodeListMultiFrameForDistributedObjectInfo == ListOf(DecodeDistributedObjectInfo)

HazelcastJsonValue == Struct(0, <<>>, <<String>>, 0)
DecodeNullableForSQLHazelcastJSON == Nullable(NullableElements(HazelcastJsonValue))

LocalDate          == <<"Int", "Byte", "Byte">>
LocalTime          == <<"Byte", "Byte", "Byte", "Int">>
LocalDateTime      == LocalDate \o LocalTime
OffsetDateTime     == LocalDateTime \o <<"Int">>

\* DecodeSQLColumn: what the column of a type is.  Fixed size types give the
\* record of an item, the others a descriptor.
FixedColumns ==
    [t \in {1, 2, 3, 4, 5, 7, 8, 9, 10, 11, 12} |->
        CASE t = 1  -> <<"Boolean">>
          [] t = 2  -> <<"Byte">>
          [] t = 3  -> <<"Short">>
          [] t \in {4, 7} -> <<"Int">>
          [] t \in {5, 8} -> <<"Long">>
          [] t = 9  -> LocalDate
          [] t = 10 -> LocalTime
          [] t = 11 -> LocalDateTime
          [] t = 12 -> OffsetDateTime]

MultiFrameColumns ==
    [t \in {0, 6, 13, 15} |->
        CASE t = 0  -> DecodeListMultiFrameContainsNullableString
          [] t = 6  -> DecodeListMultiFrameContainsNullableDecimal
          [] t = 13 -> DecodeListMultiFrameContainsNullableData
          [] t = 15 -> DecodeNullableForSQLHazelcastJSON]

ColumnTypeNull == 14

---------------------------------------------------------------------------
(***************************************************************************)
(* The fixed size fields of a frame.  An older member writes the fields    *)
(* before the first one that the reader guards; a newer one writes bytes   *)
(* behind the last.                                                        *)
(***************************************************************************)
Written(fixed, peer) ==
    LET added == {k \in DOMAIN fixed : fixed[k].guard # "always"}
    IN  IF peer = "older" /\ added # {} THEN SubSeq(fixed, 1, Min(added) - 1) ELSE fixed

FrameSize(size, fixed, peer) ==
    CASE peer = "newer" -> size + 3
      [] peer = "older" /\ Written(fixed, peer) # fixed -> fixed[Len(Written(fixed, peer)) + 1].offset
      [] OTHER -> size

\* The fields are written in order: where two overlap the later one stays.
EncodeFields(size, fixed, values, peer) ==
    LET Cells(k) == EncodeFixed(fixed[k].type, values[k].a)
        At(i) == {k \in DOMAIN Written(fixed, peer) : i - fixed[k].offset \in DOMAIN Cells(k)}
        Latest(i) == CHOOSE k \in At(i) : \A j \in At(i) : j <= k
    IN  [i \in 1..FrameSize(size, fixed, peer) |->
            IF At(i) = {} THEN Cell(Zero, 0) ELSE Cells(Latest(i))[i - fixed[Latest(i)].offset]]

DecodeField(f, content) ==
    LET present == CASE f.guard = "always" -> TRUE
                     [] f.guard = ">="     -> Len(content) >= f.offset + 1
                     [] f.guard = ">"      -> Len(content) > f.offset + 1
    IN  Atom(IF present THEN DecodeFixed(f.type, content, f.offset) ELSE Zero)

DecodeFields(fixed, content) == [k \in DOMAIN fixed |-> DecodeField(fixed[k], content)]

\* The fields lie behind the header, inside the frame, and apart from each other.
LaidOut(header, size, fixed) ==
    \A k \in DOMAIN fixed :
        /\ header <= fixed[k].offset /\ fixed[k].offset + Width[fixed[k].type] <= size
        /\ \A j \in DOMAIN fixed \ {k} :
             \/ fixed[j].offset + Width[fixed[j].type] <= fixed[k].offset
             \/ fixed[k].offset + Width[fixed[k].type] <= fixed[j].offset

---------------------------------------------------------------------------
(***************************************************************************)
(* The structures that are parameters of messages, one definition per file *)
(* of internal/proto/codec, and what a message codec is.                   *)
(***************************************************************************)
BooleanAt(name, offset) == Field(name, "Boolean", offset)
ByteAt(name, offset)    == Field(name, "Byte", offset)
IntAt(name, offset)     == Field(name, "Int", offset)
LongAt(name, offset)    == Field(name, "Long", offset)
UUIDAt(name, offset)    == Field(name, "UUID", offset)

---------------------------------------------------------------------------
Address == Struct(4, <<IntAt("port", 0)>>, <<String>>, 0)

DecodeNullableForAddress == Nullable(Address)

BitmapIndexOptions == Struct(4, <<IntAt("uniqueKeyTransformation", 0)>>, <<String>>, 0)

DecodeNullableForBitmapIndexOptions == Nullable(BitmapIndexOptions)

EndpointQualifier == Struct(4, <<IntAt("type", 0)>>, <<NullableString>>, 0)

DecodeMapForEndpointQualifierAndAddress == PairsOf(EndpointQualifier, Address)

MemberVersion == Struct(3, <<ByteAt("major", 0), ByteAt("minor", 1), ByteAt("patch", 2)>>, <<>>, 0)

MemberInfo ==
    Struct(18, <<UUIDAt("uuid", 0), BooleanAt("liteMember", 17)>>,
           <<Address, DecodeMapForStringAndString, MemberVersion, DecodeMapForEndpointQualifierAndAddress>>, 1)

DecodeListMultiFrameForMemberInfo == ListOf(MemberInfo)

StackTraceElement == Struct(4, <<IntAt("lineNumber", 0)>>, <<String, String, NullableString>>, 0)

DecodeListMultiFrameForStackTraceElement == ListOf(StackTraceElement)

ErrorHolder ==
    Struct(4, <<IntAt("errorCode", 0)>>, <<String, NullableString, DecodeListMultiFrameForStackTraceElement>>, 0)

\* DecodeError: the parameters of the answer that reports an error
DecodeError == ListOf(ErrorHolder)

FieldDescriptor == Struct(4, <<IntAt("kind", 0)>>, <<String>>, 0)

DecodeListMultiFrameForFieldDescriptor == ListOf(FieldDescriptor)

Schema == Struct(0, <<>>, <<String, DecodeListMultiFrameForFieldDescriptor>>, 0)

EncodeListMultiFrameForSchema == ListOf(Schema)

DecodeNullableForSchema == Nullable(Schema)

IndexConfig ==
    Struct(4, <<IntAt("type", 0)>>,
           <<NullableString, DecodeListMultiFrameForString, DecodeNullableForBitmapIndexOptions>>, 0)

RaftGroupId == Struct(16, <<LongAt("seed", 0), LongAt("id", 8)>>, <<String>>, 0)

SimpleEntryView ==
    Struct(80, <<LongAt("cost", 0), LongAt("creationTime", 8), LongAt("expirationTime", 16), LongAt("hits", 24),
                 LongAt("lastAccessTime", 32), LongAt("lastStoredTime", 40), LongAt("lastUpdateTime", 48),
                 LongAt("version", 56), LongAt("ttl", 64), LongAt("maxIdle", 72)>>, <<Data, Data>>, 0)

DecodeNullableForSimpleEntryView == Nullable(SimpleEntryView)

SqlQueryId ==
    Struct(32, <<LongAt("memberIdHigh", 0), LongAt("memberIdLow", 8), LongAt("localIdHigh", 16),
                 LongAt("localIdLow", 24)>>, <<>>, 0)

SqlColumnMetadata == Struct(5, <<IntAt("type", 0), FieldIf("nullable", "Boolean", 4, ">=")>>, <<String>>, 0)

DecodeNullableListMultiFrameForSqlColumnMetadata == Nullable(ListOf(SqlColumnMetadata))

SqlError ==
    Struct(21, <<IntAt("code", 0), UUIDAt("originatingMemberId", 4)>>, <<NullableString, NullableString>>, 1)

DecodeNullableForSQLError == Nullable(SqlError)

DecodeNullableForSQLPage == Nullable(SQLPage)

---------------------------------------------------------------------------
(***************************************************************************)
(* A codec: the request, what is read from the answer and the events that  *)
(* are handled.  size is the size of the first frame of a request.         *)
(***************************************************************************)
Request(type, retryable, size, fixed, params) ==
    [type |-> type, retryable |-> retryable, size |-> size, fixed |-> fixed, params |-> params]
Response(fixed, params)    == [fixed |-> fixed, params |-> params]
Event(type, fixed, params) == [type |-> type, fixed |-> fixed, params |-> params]
NoResponse                 == Response(<<>>, <<>>)
Codec(request, response, events) == [request |-> request, response |-> response, events |-> events]
=============================================================================
