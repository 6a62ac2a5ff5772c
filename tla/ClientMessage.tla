---------------------------- MODULE ClientMessage ----------------------------
(***************************************************************************)
(* Frames and messages of the client protocol (internal/proto/message.go)  *)
(* and the fixed size values inside a frame (builtin.go).                  *)
(*                                                                         *)
(* A byte is a cell [v |-> value, i |-> i]: the i-th byte of a value.      *)
(* What a value is does not matter here, only which value a byte belongs   *)
(* to: a value is a sequence of integers that identifies it.  Reading a    *)
(* fixed size value at an offset gives the value back only when all its    *)
(* bytes are still in place and in order.                                  *)
(***************************************************************************)
EXTENDS Integers, Sequences, SequencesExt

Zero      == <<0>>
One       == <<1>>
Garbage   == <<-9>>   \* bytes of different values read as one
Cell(v, i) == [v |-> v, i |-> i]

\* make([]byte, n)
Bytes(n) == [i \in 1..n |-> Cell(Zero, 0)]

\* The bytes of the value v, LittleEndian.PutUint32 and its relatives.
CellsOf(v, width) == [i \in 1..width |-> Cell(v, i - 1)]

\* buffer[offset:] = cells; the buffer is long enough
Put(buffer, offset, cells) ==
    [i \in DOMAIN buffer |-> IF i - offset \in DOMAIN cells THEN cells[i - offset] ELSE buffer[i]]

\* LittleEndian.Uint32(buffer[offset:]): an index out of range would panic,
\* which no value stands for
Get(buffer, offset, width) ==
    IF offset + width > Len(buffer) THEN Garbage
    ELSE LET v == buffer[offset + 1].v
         IN  IF \A i \in 1..width : buffer[offset + i] = Cell(v, i - 1) THEN v ELSE Garbage

---------------------------------------------------------------------------
(***************************************************************************)
(* FixSizedTypesCodec.  A Boolean is one byte, a UUID is a null flag and   *)
(* two longs that are not written when the flag is set: a nil UUID is the  *)
(* value Zero.                                                             *)
(***************************************************************************)
Width == [Boolean |-> 1, Byte |-> 1, Short |-> 2, Int |-> 4, Long |-> 8, UUID |-> 17]

EncodeBoolean(v) == <<Cell(IF v = One THEN One ELSE Zero, 0)>>

DecodeBoolean(buffer, offset) ==
    IF offset >= Len(buffer) THEN Garbage
    ELSE IF buffer[offset + 1] = Cell(One, 0) THEN One ELSE Zero

EncodeUUID(v) ==
    IF v = Zero THEN EncodeBoolean(One)
    ELSE EncodeBoolean(Zero) \o CellsOf(v \o <<1>>, 8) \o CellsOf(v \o <<2>>, 8)

DecodeUUID(buffer, offset) ==
    IF DecodeBoolean(buffer, offset) = One THEN Zero
    ELSE LET most  == Get(buffer, offset + 1, 8)
             least == Get(buffer, offset + 9, 8)
         IN  IF Front(most) = Front(least) /\ Last(most) = 1 /\ Last(least) = 2
             THEN Front(most) ELSE Garbage

EncodeFixed(type, v) ==
    CASE type = "Boolean" -> EncodeBoolean(v)
      [] type = "UUID"    -> EncodeUUID(v)
      [] OTHER            -> CellsOf(v, Width[type])

DecodeFixed(type, buffer, offset) ==
    CASE type = "Boolean" -> DecodeBoolean(buffer, offset)
      [] type = "UUID"    -> DecodeUUID(buffer, offset)
      [] OTHER            -> Get(buffer, offset, Width[type])

---------------------------------------------------------------------------
(***************************************************************************)
(* Frames                                                                  *)
(***************************************************************************)
NewFrame(content)            == [flags |-> {}, content |-> content]
NewFrameWith(content, flags) == [flags |-> flags, content |-> content]

NullFrame  == NewFrameWith(<<>>, {"IsNull"})
BeginFrame == NewFrameWith(<<>>, {"BeginDataStructure"})
EndFrame   == NewFrameWith(<<>>, {"EndDataStructure"})

UnfragmentedMessage == {"BeginFragment", "EndFragment"}

IsNullFrame(f)  == "IsNull" \in f.flags
IsBeginFrame(f) == "BeginDataStructure" \in f.flags
IsEndFrame(f)   == "EndDataStructure" \in f.flags
IsFinalFrame(f) == "IsFinal" \in f.flags

\* Offsets of the header in the first frame of a message.
TypeFieldOffset          == 0
CorrelationIDFieldOffset == 4
PartitionIDOffset        == 12
ResponseBackupAcksOffset == 12
RequestHeaderSize        == PartitionIDOffset + Width["Int"]
ResponseHeaderSize       == ResponseBackupAcksOffset + Width["Byte"]

SetHeader(frames, offset, type, v) ==
    [frames EXCEPT ![1].content = Put(@, offset, CellsOf(v, Width[type]))]

SetMessageType(frames, v)   == SetHeader(frames, TypeFieldOffset, "Int", v)
SetCorrelationID(frames, v) == SetHeader(frames, CorrelationIDFieldOffset, "Long", v)
SetPartitionId(frames, v)   == SetHeader(frames, PartitionIDOffset, "Int", v)

MessageType(frames)      == Get(frames[1].content, TypeFieldOffset, Width["Int"])
CorrelationID(frames)    == Get(frames[1].content, CorrelationIDFieldOffset, Width["Long"])
PartitionID(frames)      == Get(frames[1].content, PartitionIDOffset, Width["Int"])

\* (*ClientMessage).Write marks the last frame; the frames themselves are not
\* changed, so a message can be written again.
Write(frames) == [frames EXCEPT ![Len(frames)].flags = @ \union {"IsFinal"}]
=============================================================================
