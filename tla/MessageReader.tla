---------------------------- MODULE MessageReader ----------------------------
(***************************************************************************)
(* The read loop of a connection (internal/cluster/connection.go,          *)
(* socketReadLoop) and the message reader it feeds (client_message.go).    *)
(* The stream of bytes of the member arrives in chunks of any size; a      *)
(* chunk may end inside a header.                                          *)
(***************************************************************************)
EXTENDS ClientMessage, FiniteSets

CONSTANTS
    Streams,            \* sequences of messages a member may send; a message is
                        \* [frames |-> lengths of its contents, whole |-> not a fragment]
    MaxChunk            \* socketBufferSize

\* A message has a first frame.
ASSUME StreamsAssumption ==
    Streams \subseteq Seq([frames : Seq(Nat) \ {<<>>}, whole : BOOLEAN]) /\ MaxChunk \in Nat

VARIABLES
    stream,             \* the messages of the member
    wire,               \* its bytes that are not yet read
    readerAt,           \* "socket", "parse", "closed" or "panicked"
    src,                \* clientMessageReader.src
    clientMessage,      \* the frames of the message that is being read
    currentFrame,       \* its header, when readHeader
    readHeader,
    written             \* what WriteResponse got

readerVars == <<stream, wire, readerAt, src, clientMessage, currentFrame, readHeader, written>>

SizeOfFrameLengthAndFlags == Width["Int"] + Width["Short"]

---------------------------------------------------------------------------
(***************************************************************************)
(* The member's side of the stream (external).  Flags are one value of two *)
(* bytes: FinalFlag added to FragmentFlags on the first frame.             *)
(***************************************************************************)
FinalFlag     == 101
FragmentFlags == 104
NoFlags       == 100

FrameFlags(i, message) ==
    NoFlags + (IF i = Len(message.frames) THEN FinalFlag - NoFlags ELSE 0)
            + (IF i = 1 /\ message.whole THEN FragmentFlags - NoFlags ELSE 0)

Frames(k, message) ==
    [i \in DOMAIN message.frames |-> [flags |-> FrameFlags(i, message), content |-> CellsOf(<<k, i>>, message.frames[i])]]

FrameBytes(f) ==
    CellsOf(<<Len(f.content) + SizeOfFrameLengthAndFlags>>, Width["Int"]) \o CellsOf(<<f.flags>>, Width["Short"]) \o f.content

MessageBytes(k, message) == FlattenSeq([i \in DOMAIN message.frames |-> FrameBytes(Frames(k, message)[i])])

IsFinal(f)      == f.flags \in {FinalFlag, FinalFlag + FragmentFlags - NoFlags}
IsUnFragmented(f) == f.flags \in {FragmentFlags, FinalFlag + FragmentFlags - NoFlags}

ReaderInit ==
    /\ stream \in Streams
    /\ wire = FlattenSeq([k \in DOMAIN stream |-> MessageBytes(k, stream[k])])
    /\ readerAt = "socket"
    /\ src = <<>> /\ clientMessage = <<>> /\ currentFrame = [length |-> 0, flags |-> 0] /\ readHeader = FALSE
    /\ written = <<>>

---------------------------------------------------------------------------
\* A read that times out or brings nothing is repeated: no step.
ReadSocket(n) ==
    /\ readerAt = "socket" /\ n <= Len(wire)
    /\ src' = src \o SubSeq(wire, 1, n)
    /\ wire' = SubSeq(wire, n + 1, Len(wire))
    /\ readerAt' = "parse"
    /\ UNCHANGED <<stream, clientMessage, currentFrame, readHeader, written>>

ReadFails ==
    /\ readerAt = "socket"
    /\ readerAt' = "closed"
    /\ UNCHANGED <<stream, wire, src, clientMessage, currentFrame, readHeader, written>>

\* readFrame: the length and the flags
ReadHeader ==
    /\ readerAt = "parse" /\ ~readHeader /\ Len(src) >= SizeOfFrameLengthAndFlags
    /\ LET length == Get(src, 0, Width["Int"])[1]
       IN  IF length < SizeOfFrameLengthAndFlags
           THEN readerAt' = "panicked" /\ UNCHANGED <<src, currentFrame, readHeader>>
           ELSE /\ currentFrame' = [length |-> length, flags |-> Get(src, Width["Int"], Width["Short"])[1]]
                /\ readHeader' = TRUE
                /\ src' = SubSeq(src, SizeOfFrameLengthAndFlags + 1, Len(src))
                /\ UNCHANGED readerAt
    /\ UNCHANGED <<stream, wire, clientMessage, written>>

ContentSize == currentFrame.length - SizeOfFrameLengthAndFlags

\* readFrame: the content.  Read then returns a message that ends with this
\* frame, and the loop writes it and starts another one, but not when its
\* first frame belongs to a fragment.
ReadContent ==
    /\ readerAt = "parse" /\ readHeader /\ Len(src) >= ContentSize
    /\ LET message == Append(clientMessage, [flags |-> currentFrame.flags, content |-> SubSeq(src, 1, ContentSize)])
       IN  IF IsFinal(Last(message)) /\ IsUnFragmented(message[1])
           THEN written' = Append(written, message) /\ clientMessage' = <<>>
           ELSE written' = written /\ clientMessage' = message
    /\ src' = SubSeq(src, ContentSize + 1, Len(src))
    /\ readHeader' = FALSE
    /\ UNCHANGED <<stream, wire, readerAt, currentFrame>>

\* a mutant that forgets the bytes of a frame that has only begun
ResetBufferDropping == src' = <<>>

\* the remaining bytes are kept, in a buffer of the default size
ResetBuffer == src' = src

NeedsMore == IF readHeader THEN Len(src) < ContentSize ELSE Len(src) < SizeOfFrameLengthAndFlags

Parsed ==
    /\ readerAt = "parse" /\ NeedsMore
    /\ ResetBuffer
    /\ readerAt' = "socket"
    /\ UNCHANGED <<stream, wire, clientMessage, currentFrame, readHeader, written>>

ReaderNext ==
    \/ \E n \in 1..MaxChunk : ReadSocket(n)
    \/ ReadFails \/ ReadHeader \/ ReadContent \/ Parsed

ReaderSpec == ReaderInit /\ [][ReaderNext]_readerVars

---------------------------------------------------------------------------
\* The messages before the first fragment: the loop keeps a fragment, appends
\* what follows to it and never writes anything again.
Understood == IF \A k \in DOMAIN stream : stream[k].whole THEN Len(stream)
              ELSE (CHOOSE k \in DOMAIN stream : ~stream[k].whole /\ \A j \in 1..(k - 1) : stream[j].whole) - 1

ReadBytes == Len(FlattenSeq([k \in DOMAIN stream |-> MessageBytes(k, stream[k])])) - Len(wire)

(***************************************************************************)
(* However the stream is cut into chunks, the messages that have arrived   *)
(* completely, and only they, are handed over, unchanged and in their      *)
(* order, each before the loop waits for more bytes.  A fragment makes the *)
(* connection deaf to all that follows.                                    *)
(***************************************************************************)
StreamIsWhole ==
    readerAt \in {"socket", "panicked"} =>
        LET complete == {k \in 1..Understood :
                            Len(FlattenSeq([j \in 1..k |-> MessageBytes(j, stream[j])])) <= ReadBytes}
        IN  /\ readerAt = "socket"
            /\ written = [k \in 1..Cardinality(complete) |-> Frames(k, stream[k])]
=============================================================================
