---------------------------------- MODULE HLK ----------------------------------
(***************************************************************************)
(* The presence sensor: HLKDevice reads what its port received, at most    *)
(* ChunkSize bytes a time, and HLKPackageFinder looks for a frame in it    *)
(* (app/src/devices/HLKDevice.cpp, app/src/devices/HLKStack/).             *)
(*                                                                         *)
(* A byte is [k, f, i]: its kind, the frame it belongs to and its place in *)
(* it; the finder sees only the kind.  A four-byte head or tail of a long  *)
(* frame is one byte here, and so are its length, its command and a byte   *)
(* of its data.  The sensor has long been sending when it is opened, so    *)
(* that the first frame may be read from its middle.                       *)
(***************************************************************************)
EXTENDS Integers, SequencesExt

CONSTANTS
    ChunkSize,    \* 32: the buffer of HLKDevice::ExecuteTask
    BufferCap,    \* 250: where the finder gives a long frame up
    MaxFrames,    \* bound: frames sent
    MaxPending    \* bound: bytes waiting in the port

ASSUME SensorAssumption == ChunkSize \in Nat \ {0}

VARIABLES
    finder,    \* which of the two searches is used: "fast", "full"
    pending,   \* bytes in the port
    sent,      \* frames sent
    state,     \* _state
    buffer,    \* _buffer
    reported   \* the bytes of the package found last, <<>> before the first

hvars == <<finder, pending, sent, state, buffer, reported>>

MinimalFrameHead == "6E"
MinimalFrameTail == "62"
FrameHead == [Standart |-> "F4F3F2F1", Command |-> "FDFCFBFA"]
FrameTail == [Standart |-> "F8F7F6F5", Command |-> "04030201"]
LongTypes == {"Standart", "Command"}
Start == "WaitingForStart"

\* how many bytes of the wire a byte stands for
Width(k) == IF k \in {FrameHead[t] : t \in LongTypes} \cup {FrameTail[t] : t \in LongTypes}
            THEN 4 ELSE IF k = "1" THEN 2 ELSE 1
ByteCount(bytes) == FoldLeft(LAMBDA n, byte : n + Width(byte.k), 0, bytes)

\* what the sensor sends; a distance may hold the bytes of a head or a tail
Payload == {"x", MinimalFrameHead, MinimalFrameTail}
Frames ==
    {<<MinimalFrameHead, "x", lo, hi, MinimalFrameTail>> : lo \in Payload, hi \in Payload}
        \cup {<<FrameHead[type], "1", "x", data, FrameTail[type]>> :
                 type \in LongTypes, data \in {"x", MinimalFrameHead}}
Bytes(frame, f) == [i \in DOMAIN frame |-> [k |-> frame[i], f |-> f, i |-> i]]
FramesOf(which) == IF which = "fast" THEN {g \in Frames : g[1] = MinimalFrameHead} ELSE Frames

HInit ==
    /\ finder \in {"fast", "full"}
    /\ \E g \in FramesOf(finder), from \in 1 .. 5 : pending = SubSeq(Bytes(g, 0), from, 5)
    /\ sent = 0
    /\ state = Start /\ buffer = <<>> /\ reported = <<>>

SensorSends(g) ==
    /\ sent < MaxFrames /\ Len(pending) + 5 <= MaxPending
    /\ sent' = sent + 1
    /\ pending' = pending \o Bytes(g, sent + 1)
    /\ UNCHANGED <<finder, state, buffer, reported>>

-----------------------------------------------------------------------------
(***************************************************************************)
(* deserialize: a minimal frame is five bytes between head and tail, a     *)
(* long one has its tail where its length says (a length of "1" here, any  *)
(* other byte in its place is too large); more may follow.                 *)
(***************************************************************************)
DistanceAt(bytes) == bytes[1].k = MinimalFrameHead /\ bytes[5].k = MinimalFrameTail
LongAt(bytes, type) ==
    bytes[1].k = FrameHead[type] /\ bytes[2].k = "1" /\ bytes[5].k = FrameTail[type]
StandartAt(bytes) == LongAt(bytes, "Standart")
CommandAt(bytes)  == LongAt(bytes, "Command")
Deserialized(bytes) ==
    IF Len(bytes) >= 5 /\ (DistanceAt(bytes) \/ StandartAt(bytes) \/ CommandAt(bytes))
    THEN SubSeq(bytes, 1, 5) ELSE <<>>

\* slip: only the length ends a minimal frame
EndsAtFive(s, bytes) ==
    CASE s = "Minimal" -> ByteCount(bytes) >= 5
      [] s \in LongTypes -> Last(bytes).k = FrameTail[s] \/ ByteCount(bytes) >= BufferCap

Ends(s, bytes) ==
    CASE s = "Minimal" -> ByteCount(bytes) >= 5 \/ Last(bytes).k = MinimalFrameTail
      [] s \in LongTypes -> Last(bytes).k = FrameTail[s] \/ ByteCount(bytes) >= BufferCap

\* One byte of findPackage or fastDistanceFinder; a search that ended a frame,
\* good or bad, returns, and looks at no further byte of the chunk.
Take(search, byte) ==
    LET begins == CASE byte.k = MinimalFrameHead -> "Minimal"
                    [] finder = "full" /\ byte.k = FrameHead["Standart"] -> "Standart"
                    [] finder = "full" /\ byte.k = FrameHead["Command"] -> "Command"
                    [] OTHER -> Start
        more == Append(search.buffer, byte)
    IN  IF search.done THEN search
        ELSE IF search.state = Start
        THEN [search EXCEPT !.state = begins, !.buffer = IF begins = Start THEN @ ELSE <<byte>>]
        ELSE IF ~Ends(search.state, more) THEN [search EXCEPT !.buffer = more]
        ELSE [state |-> Start, buffer |-> more, done |-> TRUE, found |-> Deserialized(more)]

\* HLKDevice::ExecuteTask
ExecuteTask ==
    LET size == IF Len(pending) < ChunkSize THEN Len(pending) ELSE ChunkSize
        end  == FoldLeft(Take, [state |-> state, buffer |-> buffer, done |-> FALSE,
                                found |-> <<>>], SubSeq(pending, 1, size))
    IN  /\ pending # <<>>
        /\ pending' = SubSeq(pending, size + 1, Len(pending))
        /\ state' = end.state
        /\ buffer' = IF end.state = Start THEN <<>> ELSE end.buffer  \* cleared by the next head
        /\ reported' = IF end.found = <<>> THEN reported ELSE end.found
        /\ UNCHANGED <<finder, sent>>

HNext == (\E g \in FramesOf(finder) : SensorSends(g)) \/ ExecuteTask

HSpec == HInit /\ [][HNext]_hvars

-----------------------------------------------------------------------------
\* The distance and the presence shown are those of one frame of the sensor,
\* all its bytes and in their order, and never put together from two: wherever
\* in a frame the finder starts, wherever a chunk ends, and whatever is thrown
\* away behind a frame that was found, also when the distance's own bytes look
\* like a head or a tail.  (A byte lost on the way can mix two frames.)
ReadingsAreSent ==
    \A i \in DOMAIN reported : reported[i].i = i /\ reported[i].f = reported[1].f
===============================================================================
