--------------------------------- MODULE Relays ---------------------------------
(***************************************************************************)
(* The two relays that do more with a byte than CommRouter's: Loopback     *)
(* (app/src/devices/Loopback.cpp), which sends back to a UART what it      *)
(* receives from it, and the monitors of PassthroughMonitor                *)
(* (app/src/devices/PassthroughMonitor.cpp), which keep a copy of what is  *)
(* passed on for a device opened on the monitor, and may be slow or never  *)
(* come.  One direction of a PassthroughMonitor is modelled; the other one *)
(* is the same.                                                            *)
(*                                                                         *)
(* The k-th byte that arrives is k.  Interrupts fall between the steps.    *)
(***************************************************************************)
EXTENDS Integers, Sequences

Fifo == INSTANCE IRQFifo

CONSTANTS
    RelayKinds,      \* [kind, capacity]: a relay and its "buffersize"
    PortSize,        \* buffersize of the UART
    PortRoom,        \* transmit buffer of the device that sends
    RelayJunks,      \* junks per buffer: 8 in PassthroughMonitor
    MaxArrivals      \* bound: bytes received

ASSUME RelayAssumption ==
    /\ \A r \in RelayKinds : r.capacity \in Nat \ {0}
    /\ PortSize \in Nat \ {0} /\ PortRoom \in Nat /\ RelayJunks \in Nat \ {0}

VARIABLES
    relay,      \* the relay opened
    port,       \* _rx_fifo of the UART
    ring,       \* _fifo or _fifoAtoB
    copy,       \* _fifo of the monitor
    flagged,    \* the relay's signal task is to run
    returned,   \* what it returned, until the main loop stores it: "yes", "no", "none"
    free,       \* free places in the transmit buffer
    (* history *)
    came,       \* bytes received
    sentOn,     \* bytes sent
    seen,       \* bytes the monitor's reader received
    lossy       \* a ring was too small: "port", "ring", "copy"

relayVars == <<relay, port, ring, copy, flagged, returned, free, came, sentOn, seen, lossy>>

IsLoop == relay.kind = "Loopback"

RInit ==
    /\ relay \in RelayKinds
    /\ port = Fifo!New(PortSize, 0)
    /\ ring = Fifo!New(relay.capacity, 0) /\ copy = Fifo!New(relay.capacity, 0)
    /\ flagged = FALSE /\ returned = "none" /\ free = PortRoom
    /\ came = 0 /\ sentOn = <<>> /\ seen = <<>> /\ lossy = {}

-----------------------------------------------------------------------------
\* UARTDevice::handleIRQ: the last free cell makes the ring look empty
PortReceives ==
    /\ came < MaxArrivals
    /\ came' = came + 1
    /\ port' = Fifo!Push(port, came + 1)
    /\ flagged' = TRUE
    /\ lossy' = IF Fifo!Count(port) = PortSize - 1 THEN lossy \cup {"port"} ELSE lossy
    /\ UNCHANGED <<relay, ring, copy, returned, free, sentOn, seen>>

PortDrains ==
    /\ free < PortRoom
    /\ free' = free + 1
    /\ UNCHANGED <<relay, port, ring, copy, flagged, returned, came, sentOn, seen, lossy>>

\* slip: a ring that is just as large is taken to have room
HasRoomAlways(chunk) == Fifo!Count(ring) <= relay.capacity - chunk

\* the difference is unsigned: a ring smaller than the chunk always has room
HasRoom(chunk) == relay.capacity < chunk \/ Fifo!Count(ring) < relay.capacity - chunk

Taken(chunk) == Fifo!PeekAvailable(port, chunk)

\* writeAvailable takes less than it is given, or drops the oldest byte
Overflows(f, bytes) == Len(bytes) > 0 /\ Len(bytes) + Fifo!Count(f) >= f.size

\* send takes what there is room for
SendFrom(f, n) == Fifo!PeekAvailable(f, Fifo!Smaller(n, free))

-----------------------------------------------------------------------------
\* Loopback::ExecuteTask, the signal task: receives and sends, a buffer of the
\* device's size each
LoopbackTask ==
    LET bytes   == IF Fifo!Count(port) > 0 /\ HasRoom(PortSize) THEN Taken(PortSize) ELSE <<>>
        filled  == Fifo!WriteAvailable(ring, bytes)
        sending == SendFrom(filled, PortSize)
    IN  /\ IsLoop /\ flagged /\ returned = "none"
        /\ port' = Fifo!Remove(port, Len(bytes))
        /\ ring' = Fifo!Remove(filled, Len(sending))
        /\ sentOn' = sentOn \o sending /\ free' = free - Len(sending)
        /\ lossy' = IF Overflows(ring, bytes) THEN lossy \cup {"ring"} ELSE lossy
        /\ returned' = IF Fifo!Count(ring') > 0 \/ Fifo!Count(port') > 0 THEN "yes" ELSE "no"
        /\ UNCHANGED <<relay, copy, flagged, came, seen>>

JunkSize == relay.capacity \div RelayJunks

\* PassthroughMonitor::SignalTask: one junk, and a copy of it for the monitor
MonitorSignalTask ==
    LET takes == Fifo!Count(port) > 0 /\ HasRoom(JunkSize)
        bytes == IF takes THEN Taken(JunkSize) ELSE <<>>
    IN  /\ ~IsLoop /\ flagged /\ returned = "none"
        /\ port' = Fifo!Remove(port, Len(bytes))
        /\ ring' = Fifo!WriteAvailable(ring, bytes)
        /\ copy' = Fifo!WriteAvailable(copy, bytes)
        /\ lossy' = lossy \cup (IF Overflows(ring, bytes) THEN {"ring"} ELSE {})
                          \cup (IF Overflows(copy, bytes) THEN {"copy"} ELSE {})
        /\ returned' = IF Fifo!Count(port) > 0 /\ ~takes THEN "yes" ELSE "no"
        /\ UNCHANGED <<relay, flagged, free, came, sentOn, seen>>

\* Mainloop::start stores the return value over a flag raised meanwhile
SignalTaskReturned ==
    /\ returned # "none"
    /\ flagged' = (returned = "yes") /\ returned' = "none"
    /\ UNCHANGED <<relay, port, ring, copy, free, came, sentOn, seen, lossy>>

\* PassthroughMonitor::ExecuteTask, the regular task
MonitorWorker ==
    LET sending == SendFrom(ring, JunkSize)
    IN  /\ ~IsLoop /\ returned = "none" /\ Fifo!Count(ring) > 0
        /\ ring' = Fifo!Remove(ring, Len(sending))
        /\ sentOn' = sentOn \o sending /\ free' = free - Len(sending)
        /\ UNCHANGED <<relay, port, copy, flagged, returned, came, seen, lossy>>

\* a device on the monitor: MonitorDevice::receive
MonitorReader ==
    /\ ~IsLoop /\ returned = "none" /\ Fifo!Count(copy) > 0
    /\ \E n \in 1 .. Fifo!Count(copy) :
          /\ seen' = seen \o Fifo!PeekAvailable(copy, n)
          /\ copy' = Fifo!AfterRead(copy, n)
    /\ UNCHANGED <<relay, port, ring, flagged, returned, free, came, sentOn, lossy>>

\* ... which may also send: MonitorDevice::send gives its bytes to the device
MonitorSends ==
    /\ ~IsLoop /\ returned = "none" /\ free > 0
    /\ free' = free - 1
    /\ UNCHANGED <<relay, port, ring, copy, flagged, returned, came, sentOn, seen, lossy>>

RNext ==
    \/ PortReceives \/ PortDrains
    \/ LoopbackTask \/ MonitorSignalTask \/ SignalTaskReturned
    \/ MonitorWorker \/ MonitorReader \/ MonitorSends

RSpec == RInit /\ [][RNext]_relayVars

-----------------------------------------------------------------------------
Ordered(bytes)   == \A i \in 1 .. Len(bytes) - 1 : bytes[i] < bytes[i + 1]
OnTheWay(copied) == copied \o Fifo!Contents(port)

\* Nothing that is looped back or monitored comes twice or out of its order,
\* however small the rings are; and nothing is missing as long as no ring on
\* the way was too small for what was written into it.  That happens to the
\* ring of a Loopback only when it was opened smaller than the device's own
\* buffer (the difference in ExecuteTask is unsigned), and to that of a
\* PassthroughMonitor never.  A monitor that is not read misses bytes in the
\* middle.
RelaysKeepOrder ==
    LET looped    == OnTheWay(sentOn \o Fifo!Contents(ring))
        monitored == OnTheWay(seen \o Fifo!Contents(copy))
        Whole(bytes) == bytes = [k \in 1 .. came |-> k]
    IN  /\ Ordered(looped)
        /\ lossy \cap {"port", "ring"} = {} => Whole(looped)
        /\ ~IsLoop => Ordered(monitored)
        /\ ~IsLoop /\ lossy \cap {"port", "copy"} = {} => Whole(monitored)
        /\ "ring" \in lossy => IsLoop /\ relay.capacity < PortSize
================================================================================
