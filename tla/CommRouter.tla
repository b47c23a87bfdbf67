----------------------------- MODULE CommRouter -----------------------------
(***************************************************************************)
(* The byte routers (app/src/devices/Passthrough.cpp, MultiPassthrough.cpp *)
(* and, without its monitors, PassthroughMonitor.cpp) between the UARTs    *)
(* (UARTDevice.cpp) and the USB serial port (USBUARTDevice.cpp), on the    *)
(* main loop of module Mainloop.                                           *)
(*                                                                         *)
(* A received byte takes three hops: the UART's interrupt pushes it into   *)
(* the device's receive ring (or tud_task leaves it in the USB stack); the *)
(* router's signal task, which a trigger flags, moves at most one junk     *)
(* from every device into that device's ring of the router; the router's   *)
(* regular task offers one junk of each ring to the targets, which take    *)
(* what they have room for.                                                *)
(*                                                                         *)
(* Interrupts fall between any two steps.  The body for one device is one  *)
(* step of the signal task: an interrupt inside it is no different from    *)
(* one just before or just after.  Likewise one ring is one step of the    *)
(* regular task: as a transmit buffer is at least as large as a junk, what *)
(* drains while a junk is being sent could have drained before.            *)
(***************************************************************************)
EXTENDS IRQFifo, FiniteSets

CONSTANTS
    Devices,     \* the communication devices the router was assigned
    Usb,         \* those of them served by the USB stack; the rest are UARTs
    Served,      \* the order in which the two tasks serve the devices
    Registered,  \* the order in which the signal tasks were registered
    Targets,     \* where the bytes a device receives go, in order
    Capacity,    \* buffersize of the router
    Junks,       \* junks per buffer: 8 in the code
    RxSize,      \* buffersize of a UART
    TxSize,      \* transmit buffer of a device
    UsbSize,     \* receive buffer of the USB stack
    MaxBytes     \* bound: how many bytes each device receives

Junk  == Capacity \div Junks
Uarts == Devices \ Usb
Order == 1 .. Len(Served)

ASSUME RouterAssumption ==
    /\ IsFiniteSet(Devices) /\ Devices # {} /\ Usb \subseteq Devices
    /\ Served \in [1 .. Cardinality(Devices) -> Devices]
    /\ Registered \in [1 .. Cardinality(Devices) -> Devices]
    /\ \A d \in Devices : d \in {Served[i] : i \in Order} /\ d \in {Registered[i] : i \in Order}
    /\ Targets \in [Devices -> Seq(Devices)]
    /\ \A d \in Devices : Len(Targets[d]) > 0
    /\ \A d \in Devices : \A i, j \in 1 .. Len(Targets[d]) :
          Targets[d][i] = Targets[d][j] => i = j
    /\ Capacity \in Nat /\ Junks \in Nat \ {0, 1} /\ Junk > 0
    /\ RxSize \in Nat \ {0} /\ UsbSize \in Nat \ {0}
    /\ TxSize \in Nat /\ TxSize >= Junk
    /\ MaxBytes \in [Devices -> Nat]

VARIABLES
    at,          \* the step of the iteration: its name and the place in its order
    serving,     \* the device whose signal task is running
    dataInQueue, \* the local of SignalTask
    execute,     \* devices whose signal task is flagged
    rxFifo,      \* _rx_fifo of each UART
    usbRx,       \* bytes waiting in the USB stack
    fifo,        \* the router's ring for what each device receives
    room,        \* free places in each device's transmit buffer
    (* history, read by the properties only *)
    arrived,     \* bytes each device has received; the k-th byte is k
    sent,        \* sent[d][t]: bytes of d given to t, runs of one byte once
    overrun      \* UARTs whose receive ring was pushed full

vars == <<at, serving, dataInQueue, execute, rxFifo, usbRx, fifo, room,
          arrived, sent, overrun>>

Init ==
    /\ at = <<"signal", 1>> /\ serving = Registered[1] /\ dataInQueue = FALSE
    /\ execute = {}
    /\ rxFifo = [d \in Uarts |-> New(RxSize, 0)]
    /\ usbRx = [d \in Usb |-> <<>>]
    /\ fifo = [d \in Devices |-> New(Capacity, 0)]
    /\ room = [d \in Devices |-> TxSize]
    /\ arrived = [d \in Devices |-> 0]
    /\ sent = [d \in Devices |-> [t \in Devices |-> <<>>]]
    /\ overrun = {}

-----------------------------------------------------------------------------
(***************************************************************************)
(* The devices.                                                            *)
(***************************************************************************)

\* on_uart0_rx, on_uart1_rx: push what the UART holds and trigger the signal
HandleIRQ(d) ==
    /\ d \in Uarts /\ arrived[d] < MaxBytes[d]
    /\ arrived' = [arrived EXCEPT ![d] = @ + 1]
    /\ rxFifo' = [rxFifo EXCEPT ![d] = Push(@, arrived[d] + 1)]
    /\ overrun' = IF Count(rxFifo[d]) = RxSize - 1 THEN overrun \cup {d} ELSE overrun
    /\ execute' = execute \cup {d}
    /\ UNCHANGED <<at, serving, dataInQueue, usbRx, fifo, room, sent>>

\* a byte leaves on the wire, or the USB host fetches it
Drain(d) ==
    /\ room[d] < TxSize
    /\ room' = [room EXCEPT ![d] = @ + 1]
    /\ UNCHANGED <<at, serving, dataInQueue, execute, rxFifo, usbRx, fifo,
                   arrived, sent, overrun>>

DataAvailable(d) == IF d \in Usb THEN Len(usbRx[d]) ELSE Count(rxFifo[d])

\* the bytes receive returns for a buffer of one junk
Received(d) ==
    IF d \in Usb THEN SubSeq(usbRx[d], 1, Smaller(Junk, Len(usbRx[d])))
    ELSE PeekAvailable(rxFifo[d], Junk)

Receive(d) ==
    /\ rxFifo' = IF d \in Usb THEN rxFifo ELSE [rxFifo EXCEPT ![d] = AfterRead(@, Junk)]
    /\ usbRx' = IF d \in Usb THEN [usbRx EXCEPT ![d] = SubSeq(@, Junk + 1, Len(@))] ELSE usbRx

\* slip: only new bytes trigger the signal
TriggeredByNew == {d \in Usb : Len(usbRx'[d]) > Len(usbRx[d])}

\* tud_cdc_n_available is looked at after tud_task
Triggered == {d \in Usb : usbRx'[d] # <<>>}

\* USBUARTDevice::ExecuteTask: the stack takes what the host has sent, as far
\* as it has room, and the signal is triggered as long as bytes wait
UsbWorker ==
    /\ at[1] = "usb"
    /\ \E new \in [Usb -> 0 .. UsbSize] :
          /\ \A d \in Usb : /\ new[d] + Len(usbRx[d]) <= UsbSize
                            /\ new[d] + arrived[d] <= MaxBytes[d]
          /\ usbRx' = [d \in Usb |-> usbRx[d] \o [k \in 1 .. new[d] |-> arrived[d] + k]]
          /\ arrived' = [d \in Devices |-> IF d \in Usb THEN arrived[d] + new[d] ELSE arrived[d]]
    /\ execute' = execute \cup Triggered
    /\ at' = <<"route", 1>>
    /\ UNCHANGED <<serving, dataInQueue, rxFifo, fifo, room, sent, overrun>>

-----------------------------------------------------------------------------
(***************************************************************************)
(* The signal loop and the router's SignalTask.                            *)
(***************************************************************************)

\* the next signal task, or the regular tasks: the USB worker comes first
NextTask(i) == IF i < Len(Registered) THEN <<"signal", i + 1>> ELSE <<"usb", 0>>

SkipUnflagged ==
    /\ at[1] = "signal" /\ Registered[at[2]] \notin execute
    /\ at' = NextTask(at[2])
    /\ UNCHANGED <<serving, dataInQueue, execute, rxFifo, usbRx, fifo, room,
                   arrived, sent, overrun>>

StartSignalTask ==
    /\ at[1] = "signal" /\ Registered[at[2]] \in execute
    /\ serving' = Registered[at[2]]
    /\ dataInQueue' = FALSE
    /\ at' = <<"receive", 1>>
    /\ UNCHANGED <<execute, rxFifo, usbRx, fifo, room, arrived, sent, overrun>>

\* slip: a full ring is not kept waiting
TakesJunkAlways(d) == TRUE

TakesJunk(d) == Count(fifo[d]) < Capacity - Junk

Refused(d) == DataAvailable(d) > 0 /\ ~TakesJunk(d)

\* one device's share of SignalTask
MoveJunk ==
    LET d == Served[at[2]]
    IN  /\ at[1] = "receive"
        /\ IF DataAvailable(d) > 0 /\ TakesJunk(d)
           THEN /\ fifo' = [fifo EXCEPT ![d] = WriteAvailable(@, Received(d))]
                /\ Receive(d)
           ELSE UNCHANGED <<fifo, rxFifo, usbRx>>
        /\ dataInQueue' = (dataInQueue \/ Refused(d))
        /\ at' = IF at[2] < Len(Served) THEN <<"receive", at[2] + 1>> ELSE <<"return", 0>>
        /\ UNCHANGED <<serving, execute, room, arrived, sent, overrun>>

\* the flag becomes the return value
ReturnSignalTask ==
    /\ at[1] = "return"
    /\ execute' = IF dataInQueue THEN execute \cup {serving} ELSE execute \ {serving}
    /\ at' = NextTask(CHOOSE i \in Order : Registered[i] = serving)
    /\ UNCHANGED <<serving, dataInQueue, rxFifo, usbRx, fifo, room, arrived, sent, overrun>>

-----------------------------------------------------------------------------
(***************************************************************************)
(* The router's ExecuteTask.                                               *)
(***************************************************************************)

\* How many bytes of an offered junk target j takes.  With one target, send
\* takes what there is room for.  With several, each byte is offered to one
\* after the other and the loop breaks at the first refusal, so an earlier
\* target may have taken one byte more than a later one.
Takes(d, offered, j) ==
    LET limit == {offered} \cup {room[Targets[d][i]] : i \in 1 .. j}
                    \cup {room[Targets[d][i]] + 1 : i \in j + 1 .. Len(Targets[d])}
    IN  CHOOSE n \in limit : \A m \in limit : n <= m

\* slip: a byte counts as written once the first target has it
WrittenFirst(d, offered) == Takes(d, offered, 1)

\* the bytes that count as written are those the last target took
Written(d, offered) == Takes(d, offered, Len(Targets[d]))

\* given, with a byte that repeats the last one left out
AppendNew(given, bytes) ==
    given \o (IF given # <<>> /\ bytes # <<>> /\ given[Len(given)] = bytes[1] THEN Tail(bytes) ELSE bytes)

RouteJunk ==
    LET d       == Served[at[2]]
        offered == PeekAvailable(fifo[d], Junk)
        n       == Len(offered)
        place(t) == CHOOSE j \in 1 .. Len(Targets[d]) : Targets[d][j] = t
        took    == [t \in Devices |-> IF \E j \in 1 .. Len(Targets[d]) : Targets[d][j] = t
                                      THEN Takes(d, n, place(t)) ELSE 0]
    IN  /\ at[1] = "route"
        /\ fifo' = [fifo EXCEPT ![d] = Remove(@, Written(d, n))]
        /\ room' = [t \in Devices |-> room[t] - took[t]]
        /\ sent' = [sent EXCEPT ![d] =
                       [t \in Devices |-> AppendNew(@[t], SubSeq(offered, 1, took[t]))]]
        /\ at' = IF at[2] < Len(Served) THEN <<"route", at[2] + 1>> ELSE <<"signal", 1>>
        /\ UNCHANGED <<serving, dataInQueue, execute, rxFifo, usbRx, arrived, overrun>>

Loop == SkipUnflagged \/ StartSignalTask \/ MoveJunk \/ ReturnSignalTask \/ UsbWorker \/ RouteJunk

Next == Loop \/ \E d \in Devices : HandleIRQ(d) \/ Drain(d)

Spec == Init /\ [][Next]_vars

\* The loop goes on, and a transmit buffer drains: a UART shifts out without
\* flow control, the USB host is taken to read its port.
FairSpec == Spec /\ WF_vars(Loop) /\ \A d \in Devices : WF_vars(Drain(d))

-----------------------------------------------------------------------------
(***************************************************************************)
(* Properties.                                                             *)
(***************************************************************************)
Ring(size) == [buffer : [0 .. size - 1 -> Nat], size : {size},
               head : 0 .. size - 1, tail : 0 .. size - 1]

TypeOK ==
    /\ at \in {"signal", "receive", "return", "usb", "route"} \X (0 .. Len(Served))
    /\ serving \in Devices /\ dataInQueue \in BOOLEAN
    /\ execute \subseteq Devices /\ overrun \subseteq Uarts
    /\ rxFifo \in [Uarts -> Ring(RxSize)]
    /\ usbRx \in [Usb -> Seq(Nat)]
    /\ fifo \in [Devices -> Ring(Capacity)]
    /\ room \in [Devices -> 0 .. TxSize]
    /\ arrived \in [Devices -> Nat]
    /\ sent \in [Devices -> [Devices -> Seq(Nat)]]

FirstN(n) == [k \in 1 .. n |-> k]
Waiting(d) == IF d \in Usb THEN usbRx[d] ELSE Contents(rxFifo[d])
LastTarget(d) == Targets[d][Len(Targets[d])]

\* Every byte a device has received is, once and in its place, with the last
\* target, in the router's ring or in the device's: through three rings that
\* wrap, partial sends and interrupts, nothing is lost, repeated or reordered,
\* unless the interrupt found the device's own ring full.
NothingLost ==
    \A d \in Devices : d \notin overrun =>
        sent[d][LastTarget(d)] \o Contents(fifo[d]) \o Waiting(d) = FirstN(arrived[d])

\* Data received on the main device goes to both: the targets stay together.
\* The first may be ahead by the one byte the second has refused, which it will
\* be given again; no target misses a byte.
TargetsKeepStep ==
    \A d \in Devices : d \notin overrun =>
        \A j \in 1 .. Len(Targets[d]) :
            LET done == Len(sent[d][LastTarget(d)])
            IN  sent[d][Targets[d][j]] \in {FirstN(done), FirstN(done + 1)}

\* A byte from the host is forwarded: the USB worker triggers the signal again
\* in every iteration as long as bytes wait, so neither a full ring nor an
\* overwritten flag strands it.
UsbForwarded ==
    \A d \in Usb : DataAvailable(d) > 0 ~>
        (sent[d][LastTarget(d)] # <<>> /\ Len(sent[d][LastTarget(d)]) = arrived[d])

\* CommRouterFactory: data received on either of the other devices is forwarded
\* to the main device; so what waits in a UART's ring does not stay there.
UartForwarded ==
    \A d \in Uarts : DataAvailable(d) > 0 ~> (DataAvailable(d) = 0 \/ d \in overrun)
=============================================================================
