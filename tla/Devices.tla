------------------------------- MODULE Devices -------------------------------
(***************************************************************************)
(* Opening devices: app/src/deviceController/DeviceRepository.cpp, the     *)
(* factories of app/include/deviceController/ and the constructors they    *)
(* call, and "device open" (app/include/Commands/DeviceCommand.h).         *)
(*                                                                         *)
(* Nothing is ever closed.  A device claims hardware when it is built; a   *)
(* device built on others looks them up by name, registers itself as the   *)
(* reader of those that receive data, and then becomes the user of each,   *)
(* one by one.  A factory that fails half way drops its device, which      *)
(* lives on if somebody still points to it.                                *)
(* The variables the factories make are in Shell; pins are in Pins.        *)
(***************************************************************************)
EXTENDS Integers, SequencesExt, FiniteSetsExt

CONSTANTS
    Opens,       \* the "device open" commands to choose from
    MaxDevices   \* bound: the devices made

VARIABLES
    devices,     \* every device made: [type, name, on, user, reader]
    repository,  \* _devices, as indices of devices
    claimed_sms, \* PIOFactory: the state machines it handed out, per PIO
    hardware     \* what the hardware has handed out or taken
                 \*   [sms, programs: per PIO; dma; uarts, adcs: numbers in use]

dvars == <<devices, repository, claimed_sms, hardware>>

None == 0
Pios == {0, 1}
StateMachines == 4    \* of a PIO
DmaChannels   == 12   \* of the chip
DMA_THRESHOLD == 16

\* a name is the sequence of its parts
Device(type, name, on) ==
    [type |-> type, name |-> name, on |-> on, user |-> None, reader |-> None]

CommTypes == {"UART", "USBUART", "MonitorDevice"}
Panels    == {"7Seg", "dotMatrix5x5", "dotMatrix8xN"}
Routers   == {"Passthrough", "PassthroughMonitor", "MultiPassthrough"}

\* A device on devices names them in a sequence; a strip has a PIO and a number
\* of LEDs, of whatever sign (LEDFactory.h:34).
ASSUME DevicesAssumption ==
    \A c \in Opens :
        c.type \in {"WS2812", "LEDStatus", "HLKDevice", "Loopback"} \cup Panels \cup Routers =>
            /\ c.on \in Seq(ToSet(c.on))
            /\ c.type = "WS2812" => c.on # <<>> /\ c.leds \in Int

\* main() adds the USB port before the console starts
DInit ==
    /\ devices = <<Device("USBUART", <<"USBUART">>, <<>>)>>
    /\ repository = <<1>>
    /\ claimed_sms = [p \in Pios |-> 0]
    /\ hardware = [sms |-> [p \in Pios |-> 0], programs |-> [p \in Pios |-> 0],
                   dma |-> 0, uarts |-> {}, adcs |-> {}]

\* getDeviceByName takes the first device of that name; getDevice and
\* findCommDevice then want its type, and the factories its status
Find(name, types) ==
    LET named == {i \in DOMAIN repository : devices[repository[i]].name = name}
        first == repository[Min(named)]
    IN  IF named # {} /\ devices[first].type \in types /\ devices[first].user = None
        THEN first ELSE None

Listed(made, ids) ==
    /\ devices' = made
    /\ repository' = repository \o ids
NextId == Len(devices) + 1

(***************************************************************************)
(* Devices on the hardware.                                                *)
(***************************************************************************)

\* slip: the factory does not count what it hands out
OpenPIOUncounted(c) ==
    /\ c.type = "PIO" /\ claimed_sms[c.number] < StateMachines
    /\ hardware' = [hardware EXCEPT !.sms[c.number] = @ + 1]
    /\ Listed(Append(devices, Device("PIO", <<"PIO", c.number, hardware.sms[c.number]>>, <<>>)), <<NextId>>)
    /\ UNCHANGED claimed_sms

\* pio_claim_unused_sm panics when no state machine is left; PIOFactory counts
OpenPIO(c) ==
    /\ c.type = "PIO" /\ claimed_sms[c.number] < StateMachines
    /\ hardware' = [hardware EXCEPT !.sms[c.number] = @ + 1]
    /\ claimed_sms' = [claimed_sms EXCEPT ![c.number] = @ + 1]
    /\ Listed(Append(devices, Device("PIO", <<"PIO", c.number, hardware.sms[c.number]>>, <<>>)), <<NextId>>)

OpenUART(c) ==
    /\ c.type = "UART" /\ c.number \notin hardware.uarts /\ c.pinsValid
    /\ hardware' = [hardware EXCEPT !.uarts = @ \cup {c.number}]
    /\ Listed(Append(devices, Device("UART", <<"UART", c.number>>, <<>>)), <<NextId>>)
    /\ UNCHANGED claimed_sms

OpenADC(c) ==
    /\ c.type = "ADC" /\ c.number \in 0 .. 4 /\ c.number \notin hardware.adcs
    /\ hardware' = [hardware EXCEPT !.adcs = @ \cup {c.number}]
    /\ Listed(Append(devices, Device("ADC", <<"ADC", c.number>>, <<>>)), <<NextId>>)
    /\ UNCHANGED claimed_sms

(***************************************************************************)
(* Devices on devices.                                                     *)
(***************************************************************************)

\* WS2812: the program is loaded once per PIO, a long strip claims a DMA
\* channel; both stay taken when the constructor fails
PioOf(id) == devices[id].name[2]
StripHardware(c, pio) ==
    [hardware EXCEPT
        !.programs[PioOf(pio)] = IF @ = 0 THEN 1 ELSE @,
        !.dma = IF c.leds > DMA_THRESHOLD /\ @ < DmaChannels THEN @ + 1 ELSE @]
Builds(c) ==
    /\ c.type \in Routers => c.junkSize > 0
    /\ c.type = "WS2812" => c.leds <= DMA_THRESHOLD \/ hardware.dma < DmaChannels

\* slip: the router registers itself before it checks its parameters
ReadersAlways(c, inputs, made) ==
    [i \in DOMAIN made |->
        IF i \in ToSet(inputs) /\ made[i].type \in CommTypes /\ made[i].reader = None
        THEN [made[i] EXCEPT !.reader = NextId] ELSE made[i]]

\* registerDataReceivedCallback: the first reader of a device stays its reader
Readers(c, inputs, made) ==
    IF ~Builds(c) THEN made
    ELSE [i \in DOMAIN made |->
             IF i \in ToSet(inputs) /\ made[i].type \in CommTypes /\ made[i].reader = None
             THEN [made[i] EXCEPT !.reader = NextId] ELSE made[i]]

\* assignToUser, called for one input after the other until one has a user:
\* that is an input given twice, all others were looked up without one
Repeats(inputs) ==
    {i \in DOMAIN inputs : \E j \in 1 .. i - 1 : inputs[j] = inputs[i]}
Assigned(inputs, made) ==
    LET reached == IF Repeats(inputs) = {} THEN Len(inputs) ELSE Min(Repeats(inputs)) - 1
        taken   == {inputs[j] : j \in 1 .. reached}
    IN  [i \in DOMAIN made |->
            IF i \in taken THEN [made[i] EXCEPT !.user = NextId] ELSE made[i]]

\* What the factories below have in common, for a device on devices of the types
BuildOn(c, types) ==
    LET inputs == [i \in DOMAIN c.on |-> Find(c.on[i], types)]
        made   == Append(Readers(c, inputs, devices), Device(c.type, c.name, inputs))
        monitors == IF c.type # "PassthroughMonitor" THEN <<>>
                    ELSE [i \in 1 .. 2 |->
                             Device("MonitorDevice", c.name \o c.on[i], <<NextId>>)]
        opened == Assigned(inputs, made)
    IN  /\ None \notin ToSet(inputs)
        /\ hardware' = IF c.type = "WS2812" THEN StripHardware(c, inputs[1]) ELSE hardware
        /\ IF ~Builds(c) THEN Listed(made, <<>>)
           ELSE IF Repeats(inputs) # {} THEN Listed(opened, <<>>)
           ELSE Listed(opened \o monitors,
                       [i \in DOMAIN monitors |-> NextId + i] \o <<NextId>>)
        /\ UNCHANGED claimed_sms

OpenStrip(c)       == c.type = "WS2812" /\ BuildOn(c, {"PIO"})
OpenDisplay(c)     == c.type \in Panels /\ BuildOn(c, {"WS2812"})
OpenStatus(c)      == c.type = "LEDStatus" /\ BuildOn(c, {"WS2812"})
OpenSensor(c)      == c.type = "HLKDevice" /\ BuildOn(c, CommTypes)
OpenPassthrough(c) == c.type = "Passthrough" /\ BuildOn(c, CommTypes)
OpenLoopback(c)    == c.type = "Loopback" /\ BuildOn(c, CommTypes)
OpenMonitor(c)     == c.type = "PassthroughMonitor" /\ BuildOn(c, CommTypes)
OpenMulti(c)       == c.type = "MultiPassthrough" /\ BuildOn(c, CommTypes)

DNext ==
    \E c \in Opens :
        /\ Len(devices) < MaxDevices
        /\ \/ OpenPIO(c) \/ OpenUART(c) \/ OpenADC(c)
           \/ OpenStrip(c) \/ OpenDisplay(c) \/ OpenStatus(c) \/ OpenSensor(c)
           \/ OpenPassthrough(c) \/ OpenLoopback(c) \/ OpenMonitor(c) \/ OpenMulti(c)

DSpec == DInit /\ [][DNext]_dvars

-----------------------------------------------------------------------------
Twice(id) == Repeats(devices[id].on) # {}

\* The data a device receives goes to the device that uses it, and to nobody
\* else: no factory that fails leaves its dead device behind as the reader,
\* also when the same device is opened again with better parameters.  Only a
\* router that was given the same device twice does (CommRouterFactory.h:106):
\* it stays, unlisted, the reader of all its inputs.
ReaderIsUser ==
    \A id \in DOMAIN devices :
        LET r == devices[id].reader
        IN  r # None /\ ~Twice(r) => devices[id].user = r

\* No open can make the hardware panic or fail for want of a channel: the
\* factory's count is the PIO's own, a PIO's instruction memory holds the one
\* program of the LED strips once, and there are more DMA channels than
\* strips can ask for.
ClaimsFit ==
    /\ \A p \in Pios : /\ hardware.sms[p] = claimed_sms[p]
                       /\ hardware.sms[p] <= StateMachines
                       /\ hardware.programs[p] <= 1
    /\ hardware.dma <= Cardinality({id \in DOMAIN devices : devices[id].type = "PIO"})
==============================================================================
