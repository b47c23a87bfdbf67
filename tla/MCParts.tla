------------------------------- MODULE MCParts -------------------------------
(***************************************************************************)
(* An instance, for TLC, of the parts that do not interact: a behaviour    *)
(* picks one of them and runs it; the variables of the others stand still. *)
(***************************************************************************)
EXTENDS TaskLifetime, Devices, Pins, Displays, LineEditor, HLK, DataFile, FileSync,
        PatternDesigner, Conversions, Relays, SystemClock

VARIABLE part

Parts == {"players", "devices", "pins", "displays", "line", "sensor", "data", "upload", "designer",
          "conversions", "relays", "clock"}

\* Players: one buzzer and one strip of two LEDs
Tone(sound, lasts) == [sound |-> sound, lasts |-> lasts]
TwoMelodies == {<<Tone("tone", TRUE)>>,
                <<Tone("tone", FALSE), Tone("refused", TRUE), Tone("rest", FALSE)>>}
TwoPatterns == {[size |-> 4, jump |-> 1], [size |-> 3, jump |-> 2]}

\* Devices: routers and a sensor over the USB port and two UARTs, a short and a
\* long strip; parameters that fail, a device given twice
U0 == <<"UART", 0>>
U1 == <<"UART", 1>>
Usb == <<"USBUART">>
On(type, name, on) == [type |-> type, name |-> <<name>>, on |-> on, junkSize |-> 1, leds |-> 5]
OpenLines ==
    {[type |-> "PIO", number |-> 0],
     [type |-> "UART", number |-> 0, pinsValid |-> TRUE],
     [type |-> "UART", number |-> 1, pinsValid |-> TRUE],
     [type |-> "ADC", number |-> 4],
     On("WS2812", "strip", <<<<"PIO", 0, 0>>>>),
     [On("WS2812", "strip", <<<<"PIO", 0, 1>>>>) EXCEPT !.leds = 20],
     On("7Seg", "disp", <<<<"strip">>>>),
     On("LEDStatus", "state", <<<<"strip">>>>),
     On("Passthrough", "p", <<Usb, U0>>),
     [On("Passthrough", "p", <<U0, U1>>) EXCEPT !.junkSize = 0],
     On("MultiPassthrough", "multi", <<U0, U0, Usb>>),
     On("PassthroughMonitor", "mon", <<Usb, U0>>),
     On("Loopback", "loop", <<Usb>>),
     On("HLKDevice", "hlk", <<<<"mon", "UART", 0>>>>)}

\* Displays: with and without DMA, a frame that is too short for its strip, a text
\* shorter than the display, one that needs two words
Shown == {[kind |-> "7Seg", leds |-> 142], [kind |-> "dotMatrix5x5", leds |-> 25],
          [kind |-> "dotMatrix8xN", leds |-> 72], [kind |-> "dotMatrix8xN", leds |-> 20],
          [kind |-> "LEDStatus", leds |-> 5]}
Words == {<<"b">>, <<"c", "a">>, <<"a", "b", "c", "b", "a">>}

\* The line: a variable with a blank in its value
Typed == {"a", " ", "'", "\"", "\\", "$", "{", "}"}
Known_ == (<<"a">> :> <<"a", " ", "a">>) @@ (<<"b">> :> <<"a">>)

\* Data: padded, whole, what looks like a field, and one whose space wraps
DataWord(n) == [sig |-> "data", size |-> n]
SomeContents ==
    {[size |-> 1, words |-> <<DataWord(1)>>],
     [size |-> 8, words |-> <<FieldHeader("A", 4), Flags>>],
     [size |-> 11, words |-> <<DataWord(1), FieldHeader("B", 4), DataWord(2)>>],
     [size |-> 58, words |-> [i \in 1 .. 15 |-> DataWord(i)]]}

LastBytes == [t \in {"u1", "u2"} |-> IF t = "u1" THEN 47 ELSE 46]

\* The designer: a strip of one LED or of three, what is no number
StripTexts  == {4, 12, NotANumber}
LengthTexts == {2, 4, NotANumber}
JumpTexts   == {-1, 2, NotANumber}

\* Relays: a loopback smaller than the port's buffer, as large, larger; a monitor
SomeRelays == {[kind |-> "Loopback", capacity |-> c] : c \in {2, 3, 4}}
                  \cup {[kind |-> "PassthroughMonitor", capacity |-> 4]}

\* Conversions: no bytes to five; an int of each sign, a colour
SomeBytes == BoundedSeq({0, 90, 255}, 5)
SomeInts  == {[i \in 1 .. 32 |-> IF i \in ones THEN 1 ELSE 0] :
                 ones \in {{}, {1, 26, 28, 29, 31}, 9 .. 16 \cup {30}, {2, 31}}}

\* The clock: dates in both forms, a Sunday, a day that is none, a word that is
\* neither date nor time, a date where the time belongs, a time before a date
Date(kind, y, m, d) == [kind |-> kind, year |-> y, mon |-> m, mday |-> d]
TimeOf(h, m, s) == [kind |-> "time", hour |-> h, min |-> m, sec |-> s]
NoWord == [kind |-> "other"]
SetWords ==
    {<<Date("iso", 2024, 2, 28)>>, <<TimeOf(0, 59, 50)>>, <<Date("iso", 2025, 2, 30)>>, <<NoWord>>,
     <<Date("german", 25, 6, 15), TimeOf(23, 33, Absent)>>,
     <<Date("german", 1999, 12, 13), TimeOf(22, 33, 15)>>,
     <<Date("iso", 2024, 2, 28), NoWord>>,
     <<Date("iso", 2025, 6, 10), Date("iso", 2025, 6, 11)>>,
     <<TimeOf(12, 0, 0), Date("iso", 2025, 6, 10)>>}
Unread == {[year |-> 2099, mon |-> 0, mday |-> 99, hour |-> 31, min |-> 7, sec |-> 0]}

\* Names of fields: too short and too long, a space, a character of no table
SomeNames == BoundedSeq({0, 13, 31, 32, 40}, 4)

-----------------------------------------------------------------------------
PartsInit ==
    /\ part \in Parts
    /\ Init /\ DInit /\ PInit /\ EInit /\ FInit /\ YInit /\ GInit
    /\ CInit /\ (part # "displays" => display.kind = "LEDStatus" /\ text = <<"b">>)
    /\ HInit /\ (part # "sensor" => finder = "fast" /\ Len(pending) = 1)
    /\ RInit /\ (part # "relays" => relay.kind = "PassthroughMonitor")
    /\ KInit /\ (part # "clock" => chip = "rp2350")
    /\ ConversionInit
    /\ part # "conversions" => conversion.kind = "hex" /\ conversion.given = <<>>

PartsNext ==
    /\ UNCHANGED part
    /\ \/ part = "players"  /\ Next
       \/ part # "players"  /\ UNCHANGED vars
    /\ \/ part = "devices"  /\ DNext
       \/ part # "devices"  /\ UNCHANGED dvars
    /\ \/ part = "pins"     /\ PNext
       \/ part # "pins"     /\ UNCHANGED pvars
    /\ \/ part = "displays" /\ CNext
       \/ part # "displays" /\ UNCHANGED cvars
    /\ \/ part = "line"     /\ ENext
       \/ part # "line"     /\ UNCHANGED evars
    /\ \/ part = "sensor"   /\ HNext
       \/ part # "sensor"   /\ UNCHANGED hvars
    /\ \/ part = "data"     /\ FNext
       \/ part # "data"     /\ UNCHANGED fvars
    /\ \/ part = "upload"   /\ YNext
       \/ part # "upload"   /\ UNCHANGED yvars
    /\ \/ part = "designer" /\ GNext
       \/ part # "designer" /\ UNCHANGED designerVars
    /\ \/ part = "conversions" /\ ConversionNext
       \/ part # "conversions" /\ UNCHANGED conversion
    /\ \/ part = "relays" /\ RNext
       \/ part # "relays" /\ UNCHANGED relayVars
    /\ \/ part = "clock" /\ KNext
       \/ part # "clock" /\ UNCHANGED clockVars

PartsSpec ==
    /\ PartsInit
    /\ [][PartsNext]_<<part, vars, dvars, pvars, cvars, evars, hvars, fvars, yvars,
                    designerVars, conversion, relayVars, clockVars>>
    /\ WF_vars(part = "players" /\ Loop)
    /\ \A t \in Tasks : /\ WF_vars(part = "players" /\ t \in Created /\ Wake(t))
                        /\ WF_vars(part = "players" /\ t \in Created /\ BecomeDue(t))
==============================================================================
