------------------------------- MODULE Displays -------------------------------
(***************************************************************************)
(* A display over a strip of LEDs: SevenSeg, dotMatrix5x5, dotMatrix8xN    *)
(* and LEDStatus of app/src/devices/, WS2812::setPattern and               *)
(* PIODevice::transfer.  A column of LEDs is the character and the column  *)
(* of its glyph that it shows; glyphs, colours and the zigzag wiring of    *)
(* the strip are left out.                                                 *)
(*                                                                         *)
(* A scrolling display paints a frame every time its task runs; the other  *)
(* two paint when their variable is set.  The frame is the display's own   *)
(* buffer, which the DMA reads while the program goes on.                  *)
(***************************************************************************)
EXTENDS Integers, SequencesExt

CONSTANTS
    DisplayKinds,   \* [kind, leds]: what may be opened
    Texts           \* values of the .value variable, sequences of characters

\* the displays that scroll refuse an empty value, and a device is opened with a word
ASSUME DisplaysAssumption ==
    /\ \A d \in DisplayKinds : d.leds \in Nat
    /\ \A t \in Texts : Len(t) \in Nat \ {0}

VARIABLES
    display,    \* the display opened
    text,       \* the value it took last
    direction,  \* "STOP", "LEFT", "RIGHT"
    offset,     \* _current_offset
    frame,      \* _currentFrame or _ledString: the columns of the buffer
    busy,       \* the DMA is reading the frame
    wire,       \* the characters the DMA may read
    strip,      \* the characters the LEDs show
    missed      \* the frame changed with nothing to send it (history)

cvars == <<display, text, direction, offset, frame, busy, wire, strip, missed>>

Scrolling == {"dotMatrix5x5", "dotMatrix8xN"}
DMA_LEDS == 16
Off == <<"off", 0>>
Spacer == 5             \* the empty sixth column of a 5x5 glyph

(***************************************************************************)
(* dotMatrix5x5: the columns of the text and of its first character again, *)
(* thirty to a word.                                                       *)
(***************************************************************************)
_bit_vector_length(t) == (Len(t) + 1) * 6
_total_columns(t) == (_bit_vector_length(t) + 29) \div 30
Glyph(c, column) == IF column = Spacer THEN Off ELSE <<c, column>>

\* bit b of word w of _ledData; bits 30 and 31 are never set
Bit(t, w, b) ==
    LET i == w * 5 + (b \div 6)
    IN  IF w >= _total_columns(t) THEN <<"outside", w>>
        ELSE IF b < 0 \/ b >= 30 \/ i > Len(t) THEN Off
        ELSE Glyph(IF i = Len(t) THEN t[1] ELSE t[i + 1], b % 6)

Paint5x5(t, o) ==
    LET startIndex == o \div 30
        endIndex   == (o + 5) \div 30
        start(r)   == Bit(t, startIndex, o - startIndex * 30 + r)
        end(r)     == Bit(t, endIndex, r - (30 - (o - startIndex * 30)))
    IN  [r \in 1 .. 5 |->
            IF startIndex = endIndex \/ end(r - 1) = Off THEN start(r - 1) ELSE end(r - 1)]

\* slip: the offset wraps only behind the last column
Step5x5Late(t, o, d) ==
    CASE d = "LEFT"  -> IF o + 1 >= _bit_vector_length(t) THEN 0 ELSE o + 1
      [] d = "RIGHT" -> IF o = 0 THEN _bit_vector_length(t) - 6 ELSE o - 1
      [] d = "STOP"  -> o

Step5x5(t, o, d) ==
    CASE Len(t) = 1  -> o
      [] Len(t) > 1 /\ d = "LEFT"  -> IF o + 1 + 6 >= _bit_vector_length(t) THEN 0 ELSE o + 1
      [] Len(t) > 1 /\ d = "RIGHT" -> IF o = 0 THEN _bit_vector_length(t) - 6 ELSE o - 1
      [] Len(t) > 1 /\ d = "STOP"  -> o

(***************************************************************************)
(* dotMatrix8xN: eight columns a character; a text shorter than the        *)
(* display is painted from the left and leaves the rest of the frame alone.*)
(***************************************************************************)
Glyph8(c, column) == <<c, column>>
Columns8(t) == [i \in 1 .. 8 * Len(t) |-> Glyph8(t[((i - 1) \div 8) + 1], (i - 1) % 8)]
Width8 == display.leds \div 8
Static(t) == Len(Columns8(t)) < Width8

Paint8xN(t, o, old) ==
    [i \in 1 .. Width8 |->
        IF ~Static(t) THEN Columns8(t)[((o + i - 1) % Len(Columns8(t))) + 1]
        ELSE IF i <= Len(Columns8(t)) THEN Columns8(t)[i] ELSE old[i]]
Step8xN(t, o, d) ==
    IF Static(t) THEN o
    ELSE CASE d = "LEFT"  -> IF o + 1 >= Len(Columns8(t)) THEN 0 ELSE o + 1
           [] d = "RIGHT" -> IF o = 0 THEN Len(Columns8(t)) - 1 ELSE o - 1
           [] d = "STOP"  -> o

-----------------------------------------------------------------------------
(***************************************************************************)
(* setPattern refuses a frame with fewer LEDs than the strip; transfer     *)
(* writes a short strip itself and gives a long one to the DMA, unless it  *)
(* still sends the last.                                                   *)
(***************************************************************************)
FrameLeds ==
    CASE display.kind = "7Seg"         -> 142
      [] display.kind = "dotMatrix5x5" -> 25
      [] display.kind = "dotMatrix8xN" -> 8 * Width8
      [] display.kind = "LEDStatus"    -> display.leds
FrameFits == FrameLeds >= display.leds
UsesDma == display.leds > DMA_LEDS

Characters(picture) == {column[1] : column \in ToSet(picture)} \ {Off[1]}

Send(picture) ==
    /\ frame' = picture
    /\ wire' = IF busy THEN wire \cup Characters(picture) ELSE Characters(picture)
    /\ busy' = (busy \/ (FrameFits /\ UsesDma))
    /\ strip' = IF FrameFits /\ ~UsesDma THEN Characters(picture) ELSE strip
    /\ missed' = (~FrameFits \/ (busy /\ picture # frame) \/ (busy /\ missed))

DmaDone ==
    /\ busy
    /\ busy' = FALSE /\ strip' = wire
    /\ UNCHANGED <<display, text, direction, offset, frame, wire, missed>>

CInit ==
    /\ display \in DisplayKinds /\ text \in Texts
    /\ display.kind = "7Seg" => Len(text) >= 5
    /\ direction = "LEFT" /\ offset = 0
    /\ frame = IF display.kind = "dotMatrix8xN" THEN [i \in 1 .. Width8 |-> Off] ELSE <<Off>>
    /\ busy = FALSE /\ wire = {} /\ strip = {} /\ missed = TRUE

\* .value: a display that scrolls starts over and waits for its task
SetValue(t) ==
    /\ text' = t
    /\ IF display.kind \in Scrolling
       THEN offset' = 0 /\ UNCHANGED <<frame, busy, wire, strip, missed>>
       ELSE /\ display.kind = "7Seg" => Len(t) >= 5
            /\ Send([i \in DOMAIN t |-> <<t[i], 0>>])
            /\ UNCHANGED offset
    /\ UNCHANGED <<display, direction>>

\* .speed: its sign is the direction
SetScrollingDirection(d) ==
    /\ display.kind \in Scrolling
    /\ direction' = d /\ offset' = 0
    /\ UNCHANGED <<display, text, frame, busy, wire, strip, missed>>

ScrollText ==
    /\ \/ /\ display.kind = "dotMatrix5x5"
          /\ Send(Paint5x5(text, offset))
          /\ offset' = Step5x5(text, offset, direction)
       \/ /\ display.kind = "dotMatrix8xN"
          /\ Send(Paint8xN(text, offset, frame))
          /\ offset' = Step8xN(text, offset, direction)
    /\ UNCHANGED <<display, text, direction>>

CNext ==
    \/ \E t \in Texts : SetValue(t)
    \/ \E d \in {"STOP", "LEFT", "RIGHT"} : SetScrollingDirection(d)
    \/ ScrollText
    \/ DmaDone

CSpec == CInit /\ [][CNext]_cvars

-----------------------------------------------------------------------------
\* The text as a ring of columns, and the picture that starts at column p.
Ring(t) ==
    IF display.kind = "dotMatrix8xN" THEN Columns8(t)
    ELSE [i \in 1 .. 6 * Len(t) |-> Glyph(t[((i - 1) \div 6) + 1], (i - 1) % 6)]
Picture(t, p, width) == [i \in 1 .. width |-> Ring(t)[((p + i - 1) % Len(Ring(t))) + 1]]

\* Whatever the text's length, the words it is packed in and the direction it
\* runs, the next frame a scrolling display paints is the window of the text's
\* ring at its offset, without a bit of another word or a column outside the
\* text.  (dotMatrix5x5 shows the first window twice when it runs to the
\* right.)  And a strip that is idle shows the frame, unless the frame was
\* changed under the DMA, refused as too short, or met a busy DMA.
PictureIsText ==
    /\ display.kind \in Scrolling =>
          LET n == Len(Ring(text))
              width == IF display.kind = "dotMatrix5x5" THEN 5 ELSE Width8
          IN  display.kind = "dotMatrix5x5" \/ ~Static(text) =>
                /\ offset \in 0 .. n
                /\ LET next == IF display.kind = "dotMatrix5x5" THEN Paint5x5(text, offset)
                               ELSE Paint8xN(text, offset, frame)
                   IN  next = Picture(text, offset % n, width)
    /\ ~busy /\ ~missed => strip = Characters(frame)
===============================================================================
