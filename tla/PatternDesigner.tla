---------------------------- MODULE PatternDesigner ----------------------------
(***************************************************************************)
(* Helper-Tools/PatternDesigner/pattern_designer.py: the editor of a       *)
(* pattern of LEDs, the settings a user types and applies, the preview     *)
(* threads that advance the frame, load, save and export.                  *)
(*                                                                         *)
(* Colours have one channel; they are typed and nothing keeps them below   *)
(* 256.  What is drawn, the colour picker and the log are left out.        *)
(***************************************************************************)
EXTENDS Integers, SequencesExt, Functions, FiniteSetsExt

CONSTANTS
    Colours,        \* colours that are painted
    NotANumber,     \* a text that is no number
    StripCms,       \* texts of the length field, NotANumber among them
    PatternLengths, \* texts of the pattern length field
    Jumps,          \* texts of the offset jump field
    DefaultLeds,    \* the length of the first pattern
    MaxEdits,       \* bound: what is done to the pattern
    MaxThreads      \* bound: previews started

\* what is typed is an integer or cannot be parsed
ASSUME DesignerAssumption ==
    /\ Colours \subseteq Int /\ DefaultLeds \in Int
    /\ StripCms \cup PatternLengths \subseteq Int \cup {NotANumber}

VARIABLES
    pattern,        \* [leds, keypoints]: a sequence, and index -> colour
    faded,          \* keypoints drawn over by a gradient (history)
    entry,          \* what the fields say: [cm, leds, jump]
    live,           \* live_update_var
    settings,       \* what was applied: [cm, jump]
    stripLeds,      \* strip_led_count
    file,           \* the saved patterns
    exported,       \* the fields of the last file exported
    animating, currentFrame,
    preview,        \* preview threads: [at, frame], the frame they computed
    edits

designerVars == <<pattern, faded, entry, live, settings, stripLeds, file, exported,
           animating, currentFrame, preview, edits>>

Density    == 30
Lower(m, n)  == IF m < n THEN m ELSE n
Higher(m, n) == IF m > n THEN m ELSE n

\* Len(leds) is num_leds; LED i of the code is leds[i + 1]
NumLeds == Len(pattern.leds)
CalculateStripLedCount(cm) == Higher(1, (Density * cm) \div 100)
EnsurePatternLength(n, strip) == Higher(strip + 1, n)

GInit ==
    /\ settings = [cm |-> 4, jump |-> 1]
    /\ entry = [cm |-> 4, leds |-> DefaultLeds, jump |-> 1]
    /\ stripLeds = CalculateStripLedCount(4)
    /\ pattern = [leds |-> [i \in 1 .. Higher(stripLeds + 1, DefaultLeds) |-> 0],
                  keypoints |-> <<>>]
    /\ faded = {} /\ live = FALSE /\ file = {} /\ exported = <<>>
    /\ animating = FALSE /\ currentFrame = 0 /\ preview = <<>>
    /\ edits = 0

Edit == edits < MaxEdits /\ edits' = edits + 1

-----------------------------------------------------------------------------
(***************************************************************************)
(* Painting.                                                               *)
(***************************************************************************)

\* _on_editor_click: set_led, which ignores an index outside of the pattern
Paint(i, colour) ==
    /\ Edit
    /\ i \in 0 .. NumLeds - 1
    /\ pattern' = [leds |-> [pattern.leds EXCEPT ![i + 1] = colour],
                   keypoints |-> [k \in DOMAIN pattern.keypoints \cup {i} |->
                                     IF k = i THEN colour ELSE pattern.keypoints[k]]]
    /\ faded' = faded \ {i}
    /\ UNCHANGED <<entry, live, settings, stripLeds, file, exported, animating,
                   currentFrame, preview>>

Clear ==
    /\ Edit
    /\ pattern' = [leds |-> [i \in DOMAIN pattern.leds |-> 0], keypoints |-> <<>>]
    /\ faded' = {}
    /\ UNCHANGED <<entry, live, settings, stripLeds, file, exported, animating,
                   currentFrame, preview>>

\* the spline through p1 and p2 at s / d of the way, cut to an integer; a negative
\* one is clamped to 0 afterwards, so \div rounding down makes no difference
CatmullRom(p0, p1, p2, p3, s, d) ==
    (2 * p1 * d * d * d + (p2 - p0) * s * d * d
       + (2 * p0 - 5 * p1 + 4 * p2 - p3) * s * s * d
       + (3 * p1 - p0 - 3 * p2 + p3) * s * s * s) \div (2 * d * d * d)
Clamped(c) == Higher(0, Lower(255, c))

\* the keypoints next to k, or k itself at an end, and the one a segment starts at
Previous(keys, k)  == IF \A x \in keys : x >= k THEN k ELSE Max({x \in keys : x < k})
Following(keys, k) == IF \A x \in keys : x <= k THEN k ELSE Min({x \in keys : x > k})
SegmentStart(keys, i) == IF i = Max(keys) THEN Previous(keys, i) ELSE Max({x \in keys : x <= i})

\* the end of a segment is the start of the next, with the same colour
Spline(points, s, i) ==
    LET keys == DOMAIN points
        end  == Following(keys, s)
    IN  Clamped(CatmullRom(points[Previous(keys, s)], points[s], points[end],
                           points[Following(keys, end)], i - s, end - s))

\* interpolate_between_keypoints: what is outside of the outer keypoints stays
Interpolated(p) ==
    LET keys == DOMAIN p.keypoints
    IN  [i \in DOMAIN p.leds |->
            IF i - 1 < Min(keys) \/ i - 1 > Max(keys) THEN p.leds[i]
            ELSE Spline(p.keypoints, SegmentStart(keys, i - 1), i - 1)]

Interpolate ==
    /\ Edit
    /\ Cardinality(DOMAIN pattern.keypoints) >= 2
    /\ pattern' = [pattern EXCEPT !.leds = Interpolated(pattern)]
    /\ faded' = {}
    /\ UNCHANGED <<entry, live, settings, stripLeds, file, exported, animating,
                   currentFrame, preview>>

\* create_gradient: from black to the colour, over the keypoints
CreateGradient(colour) ==
    /\ Edit
    /\ NumLeds >= 2
    /\ pattern' = [pattern EXCEPT !.leds =
                      [i \in DOMAIN @ |-> (colour * (i - 1)) \div (NumLeds - 1)]]
    /\ faded' = DOMAIN pattern.keypoints
    /\ UNCHANGED <<entry, live, settings, stripLeds, file, exported, animating,
                   currentFrame, preview>>

-----------------------------------------------------------------------------
(***************************************************************************)
(* The settings.                                                           *)
(***************************************************************************)
Cut(leds, n) == [i \in 1 .. n |-> IF i <= Len(leds) THEN leds[i] ELSE 0]

\* slip: the keypoints behind the end are kept
ResizedOnly(p, n) == [p EXCEPT !.leds = Cut(@, n)]
Resized(p, n) ==
    [leds |-> Cut(p.leds, n),
     keypoints |-> Restrict(p.keypoints, {k \in DOMAIN p.keypoints : k < n})]

\* _resize_pattern also pulls the frame back; a preview that has computed its
\* frame already stores it all the same
PulledBack(n) == currentFrame' = IF currentFrame >= n THEN 0 ELSE currentFrame

\* apply_timeline_settings with the fields f: what cannot be parsed ends it, and
\* what was parsed before stays applied; the pattern length has its own handler
Applied(f) ==
    LET n == EnsurePatternLength(IF f.leds = NotANumber THEN NumLeds ELSE f.leds,
                                 CalculateStripLedCount(f.cm))
    IN  IF f.cm = NotANumber THEN UNCHANGED <<pattern, faded, settings, stripLeds, currentFrame>>
                                  /\ entry' = f
        ELSE IF f.jump = NotANumber
        THEN /\ settings' = [settings EXCEPT !.cm = f.cm]
             /\ entry' = f
             /\ UNCHANGED <<pattern, faded, stripLeds, currentFrame>>
        ELSE /\ settings' = [cm |-> f.cm, jump |-> f.jump]
             /\ stripLeds' = CalculateStripLedCount(f.cm)
             /\ entry' = [f EXCEPT !.leds = n]
             /\ IF n = NumLeds THEN UNCHANGED <<pattern, currentFrame>>
                ELSE pattern' = Resized(pattern, n) /\ PulledBack(n)
             /\ faded' = {k \in faded : k < n}

ApplySettings ==
    /\ Edit
    /\ Applied(entry)
    /\ UNCHANGED <<live, file, exported, animating, preview>>

\* _on_settings_change, _on_pattern_length_change: applied at once when live
SettingsChange ==
    /\ Edit
    /\ \E f \in {[entry EXCEPT !.cm = v] : v \in StripCms}
                \cup {[entry EXCEPT !.leds = v] : v \in PatternLengths}
                \cup {[entry EXCEPT !.jump = v] : v \in Jumps} :
          /\ f # entry
          /\ IF live THEN Applied(f)
             ELSE entry' = f /\ UNCHANGED <<pattern, faded, settings, stripLeds, currentFrame>>
    /\ UNCHANGED <<live, file, exported, animating, preview>>

ToggleLive ==
    /\ Edit
    /\ live' = ~live
    /\ UNCHANGED <<pattern, faded, entry, settings, stripLeds, file, exported, animating,
                   currentFrame, preview>>

-----------------------------------------------------------------------------
(***************************************************************************)
(* Files.                                                                  *)
(***************************************************************************)

\* the settings are saved, too, and never loaded
SavePattern ==
    /\ Edit
    /\ file' = file \cup {[pattern |-> pattern, faded |-> faded]}
    /\ UNCHANGED <<pattern, faded, entry, live, settings, stripLeds, exported, animating,
                   currentFrame, preview>>

\* the strip may have become longer since: the LEDs behind those of the file are
\* the ones of the pattern that was open
LoadPattern ==
    /\ Edit
    /\ \E f \in file :
          LET saved == f.pattern.leds
              n == EnsurePatternLength(Len(saved), stripLeds)
              rest == Resized(pattern, n).leds
          IN  /\ pattern' = [leds |-> [i \in 1 .. n |-> IF i <= Len(saved) THEN saved[i] ELSE rest[i]],
                             keypoints |-> f.pattern.keypoints]
              /\ faded' = f.faded
              /\ PulledBack(n)
              /\ entry' = [entry EXCEPT !.leds = n]
    /\ UNCHANGED <<live, settings, stripLeds, file, exported, animating, preview>>

\* _export_pattern_to_binary_path: one run of dfile per field; what does not fit
\* its field ends it and leaves the file with the fields before.  to_bytes gives
\* four bytes per LED
Exported == IF settings.jump < 0 THEN <<"tim">>
            ELSE <<"tim", "jmp", "len", [dat |-> pattern.leds]>>

ExportBinary ==
    /\ Edit
    /\ exported' = Exported
    /\ UNCHANGED <<pattern, faded, entry, live, settings, stripLeds, file, animating,
                   currentFrame, preview>>

-----------------------------------------------------------------------------
(***************************************************************************)
(* The preview: every start makes a thread; one that is asleep while the   *)
(* preview is stopped and started again goes on beside the new one.  They  *)
(* read the fields, not the settings that were applied.                    *)
(***************************************************************************)
ToggleAnimation ==
    /\ animating \/ Len(preview) < MaxThreads
    /\ animating' = ~animating
    /\ preview' = IF animating THEN preview ELSE Append(preview, [at |-> "asleep", frame |-> 0])
    /\ UNCHANGED <<pattern, faded, entry, live, settings, stripLeds, file, exported,
                   currentFrame, edits>>

\* _animation_loop: a field that is no number ends the thread, and only the thread
Advance(t) ==
    /\ preview[t].at = "asleep"
    /\ preview' = [preview EXCEPT ![t] =
                      IF entry.jump = NotANumber THEN [@ EXCEPT !.at = "ended"]
                      ELSE [at |-> "computed", frame |-> (currentFrame + entry.jump) % NumLeds]]
    /\ UNCHANGED <<pattern, faded, entry, live, settings, stripLeds, file, exported,
                   animating, currentFrame, edits>>

StoreFrame(t) ==
    /\ preview[t].at = "computed"
    /\ currentFrame' = preview[t].frame
    /\ preview' = [preview EXCEPT ![t] = [at |-> IF animating THEN "asleep" ELSE "ended", frame |-> 0]]
    /\ UNCHANGED <<pattern, faded, entry, live, settings, stripLeds, file, exported,
                   animating, edits>>

ResetFrame ==
    /\ currentFrame' = 0
    /\ UNCHANGED <<pattern, faded, entry, live, settings, stripLeds, file, exported,
                   animating, preview, edits>>

GNext ==
    \/ \E i \in 0 .. NumLeds - 1, c \in Colours : Paint(i, c)
    \/ Clear
    \/ Interpolate
    \/ \E c \in Colours : CreateGradient(c)
    \/ ApplySettings
    \/ SettingsChange
    \/ ToggleLive
    \/ SavePattern
    \/ LoadPattern
    \/ ExportBinary
    \/ ToggleAnimation
    \/ \E t \in DOMAIN preview : Advance(t) \/ StoreFrame(t)
    \/ ResetFrame

GSpec == GInit /\ [][GNext]_designerVars

-----------------------------------------------------------------------------
\* Painting is not lost and the pattern fits its strip: whatever the order of
\* paints, interpolations, gradients, settings applied whole or in part, loads
\* and saves, every keypoint is an LED of the pattern and the LED has its colour,
\* but for the ones a gradient was drawn over; and the pattern is longer than the
\* strip it is shown on, so that _draw_strip_bar finds each LED of the strip.
PaintSurvives ==
    /\ NumLeds > stripLeds
    /\ \A k \in DOMAIN pattern.keypoints :
          /\ k \in 0 .. NumLeds - 1
          /\ k \notin faded =>
                Clamped(pattern.leds[k + 1]) = Clamped(pattern.keypoints[k])
================================================================================
