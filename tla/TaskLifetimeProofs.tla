------------------------- MODULE TaskLifetimeProofs -------------------------
(***************************************************************************)
(* Proofs about the tasks of the beep and led commands: which vector of    *)
(* the main loop a task may be in, that a tone has somebody to end it, and *)
(* that the next frame of a pattern exists; in the second part, about the  *)
(* clock and the task that writes the time: that a date read back is the   *)
(* date that was set, and that the variable shows the clock's minute; and  *)
(* in the third about the tool that draws the patterns the led command     *)
(* plays: that no edit loses what was painted.                             *)
(***************************************************************************)
EXTENDS TaskLifetime, SystemClock, PatternDesigner, TLAPS, SequenceTheorems,
        WellFoundedInduction, FiniteSetTheorems

(***************************************************************************)
(* The types.  A melody is played by the regular loop, a pattern by the    *)
(* timed loop, and a loop visits only tasks of its own vector.             *)
(***************************************************************************)
BeepObjects  == [on : Buzzers, data : Melodies, pos : Nat, loop : BOOLEAN, playing : BOOLEAN]
LightObjects == [on : Strips, data : Patterns, pos : Nat, loop : BOOLEAN, playing : BOOLEAN]
Objects == BeepObjects \cup LightObjects

TypeInv ==
    /\ objects \in Seq(Objects)
    /\ active \subseteq Created /\ killed \subseteq Created
    /\ regular \subseteq Beeps /\ timed \subseteq Lights
    /\ asleep \subseteq regular /\ due \subseteq timed
    /\ doomed \subseteq regular \cup timed
    /\ sounding \in [Buzzers -> Beeps \cup {Silent}]
    /\ at \in {"timed", "console", "regular", "cleanup", "crashed"}
    /\ at = "timed" => todo \subseteq timed
    /\ at \in {"console", "regular"} => todo \subseteq regular

\* What a task plays on and from never changes.
Kept == /\ objects' \in Seq(Objects) /\ Created \subseteq Created'
        /\ \A t \in Created : objects'[t].on = objects[t].on /\ objects'[t].data = objects[t].data

LEMMA CreatedRange ==
    ASSUME TypeInv
    PROVE  /\ Created = 1 .. Len(objects) /\ Len(objects) \in Nat
           /\ Silent \notin Created
           /\ Beeps \cap Lights = {} /\ Created = Beeps \cup Lights
           /\ \A t \in Created : objects[t] \in Objects
           /\ \A t \in Beeps : objects[t] \in BeepObjects
           /\ \A t \in Lights : objects[t] \in LightObjects
<1>1. Created = 1 .. Len(objects) /\ Len(objects) \in Nat
      /\ \A t \in Created : objects[t] \in Objects
  BY LenProperties, ElementOfSeq DEF TypeInv, Created
<1>2. Silent \notin Created
  BY <1>1 DEF Silent
<1>3. /\ Beeps \cap Lights = {} /\ Created = Beeps \cup Lights
      /\ \A t \in Beeps : objects[t] \in BeepObjects
      /\ \A t \in Lights : objects[t] \in LightObjects
  BY <1>1, LifetimeAssumption DEF Beeps, Lights, Objects, BeepObjects, LightObjects
<1>. QED  BY <1>1, <1>2, <1>3

\* The players keep their kind while the objects only move on.
LEMMA KindsKept ==
    ASSUME TypeInv, Kept
    PROVE  /\ Beeps \subseteq Beeps' /\ Lights \subseteq Lights'
           /\ Created \subseteq Created'
BY DEF Kept, Beeps, Lights, Created

\* A step that changes one object only.
LEMMA OneChanged ==
    ASSUME TypeInv, NEW t \in Created, NEW o \in Objects,
           o.on = objects[t].on, o.data = objects[t].data,
           objects' = [objects EXCEPT ![t] = o]
    PROVE  Kept /\ objects'[t] = o /\ Created' = Created
           /\ \A u \in Created : u # t => objects'[u] = objects[u]
<1>1. t \in 1 .. Len(objects) /\ Created = 1 .. Len(objects)
  BY CreatedRange
<1>2. /\ objects' \in Seq(Objects)
      /\ \A u \in Created : objects'[u] = IF u = t THEN o ELSE objects[u]
  BY <1>1, ExceptSeq DEF TypeInv
<1>3. Created' = Created
  BY DEF Created
<1>. QED  BY <1>2, <1>3 DEF Kept

\* A step that changes the flags of some objects.
LEMMA SomeChanged ==
    ASSUME TypeInv, DOMAIN objects' = Created,
           objects' = [t \in Created |-> objects'[t]],
           \A t \in Created : objects'[t] \in Objects
                              /\ objects'[t].on = objects[t].on /\ objects'[t].data = objects[t].data
    PROVE  Kept /\ Created' = Created
<1>1. objects' \in [1 .. Len(objects) -> Objects] /\ Len(objects) \in Nat
  BY CreatedRange
<1>2. objects' \in Seq(Objects)
  BY <1>1, SeqDef
<1>. QED  BY <1>2 DEF Kept, Created

\* A command creates a task nobody knows yet.
LEMMA OneCreated ==
    ASSUME TypeInv, NEW device \in Buzzers \cup Strips, NEW data, NEW loop \in BOOLEAN,
           NewTask(device, data, loop),
           device \in Buzzers => data \in Melodies, device \in Strips => data \in Patterns
    PROVE  /\ Kept /\ Len(objects') \notin Created /\ Len(objects') \in Created'
           /\ objects'[Len(objects')] = [on |-> device, data |-> data, pos |-> 0,
                                         loop |-> loop, playing |-> TRUE]
           /\ Created' = Created \cup {Len(objects')}
           /\ \A u \in Created : objects'[u] = objects[u]
<1> DEFINE o == [on |-> device, data |-> data, pos |-> 0, loop |-> loop, playing |-> TRUE]
<1>1. o \in Objects
  BY DEF Objects, BeepObjects, LightObjects
<1>2. /\ objects' \in Seq(Objects) /\ Len(objects') = Len(objects) + 1
      /\ objects'[Len(objects')] = o
      /\ \A u \in 1 .. Len(objects) : objects'[u] = objects[u]
  BY <1>1 DEF NewTask, TypeInv
<1>3. Created = 1 .. Len(objects) /\ Len(objects) \in Nat /\ Created' = 1 .. Len(objects) + 1
  BY <1>2, CreatedRange, LenProperties DEF Created
<1>. QED  BY <1>2, <1>3 DEF Kept

LEMMA LifeInit == Init => TypeInv
<1>. SUFFICES ASSUME Init PROVE TypeInv
  OBVIOUS
<1>1. objects \in Seq(Objects)
  BY EmptySeq DEF Init
<1>2. sounding \in [Buzzers -> Beeps \cup {Silent}]
  BY DEF Init
<1>. QED  BY <1>1, <1>2 DEF Init, TypeInv

\* What one call of a task's function does to the objects
LEMMA PlayedTone ==
    ASSUME TypeInv, NEW t \in Created, PlayTone(t)
    PROVE  /\ Kept /\ Created' = Created /\ t \in Beeps /\ t \in regular
           /\ objects'[t] = [objects[t] EXCEPT !.pos = NextTone(objects[t])]
           /\ \A u \in Created : u # t => objects'[u] = objects[u]
<1>1. t \in Beeps /\ t \in regular
  BY DEF PlayTone, CallsBeep, TypeInv
<1>2. objects[t] \in BeepObjects
  BY <1>1, CreatedRange
<1> DEFINE o == [objects[t] EXCEPT !.pos = NextTone(objects[t])]
<1>3. o \in Objects /\ o.on = objects[t].on /\ o.data = objects[t].data
  BY <1>2 DEF NextTone, Objects, BeepObjects
<1>4. objects' = [objects EXCEPT ![t] = o]
  BY DEF PlayTone
<1>. QED  BY <1>1, <1>3, <1>4, OneChanged

LEMMA ShownFrame ==
    ASSUME TypeInv, NEW t \in Created, ShowFrame(t)
    PROVE  /\ Kept /\ Created' = Created /\ t \in Lights /\ t \in timed
           /\ objects'[t] = Moved(objects[t])
           /\ \A u \in Created : u # t => objects'[u] = objects[u]
<1>1. t \in Lights /\ t \in timed
  BY DEF ShowFrame, CallsLight, TypeInv
<1>2. objects[t] \in LightObjects
  BY <1>1, CreatedRange
<1>3. /\ Moved(objects[t]) \in Objects
      /\ Moved(objects[t]).on = objects[t].on /\ Moved(objects[t]).data = objects[t].data
  <2>1. objects[t].data.jump \in Nat
    BY <1>2, LifetimeAssumption DEF LightObjects
  <2> DEFINE m == [objects[t] EXCEPT !.pos = @ + objects[t].data.jump]
  <2>2. m \in LightObjects /\ m.on = objects[t].on /\ m.data = objects[t].data
    BY <1>2, <2>1 DEF LightObjects
  <2>3. /\ [m EXCEPT !.pos = 0] \in LightObjects
        /\ [m EXCEPT !.pos = 0].on = m.on /\ [m EXCEPT !.pos = 0].data = m.data
    BY <2>2 DEF LightObjects
  <2>4. Moved(objects[t]) = m \/ Moved(objects[t]) = [m EXCEPT !.pos = 0]
    BY DEF Moved
  <2>. QED  BY <2>2, <2>3, <2>4 DEF Objects
<1>4. objects' = [objects EXCEPT ![t] = Moved(objects[t])]
  BY DEF ShowFrame
<1>. QED  BY <1>1, <1>3, <1>4, OneChanged

LEMMA FailedFrame ==
    ASSUME TypeInv, NEW t \in Created, FailFrame(t)
    PROVE  /\ Kept /\ Created' = Created /\ t \in Lights /\ t \in timed
           /\ objects'[t] = [objects[t] EXCEPT !.playing = FALSE]
           /\ \A u \in Created : u # t => objects'[u] = objects[u]
<1>1. t \in Lights /\ t \in timed
  BY DEF FailFrame, CallsLight, TypeInv
<1>2. objects[t] \in LightObjects
  BY <1>1, CreatedRange
<1> DEFINE o == [objects[t] EXCEPT !.playing = FALSE]
<1>3. o \in Objects /\ o.on = objects[t].on /\ o.data = objects[t].data
  BY <1>2 DEF Objects, LightObjects
<1>4. objects' = [objects EXCEPT ![t] = o]
  BY DEF FailFrame
<1>. QED  BY <1>1, <1>3, <1>4, OneChanged

\* The stop commands change a flag of some objects and nothing else of them.
LEMMA StoppedBeeps ==
    ASSUME TypeInv, NEW b \in Buzzers, BeepStop(b)
    PROVE  /\ Kept /\ Created' = Created
           /\ \A t \in Created : \/ objects'[t] = objects[t]
                                 \/ t \in Beeps /\ objects'[t] = [objects[t] EXCEPT !.loop = FALSE]
<1>1. /\ DOMAIN objects' = Created /\ objects' = [t \in Created |-> objects'[t]]
      /\ \A t \in Created : \/ objects'[t] = objects[t]
                            \/ t \in Beeps /\ objects'[t] = [objects[t] EXCEPT !.loop = FALSE]
  BY DEF BeepStop, Beeps
<1>2. \A t \in Created : /\ objects'[t] \in Objects /\ objects'[t].on = objects[t].on
                         /\ objects'[t].data = objects[t].data
  <2>1. \A t \in Beeps : /\ [objects[t] EXCEPT !.loop = FALSE] \in Objects
                         /\ [objects[t] EXCEPT !.loop = FALSE].on = objects[t].on
                         /\ [objects[t] EXCEPT !.loop = FALSE].data = objects[t].data
    BY CreatedRange DEF BeepObjects, Objects
  <2>. SUFFICES ASSUME NEW t \in Created
                PROVE  /\ objects'[t] \in Objects /\ objects'[t].on = objects[t].on
                       /\ objects'[t].data = objects[t].data
    OBVIOUS
  <2>2. objects[t] \in Objects
    BY CreatedRange
  <2>3. CASE objects'[t] = objects[t]
    BY <2>2, <2>3
  <2>4. CASE t \in Beeps /\ objects'[t] = [objects[t] EXCEPT !.loop = FALSE]
    BY <2>1, <2>4, Zenon
  <2>. QED  BY <1>1, <2>3, <2>4
<1>. QED  BY <1>1, <1>2, SomeChanged

LEMMA StoppedLights ==
    ASSUME TypeInv, NEW s \in Strips, LightStop(s)
    PROVE  /\ Kept /\ Created' = Created
           /\ \A t \in Created : \/ objects'[t] = objects[t]
                                 \/ t \in Lights /\ objects'[t] = [objects[t] EXCEPT !.playing = FALSE]
<1>1. /\ DOMAIN objects' = Created /\ objects' = [t \in Created |-> objects'[t]]
      /\ \A t \in Created : \/ objects'[t] = objects[t]
                            \/ t \in Lights /\ objects'[t] = [objects[t] EXCEPT !.playing = FALSE]
  BY DEF LightStop, Lights
<1>2. \A t \in Created : /\ objects'[t] \in Objects /\ objects'[t].on = objects[t].on
                         /\ objects'[t].data = objects[t].data
  <2>1. \A t \in Lights : /\ [objects[t] EXCEPT !.playing = FALSE] \in Objects
                          /\ [objects[t] EXCEPT !.playing = FALSE].on = objects[t].on
                          /\ [objects[t] EXCEPT !.playing = FALSE].data = objects[t].data
    BY CreatedRange DEF LightObjects, Objects
  <2>. SUFFICES ASSUME NEW t \in Created
                PROVE  /\ objects'[t] \in Objects /\ objects'[t].on = objects[t].on
                       /\ objects'[t].data = objects[t].data
    OBVIOUS
  <2>2. objects[t] \in Objects
    BY CreatedRange
  <2>3. CASE objects'[t] = objects[t]
    BY <2>2, <2>3
  <2>4. CASE t \in Lights /\ objects'[t] = [objects[t] EXCEPT !.playing = FALSE]
    BY <2>1, <2>4, Zenon
  <2>. QED  BY <1>1, <2>3, <2>4
<1>. QED  BY <1>1, <1>2, SomeChanged

(***************************************************************************)
(* The steps, by what they do to the objects.                              *)
(***************************************************************************)

\* Steps that leave the objects alone
LEMMA TypeMoves ==
    ASSUME TypeInv, NEW t,
           \/ Wake(t) \/ BecomeDue(t) \/ Skip(t) \/ CallFreed(t) \/ EndMelody(t)
           \/ ToConsole \/ ToRegular \/ ToCleanUp \/ CleanUp \/ Other \/ Kill(t)
    PROVE  TypeInv'
<1>. USE DEF TypeInv, Beeps, Lights, Created, loopVars
<1>1. CASE Wake(t)
  BY <1>1 DEF Wake
<1>2. CASE BecomeDue(t)
  BY <1>2 DEF BecomeDue
<1>3. CASE Skip(t) \/ CallFreed(t)
  BY <1>3 DEF Skip, CallFreed
<1>4. CASE EndMelody(t)
  BY <1>4 DEF EndMelody, CallsBeep
<1>5. CASE ToConsole \/ ToRegular \/ ToCleanUp
  BY <1>5 DEF ToConsole, ToRegular, ToCleanUp, NextPhase
<1>6. CASE CleanUp
  BY <1>6 DEF CleanUp
<1>7. CASE Other
  BY <1>7 DEF Other, FreeBeeps, FreeLights
<1>8. CASE Kill(t)
  BY <1>8 DEF Kill
<1>. QED  BY <1>1, <1>2, <1>3, <1>4, <1>5, <1>6, <1>7, <1>8

\* The next tone of a melody exists, unless the melody is over.
ToneInv == \A t \in Beeps :
    objects[t].pos < Len(objects[t].data) \/ BeepFinished(objects[t])

LEMMA NextToneExists ==
    ASSUME TypeInv, ToneInv, NEW t \in Beeps, ~BeepFinished(objects[t])
    PROVE  /\ objects[t].pos + 1 \in 1 .. Len(objects[t].data)
           /\ objects[t].data[objects[t].pos + 1].sound \in {"tone", "rest", "refused"}
<1>1. objects[t] \in BeepObjects
  BY CreatedRange
<1>2. /\ objects[t].pos \in Nat
      /\ objects[t].data \in Seq([sound : {"tone", "rest", "refused"}, lasts : BOOLEAN])
  BY <1>1, LifetimeAssumption DEF BeepObjects
<1>3. objects[t].pos + 1 \in 1 .. Len(objects[t].data)
  BY <1>2 DEF ToneInv
<1>4. objects[t].data[objects[t].pos + 1]
          \in [sound : {"tone", "rest", "refused"}, lasts : BOOLEAN]
  BY <1>2, <1>3, ElementOfSeq
<1>. QED  BY <1>3, <1>4

\* Steps that call a task
LEMMA TypeCalls ==
    ASSUME TypeInv, ToneInv, NEW t \in Created, PlayTone(t) \/ ShowFrame(t) \/ FailFrame(t)
    PROVE  TypeInv'
<1>1. CASE PlayTone(t)
  <2>1. Kept /\ Created' = Created /\ t \in Beeps /\ t \in regular
    BY <1>1, PlayedTone
  <2>2. Beeps \subseteq Beeps' /\ Lights \subseteq Lights'
    BY <2>1, KindsKept
  <2>3. objects[t].on \in Buzzers
    BY <2>1 DEF Beeps
  <2>4. sounding' \in [Buzzers -> Beeps' \cup {Silent}]
    <3>1. /\ ~BeepFinished(objects[t])
          /\ LET tone == objects[t].data[objects[t].pos + 1] IN
             sounding' = CASE tone.sound = "tone"    -> [sounding EXCEPT ![objects[t].on] = t]
                           [] tone.sound = "rest"    -> [sounding EXCEPT ![objects[t].on] = Silent]
                           [] tone.sound = "refused" -> sounding
      BY <1>1 DEF PlayTone
    <3>2. objects[t].data[objects[t].pos + 1].sound \in {"tone", "rest", "refused"}
      BY <2>1, <3>1, NextToneExists
    <3>3. \/ sounding' = [sounding EXCEPT ![objects[t].on] = t]
          \/ sounding' = [sounding EXCEPT ![objects[t].on] = Silent]
          \/ sounding' = sounding
      BY <3>1, <3>2
    <3>. QED  BY <2>1, <2>2, <2>3, <3>3 DEF TypeInv
  <2>. QED  BY <1>1, <2>1, <2>2, <2>4 DEF PlayTone, CallsBeep, Kept, TypeInv
<1>2. CASE ShowFrame(t)
  <2>1. Kept /\ Created' = Created /\ t \in timed
    BY <1>2, ShownFrame
  <2>2. Beeps \subseteq Beeps' /\ Lights \subseteq Lights'
    BY <2>1, KindsKept
  <2>. QED  BY <1>2, <2>1, <2>2 DEF ShowFrame, CallsLight, Kept, TypeInv
<1>3. CASE FailFrame(t)
  <2>1. Kept /\ Created' = Created /\ t \in timed
    BY <1>3, FailedFrame
  <2>2. Beeps \subseteq Beeps' /\ Lights \subseteq Lights'
    BY <2>1, KindsKept
  <2>. QED  BY <1>3, <2>1, <2>2 DEF FailFrame, CallsLight, Kept, TypeInv
<1>. QED  BY <1>1, <1>2, <1>3

\* Steps of the commands that create or stop tasks
LEMMA TypeCommands ==
    ASSUME TypeInv,
           \/ \E b \in Buzzers : BeepStop(b)
           \/ \E b \in Buzzers, m \in Melodies, loop \in BOOLEAN : Beep(b, m, loop)
           \/ \E s \in Strips : LightStop(s)
           \/ \E s \in Strips, p \in Patterns, loop \in BOOLEAN : Light(s, p, loop)
    PROVE  TypeInv'
<1>1. ASSUME NEW b \in Buzzers, BeepStop(b) PROVE TypeInv'
  <2>1. Kept /\ Created' = Created
    BY <1>1, StoppedBeeps
  <2>2. Beeps \subseteq Beeps' /\ Lights \subseteq Lights'
    BY <2>1, KindsKept
  <2>. QED  BY <1>1, <2>1, <2>2 DEF BeepStop, FreeBeeps, Kept, TypeInv, loopVars
<1>2. ASSUME NEW s \in Strips, LightStop(s) PROVE TypeInv'
  <2>1. Kept /\ Created' = Created
    BY <1>2, StoppedLights
  <2>2. Beeps \subseteq Beeps' /\ Lights \subseteq Lights'
    BY <2>1, KindsKept
  <2>. QED  BY <1>2, <2>1, <2>2 DEF LightStop, FreeLights, Kept, TypeInv, loopVars
<1>3. ASSUME NEW b \in Buzzers, NEW m \in Melodies, NEW loop \in BOOLEAN, Beep(b, m, loop)
      PROVE  TypeInv'
  <2>0. NewTask(b, m, loop) /\ b \notin Strips
    BY <1>3, LifetimeAssumption DEF Beep
  <2>1. /\ Kept /\ Len(objects') \in Created' /\ Created \subseteq Created'
        /\ objects'[Len(objects')].on = b
    <3>1. /\ Kept /\ Len(objects') \in Created'
          /\ objects'[Len(objects')] = [on |-> b, data |-> m, pos |-> 0,
                                         loop |-> loop, playing |-> TRUE]
      BY <2>0, OneCreated
    <3>. QED  BY <3>1 DEF Kept
  <2>2. Beeps \subseteq Beeps' /\ Lights \subseteq Lights' /\ Len(objects') \in Beeps'
    BY <2>1, KindsKept DEF Beeps
  <2>. QED  BY <1>3, <2>1, <2>2 DEF Beep, NewTask, FreeBeeps, Kept, TypeInv
<1>4. ASSUME NEW s \in Strips, NEW p \in Patterns, NEW loop \in BOOLEAN, Light(s, p, loop)
      PROVE  TypeInv'
  <2>0. NewTask(s, p, loop) /\ s \notin Buzzers
    BY <1>4, LifetimeAssumption DEF Light
  <2>1. /\ Kept /\ Len(objects') \in Created' /\ Created \subseteq Created'
        /\ objects'[Len(objects')].on = s
    <3>1. /\ Kept /\ Len(objects') \in Created'
          /\ objects'[Len(objects')] = [on |-> s, data |-> p, pos |-> 0,
                                         loop |-> loop, playing |-> TRUE]
      BY <2>0, OneCreated
    <3>. QED  BY <3>1 DEF Kept
  <2>2. Beeps \subseteq Beeps' /\ Lights \subseteq Lights' /\ Len(objects') \in Lights'
    BY <2>1, KindsKept DEF Lights
  <2>. QED  BY <1>4, <2>1, <2>2 DEF Light, NewTask, FreeLights, Kept, TypeInv
<1>. QED  BY <1>1, <1>2, <1>3, <1>4

(***************************************************************************)
(* Tones and frames.  A buzzer plays for a task made for it that stays in  *)
(* the main loop or was killed: who ends a melody silences it first.  Only *)
(* killed melodies are doomed while the regular loop has still to visit    *)
(* them.                                                                   *)
(***************************************************************************)
SoundInv ==
    /\ \A b \in Buzzers : sounding[b] # Silent =>
          /\ objects[sounding[b]].on = b
          /\ sounding[b] \in (regular \ doomed) \cup killed
    /\ at \in {"timed", "console"} => doomed \cap regular \subseteq killed
    /\ at = "regular" => doomed \cap todo \subseteq killed

FrameInv == \A t \in timed \ doomed : objects[t].pos + Leds <= objects[t].data.size

LifeInv == TypeInv /\ ToneInv /\ SoundInv /\ FrameInv

\* _pattern_size - _current_offset does not wrap while the frame is inside.
LEMMA RestIs ==
    ASSUME NEW o \in LightObjects, o.pos <= o.data.size
    PROVE  Rest(o) = o.data.size - o.pos
<1>1. /\ o.pos \in Nat /\ o.data.size \in Nat /\ SizeRange \in Nat
      /\ o.data.size < SizeRange
  BY LifetimeAssumption DEF LightObjects
<1>2. /\ o.data.size - o.pos \in Nat /\ o.data.size - o.pos < SizeRange
      /\ o.data.size + SizeRange - o.pos = (o.data.size - o.pos) + SizeRange
  BY <1>1
<1>3. ASSUME NEW n \in Nat, NEW r \in Nat, r < n PROVE (r + n) % n = r
  BY <1>3
<1>. QED  BY <1>1, <1>2, <1>3 DEF Rest

LEMMA ToneKept ==
    ASSUME TypeInv, ToneInv, Kept,
           \A t \in Beeps' : \/ t \in Created /\ objects'[t] = objects[t]
                             \/ objects'[t].pos < Len(objects'[t].data) \/ BeepFinished(objects'[t])
    PROVE  ToneInv'
BY DEF ToneInv, Kept, Beeps

LEMMA LifeMoves ==
    ASSUME LifeInv, NEW t,
           \/ Wake(t) \/ BecomeDue(t) \/ Skip(t) \/ CallFreed(t) \/ EndMelody(t)
           \/ ToConsole \/ ToRegular \/ ToCleanUp \/ CleanUp \/ Other \/ Kill(t)
    PROVE  LifeInv'
<1>0. TypeInv' /\ objects' = objects
  BY TypeMoves DEF LifeInv, Wake, BecomeDue, Skip, CallFreed, EndMelody, ToConsole,
                   ToRegular, ToCleanUp, NextPhase, CleanUp, Other, Kill
<1>1. ToneInv'
  BY <1>0 DEF LifeInv, ToneInv, Beeps, Created
<1>2. FrameInv'
  <2>1. timed' \ doomed' \subseteq timed \ doomed
    BY DEF Wake, BecomeDue, Skip, CallFreed, EndMelody, ToConsole,
           ToRegular, ToCleanUp, NextPhase, CleanUp, Other, Kill, loopVars
  <2>. QED  BY <1>0, <2>1 DEF LifeInv, FrameInv
<1>3. SoundInv'
  <2>. USE DEF LifeInv, SoundInv
  <2>1. CASE Wake(t) \/ BecomeDue(t)
    BY <2>1 DEF Wake, BecomeDue
  <2>2. CASE Skip(t) \/ CallFreed(t)
    BY <2>2 DEF Skip, CallFreed
  <2>3. CASE EndMelody(t)
    <3>1. t \in Created /\ objects[t].on \in Buzzers
      BY <2>3 DEF EndMelody, CallsBeep, TypeInv, Beeps
    <3>2. /\ sounding' = [sounding EXCEPT ![objects[t].on] = Silent]
          /\ doomed' = doomed \cup {t} /\ todo' = todo \ {t} /\ at = "regular"
          /\ UNCHANGED <<regular, killed, at>>
      BY <2>3 DEF EndMelody, CallsBeep
    <3>3. \A b \in Buzzers : sounding'[b] # Silent =>
             sounding'[b] = sounding[b] /\ sounding[b] # t
      BY <3>1, <3>2 DEF TypeInv
    <3>. QED  BY <1>0, <3>2, <3>3
  <2>4. CASE ToConsole
    BY <1>0, <2>4 DEF ToConsole, NextPhase
  <2>5. CASE ToRegular
    BY <1>0, <2>5 DEF ToRegular, TypeInv
  <2>6. CASE ToCleanUp
    BY <1>0, <2>6 DEF ToCleanUp, NextPhase
  <2>7. CASE CleanUp
    BY <1>0, <2>7 DEF CleanUp
  <2>8. CASE Other
    BY <1>0, <2>8 DEF Other, loopVars
  <2>9. CASE Kill(t)
    BY <1>0, <2>9 DEF Kill
  <2>. QED  BY <2>1, <2>2, <2>3, <2>4, <2>5, <2>6, <2>7, <2>8, <2>9
<1>. QED  BY <1>0, <1>1, <1>2, <1>3 DEF LifeInv

LEMMA LifePlayTone ==
    ASSUME LifeInv, NEW t \in Created, PlayTone(t)
    PROVE  LifeInv'
<1>1. /\ TypeInv' /\ Kept /\ Created' = Created /\ t \in Beeps /\ t \in regular
      /\ objects'[t] = [objects[t] EXCEPT !.pos = NextTone(objects[t])]
      /\ \A u \in Created : u # t => objects'[u] = objects[u]
  BY PlayedTone, TypeCalls DEF LifeInv
<1>2. objects[t] \in BeepObjects /\ ~BeepFinished(objects[t])
      /\ t \in todo /\ at = "regular"
  BY <1>1, CreatedRange DEF LifeInv, PlayTone, CallsBeep
<1>3. ToneInv'
  <2>1. /\ objects[t].pos + 1 \in 1 .. Len(objects[t].data)
        /\ objects[t].data[objects[t].pos + 1].sound \in {"tone", "rest", "refused"}
    BY <1>1, <1>2, NextToneExists DEF LifeInv
  <2>2. /\ objects[t].pos \in Nat /\ Len(objects[t].data) \in Nat
        /\ objects'[t].data = objects[t].data /\ objects'[t].loop = objects[t].loop
        /\ objects'[t].pos = NextTone(objects[t])
    BY <1>1, <1>2, LifetimeAssumption DEF BeepObjects
  <2>3. objects'[t].pos < Len(objects'[t].data) \/ BeepFinished(objects'[t])
    BY <2>1, <2>2 DEF NextTone, BeepFinished
  <2>4. Beeps' \subseteq Created
    BY <1>1 DEF Beeps
  <2>. QED  BY <1>1, <2>3, <2>4, ToneKept DEF LifeInv
<1>4. FrameInv'
  <2>1. \A u \in timed : u \in Created /\ u # t
    BY <1>1, CreatedRange DEF LifeInv, TypeInv
  <2>2. UNCHANGED <<timed, doomed>>
    BY DEF PlayTone
  <2>. QED  BY <1>1, <2>1, <2>2 DEF LifeInv, FrameInv
<1>5. SoundInv'
  <2>1. /\ UNCHANGED <<regular, doomed, killed, at>> /\ todo' \subseteq todo
        /\ \A b \in Buzzers : \/ sounding'[b] = sounding[b]
                              \/ sounding'[b] = Silent
                              \/ sounding'[b] = t /\ b = objects[t].on
    <3>1. objects[t].data[objects[t].pos + 1].sound \in {"tone", "rest", "refused"}
      BY <1>1, <1>2, NextToneExists DEF LifeInv
    <3>2. LET tone == objects[t].data[objects[t].pos + 1] IN
             sounding' = CASE tone.sound = "tone"    -> [sounding EXCEPT ![objects[t].on] = t]
                           [] tone.sound = "rest"    -> [sounding EXCEPT ![objects[t].on] = Silent]
                           [] tone.sound = "refused" -> sounding
      BY DEF PlayTone
    <3>3. \/ sounding' = [sounding EXCEPT ![objects[t].on] = t]
          \/ sounding' = [sounding EXCEPT ![objects[t].on] = Silent]
          \/ sounding' = sounding
      BY <3>1, <3>2
    <3>4. UNCHANGED <<regular, doomed, killed, at>> /\ todo' \subseteq todo
      BY DEF PlayTone
    <3>. QED  BY <3>3, <3>4 DEF LifeInv, TypeInv
  <2>2. t \in (regular \ doomed) \cup killed
    BY <1>1, <1>2 DEF LifeInv, SoundInv
  <2>3. \A b \in Buzzers : sounding[b] # Silent => sounding[b] \in Created
    BY DEF LifeInv, TypeInv, Beeps
  <2>4. \A u \in Created : objects'[u].on = objects[u].on
    BY <1>1 DEF Kept
  <2>5. ASSUME NEW b \in Buzzers, sounding'[b] # Silent
        PROVE  /\ objects'[sounding'[b]].on = b
               /\ sounding'[b] \in (regular' \ doomed') \cup killed'
    BY <2>1, <2>2, <2>3, <2>4, <2>5 DEF LifeInv, SoundInv
  <2>. QED  BY <1>2, <2>1, <2>5 DEF LifeInv, SoundInv
<1>. QED  BY <1>1, <1>3, <1>4, <1>5 DEF LifeInv

\* Calls of a led task and stops leave the buzzers and their tasks alone.
LEMMA SoundUntouched ==
    ASSUME TypeInv, SoundInv, Kept, UNCHANGED <<regular, killed, at, sounding>>,
           todo' \subseteq todo, doomed \subseteq doomed', doomed' \cap regular = doomed \cap regular
    PROVE  SoundInv'
<1>1. \A b \in Buzzers : sounding[b] # Silent => sounding[b] \in Created
  BY DEF TypeInv, Beeps
<1>2. at = "regular" => todo \subseteq regular
  BY DEF TypeInv
<1>. QED  BY <1>1, <1>2 DEF SoundInv, Kept

LEMMA LifeShowFrame ==
    ASSUME LifeInv, NEW t \in Created, ShowFrame(t) \/ FailFrame(t)
    PROVE  LifeInv'
<1>1. /\ TypeInv' /\ Kept /\ Created' = Created /\ t \in Lights /\ t \in timed
      /\ \A u \in Created : u # t => objects'[u] = objects[u]
      /\ UNCHANGED <<regular, timed, killed, at, sounding>> /\ todo' \subseteq todo
      /\ doomed' \in {doomed, doomed \cup {t}}
  BY ShownFrame, FailedFrame, TypeCalls DEF LifeInv, ShowFrame, FailFrame
<1>2. objects[t] \in LightObjects /\ t \notin Beeps /\ t \notin regular
  BY <1>1, CreatedRange DEF LifeInv, TypeInv
<1>3. ToneInv'
  <2>1. t \notin Beeps' /\ Beeps' \subseteq Created
    BY <1>1, <1>2 DEF Kept, Beeps
  <2>. QED  BY <1>1, <2>1, ToneKept DEF LifeInv
<1>4. SoundInv'
  BY <1>1, <1>2, SoundUntouched DEF LifeInv
<1>5. \A u \in Created : u # t /\ u \in timed' \ doomed' =>
         objects'[u].pos + Leds <= objects'[u].data.size
  BY <1>1 DEF LifeInv, FrameInv
<1>6. t \notin doomed' => objects'[t].pos + Leds <= objects'[t].data.size
  <2>1. CASE FailFrame(t)
    BY <2>1 DEF FailFrame
  <2>2. ASSUME ShowFrame(t), t \notin doomed'
        PROVE  objects'[t].pos + Leds <= objects'[t].data.size
    <3>1. objects'[t] = Moved(objects[t]) /\ ~LightFinished(Moved(objects[t]))
          /\ t \notin doomed
      <4>1. objects'[t] = Moved(objects[t])
        BY <2>2, ShownFrame DEF LifeInv
      <4>. QED  BY <2>2, <4>1 DEF ShowFrame
    <3> DEFINE m == [objects[t] EXCEPT !.pos = @ + objects[t].data.jump]
    <3>2. /\ objects[t].pos \in Nat /\ objects[t].data.jump \in 0 .. Leds /\ Leds \in Nat
          /\ objects[t].data.size \in Nat /\ Leds <= objects[t].data.size
          /\ objects[t].pos + Leds <= objects[t].data.size
      BY <1>1, <1>2, <3>1, LifetimeAssumption DEF LightObjects, LifeInv, FrameInv
    <3>3. /\ m \in LightObjects /\ m.data = objects[t].data /\ m.loop = objects[t].loop
          /\ m.pos = objects[t].pos + objects[t].data.jump
      BY <1>2, <3>2 DEF LightObjects
    <3>4. Rest(m) = objects[t].data.size - m.pos
      <4>1. m.pos <= m.data.size
        BY <3>2, <3>3
      <4>. QED  BY <3>3, <4>1, RestIs
    <3>5. Moved(objects[t]) = IF Rest(m) < Leds /\ objects[t].loop
                              THEN [m EXCEPT !.pos = 0] ELSE m
      BY <3>3 DEF Moved
    <3>6. CASE Rest(m) < Leds /\ objects[t].loop
      <4>1. [m EXCEPT !.pos = 0].pos = 0 /\ [m EXCEPT !.pos = 0].data = m.data
        BY <3>3 DEF LightObjects
      <4>. QED  BY <3>1, <3>2, <3>3, <3>5, <3>6, <4>1
    <3>7. CASE ~(Rest(m) < Leds /\ objects[t].loop)
      <4>1. objects'[t] = m /\ Rest(m) >= Leds
        BY <3>1, <3>2, <3>3, <3>4, <3>5, <3>7 DEF LightFinished
      <4>. QED  BY <3>2, <3>3, <3>4, <4>1
    <3>. QED  BY <3>6, <3>7
  <2>. QED  BY <2>1, <2>2
<1>7. FrameInv'
  <2>1. timed \subseteq Created
    BY DEF LifeInv, TypeInv, Lights
  <2>. QED  BY <1>1, <1>5, <1>6, <2>1 DEF FrameInv
<1>. QED  BY <1>1, <1>3, <1>4, <1>7 DEF LifeInv

LEMMA LifeStops ==
    ASSUME LifeInv, NEW b, \/ b \in Buzzers /\ BeepStop(b)
                           \/ b \in Strips /\ LightStop(b)
    PROVE  LifeInv'
<1>1. /\ TypeInv' /\ Kept /\ Created' = Created
      /\ UNCHANGED <<regular, timed, killed, at, sounding, todo, doomed>>
      /\ \A t \in Created : \/ objects'[t] = objects[t]
                            \/ t \in Beeps /\ objects'[t] = [objects[t] EXCEPT !.loop = FALSE]
                            \/ t \in Lights /\ objects'[t] = [objects[t] EXCEPT !.playing = FALSE]
  BY StoppedBeeps, StoppedLights, TypeCommands DEF LifeInv, BeepStop, LightStop, loopVars
<1>2. SoundInv'
  BY <1>1, SoundUntouched DEF LifeInv
<1>3. Beeps' = Beeps
  BY <1>1 DEF Beeps, Kept
<1>4. ToneInv'
  <2>1. ASSUME NEW t \in Beeps, objects'[t] = [objects[t] EXCEPT !.loop = FALSE]
        PROVE  objects'[t].pos < Len(objects'[t].data) \/ BeepFinished(objects'[t])
    <3>1. objects[t] \in BeepObjects
      BY CreatedRange DEF LifeInv
    <3>2. /\ objects[t].pos \in Nat /\ Len(objects[t].data) \in Nat
          /\ objects'[t].pos = objects[t].pos /\ objects'[t].data = objects[t].data
          /\ objects'[t].loop = FALSE
      BY <2>1, <3>1, LifetimeAssumption DEF BeepObjects
    <3>. QED  BY <3>2 DEF BeepFinished
  <2>2. \A t \in Beeps : t \in Created /\ t \notin Lights
    BY CreatedRange DEF LifeInv
  <2>. QED  BY <1>1, <1>3, <2>1, <2>2, ToneKept DEF LifeInv
<1>5. FrameInv'
  <2>1. ASSUME NEW t \in timed
        PROVE  objects'[t].pos = objects[t].pos /\ objects'[t].data = objects[t].data
    <3>1. objects[t] \in LightObjects /\ t \in Created /\ t \notin Beeps
      BY CreatedRange DEF LifeInv, TypeInv
    <3>2. [objects[t] EXCEPT !.playing = FALSE].pos = objects[t].pos
          /\ [objects[t] EXCEPT !.playing = FALSE].data = objects[t].data
      BY <3>1 DEF LightObjects
    <3>. QED  BY <1>1, <3>1, <3>2
  <2>. QED  BY <1>1, <2>1 DEF LifeInv, FrameInv
<1>. QED  BY <1>1, <1>2, <1>4, <1>5 DEF LifeInv

LEMMA LifeBeep ==
    ASSUME LifeInv, NEW b \in Buzzers, NEW m \in Melodies, NEW loop \in BOOLEAN, Beep(b, m, loop)
    PROVE  LifeInv'
<1>1. NewTask(b, m, loop) /\ b \notin Strips
      /\ UNCHANGED <<timed, doomed, killed, at, sounding, todo>> /\ at = "console"
      /\ regular' = regular \cup {Len(objects')}
  BY LifetimeAssumption DEF Beep, NewTask
<1>2. /\ Kept /\ Len(objects') \notin Created
      /\ objects'[Len(objects')] = [on |-> b, data |-> m, pos |-> 0,
                                    loop |-> loop, playing |-> TRUE]
      /\ Created' = Created \cup {Len(objects')}
      /\ \A u \in Created : objects'[u] = objects[u]
  BY <1>1, OneCreated DEF LifeInv
<1>3. TypeInv'
  BY TypeCommands DEF LifeInv
<1>4. ToneInv'
  <2>1. Len(m) > 0
    BY LifetimeAssumption, EmptySeq
  <2>2. objects'[Len(objects')].pos < Len(objects'[Len(objects')].data)
    BY <1>2, <2>1
  <2>3. Beeps' \subseteq Created \cup {Len(objects')}
    BY <1>2 DEF Beeps
  <2>. QED  BY <1>2, <2>2, <2>3, ToneKept DEF LifeInv
<1>5. FrameInv'
  BY <1>1, <1>2 DEF LifeInv, FrameInv, TypeInv, Lights
<1>6. SoundInv'
  <2>1. \A c \in Buzzers : sounding[c] # Silent => sounding[c] \in Created
    BY DEF LifeInv, TypeInv, Beeps
  <2>2. doomed \subseteq Created
    BY DEF LifeInv, TypeInv, Beeps, Lights
  <2>. QED  BY <1>1, <1>2, <2>1, <2>2 DEF LifeInv, SoundInv
<1>. QED  BY <1>3, <1>4, <1>5, <1>6 DEF LifeInv

LEMMA LifeLight ==
    ASSUME LifeInv, NEW s \in Strips, NEW p \in Patterns, NEW loop \in BOOLEAN, Light(s, p, loop)
    PROVE  LifeInv'
<1>1. NewTask(s, p, loop) /\ s \notin Buzzers
      /\ UNCHANGED <<regular, doomed, killed, at, sounding, todo>>
      /\ timed' = timed \cup {Len(objects')}
  BY LifetimeAssumption DEF Light, NewTask
<1>2. /\ Kept /\ Len(objects') \notin Created
      /\ objects'[Len(objects')] = [on |-> s, data |-> p, pos |-> 0,
                                    loop |-> loop, playing |-> TRUE]
      /\ Created' = Created \cup {Len(objects')}
      /\ \A u \in Created : objects'[u] = objects[u]
  BY <1>1, OneCreated DEF LifeInv
<1>3. TypeInv'
  BY TypeCommands DEF LifeInv
<1>4. ToneInv'
  <2>1. Beeps' \subseteq Created
    BY <1>1, <1>2 DEF Beeps
  <2>. QED  BY <1>2, <2>1, ToneKept DEF LifeInv
<1>5. FrameInv'
  <2>1. objects'[Len(objects')].pos + Leds <= objects'[Len(objects')].data.size
    <3>1. objects'[Len(objects')].pos = 0 /\ objects'[Len(objects')].data = p
      BY <1>2
    <3>. QED  BY <3>1, LifetimeAssumption
  <2>. QED  BY <1>1, <1>2, <2>1 DEF LifeInv, FrameInv, TypeInv, Lights
<1>6. SoundInv'
  BY <1>1, <1>2, SoundUntouched DEF LifeInv
<1>. QED  BY <1>3, <1>4, <1>5, <1>6 DEF LifeInv

LEMMA LifeNext == LifeInv /\ [Next]_vars => LifeInv'
<1>. SUFFICES ASSUME LifeInv, [Next]_vars PROVE LifeInv'
  OBVIOUS
<1>1. CASE UNCHANGED vars
  BY <1>1 DEF vars, LifeInv, TypeInv, ToneInv, SoundInv, FrameInv, Created, Beeps, Lights
<1>2. ASSUME NEW t \in Created,
             \/ Wake(t) \/ BecomeDue(t) \/ Skip(t) \/ CallFreed(t) \/ EndMelody(t) \/ Kill(t)
      PROVE  LifeInv'
  BY <1>2, LifeMoves
<1>3. CASE ToConsole \/ ToRegular \/ ToCleanUp \/ CleanUp \/ Other
  BY <1>3, LifeMoves
<1>4. CASE Loop
  BY <1>2, <1>3, <1>4, LifePlayTone, LifeShowFrame DEF Loop
<1>5. CASE Command
  <2>1. ASSUME NEW b \in Buzzers, BeepStop(b) PROVE LifeInv'
    BY <2>1, LifeStops
  <2>2. ASSUME NEW s \in Strips, LightStop(s) PROVE LifeInv'
    BY <2>2, LifeStops
  <2>. QED  BY <1>2, <1>3, <1>5, <2>1, <2>2, LifeBeep, LifeLight DEF Command
<1>. QED  BY <1>1, <1>2, <1>4, <1>5 DEF Next

LEMMA LifeInvariant == Spec => []LifeInv
<1>1. Init => LifeInv
  <2>. SUFFICES ASSUME Init PROVE LifeInv
    OBVIOUS
  <2>1. ToneInv /\ SoundInv /\ FrameInv
    BY DEF Init, ToneInv, SoundInv, FrameInv, Beeps, Created
  <2>. QED  BY <2>1, LifeInit DEF LifeInv
<1>. QED  BY <1>1, LifeNext, PTL DEF Spec

\* A buzzer sounds only for a task the main loop still has, or one that the
\* kill command took from it.
THEOREM SoundsEnd == Spec => []SoundHasPlayer
<1>1. LifeInv => SoundHasPlayer
  BY DEF LifeInv, SoundInv, SoundHasPlayer
<1>. QED  BY <1>1, LifeInvariant, PTL

\* The next frame of a pattern and the next tone of a melody exist, for every
\* length of strip, pattern and jump the tools write.
THEOREM FramesExist == Spec => []NextFrameInPattern
<1>1. LifeInv => NextFrameInPattern
  BY DEF LifeInv, FrameInv, ToneInv, NextFrameInPattern
<1>. QED  BY <1>1, LifeInvariant, PTL

\* A stopped led task shows at most one more frame.
THEOREM StopsAfterOneFrame == Spec => StoppedShowsOneFrame
<1> DEFINE OneMore == \A t \in Lights :
        objects'[t].pos # objects[t].pos /\ ~objects[t].playing => t \in doomed'
<1>1. LifeInv /\ [Next]_vars => [OneMore]_vars
  <2>. SUFFICES ASSUME LifeInv, Next, NEW t \in Lights,
                       objects'[t].pos # objects[t].pos, ~objects[t].playing
                PROVE  t \in doomed'
    OBVIOUS
  <2>0. t \in Created /\ t \notin Beeps /\ objects[t] \in LightObjects /\ objects'[t] # objects[t]
    BY CreatedRange DEF LifeInv
  <2>1. CASE \E u \in Created : PlayTone(u)
    BY <2>0, <2>1, PlayedTone DEF LifeInv
  <2>2. ASSUME NEW u \in Created, FailFrame(u) PROVE t \in doomed'
    BY <2>0, <2>2, FailedFrame DEF LifeInv, FailFrame
  <2>3. ASSUME NEW u \in Created, ShowFrame(u) PROVE t \in doomed'
    <3>1. u = t /\ objects'[t] = Moved(objects[t])
      BY <2>0, <2>3, ShownFrame DEF LifeInv
    <3>2. ~Moved(objects[t]).playing
      BY <2>0 DEF Moved, LightObjects
    <3>. QED  BY <2>3, <3>1, <3>2 DEF ShowFrame, LightFinished
  <2>4. ASSUME NEW b \in Buzzers, BeepStop(b) PROVE t \in doomed'
    BY <2>0, <2>4, StoppedBeeps DEF LifeInv
  <2>5. ASSUME NEW s \in Strips, LightStop(s) PROVE t \in doomed'
    <3>1. objects'[t] = [objects[t] EXCEPT !.playing = FALSE]
      BY <2>0, <2>5, StoppedLights DEF LifeInv
    <3>. QED  BY <2>0, <3>1 DEF LightObjects
  <2>6. ASSUME NEW b \in Buzzers, NEW m \in Melodies, NEW loop \in BOOLEAN, Beep(b, m, loop)
        PROVE  t \in doomed'
    BY <2>0, <2>6, OneCreated, LifetimeAssumption DEF LifeInv, Beep
  <2>7. ASSUME NEW s \in Strips, NEW p \in Patterns, NEW loop \in BOOLEAN, Light(s, p, loop)
        PROVE  t \in doomed'
    BY <2>0, <2>7, OneCreated, LifetimeAssumption DEF LifeInv, Light
  <2>8. \/ \E u \in Created : PlayTone(u) \/ FailFrame(u) \/ ShowFrame(u)
        \/ \E b \in Buzzers : BeepStop(b)
        \/ \E s \in Strips : LightStop(s)
        \/ \E b \in Buzzers, m \in Melodies, loop \in BOOLEAN : Beep(b, m, loop)
        \/ \E s \in Strips, p \in Patterns, loop \in BOOLEAN : Light(s, p, loop)
    BY <2>0 DEF Next, Loop, Command, Wake, BecomeDue, Skip, CallFreed, EndMelody, ToConsole,
                ToRegular, ToCleanUp, NextPhase, CleanUp, Other, Kill
  <2>. QED  BY <2>1, <2>2, <2>3, <2>4, <2>5, <2>6, <2>7, <2>8
<1>. QED  BY <1>1, LifeInvariant, PTL DEF Spec, StoppedShowsOneFrame

-----------------------------------------------------------------------------
(***************************************************************************)
(* The clock.  Counting days from the year 0, every day is exactly one     *)
(* date of the calendar, so that Calendar undoes Mktime; the command makes *)
(* of its words a time the clock can keep; and the time task last ran less *)
(* than an hour ago, so that a minute that has come back is that minute.   *)
(***************************************************************************)
LEMMA First ==
    ASSUME NEW T, T \subseteq Nat, NEW t \in T
    PROVE  \E n \in T : \A m \in T : n <= m
<1>1. PICK n \in T : \A m \in T : ~ (<<m, n>> \in OpToRel(<, Nat))
  BY NatLessThanWellFounded, WFMin
<1>2. \A m \in T : ~ (m < n)
  BY <1>1 DEF OpToRel
<1>. QED  BY <1>2

-----------------------------------------------------------------------------
(***************************************************************************)
(* The calendar.                                                           *)
(***************************************************************************)
Days(y) == 365 + (IF Leap(y) THEN 1 ELSE 0)

LEMMA YearStep ==
    \A y \in Nat : NewYear(y + 1) = NewYear(y) + Days(y) /\ Days(y) \in Nat
BY DEF NewYear, Leap, Days

LEMMA YearsRise ==
    \A a, b \in Nat : a < b => NewYear(a + 1) <= NewYear(b)
BY DEF NewYear

LEMMA YearRange ==
    \A y \in Nat : NewYear(y) \in Nat /\ 365 * y <= NewYear(y) /\ NewYear(y) <= 366 * y
BY DEF NewYear

LEMMA MonthsRise ==
    ASSUME NEW y \in Nat
    PROVE  /\ \A m \in 1 .. 13 : MonthStart(y, m) \in 0 .. Days(y)
           /\ MonthStart(y, 1) = 0 /\ MonthStart(y, 13) = Days(y)
           /\ \A m \in 1 .. 12 : MonthStart(y, m) + 28 <= MonthStart(y, m + 1)
BY DEF MonthStart, Days

\* a date there is
IsDate(y, m, d) == /\ y \in Nat /\ m \in 1 .. 12 /\ d \in Nat /\ d >= 1
                   /\ MonthStart(y, m) + d <= MonthStart(y, m + 1)

LEMMA YearFound ==
    ASSUME NEW y \in Nat, NEW day \in Nat, NewYear(y) <= day, day < NewYear(y + 1)
    PROVE  (CHOOSE z \in (day \div 366) .. (day \div 365) :
               NewYear(z) <= day /\ day < NewYear(z + 1)) = y
<1>1. y \in (day \div 366) .. (day \div 365)
  <2>1. 365 * y <= NewYear(y) /\ NewYear(y + 1) <= 366 * (y + 1)
    BY YearRange
  <2>2. NewYear(y) \in Nat /\ NewYear(y + 1) \in Nat
    BY YearRange
  <2>. QED  BY <2>1, <2>2
<1>2. ASSUME NEW z \in (day \div 366) .. (day \div 365), NewYear(z) <= day, day < NewYear(z + 1)
      PROVE  z = y
  <2>1. z \in Nat
    OBVIOUS
  <2>2. NewYear(y) \in Nat /\ NewYear(y + 1) \in Nat /\ NewYear(z) \in Nat /\ NewYear(z + 1) \in Nat
    BY <2>1, YearRange
  <2>3. ~ (y < z) /\ ~ (z < y)
    BY <1>2, <2>1, <2>2, YearsRise
  <2>. QED  BY <2>1, <2>3
<1>. QED  BY <1>1, <1>2

LEMMA MonthFound ==
    ASSUME NEW y \in Nat, NEW m \in 1 .. 12, NEW rest \in Nat,
           MonthStart(y, m) <= rest, rest < MonthStart(y, m + 1)
    PROVE  (CHOOSE z \in 1 .. 12 : MonthStart(y, z) <= rest /\ rest < MonthStart(y, z + 1)) = m
<1>1. ASSUME NEW z \in 1 .. 12, MonthStart(y, z) <= rest, rest < MonthStart(y, z + 1)
      PROVE  z = m
  BY <1>1 DEF MonthStart
<1>. QED  BY <1>1

LEMMA DateFound ==
    ASSUME NEW y, NEW m, NEW d, IsDate(y, m, d), NEW s
    PROVE  Calendar([day |-> NewYear(y) + MonthStart(y, m) + d - 1, second |-> s])
              = [year |-> y, mon |-> m, mday |-> d,
                 hour |-> s \div 3600, min |-> (s \div 60) % 60, sec |-> s % 60]
<1>1. y \in Nat /\ m \in 1 .. 12 /\ d \in Nat /\ d >= 1 /\ MonthStart(y, m) + d <= MonthStart(y, m + 1)
  BY DEF IsDate
<1>2. PICK day : day = NewYear(y) + MonthStart(y, m) + d - 1
  OBVIOUS
<1>3. PICK start, next : start = MonthStart(y, m) /\ next = MonthStart(y, m + 1)
  OBVIOUS
<1>4. start \in Nat /\ next \in Nat /\ next <= Days(y)
  <2>1. m \in 1 .. 13 /\ m + 1 \in 1 .. 13
    BY <1>1
  <2>2. Days(y) \in Nat
    BY <1>1, YearStep
  <2>3. \A k \in 1 .. 13 : MonthStart(y, k) \in 0 .. Days(y)
    BY <1>1, MonthsRise
  <2>. QED  BY <1>3, <2>1, <2>2, <2>3
<1>5. NewYear(y) \in Nat /\ NewYear(y + 1) = NewYear(y) + Days(y) /\ Days(y) \in Nat
  BY <1>1, YearRange, YearStep
<1>6. day \in Nat /\ NewYear(y) <= day /\ day < NewYear(y + 1)
  BY <1>1, <1>2, <1>3, <1>4, <1>5
<1>7. PICK rest \in Nat : rest = day - NewYear(y) /\ start <= rest /\ rest < next
                          /\ d = 1 + rest - start
  BY <1>1, <1>2, <1>3, <1>4, <1>5
<1>8. PICK time : time = [day |-> day, second |-> s]
  OBVIOUS
<1>9. time.day = day /\ time.second = s
  BY <1>8
<1>10. PICK year : year = CHOOSE z \in (time.day \div 366) .. (time.day \div 365) :
                              NewYear(z) <= time.day /\ time.day < NewYear(z + 1)
  OBVIOUS
<1>11. year = y
  <2>1. time.day \in Nat /\ NewYear(y) <= time.day /\ time.day < NewYear(y + 1)
    BY <1>6, <1>9
  <2>. QED  BY <1>1, <1>10, <2>1, YearFound
<1>12. PICK left : left = time.day - NewYear(year)
  OBVIOUS
<1>13. left = rest
  BY <1>7, <1>9, <1>11, <1>12
<1>14. PICK month : month = CHOOSE z \in 1 .. 12 :
                               MonthStart(year, z) <= left /\ left < MonthStart(year, z + 1)
  OBVIOUS
<1>15. month = m
  <2>1. left \in Nat /\ MonthStart(year, m) <= left /\ left < MonthStart(year, m + 1)
    BY <1>3, <1>7, <1>11, <1>13
  <2>. QED  BY <1>1, <1>11, <1>14, <2>1, MonthFound
<1>16. Calendar(time)
          = [year |-> year, mon |-> month, mday |-> 1 + left - MonthStart(year, month),
             hour |-> time.second \div 3600, min |-> (time.second \div 60) % 60,
             sec |-> time.second % 60]
  BY <1>10, <1>12, <1>14, Zenon DEF Calendar
<1>17. 1 + left - MonthStart(year, month) = d
  BY <1>3, <1>7, <1>11, <1>13, <1>15
<1>. QED  BY <1>2, <1>8, <1>9, <1>11, <1>15, <1>16, <1>17

\* every day has its date
LEMMA DayHasDate ==
    ASSUME NEW day \in Nat
    PROVE  \E y, m, d : IsDate(y, m, d) /\ day = NewYear(y) + MonthStart(y, m) + d - 1
<1>1. PICK y \in Nat : NewYear(y) <= day /\ day < NewYear(y + 1)
  <2>1. PICK z \in Nat : z = day \div 366
    OBVIOUS
  <2>2. NewYear(z) <= day
    <3>1. NewYear(z) <= 366 * z /\ NewYear(z) \in Nat
      BY YearRange
    <3>. QED  BY <2>1, <3>1
  <2>. DEFINE T == {y \in Nat : day < NewYear(y + 1)}
  <2>3. T \subseteq Nat /\ day \in T
    <3>1. 365 * (day + 1) <= NewYear(day + 1) /\ NewYear(day + 1) \in Nat
      BY YearRange
    <3>. QED  BY <3>1
  <2>4. PICK y \in T : \A t \in T : y <= t
    <3>. HIDE DEF T
    <3>. QED  BY <2>3, First
  <2>5. CASE y = 0
    <3>1. NewYear(0) = 0
      BY DEF NewYear
    <3>. QED  BY <2>4, <2>5, <3>1
  <2>6. CASE y # 0
    <3>1. PICK x \in Nat : x + 1 = y
      <4>1. y - 1 \in Nat /\ (y - 1) + 1 = y
        BY <2>6
      <4>. QED  BY <4>1
    <3>2. x \notin T
      <4>1. ~ (y <= x)
        BY <3>1
      <4>. HIDE DEF T
      <4>. QED  BY <2>4, <4>1
    <3>3. NewYear(y) \in Nat
      BY YearRange
    <3>. QED  BY <2>4, <3>1, <3>2, <3>3
  <2>. QED  BY <2>5, <2>6
<1>2. PICK rest \in Nat : rest = day - NewYear(y) /\ rest < Days(y)
  <2>1. NewYear(y) \in Nat /\ NewYear(y + 1) = NewYear(y) + Days(y) /\ Days(y) \in Nat
    BY YearRange, YearStep
  <2>. QED  BY <1>1, <2>1
<1>3. PICK m \in 1 .. 12 : MonthStart(y, m) <= rest /\ rest < MonthStart(y, m + 1)
  <2>1. \E m \in 1 .. 12 : MonthStart(y, m) <= rest /\ rest < MonthStart(y, m + 1)
    <3>1. ASSUME \A m \in 1 .. 12 : MonthStart(y, m) <= rest => ~ (rest < MonthStart(y, m + 1))
          PROVE  FALSE
      BY <1>2, <3>1 DEF MonthStart, Days
    <3>. QED  BY <3>1
  <2>. QED  BY <2>1
<1>4. PICK start, next : start = MonthStart(y, m) /\ next = MonthStart(y, m + 1)
  OBVIOUS
<1>5. start \in Nat /\ next \in Nat
  <2>1. m \in 1 .. 13 /\ m + 1 \in 1 .. 13 /\ Days(y) \in Nat
    BY YearStep
  <2>2. \A k \in 1 .. 13 : MonthStart(y, k) \in 0 .. Days(y)
    BY MonthsRise
  <2>. QED  BY <1>4, <2>1, <2>2
<1>6. PICK d \in Nat : d = rest - start + 1
  BY <1>3, <1>4, <1>5
<1>7. IsDate(y, m, d)
  BY <1>3, <1>4, <1>5, <1>6 DEF IsDate
<1>8. day = NewYear(y) + MonthStart(y, m) + d - 1
  <2>1. NewYear(y) \in Nat
    BY YearRange
  <2>. QED  BY <1>2, <1>4, <1>5, <1>6, <2>1
<1>. QED  BY <1>7, <1>8

\* a date and a time of day
Moment(tm) ==
    /\ IsDate(tm.year, tm.mon, tm.mday)
    /\ tm.hour \in 0 .. 23 /\ tm.min \in 0 .. 59 /\ tm.sec \in 0 .. 59
    /\ tm = [year |-> tm.year, mon |-> tm.mon, mday |-> tm.mday,
             hour |-> tm.hour, min |-> tm.min, sec |-> tm.sec]

LEMMA DayTime ==
    \A h \in 0 .. 23, mi \in 0 .. 59, s \in 0 .. 59 :
       LET second == 3600 * h + 60 * mi + s
       IN  /\ second \in Nat /\ second < 86400
           /\ second \div 3600 = h /\ (second \div 60) % 60 = mi /\ second % 60 = s
OBVIOUS

LEMMA TimeParts ==
    \A s \in Nat : s < 86400 =>
       s \div 3600 \in 0 .. 23 /\ (s \div 60) % 60 \in 0 .. 59 /\ s % 60 \in 0 .. 59
OBVIOUS

LEMMA CalendarIsMoment ==
    ASSUME NEW day \in Nat, NEW s \in Nat, s < 86400
    PROVE  Moment(Calendar([day |-> day, second |-> s]))
<1>1. PICK y, m, d : IsDate(y, m, d) /\ day = NewYear(y) + MonthStart(y, m) + d - 1
  BY DayHasDate
<1>2. Calendar([day |-> day, second |-> s])
         = [year |-> y, mon |-> m, mday |-> d,
            hour |-> s \div 3600, min |-> (s \div 60) % 60, sec |-> s % 60]
  BY <1>1, DateFound
<1>3. s \div 3600 \in 0 .. 23 /\ (s \div 60) % 60 \in 0 .. 59 /\ s % 60 \in 0 .. 59
  BY TimeParts
<1>4. PICK tm : tm = Calendar([day |-> day, second |-> s])
  OBVIOUS
<1>5. PICK h, mi, sec : h = s \div 3600 /\ mi = (s \div 60) % 60 /\ sec = s % 60
  OBVIOUS
<1>6. /\ IsDate(y, m, d) /\ h \in 0 .. 23 /\ mi \in 0 .. 59 /\ sec \in 0 .. 59
      /\ tm = [year |-> y, mon |-> m, mday |-> d, hour |-> h, min |-> mi, sec |-> sec]
  BY <1>1, <1>2, <1>3, <1>4, <1>5
<1>7. Moment(tm)
  <2>1. tm.year = y /\ tm.mon = m /\ tm.mday = d /\ tm.hour = h /\ tm.min = mi /\ tm.sec = sec
    BY <1>6
  <2>. QED  BY <1>6, <2>1 DEF Moment
<1>. QED  BY <1>4, <1>7

\* what is set is what is read again
LEMMA MomentKept ==
    ASSUME NEW tm, Moment(tm)
    PROVE  Calendar(Mktime(tm)) = tm /\ Mktime(tm).second >= 0
<1>1. PICK y, m, d, h, mi, s :
        y = tm.year /\ m = tm.mon /\ d = tm.mday /\ h = tm.hour /\ mi = tm.min /\ s = tm.sec
  OBVIOUS
<1>2. /\ IsDate(y, m, d) /\ h \in 0 .. 23 /\ mi \in 0 .. 59 /\ s \in 0 .. 59
      /\ tm = [year |-> y, mon |-> m, mday |-> d, hour |-> h, min |-> mi, sec |-> s]
  BY <1>1 DEF Moment
<1>3. PICK second \in Nat :
        /\ second = 3600 * h + 60 * mi + s /\ second < 86400
        /\ second \div 3600 = h /\ (second \div 60) % 60 = mi /\ second % 60 = s
  BY <1>2, DayTime
<1>4. y \in Nat /\ m \in 1 .. 12 /\ d \in Nat
  BY <1>2 DEF IsDate
<1>5. y + ((m - 1) \div 12) = y /\ 1 + ((m - 1) % 12) = m
  BY <1>4
<1>6. second \div 86400 = 0 /\ second % 86400 = second
  <2>1. second < 86400
    BY <1>3
  <2>. QED  BY <2>1
<1>7. PICK start : start = NewYear(y) + MonthStart(y, m)
  OBVIOUS
<1>8. start \in Nat
  <2>1. m \in 1 .. 13 /\ Days(y) \in Nat /\ NewYear(y) \in Nat
    BY <1>4, YearStep, YearRange
  <2>2. \A k \in 1 .. 13 : MonthStart(y, k) \in 0 .. Days(y)
    BY <1>4, MonthsRise
  <2>3. MonthStart(y, m) \in 0 .. Days(y)
    BY <2>1, <2>2
  <2>. QED  BY <1>7, <2>1, <2>3
<1>9. Mktime(tm) = [day |-> NewYear(y) + MonthStart(y, m) + d - 1, second |-> second]
  <2>1. Mktime(tm) = [day |-> NewYear(y) + MonthStart(y, m) + d - 1 + (second \div 86400),
                      second |-> second % 86400]
    BY <1>2, <1>3, <1>5 DEF Mktime
  <2>2. start + d - 1 + 0 = start + d - 1
    BY <1>4, <1>8
  <2>. QED  BY <1>6, <1>7, <2>1, <2>2
<1>10. Calendar(Mktime(tm)) = [year |-> y, mon |-> m, mday |-> d, hour |-> second \div 3600,
                               min |-> (second \div 60) % 60, sec |-> second % 60]
  BY <1>2, <1>9, DateFound
<1>. QED  BY <1>2, <1>3, <1>9, <1>10

\* what mktime is given: a date there is, or one from the year 1 on, whose time is not
\* more than a day before midnight
Tms == [year : Nat, mon : 0 .. 99, mday : 0 .. 99, hour : Int, min : Int, sec : Int]
SecondOf(tm) == 3600 * tm.hour + 60 * tm.min + tm.sec
Settable(tm) ==
    /\ tm \in Tms
    /\ \/ IsDate(tm.year, tm.mon, tm.mday) /\ SecondOf(tm) >= 0
       \/ tm.year # 0 /\ SecondOf(tm) >= -86400

Time(c) == \E day, s \in Nat : s < 86400 /\ c = [day |-> day, second |-> s]

LEMMA MktimeIsTime ==
    ASSUME NEW tm, Settable(tm)
    PROVE  Time(Mktime(tm))
<1>0. /\ tm.year \in Nat /\ tm.mon \in 0 .. 99 /\ tm.mday \in 0 .. 99
      /\ 3600 * tm.hour + 60 * tm.min + tm.sec \in Int
  <2>1. tm \in Tms
    BY DEF Settable
  <2>2. /\ tm.year \in Nat /\ tm.mon \in 0 .. 99 /\ tm.mday \in 0 .. 99
        /\ tm.hour \in Int /\ tm.min \in Int /\ tm.sec \in Int
    BY <2>1 DEF Tms
  <2>. QED  BY <2>2
<1>11. PICK y \in Nat : y = tm.year
  BY <1>0
<1>12. PICK m \in 0 .. 99 : m = tm.mon
  BY <1>0
<1>13. PICK d \in 0 .. 99 : d = tm.mday
  BY <1>0
<1>14. PICK t \in Int : t = 3600 * tm.hour + 60 * tm.min + tm.sec
  BY <1>0
<1>1. y = tm.year /\ m = tm.mon /\ d = tm.mday /\ t = 3600 * tm.hour + 60 * tm.min + tm.sec
  BY <1>11, <1>12, <1>13, <1>14
<1>2. (IsDate(y, m, d) /\ t >= 0) \/ (y # 0 /\ t >= -86400)
  BY <1>1 DEF Settable, SecondOf
<1>3. PICK year \in Int, month \in 1 .. 12 :
        year = y + ((m - 1) \div 12) /\ month = 1 + ((m - 1) % 12)
  OBVIOUS
<1>4. PICK first : first = NewYear(year) + MonthStart(year, month)
  OBVIOUS
<1>5. Mktime(tm) = [day |-> first + d - 1 + (t \div 86400), second |-> t % 86400]
  BY <1>1, <1>3, <1>4 DEF Mktime
<1>6. year \in Nat
  <2>1. CASE IsDate(y, m, d)
    <3>1. m >= 1
      BY <2>1 DEF IsDate
    <3>. QED  BY <1>3, <3>1
  <2>2. CASE y # 0
    BY <1>3, <2>2
  <2>. QED  BY <1>2, <2>1, <2>2
<1>7. first \in Nat /\ MonthStart(year, month) \in Nat /\ first >= MonthStart(year, month)
  <2>1. month \in 1 .. 13 /\ Days(year) \in Nat /\ NewYear(year) \in Nat
    BY <1>6, YearStep, YearRange
  <2>2. \A k \in 1 .. 13 : MonthStart(year, k) \in 0 .. Days(year)
    BY <1>6, MonthsRise
  <2>3. MonthStart(year, month) \in 0 .. Days(year)
    BY <2>1, <2>2
  <2>. QED  BY <1>4, <2>1, <2>3
<1>8. CASE IsDate(y, m, d) /\ t >= 0
  <2>1. d >= 1 /\ t \div 86400 \in Nat
    BY <1>8 DEF IsDate
  <2>2. first + d - 1 + (t \div 86400) \in Nat /\ t % 86400 \in Nat /\ t % 86400 < 86400
    BY <1>7, <2>1
  <2>. QED  BY <1>5, <2>2 DEF Time
<1>9. CASE y # 0 /\ t >= -86400
  <2>1. first >= 2
    <3>1. CASE m = 0
      <4>1. month = 12
        BY <1>3, <3>1
      <4>2. MonthStart(year, 12) >= 334
        BY <1>6 DEF MonthStart
      <4>. QED  BY <1>7, <4>1, <4>2
    <3>2. CASE m # 0
      <4>1. year >= 1
        BY <1>3, <1>9, <3>2
      <4>2. 365 * year <= NewYear(year) /\ NewYear(year) \in Nat
        BY <1>6, YearRange
      <4>. QED  BY <1>4, <1>7, <4>1, <4>2
    <3>. QED  BY <3>1, <3>2
  <2>2. t \div 86400 >= -1 /\ t \div 86400 \in Int /\ t % 86400 \in Nat /\ t % 86400 < 86400
    BY <1>9
  <2>3. first + d - 1 + (t \div 86400) \in Nat
    BY <1>7, <2>1, <2>2
  <2>. QED  BY <1>5, <2>2, <2>3 DEF Time
<1>. QED  BY <1>2, <1>8, <1>9

\* what the clock can be read as
Readable(tm) == /\ tm \in Tms /\ SecondOf(tm) >= 0
                /\ IsDate(tm.year, tm.mon, tm.mday) \/ tm.year # 0

LEMMA WordIs ==
    ASSUME NEW word \in TimeWords
    PROVE  /\ word.kind \in {"iso", "german", "time", "other"}
           /\ word.kind \in {"iso", "german"} =>
                 word.year \in Nat \ {0} /\ word.mon \in 0 .. 99 /\ word.mday \in 0 .. 99
           /\ word.kind = "time" =>
                 word.hour \in Nat /\ word.min \in Nat /\ (word.sec = Absent \/ word.sec \in Nat)
BY DEF TimeWords

LEMMA TmIs ==
    ASSUME NEW tm \in Tms
    PROVE  /\ tm.year \in Nat /\ tm.mon \in 0 .. 99 /\ tm.mday \in 0 .. 99
           /\ tm.hour \in Int /\ tm.min \in Int /\ tm.sec \in Int
           /\ tm = [year |-> tm.year, mon |-> tm.mon, mday |-> tm.mday,
                    hour |-> tm.hour, min |-> tm.min, sec |-> tm.sec]
BY DEF Tms

\* the time tm with the date or with the time of day of a word
WithDate(tm, y, m, d) == [year |-> y, mon |-> m, mday |-> d,
                          hour |-> tm.hour, min |-> tm.min, sec |-> tm.sec]
WithTime(tm, h, m, s) == [year |-> tm.year, mon |-> tm.mon, mday |-> tm.mday,
                          hour |-> h, min |-> m, sec |-> s]
YearOf(word) == IF word.year < 1900 THEN 2000 + word.year ELSE word.year
SecOf(word)  == IF word.sec = Absent THEN 0 ELSE word.sec

LEMMA DatedIs ==
    ASSUME NEW word \in TimeWords, NEW tm \in Tms
    PROVE  Dated(word, tm)
              = IF word.kind = "iso" THEN {WithDate(tm, word.year, word.mon, word.mday)}
                ELSE IF word.kind = "german" THEN {WithDate(tm, YearOf(word), word.mon, word.mday)}
                ELSE {}
<1>1. \A y, m, d : [tm EXCEPT !.year = y, !.mon = m, !.mday = d] = WithDate(tm, y, m, d)
  <2>. TAKE y, m, d
  <2>0. PICK a, b, c, e, f, g :
          tm = [year |-> a, mon |-> b, mday |-> c, hour |-> e, min |-> f, sec |-> g]
    BY TmIs
  <2>1. PICK one : one = [tm EXCEPT !.year = y]
    OBVIOUS
  <2>2. PICK two : two = [one EXCEPT !.mon = m]
    OBVIOUS
  <2>3. one = [year |-> y, mon |-> b, mday |-> c, hour |-> e, min |-> f, sec |-> g]
    BY <2>0, <2>1
  <2>4. two = [year |-> y, mon |-> m, mday |-> c, hour |-> e, min |-> f, sec |-> g]
    BY <2>2, <2>3
  <2>5. [two EXCEPT !.mday = d]
           = [year |-> y, mon |-> m, mday |-> d, hour |-> e, min |-> f, sec |-> g]
    BY <2>4
  <2>6. [tm EXCEPT !.year = y, !.mon = m, !.mday = d] = [two EXCEPT !.mday = d]
    BY <2>1, <2>2
  <2>7. tm.hour = e /\ tm.min = f /\ tm.sec = g
    BY <2>0
  <2>. QED  BY <2>5, <2>6, <2>7 DEF WithDate
<1>2. CASE word.kind = "iso"
  <2>1. Dated(word, tm) = {[tm EXCEPT !.year = word.year, !.mon = word.mon, !.mday = word.mday]}
    BY <1>2 DEF Dated
  <2>. QED  BY <1>1, <1>2, <2>1
<1>3. CASE word.kind = "german"
  <2>1. word.year \in Nat
    BY <1>3, WordIs
  <2>2. word.year + 2000 = 2000 + word.year
    BY <2>1
  <2>3. Dated(word, tm) = {[tm EXCEPT !.year = YearOf(word), !.mon = word.mon, !.mday = word.mday]}
    <3>1. CASE word.year >= 1900
      <4>1. YearOf(word) = word.year
        BY <2>1, <3>1 DEF YearOf
      <4>2. Dated(word, tm) = {[tm EXCEPT !.year = word.year, !.mon = word.mon, !.mday = word.mday]}
        BY <1>3, <3>1 DEF Dated
      <4>. QED  BY <4>1, <4>2
    <3>2. CASE ~(word.year >= 1900)
      <4>1. YearOf(word) = word.year + 2000
        BY <2>1, <2>2, <3>2 DEF YearOf
      <4>2. Dated(word, tm)
               = {[tm EXCEPT !.year = word.year + 2000, !.mon = word.mon, !.mday = word.mday]}
        BY <1>3, <3>2 DEF Dated
      <4>. QED  BY <4>1, <4>2
    <3>. QED  BY <3>1, <3>2
  <2>. QED  BY <1>1, <1>3, <2>3
<1>4. CASE word.kind \notin {"iso", "german"}
  BY <1>4 DEF Dated
<1>. QED  BY <1>2, <1>3, <1>4

LEMMA TimedIs ==
    ASSUME NEW word \in TimeWords, NEW tm \in Tms
    PROVE  Timed(word, tm)
              = IF word.kind = "time" THEN {WithTime(tm, word.hour, word.min, SecOf(word))}
                ELSE IF word.kind = "iso" THEN {WithTime(tm, word.year, -word.mon, -word.mday)}
                ELSE {}
<1>1. \A h, m, s : [tm EXCEPT !.hour = h, !.min = m, !.sec = s] = WithTime(tm, h, m, s)
  <2>. TAKE h, m, s
  <2>0. PICK a, b, c, e, f, g :
          tm = [year |-> a, mon |-> b, mday |-> c, hour |-> e, min |-> f, sec |-> g]
    BY TmIs
  <2>1. PICK one : one = [tm EXCEPT !.hour = h]
    OBVIOUS
  <2>2. PICK two : two = [one EXCEPT !.min = m]
    OBVIOUS
  <2>3. one = [year |-> a, mon |-> b, mday |-> c, hour |-> h, min |-> f, sec |-> g]
    BY <2>0, <2>1
  <2>4. two = [year |-> a, mon |-> b, mday |-> c, hour |-> h, min |-> m, sec |-> g]
    BY <2>2, <2>3
  <2>5. [two EXCEPT !.sec = s]
           = [year |-> a, mon |-> b, mday |-> c, hour |-> h, min |-> m, sec |-> s]
    BY <2>4
  <2>6. [tm EXCEPT !.hour = h, !.min = m, !.sec = s] = [two EXCEPT !.sec = s]
    BY <2>1, <2>2
  <2>7. tm.year = a /\ tm.mon = b /\ tm.mday = c
    BY <2>0
  <2>. QED  BY <2>5, <2>6, <2>7 DEF WithTime
<1>2. CASE word.kind = "time"
  <2>1. Timed(word, tm) = {[tm EXCEPT !.hour = word.hour, !.min = word.min, !.sec = SecOf(word)]}
    BY <1>2 DEF Timed, SecOf
  <2>2. PICK h, m, s : h = word.hour /\ m = word.min /\ s = SecOf(word)
    OBVIOUS
  <2>3. [tm EXCEPT !.hour = h, !.min = m, !.sec = s] = WithTime(tm, h, m, s)
    BY <1>1
  <2>4. Timed(word, tm) = {WithTime(tm, h, m, s)}
    BY <2>1, <2>2, <2>3
  <2>. QED  BY <1>2, <2>2, <2>4
<1>3. CASE word.kind = "iso"
  <2>1. Timed(word, tm) = {[tm EXCEPT !.hour = word.year, !.min = -word.mon, !.sec = -word.mday]}
    BY <1>3 DEF Timed
  <2>. QED  BY <1>1, <1>3, <2>1
<1>4. CASE word.kind \notin {"iso", "time"}
  BY <1>4 DEF Timed
<1>. QED  BY <1>2, <1>3, <1>4

LEMMA DatedReadable ==
    ASSUME NEW word \in TimeWords, NEW tm, Readable(tm), NEW new \in Dated(word, tm)
    PROVE  new \in Tms /\ new.year # 0 /\ SecondOf(new) >= 0
<1>1. tm \in Tms /\ SecondOf(tm) >= 0
  BY DEF Readable
<1>2. PICK y \in Nat \ {0} : new = WithDate(tm, y, word.mon, word.mday)
                             /\ word.mon \in 0 .. 99 /\ word.mday \in 0 .. 99
  <2>1. CASE word.kind = "iso"
    BY <1>1, <2>1, DatedIs, WordIs
  <2>2. CASE word.kind = "german"
    <3>1. word.year \in Nat \ {0} /\ word.mon \in 0 .. 99 /\ word.mday \in 0 .. 99
      BY <2>2, WordIs
    <3>2. YearOf(word) \in Nat \ {0}
      BY <3>1 DEF YearOf
    <3>. QED  BY <1>1, <2>2, <3>1, <3>2, DatedIs
  <2>3. CASE word.kind \notin {"iso", "german"}
    BY <1>1, <2>3, DatedIs
  <2>. QED  BY <2>1, <2>2, <2>3
<1>3. /\ new.year = y /\ new.hour = tm.hour /\ new.min = tm.min /\ new.sec = tm.sec
      /\ new \in Tms
  BY <1>1, <1>2, TmIs DEF WithDate, Tms
<1>. QED  BY <1>1, <1>3 DEF SecondOf

LEMMA TimedSettable ==
    ASSUME NEW word \in TimeWords, NEW tm \in Tms, NEW new \in Timed(word, tm)
    PROVE  /\ new \in Tms /\ SecondOf(new) >= -86400 /\ (word.kind = "time" => SecondOf(new) >= 0)
           /\ new.year = tm.year /\ new.mon = tm.mon /\ new.mday = tm.mday
<1>1. CASE word.kind = "time"
  <2>1. word.hour \in Nat /\ word.min \in Nat /\ (word.sec = Absent \/ word.sec \in Nat)
    BY <1>1, WordIs
  <2>2. SecOf(word) \in Nat
    BY <2>1 DEF SecOf
  <2>3. new = WithTime(tm, word.hour, word.min, SecOf(word))
    BY <1>1, TimedIs
  <2>4. /\ new.hour = word.hour /\ new.min = word.min /\ new.sec = SecOf(word) /\ new \in Tms
        /\ new.year = tm.year /\ new.mon = tm.mon /\ new.mday = tm.mday
    BY <2>1, <2>2, <2>3, TmIs DEF WithTime, Tms
  <2>5. 3600 * word.hour + 60 * word.min + SecOf(word) >= 0
    BY <2>1, <2>2
  <2>6. SecondOf(new) \in Nat
    BY <2>1, <2>2, <2>4, <2>5 DEF SecondOf
  <2>. QED  BY <2>4, <2>6
<1>2. CASE word.kind = "iso"
  <2>1. word.year \in Nat \ {0} /\ word.mon \in 0 .. 99 /\ word.mday \in 0 .. 99
    BY <1>2, WordIs
  <2>2. new = WithTime(tm, word.year, -word.mon, -word.mday)
    BY <1>2, TimedIs
  <2>3. /\ new.hour = word.year /\ new.min = -word.mon /\ new.sec = -word.mday /\ new \in Tms
        /\ new.year = tm.year /\ new.mon = tm.mon /\ new.mday = tm.mday
    BY <2>1, <2>2, TmIs DEF WithTime, Tms
  <2>4. SecondOf(new) >= -86400
    <3>1. PICK y \in Nat : y = word.year
      BY <2>1
    <3>2. PICK m \in 0 .. 99 : m = word.mon
      BY <2>1
    <3>3. PICK d \in 0 .. 99 : d = word.mday
      BY <2>1
    <3>4. SecondOf(new) = 3600 * y + 60 * (-m) + (-d)
      BY <2>3, <3>1, <3>2, <3>3 DEF SecondOf
    <3>. QED  BY <3>4
  <2>. QED  BY <1>2, <2>3, <2>4
<1>3. CASE word.kind \notin {"iso", "time"}
  BY <1>3, TimedIs
<1>. QED  BY <1>1, <1>2, <1>3

LEMMA WordsAre ==
    ASSUME NEW words \in Sets
    PROVE  Len(words) \in Nat \ {0} /\ DOMAIN words = 1 .. Len(words)
           /\ \A i \in 1 .. Len(words) : words[i] \in TimeWords
<1>1. words \in Seq(TimeWords) /\ words # <<>>
  BY ClockAssumption
<1>2. Len(words) # 0
  BY <1>1, EmptySeq
<1>. QED  BY <1>1, <1>2, LenProperties, ElementOfSeq

LEMMA ConvertedSettable ==
    ASSUME NEW words \in Sets, NEW tm, Readable(tm), NEW new \in Converted(words, tm)
    PROVE  Settable(new)
<1>0. tm \in Tms /\ words[1] \in TimeWords
  BY WordsAre DEF Readable
<1>1. CASE words[1].kind = "time"
  <2>1. new \in Timed(words[1], tm)
    BY <1>1 DEF Converted
  <2>. QED  BY <1>0, <1>1, <2>1, TimedSettable, TmIs DEF Settable, Readable, SecondOf
<1>2. CASE words[1].kind # "time" /\ Len(words) = 1
  <2>1. new \in Dated(words[1], tm)
    BY <1>2 DEF Converted
  <2>2. new \in Tms /\ new.year # 0 /\ SecondOf(new) >= 0
    BY <1>0, <2>1, DatedReadable
  <2>. QED  BY <2>2, TmIs DEF Settable, SecondOf
<1>3. CASE words[1].kind # "time" /\ Len(words) # 1
  <2>1. PICK dated \in Dated(words[1], tm) : new \in Timed(words[2], dated)
    BY <1>3 DEF Converted
  <2>2. dated \in Tms /\ dated.year # 0
    BY <1>0, <2>1, DatedReadable
  <2>3. words[2] \in TimeWords
    <3>1. PICK n \in Nat : n = Len(words) /\ n # 0 /\ n # 1
      BY <1>3, WordsAre
    <3>2. 2 \in 1 .. Len(words)
      BY <3>1
    <3>. QED  BY <3>2, WordsAre
  <2>. QED  BY <2>1, <2>2, <2>3, TimedSettable DEF Settable
<1>. QED  BY <1>1, <1>2, <1>3

LEMMA SensibleIs ==
    ASSUME NEW words \in Sets, Sensible(words)
    PROVE  /\ \/ Len(words) = 1 /\ words[1].kind \in {"iso", "german", "time"}
              \/ Len(words) = 2 /\ words[1].kind \in {"iso", "german"} /\ words[2].kind = "time"
           /\ \A i \in 1 .. Len(words) :
                 /\ words[i].kind \in {"iso", "german"} =>
                       words[i].mon \in 1 .. 12 /\ words[i].mday \in 1 .. 28
                 /\ words[i].kind = "time" =>
                       words[i].hour \in 0 .. 23 /\ words[i].min \in 0 .. 59 /\ SecOf(words[i]) \in 0 .. 59
<1>1. PICK n \in Nat : n = Len(words) /\ n # 0 /\ DOMAIN words = 1 .. n
  BY WordsAre
<1>2. \A i \in 1 .. n : /\ words[i].kind = "time" \/ words[i].kind \in {"iso", "german"}
                        /\ words[i].kind \in {"iso", "german"} =>
                              i = 1 /\ words[i].mon \in 1 .. 12 /\ words[i].mday \in 1 .. 28
                        /\ words[i].kind = "time" =>
                              /\ i = n /\ words[i].hour \in 0 .. 23 /\ words[i].min \in 0 .. 59
                              /\ words[i].sec \in 0 .. 59 \cup {Absent}
  BY <1>1 DEF Sensible
<1>3. n = 1 \/ n = 2
  <2>1. 1 \in 1 .. n /\ (n > 2 => 2 \in 1 .. n)
    BY <1>1
  <2>2. ~ (n > 2)
    BY <1>2, <2>1
  <2>. QED  BY <1>1, <2>2
<1>4. \/ n = 1 /\ words[1].kind \in {"iso", "german", "time"}
      \/ n = 2 /\ words[1].kind \in {"iso", "german"} /\ words[2].kind = "time"
  <2>1. CASE n = 1
    <3>1. 1 \in 1 .. n
      BY <2>1
    <3>. QED  BY <1>2, <2>1, <3>1
  <2>2. CASE n = 2
    <3>1. 1 \in 1 .. n /\ 2 \in 1 .. n
      BY <2>2
    <3>. QED  BY <1>2, <2>2, <3>1
  <2>. QED  BY <1>3, <2>1, <2>2
<1>5. \A i \in 1 .. n : words[i].kind = "time" => SecOf(words[i]) \in 0 .. 59
  BY <1>2 DEF SecOf
<1>. QED  BY <1>1, <1>2, <1>4, <1>5

LEMMA ConvertedIsAsked ==
    ASSUME NEW words \in Sets, Sensible(words), NEW tm, Readable(tm)
    PROVE  Converted(words, tm) = {Asked(words, tm)}
<1>0. tm \in Tms
  BY DEF Readable
<1>1. PICK first, last : first = words[1] /\ last = words[Len(words)]
  OBVIOUS
<1>2. first \in TimeWords
  <2>1. PICK n \in Nat : n = Len(words) /\ n # 0
    BY WordsAre
  <2>2. 1 \in 1 .. Len(words)
    BY <2>1
  <2>. QED  BY <1>1, <2>2, WordsAre
<1>3. CASE Len(words) = 1 /\ first.kind = "time"
  <2>1. Asked(words, tm) = WithTime(tm, first.hour, first.min, SecOf(first))
    BY <1>1, <1>3 DEF Asked, WithTime, SecOf
  <2>2. Converted(words, tm) = Timed(first, tm)
    BY <1>1, <1>3 DEF Converted
  <2>. QED  BY <1>0, <1>2, <1>3, <2>1, <2>2, TimedIs
<1>4. PICK year : year = IF first.kind = "german" THEN YearOf(first) ELSE first.year
  OBVIOUS
<1>5. first.kind \in {"iso", "german"} => Dated(first, tm) = {WithDate(tm, year, first.mon, first.mday)}
  BY <1>0, <1>2, <1>4, DatedIs
<1>6. year = IF first.kind = "german" /\ first.year < 1900 THEN 2000 + first.year ELSE first.year
  BY <1>4 DEF YearOf
<1>7. CASE Len(words) = 1 /\ first.kind \in {"iso", "german"}
  <2>1. Asked(words, tm) = WithDate(tm, year, first.mon, first.mday)
    BY <1>1, <1>6, <1>7 DEF Asked, WithDate
  <2>2. Converted(words, tm) = Dated(first, tm)
    BY <1>1, <1>7 DEF Converted
  <2>. QED  BY <1>5, <1>7, <2>1, <2>2
<1>8. CASE Len(words) = 2 /\ first.kind \in {"iso", "german"} /\ words[2].kind = "time"
  <2>1. last.kind = "time" /\ last = words[2] /\ last \in TimeWords
    <3>1. 2 \in 1 .. Len(words)
      BY <1>8
    <3>. QED  BY <1>1, <1>8, <3>1, WordsAre
  <2>2. PICK dated : dated = WithDate(tm, year, first.mon, first.mday)
    OBVIOUS
  <2>3. Dated(first, tm) = {dated}
    BY <1>5, <1>8, <2>2
  <2>4. dated \in Tms
    BY <1>2, <2>3, DatedReadable
  <2>5. Converted(words, tm) = Timed(last, dated)
    <3>1. Converted(words, tm) = UNION {Timed(words[2], d) : d \in Dated(first, tm)}
      BY <1>1, <1>8 DEF Converted
    <3>. QED  BY <2>1, <2>3, <3>1
  <2>6. Timed(last, dated) = {WithTime(dated, last.hour, last.min, SecOf(last))}
    BY <2>1, <2>4, TimedIs
  <2>7. Asked(words, tm) = WithTime(dated, last.hour, last.min, SecOf(last))
    <3>1. dated.year = year /\ dated.mon = first.mon /\ dated.mday = first.mday
      BY <2>2 DEF WithDate
    <3>2. first.kind # "time"
      BY <1>8
    <3>. QED  BY <1>1, <1>6, <2>1, <3>1, <3>2 DEF Asked, WithTime, SecOf
  <2>. QED  BY <2>5, <2>6, <2>7
<1>. QED  BY <1>1, <1>3, <1>7, <1>8, SensibleIs

LEMMA AskedIsMoment ==
    ASSUME NEW words \in Sets, Sensible(words), NEW tm, Moment(tm) \/ Len(words) = 2
    PROVE  Moment(Asked(words, tm))
<1>1. PICK first, last, asked : /\ first = words[1] /\ last = words[Len(words)]
                                /\ asked = Asked(words, tm)
  OBVIOUS
<1>2. asked = [year |-> asked.year, mon |-> asked.mon, mday |-> asked.mday,
               hour |-> asked.hour, min |-> asked.min, sec |-> asked.sec]
  BY <1>1 DEF Asked
<1>3. PICK n \in Nat : n = Len(words) /\ n # 0
  BY WordsAre
<1>4. 1 \in 1 .. Len(words) /\ Len(words) \in 1 .. Len(words)
  BY <1>3
<1>5. first \in TimeWords
  BY <1>1, <1>4, WordsAre
<1>6. CASE first.kind \in {"iso", "german"}
  <2>1. first.mon \in 1 .. 12 /\ first.mday \in 1 .. 28 /\ first.year \in Nat
    BY <1>1, <1>4, <1>5, <1>6, SensibleIs, WordIs
  <2>2. PICK y \in Nat : y = asked.year
    <3>1. asked.year = IF first.kind = "german" /\ first.year < 1900 THEN 2000 + first.year
                       ELSE first.year
      BY <1>1, <1>6 DEF Asked
    <3>. QED  BY <2>1, <3>1
  <2>3. asked.mon = first.mon /\ asked.mday = first.mday
    BY <1>1, <1>6 DEF Asked
  <2>4. IsDate(y, first.mon, first.mday)
    <3>1. PICK m \in 1 .. 12 : m = first.mon
      BY <2>1
    <3>2. MonthStart(y, m) + 28 <= MonthStart(y, m + 1) /\ \A k \in 1 .. 13 : MonthStart(y, k) \in 0 .. Days(y)
      BY MonthsRise
    <3>3. m \in 1 .. 13 /\ m + 1 \in 1 .. 13 /\ Days(y) \in Nat
      BY YearStep
    <3>4. MonthStart(y, m) \in Nat /\ MonthStart(y, m + 1) \in Nat
      BY <3>2, <3>3
    <3>. QED  BY <2>1, <3>1, <3>2, <3>4 DEF IsDate
  <2>5. asked.hour \in 0 .. 23 /\ asked.min \in 0 .. 59 /\ asked.sec \in 0 .. 59
    <3>1. CASE last.kind = "time"
      <4>1. asked.hour = last.hour /\ asked.min = last.min /\ asked.sec = SecOf(last)
        BY <1>1, <3>1 DEF Asked, SecOf
      <4>. QED  BY <1>1, <1>4, <3>1, <4>1, SensibleIs
    <3>2. CASE last.kind # "time"
      <4>1. Moment(tm)
        BY <1>1, <3>2, SensibleIs
      <4>2. asked.hour = tm.hour /\ asked.min = tm.min /\ asked.sec = tm.sec
        BY <1>1, <3>2 DEF Asked
      <4>. QED  BY <4>1, <4>2 DEF Moment
    <3>. QED  BY <3>1, <3>2
  <2>. QED  BY <1>1, <1>2, <2>2, <2>3, <2>4, <2>5 DEF Moment
<1>7. CASE first.kind = "time"
  <2>1. Len(words) = 1 /\ last = first /\ Moment(tm)
    BY <1>1, <1>7, SensibleIs
  <2>2. asked.year = tm.year /\ asked.mon = tm.mon /\ asked.mday = tm.mday
    BY <1>1, <1>7 DEF Asked
  <2>3. asked.hour = first.hour /\ asked.min = first.min /\ asked.sec = SecOf(first)
    BY <1>1, <1>7, <2>1 DEF Asked, SecOf
  <2>4. first.hour \in 0 .. 23 /\ first.min \in 0 .. 59 /\ SecOf(first) \in 0 .. 59
    BY <1>1, <1>4, <1>7, SensibleIs
  <2>. QED  BY <1>1, <1>2, <2>1, <2>2, <2>3, <2>4 DEF Moment
<1>. QED  BY <1>1, <1>6, <1>7, SensibleIs

LEMMA ClockReads ==
    ASSUME Time(clock)
    PROVE  /\ Moment(Calendar(clock))
           /\ Calendar(clock).hour = clock.second \div 3600
           /\ Calendar(clock).min = (clock.second \div 60) % 60
           /\ clock.second \in Nat /\ clock.second < 86400 /\ clock # Stopped
<1>1. PICK day \in Nat, s \in Nat : s < 86400 /\ clock = [day |-> day, second |-> s]
  BY DEF Time
<1>2. clock.second = s /\ Stopped.second = -1
  BY <1>1 DEF Stopped
<1>3. PICK y, m, d : IsDate(y, m, d) /\ day = NewYear(y) + MonthStart(y, m) + d - 1
  BY DayHasDate
<1>4. Calendar(clock) = [year |-> y, mon |-> m, mday |-> d,
                         hour |-> s \div 3600, min |-> (s \div 60) % 60, sec |-> s % 60]
  BY <1>1, <1>3, DateFound
<1>5. Calendar(clock).hour = s \div 3600 /\ Calendar(clock).min = (s \div 60) % 60
  BY <1>4
<1>6. Moment(Calendar(clock))
  BY <1>1, CalendarIsMoment
<1>7. clock # Stopped
  BY <1>2
<1>. QED  BY <1>1, <1>2, <1>5, <1>6, <1>7

LEMMA MomentReadable ==
    ASSUME NEW tm, Moment(tm)
    PROVE  Readable(tm)
<1>1. PICK y, m, d, h, mi, s :
        y = tm.year /\ m = tm.mon /\ d = tm.mday /\ h = tm.hour /\ mi = tm.min /\ s = tm.sec
  OBVIOUS
<1>2. /\ IsDate(y, m, d) /\ h \in 0 .. 23 /\ mi \in 0 .. 59 /\ s \in 0 .. 59
      /\ tm = [year |-> y, mon |-> m, mday |-> d, hour |-> h, min |-> mi, sec |-> s]
  BY <1>1 DEF Moment
<1>3. y \in Nat /\ m \in 0 .. 99 /\ d \in 0 .. 99
  <2>1. y \in Nat /\ m \in 1 .. 12 /\ d \in Nat /\ MonthStart(y, m) + d <= MonthStart(y, m + 1)
    BY <1>2 DEF IsDate
  <2>2. d <= 31
    BY <2>1 DEF MonthStart
  <2>. QED  BY <2>1, <2>2
<1>4. h \in Int /\ mi \in Int /\ s \in Int /\ 3600 * h + 60 * mi + s >= 0
  BY <1>2, DayTime
<1>5. tm \in Tms
  BY <1>2, <1>3, <1>4 DEF Tms
<1>. QED  BY <1>1, <1>2, <1>4, <1>5 DEF Readable, SecondOf

LEMMA ReadingsAre ==
    ASSUME clock = Stopped \/ Time(clock), NEW tm \in Readings
    PROVE  Readable(tm) /\ (clock # Stopped => Time(clock) /\ tm = Calendar(clock))
<1>1. CASE clock = Stopped
  <2>1. tm \in [year : Nat \ {0}, mon : 0 .. 99, mday : 0 .. 99, hour : Nat, min : Nat, sec : Nat]
    BY <1>1, ClockAssumption DEF Readings
  <2>2. tm \in Tms /\ tm.year # 0 /\ tm.hour \in Nat /\ tm.min \in Nat /\ tm.sec \in Nat
    BY <2>1 DEF Tms
  <2>3. SecondOf(tm) >= 0
    <3>1. \A h, m, s \in Nat : 3600 * h + 60 * m + s >= 0
      OBVIOUS
    <3>. QED  BY <2>2, <3>1 DEF SecondOf
  <2>. QED  BY <1>1, <2>2, <2>3 DEF Readable
<1>2. CASE clock # Stopped
  <2>1. tm = Calendar(clock)
    BY <1>2 DEF Readings
  <2>. QED  BY <1>2, <2>1, ClockReads, MomentReadable
<1>. QED  BY <1>1, <1>2

\* the variable shows the time at which the task ran last, less than an hour ago
Shown ==
    clock # Stopped /\ task # NoTask /\ ~drift.leapt =>
       /\ drift.since <= 59 * 60
       /\ \E s \in Nat : /\ s < 86400 /\ clock.second = (s + drift.since) % 86400
                         /\ task.hour = s \div 3600 /\ task.min = (s \div 60) % 60

ClockInv ==
    /\ clock = Stopped \/ Time(clock)
    /\ drift \in [ran : BOOLEAN, since : Nat, leapt : BOOLEAN]
    /\ task \in [hour : Int, min : Int, timeout : Int]
    /\ Shown /\ SetObeyed /\ VariableFollows

LEMMA ClockInit == KInit => ClockInv
<1>. SUFFICES ASSUME KInit PROVE ClockInv
  OBVIOUS
<1>. DEFINE tm == [year |-> 2025, mon |-> 6, mday |-> 10, hour |-> 23, min |-> 33, sec |-> 15]
<1>1. /\ tm \in [year : Nat, mon : 0 .. 99, mday : 0 .. 99, hour : Int, min : Int, sec : Int]
      /\ tm.year = 2025 /\ tm.hour = 23 /\ tm.min = 33 /\ tm.sec = 15
  OBVIOUS
<1>2. Default = Mktime(tm)
  BY DEF Default
<1>. HIDE DEF tm
<1>3. Time(Default)
  <2>1. tm \in Tms
    BY <1>1 DEF Tms
  <2>2. tm.year # 0 /\ SecondOf(tm) >= -86400
    BY <1>1 DEF SecondOf
  <2>3. Settable(tm)
    BY <2>1, <2>2 DEF Settable
  <2>. QED  BY <1>2, <2>3, MktimeIsTime
<1>4. clock \in {Default, Stopped} /\ typed = <<>> /\ task = NoTask /\ drift = Unseen
  BY DEF KInit, Nothing
<1>5. drift \in [ran : BOOLEAN, since : Nat, leapt : BOOLEAN] /\ ~drift.ran
  BY <1>4 DEF Unseen
<1>6. task \in [hour : Int, min : Int, timeout : Int]
  BY <1>4 DEF NoTask
<1>7. SetObeyed
  BY <1>4 DEF SetObeyed
<1>. QED  BY <1>3, <1>4, <1>5, <1>6, <1>7 DEF ClockInv, Shown, VariableFollows

LEMMA SetKeeps ==
    ASSUME ClockInv, NEW words \in Sets, TimeSet(words)
    PROVE  ClockInv'
<1>1. PICK tm \in Readings :
        /\ IF Converted(words, tm) = {} THEN UNCHANGED clock
           ELSE \E new \in Converted(words, tm) : SetTime(Mktime(new))
        /\ typed' = <<[words |-> words, read |-> tm, before |-> clock,
                       answer |-> IF Converted(words, tm) = {} THEN -1 ELSE 0]>>
  BY DEF TimeSet
<1>2. Readable(tm) /\ (clock # Stopped => Time(clock) /\ tm = Calendar(clock))
  BY ReadingsAre DEF ClockInv
<1>3. clock' = clock \/ Time(clock')
  <2>1. CASE Converted(words, tm) = {}
    BY <1>1, <2>1
  <2>2. CASE Converted(words, tm) # {}
    <3>1. PICK new \in Converted(words, tm) : SetTime(Mktime(new))
      BY <1>1, <2>2
    <3>2. Time(Mktime(new))
      BY <1>2, ConvertedSettable, MktimeIsTime
    <3>. QED  BY <3>1, <3>2 DEF SetTime
  <2>. QED  BY <2>1, <2>2
<1>4. clock' = Stopped \/ Time(clock')
  BY <1>3 DEF ClockInv
<1>5. task' = task /\ drift' = [drift EXCEPT !.ran = FALSE, !.leapt = @ \/ clock' # clock]
  BY DEF TimeSet
<1>6. PICK r : r = [words |-> words, read |-> tm, before |-> clock,
                    answer |-> IF Converted(words, tm) = {} THEN -1 ELSE 0]
  OBVIOUS
<1>7. typed' = <<r>> /\ r.words = words /\ r.read = tm /\ r.before = clock
      /\ r.answer = IF Converted(words, tm) = {} THEN -1 ELSE 0
  BY <1>1, <1>6
<1>8. ASSUME Sensible(words)
      PROVE  /\ Converted(words, tm) = {Asked(words, tm)}
             /\ clock # Stopped \/ Len(words) = 2 =>
                   IF chip = "rp2040" /\ Sunday(Mktime(Asked(words, tm))) THEN clock' = clock
                   ELSE clock' # Stopped /\ Calendar(clock') = Asked(words, tm)
  <2>1. PICK asked : asked = Asked(words, tm)
    OBVIOUS
  <2>2. Converted(words, tm) = {asked}
    BY <1>2, <1>8, <2>1, ConvertedIsAsked
  <2>3. SetTime(Mktime(asked))
    BY <1>1, <2>2
  <2>4. ASSUME clock # Stopped \/ Len(words) = 2
        PROVE  IF chip = "rp2040" /\ Sunday(Mktime(asked)) THEN clock' = clock
               ELSE clock' # Stopped /\ Calendar(clock') = asked
    <3>1. Moment(asked)
      BY <1>2, <1>8, <2>1, <2>4, AskedIsMoment, ClockReads
    <3>2. Calendar(Mktime(asked)) = asked /\ Mktime(asked).second >= 0
      BY <3>1, MomentKept
    <3>3. Mktime(asked) # Stopped
      <4>1. Stopped.second = -1
        BY DEF Stopped
      <4>. QED  BY <3>2, <4>1
    <3>. QED  BY <2>3, <3>2, <3>3 DEF SetTime
  <2>. QED  BY <2>1, <2>2, <2>4
<1>9. SetObeyed'
  <2>1. chip' = chip /\ DOMAIN typed' = {1} /\ typed'[1] = r
    BY <1>7 DEF TimeSet
  <2>2. r.answer = -1 => clock' = r.before
    BY <1>1, <1>7
  <2>3. Sensible(words) => r.answer = 0
    BY <1>7, <1>8
  <2>. QED  BY <1>7, <1>8, <2>1, <2>2, <2>3 DEF SetObeyed
<1>10. /\ drift' \in [ran : BOOLEAN, since : Nat, leapt : BOOLEAN] /\ ~drift'.ran
       /\ drift'.since = drift.since /\ (~drift'.leapt => ~drift.leapt /\ clock' = clock)
  BY <1>5 DEF ClockInv
<1>11. Shown'
  BY <1>5, <1>10 DEF ClockInv, Shown
<1>. QED  BY <1>4, <1>5, <1>9, <1>10, <1>11 DEF ClockInv, VariableFollows

\* within 59 minutes the minute comes back only in the same hour
LEMMA SameHour ==
    \A s, since \in Nat :
       s < 86400 /\ since <= 59 * 60 /\ (((s + since) % 86400) \div 60) % 60 = (s \div 60) % 60
          => ((s + since) % 86400) \div 3600 = s \div 3600
OBVIOUS

\* a run of the task that writes, or finds the minute it has written
LEMMA RunShows ==
    ASSUME ClockInv, NEW tm \in Readings, NEW wrote \in BOOLEAN, Ran(wrote),
           UNCHANGED <<chip, clock, typed>>,
           task' \in [hour : Int, min : Int, timeout : Int],
           task'.min = tm.min,
           wrote => task'.hour = tm.hour,
           ~wrote => task'.hour = task.hour /\ task.min = tm.min /\ task # NoTask
    PROVE  ClockInv'
<1>1. Readable(tm) /\ (clock # Stopped => Time(clock) /\ tm = Calendar(clock))
  BY ReadingsAre DEF ClockInv
<1>2. /\ drift' \in [ran : BOOLEAN, since : Nat, leapt : BOOLEAN]
      /\ drift'.since = 0 /\ (~drift'.leapt => ~drift.leapt \/ wrote)
  BY DEF Ran, ClockInv
<1>3. ASSUME clock # Stopped
      PROVE  /\ clock.second \in Nat /\ clock.second < 86400
             /\ task'.min = (clock.second \div 60) % 60 /\ task'.min = Calendar(clock).min
             /\ ~drift'.leapt => /\ task'.hour = clock.second \div 3600
                                 /\ task'.hour = Calendar(clock).hour
  <2>1. /\ tm = Calendar(clock) /\ tm.hour = clock.second \div 3600
        /\ tm.min = (clock.second \div 60) % 60
        /\ clock.second \in Nat /\ clock.second < 86400
    BY <1>1, <1>3, ClockReads
  <2>2. ASSUME ~drift'.leapt
        PROVE  task'.hour = clock.second \div 3600
    <3>1. CASE wrote
      BY <2>1, <3>1
    <3>2. CASE ~wrote
      <4>1. task' .hour = task.hour /\ task.min = tm.min /\ task # NoTask /\ ~drift.leapt
        BY <1>2, <2>2, <3>2
      <4>2. /\ drift.since <= 59 * 60
            /\ \E s \in Nat : /\ s < 86400 /\ clock.second = (s + drift.since) % 86400
                              /\ task.hour = s \div 3600 /\ task.min = (s \div 60) % 60
        BY <1>3, <4>1 DEF ClockInv, Shown
      <4>3. PICK s \in Nat : /\ s < 86400 /\ clock.second = (s + drift.since) % 86400
                             /\ task.hour = s \div 3600 /\ task.min = (s \div 60) % 60
        BY <4>2
      <4>4. PICK since \in Nat : since = drift.since
        BY DEF ClockInv
      <4>5. since <= 59 * 60 /\ clock.second = (s + since) % 86400
        BY <4>2, <4>3, <4>4
      <4>6. (((s + since) % 86400) \div 60) % 60 = (s \div 60) % 60
        <5>1. (clock.second \div 60) % 60 = (s \div 60) % 60
          BY <2>1, <4>1, <4>3
        <5>. QED  BY <4>5, <5>1
      <4>7. ((s + since) % 86400) \div 3600 = s \div 3600
        BY <4>3, <4>5, <4>6, SameHour
      <4>8. clock.second \div 3600 = s \div 3600
        BY <4>5, <4>7
      <4>. QED  BY <4>1, <4>3, <4>8
    <3>. QED  BY <3>1, <3>2
  <2>. QED  BY <2>1, <2>2
<1>4. Shown'
  <2>1. CASE clock' = Stopped \/ drift'.leapt
    BY <2>1 DEF Shown
  <2>2. CASE clock' # Stopped /\ ~drift'.leapt
    <3>1. clock # Stopped /\ clock' = clock
      BY <2>2
    <3>2. PICK s \in Nat : s = clock.second /\ s < 86400
      BY <1>3, <3>1
    <3>3. (s + 0) % 86400 = s
      BY <3>2
    <3>4. task'.hour = s \div 3600 /\ task'.min = (s \div 60) % 60
      BY <1>3, <2>2, <3>1, <3>2
    <3>. QED  BY <1>2, <3>1, <3>2, <3>3, <3>4 DEF Shown
  <2>. QED  BY <2>1, <2>2
<1>5. VariableFollows'
  BY <1>3 DEF VariableFollows
<1>6. SetObeyed'
  BY DEF ClockInv, SetObeyed
<1>. QED  BY <1>2, <1>4, <1>5, <1>6 DEF ClockInv, Time

LEMMA LapseKeeps ==
    ASSUME ClockInv, NEW l \in Lapses, Lapse(l)
    PROVE  ClockInv'
<1>1. /\ clock # Stopped /\ l \in Nat /\ typed' = <<>> /\ task' = task
      /\ clock' = [day |-> clock.day + ((clock.second + l) \div 86400),
                   second |-> (clock.second + l) % 86400]
      /\ drift' = [ran |-> FALSE, since |-> drift.since + l,
                   leapt |-> drift.leapt \/ drift.since + l > 59 * 60]
  BY ClockAssumption DEF Lapse, Nothing
<1>2. PICK day \in Nat, now \in Nat : now < 86400 /\ clock = [day |-> day, second |-> now]
  BY <1>1 DEF ClockInv, Time
<1>3. PICK later \in Nat : later = (now + l) % 86400 /\ later < 86400
  BY <1>1
<1>4. clock' = [day |-> day + ((now + l) \div 86400), second |-> later]
  BY <1>1, <1>2, <1>3
<1>5. day + ((now + l) \div 86400) \in Nat
  BY <1>1
<1>6. Time(clock')
  BY <1>3, <1>4, <1>5 DEF Time
<1>7. PICK since \in Nat : since = drift.since
  BY DEF ClockInv
<1>8. /\ drift' \in [ran : BOOLEAN, since : Nat, leapt : BOOLEAN] /\ ~drift'.ran
      /\ drift'.since = since + l
      /\ ~drift'.leapt => ~drift.leapt /\ since + l <= 59 * 60
  <2>1. PICK leapt \in BOOLEAN : leapt <=> drift.leapt \/ since + l > 59 * 60
    OBVIOUS
  <2>2. (drift.leapt \/ drift.since + l > 59 * 60) = leapt
    BY <1>7, <2>1 DEF ClockInv
  <2>3. PICK no : no = FALSE
    OBVIOUS
  <2>4. PICK sum \in Nat : sum = drift.since + l /\ sum = since + l
    BY <1>1, <1>7
  <2>5. drift' = [ran |-> no, since |-> sum, leapt |-> leapt]
    <3>1. drift' = [ran |-> FALSE, since |-> drift.since + l,
                    leapt |-> drift.leapt \/ drift.since + l > 59 * 60]
      BY <1>1
    <3>. QED  BY <2>2, <2>3, <2>4, <3>1, Zenon
  <2>6. drift' \in [ran : BOOLEAN, since : Nat, leapt : BOOLEAN]
    BY <2>3, <2>5
  <2>7. drift'.ran = no /\ drift'.since = sum /\ drift'.leapt = leapt
    BY <2>5
  <2>8. ~leapt => ~drift.leapt /\ since + l <= 59 * 60
    BY <1>1, <2>1
  <2>. QED  BY <2>3, <2>4, <2>6, <2>7, <2>8
<1>9. Shown'
  <2>1. CASE task = NoTask \/ drift'.leapt
    BY <1>1, <2>1 DEF Shown
  <2>2. CASE task # NoTask /\ ~drift'.leapt
    <3>1. PICK s \in Nat : /\ s < 86400 /\ clock.second = (s + since) % 86400
                           /\ task.hour = s \div 3600 /\ task.min = (s \div 60) % 60
      BY <1>1, <1>7, <1>8, <2>2 DEF ClockInv, Shown
    <3>2. now = (s + since) % 86400
      BY <1>2, <3>1
    <3>3. later = (s + (since + l)) % 86400
      BY <1>1, <1>3, <3>2
    <3>4. clock'.second = (s + drift'.since) % 86400
      BY <1>4, <1>8, <3>3
    <3>. QED  BY <1>1, <1>8, <2>2, <3>1, <3>4 DEF Shown
  <2>. QED  BY <2>1, <2>2
<1>10. SetObeyed'
  BY <1>1 DEF SetObeyed
<1>. QED  BY <1>1, <1>6, <1>8, <1>9, <1>10 DEF ClockInv, VariableFollows

\* "time set" is obeyed and the time variable follows the clock, for every date of the
\* calendar and whatever the clock chip is read as before it runs (PicoTime::setTime,
\* TimeTask::ExecuteTask).
THEOREM ClockIsObeyed == KSpec => []ClockObeys
<1>1. KInit => ClockInv
  BY ClockInit
<1>2. ClockInv /\ [KNext]_clockVars => ClockInv'
  <2>. SUFFICES ASSUME ClockInv, [KNext]_clockVars PROVE ClockInv'
    OBVIOUS
  <2>1. CASE \E words \in Sets : TimeSet(words)
    BY <2>1, SetKeeps
  <2>2. CASE StartTime
    <3>1. PICK tm \in Readings : Writes(tm)
      BY <2>2 DEF StartTime
    <3>2. tm.hour \in Int /\ tm.min \in Int
      BY ReadingsAre, TmIs DEF ClockInv, Readable
    <3>3. /\ task' \in [hour : Int, min : Int, timeout : Int]
          /\ task'.hour = tm.hour /\ task'.min = tm.min
      BY <3>1, <3>2, ClockAssumption DEF Writes
    <3>. QED  BY <2>2, <3>3, RunShows DEF StartTime
  <2>3. CASE RunTimeTask
    <3>1. PICK tm \in Readings :
            \/ /\ tm.min = task.min /\ task.timeout > 0
               /\ task' = [task EXCEPT !.timeout = @ - 1] /\ Ran(FALSE)
            \/ Writes(tm) /\ Ran(TRUE)
      BY <2>3 DEF RunTimeTask
    <3>2. task # NoTask /\ UNCHANGED <<chip, clock, typed>>
      BY <2>3 DEF RunTimeTask
    <3>3. CASE tm.min = task.min /\ task' = [task EXCEPT !.timeout = @ - 1] /\ Ran(FALSE)
      <4>1. /\ task' \in [hour : Int, min : Int, timeout : Int]
            /\ task'.hour = task.hour /\ task'.min = task.min
        BY <3>3 DEF ClockInv
      <4>. QED  BY <3>2, <3>3, <4>1, RunShows
    <3>4. CASE Writes(tm) /\ Ran(TRUE)
      <4>1. tm.hour \in Int /\ tm.min \in Int
        BY ReadingsAre, TmIs DEF ClockInv, Readable
      <4>2. /\ task' \in [hour : Int, min : Int, timeout : Int]
            /\ task'.hour = tm.hour /\ task'.min = tm.min
        BY <3>4, <4>1, ClockAssumption DEF Writes
      <4>. QED  BY <3>2, <3>4, <4>2, RunShows
    <3>. QED  BY <3>1, <3>3, <3>4
  <2>4. CASE \E s \in Lapses : Lapse(s)
    BY <2>4, LapseKeeps
  <2>5. CASE UNCHANGED clockVars
    BY <2>5 DEF clockVars, ClockInv, Time, Shown, SetObeyed, VariableFollows
  <2>. QED  BY <2>1, <2>2, <2>3, <2>4, <2>5 DEF KNext
<1>3. ClockInv => ClockObeys
  BY DEF ClockInv, ClockObeys
<1>. QED  BY <1>1, <1>2, <1>3, PTL DEF KSpec

-----------------------------------------------------------------------------
(***************************************************************************)
(* The pattern designer: paint is not lost.  The keypoints of a spline are *)
(* numbers with neighbours, its curve meets both ends of every segment,    *)
(* and every edit keeps a keypoint an LED of its colour.                   *)
(***************************************************************************)

\* A pattern, and what fits: every keypoint is an LED, in its colour but for the
\* ones that were drawn over.
Patterned(p) ==
    /\ p = [leds |-> p.leds, keypoints |-> p.keypoints]
    /\ p.leds \in Seq(Int)
    /\ DOMAIN p.keypoints \subseteq Nat
    /\ \A k \in DOMAIN p.keypoints : p.keypoints[k] \in Int
Fits(p, over) ==
    \A k \in DOMAIN p.keypoints :
       /\ k < Len(p.leds)
       /\ k \notin over => Clamped(p.leds[k + 1]) = Clamped(p.keypoints[k])

\* The keys of a pattern: numbers below the number of its LEDs.
Keys(keys, n) == n \in Nat /\ keys \subseteq Nat /\ \A k \in keys : k < n

LEMMA OuterKeys ==
    ASSUME NEW keys, NEW n, Keys(keys, n), keys # {}
    PROVE  /\ Max(keys) \in keys /\ \A x \in keys : x <= Max(keys)
           /\ Min(keys) \in keys /\ \A x \in keys : Min(keys) <= x
<1>1. n \in Nat /\ keys \subseteq Nat /\ \A k \in keys : k < n  BY DEF Keys
<1>0. PICK k0 : k0 \in keys  OBVIOUS
<1>2. \E m \in keys : \A x \in keys : m <= x  BY <1>0, <1>1, First
<1>3. \E m \in keys : \A x \in keys : m >= x
  <2> DEFINE T == {n - x : x \in keys}
  <2>1. T \subseteq Nat /\ T # {}
    <3>1. \A x \in keys : n - x \in Nat  BY <1>1
    <3>. QED  BY <3>1
  <2>0. PICK t0 : t0 \in T  BY <2>1
  <2>2. PICK t \in T : \A u \in T : t <= u  BY <2>0, <2>1, First
  <2>3. PICK m \in keys : t = n - m  BY <2>2
  <2>4. \A x \in keys : n - m <= n - x  BY <2>2, <2>3
  <2>. QED  BY <1>1, <2>3, <2>4
<1>4. Min(keys) \in keys /\ \A x \in keys : Min(keys) <= x
  BY <1>2 DEF Min
<1>5. Max(keys) \in keys /\ \A x \in keys : Max(keys) >= x
  BY <1>3 DEF Max
<1>. QED  BY <1>1, <1>4, <1>5

\* The neighbours of a keypoint are keypoints, and nothing lies between.
LEMMA Neighbours ==
    ASSUME NEW keys, NEW n, Keys(keys, n), NEW k \in keys
    PROVE  /\ Previous(keys, k) \in keys /\ Following(keys, k) \in keys
           /\ (\E x \in keys : x < k) =>
                 /\ Previous(keys, k) < k
                 /\ \A x \in keys : x <= Previous(keys, k) \/ k <= x
           /\ (\E x \in keys : k < x) =>
                 /\ k < Following(keys, k)
                 /\ \A x \in keys : x <= k \/ Following(keys, k) <= x
<1> DEFINE below == {x \in keys : x < k}
           above == {x \in keys : x > k}
<1>1. n \in Nat /\ keys \subseteq Nat /\ k \in Nat  BY DEF Keys
<1>2. Keys(below, n) /\ Keys(above, n)  BY DEF Keys
<1>3. /\ Previous(keys, k) \in keys
      /\ (\E x \in keys : x < k) =>
            /\ Previous(keys, k) < k
            /\ \A x \in keys : x <= Previous(keys, k) \/ k <= x
  <2>1. CASE below = {}
    <3>1. \A x \in keys : x >= k  BY <1>1, <2>1
    <3>2. Previous(keys, k) = k  BY <3>1 DEF Previous
    <3>. QED  BY <2>1, <3>2
  <2>2. CASE below # {}
    <3>0. PICK y : y \in keys /\ y < k  BY <2>2
    <3>1. ~ \A x \in keys : x >= k  BY <1>1, <3>0
    <3>2. Previous(keys, k) = Max(below)  BY <3>1 DEF Previous
    <3>3. Max(below) \in below /\ \A x \in below : x <= Max(below)
      BY <1>2, <2>2, OuterKeys
    <3>. QED  BY <1>1, <3>2, <3>3
  <2>. QED  BY <2>1, <2>2
<1>4. /\ Following(keys, k) \in keys
      /\ (\E x \in keys : k < x) =>
            /\ k < Following(keys, k)
            /\ \A x \in keys : x <= k \/ Following(keys, k) <= x
  <2>1. CASE above = {}
    <3>1. \A x \in keys : x <= k  BY <1>1, <2>1
    <3>2. Following(keys, k) = k  BY <3>1 DEF Following
    <3>. QED  BY <3>1, <3>2, <1>1
  <2>2. CASE above # {}
    <3>0. PICK y : y \in keys /\ y > k  BY <2>2
    <3>1. ~ \A x \in keys : x <= k  BY <1>1, <3>0
    <3>2. Following(keys, k) = Min(above)  BY <3>1 DEF Following
    <3>3. Min(above) \in above /\ \A x \in above : Min(above) <= x
      BY <1>2, <2>2, OuterKeys
    <3>. QED  BY <1>1, <3>2, <3>3
  <2>. QED  BY <2>1, <2>2
<1>. QED  BY <1>3, <1>4

\* The segment of an LED between the outer keypoints: it starts and ends at two
\* keypoints, and one of them is the LED if that is a keypoint.
LEMMA Segment ==
    ASSUME NEW keys, NEW n, Keys(keys, n), NEW a \in keys, NEW b \in keys, a # b,
           NEW i \in Int, Min(keys) <= i, i <= Max(keys)
    PROVE  /\ SegmentStart(keys, i) \in keys /\ Following(keys, SegmentStart(keys, i)) \in keys
           /\ SegmentStart(keys, i) < Following(keys, SegmentStart(keys, i))
           /\ i \in keys => i \in {SegmentStart(keys, i), Following(keys, SegmentStart(keys, i))}
<1>1. n \in Nat /\ keys \subseteq Nat  BY DEF Keys
<1>2. PICK top : top = Max(keys)  OBVIOUS
<1>3. /\ top \in keys /\ \A x \in keys : x <= top
      /\ Min(keys) \in keys
  BY <1>2, OuterKeys
<1>4. PICK s : s = SegmentStart(keys, i)  OBVIOUS
<1>5. s \in keys /\ s < top /\ (i \in keys => s = i \/ (i = top /\ \A x \in keys : x <= s \/ top <= x))
  <2>1. CASE i = top
    <3>1. s = Previous(keys, top)  BY <1>2, <1>4, <2>1 DEF SegmentStart
    <3>2. \E x \in keys : x < top  BY <1>1, <1>3
    <3>. QED  BY <1>3, <2>1, <3>1, <3>2, Neighbours
  <2>2. CASE i # top
    <3> DEFINE below == {x \in keys : x <= i}
    <3>1. s = Max(below)  BY <1>2, <1>4, <2>2 DEF SegmentStart
    <3>2. Keys(below, n) /\ below # {}  BY <1>3 DEF Keys
    <3>3. s \in below /\ \A x \in below : x <= s  BY <3>1, <3>2, OuterKeys
    <3>. QED  BY <1>1, <1>2, <1>3, <2>2, <3>3
  <2>. QED  BY <2>1, <2>2
<1>6. PICK e : e = Following(keys, s)  OBVIOUS
<1>7. e \in keys /\ s < e /\ \A x \in keys : x <= s \/ e <= x
  BY <1>3, <1>5, <1>6, Neighbours
<1>8. i \in keys => i = s \/ i = e
  BY <1>1, <1>3, <1>5, <1>7
<1>. QED  BY <1>4, <1>5, <1>6, <1>7, <1>8

\* A spline meets both of its ends.
LEMMA TimesDiv ==
    ASSUME NEW p \in Int, NEW D \in Int, D > 0
    PROVE  (p * D) \div D = p
OBVIOUS

LEMMA Cubes ==
    ASSUME NEW d \in Int, d > 0
    PROVE  2 * d * d * d \in Int /\ 2 * d * d * d > 0
<1>1. d * d \in Int /\ d * d > 0  OBVIOUS
<1>2. PICK q \in Int : q = d * d /\ q > 0  BY <1>1
<1>3. q * d > 0 /\ q * d \in Int  BY <1>2
<1>4. 2 * d * d * d = 2 * (q * d)  BY <1>2
<1>. QED  BY <1>3, <1>4

LEMMA SplineEnds ==
    ASSUME NEW p0 \in Int, NEW p1 \in Int, NEW p2 \in Int, NEW p3 \in Int,
           NEW d \in Int, d > 0
    PROVE  /\ CatmullRom(p0, p1, p2, p3, 0, d) = p1
           /\ CatmullRom(p0, p1, p2, p3, d, d) = p2
<1>1. PICK D \in Int : D = 2 * d * d * d /\ D > 0  BY Cubes
<1>2. 2 * p1 * d * d * d + (p2 - p0) * 0 * d * d
       + (2 * p0 - 5 * p1 + 4 * p2 - p3) * 0 * 0 * d
       + (3 * p1 - p0 - 3 * p2 + p3) * 0 * 0 * 0 = p1 * D
  BY <1>1
<1>3. 2 * p1 * d * d * d + (p2 - p0) * d * d * d
       + (2 * p0 - 5 * p1 + 4 * p2 - p3) * d * d * d
       + (3 * p1 - p0 - 3 * p2 + p3) * d * d * d = p2 * D
  BY <1>1
<1>4. CatmullRom(p0, p1, p2, p3, 0, d) = (p1 * D) \div D
  BY <1>1, <1>2, Zenon DEF CatmullRom
<1>5. CatmullRom(p0, p1, p2, p3, d, d) = (p2 * D) \div D
  BY <1>1, <1>3, Zenon DEF CatmullRom
<1>. QED  BY <1>1, <1>4, <1>5, TimesDiv

LEMMA SplineInt ==
    ASSUME NEW p0 \in Int, NEW p1 \in Int, NEW p2 \in Int, NEW p3 \in Int,
           NEW s \in Int, NEW d \in Int, d > 0
    PROVE  CatmullRom(p0, p1, p2, p3, s, d) \in Int
<1>1. PICK D \in Int : D = 2 * d * d * d /\ D > 0  BY Cubes
<1>2. PICK a \in Int : a = 2 * p1 * d * d * d + (p2 - p0) * s * d * d
       + (2 * p0 - 5 * p1 + 4 * p2 - p3) * s * s * d
       + (3 * p1 - p0 - 3 * p2 + p3) * s * s * s
  OBVIOUS
<1>3. CatmullRom(p0, p1, p2, p3, s, d) = a \div D
  BY <1>1, <1>2, Zenon DEF CatmullRom
<1>. QED  BY <1>1, <1>2, <1>3

LEMMA ClampedTwice ==
    ASSUME NEW c \in Int
    PROVE  Clamped(c) \in Int /\ Clamped(Clamped(c)) = Clamped(c)
BY DEF Clamped, Higher, Lower

LEMMA TwoKeys ==
    ASSUME NEW S, Cardinality(S) >= 2
    PROVE  \E a, b \in S : a # b
<1> SUFFICES ASSUME \A a, b \in S : a = b  PROVE FALSE
  OBVIOUS
<1>1. CASE S = {}
  BY <1>1, FS_EmptySet
<1>2. CASE S # {}
  <2>1. PICK a : a \in S  BY <1>2
  <2>2. S = {a}  BY <2>1
  <2>. QED  BY <2>2, FS_Singleton
<1>. QED  BY <1>1, <1>2

\* What a spline computes, and that it keeps what was painted.
LEMMA SplineKeeps ==
    ASSUME NEW p, Patterned(p), Keys(DOMAIN p.keypoints, Len(p.leds)),
           NEW a \in DOMAIN p.keypoints, NEW b \in DOMAIN p.keypoints, a # b,
           NEW i \in Int, Min(DOMAIN p.keypoints) <= i, i <= Max(DOMAIN p.keypoints)
    PROVE  /\ Spline(p.keypoints, SegmentStart(DOMAIN p.keypoints, i), i) \in Int
           /\ i \in DOMAIN p.keypoints =>
                 Clamped(Spline(p.keypoints, SegmentStart(DOMAIN p.keypoints, i), i))
                    = Clamped(p.keypoints[i])
<1>1. PICK keys : keys = DOMAIN p.keypoints  OBVIOUS
<1>2. PICK points : points = p.keypoints  OBVIOUS
<1>3. PICK n : n = Len(p.leds)  OBVIOUS
<1>4. Keys(keys, n) /\ a \in keys /\ b \in keys /\ \A k \in keys : points[k] \in Int
  BY <1>1, <1>2, <1>3 DEF Patterned
<1>5. PICK s : s = SegmentStart(keys, i)  OBVIOUS
<1>6. PICK e : e = Following(keys, s)  OBVIOUS
<1>7. s \in keys /\ e \in keys /\ s < e /\ (i \in keys => i = s \/ i = e)
  <2>1. Min(keys) <= i /\ i <= Max(keys)  BY <1>1
  <2>2. /\ SegmentStart(keys, i) \in keys /\ Following(keys, SegmentStart(keys, i)) \in keys
        /\ SegmentStart(keys, i) < Following(keys, SegmentStart(keys, i))
        /\ i \in keys => i \in {SegmentStart(keys, i), Following(keys, SegmentStart(keys, i))}
    BY <1>4, <2>1, Segment
  <2>. QED  BY <1>5, <1>6, <2>2
<1>8. Previous(keys, s) \in keys /\ Following(keys, e) \in keys
  BY <1>4, <1>7, Neighbours
<1>9. PICK p0, p1, p2, p3 : /\ p0 = points[Previous(keys, s)] /\ p1 = points[s]
                           /\ p2 = points[e] /\ p3 = points[Following(keys, e)]
  OBVIOUS
<1>10. p0 \in Int /\ p1 \in Int /\ p2 \in Int /\ p3 \in Int
  BY <1>4, <1>7, <1>8, <1>9
<1>11. s \in Int /\ e \in Int
  BY <1>4, <1>7 DEF Keys
<1>12. PICK d \in Int : d = e - s /\ d > 0
  BY <1>7, <1>11
<1>13. PICK w : w = Spline(p.keypoints, SegmentStart(DOMAIN p.keypoints, i), i)
  OBVIOUS
<1>14. w = Clamped(CatmullRom(p0, p1, p2, p3, i - s, d))
  <2>1. w = Spline(points, s, i)  BY <1>1, <1>2, <1>5, <1>13
  <2>2. DOMAIN points = keys  BY <1>1, <1>2
  <2>. QED  BY <1>6, <1>9, <1>12, <2>1, <2>2, Zenon DEF Spline
<1>15. CatmullRom(p0, p1, p2, p3, i - s, d) \in Int
  <2>1. i - s \in Int  BY <1>11
  <2>. QED  BY <1>10, <1>12, <2>1, SplineInt
<1>16. w \in Int /\ Clamped(w) = w
  BY <1>14, <1>15, ClampedTwice
<1>17. ASSUME i \in keys  PROVE w = Clamped(points[i])
  <2>1. CASE i = s
    <3>1. i - s = 0  BY <1>11, <2>1
    <3>2. CatmullRom(p0, p1, p2, p3, 0, d) = p1  BY <1>10, <1>12, SplineEnds
    <3>. QED  BY <1>9, <1>14, <2>1, <3>1, <3>2
  <2>2. CASE i = e
    <3>1. i - s = d  BY <1>12, <2>2
    <3>2. CatmullRom(p0, p1, p2, p3, d, d) = p2  BY <1>10, <1>12, SplineEnds
    <3>. QED  BY <1>9, <1>14, <2>2, <3>1, <3>2
  <2>. QED  BY <1>7, <1>17, <2>1, <2>2
<1>. QED  BY <1>1, <1>2, <1>13, <1>16, <1>17

\* Interpolating paints nothing over, and shows every keypoint again.
LEMMA InterpolatedFits ==
    ASSUME NEW p, Patterned(p), Keys(DOMAIN p.keypoints, Len(p.leds)),
           NEW a \in DOMAIN p.keypoints, NEW b \in DOMAIN p.keypoints, a # b
    PROVE  /\ Interpolated(p) \in Seq(Int) /\ Len(Interpolated(p)) = Len(p.leds)
           /\ \A k \in DOMAIN p.keypoints :
                 Clamped(Interpolated(p)[k + 1]) = Clamped(p.keypoints[k])
<1>1. PICK keys : keys = DOMAIN p.keypoints  OBVIOUS
<1>2. PICK n : n = Len(p.leds)  OBVIOUS
<1>3. n \in Nat /\ DOMAIN p.leds = 1 .. n /\ \A i \in 1 .. n : p.leds[i] \in Int
  BY <1>2 DEF Patterned
<1>4. PICK lo, hi : lo = Min(keys) /\ hi = Max(keys)  OBVIOUS
<1>5. Keys(keys, n) /\ keys # {}  BY <1>1, <1>2
<1>6. lo \in keys /\ hi \in keys /\ \A x \in keys : lo <= x /\ x <= hi
  BY <1>4, <1>5, OuterKeys
<1>7. PICK spline : spline = [i \in Int |-> Spline(p.keypoints, SegmentStart(keys, i), i)]
  OBVIOUS
<1>8. \A i \in Int : lo <= i /\ i <= hi =>
         /\ spline[i] \in Int
         /\ i \in keys => Clamped(spline[i]) = Clamped(p.keypoints[i])
  BY <1>1, <1>4, <1>7, SplineKeeps
<1>9. PICK new : new = Interpolated(p)  OBVIOUS
<1>10. new = [i \in 1 .. n |->
                 IF i - 1 < lo \/ i - 1 > hi THEN p.leds[i] ELSE spline[i - 1]]
  <2>1. \A i \in 1 .. n : i - 1 \in Int  BY <1>3
  <2>2. \A i \in 1 .. n : spline[i - 1] = Spline(p.keypoints, SegmentStart(keys, i - 1), i - 1)
    BY <1>7, <2>1
  <2>. QED  BY <1>1, <1>3, <1>4, <1>9, <2>2, Zenon DEF Interpolated
<1>11. lo \in Int /\ hi \in Int /\ keys \subseteq Nat /\ \A k \in keys : k < n
  BY <1>5, <1>6 DEF Keys
<1>12. \A i \in 1 .. n : new[i] \in Int
  <2> SUFFICES ASSUME NEW i \in 1 .. n  PROVE new[i] \in Int
    OBVIOUS
  <2>1. CASE i - 1 < lo \/ i - 1 > hi
    BY <1>3, <1>10, <2>1
  <2>2. CASE ~(i - 1 < lo \/ i - 1 > hi)
    <3>1. new[i] = spline[i - 1]  BY <1>10, <2>2
    <3>2. i - 1 \in Int /\ lo <= i - 1 /\ i - 1 <= hi  BY <1>3, <1>11, <2>2
    <3>. QED  BY <1>8, <3>1, <3>2
  <2>. QED  BY <2>1, <2>2
<1>13. new \in Seq(Int) /\ Len(new) = n
  BY <1>3, <1>10, <1>12
<1>14. ASSUME NEW k \in keys  PROVE Clamped(new[k + 1]) = Clamped(p.keypoints[k])
  <2>1. k \in Int /\ k + 1 \in 1 .. n /\ (k + 1) - 1 = k /\ lo <= k /\ k <= hi
    BY <1>3, <1>6, <1>11
  <2>2. new[k + 1] = spline[k]
    BY <1>10, <1>11, <2>1
  <2>. QED  BY <1>8, <2>1, <2>2
<1>. QED  BY <1>1, <1>2, <1>9, <1>13, <1>14

\* Cutting a pattern takes the keypoints with it.
LEMMA CutIs ==
    ASSUME NEW leds \in Seq(Int), NEW n \in Nat
    PROVE  /\ Cut(leds, n) \in Seq(Int) /\ Len(Cut(leds, n)) = n
           /\ \A i \in 1 .. n : i <= Len(leds) => Cut(leds, n)[i] = leds[i]
BY DEF Cut

LEMMA ResizedFits ==
    ASSUME NEW p, NEW over, Patterned(p), Fits(p, over), NEW n \in Nat
    PROVE  /\ Patterned(Resized(p, n)) /\ Fits(Resized(p, n), {k \in over : k < n})
           /\ Len(Resized(p, n).leds) = n
           /\ Resized(p, n).leds = Cut(p.leds, n)
<1>1. PICK q : q = Resized(p, n)  OBVIOUS
<1>2. PICK ks : ks = {k \in DOMAIN p.keypoints : k < n}  OBVIOUS
<1>3. q.leds = Cut(p.leds, n) /\ q = [leds |-> q.leds, keypoints |-> q.keypoints]
      /\ q.keypoints = [k \in ks |-> p.keypoints[k]]
  BY <1>1, <1>2 DEF Resized, Restrict
<1>4. p.leds \in Seq(Int) /\ DOMAIN p.keypoints \subseteq Nat
      /\ \A k \in DOMAIN p.keypoints : p.keypoints[k] \in Int
  BY DEF Patterned
<1>5. q.leds \in Seq(Int) /\ Len(q.leds) = n
      /\ \A i \in 1 .. n : i <= Len(p.leds) => q.leds[i] = p.leds[i]
  BY <1>3, <1>4, CutIs
<1>6. Patterned(q)
  BY <1>2, <1>3, <1>4, <1>5 DEF Patterned
<1>7. Fits(q, {k \in over : k < n})
  <2> SUFFICES ASSUME NEW k \in ks
               PROVE  /\ k < n
                      /\ k \notin {j \in over : j < n} =>
                            Clamped(q.leds[k + 1]) = Clamped(q.keypoints[k])
    BY <1>3, <1>5 DEF Fits
  <2>1. k \in DOMAIN p.keypoints /\ k < n /\ k \in Nat  BY <1>2, <1>4
  <2>2. k < Len(p.leds) /\ (k \notin over => Clamped(p.leds[k + 1]) = Clamped(p.keypoints[k]))
    BY <2>1 DEF Fits
  <2>3. q.leds[k + 1] = p.leds[k + 1]
    <3>1. k + 1 \in 1 .. n /\ k + 1 <= Len(p.leds)  BY <1>4, <2>1, <2>2
    <3>. QED  BY <1>5, <3>1
  <2>4. q.keypoints[k] = p.keypoints[k]  BY <1>3
  <2>. QED  BY <2>1, <2>2, <2>3, <2>4
<1>. QED  BY <1>1, <1>3, <1>5, <1>6, <1>7

(***************************************************************************)
(* The invariant.                                                          *)
(***************************************************************************)
Entered(f) == /\ f = [cm |-> f.cm, leds |-> f.leds, jump |-> f.jump]
              /\ f.cm \in Int \cup {NotANumber} /\ f.leds \in Int \cup {NotANumber}

\* The pattern and every saved one fit; the pattern is longer than the strip.
DesignerInv ==
    /\ Patterned(pattern) /\ Fits(pattern, faded)
    /\ stripLeds \in Nat /\ stripLeds < Len(pattern.leds)
    /\ Entered(entry)
    /\ \A f \in file : Patterned(f.pattern) /\ Fits(f.pattern, f.faded)

LEMMA StripLength ==
    ASSUME NEW cm \in Int
    PROVE  CalculateStripLedCount(cm) \in Nat
BY DEF CalculateStripLedCount, Density, Higher

LEMMA LongEnough ==
    ASSUME NEW n \in Int, NEW strip \in Nat
    PROVE  EnsurePatternLength(n, strip) \in Nat /\ strip < EnsurePatternLength(n, strip)
BY DEF EnsurePatternLength, Higher

LEMMA PatternFacts ==
    ASSUME DesignerInv
    PROVE  /\ NumLeds = Len(pattern.leds) /\ NumLeds \in Nat
           /\ DOMAIN pattern.leds = 1 .. NumLeds
           /\ Keys(DOMAIN pattern.keypoints, NumLeds)
BY DEF DesignerInv, NumLeds, Patterned, Fits, Keys

LEMMA DesignerStarts ==
    ASSUME GInit
    PROVE  DesignerInv
<1>1. stripLeds \in Nat  BY StripLength DEF GInit
<1>2. DefaultLeds \in Int  BY DesignerAssumption
<1>3. PICK n : n = Higher(stripLeds + 1, DefaultLeds)  OBVIOUS
<1>4. n \in Nat /\ stripLeds < n  BY <1>1, <1>2, <1>3 DEF Higher
<1>5. PICK leds : leds = [i \in 1 .. n |-> 0]  OBVIOUS
<1>6. leds \in Seq(Int) /\ Len(leds) = n  BY <1>4, <1>5
<1>7. pattern = [leds |-> leds, keypoints |-> <<>>]
  BY <1>3, <1>5 DEF GInit
<1>8. DOMAIN pattern.keypoints = {}
  BY <1>7
<1>9. Patterned(pattern) /\ Fits(pattern, faded)
  BY <1>6, <1>7, <1>8 DEF Patterned, Fits
<1>10. Entered(entry)
  BY <1>2 DEF GInit, Entered
<1>11. file = {}  BY DEF GInit
<1>. QED  BY <1>1, <1>4, <1>6, <1>7, <1>9, <1>10, <1>11 DEF DesignerInv

\* Applying what the fields say, whole or in part.
LEMMA AppliedKeeps ==
    ASSUME DesignerInv, NEW f, Entered(f), Applied(f), UNCHANGED file
    PROVE  DesignerInv'
<1>1. PICK n : n = EnsurePatternLength(IF f.leds = NotANumber THEN NumLeds ELSE f.leds,
                                       CalculateStripLedCount(f.cm))
  OBVIOUS
<1>2. (\A g \in file : Patterned(g.pattern) /\ Fits(g.pattern, g.faded))'
  BY DEF DesignerInv
<1>3. CASE f.cm = NotANumber
  <2>1. UNCHANGED <<pattern, faded, stripLeds>> /\ entry' = f
    BY <1>3 DEF Applied
  <2>. QED  BY <1>2, <2>1 DEF DesignerInv, Patterned, Fits, Clamped, Higher, Lower, Entered
<1>4. CASE f.cm # NotANumber /\ f.jump = NotANumber
  <2>1. UNCHANGED <<pattern, faded, stripLeds>> /\ entry' = f
    BY <1>4 DEF Applied
  <2>. QED  BY <1>2, <2>1 DEF DesignerInv, Patterned, Fits, Clamped, Higher, Lower, Entered
<1>5. CASE f.cm # NotANumber /\ f.jump # NotANumber
  <2>1. /\ stripLeds' = CalculateStripLedCount(f.cm)
        /\ entry' = [f EXCEPT !.leds = n]
        /\ IF n = NumLeds THEN UNCHANGED pattern ELSE pattern' = Resized(pattern, n)
        /\ faded' = {k \in faded : k < n}
    BY <1>1, <1>5 DEF Applied
  <2>2. f.cm \in Int /\ (f.leds # NotANumber => f.leds \in Int)
    BY <1>5 DEF Entered
  <2>3. stripLeds' \in Nat
    BY <2>1, <2>2, StripLength
  <2>4. n \in Nat /\ stripLeds' < n
    <3>1. (IF f.leds = NotANumber THEN NumLeds ELSE f.leds) \in Int
      BY <2>2, PatternFacts
    <3>. QED  BY <1>1, <2>1, <2>3, <3>1, LongEnough
  <2>5. Entered(f)'
    OBVIOUS
  <2>6. Entered(entry)'
    BY <2>1, <2>4 DEF Entered
  <2>7. Patterned(pattern)' /\ Fits(pattern, faded)' /\ Len(pattern'.leds) = n
    <3>1. CASE n = NumLeds
      <4>1. pattern' = pattern  BY <2>1, <3>1
      <4>2. \A k \in DOMAIN pattern.keypoints : k \notin faded' => k \notin faded
        BY <2>1, <3>1, PatternFacts DEF Keys
      <4>3. Patterned(pattern) /\ Fits(pattern, faded)  BY DEF DesignerInv
      <4>4. Fits(pattern', faded')  BY <4>1, <4>2, <4>3 DEF Fits
      <4>. QED  BY <3>1, <4>1, <4>3, <4>4, PatternFacts
    <3>2. CASE n # NumLeds
      <4>1. pattern' = Resized(pattern, n)  BY <2>1, <3>2
      <4>2. Patterned(pattern) /\ Fits(pattern, faded)  BY DEF DesignerInv
      <4>. QED  BY <2>1, <2>4, <4>1, <4>2, ResizedFits
    <3>. QED  BY <3>1, <3>2
  <2>. QED  BY <1>2, <2>3, <2>4, <2>6, <2>7 DEF DesignerInv
<1>. QED  BY <1>3, <1>4, <1>5

LEMMA PaintKeeps ==
    ASSUME DesignerInv, NEW i \in 0 .. NumLeds - 1, NEW c \in Colours, Paint(i, c)
    PROVE  DesignerInv'
<1>1. c \in Int  BY DesignerAssumption
<1>2. i \in Nat /\ i + 1 \in 1 .. NumLeds /\ i < NumLeds  BY PatternFacts
<1>3. PICK leds, keys, points :
         /\ leds = [pattern.leds EXCEPT ![i + 1] = c]
         /\ keys = DOMAIN pattern.keypoints \cup {i}
         /\ points = [k \in keys |-> IF k = i THEN c ELSE pattern.keypoints[k]]
  OBVIOUS
<1>4. pattern' = [leds |-> leds, keypoints |-> points] /\ faded' = faded \ {i}
      /\ stripLeds' = stripLeds /\ entry' = entry /\ file' = file
  BY <1>3 DEF Paint
<1>5. pattern.leds \in Seq(Int) /\ DOMAIN pattern.keypoints \subseteq Nat
      /\ \A k \in DOMAIN pattern.keypoints : pattern.keypoints[k] \in Int
  BY DEF DesignerInv, Patterned
<1>6. leds \in Seq(Int) /\ Len(leds) = NumLeds
      /\ \A j \in 1 .. NumLeds : leds[j] = IF j = i + 1 THEN c ELSE pattern.leds[j]
  BY <1>1, <1>2, <1>3, <1>5, PatternFacts
<1>7. Patterned(pattern')
  BY <1>1, <1>2, <1>3, <1>4, <1>5, <1>6 DEF Patterned
<1>8. Fits(pattern', faded')
  <2> SUFFICES ASSUME NEW k \in keys
               PROVE  /\ k < NumLeds
                      /\ k \notin faded \ {i} => Clamped(leds[k + 1]) = Clamped(points[k])
    <3>1. /\ pattern'.leds = leds /\ pattern'.keypoints = points /\ faded' = faded \ {i}
          /\ DOMAIN points = keys
      BY <1>3, <1>4
    <3>. QED  BY <1>6, <3>1, Zenon DEF Fits
  <2>1. CASE k = i
    <3>1. leds[k + 1] = c /\ points[k] = c  BY <1>2, <1>3, <1>6, <2>1
    <3>. QED  BY <1>2, <2>1, <3>1
  <2>2. CASE k # i
    <3>1. k \in DOMAIN pattern.keypoints /\ k \in Nat  BY <1>3, <1>5, <2>2
    <3>2. k < NumLeds /\ (k \notin faded => Clamped(pattern.leds[k + 1]) = Clamped(pattern.keypoints[k]))
      BY <3>1, PatternFacts DEF DesignerInv, Fits
    <3>3. leds[k + 1] = pattern.leds[k + 1]
      BY <1>2, <1>6, <2>2, <3>1, <3>2, PatternFacts
    <3>4. points[k] = pattern.keypoints[k]  BY <1>3, <2>2
    <3>. QED  BY <2>2, <3>2, <3>3, <3>4
  <2>. QED  BY <2>1, <2>2
<1>. QED  BY <1>4, <1>6, <1>7, <1>8, PatternFacts DEF DesignerInv

LEMMA ClearKeeps ==
    ASSUME DesignerInv, Clear
    PROVE  DesignerInv'
<1>1. PICK leds : leds = [i \in 1 .. NumLeds |-> 0]  OBVIOUS
<1>2. pattern' = [leds |-> leds, keypoints |-> <<>>]
      /\ stripLeds' = stripLeds /\ entry' = entry /\ file' = file
  BY <1>1, PatternFacts DEF Clear
<1>3. leds \in Seq(Int) /\ Len(leds) = NumLeds  BY <1>1, PatternFacts
<1>4. DOMAIN pattern'.keypoints = {}  BY <1>2
<1>5. Patterned(pattern') /\ Fits(pattern', faded')
  BY <1>2, <1>3, <1>4 DEF Patterned, Fits
<1>. QED  BY <1>2, <1>3, <1>5, PatternFacts DEF DesignerInv

\* New LEDs under the same keypoints.
LEMMA NewLeds ==
    ASSUME DesignerInv, NEW leds, leds \in Seq(Int), Len(leds) = NumLeds,
           pattern' = [pattern EXCEPT !.leds = leds],
           UNCHANGED <<stripLeds, entry, file>>,
           \A k \in DOMAIN pattern.keypoints :
              k \notin faded' => Clamped(leds[k + 1]) = Clamped(pattern.keypoints[k])
    PROVE  DesignerInv'
<1>1. pattern' = [leds |-> leds, keypoints |-> pattern.keypoints]
  BY DEF DesignerInv, Patterned
<1>2. Patterned(pattern')  BY <1>1 DEF DesignerInv, Patterned
<1>3. Fits(pattern', faded')
  BY <1>1, PatternFacts DEF Fits, Keys
<1>. QED  BY <1>1, <1>2, <1>3, PatternFacts DEF DesignerInv

LEMMA InterpolateKeeps ==
    ASSUME DesignerInv, Interpolate
    PROVE  DesignerInv'
<1>1. PICK a, b \in DOMAIN pattern.keypoints : a # b
  BY TwoKeys DEF Interpolate
<1>2. PICK new : new = Interpolated(pattern)  OBVIOUS
<1>3. new \in Seq(Int) /\ Len(new) = NumLeds
      /\ \A k \in DOMAIN pattern.keypoints : Clamped(new[k + 1]) = Clamped(pattern.keypoints[k])
  <2>1. Patterned(pattern)  BY DEF DesignerInv
  <2>2. Keys(DOMAIN pattern.keypoints, Len(pattern.leds)) /\ NumLeds = Len(pattern.leds)
    BY PatternFacts
  <2>. QED  BY <1>1, <1>2, <2>1, <2>2, InterpolatedFits
<1>4. pattern' = [pattern EXCEPT !.leds = new] /\ UNCHANGED <<stripLeds, entry, file>>
  BY <1>2 DEF Interpolate
<1>. QED  BY <1>3, <1>4, NewLeds

LEMMA CreateGradientKeeps ==
    ASSUME DesignerInv, NEW c \in Colours, CreateGradient(c)
    PROVE  DesignerInv'
<1>1. c \in Int  BY DesignerAssumption
<1>2. PICK new : new = [i \in 1 .. NumLeds |-> (c * (i - 1)) \div (NumLeds - 1)]
  OBVIOUS
<1>3. NumLeds \in Nat /\ NumLeds >= 2  BY PatternFacts DEF CreateGradient
<1>4. \A i \in 1 .. NumLeds : (c * (i - 1)) \div (NumLeds - 1) \in Int
  <2> SUFFICES ASSUME NEW i \in 1 .. NumLeds
               PROVE  (c * (i - 1)) \div (NumLeds - 1) \in Int
    OBVIOUS
  <2>1. PICK x \in Int : x = c * (i - 1)  BY <1>1, <1>3
  <2>2. PICK d \in Int : d = NumLeds - 1 /\ d > 0  BY <1>3
  <2>3. x \div d \in Int  BY <2>2
  <2>. QED  BY <2>1, <2>2, <2>3
<1>5. new \in Seq(Int) /\ Len(new) = NumLeds  BY <1>2, <1>3, <1>4
<1>6. pattern' = [pattern EXCEPT !.leds = new] /\ UNCHANGED <<stripLeds, entry, file>>
      /\ faded' = DOMAIN pattern.keypoints
  BY <1>2, PatternFacts DEF CreateGradient
<1>. QED  BY <1>5, <1>6, NewLeds

LEMMA LoadKeeps ==
    ASSUME DesignerInv, LoadPattern
    PROVE  DesignerInv'
<1>1. PICK f \in file :
         LET saved == f.pattern.leds
             n == EnsurePatternLength(Len(saved), stripLeds)
             rest == Resized(pattern, n).leds
         IN  /\ pattern' = [leds |-> [i \in 1 .. n |-> IF i <= Len(saved) THEN saved[i] ELSE rest[i]],
                            keypoints |-> f.pattern.keypoints]
             /\ faded' = f.faded
             /\ entry' = [entry EXCEPT !.leds = n]
  BY DEF LoadPattern
<1>2. PICK saved : saved = f.pattern.leds  OBVIOUS
<1>3. PICK n : n = EnsurePatternLength(Len(saved), stripLeds)  OBVIOUS
<1>4. PICK rest : rest = Resized(pattern, n).leds  OBVIOUS
<1>5. PICK leds : leds = [i \in 1 .. n |-> IF i <= Len(saved) THEN saved[i] ELSE rest[i]]
  OBVIOUS
<1>6. /\ pattern' = [leds |-> leds, keypoints |-> f.pattern.keypoints]
      /\ faded' = f.faded /\ entry' = [entry EXCEPT !.leds = n]
  BY <1>1, <1>2, <1>3, <1>4, <1>5, Zenon
<1>7. stripLeds' = stripLeds /\ file' = file  BY DEF LoadPattern
<1>8. Patterned(f.pattern) /\ Fits(f.pattern, f.faded)  BY <1>1 DEF DesignerInv
<1>9. saved \in Seq(Int) /\ Len(saved) \in Nat /\ stripLeds \in Nat
  BY <1>2, <1>8 DEF DesignerInv, Patterned
<1>10. n \in Nat /\ stripLeds < n /\ Len(saved) <= n
  BY <1>3, <1>9 DEF EnsurePatternLength, Higher
<1>11. rest \in Seq(Int) /\ Len(rest) = n
  BY <1>4, <1>10, ResizedFits DEF DesignerInv, Patterned
<1>12. leds \in Seq(Int) /\ Len(leds) = n /\ \A i \in 1 .. Len(saved) : leds[i] = saved[i]
  <2>1. \A i \in 1 .. n : (IF i <= Len(saved) THEN saved[i] ELSE rest[i]) \in Int
    BY <1>9, <1>10, <1>11
  <2>. QED  BY <1>5, <1>9, <1>10, <2>1
<1>13. Patterned(pattern')
  BY <1>6, <1>12, <1>8 DEF Patterned
<1>14. Fits(pattern', faded')
  <2> SUFFICES ASSUME NEW k \in DOMAIN f.pattern.keypoints
               PROVE  /\ k < n
                      /\ k \notin f.faded => Clamped(leds[k + 1]) = Clamped(f.pattern.keypoints[k])
    BY <1>6, <1>12 DEF Fits
  <2>1. k \in Nat  BY <1>8 DEF Patterned
  <2>2. k < Len(saved) /\ (k \notin f.faded => Clamped(saved[k + 1]) = Clamped(f.pattern.keypoints[k]))
    BY <1>2, <1>8 DEF Fits
  <2>3. leds[k + 1] = saved[k + 1]  BY <1>9, <1>12, <2>1, <2>2
  <2>. QED  BY <1>9, <1>10, <2>1, <2>2, <2>3
<1>15. Entered(entry')
  BY <1>6, <1>10 DEF DesignerInv, Entered
<1>. QED  BY <1>6, <1>7, <1>10, <1>12, <1>13, <1>14, <1>15, <1>9 DEF DesignerInv

LEMMA SettingsKeep ==
    ASSUME DesignerInv, SettingsChange
    PROVE  DesignerInv'
<1>1. PICK f \in {[entry EXCEPT !.cm = v] : v \in StripCms}
                \cup {[entry EXCEPT !.leds = v] : v \in PatternLengths}
                \cup {[entry EXCEPT !.jump = v] : v \in Jumps} :
         IF live THEN Applied(f)
         ELSE entry' = f /\ UNCHANGED <<pattern, faded, settings, stripLeds, currentFrame>>
  BY DEF SettingsChange
<1>2. file' = file  BY DEF SettingsChange
<1>3. Entered(entry)  BY DEF DesignerInv
<1>4. Entered(f)
  <2>1. CASE \E v \in StripCms : f = [entry EXCEPT !.cm = v]
    BY <1>3, <2>1, DesignerAssumption DEF Entered
  <2>2. CASE \E v \in PatternLengths : f = [entry EXCEPT !.leds = v]
    BY <1>3, <2>2, DesignerAssumption DEF Entered
  <2>3. CASE \E v \in Jumps : f = [entry EXCEPT !.jump = v]
    BY <1>3, <2>3 DEF Entered
  <2>. QED  BY <1>1, <2>1, <2>2, <2>3
<1>5. CASE live
  BY <1>1, <1>2, <1>4, <1>5, AppliedKeeps
<1>6. CASE ~live
  <2>1. entry' = f /\ UNCHANGED <<pattern, faded, stripLeds>>  BY <1>1, <1>6
  <2>2. Entered(entry')  BY <1>4, <2>1
  <2>. QED  BY <1>2, <2>1, <2>2 DEF DesignerInv
<1>. QED  BY <1>5, <1>6

LEMMA DesignerStep ==
    ASSUME DesignerInv, [GNext]_designerVars
    PROVE  DesignerInv'
<1>1. CASE \E i \in 0 .. NumLeds - 1, c \in Colours : Paint(i, c)
  BY <1>1, PaintKeeps
<1>2. CASE Clear
  BY <1>2, ClearKeeps
<1>3. CASE Interpolate
  BY <1>3, InterpolateKeeps
<1>4. CASE \E c \in Colours : CreateGradient(c)
  BY <1>4, CreateGradientKeeps
<1>5. CASE ApplySettings
  <2>1. Applied(entry) /\ UNCHANGED file  BY <1>5 DEF ApplySettings
  <2>2. Entered(entry)  BY DEF DesignerInv
  <2>. QED  BY <2>1, <2>2, AppliedKeeps
<1>6. CASE SettingsChange
  BY <1>6, SettingsKeep
<1>7. CASE SavePattern
  <2>1. UNCHANGED <<pattern, faded, entry, stripLeds>>
        /\ file' = file \cup {[pattern |-> pattern, faded |-> faded]}
    BY <1>7 DEF SavePattern
  <2>2. ASSUME NEW f \in file'  PROVE Patterned(f.pattern) /\ Fits(f.pattern, f.faded)
    <3>1. CASE f \in file  BY <3>1 DEF DesignerInv
    <3>2. CASE f = [pattern |-> pattern, faded |-> faded]
      <4>1. f.pattern = pattern /\ f.faded = faded  BY <3>2
      <4>. QED  BY <4>1 DEF DesignerInv
    <3>. QED  BY <2>1, <3>1, <3>2
  <2>. QED  BY <2>1, <2>2 DEF DesignerInv
<1>8. CASE LoadPattern
  BY <1>8, LoadKeeps
<1>9. CASE \/ ToggleLive \/ ExportBinary \/ ToggleAnimation \/ ResetFrame
          \/ (\E t \in DOMAIN preview : Advance(t) \/ StoreFrame(t))
          \/ UNCHANGED designerVars
  <2>1. UNCHANGED <<pattern, faded, entry, stripLeds, file>>
    BY <1>9 DEF ToggleLive, ExportBinary, ToggleAnimation, ResetFrame, Advance, StoreFrame,
                designerVars
  <2>. QED  BY <2>1 DEF DesignerInv
<1>. QED  BY <1>1, <1>2, <1>3, <1>4, <1>5, <1>6, <1>7, <1>8, <1>9 DEF GNext

\* Paint is not lost, for every length of the pattern and the strip and any number
\* of edits: every keypoint of pattern_designer.py is an LED of the pattern and has
\* its colour until a gradient is drawn over it, whatever was resized, interpolated,
\* applied in part or loaded from a file, and the strip is shorter than the pattern.
THEOREM PaintIsKept == GSpec => []PaintSurvives
<1>1. GInit => DesignerInv  BY DesignerStarts
<1>2. DesignerInv /\ [GNext]_designerVars => DesignerInv'  BY DesignerStep
<1>3. DesignerInv => PaintSurvives
  <2> SUFFICES ASSUME DesignerInv  PROVE PaintSurvives
    OBVIOUS
  <2>1. NumLeds > stripLeds  BY PatternFacts DEF DesignerInv
  <2>2. \A k \in DOMAIN pattern.keypoints : k \in 0 .. NumLeds - 1
    BY PatternFacts DEF Keys
  <2>3. \A k \in DOMAIN pattern.keypoints : k \notin faded =>
           Clamped(pattern.leds[k + 1]) = Clamped(pattern.keypoints[k])
    BY DEF DesignerInv, Fits
  <2>. QED  BY <2>1, <2>2, <2>3 DEF PaintSurvives
<1>. QED  BY <1>1, <1>2, <1>3, PTL DEF GSpec
=============================================================================
