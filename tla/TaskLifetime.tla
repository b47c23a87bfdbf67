---------------------------- MODULE TaskLifetime ----------------------------
(***************************************************************************)
(* The tasks of the beep and led commands (app/include/Commands/           *)
(* BeepCommand.h, LedCommand.h) between their two holders: the command's   *)
(* vector owns the task object, the main loop calls it through a raw       *)
(* pointer and drops the pointer at the end of an iteration.               *)
(*                                                                         *)
(* Of the main loop (module Mainloop) only the order is kept: timed tasks, *)
(* then the console, which was registered before every task of a command,  *)
(* then the other regular tasks, then the removals.  How long a pause or   *)
(* an interval is does not matter here: it ends at any time.  That a       *)
(* registration may move the vector the loop is in is Mainloop's subject.  *)
(***************************************************************************)
EXTENDS Naturals, FiniteSets, SequencesExt

CONSTANTS
    Buzzers, Strips,   \* PWM devices and WS2812 devices
    Melodies,          \* sequences of tones [sound, lasts]
    Patterns,          \* [size, jump] in pixels: the fields "dat" and "jmp" of a file
    Leds,              \* getLEDCount() of every strip
    MaxTasks,          \* bound: how many tasks the commands create
    SizeRange          \* size_t runs from 0 to SizeRange - 1

\* What the tools write: a pattern is at least one strip long, and no jump is longer
\* than a strip
ASSUME LifetimeAssumption ==
    /\ \A m \in Melodies : m \in Seq([sound : {"tone", "rest", "refused"}, lasts : BOOLEAN])
    /\ \A m \in Melodies : m # <<>>
    /\ Leds \in Nat \ {0} /\ MaxTasks \in Nat /\ SizeRange \in Nat
    /\ \A p \in Patterns : /\ p.size \in Leds .. SizeRange - 1
                           /\ p.jump \in 0 .. Leds
    /\ Buzzers \cap Strips = {}

Tasks == 1 .. MaxTasks
Silent == 0

VARIABLES
    objects,     \* every task created so far: device, data, position, loop flag, _is_playing
    active,      \* tasks the two _activeTasks, _signalTasks own; any other is freed
    regular,     \* tasks in the main loop's _regularTasks
    timed,       \* tasks in the main loop's _timedTasks
    asleep,      \* regular tasks that pause
    due,         \* timed tasks whose execute flag is set
    doomed,      \* tasks the end of the iteration removes
    at,          \* where the iteration is: timed, console, regular, cleanup, or crashed
    todo,        \* tasks the loop has still to visit
    sounding,    \* whose tone a buzzer plays, or Silent
    killed       \* history: tasks the kill command was given

vars == <<objects, active, regular, timed, asleep, due, doomed, at, todo, sounding, killed>>

Created == DOMAIN objects
Beeps == {t \in Created : objects[t].on \in Buzzers}
Lights == {t \in Created : objects[t].on \in Strips}

Init ==
    /\ objects = <<>> /\ active = {} /\ regular = {} /\ timed = {}
    /\ asleep = {} /\ due = {} /\ doomed = {}
    /\ at = "timed" /\ todo = {}
    /\ sounding = [b \in Buzzers |-> Silent]
    /\ killed = {}

-----------------------------------------------------------------------------
(***************************************************************************)
(* Finished, as each kind of task reckons it.                              *)
(***************************************************************************)
BeepFinished(o) == ~o.loop /\ o.pos >= Len(o.data)

\* _pattern_size - _current_offset, in size_t
Rest(o) == (o.data.size + SizeRange - o.pos) % SizeRange

\* slip: a stopped task goes on to the end of its pattern
LightFinishedUnlessStopped(o) == ~o.loop /\ Rest(o) <= Leds

LightFinished(o) == ~o.playing \/ (~o.loop /\ Rest(o) <= Leds)

Finished(t) == IF t \in Beeps THEN BeepFinished(objects[t]) ELSE LightFinished(objects[t])

-----------------------------------------------------------------------------
(***************************************************************************)
(* The loop.                                                               *)
(***************************************************************************)
loopVars == <<regular, timed, asleep, due, doomed, at, todo>>

\* a pause or an interval is over
Wake(t) ==
    /\ t \in asleep /\ at # "crashed"
    /\ asleep' = asleep \ {t}
    /\ UNCHANGED <<objects, active, regular, timed, due, doomed, at, todo, sounding, killed>>

BecomeDue(t) ==
    /\ t \in timed \ due /\ at # "crashed"
    /\ due' = due \cup {t}
    /\ UNCHANGED <<objects, active, regular, timed, asleep, doomed, at, todo, sounding, killed>>

NextPhase(phase, visit) ==
    /\ todo = {}
    /\ at' = phase /\ todo' = visit
    /\ UNCHANGED <<objects, active, regular, timed, asleep, due, doomed, sounding, killed>>

\* the range of the regular tasks is fixed before the console's turn
ToConsole == at = "timed" /\ NextPhase("console", regular)
ToCleanUp == at = "regular" /\ NextPhase("cleanup", {})

CleanUp ==
    /\ at = "cleanup"
    /\ regular' = regular \ doomed /\ timed' = timed \ doomed
    /\ asleep' = asleep \ doomed /\ due' = due \ doomed
    /\ doomed' = {}
    /\ at' = "timed" /\ todo' = timed \ doomed
    /\ UNCHANGED <<objects, active, sounding, killed>>

\* the loop visits a task that does not run
Skip(t) ==
    /\ t \in todo
    /\ (at = "timed" /\ t \notin due) \/ (at = "regular" /\ t \in asleep)
    /\ todo' = todo \ {t}
    /\ UNCHANGED <<objects, active, regular, timed, asleep, due, doomed, at, sounding, killed>>

\* what a call of a freed task does is undefined: nothing is claimed from here on
CallFreed(t) ==
    /\ t \in todo /\ t \notin active
    /\ (at = "timed" /\ t \in due) \/ (at = "regular" /\ t \notin asleep)
    /\ at' = "crashed"
    /\ UNCHANGED <<objects, active, regular, timed, asleep, due, doomed, todo, sounding, killed>>

-----------------------------------------------------------------------------
(***************************************************************************)
(* ExecuteTask of a beep task: the next tone, or the end.                  *)
(***************************************************************************)
CallsBeep(t) == at = "regular" /\ t \in todo /\ t \notin asleep /\ t \in active

NextTone(o) == IF o.loop /\ o.pos + 1 >= Len(o.data) THEN 0 ELSE o.pos + 1

PlayTone(t) ==
    /\ CallsBeep(t) /\ ~BeepFinished(objects[t])
    /\ LET o == objects[t]
           tone == o.data[o.pos + 1]
       IN  /\ objects' = [objects EXCEPT ![t].pos = NextTone(o)]
           /\ sounding' = CASE tone.sound = "tone"    -> [sounding EXCEPT ![o.on] = t]
                            [] tone.sound = "rest"    -> [sounding EXCEPT ![o.on] = Silent]
                            [] tone.sound = "refused" -> sounding
           /\ asleep' = IF tone.lasts THEN asleep \cup {t} ELSE asleep
    /\ todo' = todo \ {t}
    /\ UNCHANGED <<active, regular, timed, due, doomed, at, killed>>

\* slip: without setLevel(0)
EndMelodySounding(t) ==
    /\ CallsBeep(t) /\ BeepFinished(objects[t])
    /\ doomed' = doomed \cup {t}
    /\ todo' = todo \ {t}
    /\ UNCHANGED <<objects, active, regular, timed, asleep, due, at, sounding, killed>>

\* slip: without killTask; the loop does not look at a regular task's return value
EndMelodyByReturn(t) ==
    /\ CallsBeep(t) /\ BeepFinished(objects[t])
    /\ sounding' = [sounding EXCEPT ![objects[t].on] = Silent]
    /\ todo' = todo \ {t}
    /\ UNCHANGED <<objects, active, regular, timed, asleep, due, doomed, at, killed>>

EndMelody(t) ==
    /\ CallsBeep(t) /\ BeepFinished(objects[t])
    /\ sounding' = [sounding EXCEPT ![objects[t].on] = Silent]
    /\ doomed' = doomed \cup {t}
    /\ todo' = todo \ {t}
    /\ UNCHANGED <<objects, active, regular, timed, asleep, due, at, killed>>

(***************************************************************************)
(* ExecuteTask of a led task: show a frame and move on; false ends it.     *)
(***************************************************************************)
CallsLight(t) == at = "timed" /\ t \in todo /\ t \in due /\ t \in active

\* slip: one frame late
MovedTooFar(o) ==
    LET moved == [o EXCEPT !.pos = @ + o.data.jump] IN
    IF Rest(moved) = 0 /\ o.loop THEN [moved EXCEPT !.pos = 0] ELSE moved

Moved(o) ==
    LET moved == [o EXCEPT !.pos = @ + o.data.jump] IN
    IF Rest(moved) < Leds /\ o.loop THEN [moved EXCEPT !.pos = 0] ELSE moved

ShowFrame(t) ==
    /\ CallsLight(t)
    /\ objects' = [objects EXCEPT ![t] = Moved(@)]
    /\ doomed' = IF LightFinished(objects'[t]) THEN doomed \cup {t} ELSE doomed
    /\ due' = due \ {t} /\ todo' = todo \ {t}
    /\ UNCHANGED <<active, regular, timed, asleep, at, sounding, killed>>

\* the DMA channel is still busy with the last frame
FailFrame(t) ==
    /\ CallsLight(t)
    /\ objects' = [objects EXCEPT ![t].playing = FALSE]
    /\ doomed' = doomed \cup {t}
    /\ due' = due \ {t} /\ todo' = todo \ {t}
    /\ UNCHANGED <<active, regular, timed, asleep, at, sounding, killed>>

-----------------------------------------------------------------------------
(***************************************************************************)
(* The commands.  The console executes any number of them in its turn.     *)
(* Each first frees what is finished.                                      *)
(***************************************************************************)
FreeBeeps == active \ {t \in active \cap Beeps : Finished(t)}
FreeLights == active \ {t \in active \cap Lights : Finished(t)}

NewTask(device, data, loop) ==
    /\ at = "console" /\ Len(objects) < MaxTasks
    /\ objects' = Append(objects, [on |-> device, data |-> data, pos |-> 0,
                                   loop |-> loop, playing |-> TRUE])

\* beep with tones, play or loop
Beep(b, melody, loop) ==
    /\ NewTask(b, melody, loop)
    /\ active' = FreeBeeps \cup {Len(objects')}
    /\ regular' = regular \cup {Len(objects')}
    /\ UNCHANGED <<timed, asleep, due, doomed, at, todo, sounding, killed>>

BeepStop(b) ==
    /\ at = "console"
    /\ active' = FreeBeeps
    /\ objects' = [t \in Created |-> IF t \in active' /\ objects[t].on = b
                                     THEN [objects[t] EXCEPT !.loop = FALSE] ELSE objects[t]]
    /\ UNCHANGED <<loopVars, sounding, killed>>

\* led play or loop: due at once, as it is registered without an initial delay
Light(s, pattern, loop) ==
    /\ NewTask(s, pattern, loop)
    /\ active' = FreeLights \cup {Len(objects')}
    /\ timed' = timed \cup {Len(objects')}
    /\ due' = due \cup {Len(objects')}
    /\ UNCHANGED <<regular, asleep, doomed, at, todo, sounding, killed>>

LightStop(s) ==
    /\ at = "console"
    /\ active' = FreeLights
    /\ objects' = [t \in Created |-> IF t \in active' /\ objects[t].on = s
                                     THEN [objects[t] EXCEPT !.playing = FALSE] ELSE objects[t]]
    /\ UNCHANGED <<loopVars, sounding, killed>>

\* a beep or led command that is refused, or led show
Other ==
    /\ at = "console"
    /\ active' \in {FreeBeeps, FreeLights}
    /\ UNCHANGED <<objects, loopVars, sounding, killed>>

Kill(t) ==
    /\ at = "console" /\ t \in regular \cup timed
    /\ doomed' = doomed \cup {t} /\ killed' = killed \cup {t}
    /\ UNCHANGED <<objects, active, regular, timed, asleep, due, at, todo, sounding>>

Command ==
    \/ \E b \in Buzzers : BeepStop(b) \/ \E m \in Melodies, loop \in BOOLEAN : Beep(b, m, loop)
    \/ \E s \in Strips : LightStop(s) \/ \E p \in Patterns, loop \in BOOLEAN : Light(s, p, loop)
    \/ Other
    \/ \E t \in Created : Kill(t)

\* the console's task returns
ToRegular ==
    /\ at = "console"
    /\ at' = "regular"
    /\ UNCHANGED <<objects, active, regular, timed, asleep, due, doomed, todo, sounding, killed>>

-----------------------------------------------------------------------------
Loop ==
    \/ ToConsole \/ ToRegular \/ ToCleanUp \/ CleanUp
    \/ \E t \in Created : \/ Skip(t) \/ CallFreed(t)
                          \/ PlayTone(t) \/ EndMelody(t)
                          \/ ShowFrame(t) \/ FailFrame(t)

Next ==
    \/ Loop \/ Command
    \/ \E t \in Created : Wake(t) \/ BecomeDue(t)

\* The loop runs, pauses and intervals end; nobody has to give a command.
Fairness ==
    /\ WF_vars(Loop)
    /\ \A t \in Tasks : WF_vars(t \in Created /\ Wake(t)) /\ WF_vars(t \in Created /\ BecomeDue(t))

Spec == Init /\ [][Next]_vars /\ Fairness

-----------------------------------------------------------------------------
(***************************************************************************)
(* Properties.                                                             *)
(***************************************************************************)
\* A buzzer sounds only for a task the main loop still has, so that the tone will
\* end: a melody ends silent even if others play on the same buzzer.  The kill
\* command leaves the tone on (BeepCommandTask::ExecuteTask, KillCommand).
SoundHasPlayer ==
    \A b \in Buzzers : sounding[b] # Silent => sounding[b] \in regular \cup killed

\* The next frame of a led task lies inside its pattern, although the rest is
\* reckoned without sign and a stop or a failing frame may end the task anywhere
\* (LedCommandTask::ExecuteTask); and the next tone of a melody inside the melody,
\* unless it is the last one's end (BeepCommandTask::ExecuteTask).
NextFrameInPattern ==
    /\ \A t \in timed \ doomed : objects[t].pos + Leds <= objects[t].data.size
    /\ \A t \in Beeps : objects[t].pos < Len(objects[t].data) \/ BeepFinished(objects[t])

\* A led task that was stopped shows at most one more frame: the call that shows it
\* is the last one (LedCommandTask::stop, isFinished).
StoppedShowsOneFrame ==
    [][\A t \in Lights : objects'[t].pos # objects[t].pos /\ ~objects[t].playing
                            => t \in doomed']_vars

\* A melody that does not loop, or loops no more, and a led task that was stopped
\* leave the main loop (beep stop, led stop).
StoppedTasksLeave ==
    \A t \in Tasks :
       (t \in Created /\ (t \in Beeps => ~objects[t].loop) /\ (t \in Lights => ~objects[t].playing))
          ~> t \notin regular \cup timed \/ at = "crashed"

\* "Remove the task from the mainloop when finished" (BeepCommand.h, line 60): the
\* main loop holds no task that has been freed.
FinishedTasksRemoved == at # "crashed" => regular \cup timed \subseteq active
=============================================================================
