------------------------------ MODULE Mainloop ------------------------------
(***************************************************************************)
(* The cooperative scheduler of the firmware (app/include/Mainloop.h and   *)
(* app/src/Mainloop.cpp): three task vectors served in a fixed order by    *)
(* one endless loop, while two interrupts change them underneath: the      *)
(* millisecond timer (onMillisecond) and the device interrupts that call   *)
(* triggerSignal.                                                          *)
(*                                                                         *)
(* A vector is the set of pids in it.  Its order needs no variable:        *)
(* _nextTaskPID only grows, every registration is a push_back and erase    *)
(* keeps the order, so a vector is always sorted by pid.                   *)
(*                                                                         *)
(* A task's function is opaque: it starts, makes calls into the scheduler  *)
(* and returns TRUE or FALSE.  Interrupts happen between any two steps,    *)
(* and inside the calls that are not atomic (see "caught").                *)
(***************************************************************************)
EXTENDS Integers, FiniteSets

CONSTANTS
    MaxPid,      \* bound: pids are 0..MaxPid
    TickMod,     \* the range of uint32_t: 2^32 in the build
    Horizon,     \* bound: the timer stops at this tick (TickMod: never)
    Pauses,      \* durations handed to sleepTask
    Intervals,   \* intervals handed to registerTimedTask
    Delays,      \* initial delays handed to registerTimedTask
    Signals      \* signal numbers

ASSUME MainloopAssumption ==
    /\ MaxPid \in Nat /\ MaxPid >= 1
    /\ TickMod \in Nat /\ TickMod > 0
    /\ Horizon \in Nat /\ Horizon <= TickMod
    /\ Pauses \subseteq 0 .. TickMod - 1
    /\ Intervals \subseteq 0 .. TickMod - 1
    /\ Delays \subseteq 0 .. TickMod - 1

Pids    == 0 .. MaxPid
NoTask  == -1
Tick32  == 0 .. TickMod - 1
Worker  == 0    \* the USB UART's worker, registered by its constructor
Console == 1    \* the console, registered last before start()
Places  == {"unborn", "regular", "timed", "signal", "gone"}

VARIABLES
    phase,         \* which loop of start() is running; "halted" after a fault
    todo,          \* the pids the running loop has still to visit
    current,       \* the task whose function is running
    place,         \* the vector each pid is in
    capacity,      \* capacity of the _regularTasks vector
    relocated,     \* _regularTasks was reallocated under the running loop
    sleepUntil, execute, interval, nextExecution, filter,   \* fields
    tasksToKill, nextTaskPID, systick, currentTime,
    (* history, read by the properties only *)
    nap,           \* milliseconds of its pause a task has still to wait
    excused,       \* timed tasks whose next deadline the code may lose
    returnedFalse, \* tasks whose function has returned false
    killed         \* tasks whose kill has been carried out

loop    == <<phase, todo, current, relocated, currentTime>>
fields  == <<sleepUntil, execute, interval, nextExecution, filter>>
tables  == <<place, capacity, nextTaskPID, tasksToKill>>
history == <<nap, excused, returnedFalse, killed>>
vars    == <<loop, fields, tables, history, systick>>

(***************************************************************************)
(* Helpers.                                                                *)
(***************************************************************************)

\* uint32_t arithmetic, for results less than one range out of range
Wrap(x) == IF x >= TickMod THEN x - TickMod ELSE IF x < 0 THEN x + TickMod ELSE x

InVector(v) == {p \in Pids : place[p] = v}

\* slip: the next deadline is not computed
TickedNextNever(torn) == nextExecution

\* onMillisecond for every timed task but those in "torn", whose entry the
\* interrupt found half moved
Now    == Wrap(systick + 1)
Due(p) == place[p] = "timed" /\ nextExecution[p] = Now
TickedExecute(torn) ==
    [p \in Pids |-> execute[p] \/ (Due(p) /\ p \notin torn)]
TickedNext(torn) ==
    [p \in Pids |-> IF Due(p) /\ p \notin torn
                    THEN Wrap(nextExecution[p] + interval[p])
                    ELSE nextExecution[p]]
TickedNap == [p \in Pids |-> IF nap[p] > 0 THEN nap[p] - 1 ELSE 0]

-----------------------------------------------------------------------------
Init ==
    /\ phase = "timed" /\ todo = {} /\ current = NoTask
    /\ place = [p \in Pids |-> IF p \in {Worker, Console} THEN "regular" ELSE "unborn"]
    /\ capacity = 2 /\ relocated = FALSE
    /\ sleepUntil = [p \in Pids |-> 0]
    /\ execute = [p \in Pids |-> FALSE]
    /\ interval = [p \in Pids |-> 0]
    /\ nextExecution = [p \in Pids |-> 0]
    /\ filter = [p \in Pids |-> {}]
    /\ tasksToKill = {} /\ nextTaskPID = 2
    /\ systick = 0 /\ currentTime = 0
    /\ nap = [p \in Pids |-> 0]
    /\ excused = {} /\ returnedFalse = {} /\ killed = {}

(***************************************************************************)
(* Interrupts.                                                             *)
(***************************************************************************)

\* alarm_callback, once a millisecond
OnMillisecond ==
    /\ systick < Horizon
    /\ phase # "halted"
    /\ systick' = Now
    /\ execute' = TickedExecute({})
    /\ nextExecution' = TickedNext({})
    /\ nap' = TickedNap
    /\ UNCHANGED <<loop, tables, sleepUntil, interval, filter,
                   excused, returnedFalse, killed>>

\* called by device interrupts and by running tasks alike
TriggerSignal(s) ==
    LET woken == {p \in InVector("signal") : s \in filter[p]}
    IN  /\ phase # "halted"
        /\ execute' = [p \in Pids |-> execute[p] \/ p \in woken]
        /\ UNCHANGED <<loop, tables, sleepUntil, interval, nextExecution, filter,
                       nap, excused, returnedFalse, killed, systick>>

(***************************************************************************)
(* The loop of start().                                                    *)
(***************************************************************************)

\* the loop at "phase" reaches its next element
Reaches(p) == current = NoTask /\ p \in todo /\ \A q \in todo : p <= q

Start(p) ==
    /\ current' = p
    /\ todo' = todo \ {p}
    /\ UNCHANGED <<phase, relocated, currentTime, fields, tables, systick,
                   nap, excused, returnedFalse, killed>>

Skip(p) ==
    /\ todo' = todo \ {p}
    /\ UNCHANGED <<phase, current, relocated, currentTime, fields, tables,
                   systick, history>>

\* the timed and the signal loop: run what is flagged, pass over the rest
StartFlagged(p) ==
    /\ phase \in {"timed", "signal"} /\ Reaches(p) /\ execute[p]
    /\ Start(p)

SkipUnflagged(p) ==
    /\ phase \in {"timed", "signal"} /\ Reaches(p) /\ ~execute[p]
    /\ Skip(p)

\* the regular loop; "relocated" makes the reference it iterates with point
\* into the released buffer, where the moved-from function object is empty
StartRegular(p) ==
    /\ phase = "regular" /\ Reaches(p) /\ sleepUntil[p] <= currentTime /\ ~relocated
    /\ Start(p)

SkipSleeping(p) ==
    /\ phase = "regular" /\ Reaches(p) /\ sleepUntil[p] > currentTime
    /\ Skip(p)

CallReleased(p) ==
    /\ phase = "regular" /\ Reaches(p) /\ sleepUntil[p] <= currentTime /\ relocated
    /\ phase' = "halted"
    /\ UNCHANGED <<todo, current, relocated, currentTime, fields, tables,
                   systick, history>>

\* the worker and the console always return true
Returned(p, ret) ==
    /\ current = p
    /\ p \in {Worker, Console} => ret
    /\ current' = NoTask
    /\ returnedFalse' = IF ret THEN returnedFalse ELSE returnedFalse \cup {p}
    /\ UNCHANGED <<phase, todo, relocated, currentTime, tables, systick,
                   sleepUntil, nextExecution, filter, nap, excused, killed>>

\* false marks a timed task for removal; the flag is cleared either way
FinishTimed(p, ret) ==
    /\ phase = "timed"
    /\ Returned(p, ret)
    /\ interval' = [interval EXCEPT ![p] = IF ret THEN @ ELSE -1]
    /\ execute' = [execute EXCEPT ![p] = FALSE]

\* the flag becomes the return value
FinishSignal(p, ret) ==
    /\ phase = "signal"
    /\ Returned(p, ret)
    /\ execute' = [execute EXCEPT ![p] = ret]
    /\ UNCHANGED interval

\* the return value is not looked at
FinishRegular(p, ret) ==
    /\ phase = "regular"
    /\ Returned(p, ret)
    /\ UNCHANGED <<execute, interval>>

\* slip: the signal vector is never visited
NextLoopNoSignals ==
    /\ current = NoTask /\ todo = {} /\ phase # "clean" /\ phase # "halted"
    /\ phase' = IF phase = "timed" THEN "regular" ELSE "clean"
    /\ todo' = IF phase = "timed" THEN InVector("regular") ELSE {}
    /\ currentTime' = IF phase = "timed" THEN systick ELSE currentTime
    /\ relocated' = FALSE
    /\ UNCHANGED <<current, fields, tables, history, systick>>

\* one range-for ends and the next begins
NextLoop ==
    /\ current = NoTask /\ todo = {}
    /\ \/ /\ phase = "timed" /\ phase' = "signal"
          /\ todo' = InVector("signal")
          /\ UNCHANGED currentTime
       \/ /\ phase = "signal" /\ phase' = "regular"
          /\ todo' = InVector("regular")
          /\ currentTime' = systick
       \/ /\ phase = "regular" /\ phase' = "clean"
          /\ todo' = {}
          /\ UNCHANGED currentTime
    /\ relocated' = FALSE
    /\ UNCHANGED <<current, fields, tables, history, systick>>

\* slip: -1 is not taken for "completed"
CompletedBelowMinusOne == {p \in InVector("timed") : interval[p] < -1}

\* tasks removed by the first pass over the timed vector, and those removed
\* because somebody asked for it
Completed == {p \in InVector("timed") : interval[p] < 0}
Doomed    == {p \in tasksToKill : place[p] \in {"regular", "timed", "signal"}} \ Completed

\* The two removal passes, and the loop starts over.  When the timer fires
\* while erase shifts the entries down, an entry behind the erased one may keep
\* the new deadline and lose the flag.
CleanUp ==
    LET removed == Completed \cup Doomed
        shifted == {q \in InVector("timed") \ removed :
                        \E p \in removed : place[p] = "timed" /\ p < q}
    IN  /\ phase = "clean"
        /\ phase' = "timed"
        /\ place' = [p \in Pids |-> IF p \in removed THEN "gone" ELSE place[p]]
        /\ todo' = InVector("timed") \ removed
        /\ tasksToKill' = {}
        /\ killed' = killed \cup Doomed
        /\ \/ UNCHANGED <<execute, nextExecution, nap, systick>>
           \/ /\ systick < Horizon /\ systick' = Now
              /\ \E torn \in SUBSET {q \in shifted : Due(q)} :
                    execute' = TickedExecute(torn)
              /\ nextExecution' = TickedNext({})
              /\ nap' = TickedNap
        /\ UNCHANGED <<current, relocated, currentTime, sleepUntil, interval, filter,
                       capacity, nextTaskPID, excused, returnedFalse>>

(***************************************************************************)
(* Calls into the scheduler.  The console makes all of them, from commands *)
(* (sleep, task, kill, led, beep, signal, device, start); a beep task, the *)
(* only other caller, pauses or kills itself.                              *)
(***************************************************************************)
Calls(p) == phase = "regular" /\ current = p

RegisterRegularTask ==
    LET p    == nextTaskPID
        full == Cardinality(InVector("regular")) = capacity
    IN  /\ Calls(Console) /\ p <= MaxPid
        /\ nextTaskPID' = p + 1
        /\ place' = [place EXCEPT ![p] = "regular"]
        /\ capacity' = IF full THEN 2 * capacity ELSE capacity
        /\ relocated' = (relocated \/ full)
        /\ UNCHANGED <<phase, todo, current, currentTime, fields, tasksToKill,
                       history, systick>>

\* A timer interrupt may be caught inside the call: the new deadline is then
\* computed from the old tick, and if push_back is moving the vector the
\* entries in "torn" have left before the interrupt updates the old buffer.
Register(iv, delay) ==
    LET p     == nextTaskPID
        start == Wrap(systick + delay)
    IN  /\ Calls(Console) /\ p <= MaxPid
        /\ nextTaskPID' = p + 1
        /\ place' = [place EXCEPT ![p] = "timed"]
        /\ interval' = [interval EXCEPT ![p] = iv]
        /\ \E caught \in BOOLEAN : \E torn \in SUBSET {q \in Pids : caught /\ Due(q)} :
              /\ caught => systick < Horizon
              /\ systick' = IF caught THEN Now ELSE systick
              /\ execute' = [(IF caught THEN TickedExecute(torn) ELSE execute)
                                EXCEPT ![p] = (delay = 0)]
              /\ nextExecution' = [(IF caught THEN TickedNext(torn) ELSE nextExecution)
                                EXCEPT ![p] = IF delay = 0 THEN Wrap(start + iv) ELSE start]
              /\ nap' = [(IF caught THEN TickedNap ELSE nap)
                                EXCEPT ![p] = IF caught /\ delay > 0 THEN delay - 1 ELSE delay]
              /\ excused' = excused \cup torn \cup (IF caught \/ iv = 0 THEN {p} ELSE {})
        /\ UNCHANGED <<loop, capacity, tasksToKill, sleepUntil, filter,
                       returnedFalse, killed>>

RegisterTimedTask(iv, delay) == iv \in Intervals /\ Register(iv, delay)
RegisterDelayedTask(delay)   == Register(-1, delay)

RegisterSignalTask(S) ==
    LET p == nextTaskPID
    IN  /\ Calls(Console) /\ p <= MaxPid
        /\ nextTaskPID' = p + 1
        /\ place' = [place EXCEPT ![p] = "signal"]
        /\ filter' = [filter EXCEPT ![p] = S]
        /\ UNCHANGED <<loop, capacity, tasksToKill, sleepUntil, execute, interval,
                       nextExecution, history, systick>>

\* slips: counted from the tick the loop read; the comparison needs one tick
\* more; computed as a signed difference
SleepRegularFromLoopTick(p, ms) ==
    /\ place[p] = "regular"
    /\ sleepUntil' = [sleepUntil EXCEPT ![p] = Wrap(currentTime + ms)]
    /\ nap' = [nap EXCEPT ![p] = ms]
    /\ UNCHANGED <<execute, nextExecution, excused, systick>>
SleepRegularOneMore(p, ms) ==
    /\ place[p] = "regular"
    /\ sleepUntil' = [sleepUntil EXCEPT ![p] = Wrap(systick + ms + 1)]
    /\ nap' = [nap EXCEPT ![p] = ms]
    /\ UNCHANGED <<execute, nextExecution, excused, systick>>
SleepRegularSigned(p, ms) ==
    /\ place[p] = "regular"
    /\ sleepUntil' = [sleepUntil EXCEPT ![p] = systick - ms]
    /\ nap' = [nap EXCEPT ![p] = ms]
    /\ UNCHANGED <<execute, nextExecution, excused, systick>>

SleepRegular(p, ms) ==
    /\ place[p] = "regular"
    /\ sleepUntil' = [sleepUntil EXCEPT ![p] = Wrap(systick + ms)]
    /\ nap' = [nap EXCEPT ![p] = ms]
    /\ UNCHANGED <<execute, nextExecution, excused, systick>>

\* the timer may fire between the reading of the tick and the store
SleepTimed(p, ms) ==
    /\ place[p] = "timed"
    /\ \E caught \in BOOLEAN :
          /\ caught => systick < Horizon
          /\ systick' = IF caught THEN Now ELSE systick
          /\ execute' = [(IF caught THEN TickedExecute({}) ELSE execute) EXCEPT ![p] = FALSE]
          /\ nextExecution' = [(IF caught THEN TickedNext({}) ELSE nextExecution)
                                  EXCEPT ![p] = Wrap(systick + ms)]
          /\ nap' = [(IF caught THEN TickedNap ELSE nap)
                                  EXCEPT ![p] = IF caught /\ ms > 0 THEN ms - 1 ELSE ms]
          /\ excused' = IF caught \/ ms = 0 THEN excused \cup {p} ELSE excused
    /\ UNCHANGED sleepUntil

SleepTask(p, ms) ==
    /\ Calls(Console) \/ (p > Console /\ Calls(p))
    /\ SleepRegular(p, ms) \/ SleepTimed(p, ms)
    /\ UNCHANGED <<loop, tables, interval, filter, returnedFalse, killed>>

\* Only the scrolling displays call it, for their own timed task, which always
\* returns true.
ModifyTimedTaskInterval(p, iv) ==
    /\ Calls(Console) /\ place[p] = "timed" /\ interval[p] >= 0
    /\ interval' = [interval EXCEPT ![p] = iv]
    /\ LET sum  == nextExecution[p] + (iv - interval[p])
           next == Wrap(sum)
           late == next <= systick
       IN  /\ nextExecution' = [nextExecution EXCEPT ![p] =
                                   IF late THEN Wrap(systick + iv) ELSE next]
           /\ execute' = [execute EXCEPT ![p] = @ \/ late]
           /\ excused' = IF iv = 0 \/ sum < 0 THEN excused \cup {p} ELSE excused
    /\ nap' = [nap EXCEPT ![p] = 0]
    /\ UNCHANGED <<loop, tables, sleepUntil, filter, returnedFalse, killed, systick>>

KillTask(p) ==
    /\ Calls(Console) \/ (p > Console /\ Calls(p))
    /\ tasksToKill' = tasksToKill \cup {p}
    /\ UNCHANGED <<loop, place, capacity, nextTaskPID, fields, history, systick>>

-----------------------------------------------------------------------------
Interrupt == OnMillisecond \/ \E s \in Signals : TriggerSignal(s)

LoopStep ==
    \/ \E p \in Pids : StartFlagged(p) \/ SkipUnflagged(p)
    \/ \E p \in Pids : StartRegular(p) \/ SkipSleeping(p) \/ CallReleased(p)
    \/ NextLoop
    \/ CleanUp

Finish ==
    \E p \in Pids, ret \in BOOLEAN :
        FinishTimed(p, ret) \/ FinishSignal(p, ret) \/ FinishRegular(p, ret)

Call ==
    \/ RegisterRegularTask
    \/ \E iv \in Intervals, delay \in Delays : RegisterTimedTask(iv, delay)
    \/ \E delay \in Delays : RegisterDelayedTask(delay)
    \/ \E S \in SUBSET Signals : RegisterSignalTask(S)
    \/ \E p \in Pids, ms \in Pauses : SleepTask(p, ms)
    \/ \E p \in Pids, iv \in Intervals : ModifyTimedTaskInterval(p, iv)
    \/ \E p \in Pids : KillTask(p)

Next == Interrupt \/ LoopStep \/ Finish \/ Call

Spec == Init /\ [][Next]_vars

\* The loop never stops (nothing calls stop()) and every task function
\* returns; interrupts and calls are under no obligation.
FairSpec == Spec /\ WF_vars(LoopStep) /\ WF_vars(Finish)

-----------------------------------------------------------------------------
(***************************************************************************)
(* Properties.                                                             *)
(***************************************************************************)

TypeOK ==
    /\ phase \in {"timed", "signal", "regular", "clean", "halted"}
    /\ todo \subseteq Pids
    /\ current \in Pids \cup {NoTask}
    /\ place \in [Pids -> Places]
    /\ capacity \in Nat
    /\ relocated \in BOOLEAN
    /\ sleepUntil \in [Pids -> Tick32]
    /\ execute \in [Pids -> BOOLEAN]
    /\ interval \in [Pids -> Int]
    /\ nextExecution \in [Pids -> Int]
    /\ filter \in [Pids -> SUBSET Signals]
    /\ tasksToKill \subseteq Pids
    /\ nextTaskPID \in 2 .. MaxPid + 1
    /\ systick \in Tick32 /\ currentTime \in Tick32
    /\ nap \in [Pids -> Nat]
    /\ excused \subseteq Pids /\ returnedFalse \subseteq Pids
    /\ killed \subseteq Pids

\* A task is never started before the pause it was given is over: the regular
\* loop compares with a tick read before the loop, the timed loop trusts a flag
\* the interrupt sets, and interrupts fall anywhere in between.
PauseNotCutShort ==
    [][\A p \in Pids : current' = p /\ current # p => nap[p] = 0]_vars

\* A regular task is held back only while its pause lasts: once the requested
\* milliseconds have passed, "sleepUntil > tick" is false and stays false.
PauseEndsOnTime ==
    \A p \in Pids : place[p] = "regular" /\ sleepUntil[p] > systick => nap[p] > 0

\* A timed task always keeps a deadline the timer will hit: it lies ahead, by
\* no more than the interval of the task and one delay, pause or interval it
\* was given.  onMillisecond compares for equality, so a deadline once missed
\* is met again only when the 32-bit tick has gone all the way round.  Excused
\* are the tasks the code does lose: those given a zero pause or interval,
\* those whose speed change underflowed and those an interrupt caught half
\* written.
Gaps == Pauses \cup Intervals \cup Delays
Live(p) == place[p] = "timed" /\ interval[p] >= 0 /\ p \notin excused
TimedTaskNotStranded ==
    \A p \in Pids : Live(p) =>
        \E gap \in Gaps : (nextExecution[p] - systick) \in 1 .. interval[p] + gap

\* A task whose kill was carried out, or a timed task that returned false,
\* is never started again, whatever was paused, rescheduled, flagged by an
\* interrupt or killed in between.
RemovedTaskNeverRuns ==
    [][\A p \in Pids : current' = p /\ current # p =>
          p \notin killed /\ (place[p] = "timed" => p \notin returnedFalse)]_vars

\* Mainloop.h: a regular task is executed in every iteration; so the loop does
\* not run into a released buffer on its way to it.
EveryIterationCompletes == phase # "halted"

\* A flagged timed or signal task gets its run: the flag leads to a start,
\* unless the task is removed or paused first (a pause of 0 ms takes the flag
\* and the next deadline with it), or the loop faults.
FlaggedTaskRuns ==
    \A p \in Pids :
        execute[p] ~> \/ current = p \/ place[p] = "gone" \/ phase = "halted"
                      \/ nap[p] > 0 \/ p \in excused
=============================================================================
