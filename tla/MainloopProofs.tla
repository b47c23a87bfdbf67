--------------------------- MODULE MainloopProofs ---------------------------
(***************************************************************************)
(* Proofs about the scheduler: type correctness, that a removed task never *)
(* runs again, and, as long as the tick has not gone round, that pauses    *)
(* are kept and that every timed task has a deadline ahead of it.          *)
(***************************************************************************)
EXTENDS Mainloop, TLAPS

(***************************************************************************)
(* Type correctness.                                                       *)
(***************************************************************************)

LEMMA WrapRange ==
    ASSUME NEW x \in Int, -TickMod <= x, x < 2 * TickMod
    PROVE  Wrap(x) \in Tick32
BY MainloopAssumption DEF Wrap, Tick32

LEMMA WrapInt == ASSUME NEW x \in Int PROVE Wrap(x) \in Int
BY MainloopAssumption DEF Wrap

\* What the timer interrupt computes has the type of what it updates.
LEMMA TickedType ==
    ASSUME TypeOK, NEW torn
    PROVE  /\ Now \in Tick32
           /\ TickedExecute(torn) \in [Pids -> BOOLEAN]
           /\ TickedNext(torn) \in [Pids -> Int]
           /\ TickedNap \in [Pids -> Nat]
<1>1. Now \in Tick32
  BY WrapRange, MainloopAssumption DEF TypeOK, Now, Tick32
<1>2. TickedExecute(torn) \in [Pids -> BOOLEAN]
  <2>1. \A p \in Pids : (execute[p] \/ (Due(p) /\ p \notin torn)) \in BOOLEAN
    OBVIOUS
  <2>. QED  BY <2>1, Zenon DEF TickedExecute
<1>3. TickedNext(torn) \in [Pids -> Int]
  <2>1. \A p \in Pids : Wrap(nextExecution[p] + interval[p]) \in Int
    BY WrapInt DEF TypeOK
  <2>. QED  BY <2>1 DEF TickedNext, TypeOK
<1>4. TickedNap \in [Pids -> Nat]
  BY DEF TickedNap, TypeOK
<1>. QED  BY <1>1, <1>2, <1>3, <1>4

\* The initial state is well typed.
LEMMA TypeInit == Init => TypeOK
<1>. SUFFICES ASSUME Init PROVE TypeOK
  OBVIOUS
<1>1. place \in [Pids -> Places]
  BY DEF Init, Places
<1>2. 0 \in Tick32 /\ 2 \in 2 .. MaxPid + 1
  BY MainloopAssumption DEF Tick32
<1>3. execute \in [Pids -> BOOLEAN]
  BY DEF Init
<1>4. /\ sleepUntil \in [Pids -> Tick32]
      /\ interval \in [Pids -> Int] /\ nextExecution \in [Pids -> Int]
      /\ nap \in [Pids -> Nat] /\ filter \in [Pids -> SUBSET Signals]
  BY <1>2 DEF Init
<1>. QED  BY <1>1, <1>2, <1>3, <1>4 DEF Init, TypeOK

LEMMA TypeInterrupt == TypeOK /\ Interrupt => TypeOK'
<1>. SUFFICES ASSUME TypeOK, Interrupt PROVE TypeOK'
  OBVIOUS
<1>1. CASE OnMillisecond
  BY <1>1, TickedType DEF OnMillisecond, TypeOK, loop, tables
<1>2. ASSUME NEW s \in Signals, TriggerSignal(s) PROVE TypeOK'
  <2>1. execute' \in [Pids -> BOOLEAN]
    BY <1>2, Zenon DEF TriggerSignal, TypeOK
  <2>. QED  BY <1>2, <2>1 DEF TriggerSignal, TypeOK, loop, tables
<1>. QED  BY <1>1, <1>2 DEF Interrupt

LEMMA TypeLoopStep == TypeOK /\ LoopStep => TypeOK'
<1>. SUFFICES ASSUME TypeOK, LoopStep PROVE TypeOK'
  OBVIOUS
<1>. USE DEF TypeOK, fields, tables, history, loop
<1>1. ASSUME NEW p \in Pids, StartFlagged(p) \/ StartRegular(p) PROVE TypeOK'
  BY <1>1 DEF StartFlagged, StartRegular, Start
<1>2. ASSUME NEW p \in Pids, SkipUnflagged(p) \/ SkipSleeping(p) PROVE TypeOK'
  BY <1>2 DEF SkipUnflagged, SkipSleeping, Skip
<1>3. ASSUME NEW p \in Pids, CallReleased(p) PROVE TypeOK'
  BY <1>3 DEF CallReleased
<1>4. CASE NextLoop
  BY <1>4 DEF NextLoop, InVector
<1>5. CASE CleanUp
  <2>1. place' \in [Pids -> Places]
    BY <1>5 DEF CleanUp, Places
  <2>2. todo' \subseteq Pids /\ killed' \subseteq Pids
    BY <1>5 DEF CleanUp, InVector, Doomed
  <2>3. /\ execute' \in [Pids -> BOOLEAN]
        /\ nextExecution' \in [Pids -> Int]
        /\ nap' \in [Pids -> Nat]
        /\ systick' \in Tick32
    BY <1>5, TickedType DEF CleanUp
  <2>. QED  BY <1>5, <2>1, <2>2, <2>3 DEF CleanUp
<1>. QED  BY <1>1, <1>2, <1>3, <1>4, <1>5 DEF LoopStep

LEMMA TypeFinish == TypeOK /\ Finish => TypeOK'
<1>. SUFFICES ASSUME TypeOK, NEW p \in Pids, NEW ret \in BOOLEAN,
                     FinishTimed(p, ret) \/ FinishSignal(p, ret) \/ FinishRegular(p, ret)
              PROVE  TypeOK'
  BY DEF Finish
<1>1. /\ execute' \in [Pids -> BOOLEAN]
      /\ interval' \in [Pids -> Int]
  <2>1. CASE FinishTimed(p, ret)
    BY <2>1 DEF FinishTimed, TypeOK
  <2>2. CASE FinishSignal(p, ret)
    BY <2>2, Zenon DEF FinishSignal, TypeOK
  <2>3. CASE FinishRegular(p, ret)
    BY <2>3 DEF FinishRegular, TypeOK
  <2>. QED  BY <2>1, <2>2, <2>3
<1>2. Returned(p, ret)
  BY DEF FinishTimed, FinishSignal, FinishRegular
<1>. QED  BY <1>1, <1>2
            DEF FinishTimed, FinishSignal, FinishRegular, Returned, TypeOK, tables

\* There is a pid left for a registration that is allowed to happen.
LEMMA FreshPid ==
    ASSUME TypeOK, nextTaskPID <= MaxPid
    PROVE  nextTaskPID \in Pids /\ nextTaskPID + 1 \in 2 .. MaxPid + 1
BY MainloopAssumption DEF TypeOK, Pids

LEMMA TypeRegister ==
    ASSUME TypeOK, NEW iv \in Int, NEW delay \in Delays, Register(iv, delay)
    PROVE  TypeOK'
<1>1. nextTaskPID \in Pids /\ delay \in Nat /\ nextTaskPID' \in 2 .. MaxPid + 1
  BY FreshPid, MainloopAssumption DEF Register
<1>2. Wrap(systick + delay) \in Int /\ Wrap(Wrap(systick + delay) + iv) \in Int
  <2>1. systick + delay \in Int
    BY <1>1 DEF TypeOK, Tick32
  <2>. QED  BY <2>1, WrapInt
<1>3. PICK caught \in BOOLEAN, torn \in SUBSET Pids :
         /\ systick' = IF caught THEN Now ELSE systick
         /\ execute' = [(IF caught THEN TickedExecute(torn) ELSE execute)
                           EXCEPT ![nextTaskPID] = (delay = 0)]
         /\ nextExecution' = [(IF caught THEN TickedNext(torn) ELSE nextExecution)
                           EXCEPT ![nextTaskPID] =
                               IF delay = 0 THEN Wrap(Wrap(systick + delay) + iv)
                                            ELSE Wrap(systick + delay)]
         /\ nap' = [(IF caught THEN TickedNap ELSE nap)
                           EXCEPT ![nextTaskPID] =
                               IF caught /\ delay > 0 THEN delay - 1 ELSE delay]
         /\ excused' \subseteq Pids
  BY <1>1 DEF Register, TypeOK
<1>4. /\ systick' \in Tick32
      /\ execute' \in [Pids -> BOOLEAN]
      /\ nextExecution' \in [Pids -> Int]
      /\ nap' \in [Pids -> Nat]
  BY <1>1, <1>2, <1>3, TickedType DEF TypeOK
<1>. QED  BY <1>1, <1>3, <1>4 DEF Register, TypeOK, loop, Places

LEMMA TypeCall == TypeOK /\ Call => TypeOK'
<1>. SUFFICES ASSUME TypeOK, Call PROVE TypeOK'
  OBVIOUS
<1>1. CASE RegisterRegularTask
  BY <1>1, FreshPid DEF RegisterRegularTask, TypeOK, Places, fields, history
<1>2. ASSUME NEW iv \in Intervals, NEW delay \in Delays, RegisterTimedTask(iv, delay)
      PROVE  TypeOK'
  BY <1>2, TypeRegister, MainloopAssumption DEF RegisterTimedTask
<1>3. ASSUME NEW delay \in Delays, RegisterDelayedTask(delay) PROVE TypeOK'
  BY <1>3, TypeRegister DEF RegisterDelayedTask
<1>4. ASSUME NEW S \in SUBSET Signals, RegisterSignalTask(S) PROVE TypeOK'
  BY <1>4, FreshPid DEF RegisterSignalTask, TypeOK, Places, loop, history
<1>5. ASSUME NEW p \in Pids, NEW ms \in Pauses, SleepTask(p, ms) PROVE TypeOK'
  <2>1. ms \in Nat /\ Wrap(systick + ms) \in Tick32
    BY WrapRange, MainloopAssumption DEF TypeOK, Tick32
  <2>2. CASE SleepRegular(p, ms)
    BY <1>5, <2>1, <2>2
       DEF SleepTask, SleepRegular, TypeOK, loop, tables
  <2>3. CASE SleepTimed(p, ms)
    <3>1. /\ systick' \in Tick32
          /\ execute' \in [Pids -> BOOLEAN]
          /\ nextExecution' \in [Pids -> Int]
          /\ nap' \in [Pids -> Nat]
          /\ excused' \subseteq Pids
      BY <2>1, <2>3, TickedType DEF SleepTimed, TypeOK, Tick32
    <3>. QED  BY <1>5, <2>3, <3>1
                DEF SleepTask, SleepTimed, TypeOK, loop, tables
  <2>. QED  BY <1>5, <2>2, <2>3 DEF SleepTask
<1>6. ASSUME NEW p \in Pids, NEW iv \in Intervals, ModifyTimedTaskInterval(p, iv)
      PROVE  TypeOK'
  <2>1. iv \in Int /\ systick + iv \in Int
        /\ nextExecution[p] + (iv - interval[p]) \in Int
    BY MainloopAssumption DEF TypeOK, Tick32
  <2>2. /\ Wrap(systick + iv) \in Int
        /\ Wrap(nextExecution[p] + (iv - interval[p])) \in Int
    BY <2>1, WrapInt
  <2>3. /\ execute' \in [Pids -> BOOLEAN]
        /\ nextExecution' \in [Pids -> Int]
        /\ interval' \in [Pids -> Int]
        /\ nap' \in [Pids -> Nat]
        /\ excused' \subseteq Pids
    BY <1>6, <2>1, <2>2 DEF ModifyTimedTaskInterval, TypeOK
  <2>. QED  BY <1>6, <2>3 DEF ModifyTimedTaskInterval, TypeOK, loop, tables
<1>7. ASSUME NEW p \in Pids, KillTask(p) PROVE TypeOK'
  BY <1>7 DEF KillTask, TypeOK, loop, fields, history
<1>. QED  BY <1>1, <1>2, <1>3, <1>4, <1>5, <1>6, <1>7 DEF Call

\* Every variable of the scheduler keeps its type, whatever the interrupts,
\* the tasks and the commands do.
THEOREM TypeCorrect == Spec => []TypeOK
<1>1. TypeOK /\ UNCHANGED vars => TypeOK'
  BY DEF vars, loop, fields, tables, history, TypeOK
<1>2. TypeOK /\ [Next]_vars => TypeOK'
  BY <1>1, TypeInterrupt, TypeLoopStep, TypeFinish, TypeCall DEF Next
<1>. QED  BY <1>2, TypeInit, PTL DEF Spec
(***************************************************************************)
(* Pauses.  The invariant ties the tick each task waits for to the         *)
(* milliseconds it has still to wait.  It needs that the tick does not go  *)
(* round: a deadline computed past the end of the range lies behind the    *)
(* tick it is compared with.                                               *)
(***************************************************************************)
NoWrap ==
    /\ Horizon < TickMod
    /\ \A d \in Pauses \cup Delays : Horizon + d < TickMod

ClockInv   == systick <= Horizon /\ currentTime <= systick
LoopInv    == /\ phase \in {"timed", "signal", "regular"} =>
                     /\ \A p \in todo : place[p] = phase
                     /\ current # NoTask => place[current] = phase
              /\ phase = "clean" => current = NoTask
FreshInv   == \A p \in Pids : p >= nextTaskPID =>
                  place[p] = "unborn" /\ nap[p] = 0 /\ sleepUntil[p] = 0
RegularInv == \A p \in Pids : place[p] = "regular" =>
                  \/ nap[p] = 0 /\ sleepUntil[p] <= systick
                  \/ sleepUntil[p] = systick + nap[p]
TimedInv   == \A p \in Pids : place[p] = "timed" /\ nap[p] > 0 =>
                  ~execute[p] /\ nextExecution[p] = systick + nap[p]
SignalInv  == \A p \in Pids : place[p] = "signal" => nap[p] = 0

PauseInv == ClockInv /\ LoopInv /\ FreshInv /\ RegularInv /\ TimedInv /\ SignalInv

LEMMA PauseInit == Init => PauseInv
<1>. SUFFICES ASSUME Init PROVE PauseInv
  OBVIOUS
<1>1. ClockInv /\ LoopInv
  BY MainloopAssumption DEF Init, ClockInv, LoopInv
<1>2. \A p \in Pids : nap[p] = 0 /\ sleepUntil[p] = 0
  BY DEF Init
<1>3. FreshInv
  BY <1>2 DEF Init, FreshInv, Pids, Worker, Console
<1>4. RegularInv /\ TimedInv /\ SignalInv
  BY <1>2 DEF Init, RegularInv, TimedInv, SignalInv
<1>. QED  BY <1>1, <1>3, <1>4 DEF PauseInv

\* Before the tick goes round, the next tick is one more, and a tick at most
\* the longest pause away is what the addition says.
LEMMA NoWrapArithmetic ==
    ASSUME NoWrap, TypeOK, ClockInv
    PROVE  /\ systick < Horizon => Now = systick + 1
           /\ \A d \in Pauses \cup Delays : Wrap(systick + d) = systick + d
<1>1. systick \in Nat /\ Horizon \in Nat /\ TickMod \in Nat
  BY MainloopAssumption DEF TypeOK, Tick32
<1>2. systick < Horizon => Now = systick + 1
  BY <1>1 DEF NoWrap, Now, Wrap, ClockInv
<1>3. ASSUME NEW d \in Pauses \cup Delays PROVE Wrap(systick + d) = systick + d
  <2>1. d \in Nat
    BY MainloopAssumption
  <2>. QED  BY <1>1, <2>1 DEF NoWrap, Wrap, ClockInv
<1>. QED  BY <1>2, <1>3

\* A tick takes a millisecond off every pause, and flags no timed task whose
\* pause is not over.
LEMMA TickKeepsPauses ==
    ASSUME NoWrap, TypeOK, PauseInv, systick < Horizon, NEW torn, NEW p \in Pids
    PROVE  /\ Now = systick + 1
           /\ TickedNap[p] \in Nat
           /\ nap[p] > 0 => TickedNap[p] = nap[p] - 1
           /\ nap[p] = 0 => TickedNap[p] = 0
           /\ place[p] = "timed" /\ TickedNap[p] > 0 =>
                 /\ TickedExecute(torn)[p] = FALSE
                 /\ TickedNext(torn)[p] = systick + nap[p]
<1>1. Now = systick + 1
  BY NoWrapArithmetic DEF PauseInv
<1>2. /\ TickedNap[p] \in Nat
      /\ nap[p] > 0 => TickedNap[p] = nap[p] - 1
      /\ nap[p] = 0 => TickedNap[p] = 0
  BY DEF TickedNap, TypeOK
<1>3. ASSUME place[p] = "timed", TickedNap[p] > 0
      PROVE  TickedExecute(torn)[p] = FALSE /\ TickedNext(torn)[p] = systick + nap[p]
  <2>1. nap[p] \in Nat /\ systick \in Nat /\ nap[p] > 1
    BY <1>2, <1>3, MainloopAssumption DEF TypeOK, Tick32
  <2>2. ~execute[p] /\ nextExecution[p] = systick + nap[p]
    BY <1>3, <2>1 DEF PauseInv, TimedInv
  <2>3. ~Due(p)
    BY <1>1, <2>1, <2>2 DEF Due
  <2>. QED  BY <2>2, <2>3 DEF TickedExecute, TickedNext
<1>. QED  BY <1>1, <1>2, <1>3

LEMMA PauseInterrupt == NoWrap /\ TypeOK /\ PauseInv /\ Interrupt => PauseInv'
<1>. SUFFICES ASSUME NoWrap, TypeOK, PauseInv, Interrupt PROVE PauseInv'
  OBVIOUS
<1>. USE DEF loop, tables
<1>1. CASE OnMillisecond
  <2>0. systick < Horizon /\ UNCHANGED <<loop, tables, sleepUntil>>
    BY <1>1 DEF OnMillisecond
  <2>1. systick \in Nat /\ currentTime \in Nat /\ Horizon \in Nat /\ systick' = systick + 1
    BY <1>1, <2>0, NoWrapArithmetic, MainloopAssumption
       DEF OnMillisecond, TypeOK, Tick32, PauseInv
  <2>2. ASSUME NEW p \in Pids
        PROVE  /\ nap[p] \in Nat /\ nap'[p] \in Nat /\ sleepUntil[p] \in Nat
               /\ nap[p] > 0 => nap'[p] = nap[p] - 1
               /\ nap[p] = 0 => nap'[p] = 0
               /\ place[p] = "timed" /\ nap'[p] > 0 =>
                     ~execute'[p] /\ nextExecution'[p] = systick + nap[p]
    <3>1. nap' = TickedNap /\ execute' = TickedExecute({}) /\ nextExecution' = TickedNext({})
      BY <1>1 DEF OnMillisecond
    <3>2. nap[p] \in Nat /\ sleepUntil[p] \in Nat
      BY MainloopAssumption DEF TypeOK, Tick32
    <3>. QED  BY <2>0, <3>1, <3>2, TickKeepsPauses
  <2>3. ClockInv'
    BY <2>0, <2>1 DEF PauseInv, ClockInv
  <2>4. LoopInv'
    BY <2>0 DEF PauseInv, LoopInv
  <2>5. FreshInv'
    BY <2>0, <2>2 DEF PauseInv, FreshInv
  <2>6. RegularInv'
    BY <2>0, <2>1, <2>2 DEF PauseInv, RegularInv
  <2>7. TimedInv'
    BY <2>0, <2>1, <2>2 DEF PauseInv, TimedInv
  <2>8. SignalInv'
    BY <2>0, <2>2 DEF PauseInv, SignalInv
  <2>. QED  BY <2>3, <2>4, <2>5, <2>6, <2>7, <2>8 DEF PauseInv
<1>2. ASSUME NEW s \in Signals, TriggerSignal(s) PROVE PauseInv'
  <2>0. UNCHANGED <<loop, tables, sleepUntil, nextExecution, nap, systick>>
    BY <1>2 DEF TriggerSignal
  <2>1. ASSUME NEW p \in Pids, place[p] = "timed", ~execute[p] PROVE ~execute'[p]
    BY <1>2, <2>1 DEF TriggerSignal, InVector
  <2>2. TimedInv'
    BY <2>0, <2>1 DEF PauseInv, TimedInv
  <2>. QED  BY <2>0, <2>2
              DEF PauseInv, ClockInv, LoopInv, FreshInv, RegularInv, SignalInv
<1>. QED  BY <1>1, <1>2 DEF Interrupt
LEMMA PauseLoopStep == NoWrap /\ TypeOK /\ PauseInv /\ LoopStep => PauseInv'
<1>. SUFFICES ASSUME NoWrap, TypeOK, PauseInv, LoopStep PROVE PauseInv'
  OBVIOUS
<1>. USE DEF loop, tables, fields, history
<1>1. ASSUME NEW p \in Pids, StartFlagged(p) \/ StartRegular(p) PROVE PauseInv'
  <2>1. LoopInv'
    BY <1>1 DEF StartFlagged, StartRegular, Start, Reaches, PauseInv, LoopInv
  <2>. QED  BY <1>1, <2>1 DEF StartFlagged, StartRegular, Start,
              PauseInv, ClockInv, FreshInv, RegularInv, TimedInv, SignalInv
<1>2. ASSUME NEW p \in Pids, SkipUnflagged(p) \/ SkipSleeping(p) PROVE PauseInv'
  BY <1>2 DEF SkipUnflagged, SkipSleeping, Skip,
              PauseInv, ClockInv, LoopInv, FreshInv, RegularInv, TimedInv, SignalInv
<1>3. ASSUME NEW p \in Pids, CallReleased(p) PROVE PauseInv'
  BY <1>3 DEF CallReleased,
              PauseInv, ClockInv, LoopInv, FreshInv, RegularInv, TimedInv, SignalInv
<1>4. CASE NextLoop
  <2>1. UNCHANGED <<place, nextTaskPID, nap, sleepUntil, execute, nextExecution, systick>>
    BY <1>4 DEF NextLoop
  <2>2. ClockInv'
    BY <1>4, <2>1, MainloopAssumption
       DEF NextLoop, PauseInv, ClockInv, TypeOK, Tick32
  <2>3. LoopInv'
    BY <1>4, <2>1 DEF NextLoop, InVector, LoopInv
  <2>. QED  BY <2>1, <2>2, <2>3
              DEF PauseInv, FreshInv, RegularInv, TimedInv, SignalInv
<1>5. CASE CleanUp
  <2>1. UNCHANGED <<nextTaskPID, sleepUntil, currentTime>> /\ phase' = "timed"
    BY <1>5 DEF CleanUp
  <2>2. ASSUME NEW p \in Pids
        PROVE  /\ place'[p] = place[p] \/ place'[p] = "gone"
               /\ place[p] = "unborn" => place'[p] = "unborn"
    BY <1>5 DEF CleanUp, Completed, Doomed, InVector
  <2>3. LoopInv'
    <3>1. current' = NoTask /\ \A p \in todo' : place'[p] = "timed"
      BY <1>5 DEF CleanUp, InVector, PauseInv, LoopInv
    <3>. QED  BY <2>1, <3>1 DEF LoopInv
  <2>4. CASE UNCHANGED <<execute, nextExecution, nap, systick>>
    BY <2>1, <2>2, <2>3, <2>4
       DEF PauseInv, ClockInv, FreshInv, RegularInv, TimedInv, SignalInv
  <2>5. ASSUME systick < Horizon, systick' = Now, nap' = TickedNap,
               nextExecution' = TickedNext({}),
               NEW torn, execute' = TickedExecute(torn)
        PROVE  PauseInv'
    <3>1. systick \in Nat /\ currentTime \in Nat /\ Horizon \in Nat /\ systick' = systick + 1
      BY <2>5, NoWrapArithmetic, MainloopAssumption DEF TypeOK, Tick32, PauseInv
    <3>2. ASSUME NEW p \in Pids
          PROVE  /\ nap[p] \in Nat /\ nap'[p] \in Nat /\ sleepUntil[p] \in Nat
                 /\ nap[p] > 0 => nap'[p] = nap[p] - 1
                 /\ nap[p] = 0 => nap'[p] = 0
                 /\ place[p] = "timed" /\ nap'[p] > 0 =>
                       ~execute'[p] /\ nextExecution'[p] = systick + nap[p]
      <4>1. nap[p] \in Nat /\ sleepUntil[p] \in Nat
        BY MainloopAssumption DEF TypeOK, Tick32
      <4>. QED  BY <2>5, <4>1, TickKeepsPauses
    <3>3. ClockInv'
      BY <2>1, <2>5, <3>1 DEF PauseInv, ClockInv
    <3>4. FreshInv'
      BY <2>1, <2>2, <3>2 DEF PauseInv, FreshInv
    <3>5. RegularInv'
      BY <2>1, <2>2, <3>1, <3>2 DEF PauseInv, RegularInv
    <3>6. TimedInv'
      BY <2>2, <3>1, <3>2 DEF PauseInv, TimedInv
    <3>7. SignalInv'
      BY <2>2, <3>2 DEF PauseInv, SignalInv
    <3>. QED  BY <2>3, <3>3, <3>4, <3>5, <3>6, <3>7 DEF PauseInv
  <2>. QED  BY <1>5, <2>4, <2>5 DEF CleanUp
<1>. QED  BY <1>1, <1>2, <1>3, <1>4, <1>5 DEF LoopStep

LEMMA PauseFinish == NoWrap /\ TypeOK /\ PauseInv /\ Finish => PauseInv'
<1>. SUFFICES ASSUME NoWrap, TypeOK, PauseInv, NEW p \in Pids, NEW ret \in BOOLEAN,
                     FinishTimed(p, ret) \/ FinishSignal(p, ret) \/ FinishRegular(p, ret)
              PROVE  PauseInv'
  BY DEF Finish
<1>1. /\ phase' = phase /\ todo' = todo
      /\ UNCHANGED <<place, nextTaskPID, nap, sleepUntil, nextExecution, systick, currentTime>>
  BY DEF FinishTimed, FinishSignal, FinishRegular, Returned, tables
<1>2. ASSUME NEW q \in Pids, place[q] = "timed", nap[q] > 0 PROVE ~execute'[q]
  <2>1. ~execute[q]
    BY <1>2 DEF PauseInv, TimedInv
  <2>2. CASE FinishTimed(p, ret)
    BY <2>1, <2>2 DEF FinishTimed, TypeOK
  <2>3. CASE FinishRegular(p, ret)
    BY <2>1, <2>3 DEF FinishRegular
  <2>4. CASE FinishSignal(p, ret)
    <3>1. p # q
      BY <1>2, <2>4 DEF FinishSignal, Returned, PauseInv, LoopInv, Pids, NoTask
    <3>. QED  BY <2>1, <2>4, <3>1 DEF FinishSignal, TypeOK
  <2>. QED  BY <2>2, <2>3, <2>4
<1>3. TimedInv'
  BY <1>1, <1>2 DEF PauseInv, TimedInv
<1>4. LoopInv'
  <2>1. current' = NoTask
    BY DEF FinishTimed, FinishSignal, FinishRegular, Returned
  <2>. QED  BY <1>1, <2>1 DEF PauseInv, LoopInv
<1>. QED  BY <1>1, <1>3, <1>4 DEF PauseInv, ClockInv, FreshInv, RegularInv, SignalInv
LEMMA PauseRegister ==
    ASSUME NoWrap, TypeOK, PauseInv, NEW iv \in Int, NEW delay \in Delays,
           Register(iv, delay)
    PROVE  PauseInv'
<1> DEFINE f == nextTaskPID
<1>1. /\ f \in Pids /\ f \in Nat /\ place[f] = "unborn" /\ f # current
      /\ delay \in Nat /\ systick \in Nat /\ currentTime \in Nat /\ Horizon \in Nat
      /\ phase = "regular" /\ place[current] = "regular"
  <2>1. f \in Pids /\ f \in Nat
    BY FreshPid DEF Register, Pids
  <2>2. phase = "regular" /\ current = 1 /\ place[current] = "regular"
    BY DEF Register, Calls, Console, PauseInv, LoopInv, NoTask
  <2>3. place[f] = "unborn"
    BY <2>1 DEF PauseInv, FreshInv
  <2>. QED  BY <2>1, <2>2, <2>3, MainloopAssumption DEF TypeOK, Tick32
<1>2. PICK caught \in BOOLEAN, torn \in SUBSET Pids :
         /\ caught => systick < Horizon
         /\ systick' = IF caught THEN Now ELSE systick
         /\ execute' = [(IF caught THEN TickedExecute(torn) ELSE execute)
                           EXCEPT ![f] = (delay = 0)]
         /\ nextExecution' = [(IF caught THEN TickedNext(torn) ELSE nextExecution)
                           EXCEPT ![f] = IF delay = 0 THEN Wrap(Wrap(systick + delay) + iv)
                                                      ELSE Wrap(systick + delay)]
         /\ nap' = [(IF caught THEN TickedNap ELSE nap)
                           EXCEPT ![f] = IF caught /\ delay > 0 THEN delay - 1 ELSE delay]
  BY DEF Register
<1>3. systick' = IF caught THEN systick + 1 ELSE systick
  BY <1>2, NoWrapArithmetic DEF PauseInv
<1>4. /\ place' = [place EXCEPT ![f] = "timed"] /\ nextTaskPID' = f + 1
      /\ UNCHANGED <<phase, todo, current, currentTime, sleepUntil>>
  BY DEF Register, loop
<1>5. ASSUME NEW q \in Pids, q # f
      PROVE  /\ nap[q] \in Nat /\ nap'[q] \in Nat /\ sleepUntil[q] \in Nat
             /\ place'[q] = place[q]
             /\ nap[q] = 0 => nap'[q] = 0
             /\ nap[q] > 0 => nap'[q] + systick' = nap[q] + systick
             /\ place[q] = "timed" /\ nap'[q] > 0 =>
                   ~execute'[q] /\ nextExecution'[q] = systick + nap[q]
  <2>1. nap[q] \in Nat /\ sleepUntil[q] \in Nat /\ place'[q] = place[q]
    BY <1>4, <1>5, MainloopAssumption DEF TypeOK, Tick32
  <2>2. CASE caught
    <3>1. /\ nap'[q] = TickedNap[q] /\ execute'[q] = TickedExecute(torn)[q]
          /\ nextExecution'[q] = TickedNext(torn)[q]
      BY <1>2, <1>5, <2>2, TickedType
    <3>2. systick < Horizon
      BY <1>2, <2>2
    <3>3. /\ TickedNap[q] \in Nat
          /\ nap[q] > 0 => TickedNap[q] = nap[q] - 1
          /\ nap[q] = 0 => TickedNap[q] = 0
          /\ place[q] = "timed" /\ TickedNap[q] > 0 =>
                 /\ TickedExecute(torn)[q] = FALSE
                 /\ TickedNext(torn)[q] = systick + nap[q]
      BY <3>2, TickKeepsPauses
    <3>. QED  BY <1>1, <1>3, <2>1, <2>2, <3>1, <3>3
  <2>3. CASE ~caught
    <3>1. nap'[q] = nap[q] /\ execute'[q] = execute[q] /\ nextExecution'[q] = nextExecution[q]
      BY <1>2, <1>5, <2>3 DEF TypeOK
    <3>. QED  BY <1>1, <1>3, <2>1, <2>3, <3>1 DEF PauseInv, TimedInv
  <2>. QED  BY <2>2, <2>3
<1>6. /\ place'[f] = "timed"
      /\ nap'[f] > 0 => ~execute'[f] /\ nextExecution'[f] = systick' + nap'[f]
  <2>1. /\ place'[f] = "timed"
        /\ delay > 0 => ~execute'[f]
        /\ delay > 0 => nextExecution'[f] = Wrap(systick + delay)
        /\ nap'[f] = IF caught /\ delay > 0 THEN delay - 1 ELSE delay
    <3>1. place'[f] = "timed"
      BY <1>1, <1>4 DEF TypeOK
    <3>2. /\ nap'[f] = IF caught /\ delay > 0 THEN delay - 1 ELSE delay
          /\ delay > 0 => nextExecution'[f] = Wrap(systick + delay)
      BY <1>1, <1>2, TickedType DEF TypeOK
    <3>3. ASSUME delay > 0 PROVE ~execute'[f]
      <4>1. (delay = 0) = FALSE
        BY <1>1, <3>3
      <4>2. /\ caught => execute' = [TickedExecute(torn) EXCEPT ![f] = FALSE]
            /\ ~caught => execute' = [execute EXCEPT ![f] = FALSE]
        BY <1>2, <4>1, Zenon
      <4>. QED  BY <1>1, <4>2, TickedType DEF TypeOK
    <3>. QED  BY <3>1, <3>2, <3>3
  <2>2. Wrap(systick + delay) = systick + delay
    BY NoWrapArithmetic DEF PauseInv
  <2>. QED  BY <1>1, <1>3, <2>1, <2>2
<1>7. ClockInv'
  BY <1>1, <1>2, <1>3, <1>4 DEF PauseInv, ClockInv
<1>8. LoopInv'
  <2>1. \A p \in todo : p \in Pids /\ place[p] = "regular"
    BY <1>1 DEF PauseInv, LoopInv, TypeOK
  <2>2. current \in Pids
    BY DEF Register, Calls, Console, Pids, TypeOK, NoTask
  <2>. QED  BY <1>1, <1>4, <1>5, <2>1, <2>2 DEF LoopInv
<1>9. FreshInv'
  BY <1>1, <1>4, <1>5 DEF PauseInv, FreshInv, Pids
<1>10. RegularInv'
  BY <1>1, <1>3, <1>4, <1>5, <1>6 DEF PauseInv, RegularInv
<1>11. TimedInv' /\ SignalInv'
  BY <1>1, <1>3, <1>4, <1>5, <1>6 DEF PauseInv, TimedInv, SignalInv
<1>. QED  BY <1>7, <1>8, <1>9, <1>10, <1>11 DEF PauseInv
LEMMA PauseSleep ==
    ASSUME NoWrap, TypeOK, PauseInv, NEW p \in Pids, NEW ms \in Pauses, SleepTask(p, ms)
    PROVE  PauseInv'
<1>1. /\ ms \in Nat /\ systick \in Nat /\ currentTime \in Nat /\ Horizon \in Nat
      /\ UNCHANGED <<phase, todo, current, place, nextTaskPID, currentTime>>
  BY MainloopAssumption DEF SleepTask, loop, tables, TypeOK, Tick32
<1>2. Wrap(systick + ms) = systick + ms
  BY NoWrapArithmetic DEF PauseInv
<1>3. LoopInv'
  BY <1>1 DEF PauseInv, LoopInv
<1>4. CASE SleepRegular(p, ms)
  <2>1. /\ systick' = systick /\ place[p] = "regular"
        /\ UNCHANGED <<execute, nextExecution>>
        /\ sleepUntil'[p] = systick + ms /\ nap'[p] = ms
        /\ \A q \in Pids \ {p} : sleepUntil'[q] = sleepUntil[q] /\ nap'[q] = nap[q]
    BY <1>2, <1>4 DEF SleepRegular, TypeOK
  <2>2. ClockInv' /\ FreshInv' /\ RegularInv'
    BY <1>1, <2>1 DEF PauseInv, ClockInv, FreshInv, RegularInv
  <2>3. TimedInv' /\ SignalInv'
    BY <1>1, <2>1 DEF PauseInv, TimedInv, SignalInv
  <2>. QED  BY <1>3, <2>2, <2>3 DEF PauseInv
<1>5. CASE SleepTimed(p, ms)
  <2>1. PICK caught \in BOOLEAN :
           /\ caught => systick < Horizon
           /\ systick' = IF caught THEN Now ELSE systick
           /\ execute' = [(IF caught THEN TickedExecute({}) ELSE execute) EXCEPT ![p] = FALSE]
           /\ nextExecution' = [(IF caught THEN TickedNext({}) ELSE nextExecution)
                                   EXCEPT ![p] = Wrap(systick + ms)]
           /\ nap' = [(IF caught THEN TickedNap ELSE nap)
                                   EXCEPT ![p] = IF caught /\ ms > 0 THEN ms - 1 ELSE ms]
    BY <1>5 DEF SleepTimed
  <2>2. place[p] = "timed" /\ sleepUntil' = sleepUntil
    BY <1>5 DEF SleepTimed
  <2>3. systick' = IF caught THEN systick + 1 ELSE systick
    BY <2>1, NoWrapArithmetic DEF PauseInv
  <2>4. /\ ~execute'[p] /\ nextExecution'[p] = systick + ms
        /\ nap'[p] = IF caught /\ ms > 0 THEN ms - 1 ELSE ms
    BY <1>2, <2>1, TickedType DEF TypeOK
  <2>5. ASSUME NEW q \in Pids, q # p
        PROVE  /\ nap[q] \in Nat /\ nap'[q] \in Nat /\ sleepUntil[q] \in Nat
               /\ nap[q] = 0 => nap'[q] = 0
               /\ nap[q] > 0 => nap'[q] + systick' = nap[q] + systick
               /\ place[q] = "timed" /\ nap'[q] > 0 =>
                     ~execute'[q] /\ nextExecution'[q] = systick + nap[q]
    <3>1. nap[q] \in Nat /\ sleepUntil[q] \in Nat
      BY MainloopAssumption DEF TypeOK, Tick32
    <3>2. CASE caught
      <4>1. /\ nap'[q] = TickedNap[q] /\ execute'[q] = TickedExecute({})[q]
            /\ nextExecution'[q] = TickedNext({})[q]
        BY <2>1, <2>5, <3>2, TickedType
      <4>2. /\ TickedNap[q] \in Nat
            /\ nap[q] > 0 => TickedNap[q] = nap[q] - 1
            /\ nap[q] = 0 => TickedNap[q] = 0
            /\ place[q] = "timed" /\ TickedNap[q] > 0 =>
                   /\ TickedExecute({})[q] = FALSE
                   /\ TickedNext({})[q] = systick + nap[q]
        BY <2>1, <3>2, TickKeepsPauses
      <4>. QED  BY <1>1, <2>3, <3>1, <3>2, <4>1, <4>2
    <3>3. CASE ~caught
      <4>1. nap'[q] = nap[q] /\ execute'[q] = execute[q] /\ nextExecution'[q] = nextExecution[q]
        BY <2>1, <2>5, <3>3 DEF TypeOK
      <4>. QED  BY <1>1, <2>3, <3>1, <3>3, <4>1 DEF PauseInv, TimedInv
    <3>. QED  BY <3>2, <3>3
  <2>6. ClockInv'
    BY <1>1, <2>1, <2>3 DEF PauseInv, ClockInv
  <2>7. FreshInv' /\ SignalInv'
    BY <1>1, <2>2, <2>5 DEF PauseInv, FreshInv, SignalInv
  <2>8. RegularInv'
    BY <1>1, <2>2, <2>3, <2>5 DEF PauseInv, RegularInv
  <2>9. TimedInv'
    BY <1>1, <2>3, <2>4, <2>5 DEF PauseInv, TimedInv
  <2>. QED  BY <1>3, <2>6, <2>7, <2>8, <2>9 DEF PauseInv
<1>. QED  BY <1>4, <1>5 DEF SleepTask

LEMMA PauseCall == NoWrap /\ TypeOK /\ PauseInv /\ Call => PauseInv'
<1>. SUFFICES ASSUME NoWrap, TypeOK, PauseInv, Call PROVE PauseInv'
  OBVIOUS
<1> DEFINE f == nextTaskPID
\* a registration into a vector whose entries have no deadline
<1>1. ASSUME RegisterRegularTask \/ \E S \in SUBSET Signals : RegisterSignalTask(S)
      PROVE  PauseInv'
  <2>1. f \in Pids /\ f \in Nat /\ systick \in Nat
    BY <1>1, FreshPid, MainloopAssumption
       DEF RegisterRegularTask, RegisterSignalTask, Pids, TypeOK, Tick32
  <2>2. /\ phase' = phase /\ todo' = todo /\ current' = current /\ nextTaskPID' = f + 1
        /\ UNCHANGED <<nap, sleepUntil, execute, nextExecution, systick, currentTime>>
        /\ phase = "regular" /\ current = 1
    BY <1>1 DEF RegisterRegularTask, RegisterSignalTask, Calls, Console,
                loop, fields, history
  <2>3. place' = [place EXCEPT ![f] = "regular"] \/ place' = [place EXCEPT ![f] = "signal"]
    BY <1>1 DEF RegisterRegularTask, RegisterSignalTask
  <2>4. place[f] = "unborn" /\ nap[f] = 0 /\ sleepUntil[f] = 0
    BY <2>1 DEF PauseInv, FreshInv
  <2>5. ASSUME NEW q \in Pids
        PROVE  q # f => place'[q] = place[q]
    BY <2>3, <2>5 DEF TypeOK
  <2>6. place'[f] = "regular" \/ place'[f] = "signal"
    BY <2>1, <2>3 DEF TypeOK
  <2>7. current # f
    BY <2>2, <2>4 DEF PauseInv, LoopInv, NoTask
  <2>8. LoopInv'
    <3>1. \A p \in todo : p \in Pids /\ p # f
      BY <2>2, <2>4 DEF TypeOK, PauseInv, LoopInv
    <3>2. current \in Pids
      BY <2>2 DEF TypeOK, NoTask
    <3>. QED  BY <2>2, <2>5, <2>7, <3>1, <3>2 DEF PauseInv, LoopInv
  <2>9. FreshInv'
    BY <2>1, <2>2, <2>5 DEF PauseInv, FreshInv, Pids
  <2>10. ClockInv' /\ RegularInv'
    BY <2>1, <2>2, <2>4, <2>5 DEF PauseInv, ClockInv, RegularInv
  <2>11. TimedInv' /\ SignalInv'
    BY <2>2, <2>4, <2>5, <2>6 DEF PauseInv, TimedInv, SignalInv
  <2>. QED  BY <2>8, <2>9, <2>10, <2>11 DEF PauseInv
<1>2. ASSUME NEW iv \in Intervals, NEW delay \in Delays, RegisterTimedTask(iv, delay)
      PROVE  PauseInv'
  BY <1>2, PauseRegister, MainloopAssumption DEF RegisterTimedTask
<1>3. ASSUME NEW delay \in Delays, RegisterDelayedTask(delay) PROVE PauseInv'
  BY <1>3, PauseRegister DEF RegisterDelayedTask
<1>4. ASSUME NEW p \in Pids, NEW ms \in Pauses, SleepTask(p, ms) PROVE PauseInv'
  BY <1>4, PauseSleep
<1>5. ASSUME NEW p \in Pids, NEW iv \in Intervals, ModifyTimedTaskInterval(p, iv)
      PROVE  PauseInv'
  <2>1. /\ place[p] = "timed" /\ nap'[p] = 0
        /\ UNCHANGED <<phase, todo, current, place, nextTaskPID, sleepUntil, systick, currentTime>>
    BY <1>5 DEF ModifyTimedTaskInterval, loop, tables, TypeOK
  <2>2. ASSUME NEW q \in Pids, q # p
        PROVE  nap'[q] = nap[q] /\ execute'[q] = execute[q] /\ nextExecution'[q] = nextExecution[q]
    BY <1>5, <2>2 DEF ModifyTimedTaskInterval, TypeOK
  <2>3. ClockInv' /\ LoopInv' /\ FreshInv'
    BY <2>1, <2>2 DEF PauseInv, ClockInv, LoopInv, FreshInv
  <2>4. RegularInv' /\ TimedInv' /\ SignalInv'
    BY <2>1, <2>2 DEF PauseInv, RegularInv, TimedInv, SignalInv
  <2>. QED  BY <2>3, <2>4 DEF PauseInv
<1>6. ASSUME NEW p \in Pids, KillTask(p) PROVE PauseInv'
  BY <1>6 DEF KillTask, loop, fields, history,
              PauseInv, ClockInv, LoopInv, FreshInv, RegularInv, TimedInv, SignalInv
<1>. QED  BY <1>1, <1>2, <1>3, <1>4, <1>5, <1>6 DEF Call

\* The invariant holds throughout, as long as the tick does not go round.
LEMMA PauseInvariant == NoWrap => (Spec => [](TypeOK /\ PauseInv))
<1>. SUFFICES ASSUME NoWrap PROVE Spec => [](TypeOK /\ PauseInv)
  OBVIOUS
<1>1. TypeOK /\ PauseInv /\ UNCHANGED vars => PauseInv'
  BY DEF vars, loop, fields, tables, history,
         PauseInv, ClockInv, LoopInv, FreshInv, RegularInv, TimedInv, SignalInv
<1>2. TypeOK /\ PauseInv /\ [Next]_vars => PauseInv'
  BY <1>1, PauseInterrupt, PauseLoopStep, PauseFinish, PauseCall DEF Next
<1>. QED  BY <1>2, PauseInit, TypeCorrect, PTL DEF Spec

\* A pause ends on time: no regular task is held back once the milliseconds it
\* was paused for have passed.
THEOREM PausesEnd == NoWrap => (Spec => []PauseEndsOnTime)
<1>. SUFFICES ASSUME NoWrap PROVE Spec => []PauseEndsOnTime
  OBVIOUS
<1>1. TypeOK /\ PauseInv => PauseEndsOnTime
  <2>. SUFFICES ASSUME TypeOK, PauseInv, NEW p \in Pids,
                       place[p] = "regular", sleepUntil[p] > systick
                PROVE  nap[p] > 0
    BY DEF PauseEndsOnTime
  <2>1. systick \in Nat /\ sleepUntil[p] \in Nat /\ nap[p] \in Nat
    BY MainloopAssumption DEF TypeOK, Tick32
  <2>. QED  BY <2>1 DEF PauseInv, RegularInv
<1>. QED  BY <1>1, PauseInvariant, PTL

\* Only the two loop heads that find a task due start one.
LEMMA OnlyLoopsStart ==
    ASSUME Next, NEW p \in Pids, current' = p, current # p
    PROVE  StartFlagged(p) \/ StartRegular(p)
<1>0. p # NoTask
  BY DEF Pids, NoTask
<1>1. CASE Interrupt
  BY <1>1 DEF Interrupt, OnMillisecond, TriggerSignal, loop
<1>2. CASE Call
  BY <1>2 DEF Call, RegisterRegularTask, RegisterTimedTask, RegisterDelayedTask,
              Register, RegisterSignalTask, SleepTask, ModifyTimedTaskInterval,
              KillTask, loop
<1>3. CASE Finish
  BY <1>0, <1>3 DEF Finish, FinishTimed, FinishSignal, FinishRegular, Returned
<1>4. CASE LoopStep
  BY <1>0, <1>4 DEF LoopStep, StartFlagged, SkipUnflagged, StartRegular, SkipSleeping,
              CallReleased, NextLoop, CleanUp, Start, Skip
<1>. QED  BY <1>1, <1>2, <1>3, <1>4 DEF Next

\* A pause is not cut short: no task is started while it lasts, although the
\* loop decides with a tick or a flag that the interrupt may have changed since.
THEOREM PausesKept == NoWrap => (Spec => PauseNotCutShort)
<1>. SUFFICES ASSUME NoWrap PROVE Spec => PauseNotCutShort
  OBVIOUS
<1> DEFINE NoEarlyStart == \A p \in Pids : current' = p /\ current # p => nap[p] = 0
<1>1. TypeOK /\ PauseInv /\ [Next]_vars => [NoEarlyStart]_vars
  <2>. SUFFICES ASSUME TypeOK, PauseInv, Next, NEW p \in Pids, current' = p, current # p
                PROVE  nap[p] = 0
    OBVIOUS
  <2>2. StartFlagged(p) \/ StartRegular(p)
    BY OnlyLoopsStart
  <2>3. nap[p] \in Nat /\ sleepUntil[p] \in Nat /\ systick \in Nat /\ currentTime \in Nat
    BY MainloopAssumption DEF TypeOK, Tick32
  <2>4. CASE StartRegular(p)
    BY <2>3, <2>4 DEF StartRegular, Reaches, PauseInv, ClockInv, LoopInv, RegularInv
  <2>5. CASE StartFlagged(p)
    BY <2>3, <2>5 DEF StartFlagged, Reaches, PauseInv, LoopInv, TimedInv, SignalInv
  <2>. QED  BY <2>2, <2>4, <2>5
<1>. QED  BY <1>1, PauseInvariant, PTL DEF Spec, PauseNotCutShort

(***************************************************************************)
(* Removal.  A task out of its vector stays out, and the loops only visit  *)
(* what is in the vector they were started for; a timed task that returned *)
(* false keeps the negative interval that takes it out at the next         *)
(* clean-up.  None of this depends on the clock.                           *)
(***************************************************************************)
KilledInv   == \A p \in killed : place[p] = "gone"
UnbornInv   == \A p \in Pids : p >= nextTaskPID =>
                   place[p] = "unborn" /\ p \notin returnedFalse
FinishedInv == \A p \in returnedFalse : place[p] = "timed" =>
                   interval[p] < 0 /\ p \notin todo
RunningInv  == current \notin todo

RemovalInv == LoopInv /\ KilledInv /\ UnbornInv /\ FinishedInv /\ RunningInv

LEMMA RemovalInit == Init => RemovalInv
<1>. SUFFICES ASSUME Init PROVE RemovalInv
  OBVIOUS
<1>1. LoopInv /\ KilledInv /\ FinishedInv /\ RunningInv
  BY DEF Init, LoopInv, KilledInv, FinishedInv, RunningInv
<1>2. UnbornInv
  BY DEF Init, UnbornInv, Pids, Worker, Console
<1>. QED  BY <1>1, <1>2 DEF RemovalInv

\* A step that leaves the vectors, the loop and the outcomes alone keeps it.
LEMMA RemovalUntouched ==
    ASSUME RemovalInv,
           UNCHANGED <<phase, todo, current, place, nextTaskPID, interval,
                       returnedFalse, killed>>
    PROVE  RemovalInv'
BY DEF RemovalInv, LoopInv, KilledInv, UnbornInv, FinishedInv, RunningInv

LEMMA RemovalLoopStep == TypeOK /\ RemovalInv /\ LoopStep => RemovalInv'
<1>. SUFFICES ASSUME TypeOK, RemovalInv, LoopStep PROVE RemovalInv'
  OBVIOUS
<1>. USE DEF loop, tables, fields, history
<1>1. ASSUME NEW p \in Pids, StartFlagged(p) \/ StartRegular(p) PROVE RemovalInv'
  <2>1. LoopInv' /\ RunningInv'
    BY <1>1 DEF StartFlagged, StartRegular, Start, Reaches, RemovalInv, LoopInv, RunningInv
  <2>. QED  BY <1>1, <2>1 DEF StartFlagged, StartRegular, Start,
              RemovalInv, KilledInv, UnbornInv, FinishedInv
<1>2. ASSUME NEW p \in Pids, SkipUnflagged(p) \/ SkipSleeping(p) PROVE RemovalInv'
  BY <1>2 DEF SkipUnflagged, SkipSleeping, Skip,
              RemovalInv, LoopInv, KilledInv, UnbornInv, FinishedInv, RunningInv
<1>3. ASSUME NEW p \in Pids, CallReleased(p) PROVE RemovalInv'
  BY <1>3 DEF CallReleased,
              RemovalInv, LoopInv, KilledInv, UnbornInv, FinishedInv, RunningInv
<1>4. CASE NextLoop
  <2>1. UNCHANGED <<place, nextTaskPID, interval, returnedFalse, killed>>
    BY <1>4 DEF NextLoop
  <2>2. LoopInv'
    BY <1>4, <2>1 DEF NextLoop, InVector, LoopInv
  <2>3. current' = NoTask /\ todo' \subseteq Pids
        /\ \A q \in todo' : place[q] # "timed"
    BY <1>4 DEF NextLoop, InVector
  <2>4. RunningInv'
    BY <2>3 DEF RunningInv, Pids, NoTask
  <2>. QED  BY <2>1, <2>2, <2>3, <2>4 DEF RemovalInv, KilledInv, UnbornInv, FinishedInv
<1>5. CASE CleanUp
  <2>1. /\ UNCHANGED <<current, nextTaskPID, interval, returnedFalse>>
        /\ phase' = "timed" /\ current = NoTask
    BY <1>5 DEF CleanUp, RemovalInv, LoopInv
  <2>2. ASSUME NEW p \in Pids
        PROVE  /\ place'[p] = place[p] \/ place'[p] = "gone"
               /\ place[p] = "unborn" => place'[p] = "unborn"
               /\ p \in killed' => p \in killed \/ place'[p] = "gone"
               /\ p \in todo' => place'[p] = "timed" /\ interval[p] >= 0
    BY <1>5 DEF CleanUp, Completed, Doomed, InVector, TypeOK
  <2>3. todo' \subseteq Pids /\ killed' \subseteq Pids
    BY <1>5 DEF CleanUp, InVector, Doomed, TypeOK
  <2>4. LoopInv' /\ RunningInv'
    BY <2>1, <2>2, <2>3 DEF LoopInv, RunningInv, Pids, NoTask
  <2>5. KilledInv' /\ UnbornInv'
    BY <2>1, <2>2, <2>3 DEF RemovalInv, KilledInv, UnbornInv
  <2>6. FinishedInv'
    BY <2>1, <2>2, <2>3 DEF RemovalInv, FinishedInv, TypeOK
  <2>. QED  BY <2>4, <2>5, <2>6 DEF RemovalInv
<1>. QED  BY <1>1, <1>2, <1>3, <1>4, <1>5 DEF LoopStep

LEMMA RemovalFinish == TypeOK /\ RemovalInv /\ Finish => RemovalInv'
<1>. SUFFICES ASSUME TypeOK, RemovalInv, NEW p \in Pids, NEW ret \in BOOLEAN,
                     FinishTimed(p, ret) \/ FinishSignal(p, ret) \/ FinishRegular(p, ret)
              PROVE  RemovalInv'
  BY DEF Finish
<1>1. /\ phase' = phase /\ todo' = todo /\ current = p /\ current' = NoTask
      /\ UNCHANGED <<place, nextTaskPID, killed>>
      /\ returnedFalse' = IF ret THEN returnedFalse ELSE returnedFalse \cup {p}
      /\ place[p] = phase
  BY DEF FinishTimed, FinishSignal, FinishRegular, Returned, tables,
         RemovalInv, LoopInv, Pids, NoTask
<1>2. LoopInv' /\ KilledInv' /\ RunningInv'
  BY <1>1 DEF RemovalInv, LoopInv, KilledInv, RunningInv, TypeOK, Pids, NoTask
<1>3. UnbornInv'
  BY <1>1 DEF RemovalInv, UnbornInv, FinishTimed, FinishSignal, FinishRegular
<1>4. FinishedInv'
  <2>1. CASE FinishTimed(p, ret)
    BY <1>1, <2>1 DEF FinishTimed, RemovalInv, FinishedInv, RunningInv, TypeOK
  <2>2. CASE FinishSignal(p, ret) \/ FinishRegular(p, ret)
    BY <1>1, <2>2 DEF FinishSignal, FinishRegular, RemovalInv, FinishedInv
  <2>. QED  BY <2>1, <2>2
<1>. QED  BY <1>2, <1>3, <1>4 DEF RemovalInv

\* A registration takes a pid that no vector, loop or outcome knows.
LEMMA RemovalRegistered ==
    ASSUME TypeOK, RemovalInv, Calls(Console), nextTaskPID <= MaxPid,
           nextTaskPID' = nextTaskPID + 1, NEW v \in {"regular", "timed", "signal"},
           place' = [place EXCEPT ![nextTaskPID] = v],
           \A q \in Pids : q # nextTaskPID => interval'[q] = interval[q],
           UNCHANGED <<phase, todo, current, returnedFalse, killed>>
    PROVE  RemovalInv'
<1> DEFINE f == nextTaskPID
<1>1. f \in Pids /\ f \in Nat /\ place[f] = "unborn" /\ f \notin returnedFalse
  BY FreshPid DEF RemovalInv, UnbornInv, TypeOK, Pids
<1>2. /\ phase = "regular" /\ current \in Pids /\ place[current] = "regular"
      /\ todo \subseteq Pids /\ \A q \in todo : place[q] = "regular"
  BY DEF Calls, Console, RemovalInv, LoopInv, TypeOK, NoTask
<1>3. \A q \in Pids : q # f => place'[q] = place[q]
  BY <1>1 DEF TypeOK
<1>4. LoopInv' /\ RunningInv'
  BY <1>1, <1>2, <1>3 DEF RemovalInv, LoopInv, RunningInv
<1>5. KilledInv' /\ UnbornInv'
  BY <1>1, <1>3 DEF RemovalInv, KilledInv, UnbornInv, TypeOK, Pids
<1>6. FinishedInv'
  BY <1>1, <1>3 DEF RemovalInv, FinishedInv, TypeOK
<1>. QED  BY <1>4, <1>5, <1>6 DEF RemovalInv

LEMMA RemovalCall == TypeOK /\ RemovalInv /\ Call => RemovalInv'
<1>. SUFFICES ASSUME TypeOK, RemovalInv, Call PROVE RemovalInv'
  OBVIOUS
<1>1. CASE RegisterRegularTask
  BY <1>1, RemovalRegistered DEF RegisterRegularTask, fields, history
<1>2. ASSUME NEW iv \in Int, NEW delay \in Delays, Register(iv, delay)
      PROVE  RemovalInv'
  <2>1. \A q \in Pids : q # nextTaskPID => interval'[q] = interval[q]
    BY <1>2 DEF Register, TypeOK
  <2>. QED  BY <1>2, <2>1, RemovalRegistered DEF Register, loop
<1>3. ASSUME NEW iv \in Intervals, NEW delay \in Delays, RegisterTimedTask(iv, delay)
      PROVE  RemovalInv'
  BY <1>2, <1>3, MainloopAssumption DEF RegisterTimedTask
<1>4. ASSUME NEW delay \in Delays, RegisterDelayedTask(delay) PROVE RemovalInv'
  BY <1>2, <1>4 DEF RegisterDelayedTask
<1>5. ASSUME NEW S \in SUBSET Signals, RegisterSignalTask(S) PROVE RemovalInv'
  BY <1>5, RemovalRegistered DEF RegisterSignalTask, loop, history
<1>6. ASSUME NEW p \in Pids, NEW ms \in Pauses, SleepTask(p, ms) PROVE RemovalInv'
  BY <1>6, RemovalUntouched DEF SleepTask, loop, tables
<1>7. ASSUME NEW p \in Pids, NEW iv \in Intervals, ModifyTimedTaskInterval(p, iv)
      PROVE  RemovalInv'
  <2>1. /\ UNCHANGED <<phase, todo, current, place, nextTaskPID, returnedFalse, killed>>
        /\ place[p] = "timed" /\ interval[p] >= 0
        /\ \A q \in Pids : q # p => interval'[q] = interval[q]
    BY <1>7 DEF ModifyTimedTaskInterval, loop, tables, TypeOK
  <2>2. p \notin returnedFalse
    BY <2>1 DEF RemovalInv, FinishedInv, TypeOK
  <2>. QED  BY <2>1, <2>2 DEF RemovalInv, LoopInv, KilledInv, UnbornInv, FinishedInv,
                              RunningInv, TypeOK
<1>8. ASSUME NEW p \in Pids, KillTask(p) PROVE RemovalInv'
  BY <1>8, RemovalUntouched DEF KillTask, loop, fields, history
<1>. QED  BY <1>1, <1>3, <1>4, <1>5, <1>6, <1>7, <1>8 DEF Call

LEMMA RemovalInvariant == Spec => [](TypeOK /\ RemovalInv)
<1>1. TypeOK /\ RemovalInv /\ UNCHANGED vars => RemovalInv'
  BY RemovalUntouched DEF vars, loop, fields, tables, history
<1>2. TypeOK /\ RemovalInv /\ Interrupt => RemovalInv'
  BY RemovalUntouched DEF Interrupt, OnMillisecond, TriggerSignal, loop, tables
<1>3. TypeOK /\ RemovalInv /\ [Next]_vars => RemovalInv'
  BY <1>1, <1>2, RemovalLoopStep, RemovalFinish, RemovalCall DEF Next
<1>. QED  BY <1>3, RemovalInit, TypeCorrect, PTL DEF Spec

\* A task that was killed, or a timed task that returned false, is never
\* started again, whatever is paused, rescheduled or flagged in between.
THEOREM RemovedStayOut == Spec => RemovedTaskNeverRuns
<1> DEFINE NoLateStart ==
        \A p \in Pids : current' = p /\ current # p =>
            p \notin killed /\ (place[p] = "timed" => p \notin returnedFalse)
<1>1. RemovalInv /\ [Next]_vars => [NoLateStart]_vars
  <2>. SUFFICES ASSUME RemovalInv, Next, NEW p \in Pids, current' = p, current # p
                PROVE  p \notin killed /\ (place[p] = "timed" => p \notin returnedFalse)
    OBVIOUS
  <2>1. p \in todo /\ place[p] \in {"timed", "signal", "regular"}
    BY OnlyLoopsStart DEF StartFlagged, StartRegular, Reaches, RemovalInv, LoopInv
  <2>. QED  BY <2>1 DEF RemovalInv, KilledInv, FinishedInv
<1>. QED  BY <1>1, RemovalInvariant, PTL DEF Spec, RemovedTaskNeverRuns

(***************************************************************************)
(* Deadlines.  The timer meets a deadline only when the tick equals it, so *)
(* it must lie strictly ahead in every state, also in those between the    *)
(* two stores of a call the interrupt falls into.  A positive interval is  *)
(* what puts the next deadline ahead again when one is met.                *)
(***************************************************************************)
NoWrapTwice ==
    /\ Horizon < TickMod
    /\ \A g, h \in Gaps : Horizon + g + h < TickMod

TickInv     == systick <= Horizon
IntervalInv == \A p \in Pids : Live(p) => interval[p] \in Intervals \ {0}
DeadlineInv == TickInv /\ IntervalInv /\ TimedTaskNotStranded

\* The deadline p has, as the invariant describes it
AheadBy(p, next, tick) ==
    \E gap \in Gaps : (next - tick) \in 1 .. interval[p] + gap

LEMMA DeadlineInit == Init => DeadlineInv
<1>. SUFFICES ASSUME Init PROVE DeadlineInv
  OBVIOUS
<1>1. TickInv
  BY MainloopAssumption DEF Init, TickInv
<1>2. \A p \in Pids : ~Live(p)
  BY DEF Init, Live
<1>. QED  BY <1>1, <1>2 DEF DeadlineInv, IntervalInv, TimedTaskNotStranded

\* The sums a call makes stay in the range.
LEMMA NoWrapSums ==
    ASSUME NoWrapTwice, TypeOK, TickInv
    PROVE  /\ systick \in Nat /\ Horizon \in Nat /\ Gaps \subseteq Nat
           /\ systick < Horizon => Now = systick + 1
           /\ \A g \in Gaps : Wrap(systick + g) = systick + g
           /\ \A g, h \in Gaps : Wrap(systick + g + h) = systick + g + h
<1>1. systick \in Nat /\ Horizon \in Nat /\ TickMod \in Nat /\ Gaps \subseteq Nat
  BY MainloopAssumption DEF TypeOK, Tick32, Gaps
<1>2. systick < Horizon => Now = systick + 1
  BY <1>1 DEF NoWrapTwice, Now, Wrap, TickInv
<1>3. ASSUME NEW g \in Gaps PROVE Wrap(systick + g) = systick + g
  <2>1. g \in Nat /\ Horizon + g + g < TickMod
    BY <1>1 DEF NoWrapTwice
  <2>. QED  BY <1>1, <2>1 DEF Wrap, TickInv
<1>4. ASSUME NEW g \in Gaps, NEW h \in Gaps PROVE Wrap(systick + g + h) = systick + g + h
  <2>1. g \in Nat /\ h \in Nat /\ Horizon + g + h < TickMod
    BY <1>1 DEF NoWrapTwice
  <2>. QED  BY <1>1, <2>1 DEF Wrap, TickInv
<1>. QED  BY <1>1, <1>2, <1>3, <1>4

\* A deadline ahead of the tick stays ahead when the tick moves: either it is
\* not met yet, or the interval is added to it.
LEMMA TickKeepsDeadline ==
    ASSUME NoWrapTwice, TypeOK, DeadlineInv, systick < Horizon, NEW torn,
           NEW p \in Pids, Live(p), p \notin torn
    PROVE  Now = systick + 1 /\ AheadBy(p, TickedNext(torn)[p], Now)
<1>1. /\ systick \in Nat /\ Horizon \in Nat /\ Gaps \subseteq Nat /\ Now = systick + 1
      /\ interval[p] \in Gaps /\ interval[p] \in Nat /\ interval[p] > 0
      /\ nextExecution[p] \in Int
  BY NoWrapSums, MainloopAssumption DEF DeadlineInv, IntervalInv, Gaps, TypeOK
<1>2. PICK gap \in Gaps : (nextExecution[p] - systick) \in 1 .. interval[p] + gap
  BY DEF DeadlineInv, TimedTaskNotStranded
<1>3. CASE Due(p)
  <2>1. TickedNext(torn)[p] = Wrap(systick + 1 + interval[p])
    BY <1>1, <1>3 DEF TickedNext, Due
  <2>2. Wrap(systick + 1 + interval[p]) = systick + 1 + interval[p]
    <3>1. Horizon + interval[p] + interval[p] < TickMod /\ TickMod \in Nat
      BY <1>1, MainloopAssumption DEF NoWrapTwice
    <3>. QED  BY <1>1, <3>1 DEF Wrap
  <2>3. (TickedNext(torn)[p] - Now) \in 1 .. interval[p] + interval[p]
    <3>1. TickedNext(torn)[p] - Now = interval[p]
      BY <1>1, <2>1, <2>2
    <3>. QED  BY <1>1, <3>1
  <2>. QED  BY <1>1, <2>3 DEF AheadBy
<1>4. CASE ~Due(p)
  <2>1. TickedNext(torn)[p] = nextExecution[p] /\ nextExecution[p] # systick + 1
    BY <1>1, <1>4 DEF TickedNext, Due, Live
  <2>. QED  BY <1>1, <1>2, <2>1 DEF AheadBy
<1>. QED  BY <1>1, <1>3, <1>4

\* A step that leaves the tick, the vectors and the fields alone, or that
\* takes tasks out and excuses more of them, keeps the invariant.
LEMMA DeadlineUntouched ==
    ASSUME TypeOK, DeadlineInv, UNCHANGED <<systick, nextExecution>>,
           \A p \in Pids : Live(p)' => Live(p) /\ interval'[p] = interval[p]
    PROVE  DeadlineInv'
<1>. USE DEF DeadlineInv
<1>1. TickInv'
  BY DEF TickInv
<1>2. IntervalInv'
  BY DEF IntervalInv
<1>3. TimedTaskNotStranded'
  BY DEF TimedTaskNotStranded
<1>. QED  BY <1>1, <1>2, <1>3

\* A step that serves the timer interrupt keeps it for the tasks it ticks.
LEMMA DeadlineTicked ==
    ASSUME NoWrapTwice, TypeOK, DeadlineInv, systick < Horizon, systick' = Now,
           NEW torn, NEW p \in Pids, Live(p), p \notin torn,
           interval'[p] = interval[p], nextExecution'[p] = TickedNext(torn)[p]
    PROVE  \E gap \in Gaps : (nextExecution'[p] - systick') \in 1 .. interval'[p] + gap
BY TickKeepsDeadline DEF AheadBy

LEMMA DeadlineLoopStep == NoWrapTwice /\ TypeOK /\ DeadlineInv /\ LoopStep => DeadlineInv'
<1>. SUFFICES ASSUME NoWrapTwice, TypeOK, DeadlineInv, LoopStep PROVE DeadlineInv'
  OBVIOUS
<1>. USE DEF loop, tables, fields, history
<1>1. ASSUME NEW p \in Pids,
             \/ StartFlagged(p) \/ StartRegular(p) \/ CallReleased(p)
             \/ SkipUnflagged(p) \/ SkipSleeping(p)
      PROVE  DeadlineInv'
  BY <1>1, DeadlineUntouched
     DEF StartFlagged, StartRegular, Start, SkipUnflagged, SkipSleeping, Skip,
         CallReleased, Live
<1>2. CASE NextLoop
  BY <1>2, DeadlineUntouched DEF NextLoop, Live
<1>3. CASE CleanUp
  <2>1. UNCHANGED <<interval, excused>>
        /\ \A p \in Pids : place'[p] = place[p] \/ place'[p] = "gone"
    BY <1>3 DEF CleanUp
  <2>2. \A p \in Pids : Live(p)' => Live(p)
    BY <2>1 DEF Live
  <2>3. CASE UNCHANGED <<execute, nextExecution, nap, systick>>
    BY <2>1, <2>2, <2>3, DeadlineUntouched
  <2>4. CASE systick < Horizon /\ systick' = Now /\ nextExecution' = TickedNext({})
    <3>1. TickInv'
      BY <2>4, NoWrapSums DEF DeadlineInv, TickInv
    <3>2. IntervalInv'
      BY <2>1, <2>2 DEF DeadlineInv, IntervalInv
    <3>3. TimedTaskNotStranded'
      BY <2>1, <2>2, <2>4, DeadlineTicked DEF TimedTaskNotStranded
    <3>. QED  BY <3>1, <3>2, <3>3 DEF DeadlineInv
  <2>. QED  BY <1>3, <2>3, <2>4 DEF CleanUp
<1>. QED  BY <1>1, <1>2, <1>3 DEF LoopStep

LEMMA DeadlineFinish == TypeOK /\ DeadlineInv /\ Finish => DeadlineInv'
<1>. SUFFICES ASSUME TypeOK, DeadlineInv, NEW p \in Pids, NEW ret \in BOOLEAN,
                     FinishTimed(p, ret) \/ FinishSignal(p, ret) \/ FinishRegular(p, ret)
              PROVE  DeadlineInv'
  BY DEF Finish
<1>1. UNCHANGED <<place, excused, systick, nextExecution>>
  BY DEF FinishTimed, FinishSignal, FinishRegular, Returned, tables
<1>2. \A q \in Pids : interval'[q] = interval[q] \/ interval'[q] = -1
  BY DEF FinishTimed, FinishSignal, FinishRegular, TypeOK
<1>3. \A q \in Pids : Live(q)' => Live(q) /\ interval'[q] = interval[q]
  BY <1>1, <1>2 DEF Live
<1>. QED  BY <1>1, <1>3, DeadlineUntouched

LEMMA DeadlineRegister ==
    ASSUME NoWrapTwice, TypeOK, DeadlineInv, NEW iv \in Intervals \cup {-1},
           NEW delay \in Delays, Register(iv, delay)
    PROVE  DeadlineInv'
<1> DEFINE start == Wrap(systick + delay)
<1>0. PICK f \in Pids : f = nextTaskPID
  BY FreshPid DEF Register
<1>1. /\ iv \in Int /\ delay \in Nat /\ delay \in Gaps
  BY MainloopAssumption DEF Gaps
<1>2. PICK caught \in BOOLEAN, torn \in SUBSET Pids :
         /\ caught => systick < Horizon
         /\ systick' = IF caught THEN Now ELSE systick
         /\ nextExecution' = [(IF caught THEN TickedNext(torn) ELSE nextExecution)
                           EXCEPT ![f] = IF delay = 0 THEN Wrap(start + iv) ELSE start]
         /\ excused' = excused \cup torn \cup (IF caught \/ iv = 0 THEN {f} ELSE {})
  BY <1>0 DEF Register
<1>3. place' = [place EXCEPT ![f] = "timed"] /\ interval' = [interval EXCEPT ![f] = iv]
  BY <1>0 DEF Register
<1>4. systick' = IF caught THEN systick + 1 ELSE systick
  BY <1>2, NoWrapSums DEF DeadlineInv
<1>5. TickInv'
  BY <1>2, <1>4, NoWrapSums DEF DeadlineInv, TickInv
<1>6. ASSUME NEW q \in Pids, q # f, Live(q)'
      PROVE  /\ interval'[q] \in Intervals \ {0}
             /\ \E gap \in Gaps : (nextExecution'[q] - systick') \in 1 .. interval'[q] + gap
  <2>1. interval'[q] = interval[q] /\ Live(q) /\ q \notin torn
    BY <1>2, <1>3, <1>6 DEF Live, TypeOK
  <2>2. interval'[q] \in Intervals \ {0}
    BY <2>1 DEF DeadlineInv, IntervalInv
  <2>3. CASE caught
    <3>1. nextExecution'[q] = TickedNext(torn)[q]
      BY <1>2, <1>6, <2>3, TickedType
    <3>. QED  BY <1>2, <2>1, <2>2, <2>3, <3>1, DeadlineTicked
  <2>4. CASE ~caught
    <3>1. nextExecution'[q] = nextExecution[q] /\ systick' = systick
      BY <1>2, <1>6, <2>4 DEF TypeOK
    <3>. QED  BY <2>1, <2>2, <3>1 DEF DeadlineInv, TimedTaskNotStranded
  <2>. QED  BY <2>3, <2>4
<1>7. ASSUME Live(f)'
      PROVE  /\ interval'[f] \in Intervals \ {0}
             /\ \E gap \in Gaps : (nextExecution'[f] - systick') \in 1 .. interval'[f] + gap
  <2>1. interval'[f] = iv /\ ~caught /\ iv > 0 /\ iv \in Intervals /\ iv \in Gaps
    <3>1. interval'[f] = iv
      BY <1>1, <1>3 DEF TypeOK
    <3>2. iv >= 0 /\ ~caught /\ iv # 0
      BY <1>2, <1>7, <3>1 DEF Live
    <3>. QED  BY <1>1, <3>1, <3>2 DEF Gaps
  <2>2. /\ nextExecution'[f] = IF delay = 0 THEN Wrap(start + iv) ELSE start
        /\ systick' = systick
    BY <1>1, <1>2, <2>1 DEF TypeOK
  <2>3. systick \in Nat /\ start = systick + delay /\ Wrap(systick + iv) = systick + iv
    BY <1>1, <2>1, NoWrapSums DEF DeadlineInv
  <2>4. (nextExecution'[f] - systick') \in 1 .. iv + delay
    BY <1>1, <2>1, <2>2, <2>3
  <2>. QED  BY <1>1, <2>1, <2>4
<1>8. IntervalInv'
  BY <1>6, <1>7 DEF IntervalInv
<1>9. TimedTaskNotStranded'
  BY <1>6, <1>7 DEF TimedTaskNotStranded
<1>. QED  BY <1>5, <1>8, <1>9 DEF DeadlineInv

LEMMA DeadlineSleep ==
    ASSUME NoWrapTwice, TypeOK, DeadlineInv, NEW p \in Pids, NEW ms \in Pauses,
           SleepTask(p, ms)
    PROVE  DeadlineInv'
<1>1. ms \in Nat /\ ms \in Gaps /\ UNCHANGED <<place, interval>>
  BY MainloopAssumption DEF SleepTask, tables, Gaps
<1>2. CASE SleepRegular(p, ms)
  BY <1>1, <1>2, DeadlineUntouched DEF SleepRegular, Live
<1>3. CASE SleepTimed(p, ms)
  <2>1. PICK caught \in BOOLEAN :
           /\ caught => systick < Horizon
           /\ systick' = IF caught THEN Now ELSE systick
           /\ nextExecution' = [(IF caught THEN TickedNext({}) ELSE nextExecution)
                                   EXCEPT ![p] = Wrap(systick + ms)]
           /\ excused' = IF caught \/ ms = 0 THEN excused \cup {p} ELSE excused
    BY <1>3 DEF SleepTimed
  <2>2. TickInv'
    BY <2>1, NoWrapSums DEF DeadlineInv, TickInv
  <2>3. ASSUME NEW q \in Pids, Live(q)'
        PROVE  /\ Live(q) /\ interval[q] \in Intervals \ {0} /\ interval'[q] = interval[q]
               /\ q = p => ~caught /\ ms # 0
    <3>1. Live(q)
      BY <1>1, <2>1, <2>3 DEF Live
    <3>2. q = p => ~caught /\ ms # 0
      BY <2>1, <2>3 DEF Live
    <3>. QED  BY <1>1, <3>1, <3>2 DEF DeadlineInv, IntervalInv
  <2>4. ASSUME NEW q \in Pids, Live(q)'
        PROVE  \E gap \in Gaps : (nextExecution'[q] - systick') \in 1 .. interval'[q] + gap
    <3>1. CASE q = p
      <4>1. ~caught /\ systick' = systick /\ ms > 0
        BY <1>1, <2>1, <2>3, <2>4, <3>1
      <4>2. nextExecution'[p] = Wrap(systick + ms)
        BY <2>1 DEF TypeOK, TickedNext
      <4>3. systick \in Nat /\ Wrap(systick + ms) = systick + ms
        BY <1>1, NoWrapSums DEF DeadlineInv
      <4>4. interval'[q] > 0 /\ interval'[q] \in Int
        <5>1. interval'[q] \in Intervals \ {0}
          BY <2>3, <2>4
        <5>2. \A i \in Intervals : i \in Nat
          BY MainloopAssumption
        <5>. QED  BY <5>1, <5>2
      <4>. QED  BY <1>1, <3>1, <4>1, <4>2, <4>3, <4>4
    <3>2. CASE q # p /\ caught
      <4>1. nextExecution'[q] = TickedNext({})[q]
        BY <2>1, <3>2, TickedType
      <4>. QED  BY <2>1, <2>3, <2>4, <3>2, <4>1, DeadlineTicked
    <3>3. CASE q # p /\ ~caught
      <4>1. nextExecution'[q] = nextExecution[q] /\ systick' = systick
        BY <2>1, <3>3 DEF TypeOK
      <4>. QED  BY <2>3, <2>4, <4>1 DEF DeadlineInv, TimedTaskNotStranded
    <3>. QED  BY <3>1, <3>2, <3>3
  <2>5. IntervalInv'
    BY <2>3 DEF IntervalInv
  <2>6. TimedTaskNotStranded'
    BY <2>4 DEF TimedTaskNotStranded
  <2>. QED  BY <2>2, <2>5, <2>6 DEF DeadlineInv
<1>. QED  BY <1>2, <1>3 DEF SleepTask

LEMMA DeadlineModify ==
    ASSUME NoWrapTwice, TypeOK, DeadlineInv, NEW p \in Pids, NEW iv \in Intervals,
           ModifyTimedTaskInterval(p, iv)
    PROVE  DeadlineInv'
<1> DEFINE sum == nextExecution[p] + (iv - interval[p])
<1>1. /\ iv \in Nat /\ iv \in Gaps /\ systick \in Nat /\ interval[p] \in Int
      /\ nextExecution[p] \in Int
      /\ place' = place /\ systick' = systick
      /\ interval' = [interval EXCEPT ![p] = iv]
      /\ nextExecution' = [nextExecution EXCEPT ![p] =
                              IF Wrap(sum) <= systick THEN Wrap(systick + iv) ELSE Wrap(sum)]
      /\ excused' = IF iv = 0 \/ sum < 0 THEN excused \cup {p} ELSE excused
      /\ place[p] = "timed" /\ interval[p] >= 0
  BY MainloopAssumption DEF ModifyTimedTaskInterval, tables, Gaps, TypeOK, Tick32
<1>2. ASSUME NEW q \in Pids, Live(q)'
      PROVE  /\ Live(q) /\ interval'[q] \in Intervals \ {0}
             /\ q = p => iv > 0 /\ sum >= 0
  <2>1. Live(q)
    BY <1>1, <1>2 DEF Live, TypeOK
  <2>2. q = p => iv > 0 /\ sum >= 0
    BY <1>1, <1>2 DEF Live
  <2>. QED  BY <1>1, <2>1, <2>2 DEF DeadlineInv, IntervalInv, TypeOK
<1>3. ASSUME NEW q \in Pids, Live(q)'
      PROVE  \E gap \in Gaps : (nextExecution'[q] - systick') \in 1 .. interval'[q] + gap
  <2>1. PICK gap \in Gaps : (nextExecution[q] - systick) \in 1 .. interval[q] + gap
    BY <1>2, <1>3 DEF DeadlineInv, TimedTaskNotStranded
  <2>2. CASE q # p
    BY <1>1, <2>1, <2>2 DEF TypeOK
  <2>3. CASE q = p
    <3>1. interval'[p] = iv /\ iv > 0 /\ sum >= 0 /\ gap \in Nat
          /\ Wrap(systick + iv) = systick + iv
      BY <1>1, <1>2, <1>3, <2>3, NoWrapSums DEF DeadlineInv, TypeOK
    <3>2. Wrap(sum) = sum
      <4>1. sum <= systick + iv + gap /\ sum \in Int
        BY <1>1, <2>1, <2>3, <3>1
      <4>2. systick + iv + gap < TickMod /\ TickMod \in Nat
        BY <1>1, <3>1, NoWrapSums, MainloopAssumption DEF NoWrapTwice, DeadlineInv, TickInv
      <4>. QED  BY <1>1, <3>1, <4>1, <4>2 DEF Wrap
    <3>3. nextExecution'[p] = IF sum <= systick THEN systick + iv ELSE sum
      BY <1>1, <3>1, <3>2 DEF TypeOK
    <3>4. (nextExecution'[p] - systick) \in 1 .. iv + gap
      BY <1>1, <2>1, <2>3, <3>1, <3>3
    <3>. QED  BY <1>1, <2>3, <3>1, <3>4
  <2>. QED  BY <2>2, <2>3
<1>4. TickInv'
  BY <1>1 DEF DeadlineInv, TickInv
<1>5. IntervalInv'
  BY <1>2 DEF IntervalInv
<1>6. TimedTaskNotStranded'
  BY <1>3 DEF TimedTaskNotStranded
<1>. QED  BY <1>4, <1>5, <1>6 DEF DeadlineInv

LEMMA DeadlineCall == NoWrapTwice /\ TypeOK /\ DeadlineInv /\ Call => DeadlineInv'
<1>. SUFFICES ASSUME NoWrapTwice, TypeOK, DeadlineInv, Call PROVE DeadlineInv'
  OBVIOUS
<1>1. ASSUME RegisterRegularTask \/ \E S \in SUBSET Signals : RegisterSignalTask(S)
      PROVE  DeadlineInv'
  <2>1. UNCHANGED <<systick, nextExecution, interval, excused>>
    BY <1>1 DEF RegisterRegularTask, RegisterSignalTask, fields, history
  <2>2. place' = [place EXCEPT ![nextTaskPID] = "regular"]
        \/ place' = [place EXCEPT ![nextTaskPID] = "signal"]
    BY <1>1 DEF RegisterRegularTask, RegisterSignalTask
  <2>3. \A p \in Pids : Live(p)' => Live(p)
    BY <2>1, <2>2 DEF Live, TypeOK
  <2>. QED  BY <2>1, <2>3, DeadlineUntouched
<1>2. ASSUME NEW iv \in Intervals, NEW delay \in Delays, RegisterTimedTask(iv, delay)
      PROVE  DeadlineInv'
  BY <1>2, DeadlineRegister DEF RegisterTimedTask
<1>3. ASSUME NEW delay \in Delays, RegisterDelayedTask(delay) PROVE DeadlineInv'
  BY <1>3, DeadlineRegister DEF RegisterDelayedTask
<1>4. ASSUME NEW p \in Pids, KillTask(p) PROVE DeadlineInv'
  BY <1>4, DeadlineUntouched DEF KillTask, fields, history, Live
<1>. QED  BY <1>1, <1>2, <1>3, <1>4, DeadlineSleep, DeadlineModify DEF Call

\* As long as the tick does not go round, a timed task that was not excused
\* always has a deadline the timer will hit.
THEOREM DeadlinesAhead == NoWrapTwice => (Spec => []TimedTaskNotStranded)
<1>. SUFFICES ASSUME NoWrapTwice PROVE Spec => []TimedTaskNotStranded
  OBVIOUS
<1>1. TypeOK /\ DeadlineInv /\ UNCHANGED vars => DeadlineInv'
  BY DeadlineUntouched DEF vars, fields, tables, history, Live
<1>2. TypeOK /\ DeadlineInv /\ Interrupt => DeadlineInv'
  <2>. SUFFICES ASSUME TypeOK, DeadlineInv, Interrupt PROVE DeadlineInv'
    OBVIOUS
  <2>1. CASE OnMillisecond
    <3>1. /\ UNCHANGED <<place, interval, excused>> /\ systick < Horizon
          /\ systick' = Now /\ nextExecution' = TickedNext({})
      BY <2>1 DEF OnMillisecond, tables
    <3>2. \A p \in Pids : Live(p)' = Live(p)
      BY <3>1 DEF Live
    <3>3. TickInv'
      BY <3>1, NoWrapSums DEF DeadlineInv, TickInv
    <3>4. IntervalInv'
      BY <3>1, <3>2 DEF DeadlineInv, IntervalInv
    <3>5. TimedTaskNotStranded'
      BY <3>1, <3>2, DeadlineTicked DEF TimedTaskNotStranded
    <3>. QED  BY <3>3, <3>4, <3>5 DEF DeadlineInv
  <2>2. ASSUME NEW s \in Signals, TriggerSignal(s) PROVE DeadlineInv'
    BY <2>2, DeadlineUntouched DEF TriggerSignal, tables, Live
  <2>. QED  BY <2>1, <2>2 DEF Interrupt
<1>3. TypeOK /\ DeadlineInv /\ [Next]_vars => DeadlineInv'
  BY <1>1, <1>2, DeadlineLoopStep, DeadlineFinish, DeadlineCall DEF Next
<1>4. DeadlineInv => TimedTaskNotStranded
  BY DEF DeadlineInv
<1>. QED  BY <1>3, <1>4, DeadlineInit, TypeCorrect, PTL DEF Spec
=============================================================================
