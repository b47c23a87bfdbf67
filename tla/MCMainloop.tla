----------------------------- MODULE MCMainloop -----------------------------
(***************************************************************************)
(* Instances of Mainloop for TLC: the worker, the console and the tasks    *)
(* the console registers, on a clock of a few ticks.  LaterSpec starts on  *)
(* boards that have been running: one run-time task may still be           *)
(* registered there, as pid 3.                                             *)
(***************************************************************************)
EXTENDS Mainloop

\* A uint32_t tick far from its end: the horizon plus the longest pause stays
\* below it, as in the first 49 days of uptime.
EarlyRange == 16

\* A board on which a signal task has come and gone
Early ==
    /\ place = [p \in Pids |-> CASE p <= Console -> "regular" [] p = 2 -> "gone"
                                 [] OTHER -> "unborn"]
    /\ phase = "timed" /\ current = NoTask /\ todo = {}
    /\ tasksToKill = {} /\ killed = {2}

\* One on which the worker was killed, the console has just killed a task that
\* comes behind it in the vector, and the clock is at its bound
Late ==
    /\ place = [p \in Pids |-> CASE p = Worker -> "gone" [] p \in 1 .. 2 -> "regular"
                                 [] OTHER -> "unborn"]
    /\ phase = "regular" /\ current = Console /\ todo = {2}
    /\ tasksToKill = {2} /\ killed = {Worker}

LaterInit ==
    /\ Early \/ Late
    /\ capacity = 2 /\ relocated = FALSE
    /\ sleepUntil = [p \in Pids |-> 0] /\ execute = [p \in Pids |-> FALSE]
    /\ interval = [p \in Pids |-> 0] /\ nextExecution = [p \in Pids |-> 0]
    /\ filter = [p \in Pids |-> {}]
    /\ nextTaskPID = 3
    /\ systick = (IF place[2] = "gone" THEN 0 ELSE Horizon) /\ currentTime = systick
    /\ nap = [p \in Pids |-> 0]
    /\ excused = {} /\ returnedFalse = {}

\* A kill that names a task already gone changes nothing and is left out
LaterCall ==
    \/ RegisterRegularTask
    \/ \E iv \in Intervals, delay \in Delays : RegisterTimedTask(iv, delay)
    \/ \E delay \in Delays : RegisterDelayedTask(delay)
    \/ \E S \in SUBSET Signals : RegisterSignalTask(S)
    \/ \E p \in Pids, ms \in Pauses : SleepTask(p, ms)
    \/ \E p \in Pids, iv \in Intervals : ModifyTimedTaskInterval(p, iv)
    \/ \E p \in Pids : place[p] # "gone" /\ KillTask(p)

LaterNext == Interrupt \/ LoopStep \/ Finish \/ LaterCall

LaterSpec == LaterInit /\ [][LaterNext]_vars /\ WF_vars(LoopStep) /\ WF_vars(Finish)
=============================================================================
