----------------------------- MODULE SystemClock -----------------------------
(***************************************************************************)
(* The clock: the time command (app/include/Commands/TimeCommand.h) over   *)
(* PicoTime (app/src/RTC/), which keeps the time in the RP2040's clock     *)
(* chip or, on the RP2350, as a number of seconds; and the task of         *)
(* "start time", which writes the time of day into a variable once a       *)
(* minute.                                                                 *)
(*                                                                         *)
(* A calendar time is std::tm with its year and its month counted as they  *)
(* are typed.  A word of the command is what kind of text it is with the   *)
(* numbers read from it; its characters are left out.                      *)
(***************************************************************************)
EXTENDS Integers, Sequences

CONSTANTS
    Sets,         \* the words typed after "time set"
    Garbage,      \* what a clock chip that does not run may be read as
    TaskTimeout,  \* 70: the runs after which the variable is written anyway
    MaxSets,      \* bound: time set commands
    Lapses,       \* the seconds that may pass between two steps
    MaxLapses     \* bound: times they pass

\* A number that is typed has no sign, a month and a day have two digits, and there
\* is no year 0; so it is with what a clock chip is read as
Absent == -1   \* seconds that were not typed
TimeWords == [kind : {"iso", "german"}, year : Nat \ {0}, mon : 0 .. 99, mday : 0 .. 99]
             \cup [kind : {"time"}, hour : Nat, min : Nat, sec : Nat \cup {Absent}]
             \cup [kind : {"other"}]
ASSUME ClockAssumption ==
    /\ \A words \in Sets : words \in Seq(TimeWords) /\ words # <<>>
    /\ Garbage \subseteq [year : Nat \ {0}, mon : 0 .. 99, mday : 0 .. 99,
                          hour : Nat, min : Nat, sec : Nat]
    /\ TaskTimeout \in Nat /\ Lapses \subseteq Nat

VARIABLES
    chip,     \* "rp2040" or "rp2350"
    clock,    \* [day, second] or Stopped
    typed,    \* the last command, what the clock read before it and its result
    task,     \* the time task: _lastSetTime, also in the variable, and _timeout
    drift,    \* ghost: see VariableFollows
    spent     \* the bounds: commands and lapses so far

clockVars == <<chip, clock, typed, task, drift, spent>>

Stopped == [day |-> 0, second |-> -1]
NoTask  == [hour |-> 0, min |-> 0, timeout |-> -1]
Nothing == <<>>
Unseen  == [ran |-> FALSE, since |-> 0, leapt |-> FALSE]

-----------------------------------------------------------------------------
(* The calendar: mktime and localtime *)

Leap(year) == year % 4 = 0 /\ (year % 100 # 0 \/ year % 400 = 0)
NewYear(year) == 365 * year + ((year + 3) \div 4) - ((year + 99) \div 100) + ((year + 399) \div 400)
MonthStart(year, month) ==
    <<0, 31, 59, 90, 120, 151, 181, 212, 243, 273, 304, 334, 365>>[month]
        + (IF month > 2 /\ Leap(year) THEN 1 ELSE 0)

\* mktime: a month, a day or a time beyond its range carries into the next
Mktime(tm) ==
    LET year   == tm.year + ((tm.mon - 1) \div 12)
        month  == 1 + ((tm.mon - 1) % 12)
        second == 3600 * tm.hour + 60 * tm.min + tm.sec
    IN  [day |-> NewYear(year) + MonthStart(year, month) + tm.mday - 1 + (second \div 86400),
         second |-> second % 86400]

\* localtime
Calendar(time) ==
    LET year  == CHOOSE y \in (time.day \div 366) .. (time.day \div 365) :
                    NewYear(y) <= time.day /\ time.day < NewYear(y + 1)
        rest  == time.day - NewYear(year)
        month == CHOOSE m \in 1 .. 12 :
                    MonthStart(year, m) <= rest /\ rest < MonthStart(year, m + 1)
    IN  [year |-> year, mon |-> month, mday |-> 1 + rest - MonthStart(year, month),
         hour |-> time.second \div 3600, min |-> (time.second \div 60) % 60,
         sec |-> time.second % 60]

Sunday(time) == (time.day + 6) % 7 = 0

\* PicoTime::PicoTime; a clock chip is not set when what it was read as, not
\* having run, looks like a recent date
Default == Mktime([year |-> 2025, mon |-> 6, mday |-> 10, hour |-> 23, min |-> 33, sec |-> 15])
KInit ==
    /\ \/ chip = "rp2350" /\ clock = Default
       \/ chip = "rp2040" /\ clock \in {Default, Stopped}
    /\ typed = Nothing /\ task = NoTask /\ drift = Unseen
    /\ spent = [sets |-> 0, lapses |-> 0]

\* PicoTime::getTimeInfo
Readings == IF clock = Stopped THEN Garbage ELSE {Calendar(clock)}

\* PicoTime::setTime; the chip of the RP2040 numbers the weekdays from 0 and
\* ignores a date that comes with the day 7
SetTime(time) == clock' = IF chip = "rp2040" /\ Sunday(time) THEN clock ELSE time

-----------------------------------------------------------------------------
(* The words of time set *)

\* convertStringToDate: what the word makes of the time tm; none when it is no date
Dated(word, tm) ==
    IF word.kind = "iso" \/ (word.kind = "german" /\ word.year >= 1900)
    THEN {[tm EXCEPT !.year = word.year, !.mon = word.mon, !.mday = word.mday]}
    ELSE IF word.kind = "german"
    THEN {[tm EXCEPT !.year = word.year + 2000, !.mon = word.mon, !.mday = word.mday]}
    ELSE {}

\* slip: the seconds are not preset
TimedKeepsSeconds(word, tm) ==
    CASE word.kind = "time" ->
            {[tm EXCEPT !.hour = word.hour, !.min = word.min,
                        !.sec = IF word.sec = Absent THEN @ ELSE word.sec]}
      [] OTHER -> {}

\* convertStringToTime: a date with dashes is read as a time with a sign
Timed(word, tm) ==
    CASE word.kind = "time" ->
            {[tm EXCEPT !.hour = word.hour, !.min = word.min,
                        !.sec = IF word.sec = Absent THEN 0 ELSE word.sec]}
      [] word.kind = "iso" ->
            {[tm EXCEPT !.hour = word.year, !.min = -word.mon, !.sec = -word.mday]}
      [] OTHER -> {}

\* convertStringToStructTm: a time in the first place is the time, whatever follows
Converted(words, tm) ==
    IF words[1].kind = "time" THEN Timed(words[1], tm)
    ELSE IF Len(words) = 1 THEN Dated(words[1], tm)
    ELSE UNION {Timed(words[2], dated) : dated \in Dated(words[1], tm)}

\* TimeCommand::execute, time set
TimeSet(words) ==
    /\ spent.sets < MaxSets /\ spent' = [spent EXCEPT !.sets = @ + 1]
    /\ \E tm \in Readings :
          /\ IF Converted(words, tm) = {} THEN UNCHANGED clock
             ELSE \E new \in Converted(words, tm) : SetTime(Mktime(new))
          /\ typed' = <<[words |-> words, read |-> tm, before |-> clock,
                         answer |-> IF Converted(words, tm) = {} THEN -1 ELSE 0]>>
    /\ drift' = [drift EXCEPT !.ran = FALSE, !.leapt = @ \/ clock' # clock]
    /\ UNCHANGED <<chip, task>>

-----------------------------------------------------------------------------
(* The time task *)

Writes(tm) == task' = [hour |-> tm.hour, min |-> tm.min, timeout |-> TaskTimeout]

\* the task has run just now; it has written when it wrote
Ran(wrote) == drift' = [ran |-> TRUE, since |-> 0, leapt |-> drift.leapt /\ ~wrote]

\* StartCommand::execute and the constructor of TimeTask
StartTime ==
    /\ task = NoTask
    /\ \E tm \in Readings : Writes(tm)
    /\ Ran(TRUE)
    /\ UNCHANGED <<chip, clock, typed, spent>>

\* TimeTask::ExecuteTask
RunTimeTask ==
    /\ task # NoTask
    /\ \E tm \in Readings :
          \/ /\ tm.min = task.min /\ task.timeout > 0
             /\ task' = [task EXCEPT !.timeout = @ - 1]
             /\ Ran(FALSE)
          \/ /\ ~(tm.min = task.min /\ task.timeout > 0)
             /\ Writes(tm) /\ Ran(TRUE)
    /\ UNCHANGED <<chip, clock, typed, spent>>

\* Time passes; the main loop may be late, so that the task misses its second
Lapse(s) ==
    /\ clock # Stopped
    /\ spent.lapses < MaxLapses /\ spent' = [spent EXCEPT !.lapses = @ + 1]
    /\ clock' = [day |-> clock.day + ((clock.second + s) \div 86400),
                 second |-> (clock.second + s) % 86400]
    /\ typed' = Nothing
    /\ drift' = [ran |-> FALSE, since |-> drift.since + s,
                leapt |-> drift.leapt \/ drift.since + s > 59 * 60]
    /\ UNCHANGED <<chip, task>>

KNext ==
    \/ \E words \in Sets : TimeSet(words)
    \/ StartTime
    \/ RunTimeTask
    \/ \E s \in Lapses : Lapse(s)

KSpec == KInit /\ [][KNext]_clockVars

-----------------------------------------------------------------------------
(* Properties *)

\* the words are in the order of the help, and name a day and a time there is
Sensible(words) ==
    /\ \A i \in DOMAIN words :
          \/ /\ words[i].kind \in {"iso", "german"} /\ i = 1
             /\ words[i].mon \in 1 .. 12
             /\ words[i].mday \in 1 .. 28
          \/ /\ words[i].kind = "time" /\ i = Len(words)
             /\ words[i].hour \in 0 .. 23 /\ words[i].min \in 0 .. 59
             /\ words[i].sec \in 0 .. 59 \cup {Absent}

\* The time the words ask for, of which tm is what they leave out
Asked(words, tm) ==
    LET first == words[1]
        last  == words[Len(words)]
        dated == first.kind # "time"
        timed == last.kind = "time"
    IN  [year |-> IF ~dated THEN tm.year
                  ELSE IF first.kind = "german" /\ first.year < 1900 THEN 2000 + first.year
                  ELSE first.year,
         mon  |-> IF dated THEN first.mon ELSE tm.mon,
         mday |-> IF dated THEN first.mday ELSE tm.mday,
         hour |-> IF timed THEN last.hour ELSE tm.hour,
         min  |-> IF timed THEN last.min ELSE tm.min,
         sec  |-> IF ~timed THEN tm.sec ELSE IF last.sec = Absent THEN 0 ELSE last.sec]

\* "time set" is all or nothing: a command refused for either of its words leaves
\* the clock alone, and one that names a day and a time there is, in the order of
\* the help, is accepted and the clock reads what was typed, and what was not
\* typed as before (convertStringToStructTm, PicoTime::setTime).  The RP2040's
\* clock ignores every date that is a Sunday.
SetObeyed ==
    \A i \in DOMAIN typed :
        LET t == typed[i]
            asked == Asked(t.words, t.read)
        IN  /\ t.answer = -1 => clock = t.before
            /\ Sensible(t.words) => t.answer = 0
            /\ Sensible(t.words) /\ (t.before # Stopped \/ Len(t.words) = 2) =>
                  IF chip = "rp2040" /\ Sunday(Mktime(asked)) THEN clock = t.before
                  ELSE clock # Stopped /\ Calendar(clock) = asked

\* After a run of the time task the variable shows the minute of a running clock,
\* and its hour too unless, since the variable was written, the clock was set or
\* the task came 59 minutes late (TimeTask::ExecuteTask compares minutes only).
VariableFollows ==
    drift.ran /\ clock # Stopped =>
        /\ task.min = Calendar(clock).min
        /\ ~drift.leapt => task.hour = Calendar(clock).hour

\* The clock obeys its command and the variable follows the clock
ClockObeys == SetObeyed /\ VariableFollows
=============================================================================
