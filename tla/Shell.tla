-------------------------------- MODULE Shell --------------------------------
(***************************************************************************)
(* The console and what its commands do to the variables, the signal       *)
(* handlers and the env file: app/src/Console.cpp, the commands set,       *)
(* create, device, signal, kill, start, env, cd and exec of                *)
(* app/include/Commands/, and the start of the program in app/src/Main.cpp.*)
(*                                                                         *)
(* The main loop is the part of Mainloop these tasks see: the timed tasks, *)
(* then the signal tasks, then the console, then the removal of killed     *)
(* tasks.  A signal task only queues its command; the console executes one *)
(* queued command a loop and then every line that was typed.  A GPIO edge  *)
(* raises its signal at any point.                                         *)
(***************************************************************************)
EXTENDS VariableStore, Sequences

CONSTANTS
    Commands,     \* the commands there may be
    Typed,        \* of those, the lines a user may type
    Scripts,      \* the script files: name -> the commands in it
    EnvFiles,     \* the env files a board may start with
    Directories,  \* the directories, "root" among them
    Samples,      \* what a readout may deliver
    Watched,      \* the handlers SignalsAreAnswered is checked for
    MaxLines, MaxTicks, MaxEdges, MaxRestarts   \* bounds

\* What the factories set up is no linear variable (SetupVariable goes through
\* addVariable, which makes none), and loadFromFile takes the type of a variable
\* from the value in the file.
ASSUME ShellAssumption ==
    /\ Typed \subseteq Commands
    /\ \A n \in DOMAIN Scripts : Scripts[n] \in Seq(Commands)
    /\ \A c \in Commands :
          /\ c.op \in {"add", "set"} /\ c.from = "" => IsText(c.text)
          /\ c.op = "open" => /\ IsFiniteSet(c.variables)
                              /\ \A v \in c.variables : v.type \in Types \ {"LINEAR"} /\ IsText(v.text)
          /\ c.op = "handle" => c.command \in Commands
          /\ c.op = "cd" => c.directory \in Directories
    /\ \A doc \in EnvFiles :
          /\ IsFiniteSet(DOMAIN doc)
          /\ \A k \in DOMAIN doc : IsText(doc[k].text) /\ Saveable(doc[k].type, doc[k].text)
    /\ "root" \in Directories
    /\ Samples \subseteq Int

VARIABLES
    store,
    handlers,          \* the signal tasks, in the order of registration
    tasksToKill, timedTasks, queue, currentDirectory,
    files,             \* directory -> its env file, in flash
    phase, turn,       \* the loop, and the signal task it has reached
    lines, ticks, edges, restarts,
    (* history *)
    unanswered,        \* handlers whose signal came after their command last ran
    answered,          \* the handler whose command the last step executed
    booting,           \* the console has not had its first turn
    saved              \* the values last saved in the root directory

bounds == <<lines, ticks, edges, restarts>>
vars   == <<store, handlers, tasksToKill, timedTasks, queue, currentDirectory, files,
            phase, turn, bounds, unanswered, answered, booting, saved>>

NoFile == <<>>
Nobody == 0
Boot   == <<[command |-> [op |-> "load"], by |-> Nobody],
            [command |-> [op |-> "exec", from |-> "init-script"], by |-> Nobody]>>

\* main() before the loop starts
BootStore == AddVariable(EmptyStore, "init-script", "STRING", Word("startup.sh"))

Init ==
    /\ store = BootStore /\ handlers = <<>> /\ tasksToKill = {} /\ timedTasks = {}
    /\ queue = Boot /\ currentDirectory = "root"
    /\ phase = "timed" /\ turn = 1 /\ unanswered = {} /\ answered = Nobody
    /\ booting = TRUE
    /\ lines = 0 /\ ticks = 0 /\ edges = 0 /\ restarts = 0
    /\ \E doc \in EnvFiles :
          /\ files = [d \in Directories |-> IF d = "root" THEN doc ELSE NoFile]
          /\ saved = [k \in DOMAIN doc |-> doc[k].text]

(***************************************************************************)
(* Signals.                                                                *)
(***************************************************************************)
InLoop     == {p \in DOMAIN handlers : handlers[p].inLoop}
Woken(sigs) == {p \in InLoop : handlers[p].filter \in sigs}

\* triggerSignal
Flagged(sigs) ==
    [p \in DOMAIN handlers |->
        [handlers[p] EXCEPT !.execute = @ \/ p \in Woken(sigs)]]

\* A step that makes the store s, after executing the command of "by"
Becomes(s, by) ==
    /\ store' = [s EXCEPT !.raised = {}]
    /\ handlers' = Flagged(s.raised)
    /\ unanswered' = (unanswered \ {by}) \cup Woken(s.raised)
Keeps(by) == Becomes(store, by)

-----------------------------------------------------------------------------
(***************************************************************************)
(* ExecuteLine: the commands.  q is the queue without the command.         *)
(***************************************************************************)

\* the value a command names, substituted when the line is executed
Value(c) == IF c.from # "" THEN Lookup(store, c.from) ELSE c.text

\* SetCommand, CreateVarCommand, and executeOpen of DeviceCommand
Added(c)     == AddVariable(store, c.key, "STRING", Value(c))
SetTo(c)     == SetVariable(store, c.key, Value(c)).store
Created(c)   == RegisterVariable(store, c.key, "LINEAR")
Signalled(c) == RegisterSignal(store, c.key, c.signal)
Emitted(c)   == [store EXCEPT !.raised = {c.signal}]
Opened(c) ==
    LET setup(v, s) == SetupVariable(s, v.key, v.type, v.kind, v.text)
    IN  AddVariable(FoldSet(setup, store, c.variables), "lastOpenedDevice", "STRING",
                    Word(c.device))
StoreAfter(c) ==
    CASE c.op = "add"    -> Added(c)
      [] c.op = "set"    -> SetTo(c)
      [] c.op = "create" -> Created(c)
      [] c.op = "var"    -> Signalled(c)
      [] c.op = "emit"   -> Emitted(c)
      [] c.op = "open"   -> Opened(c)

ChangeStore(c, q, by) ==
    /\ c.op \in {"add", "set", "create", "var", "emit", "open"}
    /\ Becomes(StoreAfter(c), by)
    /\ queue' = q
    /\ UNCHANGED <<tasksToKill, timedTasks, currentDirectory, files, saved>>

\* device open ADC with a readout variable of the user's choice
OpenReadout(c, q, by) ==
    /\ c.op = "readout"
    /\ Becomes(SetSystemVariable(AddVariable(store, c.key, "INT", Num(0)), c.key), by)
    /\ timedTasks' = timedTasks \cup {[task |-> "readout", key |-> c.key]}
    /\ queue' = q
    /\ UNCHANGED <<tasksToKill, currentDirectory, files, saved>>

\* StartCommand: one time task, whose constructor sets the variable
StartTime(c, q, by) ==
    /\ c.op = "time"
    /\ IF Has(store, c.key) /\ \A t \in timedTasks : t.task # "time"
       THEN /\ Becomes(SetVariable(store, c.key, Word("12:00")).store, by)
            /\ timedTasks' = timedTasks \cup {[task |-> "time", key |-> c.key]}
       ELSE Keeps(by) /\ UNCHANGED timedTasks
    /\ queue' = q
    /\ UNCHANGED <<tasksToKill, currentDirectory, files, saved>>

\* signal add
AddHandler(c, q, by) ==
    /\ c.op = "handle"
    /\ handlers' = Append(handlers, [filter |-> c.filter, command |-> c.command,
                                     owned |-> TRUE, inLoop |-> TRUE, execute |-> FALSE])
    /\ unanswered' = unanswered \ {by}
    /\ queue' = q
    /\ UNCHANGED <<store, tasksToKill, timedTasks, currentDirectory, files, saved>>

\* slip: the task is not killed
StopHandlerNoKill(c, q, by) ==
    /\ c.op = "stop"
    /\ handlers' = [p \in DOMAIN handlers |->
                       [handlers[p] EXCEPT !.owned = @ /\ p # c.pid]]
    /\ unanswered' = unanswered \ {by}
    /\ queue' = q
    /\ UNCHANGED <<store, tasksToKill, timedTasks, currentDirectory, files, saved>>

\* signal stop: the task object is destroyed at once, the loop's entry later
StopHandler(c, q, by) ==
    /\ c.op = "stop"
    /\ IF c.pid \in DOMAIN handlers /\ handlers[c.pid].owned
       THEN /\ tasksToKill' = tasksToKill \cup {c.pid}
            /\ handlers' = [handlers EXCEPT ![c.pid].owned = FALSE]
       ELSE UNCHANGED <<tasksToKill, handlers>>
    /\ unanswered' = unanswered \ {by}
    /\ queue' = q
    /\ UNCHANGED <<store, timedTasks, currentDirectory, files, saved>>

\* KillCommand leaves the object in the list of the signal command
Kill(c, q, by) ==
    /\ c.op = "kill"
    /\ Keeps(by)
    /\ tasksToKill' = tasksToKill \cup {c.pid}
    /\ queue' = q
    /\ UNCHANGED <<timedTasks, currentDirectory, files, saved>>

\* env save: the file of the current directory, or the file as it was
SaveEnv(c, q, by) ==
    /\ c.op = "save"
    /\ Keeps(by)
    /\ \/ /\ files' = [files EXCEPT ![currentDirectory] = SaveToFile(store)]
          /\ saved' = IF currentDirectory # "root" THEN saved
                      ELSE [k \in {k \in DOMAIN store.vars : ~store.vars[k].system} |->
                               store.vars[k].text]
       \/ UNCHANGED <<files, saved>>
    /\ queue' = q
    /\ UNCHANGED <<tasksToKill, timedTasks, currentDirectory>>

LoadEnv(c, q, by) ==
    /\ c.op = "load"
    /\ Becomes(LoadFromFile(store, files[currentDirectory]), by)
    /\ queue' = q
    /\ UNCHANGED <<tasksToKill, timedTasks, currentDirectory, files, saved>>

ChangeDirectory(c, q, by) ==
    /\ c.op = "cd"
    /\ Keeps(by)
    /\ currentDirectory' = c.directory
    /\ queue' = q
    /\ UNCHANGED <<tasksToKill, timedTasks, files, saved>>

\* slip: the script replaces what is queued
ExecReplaces(c, q, by) ==
    LET name == Value(c).word
        body == IF name \in DOMAIN Scripts THEN Scripts[name] ELSE <<>>
    IN  /\ c.op = "exec"
        /\ Keeps(by)
        /\ queue' = [i \in DOMAIN body |-> [command |-> body[i], by |-> Nobody]]
        /\ UNCHANGED <<tasksToKill, timedTasks, currentDirectory, files, saved>>

\* ExecCommand: the lines of the script are queued behind what is there
Exec(c, q, by) ==
    LET name == Value(c).word
        body == IF name \in DOMAIN Scripts THEN Scripts[name] ELSE <<>>
    IN  /\ c.op = "exec"
        /\ Keeps(by)
        /\ queue' = q \o [i \in DOMAIN body |-> [command |-> body[i], by |-> Nobody]]
        /\ UNCHANGED <<tasksToKill, timedTasks, currentDirectory, files, saved>>

ExecuteLine(c, q, by) ==
    \/ ChangeStore(c, q, by) \/ OpenReadout(c, q, by) \/ StartTime(c, q, by)
    \/ AddHandler(c, q, by)  \/ StopHandler(c, q, by) \/ Kill(c, q, by)
    \/ SaveEnv(c, q, by)     \/ LoadEnv(c, q, by)
    \/ ChangeDirectory(c, q, by) \/ Exec(c, q, by)

-----------------------------------------------------------------------------
(***************************************************************************)
(* The loop.                                                               *)
(***************************************************************************)
command == <<tasksToKill, timedTasks, queue, currentDirectory, files, saved>>

\* a readout sets its variable directly, the time task through the store
TimedTask ==
    /\ phase = "timed" /\ ticks < MaxTicks
    /\ \E t \in timedTasks :
          \/ /\ t.task = "readout"
             /\ \E n \in Samples : Becomes(SetDirectly(store, t.key, Num(n)), Nobody)
          \/ /\ t.task = "time"
             /\ Becomes(SetVariable(store, t.key, Word("12:01")).store, Nobody)
    /\ ticks' = ticks + 1 /\ answered' = Nobody
    /\ UNCHANGED <<command, phase, turn, lines, edges, restarts, booting>>

Due == {p \in InLoop : p >= turn /\ handlers[p].execute}

TimedTasksDone ==
    /\ phase = "timed"
    /\ phase' = "signals" /\ turn' = 1 /\ answered' = Nobody
    /\ UNCHANGED <<store, handlers, command, bounds, unanswered, booting>>

\* The function of a signal task queues its command ...
RunHandler ==
    /\ phase = "signals" /\ Due # {}
    /\ turn' = Min(Due) /\ phase' = "returned" /\ answered' = Nobody
    /\ queue' = Append(queue, [command |-> handlers[Min(Due)].command, by |-> Min(Due)])
    /\ UNCHANGED <<store, handlers, tasksToKill, timedTasks, currentDirectory, files,
                   bounds, unanswered, booting, saved>>

\* ... and the loop clears the flag after it, also one raised meanwhile
HandlerReturned ==
    /\ phase = "returned"
    /\ handlers' = [handlers EXCEPT ![turn].execute = FALSE]
    /\ turn' = turn + 1 /\ phase' = "signals" /\ answered' = Nobody
    /\ UNCHANGED <<store, command, bounds, unanswered, booting>>

SignalsDone ==
    /\ phase = "signals" /\ Due = {}
    /\ phase' = "console" /\ answered' = Nobody
    /\ UNCHANGED <<store, handlers, command, turn, bounds, unanswered, booting>>

\* Console::ExecuteTask: one queued command
ConsoleTurn ==
    /\ phase = "console"
    /\ phase' = "typed" /\ booting' = FALSE
    /\ IF queue = <<>>
       THEN /\ answered' = Nobody
            /\ UNCHANGED <<store, handlers, command, unanswered>>
       ELSE /\ answered' = Head(queue).by
            /\ ExecuteLine(Head(queue).command, Tail(queue), Head(queue).by)
    /\ UNCHANGED <<turn, bounds>>

\* ReadUART
TypedLine ==
    /\ phase = "typed" /\ lines < MaxLines
    /\ \E c \in Typed : ExecuteLine(c, queue, Nobody)
    /\ lines' = lines + 1 /\ answered' = Nobody
    /\ UNCHANGED <<phase, turn, ticks, edges, restarts, booting>>

\* the removal of killed tasks ends the loop
FinishLoop ==
    /\ phase = "typed"
    /\ handlers' = [p \in DOMAIN handlers |->
                       [handlers[p] EXCEPT !.inLoop = @ /\ p \notin tasksToKill]]
    /\ tasksToKill' = {} /\ phase' = "timed" /\ answered' = Nobody
    /\ UNCHANGED <<store, timedTasks, queue, currentDirectory, files, turn, bounds,
                   unanswered, booting, saved>>

\* the GPIO interrupt
Edge ==
    /\ edges < MaxEdges
    /\ Becomes([store EXCEPT !.raised = {"edge"}], Nobody)
    /\ edges' = edges + 1 /\ answered' = Nobody
    /\ UNCHANGED <<command, phase, turn, lines, ticks, restarts, booting>>

\* only the flash outlives it
PowerCycle ==
    /\ restarts < MaxRestarts
    /\ restarts' = restarts + 1
    /\ store' = BootStore /\ handlers' = <<>> /\ tasksToKill' = {} /\ timedTasks' = {}
    /\ queue' = Boot /\ currentDirectory' = "root"
    /\ phase' = "timed" /\ turn' = 1 /\ unanswered' = {} /\ answered' = Nobody
    /\ booting' = TRUE
    /\ UNCHANGED <<files, saved, lines, ticks, edges>>

LoopStep ==
    \/ TimedTasksDone \/ RunHandler \/ HandlerReturned \/ SignalsDone
    \/ ConsoleTurn \/ FinishLoop
Next == LoopStep \/ TimedTask \/ TypedLine \/ Edge \/ PowerCycle
Spec == Init /\ [][Next]_vars /\ WF_vars(LoopStep)

-----------------------------------------------------------------------------
\* Every callback has its variable, which calls it; nothing is left raised.
HooksAgree ==
    /\ \A k \in DOMAIN store.vars :
          /\ store.vars[k].type \in Types
          /\ store.vars[k].hooked <=> k \in DOMAIN store.callbacks
    /\ DOMAIN store.shown = DOMAIN store.callbacks
    /\ DOMAIN store.callbacks \subseteq DOMAIN store.vars
    /\ store.behind \subseteq DOMAIN store.callbacks
    /\ store.raised = {}

\* A device shows the variable of its key: what setVariable stores is what the
\* callback was given, however variables were loaded, shared or replaced
\* before.  The exceptions are the keys in "behind": the last change went to
\* the variable itself, whose callback is given the old value
\* (VariableStore.cpp:valueChangedCallback); the format callback of a UART
\* refused what it had applied; the type of the variable refused what the
\* callback had agreed to.
DeviceShowsVariable ==
    HooksAgree /\ \A k \in DOMAIN store.callbacks \ store.behind :
        store.vars[k].text = Convert(store.vars[k].type, store.shown[k])

\* "signal stop" destroys the task object while the loop still holds a pointer
\* to it (SignalCommand.h:erase): the entry is gone before the loop comes to
\* the signal tasks again, so no destroyed task is called.
LoopHoldsLiveHandlers ==
    phase \in {"signals", "returned"} => \A p \in InLoop : handlers[p].owned

\* A signal that reaches a handler is answered: its command is executed at a
\* later moment, although the loop overwrites the handler's flag after it
\* returns (Mainloop.cpp:56) and commands wait in a queue that scripts, other
\* handlers and typed lines share.  A handler that was stopped or killed may
\* leave it unanswered.
SignalsAreAnswered ==
    \A p \in Watched :
        (p \in unanswered) ~> (answered = p \/ p \notin InLoop)

\* What "env save" stored in the root directory is there again after a
\* restart: the first turn of the console restores every saved value, before
\* any other command can read it.
EnvComesBack ==
    [][booting /\ ~booting' =>
          \A k \in DOMAIN saved :
              k \in DOMAIN store'.vars /\ store'.vars[k].text = saved[k]]_vars
==============================================================================
