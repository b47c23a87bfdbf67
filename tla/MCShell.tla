------------------------------- MODULE MCShell -------------------------------
(***************************************************************************)
(* An instance of Shell for TLC: one display "d", a variable "a" that users *)
(* copy to it, and the lines that bring the parts together.                *)
(***************************************************************************)
EXTENDS Shell

Set(op, k, t, from) == [op |-> op, key |-> k, text |-> t, from |-> from]
CopyToDisplay == Set("set", "d", Num(0), "a")
OpenDisplay(kind) ==
    [op |-> "open", device |-> "disp",
     variables |-> {[key |-> "d", type |-> IF kind = "duty" THEN "FLOAT" ELSE "STRING",
                     kind |-> kind,
                     text |-> CASE kind = "duty" -> Num(100) [] kind = "format" -> Word("8n1")
                                [] kind = "status" -> Word("Idle") [] kind = "display" -> Num(0)]}]

Lines ==
    {\* signals and handlers
     [op |-> "handle", filter |-> "edge", command |-> CopyToDisplay],
     [op |-> "emit", signal |-> "edge"],
     [op |-> "stop", pid |-> 1], [op |-> "kill", pid |-> 1],
     \* devices and types
     OpenDisplay("duty"), OpenDisplay("format"), OpenDisplay("status"),
     [op |-> "create", key |-> "d"],
     [op |-> "readout", key |-> "d"], [op |-> "time", key |-> "d"],
     Set("set", "d", Word("x"), ""), Set("set", "d", Num(-3), ""), CopyToDisplay,
     Set("add", "d", Num(3), ""), Set("add", "a", Num(5), ""),
     \* the env file
     [op |-> "exec", from |-> "", text |-> Word("again")], [op |-> "save"], [op |-> "load"],
     [op |-> "cd", directory |-> "sub"]}

\* the script most boards start with, a display whose value is copied back,
\* and one to start by hand
StartUp ==
    [n \in {"startup.sh", "again"} |->
        IF n = "again" THEN <<CopyToDisplay>>
        ELSE <<OpenDisplay("display"), [op |-> "var", key |-> "d", signal |-> "d"],
               [op |-> "handle", filter |-> "d", command |-> Set("add", "a", Num(0), "d")]>>]

\* no file yet, and two that name a script the board does not have
Stored ==
    {<<>>,
     [k \in {"a", "init-script"} |->
         IF k = "a" THEN [type |-> "FLOAT", text |-> Num(3)]
                    ELSE [type |-> "STRING", text |-> Word("none")]],
     [k \in {"d", "init-script"} |->
         IF k = "d" THEN [type |-> "BOOL", text |-> True]
                    ELSE [type |-> "STRING", text |-> Word("none")]]}

\* the lines, and what scripts and signal handlers execute
AllLines ==
    LET scripted == Lines \cup UNION {{StartUp[n][i] : i \in DOMAIN StartUp[n]} : n \in DOMAIN StartUp}
    IN  scripted \cup {c.command : c \in {c \in scripted : c.op = "handle"}}
==============================================================================
