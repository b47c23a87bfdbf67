----------------------------- MODULE VariableStore -----------------------------
(***************************************************************************)
(* The variable store (app/src/VariableStore/VariableStore.cpp and the     *)
(* variable types of app/include/VariableStore/): named, typed variables;  *)
(* a callback per key, through which a device follows its variable; and a  *)
(* signal per key, raised when the variable changes.                       *)
(*                                                                         *)
(* A store is a record, and every operation an operator on stores, so that *)
(* a console command that makes several calls is still one step:           *)
(*    vars       key -> [type, text, system, hooked]                       *)
(*    callbacks  key -> what the registered callback does with a text      *)
(*    signals    key -> its signal                                         *)
(*    shown      key -> the text its device acted on last                  *)
(*    behind     keys whose device need not show the variable (history)    *)
(*    raised     signals raised by the operation                           *)
(* A text is a word or a number, counted in halves so that truncation can  *)
(* be seen; a word reads as the number 0, which is what strtof and strtoll *)
(* make of it.  An integer's display format and the digits of a printed    *)
(* float are left out.                                                     *)
(***************************************************************************)
EXTENDS Integers, FiniteSetsExt

Num(halves) == [word |-> "", halves |-> halves]
Word(w)     == [word |-> w, halves |-> 0]
True        == Word("true")
False       == Word("false")

IsText(t) == t.halves \in Int
Types == {"STRING", "INT", "FLOAT", "BOOL", "LINEAR"}

\* a float cast to an int loses its fraction, whatever its sign
Truncated(h) == IF h >= 0 THEN (h \div 2) * 2 ELSE -((-h) \div 2) * 2

\* IVariable::set(const std::string&) of each type: whether it takes the text,
\* and the value it then holds, as a text.  A linear variable is created with
\* the multiplier 2 and the offset 1/2.
AsString(t) == t
AsInt(t)    == Num(Truncated(t.halves))
AsFloat(t)  == Num(t.halves)
AsLinear(t) == Num(2 * t.halves + 1)
AsBool(t)   == IF t \in {True, Num(2)} THEN True ELSE False

Takes(type, t) == type = "BOOL" => t \in {True, Num(2), False, Num(0)}
Convert(type, t) ==
    CASE type = "STRING" -> AsString(t)
      [] type = "INT"    -> AsInt(t)
      [] type = "FLOAT"  -> AsFloat(t)
      [] type = "LINEAR" -> AsLinear(t)
      [] type = "BOOL"   -> AsBool(t)

\* a value that is read back as it was written, which that of a linear variable
\* is not
Saveable(type, t) == type \in Types \ {"LINEAR"} /\ Convert(type, t) = t

\* The callbacks the factories register.  A display and a baud rate take any
\* text, a duty cycle only 0 to 100, a status only a word of its colour map;
\* the callback of a UART's format acts on the text and then refuses it.
Callbacks == {"display", "duty", "status", "format"}
DisplayAgrees(t) == TRUE
DutyAgrees(t)    == t.halves \in 0 .. 200
StatusAgrees(t)  == t.word \in {"Idle", "Error"}
FormatAgrees(t)  == FALSE
Agrees(kind, t) ==
    CASE kind = "display" -> DisplayAgrees(t)
      [] kind = "duty"    -> DutyAgrees(t)
      [] kind = "status"  -> StatusAgrees(t)
      [] kind = "format"  -> FormatAgrees(t)
ActsOn(kind, t) == Agrees(kind, t) \/ (kind = "format" /\ t.word \in {"8n1", "7e1"})

EmptyStore == [vars |-> <<>>, callbacks |-> <<>>, signals |-> <<>>, shown |-> <<>>,
               behind |-> {}, raised |-> {}]

With(f, k, e) == [x \in DOMAIN f \cup {k} |-> IF x = k THEN e ELSE f[x]]

Has(s, k)  == k \in DOMAIN s.vars
Holds(s, k, t) == [s EXCEPT !.vars[k].text = Convert(s.vars[k].type, t)]

\* findAndReplaceVariables: an unknown variable's name stays in the line
Lookup(s, k) == IF Has(s, k) THEN s.vars[k].text ELSE Word("$")

\* The callback of k, if there is one, is called with t.
Called(s, k, t) ==
    IF k \in DOMAIN s.callbacks /\ ActsOn(s.callbacks[k], t)
    THEN [s EXCEPT !.shown[k] = t,
                   !.behind = IF Agrees(s.callbacks[k], t) THEN @ \ {k} ELSE @ \cup {k}]
    ELSE s
Refuses(s, k, t) == k \in DOMAIN s.callbacks /\ ~Agrees(s.callbacks[k], t)

\* valueChangedCallback raises the signal of a variable that a callback was
\* registered for
Raised(s, k) ==
    IF s.vars[k].hooked /\ k \in DOMAIN s.signals
    THEN [s EXCEPT !.raised = @ \cup {s.signals[k]}] ELSE s

\* slip: the callback's verdict is not asked
SetVariableAnyway(s, k, t) ==
    IF Has(s, k) /\ Takes(s.vars[k].type, t)
    THEN [ok |-> TRUE, store |-> Holds(Raised(Called(s, k, t), k), k, t)]
    ELSE [ok |-> FALSE, store |-> s]

\* setVariable: the callback decides first, and has acted when the variable
\* then does not take the text.  The result is [ok, store].
SetVariable(s, k, t) ==
    LET called == Called(s, k, t)
    IN  IF Refuses(s, k, t) THEN [ok |-> FALSE, store |-> called]
        ELSE IF ~Has(s, k) THEN [ok |-> FALSE, store |-> called]
        ELSE IF ~Takes(s.vars[k].type, t)
        THEN [ok |-> FALSE, store |-> [called EXCEPT !.behind = @ \cup ({k} \cap DOMAIN s.callbacks)]]
        ELSE [ok |-> TRUE, store |-> Holds(Raised(called, k), k, t)]

\* IVariable::set, called on the variable itself: the callback is given the
\* value the variable still has, and the new one is stored after it agrees
SetDirectly(s, k, t) ==
    LET old    == s.vars[k].text
        called == IF s.vars[k].hooked THEN Called(Raised(s, k), k, old) ELSE s
    IN  IF ~Takes(s.vars[k].type, t) THEN s
        ELSE IF s.vars[k].hooked /\ Refuses(s, k, old) THEN called
        ELSE [Holds(called, k, t) EXCEPT
                 !.behind = IF k \in DOMAIN s.callbacks THEN @ \cup {k} ELSE @]

New(type, t, system) ==
    [type |-> type, text |-> Convert(type, t), system |-> system, hooked |-> FALSE]

\* addVariable sets a variable that exists and keeps its type
AddVariable(s, k, type, t) ==
    IF Has(s, k) THEN SetVariable(s, k, t).store
    ELSE [s EXCEPT !.vars = With(@, k, New(type, t, FALSE))]
SetSystemVariable(s, k) == [s EXCEPT !.vars[k].system = TRUE]

\* registerVariable keeps a variable that exists
RegisterVariable(s, k, type) ==
    IF Has(s, k) THEN s
    ELSE [s EXCEPT !.vars = With(@, k, [New("FLOAT", Num(0), TRUE) EXCEPT !.type = type])]

\* What setupVariable of a factory does for a device that starts with t: the
\* variable gets the default first, so the callback of a device of the same
\* name, opened before, is called with it, and then replaced.
SetupVariable(s, k, type, kind, t) ==
    LET added == SetSystemVariable(AddVariable(s, k, type, t), k)
    IN  [added EXCEPT
            !.vars[k].hooked = TRUE,
            !.callbacks = With(@, k, kind),
            !.shown = With(@, k, t),
            !.behind = IF /\ added.vars[k].text = Convert(added.vars[k].type, t)
                          /\ ActsOn(kind, t)
                       THEN @ \ {k} ELSE @ \cup {k}]

\* registerSignal keeps the signal a key has
RegisterSignal(s, k, sig) ==
    IF k \in DOMAIN s.signals THEN s ELSE [s EXCEPT !.signals = With(@, k, sig)]

\* slip: a float is saved as an integer
JsonTypeInteger(v) == IF v.type = "FLOAT" THEN "INT" ELSE v.type

\* saveToFile leaves the system variables out.  JSON prints a float without a
\* fraction like an integer, and is<int>() then takes it for one.
JsonType(v) ==
    IF v.type = "FLOAT" /\ v.text.halves % 2 = 0 THEN "INT" ELSE v.type
SaveToFile(s) ==
    [k \in {k \in DOMAIN s.vars : ~s.vars[k].system} |->
        [type |-> JsonType(s.vars[k]), text |-> s.vars[k].text]]

\* loadFromFile
LoadFromFile(s, doc) ==
    LET Load(k, loaded) ==
            IF Has(loaded, k) THEN SetDirectly(loaded, k, doc[k].text)
            ELSE [loaded EXCEPT !.vars = With(@, k, New(doc[k].type, doc[k].text, FALSE))]
    IN  FoldSet(Load, s, DOMAIN doc)
================================================================================
