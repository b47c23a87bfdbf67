------------------------------ MODULE LineEditor ------------------------------
(***************************************************************************)
(* The console's input line: Console::ReadUART collects what is typed,     *)
(* VariableStore::findAndReplaceVariables puts values into the line, and   *)
(* Console::ExecuteLine splits it into words (app/src/Console.cpp,         *)
(* app/src/VariableStore/VariableStore.cpp).  Quotes are tracked twice, by *)
(* ReadUART while they are typed and by ExecuteLine when the line is run.  *)
(* The echo and the prompt are left out; what the words do is in Shell.    *)
(***************************************************************************)
EXTENDS Integers, SequencesExt, FiniteSetsExt

CONSTANTS
    Keys,      \* printing characters that are typed
    Values,    \* name -> the characters of its value
    MaxLine    \* bound: the longest line

VARIABLES
    inputBuffer,       \* the characters typed
    openingQuoteChar,  \* the quote ReadUART is in, or NoQuote
    outcome,           \* of the line just run, or "none": "words", "unclosed", "hung"
    irregular          \* a quote was erased (history)

evars == <<inputBuffer, openingQuoteChar, outcome, irregular>>

Quotes == {"'", "\""}
NoQuote == ""
Blank == " "
Backslash == "\\"

-----------------------------------------------------------------------------
(***************************************************************************)
(* findAndReplaceVariables: $name, ${name} in quotes, $[name].             *)
(***************************************************************************)
Closing == [b \in {"{", "["} |-> IF b = "{" THEN "}" ELSE "]"]
IndexFrom(s, chars, from) ==
    LET at == {i \in from .. Len(s) : s[i] \in chars}
    IN  IF at = {} THEN 0 ELSE Min(at)
NameEnd(s, from) ==
    LET at == IndexFrom(s, {Blank, "\r", "\n"}, from) IN IF at = 0 THEN Len(s) + 1 ELSE at
Known(name) == name \in DOMAIN Values
Spliced(s, from, to, value) == SubSeq(s, 1, from - 1) \o value \o SubSeq(s, to, Len(s))
Hung == <<"hung">>

RECURSIVE Replaced(_, _)
Replaced(s, pos) ==
    LET d == IndexFrom(s, {"$"}, pos)
        bracket == IF d \in 1 .. Len(s) - 1 THEN s[d + 1] ELSE Blank
        close == IF bracket \in DOMAIN Closing THEN IndexFrom(s, {Closing[bracket]}, d)
                 ELSE NameEnd(s, d + 1)
        name  == IF bracket \in DOMAIN Closing THEN SubSeq(s, d + 2, close - 1)
                 ELSE SubSeq(s, d + 1, close - 1)
        next  == IF bracket \in DOMAIN Closing THEN close + 1 ELSE close
        value == IF bracket = "{" THEN <<"\"">> \o Values[name] \o <<"\"">> ELSE Values[name]
    IN  IF d = 0 THEN s
        \* the escape goes, and the search goes on one character late
        ELSE IF d > 1 /\ s[d - 1] = Backslash
             THEN Replaced(SubSeq(s, 1, d - 2) \o SubSeq(s, d, Len(s)), d + 1)
        ELSE IF close = 0 THEN Hung          \* the search starts at d again
        ELSE IF Known(name) THEN Replaced(Spliced(s, d, next, value), d + Len(value))
        ELSE Replaced(s, next)

(***************************************************************************)
(* ExecuteLine: the words, and the quote left open.                        *)
(***************************************************************************)
Split(line) ==
    LET Step(state, i) ==
            LET c == line[i] IN
            IF state.escaped THEN [state EXCEPT !.token = Append(@, c), !.escaped = FALSE]
            ELSE IF c = Backslash /\ i < Len(line) THEN [state EXCEPT !.escaped = TRUE]
            ELSE IF state.quote = NoQuote /\ c \in Quotes THEN [state EXCEPT !.quote = c]
            ELSE IF state.quote # NoQuote /\ c = state.quote
                 THEN [state EXCEPT !.quote = NoQuote]
            ELSE IF state.quote = NoQuote /\ c = Blank
                 THEN [state EXCEPT !.token = <<>>,
                          !.tokens = IF state.token = <<>> THEN @ ELSE Append(@, state.token)]
            ELSE [state EXCEPT !.token = Append(@, c)]
        end == FoldLeft(Step, [tokens |-> <<>>, token |-> <<>>, escaped |-> FALSE,
                               quote |-> NoQuote],
                        [i \in DOMAIN line |-> i])
    IN  [quote |-> end.quote,
         tokens |-> IF end.token = <<>> THEN end.tokens ELSE Append(end.tokens, end.token)]

ExecuteLine(line) ==
    LET processed == Replaced(line, 1)
    IN  IF processed = Hung THEN "hung"
        ELSE IF Split(processed).quote # NoQuote THEN "unclosed" ELSE "words"

-----------------------------------------------------------------------------
EInit ==
    /\ inputBuffer = <<>> /\ openingQuoteChar = NoQuote
    /\ outcome = "none" /\ irregular = FALSE

\* slip: any quote closes a quote
TypeAnyQuote(c) ==
    /\ Len(inputBuffer) < MaxLine /\ outcome # "hung"
    /\ inputBuffer' = Append(inputBuffer, c)
    /\ openingQuoteChar' = IF c \notin Quotes THEN openingQuoteChar
                           ELSE IF openingQuoteChar = NoQuote THEN c ELSE NoQuote
    /\ outcome' = "none" /\ UNCHANGED irregular

Type(c) ==
    /\ Len(inputBuffer) < MaxLine /\ outcome # "hung"
    /\ inputBuffer' = Append(inputBuffer, c)
    /\ openingQuoteChar' = IF c \notin Quotes THEN openingQuoteChar
                           ELSE IF openingQuoteChar = NoQuote THEN c
                           ELSE IF openingQuoteChar = c THEN NoQuote ELSE openingQuoteChar
    /\ outcome' = "none" /\ UNCHANGED irregular

\* Backspace takes the last character and leaves openingQuoteChar alone
Backspace ==
    /\ inputBuffer # <<>> /\ outcome # "hung"
    /\ inputBuffer' = Front(inputBuffer)
    /\ irregular' = (irregular \/ Last(inputBuffer) \in Quotes)
    /\ outcome' = "none" /\ UNCHANGED openingQuoteChar

\* In quotes Enter is a part of the line, else the line is run
Enter ==
    /\ outcome # "hung"
    /\ IF openingQuoteChar # NoQuote
       THEN /\ Len(inputBuffer) < MaxLine
            /\ inputBuffer' = inputBuffer \o <<"\r", "\n">>
            /\ UNCHANGED <<outcome, irregular>>
       ELSE /\ inputBuffer' = <<>> /\ irregular' = FALSE
            /\ outcome' = IF inputBuffer = <<>> THEN outcome ELSE ExecuteLine(inputBuffer)
    /\ UNCHANGED openingQuoteChar

ENext == (\E c \in Keys : Type(c)) \/ Backspace \/ Enter

-----------------------------------------------------------------------------
Plain(s) == Backslash \notin ToSet(s) /\ "$" \notin ToSet(s)

\* ReadUART decides with its own quote whether Enter ends the line, and
\* ExecuteLine with another whether the line is complete: for a line without
\* escapes and variables, in which no quote was erased, they agree at every
\* key, so that no such line is run with a quote open or held back with none.
\* A '${name}' never makes words of its own: it leaves the number of words of
\* the line what it is with one letter in its place.
QuotesAgree ==
    LET withVar == Replaced(inputBuffer, 1)
    IN  /\ ~irregular /\ Plain(inputBuffer) =>
              openingQuoteChar = Split(inputBuffer).quote
        /\ \A name \in DOMAIN Values :
              LET use == <<"$", "{">> \o name \o <<"}">>
              IN  Plain(inputBuffer) /\ Split(inputBuffer).quote = NoQuote =>
                    Len(Split(Replaced(inputBuffer \o <<Blank>> \o use, 1)).tokens)
                        = Len(Split(inputBuffer).tokens) + 1
===============================================================================
