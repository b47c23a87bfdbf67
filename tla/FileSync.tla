------------------------------- MODULE FileSync -------------------------------
(***************************************************************************)
(* Moving files with Helper-Tools/FileExchange/filesync.py: each button    *)
(* runs a thread that sends commands and captures what comes back until    *)
(* there is silence or a timeout, in one capture buffer shared by all of   *)
(* them; the device runs the commands in order, with the commands store,   *)
(* cat, cd, md and dir of app/include/Commands/.                           *)
(*                                                                         *)
(* The device echoes a command, which is not modelled, and answers.  The   *)
(* file of upload t is cut in chunks of UPLOAD_CHUNK_SIZE, the last one of *)
(* LastChunk[t] bytes.  The file that is downloaded is in the root         *)
(* directory, and its dump reaches the tool in several pieces.             *)
(***************************************************************************)
EXTENDS Integers, SequencesExt, FiniteSetsExt

CONSTANTS
    Uploads,     \* the threads that upload, each a file of its own
    Downloads,   \* the threads that download
    Visits,      \* the threads that enter a directory
    Chunks,      \* how many chunks an upload has
    Pieces,      \* in how many pieces a dump arrives
    LastChunk,   \* upload -> the bytes of its last chunk
    MaxStarted,  \* bound: threads started
    MaxManual    \* bound: "store --finish" typed by hand

UPLOAD_CHUNK_SIZE == 48
Nobody  == "nobody"
Threads == Uploads \cup Downloads \cup Visits

\* a thread has one kind of work; an empty file has no chunk
ASSUME FilesAssumption ==
    /\ Uploads \cap Downloads = {} /\ Uploads \cap Visits = {} /\ Downloads \cap Visits = {}
    /\ Nobody \notin Threads
    /\ Chunks \in Nat /\ Pieces \in Nat \ {0}
    /\ LastChunk \in [Uploads -> 1 .. UPLOAD_CHUNK_SIZE]

VARIABLES
    thread,      \* thread -> the command it sent last, 0 before the first
    waiting,     \* threads in execute_and_capture
    result,      \* thread -> "none", "complete", "failed"
    commands,    \* sent, not yet run by the device: [by, n]
    answers,     \* on their way back: [by, n, what, piece]
    capture,     \* [active, chunks]
    tool,        \* [path, dump]: the directory shown, the pieces downloaded
    handle,      \* _currentFile of the store command: whose, or Nobody
    allocated,   \* it has a block
    content,     \* the bytes of the block: [by, n] with its length
    stored,      \* upload -> the content of its file on the device
    directory,   \* currentDirectory of the console
    manual,      \* commands typed by hand
    blind        \* a thread went on without its command's answer (history)

device == <<handle, allocated, content, stored, directory>>
yvars == <<thread, waiting, result, commands, answers, capture, tool, device, manual, blind>>

Size(t, n) == IF n = Chunks THEN LastChunk[t] ELSE UPLOAD_CHUNK_SIZE

\* the work of each button; new folders are made and entered the same way
UploadWork   == <<"alloc">> \o [n \in 1 .. Chunks |-> "append"] \o <<"finish">>
DownloadWork == <<"cat">>
VisitWork    == <<"cd", "dir">>
Work(t) == CASE t \in Uploads   -> UploadWork
             [] t \in Downloads -> DownloadWork
             [] t \in Visits    -> VisitWork
Done(t) == thread[t] = Len(Work(t))

\* Base64::decode takes "==" for one byte of padding and makes a second byte
Decoded(bytes) == IF bytes % 3 = 1 THEN bytes + 1 ELSE bytes

YInit ==
    /\ thread = [t \in Threads |-> 0] /\ waiting = {}
    /\ result = [t \in Threads |-> "none"]
    /\ commands = <<>> /\ answers = <<>>
    /\ capture = [active |-> FALSE, chunks |-> <<>>]
    /\ tool = [path |-> "root", dump |-> <<>>]
    /\ handle = Nobody /\ allocated = FALSE /\ content = <<>>
    /\ stored = [t \in Uploads |-> <<>>] /\ directory = "root"
    /\ manual = 0 /\ blind = FALSE

-----------------------------------------------------------------------------
(***************************************************************************)
(* The tool.                                                               *)
(***************************************************************************)

\* the start of execute_and_capture
SendCommand(t) ==
    /\ t \notin waiting /\ result[t] = "none"
    /\ thread[t] = 0 => Cardinality({u \in Threads : thread[u] > 0}) < MaxStarted
    /\ thread' = [thread EXCEPT ![t] = @ + 1]
    /\ waiting' = waiting \cup {t}
    /\ commands' = Append(commands, [by |-> t, n |-> thread[t] + 1])
    /\ capture' = [active |-> TRUE, chunks |-> <<>>]
    /\ UNCHANGED <<result, answers, tool, device, manual, blind>>

Captured(what) == \E a \in Range(capture.chunks) : a.what = what

\* what the thread captured of the answer to its own command, and that it is all of it
Own(t)  == {a \in Range(capture.chunks) : a.by = t /\ a.n = thread[t]}
Seen(t) == /\ Own(t) # {}
           /\ (\E a \in Own(t) : a.what = "hex") => {a.piece : a \in Own(t)} = 1 .. Pieces

\* parse_hex_bytes takes every line of bytes that was captured
TakeBytes(dump, a) == IF a.what = "hex" THEN Append(dump, a.piece) ELSE dump
Dump == FoldLeft(TakeBytes, <<>>, capture.chunks)

UploadResult(t) ==
    IF Captured("Error:") THEN "failed" ELSE IF Done(t) THEN "complete" ELSE "none"
DownloadResult == IF Dump = <<>> /\ Captured("not found") THEN "failed" ELSE "complete"
VisitResult(t) == IF Done(t) THEN "complete" ELSE "none"

\* a path that cannot be parsed leaves the one shown
Listings  == {i \in DOMAIN capture.chunks : capture.chunks[i].what \in {"root", "sub"}}
PathShown == IF Listings = {} THEN tool.path ELSE capture.chunks[Min(Listings)].what

\* the loop of execute_and_capture ends at any time: when the time is up, or
\* when the line was silent behind the echo or a part of the answer
CaptureEnds(t) ==
    /\ t \in waiting
    /\ waiting' = waiting \ {t}
    /\ capture' = [active |-> FALSE, chunks |-> <<>>]
    /\ blind' = (blind \/ ~Seen(t))
    /\ result' = [result EXCEPT ![t] = CASE t \in Uploads   -> UploadResult(t)
                                         [] t \in Downloads -> DownloadResult
                                         [] t \in Visits    -> VisitResult(t)]
    /\ tool' = [path |-> IF t \in Visits /\ Done(t) THEN PathShown ELSE tool.path,
                dump |-> IF t \in Downloads THEN Dump ELSE tool.dump]
    /\ UNCHANGED <<thread, commands, answers, device, manual>>

\* send_manual_command
ManualFinish ==
    /\ manual < MaxManual
    /\ manual' = manual + 1
    /\ commands' = Append(commands, [by |-> Nobody, n |-> 1])
    /\ UNCHANGED <<thread, waiting, result, answers, capture, tool, device, blind>>

\* _reader_loop: what comes while no thread captures is only shown
Receive ==
    /\ answers # <<>>
    /\ answers' = Tail(answers)
    /\ capture' = IF capture.active
                  THEN [capture EXCEPT !.chunks = Append(@, Head(answers))] ELSE capture
    /\ UNCHANGED <<thread, waiting, result, commands, tool, device, manual, blind>>

-----------------------------------------------------------------------------
(***************************************************************************)
(* The device.                                                             *)
(***************************************************************************)
Runs(c, op) == op = IF c.by = Nobody THEN "finish" ELSE Work(c.by)[c.n]

AnsweredIn(c, pieces) ==
    /\ commands' = Tail(commands)
    /\ answers' = answers \o [i \in DOMAIN pieces |->
                                 [by |-> c.by, n |-> c.n, what |-> pieces[i], piece |-> i]]
    /\ UNCHANGED <<thread, waiting, result, capture, tool, manual, blind>>
Answered(c, what) == AnsweredIn(c, <<what>>)

\* slip: an open file is not looked at
AllocAnyway(c) ==
    /\ Runs(c, "alloc")
    /\ handle' = c.by /\ allocated' = TRUE /\ content' = <<>>
    /\ UNCHANGED <<stored, directory>>
    /\ Answered(c, "ok")

\* StoreCommand::execute: the file is kept before its block is allocated, and
\* stays open for good when there is no room for it
StoreAlloc(c) ==
    /\ Runs(c, "alloc")
    /\ IF handle # Nobody THEN Answered(c, "Error:") /\ UNCHANGED <<handle, allocated, content>>
       ELSE /\ handle' = c.by /\ content' = <<>>
            /\ \/ allocated' = TRUE  /\ Answered(c, "ok")
               \/ allocated' = FALSE /\ Answered(c, "Error:")
    /\ UNCHANGED <<stored, directory>>

StoreAppend(c) ==
    /\ Runs(c, "append")
    /\ IF ~allocated THEN Answered(c, "Error:") /\ UNCHANGED content
       ELSE /\ content' = Append(content, [by |-> c.by, n |-> c.n - 1,
                                           length |-> Decoded(Size(c.by, c.n - 1))])
            /\ Answered(c, "ok")
    /\ UNCHANGED <<handle, allocated, stored, directory>>

StoreFinish(c) ==
    /\ Runs(c, "finish")
    /\ IF ~allocated
       THEN Answered(c, "Error:") /\ UNCHANGED <<handle, allocated, content, stored>>
       ELSE /\ stored' = [stored EXCEPT ![handle] = content]
            /\ handle' = Nobody /\ allocated' = FALSE /\ content' = <<>>
            /\ Answered(c, "ok")
    /\ UNCHANGED directory

\* CatCommand --hex
Cat(c) ==
    /\ Runs(c, "cat")
    /\ IF directory = "root" THEN AnsweredIn(c, [i \in 1 .. Pieces |-> "hex"])
       ELSE Answered(c, "not found")
    /\ UNCHANGED device

ChangeDir(c) ==
    /\ Runs(c, "cd")
    /\ directory' = "sub"
    /\ Answered(c, "ok")
    /\ UNCHANGED <<handle, allocated, content, stored>>

Dir(c) ==
    /\ Runs(c, "dir")
    /\ Answered(c, directory)
    /\ UNCHANGED device

DeviceRuns ==
    /\ commands # <<>>
    /\ LET c == Head(commands)
       IN  \/ StoreAlloc(c) \/ StoreAppend(c) \/ StoreFinish(c)
           \/ Cat(c) \/ ChangeDir(c) \/ Dir(c)

YNext ==
    \/ \E t \in Threads : SendCommand(t) \/ CaptureEnds(t)
    \/ ManualFinish
    \/ Receive
    \/ DeviceRuns

YSpec == YInit /\ [][YNext]_yvars

-----------------------------------------------------------------------------
\* a file closed by hand while two are uploaded may be the other one's
Meddled == manual > 0 /\ \E t, u \in Uploads : t # u /\ thread[t] > 0 /\ thread[u] > 0

Exactly(t) ==
    /\ [i \in DOMAIN stored[t] |-> [by |-> stored[t][i].by, n |-> stored[t][i].n]]
          = [i \in 1 .. Chunks |-> [by |-> t, n |-> i]]
    /\ \A i \in 1 .. Chunks : Size(t, i) % 3 # 1 => stored[t][i].length = Size(t, i)

\* When the tool reports an upload complete, the file on the device is the one
\* that was uploaded, each chunk once and in its place, also when two uploads
\* run at once, when one takes the other's answers out of the capture buffer
\* or clears it, when there is no room, and when the file is closed by hand:
\* whatever goes wrong, the upload is reported failed.  A download that
\* succeeds has all of its file, once, also when the device is led to another
\* directory meanwhile, and the directory shown is the one the device is in.
\* All that holds as long as every thread saw the answers of its commands:
\* silence between the echo and the answer, a timeout, or a buffer that
\* another thread cleared passes for success.  A chunk whose length is one more
\* than a multiple of three gets a byte too many, see Decoded.
CompleteIsExact ==
    \A t \in Threads : result[t] = "complete" /\ ~blind =>
        /\ t \in Uploads /\ ~Meddled => Exactly(t)
        /\ t \in Downloads => tool.dump = [i \in 1 .. Pieces |-> i]
        /\ t \in Visits => tool.path = directory
===============================================================================
