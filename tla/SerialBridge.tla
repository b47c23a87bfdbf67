---------------------------- MODULE SerialBridge ----------------------------
(***************************************************************************)
(* The serial server (Helper-Tools/SerialServer/serial_network_server.py): *)
(* TCP clients share one console on a serial port.                         *)
(*                                                                         *)
(* Four kinds of threads share the state of SerialNetworkBridge: one per   *)
(* client turns lines into jobs; the dispatcher writes one job at a time   *)
(* to the port; the reader collects the answer; the manager opens the      *)
(* port.  Dispatcher and reader both run _mark_serial_disconnected, and    *)
(* every thread but the manager runs _remove_client.  Only the set of      *)
(* clients and the port are read under a lock: every access to active_job  *)
(* and active_response is a step of its own wherever another thread can    *)
(* tell the difference.                                                    *)
(*                                                                         *)
(* A job is <<client, n>>, the client's n-th line.  What the device prints *)
(* for it is two tokens, of which the second ends in the prompt.  stop()   *)
(* and what the device prints unasked are left out.                        *)
(***************************************************************************)
EXTENDS Naturals, FiniteSets, SequencesExt

CONSTANTS
    Clients,      \* one per accepted socket
    Commands,     \* Commands[c]: bound on the lines client c sends
    MaxLosses,    \* bound: how often the device is unplugged
    MaxOpens,     \* bound: how often the manager opens the port
    None          \* Python's None where a job is expected

Jobs == UNION {{c} \X (1 .. Commands[c]) : c \in Clients}

ASSUME BridgeAssumption ==
    /\ Commands \in [Clients -> Nat]
    /\ MaxLosses \in Nat /\ MaxOpens \in Nat
    /\ None \notin Jobs

Threads == {"dispatcher", "reader"}
Tokens == [of : Jobs, prompt : BOOLEAN]

VARIABLES
    peer,         \* a client's socket: away, here, left (the peer closed it), closed
    received,     \* lines received from each client
    hands,        \* the local jobs of each client's thread, extracted and not yet queued
    clients,      \* self.clients
    queue,        \* self.command_queue
    active,       \* self.active_job
    response,     \* self.active_response
    port,         \* self.serial_port: the number of the port object, 0 for None
    live,         \* the number of the port object that works, 0 if none does
    opened,       \* ports opened so far
    losses,       \* times the device was unplugged so far
    wire,         \* commands the device has not executed yet
    out,          \* what the device printed and nobody has read yet
    th,           \* where dispatcher and reader are, and their locals
    rm,           \* the _remove_client of each client: where it is, in whose thread
    (* history, read by the properties only *)
    written,      \* the port object a job was written to, 0 before
    answers,      \* what was sent for a job: per answer the jobs whose output is in it
    missed        \* jobs whose awaited answer a race threw away

vars == <<peer, received, hands, clients, queue, active, response, port, live,
          opened, losses, wire, out, th, rm, written, answers, missed>>

socketVars == <<peer, received, hands>>
deviceVars == <<live, opened, losses, wire, out>>
historyVars == <<written, answers, missed>>

Waiting(pc) == [pc |-> pc, port |-> 0, job |-> None, act |-> None, got |-> <<>>]
NotRemoving == [pc |-> "no", by |-> "nobody", kept |-> <<>>]

Init ==
    /\ peer = [c \in Clients |-> "away"] /\ received = [c \in Clients |-> 0]
    /\ hands = [c \in Clients |-> <<>>]
    /\ clients = {} /\ queue = <<>> /\ active = None /\ response = <<>>
    /\ port = 0 /\ live = 0 /\ opened = 0 /\ losses = 0 /\ wire = <<>> /\ out = <<>>
    /\ th = [t \in Threads |-> Waiting(IF t = "dispatcher" THEN "take" ELSE "fetch")]
    /\ rm = [c \in Clients |-> NotRemoving]
    /\ written = [j \in Jobs |-> 0] /\ answers = [j \in Jobs |-> <<>>] /\ missed = {}

Owners(tokens) == {tokens[i].of : i \in DOMAIN tokens}

\* a client or the dispatcher waits for the answer
Due(j) == answers[j] = <<>> /\ (j[1] \in clients \/ j \in {active, th["dispatcher"].job})

\* a thread waits while it runs a _remove_client
At(t, pc) == th[t].pc = pc /\ \A c \in Clients : rm[c].by # t

Goto(t, locals) == th' = [th EXCEPT ![t] = locals]

-----------------------------------------------------------------------------
(***************************************************************************)
(* The world: clients, device, and the thread that opens the port.         *)
(***************************************************************************)

\* _accept_loop
Accept(c) ==
    /\ peer[c] = "away"
    /\ peer' = [peer EXCEPT ![c] = "here"]
    /\ clients' = clients \cup {c}
    /\ UNCHANGED <<received, hands, queue, active, response, port, deviceVars, th, rm, historyVars>>

Leave(c) ==
    /\ peer[c] = "here"
    /\ peer' = [peer EXCEPT ![c] = "left"]
    /\ UNCHANGED <<received, hands, clients, queue, active, response, port, deviceVars, th, rm, historyVars>>

\* the device executes a command; what it prints is lost while no port is open
Execute ==
    /\ wire # <<>>
    /\ wire' = Tail(wire)
    /\ out' = IF live = 0 THEN out
              ELSE out \o <<[of |-> Head(wire), prompt |-> FALSE], [of |-> Head(wire), prompt |-> TRUE]>>
    /\ UNCHANGED <<socketVars, clients, queue, active, response, port, live, opened, losses, th, rm, historyVars>>

Unplug ==
    /\ live # 0 /\ losses < MaxLosses
    /\ losses' = losses + 1
    /\ live' = 0 /\ wire' = <<>> /\ out' = <<>>
    /\ UNCHANGED <<socketVars, clients, queue, active, response, port, opened, th, rm, historyVars>>

\* _serial_manager_loop; opening a port discards its input
OpenPort ==
    /\ port = 0 /\ opened < MaxOpens
    /\ opened' = opened + 1
    /\ port' = opened + 1 /\ live' = opened + 1
    /\ out' = <<>>
    /\ UNCHANGED <<socketVars, clients, queue, active, response, losses, wire, th, rm, historyVars>>

-----------------------------------------------------------------------------
(***************************************************************************)
(* _remove_client, in the thread "by".  Only the first call for a client   *)
(* goes beyond the lock.                                                   *)
(***************************************************************************)
StartRemoval(c, by) ==
    /\ peer' = [peer EXCEPT ![c] = "closed"]
    /\ clients' = clients \ {c}
    /\ rm' = IF c \in clients THEN [rm EXCEPT ![c] = [pc |-> "drain", by |-> by, kept |-> <<>>]]
             ELSE rm

\* slip: the condition turned round
KeepsOwn(c, item) == item[1] = c

Keeps(c, item) == item[1] # c

\* one get_nowait of the loop that empties the queue
Drain(c) ==
    /\ rm[c].pc = "drain"
    /\ IF queue = <<>>
       THEN /\ rm' = [rm EXCEPT ![c].pc = "refill"]
            /\ UNCHANGED queue
       ELSE /\ rm' = [rm EXCEPT ![c].kept = IF Keeps(c, Head(queue)) THEN Append(@, Head(queue)) ELSE @]
            /\ queue' = Tail(queue)
    /\ UNCHANGED <<socketVars, clients, active, response, port, deviceVars, th, historyVars>>

Refill(c) ==
    /\ rm[c].pc = "refill"
    /\ IF rm[c].kept = <<>>
       THEN /\ rm' = [rm EXCEPT ![c].pc = "test"]
            /\ UNCHANGED queue
       ELSE /\ rm' = [rm EXCEPT ![c].kept = Tail(@)]
            /\ queue' = Append(queue, Head(rm[c].kept))
    /\ UNCHANGED <<socketVars, clients, active, response, port, deviceVars, th, historyVars>>

\* self.active_job is not None
TestActive(c) ==
    /\ rm[c].pc = "test"
    /\ rm' = [rm EXCEPT ![c] = IF active = None THEN NotRemoving ELSE [@ EXCEPT !.pc = "compare"]]
    /\ UNCHANGED <<socketVars, clients, queue, active, response, port, deviceVars, th, historyVars>>

\* self.active_job.client is client: reads active_job again, and None has no client
CompareActive(c) ==
    /\ rm[c].pc = "compare"
    /\ IF active # None /\ active[1] = c
       THEN rm' = [rm EXCEPT ![c].pc = "clear"]
       ELSE rm' = [rm EXCEPT ![c] = NotRemoving]
    /\ th' = [t \in Threads |-> IF active = None /\ rm[c].by = t THEN Waiting("dead") ELSE th[t]]
    /\ UNCHANGED <<socketVars, clients, queue, active, response, port, deviceVars, historyVars>>

ClearRemoved(c) ==
    /\ rm[c].pc = "clear"
    /\ active' = None
    /\ missed' = IF active # None /\ Due(active) THEN missed \cup {active} ELSE missed
    /\ rm' = [rm EXCEPT ![c].pc = "reset"]
    /\ UNCHANGED <<socketVars, clients, queue, response, port, deviceVars, th, written, answers>>

ResetRemoved(c) ==
    /\ rm[c].pc = "reset"
    /\ response' = <<>>
    /\ missed' = missed \cup {j \in Owners(response) : Due(j)}
    /\ rm' = [rm EXCEPT ![c] = NotRemoving]
    /\ UNCHANGED <<socketVars, clients, queue, active, port, deviceVars, th, written, answers>>

Removal(c) ==
    \/ Drain(c) \/ Refill(c)
    \/ TestActive(c) \/ CompareActive(c)
    \/ ClearRemoved(c) \/ ResetRemoved(c)

-----------------------------------------------------------------------------
(***************************************************************************)
(* _client_loop.                                                           *)
(***************************************************************************)

\* recv returns k more lines, which become jobs under the lock
Receive(c) ==
    /\ peer[c] \in {"here", "left"} /\ c \in clients /\ hands[c] = <<>>
    /\ \E k \in 1 .. Commands[c] :
          /\ received[c] + k <= Commands[c]
          /\ received' = [received EXCEPT ![c] = @ + k]
          /\ hands' = [hands EXCEPT ![c] = [i \in 1 .. k |-> <<c, received[c] + i>>]]
    /\ UNCHANGED <<peer, clients, queue, active, response, port, deviceVars, th, rm, historyVars>>

\* goes on although the client was removed meanwhile
Put(c) ==
    /\ hands[c] # <<>>
    /\ queue' = Append(queue, Head(hands[c]))
    /\ hands' = [hands EXCEPT ![c] = Tail(@)]
    /\ UNCHANGED <<peer, received, clients, active, response, port, deviceVars, th, rm, historyVars>>

\* recv returns nothing
EndClient(c) ==
    /\ peer[c] = "left" /\ hands[c] = <<>>
    /\ StartRemoval(c, "client")
    /\ UNCHANGED <<received, hands, queue, active, response, port, deviceVars, th, historyVars>>

-----------------------------------------------------------------------------
(***************************************************************************)
(* Sending.  sendall fails on a closed socket, and may fail on one whose   *)
(* peer has left; one that does not read for half a second counts as left. *)
(***************************************************************************)
Send(t, job, content) ==
    \/ /\ peer[job[1]] # "closed"
       /\ answers' = [answers EXCEPT ![job] = Append(@, content)]
       /\ UNCHANGED <<peer, clients, rm>>
    \/ /\ peer[job[1]] \in {"left", "closed"}
       /\ StartRemoval(job[1], t)
       /\ UNCHANGED answers

(***************************************************************************)
(* _mark_serial_disconnected, in the thread t.                             *)
(***************************************************************************)
\* slip: the port is forgotten and not closed
MarkForgets(t) ==
    /\ At(t, "close")
    /\ port' = 0
    /\ Goto(t, [th[t] EXCEPT !.pc = "look at active", !.port = 0])
    /\ UNCHANGED <<socketVars, clients, queue, active, response, deviceVars, rm, historyVars>>

MarkClose(t) ==
    /\ At(t, "close")
    /\ port' = 0 /\ live' = 0
    /\ Goto(t, [th[t] EXCEPT !.pc = "look at active", !.port = 0])
    /\ UNCHANGED <<socketVars, clients, queue, active, response, opened, losses, wire, out, rm, historyVars>>

MarkRead(t) ==
    /\ At(t, "look at active")
    /\ Goto(t, [th[t] EXCEPT !.pc = "clear active", !.act = active])
    /\ UNCHANGED <<socketVars, clients, queue, active, response, port, deviceVars, rm, historyVars>>

\* the dispatcher still answers the job it could not write
AfterMark(t) == IF t = "dispatcher" THEN [th[t] EXCEPT !.pc = "offline", !.act = None]
                ELSE Waiting("fetch")

\* slip: active_job stays
MarkKeepsActive(t) ==
    /\ At(t, "clear active")
    /\ response' = <<>>
    /\ Goto(t, IF th[t].act = None THEN AfterMark(t) ELSE [th[t] EXCEPT !.pc = "notify"])
    /\ UNCHANGED <<socketVars, clients, queue, active, port, deviceVars, rm, historyVars>>

MarkClear(t) ==
    /\ At(t, "clear active")
    /\ active' = None /\ response' = <<>>
    /\ missed' = IF active # th[t].act /\ active # None /\ Due(active) THEN missed \cup {active}
                 ELSE missed
    /\ Goto(t, IF th[t].act = None THEN AfterMark(t) ELSE [th[t] EXCEPT !.pc = "notify"])
    /\ UNCHANGED <<socketVars, clients, queue, port, deviceVars, rm, written, answers>>

MarkNotify(t) ==
    /\ At(t, "notify")
    /\ Send(t, th[t].act, {})
    /\ Goto(t, AfterMark(t))
    /\ UNCHANGED <<received, hands, queue, active, response, port, deviceVars, written, missed>>

Mark(t) == MarkClose(t) \/ MarkRead(t) \/ MarkClear(t) \/ MarkNotify(t)

-----------------------------------------------------------------------------
(***************************************************************************)
(* _dispatch_loop.                                                         *)
(***************************************************************************)
\* slip: without looking at active_job
TakeAnyJob ==
    /\ At("dispatcher", "take")
    /\ queue # <<>>
    /\ Goto("dispatcher", [th["dispatcher"] EXCEPT !.pc = "check", !.job = Head(queue)])
    /\ queue' = Tail(queue)
    /\ UNCHANGED <<socketVars, clients, active, response, port, deviceVars, rm, historyVars>>

TakeJob ==
    /\ At("dispatcher", "take")
    /\ active = None /\ queue # <<>>
    /\ Goto("dispatcher", [th["dispatcher"] EXCEPT !.pc = "check", !.job = Head(queue)])
    /\ queue' = Tail(queue)
    /\ UNCHANGED <<socketVars, clients, active, response, port, deviceVars, rm, historyVars>>

CheckClient ==
    /\ At("dispatcher", "check")
    /\ Goto("dispatcher", IF th["dispatcher"].job[1] \in clients
                          THEN [th["dispatcher"] EXCEPT !.pc = "port"] ELSE Waiting("take"))
    /\ UNCHANGED <<socketVars, clients, queue, active, response, port, deviceVars, rm, historyVars>>

DispatcherPort ==
    /\ At("dispatcher", "port")
    /\ Goto("dispatcher", [th["dispatcher"] EXCEPT !.pc = IF port = 0 THEN "offline" ELSE "write",
                                                   !.port = port])
    /\ UNCHANGED <<socketVars, clients, queue, active, response, port, deviceVars, rm, historyVars>>

WriteJob ==
    /\ At("dispatcher", "write")
    /\ LET d == th["dispatcher"] IN
       IF d.port = live
       THEN /\ wire' = Append(wire, d.job)
            /\ written' = [written EXCEPT ![d.job] = live]
            /\ Goto("dispatcher", [d EXCEPT !.pc = "activate"])
       ELSE /\ Goto("dispatcher", [d EXCEPT !.pc = "close"])
            /\ UNCHANGED <<wire, written>>
    /\ UNCHANGED <<socketVars, clients, queue, active, response, port, live, opened, losses, out, rm,
                   answers, missed>>

\* the port went since the write and nobody is about to fail the active job
PortGone == port # th["dispatcher"].port /\ th["reader"].pc \notin {"look at active", "clear active"}

SetActive ==
    /\ At("dispatcher", "activate")
    /\ LET d == th["dispatcher"] IN
       /\ active' = d.job
       /\ missed' = IF PortGone /\ Due(d.job) THEN missed \cup {d.job} ELSE missed
       /\ Goto("dispatcher", [Waiting("reset") EXCEPT !.job = d.job])
    /\ UNCHANGED <<socketVars, clients, queue, response, port, deviceVars, rm, written, answers>>

ResetResponse ==
    /\ At("dispatcher", "reset")
    /\ response' = <<>>
    /\ missed' = missed \cup {j \in Owners(response) : Due(j)}
    /\ Goto("dispatcher", Waiting("take"))
    /\ UNCHANGED <<socketVars, clients, queue, active, port, deviceVars, rm, written, answers>>

\* <device not connected>
AnswerOffline ==
    /\ At("dispatcher", "offline")
    /\ Send("dispatcher", th["dispatcher"].job, {})
    /\ Goto("dispatcher", Waiting("take"))
    /\ UNCHANGED <<received, hands, queue, active, response, port, deviceVars, written, missed>>

Dispatcher ==
    \/ TakeJob \/ CheckClient \/ DispatcherPort \/ WriteJob
    \/ SetActive \/ ResetResponse \/ AnswerOffline

-----------------------------------------------------------------------------
(***************************************************************************)
(* _serial_reader_loop and _finish_active_response.                        *)
(***************************************************************************)
ReaderPort ==
    /\ At("reader", "fetch") /\ port # 0
    /\ Goto("reader", [th["reader"] EXCEPT !.pc = "read", !.port = port])
    /\ UNCHANGED <<socketVars, clients, queue, active, response, port, deviceVars, rm, historyVars>>

\* as much as has arrived; a port that was closed or has gone raises
Read ==
    /\ At("reader", "read")
    /\ IF th["reader"].port = live
       THEN \E n \in 1 .. Len(out) :
               /\ out' = SubSeq(out, n + 1, Len(out))
               /\ Goto("reader", [Waiting("look") EXCEPT !.got = SubSeq(out, 1, n)])
       ELSE /\ Goto("reader", Waiting("close"))
            /\ UNCHANGED out
    /\ UNCHANGED <<socketVars, clients, queue, active, response, port, live, opened, losses, wire, rm,
                   historyVars>>

\* with no active job the device is taken to speak unasked
Look ==
    /\ At("reader", "look")
    /\ IF active = None
       THEN /\ missed' = missed \cup {j \in Owners(th["reader"].got) : Due(j)}
            /\ Goto("reader", Waiting("fetch"))
       ELSE /\ Goto("reader", [th["reader"] EXCEPT !.pc = "extend"])
            /\ UNCHANGED missed
    /\ UNCHANGED <<socketVars, clients, queue, active, response, port, deviceVars, rm, written, answers>>

Extend ==
    /\ At("reader", "extend")
    /\ response' = response \o th["reader"].got
    /\ Goto("reader", Waiting("complete"))
    /\ UNCHANGED <<socketVars, clients, queue, active, port, deviceVars, rm, historyVars>>

\* _is_response_complete: the text ends in a prompt
IsComplete(tokens) == tokens # <<>> /\ Last(tokens).prompt

TestComplete ==
    /\ At("reader", "complete")
    /\ Goto("reader", Waiting(IF IsComplete(response) THEN "grab" ELSE "fetch"))
    /\ UNCHANGED <<socketVars, clients, queue, active, response, port, deviceVars, rm, historyVars>>

Grab ==
    /\ At("reader", "grab")
    /\ Goto("reader", IF active = None THEN Waiting("fetch")
                      ELSE [Waiting("finish") EXCEPT !.act = active, !.got = response])
    /\ UNCHANGED <<socketVars, clients, queue, active, response, port, deviceVars, rm, historyVars>>

\* slip: active_job stays
FinishKeepsActive ==
    /\ At("reader", "finish")
    /\ response' = <<>>
    /\ Goto("reader", [th["reader"] EXCEPT !.pc = "send"])
    /\ UNCHANGED <<socketVars, clients, queue, active, port, deviceVars, rm, historyVars>>

Finish ==
    /\ At("reader", "finish")
    /\ active' = None /\ response' = <<>>
    /\ missed' = IF active # th["reader"].act /\ active # None /\ Due(active)
                 THEN missed \cup {active} ELSE missed
    /\ Goto("reader", [th["reader"] EXCEPT !.pc = "send"])
    /\ UNCHANGED <<socketVars, clients, queue, port, deviceVars, rm, written, answers>>

SendResponse ==
    /\ At("reader", "send")
    /\ Send("reader", th["reader"].act, Owners(th["reader"].got))
    /\ Goto("reader", Waiting("fetch"))
    /\ UNCHANGED <<received, hands, queue, active, response, port, deviceVars, written, missed>>

Reader ==
    \/ ReaderPort \/ Read \/ Look \/ Extend
    \/ TestComplete \/ Grab \/ Finish \/ SendResponse

-----------------------------------------------------------------------------
Next ==
    \/ \E c \in Clients : \/ Accept(c) \/ Leave(c) \/ Receive(c) \/ Put(c)
                          \/ EndClient(c) \/ Removal(c)
    \/ Execute \/ Unplug \/ OpenPort
    \/ Dispatcher \/ Reader
    \/ \E t \in Threads : Mark(t)

\* Threads run and the device executes what it gets.  Nobody has to connect, send,
\* unplug or plug in.
Fairness ==
    /\ \A c \in Clients : WF_vars(Put(c)) /\ WF_vars(EndClient(c)) /\ WF_vars(Removal(c))
    /\ WF_vars(Execute)
    /\ WF_vars(Dispatcher \/ Mark("dispatcher"))
    /\ WF_vars(Reader \/ Mark("reader"))

Spec == Init /\ [][Next]_vars /\ Fairness
-----------------------------------------------------------------------------
(***************************************************************************)
(* Properties.                                                             *)
(***************************************************************************)

DispatcherSteps == {"take", "check", "port", "write", "activate", "reset", "offline"}
ReaderSteps == {"fetch", "read", "look", "extend", "complete", "grab", "finish", "send"}
MarkSteps == {"close", "look at active", "clear active", "notify"}
RemovalSteps == {"no", "drain", "refill", "test", "compare", "clear", "reset"}

Locals == [pc : DispatcherSteps \cup ReaderSteps \cup MarkSteps \cup {"dead"},
           port : 0 .. MaxOpens, job : Jobs \cup {None}, act : Jobs \cup {None},
           got : Seq(Tokens)]
Removals == [pc : RemovalSteps, by : Threads \cup {"client", "nobody"}, kept : Seq(Jobs)]

\* The types of the variables; the open port object is the bridge's own, because
\* _mark_serial_disconnected closes the one it forgets.
TypeOK ==
    /\ peer \in [Clients -> {"away", "here", "left", "closed"}]
    /\ received \in [Clients -> Nat] /\ \A c \in Clients : received[c] <= Commands[c]
    /\ hands \in [Clients -> Seq(Jobs)]
    /\ clients \subseteq Clients /\ queue \in Seq(Jobs)
    /\ active \in Jobs \cup {None} /\ response \in Seq(Tokens)
    /\ port \in 0 .. MaxOpens /\ live \in {0, port} /\ opened \in port .. MaxOpens
    /\ losses \in 0 .. MaxLosses
    /\ wire \in Seq(Jobs) /\ out \in Seq(Tokens)
    /\ th \in [Threads -> Locals] /\ rm \in [Clients -> Removals]
    /\ written \in [Jobs -> 0 .. MaxOpens] /\ answers \in [Jobs -> Seq(SUBSET Jobs)]
    /\ missed \subseteq Jobs

Received(j) == j[2] <= received[j[1]]

Where(j, jobs) == {i \in DOMAIN jobs : jobs[i] = j}

\* where a job that was not written yet can be
Slots(j) ==
    {<<"hands", i>> : i \in Where(j, hands[j[1]])}
    \cup {<<"queue", i>> : i \in Where(j, queue)}
    \cup (UNION {{<<"kept", c, i>> : i \in Where(j, rm[c].kept)} : c \in Clients})
    \cup (IF th["dispatcher"].job = j /\ written[j] = 0 THEN {<<"dispatcher">>} ELSE {})

\* A command of a connected client is in exactly one place until it is written or
\* answered, and in none afterwards: emptying and refilling the queue for a client
\* that leaves, while the dispatcher takes from it and other clients put into it,
\* neither loses nor doubles a command (_remove_client, command_queue).
QueuedOnce ==
    \A j \in Jobs :
       j[1] \in clients /\ Received(j) =>
          Cardinality(Slots(j)) = IF written[j] = 0 /\ answers[j] = <<>> THEN 1 ELSE 0

\* No command is answered twice, although the reader's answer, the failure of the
\* active command when the port goes and the dispatcher's own failing write
\* compete for it (_finish_active_response, _mark_serial_disconnected).
AnsweredOnce == \A j \in Jobs : Len(answers[j]) <= 1

\* a command nobody waits for any more, although the device may still work on it
GivenUp(k) ==
    k[1] \notin clients \/ k \in missed \/ \E i \in DOMAIN answers[k] : k \notin answers[k][i]

\* An answer holds another command's output only if that command was given up: its
\* client is gone, it was answered without its output when the port went, or a race
\* threw its output away.  For all others one command is in flight at a time
\* (_dispatch_loop).
StrayOnlyAbandoned ==
    \A j, k \in Jobs :
       (k # j /\ \E i \in DOMAIN answers[j] : k \in answers[j][i]) => GivenUp(k)

\* "The response is routed back only to the client that sent the command."
\* (serial_network_server.py, line 11)
RoutedToSender ==
    \A j \in Jobs : \A i \in DOMAIN answers[j] : \A k \in answers[j][i] : k[1] = j[1]

\* Every command of a client that stays connected is answered, by the device or
\* with <device not connected>, unless one of the races "missed" names has thrown an
\* answer away, or a thread died of reading active_job twice (line 364).
CommandsAnswered ==
    \A j \in Jobs :
       Received(j) ~> \/ answers[j] # <<>>
                      \/ j[1] \notin clients
                      \/ missed # {}
                      \/ \E t \in Threads : th[t].pc = "dead"
=============================================================================
