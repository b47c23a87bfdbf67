------------------------- MODULE SerialBridgeProofs -------------------------
(***************************************************************************)
(* Proofs about the serial server: where its threads can be, that the      *)
(* queue neither loses nor doubles a job, that none is answered twice, and *)
(* that output of one in another's answer is of one that was given up.     *)
(***************************************************************************)
EXTENDS SerialBridge, TLAPS, SequenceTheorems, FiniteSetTheorems

(***************************************************************************)
(* Where the threads are, and what they hold there.                        *)
(***************************************************************************)
Disp == th["dispatcher"]
Rdr  == th["reader"]

\* the dispatcher has taken a job and not yet set or answered it
Holding == {"check", "port", "write", "activate", "close", "look at active", "clear active", "offline"}

\* While the dispatcher holds a job no job is active, so that it never fails one
\* in _mark_serial_disconnected.
DispatcherInv ==
    /\ Disp.pc \in Holding \cup {"take", "reset", "dead"}
    /\ Disp.act = None
    /\ Disp.pc \in Holding => Disp.job \in Jobs /\ active = None
    /\ Disp.pc = "reset" => Disp.job \in Jobs
    /\ Disp.pc \in {"take", "dead"} => Disp.job = None
    /\ Disp.pc = "write" => Disp.port # 0

\* The reader holds the job it is about to answer.
Answering == {"finish", "send", "clear active", "notify"}

ReaderInv ==
    /\ Rdr.pc \in ReaderSteps \cup MarkSteps \cup {"dead"}
    /\ Rdr.job = None
    /\ Rdr.pc \notin Answering => Rdr.act = None
    /\ Rdr.pc \in {"finish", "send", "notify"} => Rdr.act \in Jobs

\* A client is removed once, with its socket closed, by a thread that stands still.
RemovalInv ==
    \A c \in Clients :
       /\ rm[c].pc # "no" => peer[c] = "closed" /\ c \notin clients
       /\ rm[c].pc = "no" => rm[c].by = "nobody"
       /\ rm[c].pc \notin {"drain", "refill"} => rm[c].kept = <<>>
       /\ rm[c].by = "dispatcher" => Disp.pc \in {"take", "dead"}
       /\ rm[c].by = "reader" => Rdr.pc \in {"fetch", "dead"}
       /\ peer[c] = "away" => received[c] = 0

StepInv == TypeOK /\ DispatcherInv /\ ReaderInv /\ RemovalInv

(***************************************************************************)
(* The places of a job.                                                    *)
(***************************************************************************)
Handed(c) == Range(hands[c])
Queued    == Range(queue)
Kept(c)   == Range(rm[c].kept)
Held(j)   == Disp.pc \in Holding \ {"activate"} /\ Disp.job = j
Waits(j)  == Received(j) /\ written[j] = 0 /\ answers[j] = <<>>

\* What waits in a place was received, not written and not answered, and is in no
\* other place.
OnceInv ==
    /\ \A c \in Clients :
          /\ IsInjective(hands[c]) /\ IsInjective(rm[c].kept)
          /\ \A j \in Handed(c) : j[1] = c /\ Waits(j) /\ j \notin Queued /\ ~Held(j)
          /\ \A j \in Kept(c) : Waits(j) /\ j \notin Queued /\ ~Held(j) /\ j \notin Handed(j[1])
    /\ IsInjective(queue) /\ \A j \in Queued : Waits(j) /\ ~Held(j)
    /\ \A c, d \in Clients : c # d => Kept(c) \cap Kept(d) = {}

\* What a connected client waits for is somewhere.
SomewhereInv ==
    \A j \in Jobs : j[1] \in clients /\ Waits(j) =>
        \/ j \in Handed(j[1]) \cup Queued \/ Held(j)
        \/ \E c \in Clients : j \in Kept(c)

\* The job in the dispatcher's hands, the active one and the one the reader is
\* answering are not answered, and they are different jobs.
AnswerInv ==
    /\ \A j \in Jobs : /\ Len(answers[j]) <= 1
                       /\ written[j] # 0 => Received(j)
                       /\ answers[j] # <<>> => Received(j)
    /\ Disp.pc \in Holding => Received(Disp.job) /\ answers[Disp.job] = <<>>
    /\ Disp.pc \in Holding \ {"activate"} => written[Disp.job] = 0
    /\ Disp.pc \in {"activate", "reset"} => written[Disp.job] # 0
    /\ active # None => written[active] # 0 /\ answers[active] = <<>>
    /\ Rdr.act # None => written[Rdr.act] # 0 /\ answers[Rdr.act] = <<>>
    /\ Rdr.pc \in {"send", "notify"} => active # Rdr.act
    /\ Disp.pc \in Holding => Disp.job # Rdr.act

JobInv == OnceInv /\ SomewhereInv /\ AnswerInv

LEMMA JobParts ==
    ASSUME NEW j \in Jobs
    PROVE  /\ j[1] \in Clients /\ j[2] \in Nat /\ j[2] >= 1 /\ j[2] <= Commands[j[1]]
           /\ j = <<j[1], j[2]>>
BY BridgeAssumption DEF Jobs

LEMMA PartsJob ==
    ASSUME NEW c \in Clients, NEW n \in 1 .. Commands[c]
    PROVE  <<c, n>> \in Jobs
BY DEF Jobs

LEMMA StepInit == Init => StepInv
<1>. SUFFICES ASSUME Init PROVE StepInv
  OBVIOUS
<1>1. Disp = Waiting("take") /\ Rdr = Waiting("fetch")
  BY DEF Init, Threads, Disp, Rdr
<1>2. TypeOK
  <2>1. th \in [Threads -> Locals]
    BY BridgeAssumption DEF Init, Waiting, DispatcherSteps, ReaderSteps, Locals
  <2>2. rm \in [Clients -> Removals]
    BY DEF Init, NotRemoving, RemovalSteps, Removals
  <2>3. /\ hands \in [Clients -> Seq(Jobs)] /\ answers \in [Jobs -> Seq(SUBSET Jobs)]
        /\ written \in [Jobs -> 0 .. MaxOpens]
    BY BridgeAssumption DEF Init
  <2>4. /\ peer \in [Clients -> {"away", "here", "left", "closed"}]
        /\ received \in [Clients -> Nat] /\ \A c \in Clients : received[c] <= Commands[c]
    BY BridgeAssumption DEF Init
  <2>. QED  BY <2>1, <2>2, <2>3, <2>4, BridgeAssumption DEF Init, TypeOK
<1>3. DispatcherInv /\ ReaderInv
  BY <1>1 DEF Waiting, DispatcherInv, ReaderInv, Holding, Answering, ReaderSteps
<1>4. RemovalInv
  BY DEF Init, NotRemoving, RemovalInv
<1>. QED  BY <1>2, <1>3, <1>4 DEF StepInv

(***************************************************************************)
(* The world, and _remove_client.                                          *)
(***************************************************************************)
LEMMA StepWorld ==
    ASSUME StepInv,
           \/ \E c \in Clients : Accept(c) \/ Leave(c)
           \/ Execute \/ Unplug \/ OpenPort
    PROVE  StepInv'
<1>. USE DEF StepInv, deviceVars, historyVars, socketVars
<1>1. ASSUME NEW c \in Clients, Accept(c) \/ Leave(c) PROVE StepInv'
  <2>1. TypeOK'
    BY <1>1 DEF Accept, Leave, TypeOK
  <2>2. DispatcherInv' /\ ReaderInv'
    BY <1>1 DEF Accept, Leave, DispatcherInv, ReaderInv, Disp, Rdr
  <2>3. RemovalInv'
    BY <1>1 DEF Accept, Leave, RemovalInv, Disp, Rdr, TypeOK
  <2>. QED  BY <2>1, <2>2, <2>3
<1>2. CASE Execute \/ Unplug \/ OpenPort
  <2>1. /\ UNCHANGED <<peer, received, hands, clients, queue, active, response, th, rm, written,
                       answers, missed>>
        /\ port' \in 0 .. MaxOpens /\ live' \in {0, port'} /\ opened' \in port' .. MaxOpens
        /\ losses' \in 0 .. MaxLosses
        /\ wire' \in Seq(Jobs) /\ out' \in Seq(Tokens)
    <3>1. CASE Execute
      <4>1. Head(wire) \in Jobs /\ Tail(wire) \in Seq(Jobs)
        BY <3>1, HeadTailProperties DEF Execute, TypeOK
      <4>2. <<[of |-> Head(wire), prompt |-> FALSE], [of |-> Head(wire), prompt |-> TRUE]>>
               \in Seq(Tokens)
        BY <4>1 DEF Tokens
      <4>3. out' \in Seq(Tokens)
        BY <3>1, <4>2 DEF Execute, TypeOK
      <4>. QED  BY <3>1, <4>1, <4>3 DEF Execute, TypeOK
    <3>2. CASE Unplug
      BY <3>2, BridgeAssumption DEF Unplug, TypeOK
    <3>3. CASE OpenPort
      BY <3>3, BridgeAssumption DEF OpenPort, TypeOK
    <3>. QED  BY <1>2, <3>1, <3>2, <3>3
  <2>2. TypeOK'
    BY <2>1 DEF TypeOK
  <2>. QED  BY <2>1, <2>2 DEF DispatcherInv, ReaderInv, RemovalInv, Disp, Rdr
<1>. QED  BY <1>1, <1>2

\* The _remove_client of c is now at pc, with these locals.
Removing(c, pc, by, kept) ==
    /\ rm' \in [Clients -> Removals]
    /\ rm'[c].pc = pc /\ rm'[c].by = by /\ rm'[c].kept = kept
    /\ \A d \in Clients : d # c => rm'[d] = rm[d]

LEMMA DrainStep ==
    ASSUME StepInv, NEW c \in Clients, Drain(c)
    PROVE  /\ rm[c].pc = "drain"
           /\ \/ /\ queue = <<>> /\ queue' = queue
                 /\ Removing(c, "refill", rm[c].by, rm[c].kept)
              \/ /\ queue # <<>> /\ Head(queue) \in Jobs /\ queue' = Tail(queue)
                 /\ Tail(queue) \in Seq(Jobs)
                 /\ Keeps(c, Head(queue)) /\ Removing(c, "drain", rm[c].by, Append(rm[c].kept, Head(queue)))
              \/ /\ queue # <<>> /\ Head(queue) \in Jobs /\ queue' = Tail(queue)
                 /\ Tail(queue) \in Seq(Jobs)
                 /\ ~Keeps(c, Head(queue)) /\ Removing(c, "drain", rm[c].by, rm[c].kept)
<1>0. rm \in [Clients -> Removals] /\ rm[c].pc = "drain" /\ queue \in Seq(Jobs)
  BY DEF StepInv, TypeOK, Drain
<1>1. CASE queue = <<>>
  BY <1>0, <1>1, ZenonT(60) DEF Drain, Removing, Removals, RemovalSteps
<1>2. CASE queue # <<>>
  <2>1. Head(queue) \in Jobs /\ Tail(queue) \in Seq(Jobs)
    BY <1>0, <1>2, HeadTailProperties
  <2>2. Append(rm[c].kept, Head(queue)) \in Seq(Jobs)
    BY <1>0, <2>1 DEF Removals
  <2>3. CASE Keeps(c, Head(queue))
    BY <1>0, <1>2, <2>1, <2>2, <2>3, ZenonT(60) DEF Drain, Removing, Removals
  <2>4. CASE ~Keeps(c, Head(queue))
    BY <1>0, <1>2, <2>1, <2>4 DEF Drain, Removing, Removals
  <2>. QED  BY <2>3, <2>4
<1>. QED  BY <1>1, <1>2

LEMMA RefillStep ==
    ASSUME StepInv, NEW c \in Clients, Refill(c)
    PROVE  /\ rm[c].pc = "refill"
           /\ \/ /\ rm[c].kept = <<>> /\ queue' = queue
                 /\ Removing(c, "test", rm[c].by, <<>>)
              \/ /\ rm[c].kept # <<>> /\ Head(rm[c].kept) \in Jobs
                 /\ queue' = Append(queue, Head(rm[c].kept)) /\ queue' \in Seq(Jobs)
                 /\ Removing(c, "refill", rm[c].by, Tail(rm[c].kept))
<1>0. rm \in [Clients -> Removals] /\ rm[c].pc = "refill" /\ queue \in Seq(Jobs)
      /\ rm[c].kept \in Seq(Jobs)
  BY DEF StepInv, TypeOK, Refill, Removals
<1>1. CASE rm[c].kept = <<>>
  BY <1>0, <1>1, ZenonT(60) DEF Refill, Removing, Removals, RemovalSteps
<1>2. CASE rm[c].kept # <<>>
  <2>1. Head(rm[c].kept) \in Jobs /\ Tail(rm[c].kept) \in Seq(Jobs)
    BY <1>0, <1>2, HeadTailProperties
  <2>2. Append(queue, Head(rm[c].kept)) \in Seq(Jobs)
    BY <1>0, <2>1
  <2>. QED  BY <1>0, <1>2, <2>1, <2>2 DEF Refill, Removing, Removals
<1>. QED  BY <1>1, <1>2

\* The four last steps of _remove_client
LEMMA RemovalEnds ==
    ASSUME StepInv, NEW c \in Clients,
           TestActive(c) \/ CompareActive(c) \/ ClearRemoved(c) \/ ResetRemoved(c)
    PROVE  /\ rm[c].pc # "no" /\ rm[c].kept = <<>>
           /\ \/ Removing(c, "no", "nobody", <<>>)
              \/ \E pc \in {"compare", "clear", "reset"} : Removing(c, pc, rm[c].by, <<>>)
<1>1. /\ rm \in [Clients -> Removals]
      /\ rm[c].pc \in {"test", "compare", "clear", "reset"} /\ rm[c].kept = <<>>
  BY DEF StepInv, TypeOK, RemovalInv, TestActive, CompareActive, ClearRemoved, ResetRemoved
<1>2. NotRemoving \in Removals
  BY DEF NotRemoving, Removals, RemovalSteps
<1>3. ASSUME rm' = [rm EXCEPT ![c] = NotRemoving] PROVE Removing(c, "no", "nobody", <<>>)
  BY <1>1, <1>2, <1>3 DEF Removing, NotRemoving
<1>4. ASSUME NEW pc \in {"compare", "clear", "reset"}, rm' = [rm EXCEPT ![c].pc = pc]
      PROVE  Removing(c, pc, rm[c].by, <<>>)
  BY <1>1, <1>4 DEF Removing, Removals, RemovalSteps
<1>5. CASE TestActive(c)
  BY <1>1, <1>3, <1>4, <1>5 DEF TestActive
<1>6. CASE CompareActive(c)
  BY <1>1, <1>3, <1>4, <1>6 DEF CompareActive
<1>7. CASE ClearRemoved(c)
  BY <1>1, <1>4, <1>7 DEF ClearRemoved
<1>8. CASE ResetRemoved(c)
  BY <1>1, <1>3, <1>8 DEF ResetRemoved
<1>. QED  BY <1>1, <1>5, <1>6, <1>7, <1>8

LEMMA OwnersType == ASSUME NEW tokens \in Seq(Tokens) PROVE Owners(tokens) \subseteq Jobs
<1>. SUFFICES ASSUME NEW i \in DOMAIN tokens PROVE tokens[i].of \in Jobs
  BY DEF Owners
<1>1. tokens[i] \in Tokens
  BY LenProperties, ElementOfSeq
<1>. QED  BY <1>1 DEF Tokens

LEMMA StepRemoval ==
    ASSUME StepInv, NEW c \in Clients, Removal(c)
    PROVE  StepInv'
<1>. USE DEF StepInv, deviceVars, historyVars, socketVars
<1>1. \E pc, by, kept : Removing(c, pc, by, kept)
                        /\ \/ pc = "no" /\ by = "nobody" /\ kept = <<>>
                           \/ /\ pc # "no" /\ by = rm[c].by
                              /\ pc \notin {"drain", "refill"} => kept = <<>>
  BY DrainStep, RefillStep, RemovalEnds DEF Removal, RemovalInv
<1>2. /\ UNCHANGED <<peer, received, hands, clients, port, live, opened, losses,
                     wire, out, written, answers>>
      /\ rm[c].pc # "no" /\ active' \in {active, None} /\ queue' \in Seq(Jobs)
  <2>1. queue' \in Seq(Jobs)
    BY DrainStep, RefillStep
       DEF Removal, TestActive, CompareActive, ClearRemoved, ResetRemoved, TypeOK
  <2>. QED  BY <2>1 DEF Removal, Drain, Refill, TestActive, CompareActive, ClearRemoved, ResetRemoved
<1>3. response' \in {response, <<>>} /\ missed' \subseteq Jobs
  <2>1. Owners(response) \subseteq Jobs
    BY OwnersType DEF TypeOK
  <2>. QED  BY <2>1 DEF Removal, Drain, Refill, TestActive, CompareActive, ClearRemoved,
                       ResetRemoved, TypeOK
<1>4. /\ DOMAIN th' = Threads /\ th' = [t \in Threads |-> th'[t]]
      /\ \A t \in Threads : \/ th'[t] = th[t]
                            \/ th'[t] = Waiting("dead") /\ rm[c].by = t
  <2>1. CASE CompareActive(c)
    BY <2>1 DEF CompareActive
  <2>2. CASE ~CompareActive(c)
    <3>1. th' = th
      BY <2>2 DEF Removal, Drain, Refill, TestActive, ClearRemoved, ResetRemoved
    <3>. QED  BY <3>1 DEF TypeOK
  <2>. QED  BY <2>1, <2>2
<1>5. Waiting("dead") \in Locals
  BY BridgeAssumption DEF Waiting, Locals
<1>6. TypeOK'
  <2>1. th' \in [Threads -> Locals]
    BY <1>4, <1>5 DEF TypeOK
  <2>2. rm' \in [Clients -> Removals]
    BY <1>1 DEF Removing
  <2>3. active' \in Jobs \cup {None}
    BY <1>2 DEF TypeOK
  <2>5. response' \in Seq(Tokens)
    BY <1>3, EmptySeq DEF TypeOK
  <2>4. /\ peer' \in [Clients -> {"away", "here", "left", "closed"}]
        /\ received' \in [Clients -> Nat] /\ \A d \in Clients : received'[d] <= Commands[d]
        /\ hands' \in [Clients -> Seq(Jobs)] /\ clients' \subseteq Clients
        /\ port' \in 0 .. MaxOpens /\ live' \in {0, port'} /\ opened' \in port' .. MaxOpens
        /\ wire' \in Seq(Jobs) /\ out' \in Seq(Tokens) /\ losses' \in 0 .. MaxLosses
        /\ written' \in [Jobs -> 0 .. MaxOpens] /\ answers' \in [Jobs -> Seq(SUBSET Jobs)]
    BY <1>2 DEF TypeOK
  <2>. QED  BY <1>2, <1>3, <2>1, <2>2, <2>3, <2>4, <2>5 DEF TypeOK
<1>7. /\ Disp' = Disp \/ (Disp.pc \in {"take", "dead"} /\ Disp' = Waiting("dead"))
      /\ Rdr' = Rdr \/ (Rdr.pc \in {"fetch", "dead"} /\ Rdr' = Waiting("dead"))
  BY <1>4 DEF Disp, Rdr, Threads, RemovalInv
<1>8. DispatcherInv'
  <2>1. CASE Disp' = Waiting("dead")
    BY <2>1 DEF DispatcherInv, Waiting, Holding
  <2>2. CASE Disp' = Disp
    BY <1>2, <2>2 DEF DispatcherInv
  <2>. QED  BY <1>7, <2>1, <2>2
<1>9. ReaderInv'
  <2>1. CASE Rdr' = Waiting("dead")
    BY <2>1 DEF ReaderInv, Waiting, Answering
  <2>2. CASE Rdr' = Rdr
    BY <2>2 DEF ReaderInv
  <2>. QED  BY <1>7, <2>1, <2>2
<1>10. RemovalInv'
  BY <1>1, <1>2, <1>7 DEF RemovalInv, Removing, Waiting
<1>. QED  BY <1>6, <1>8, <1>9, <1>10

(***************************************************************************)
(* _client_loop.                                                           *)
(***************************************************************************)
LEMMA StepClient ==
    ASSUME StepInv, NEW c \in Clients, Receive(c) \/ Put(c)
    PROVE  StepInv'
<1>. USE DEF StepInv, deviceVars, historyVars, socketVars
<1>1. /\ UNCHANGED <<peer, clients, active, response, port, live, opened, losses, wire, out, th, rm,
                     written, answers, missed>>
  BY DEF Receive, Put
<1>2. /\ hands' \in [Clients -> Seq(Jobs)] /\ queue' \in Seq(Jobs)
      /\ received' \in [Clients -> Nat] /\ \A d \in Clients : received'[d] <= Commands[d]
      /\ peer[c] = "away" => received'[c] = received[c]
      /\ \A d \in Clients : d # c => received'[d] = received[d]
  <2>1. CASE Receive(c)
    <3>1. PICK k \in 1 .. Commands[c] :
             /\ received[c] + k <= Commands[c]
             /\ received' = [received EXCEPT ![c] = @ + k]
             /\ hands' = [hands EXCEPT ![c] = [i \in 1 .. k |-> <<c, received[c] + i>>]]
      BY <2>1 DEF Receive
    <3>2. received[c] \in Nat /\ Commands[c] \in Nat
      BY BridgeAssumption DEF TypeOK
    <3>3. \A i \in 1 .. k : <<c, received[c] + i>> \in Jobs
      BY <3>1, <3>2, PartsJob
    <3>4. [i \in 1 .. k |-> <<c, received[c] + i>>] \in Seq(Jobs)
      BY <3>1, <3>2, <3>3
    <3>5. hands' \in [Clients -> Seq(Jobs)] /\ queue' = queue
      BY <2>1, <3>1, <3>4 DEF Receive, TypeOK
    <3>6. /\ received' \in [Clients -> Nat] /\ received'[c] = received[c] + k
          /\ \A d \in Clients : d # c => received'[d] = received[d]
      BY <3>1, <3>2 DEF TypeOK
    <3>7. peer[c] # "away"
      BY <2>1 DEF Receive
    <3>. QED  BY <3>1, <3>5, <3>6, <3>7 DEF TypeOK
  <2>2. CASE Put(c)
    <3>1. hands[c] \in Seq(Jobs) /\ hands[c] # <<>>
      BY <2>2 DEF Put, TypeOK
    <3>2. Head(hands[c]) \in Jobs /\ Tail(hands[c]) \in Seq(Jobs)
      BY <3>1, HeadTailProperties
    <3>. QED  BY <2>2, <3>2 DEF Put, TypeOK
  <2>. QED  BY <2>1, <2>2
<1>3. TypeOK'
  BY <1>1, <1>2 DEF TypeOK
<1>4. DispatcherInv' /\ ReaderInv'
  BY <1>1 DEF DispatcherInv, ReaderInv, Disp, Rdr
<1>5. RemovalInv'
  BY <1>1, <1>2 DEF RemovalInv, Disp, Rdr
<1>. QED  BY <1>3, <1>4, <1>5

\* What StartRemoval does, when the thread that runs it is then in its outermost loop.
LEMMA Starting ==
    ASSUME StepInv, NEW c \in Clients, NEW by \in Threads \cup {"client"},
           peer[c] # "away",
           StartRemoval(c, by), UNCHANGED received,
           by = "dispatcher" => Disp'.pc = "take",
           by = "reader" => Rdr'.pc = "fetch",
           \A d \in Clients : rm[d].by = "dispatcher" => Disp'.pc \in {"take", "dead"},
           \A d \in Clients : rm[d].by = "reader" => Rdr'.pc \in {"fetch", "dead"}
    PROVE  /\ peer' \in [Clients -> {"away", "here", "left", "closed"}]
           /\ clients' \subseteq Clients /\ rm' \in [Clients -> Removals]
           /\ RemovalInv'
<1>1. /\ peer \in [Clients -> {"away", "here", "left", "closed"}] /\ rm \in [Clients -> Removals]
      /\ clients \subseteq Clients
  BY DEF StepInv, TypeOK
<1>2. [pc |-> "drain", by |-> by, kept |-> <<>>] \in Removals
  BY EmptySeq DEF Removals, RemovalSteps
<1>3. peer' \in [Clients -> {"away", "here", "left", "closed"}] /\ rm' \in [Clients -> Removals]
  BY <1>1, <1>2 DEF StartRemoval
<1>4. /\ clients' = clients \ {c} /\ peer'[c] = "closed"
      /\ \A d \in Clients : d # c => peer'[d] = peer[d] /\ rm'[d] = rm[d]
      /\ rm'[c] = rm[c] \/ (rm'[c].pc = "drain" /\ rm'[c].by = by /\ rm'[c].kept = <<>>)
  BY <1>1, <1>2 DEF StartRemoval
<1>5. RemovalInv'
  <2>. SUFFICES ASSUME NEW d \in Clients
                PROVE  /\ rm'[d].pc # "no" => peer'[d] = "closed" /\ d \notin clients'
                       /\ rm'[d].pc = "no" => rm'[d].by = "nobody"
                       /\ rm'[d].pc \notin {"drain", "refill"} => rm'[d].kept = <<>>
                       /\ rm'[d].by = "dispatcher" => Disp'.pc \in {"take", "dead"}
                       /\ rm'[d].by = "reader" => Rdr'.pc \in {"fetch", "dead"}
                       /\ peer'[d] = "away" => received'[d] = 0
    BY DEF RemovalInv
  <2>1. /\ rm[d].pc # "no" => peer[d] = "closed" /\ d \notin clients
        /\ rm[d].pc = "no" => rm[d].by = "nobody"
        /\ rm[d].pc \notin {"drain", "refill"} => rm[d].kept = <<>>
        /\ rm[d].by = "dispatcher" => Disp'.pc \in {"take", "dead"}
        /\ rm[d].by = "reader" => Rdr'.pc \in {"fetch", "dead"}
        /\ peer[d] = "away" => received'[d] = 0
    BY DEF StepInv, RemovalInv
  <2>2. CASE d # c
    <3>1. peer'[d] = peer[d] /\ rm'[d] = rm[d] /\ (d \in clients' => d \in clients)
      BY <1>4, <2>2
    <3>. QED  BY <2>1, <3>1
  <2>3. CASE d = c /\ rm'[c] = rm[c]
    <3>1. peer'[d] = "closed" /\ rm'[d] = rm[d] /\ d \notin clients'
      BY <1>4, <2>3
    <3>. QED  BY <2>1, <3>1
  <2>4. CASE d = c /\ rm'[c].pc = "drain" /\ rm'[c].by = by /\ rm'[c].kept = <<>>
    <3>1. peer'[d] = "closed" /\ d \notin clients' /\ rm'[d].pc = "drain" /\ rm'[d].by = by
          /\ rm'[d].kept = <<>>
      BY <1>4, <2>4
    <3>. QED  BY <3>1
  <2>. QED  BY <1>4, <2>2, <2>3, <2>4
<1>. QED  BY <1>1, <1>3, <1>4, <1>5

LEMMA StepEnd ==
    ASSUME StepInv, NEW c \in Clients, EndClient(c)
    PROVE  StepInv'
<1>. USE DEF StepInv, deviceVars, historyVars, socketVars
<1>1. /\ UNCHANGED <<received, hands, queue, active, response, port, live, opened, losses, wire, out,
                     th, written, answers, missed>>
      /\ StartRemoval(c, "client") /\ peer[c] # "away"
  BY DEF EndClient
<1>2. /\ peer' \in [Clients -> {"away", "here", "left", "closed"}]
      /\ clients' \subseteq Clients /\ rm' \in [Clients -> Removals]
      /\ RemovalInv'
  BY <1>1, Starting DEF Disp, Rdr, RemovalInv, Threads
<1>3. TypeOK'
  BY <1>1, <1>2 DEF TypeOK
<1>4. DispatcherInv' /\ ReaderInv'
  BY <1>1 DEF DispatcherInv, ReaderInv, Disp, Rdr
<1>. QED  BY <1>2, <1>3, <1>4

(***************************************************************************)
(* Steps of the dispatcher and the reader.                                 *)
(***************************************************************************)
LEMMA Moves ==
    ASSUME StepInv, NEW t \in Threads, NEW l \in Locals, NEW pc, At(t, pc), Goto(t, l)
    PROVE  /\ th' \in [Threads -> Locals]
           /\ t = "dispatcher" => Disp' = l /\ Rdr' = Rdr
           /\ t = "reader" => Rdr' = l /\ Disp' = Disp
           /\ \A d \in Clients : rm[d].by = "dispatcher" => Disp'.pc \in {"take", "dead"}
           /\ \A d \in Clients : rm[d].by = "reader" => Rdr'.pc \in {"fetch", "dead"}
<1>1. th \in [Threads -> Locals] /\ \A d \in Clients : rm[d].by # t
  BY DEF StepInv, TypeOK, At
<1>2. th' \in [Threads -> Locals] /\ th'[t] = l /\ \A u \in Threads : u # t => th'[u] = th[u]
  BY <1>1 DEF Goto
<1>3. /\ t = "dispatcher" => Disp' = l /\ Rdr' = Rdr
      /\ t = "reader" => Rdr' = l /\ Disp' = Disp
  BY <1>2 DEF Threads, Disp, Rdr
<1>4. \A d \in Clients : /\ rm[d].by = "dispatcher" => Disp.pc \in {"take", "dead"}
                         /\ rm[d].by = "reader" => Rdr.pc \in {"fetch", "dead"}
  BY DEF StepInv, RemovalInv
<1>. QED  BY <1>1, <1>2, <1>3, <1>4 DEF Threads

\* What a step of a thread that sends nothing does to the rest of the state
Quiet ==
    /\ UNCHANGED <<peer, received, hands, clients, opened, losses, rm, answers>>
    /\ queue' \in Seq(Jobs) /\ active' \in Jobs \cup {None} /\ response' \in Seq(Tokens)
    /\ port' \in 0 .. MaxOpens /\ live' \in {0, port'} /\ port' <= opened
    /\ wire' \in Seq(Jobs) /\ out' \in Seq(Tokens)
    /\ written' \in [Jobs -> 0 .. MaxOpens] /\ missed' \subseteq Jobs

LEMMA QuietStep ==
    ASSUME StepInv, NEW t \in Threads, NEW l \in Locals, NEW pc, At(t, pc), Goto(t, l),
           Quiet
    PROVE  TypeOK' /\ RemovalInv'
<1>1. th' \in [Threads -> Locals]
  BY Moves
<1>2. TypeOK'
  <2>1. opened' \in port' .. MaxOpens
    BY BridgeAssumption DEF Quiet, StepInv, TypeOK
  <2>. QED  BY <1>1, <2>1 DEF Quiet, StepInv, TypeOK
<1>3. /\ \A d \in Clients : rm[d].by = "dispatcher" => Disp'.pc \in {"take", "dead"}
      /\ \A d \in Clients : rm[d].by = "reader" => Rdr'.pc \in {"fetch", "dead"}
  BY Moves
<1>4. RemovalInv'
  BY <1>3 DEF Quiet, StepInv, RemovalInv
<1>. QED  BY <1>2, <1>4

\* A step of a thread that sends an answer and goes back to its outermost loop, or in
\* which the dispatcher goes on because it was not the one to send
LEMMA SendStep ==
    ASSUME StepInv, NEW t \in Threads, NEW l \in Locals, NEW pc, At(t, pc), Goto(t, l),
           NEW job \in Jobs, NEW content \in SUBSET Jobs, Send(t, job, content),
           UNCHANGED <<received, hands, queue, active, response, port, deviceVars, written, missed>>,
           t = "dispatcher" => l.pc = "take",
           t = "reader" => l.pc = "fetch"
    PROVE  TypeOK' /\ RemovalInv'
<1>. USE DEF deviceVars
<1>1. /\ th' \in [Threads -> Locals]
      /\ t = "dispatcher" => Disp'.pc = "take"
      /\ t = "reader" => Rdr'.pc = "fetch"
      /\ \A d \in Clients : rm[d].by = "dispatcher" => Disp'.pc \in {"take", "dead"}
      /\ \A d \in Clients : rm[d].by = "reader" => Rdr'.pc \in {"fetch", "dead"}
  BY Moves
<1>2. job[1] \in Clients /\ answers[job] \in Seq(SUBSET Jobs) /\ answers \in [Jobs -> Seq(SUBSET Jobs)]
  BY JobParts DEF StepInv, TypeOK
<1>3. answers' \in [Jobs -> Seq(SUBSET Jobs)]
  <2>1. Append(answers[job], content) \in Seq(SUBSET Jobs)
    BY <1>2
  <2>. QED  BY <1>2, <2>1 DEF Send
<1>4. /\ peer' \in [Clients -> {"away", "here", "left", "closed"}]
      /\ clients' \subseteq Clients /\ rm' \in [Clients -> Removals]
      /\ RemovalInv'
  <2>1. CASE UNCHANGED <<peer, clients, rm>>
    BY <1>1, <2>1 DEF StepInv, TypeOK, RemovalInv
  <2>2. CASE peer[job[1]] # "away" /\ StartRemoval(job[1], t)
    BY <1>1, <1>2, <2>2, Starting DEF Threads
  <2>. QED  BY <2>1, <2>2 DEF Send
<1>5. TypeOK'
  BY <1>1, <1>3, <1>4 DEF StepInv, TypeOK
<1>. QED  BY <1>4, <1>5

\* The locals a thread can have
LEMMA LocalsType ==
    ASSUME StepInv
    PROVE  /\ Disp \in Locals /\ Rdr \in Locals
           /\ \A l \in Locals, pc \in DispatcherSteps \cup ReaderSteps \cup MarkSteps \cup {"dead"} :
                 [l EXCEPT !.pc = pc] \in Locals
           /\ \A pc \in DispatcherSteps \cup ReaderSteps \cup MarkSteps \cup {"dead"} :
                 Waiting(pc) \in Locals
<1>1. Disp \in Locals /\ Rdr \in Locals
  BY DEF StepInv, TypeOK, Threads, Disp, Rdr
<1>2. \A l \in Locals, pc \in DispatcherSteps \cup ReaderSteps \cup MarkSteps \cup {"dead"} :
         [l EXCEPT !.pc = pc] \in Locals
  BY DEF Locals
<1>3. \A pc \in DispatcherSteps \cup ReaderSteps \cup MarkSteps \cup {"dead"} : Waiting(pc) \in Locals
  BY EmptySeq, BridgeAssumption DEF Waiting, Locals
<1>. QED  BY <1>1, <1>2, <1>3

LEMMA QuietDispatcher ==
    ASSUME StepInv, NEW l \in Locals, NEW pc, At("dispatcher", pc), Goto("dispatcher", l), Quiet,
           l.pc \in Holding \cup {"take", "reset", "dead"},
           l.act = None,
           l.pc \in Holding => l.job \in Jobs /\ active' = None,
           l.pc = "reset" => l.job \in Jobs,
           l.pc \in {"take", "dead"} => l.job = None,
           l.pc = "write" => l.port # 0
    PROVE  StepInv'
<1>1. TypeOK' /\ RemovalInv'
  BY QuietStep DEF Threads
<1>2. Disp' = l /\ Rdr' = Rdr
  BY Moves DEF Threads
<1>3. DispatcherInv' /\ ReaderInv'
  BY <1>2 DEF StepInv, DispatcherInv, ReaderInv
<1>. QED  BY <1>1, <1>3 DEF StepInv

LEMMA StepDispatcher ==
    ASSUME StepInv, Dispatcher \/ Mark("dispatcher")
    PROVE  StepInv'
<1>. USE DEF socketVars, deviceVars, historyVars
<1>0. /\ TypeOK /\ DispatcherInv /\ ReaderInv /\ Disp \in Locals
      /\ \A pc \in DispatcherSteps \cup MarkSteps : Waiting(pc) \in Locals
  BY LocalsType DEF StepInv
<1>w. \A pc : /\ Waiting(pc).pc = pc /\ Waiting(pc).job = None /\ Waiting(pc).act = None
              /\ Waiting(pc).port = 0
  BY DEF Waiting
<1>q. /\ queue \in Seq(Jobs) /\ active \in Jobs \cup {None} /\ response \in Seq(Tokens)
      /\ port \in 0 .. MaxOpens /\ 0 \in 0 .. MaxOpens /\ live \in {0, port} /\ port <= opened
      /\ opened \in Nat /\ wire \in Seq(Jobs) /\ out \in Seq(Tokens)
      /\ written \in [Jobs -> 0 .. MaxOpens] /\ missed \subseteq Jobs
  BY <1>0, BridgeAssumption DEF TypeOK
<1>1. CASE TakeJob
  <2>. DEFINE l == [Disp EXCEPT !.pc = "check", !.job = Head(queue)]
  <2>1. Head(queue) \in Jobs /\ Tail(queue) \in Seq(Jobs)
    BY <1>0, <1>1, HeadTailProperties DEF TakeJob, TypeOK
  <2>2. l \in Locals /\ l.pc = "check" /\ l.job \in Jobs /\ l.act = None
    BY <1>0, <2>1 DEF Locals, DispatcherSteps, DispatcherInv
  <2>3. At("dispatcher", "take") /\ Goto("dispatcher", l) /\ active' = None
    BY <1>1 DEF TakeJob, Disp
  <2>4. Quiet
    BY <1>q, <1>1, <2>1 DEF TakeJob, Quiet
  <2>. QED  BY <2>2, <2>3, <2>4, QuietDispatcher DEF Holding
<1>2. CASE CheckClient
  <2>. DEFINE l == IF Disp.job[1] \in clients THEN [Disp EXCEPT !.pc = "port"] ELSE Waiting("take")
  <2>1. At("dispatcher", "check") /\ Goto("dispatcher", l) /\ UNCHANGED active
    BY <1>2 DEF CheckClient, Disp
  <2>2. Disp.job \in Jobs /\ active = None /\ Disp.act = None
    BY <1>0, <2>1 DEF DispatcherInv, At, Disp, Holding
  <2>3. l \in Locals /\ l.act = None
        /\ ((l.pc = "port" /\ l.job = Disp.job) \/ (l.pc = "take" /\ l.job = None))
    <3>1. CASE Disp.job[1] \in clients
      <4>. DEFINE m == [Disp EXCEPT !.pc = "port"]
      <4>1. l = m
        BY <3>1
      <4>2. m \in Locals /\ m.act = None /\ m.pc = "port" /\ m.job = Disp.job
        BY <1>0, <2>2 DEF Locals, DispatcherSteps
      <4>. HIDE DEF l, m
      <4>. QED  BY <4>1, <4>2
    <3>2. CASE Disp.job[1] \notin clients
      BY <1>0, <1>w, <3>2 DEF DispatcherSteps
    <3>. QED  BY <3>1, <3>2
  <2>4. Quiet
    BY <1>q, <1>2 DEF CheckClient, Quiet
  <2>. HIDE DEF l
  <2>. QED  BY <2>1, <2>2, <2>3, <2>4, QuietDispatcher DEF Holding
<1>3. CASE DispatcherPort
  <2>. DEFINE l == [Disp EXCEPT !.pc = IF port = 0 THEN "offline" ELSE "write", !.port = port]
  <2>1. At("dispatcher", "port") /\ Goto("dispatcher", l) /\ UNCHANGED active
    BY <1>3 DEF DispatcherPort, Disp
  <2>2. Disp.job \in Jobs /\ active = None /\ Disp.act = None
    BY <1>0, <2>1 DEF DispatcherInv, At, Disp, Holding
  <2>3. l \in Locals /\ l.act = None /\ l.job = Disp.job
        /\ (l.pc = "offline" \/ (l.pc = "write" /\ l.port # 0))
    <3>1. CASE port = 0
      <4>. DEFINE m == [Disp EXCEPT !.pc = "offline", !.port = port]
      <4>1. l = m
        BY <3>1
      <4>2. m \in Locals /\ m.act = None /\ m.pc = "offline" /\ m.job = Disp.job
        BY <1>0, <1>q, <2>2 DEF Locals, DispatcherSteps
      <4>. HIDE DEF l, m
      <4>. QED  BY <4>1, <4>2
    <3>2. CASE port # 0
      BY <1>0, <1>q, <2>2, <3>2 DEF Locals, DispatcherSteps
    <3>. QED  BY <3>1, <3>2
  <2>4. Quiet
    BY <1>q, <1>3 DEF DispatcherPort, Quiet
  <2>. HIDE DEF l
  <2>. QED  BY <2>1, <2>2, <2>3, <2>4, QuietDispatcher DEF Holding
<1>4. CASE WriteJob
  <2>. DEFINE l(pc) == [Disp EXCEPT !.pc = pc]
  <2>1. /\ At("dispatcher", "write") /\ UNCHANGED active
        /\ \E pc \in {"activate", "close"} : Goto("dispatcher", l(pc))
        /\ UNCHANGED <<socketVars, clients, queue, response, port, live, opened, losses, out, rm,
                       answers, missed>>
    BY <1>4 DEF WriteJob, Disp
  <2>2. Disp.job \in Jobs /\ active = None /\ Disp.act = None
    BY <1>0, <2>1 DEF DispatcherInv, At, Disp, Holding
  <2>3. PICK pc \in {"activate", "close"} : Goto("dispatcher", l(pc))
    BY <2>1
  <2>4. l(pc) \in Locals /\ l(pc).act = None /\ l(pc).job = Disp.job /\ l(pc).pc = pc
    BY <1>0, <2>2 DEF Locals, DispatcherSteps, MarkSteps
  <2>5. wire' \in Seq(Jobs) /\ written' \in [Jobs -> 0 .. MaxOpens]
    <3>1. Append(wire, Disp.job) \in Seq(Jobs) /\ live \in 0 .. MaxOpens
      BY <1>q, <2>2
    <3>2. \/ wire' = Append(wire, Disp.job) /\ written' = [written EXCEPT ![Disp.job] = live]
          \/ wire' = wire /\ written' = written
      BY <1>4 DEF WriteJob, Disp
    <3>3. [written EXCEPT ![Disp.job] = live] \in [Jobs -> 0 .. MaxOpens]
      BY <1>q, <2>2, <3>1
    <3>. QED  BY <1>q, <3>1, <3>2, <3>3
  <2>6. Quiet
    BY <1>q, <2>1, <2>5 DEF Quiet
  <2>. HIDE DEF l
  <2>. QED  BY <2>1, <2>2, <2>3, <2>4, <2>6, QuietDispatcher DEF Holding
<1>5. CASE SetActive
  <2>. DEFINE l == [Waiting("reset") EXCEPT !.job = Disp.job]
  <2>1. At("dispatcher", "activate") /\ Goto("dispatcher", l) /\ active' = Disp.job
    BY <1>5 DEF SetActive, Disp
  <2>2. Disp.job \in Jobs
    BY <1>0, <2>1 DEF DispatcherInv, At, Disp, Holding
  <2>3. l \in Locals /\ l.act = None /\ l.job = Disp.job /\ l.pc = "reset"
    BY <1>0, <2>2, BridgeAssumption, EmptySeq DEF Waiting, Locals, DispatcherSteps
  <2>4. Quiet
    BY <1>q, <1>5, <2>1, <2>2 DEF SetActive, Quiet, Disp
  <2>. HIDE DEF l
  <2>. QED  BY <2>1, <2>2, <2>3, <2>4, QuietDispatcher DEF Holding
<1>6. CASE ResetResponse
  <2>1. At("dispatcher", "reset") /\ Goto("dispatcher", Waiting("take"))
    BY <1>6 DEF ResetResponse
  <2>2. Owners(response) \subseteq Jobs
    BY <1>0, OwnersType DEF TypeOK
  <2>3. Quiet
    <3>1. response' \in Seq(Tokens)
      BY <1>6, EmptySeq DEF ResetResponse
    <3>. QED  BY <1>q, <1>6, <2>2, <3>1 DEF ResetResponse, Quiet
  <2>. QED  BY <1>0, <1>w, <2>1, <2>3, QuietDispatcher DEF Holding, DispatcherSteps
<1>7. CASE AnswerOffline
  <2>1. At("dispatcher", "offline") /\ Goto("dispatcher", Waiting("take"))
    BY <1>7 DEF AnswerOffline
  <2>2. Disp.job \in Jobs /\ Disp.act = None
    BY <1>0, <2>1 DEF DispatcherInv, At, Disp, Holding
  <2>3. /\ Send("dispatcher", Disp.job, {}) /\ UNCHANGED active
        /\ UNCHANGED <<received, hands, queue, active, response, port, deviceVars, written, missed>>
    BY <1>7 DEF AnswerOffline, Disp
  <2>4. TypeOK' /\ RemovalInv'
    BY <1>0, <1>w, <2>1, <2>2, <2>3, SendStep DEF Threads, DispatcherSteps
  <2>5. Disp' = Waiting("take") /\ Rdr' = Rdr
    BY <1>0, <2>1, Moves DEF Threads, DispatcherSteps
  <2>6. DispatcherInv' /\ ReaderInv'
    BY <1>0, <1>w, <2>5 DEF DispatcherInv, ReaderInv, Holding
  <2>. QED  BY <2>4, <2>6 DEF StepInv
<1>8. CASE MarkClose("dispatcher")
  <2>. DEFINE l == [Disp EXCEPT !.pc = "look at active", !.port = 0]
  <2>1. At("dispatcher", "close") /\ Goto("dispatcher", l) /\ UNCHANGED active
    BY <1>8 DEF MarkClose, Disp
  <2>2. Disp.job \in Jobs /\ active = None /\ Disp.act = None
    BY <1>0, <2>1 DEF DispatcherInv, At, Disp, Holding
  <2>3. l \in Locals /\ l.act = None /\ l.job = Disp.job /\ l.pc = "look at active"
    BY <1>0, <1>q, <2>2 DEF Locals, MarkSteps
  <2>4. Quiet
    BY <1>q, <1>8, BridgeAssumption DEF MarkClose, Quiet
  <2>. HIDE DEF l
  <2>. QED  BY <2>1, <2>2, <2>3, <2>4, QuietDispatcher DEF Holding
<1>9. CASE MarkRead("dispatcher")
  <2>. DEFINE l == [Disp EXCEPT !.pc = "clear active", !.act = active]
  <2>1. At("dispatcher", "look at active") /\ Goto("dispatcher", l) /\ UNCHANGED active
    BY <1>9 DEF MarkRead, Disp
  <2>2. Disp.job \in Jobs /\ active = None
    BY <1>0, <2>1 DEF DispatcherInv, At, Disp, Holding
  <2>3. l \in Locals /\ l.act = None /\ l.job = Disp.job /\ l.pc = "clear active"
    BY <1>0, <2>2 DEF Locals, MarkSteps
  <2>4. Quiet
    BY <1>q, <1>9 DEF MarkRead, Quiet
  <2>. HIDE DEF l
  <2>. QED  BY <2>1, <2>2, <2>3, <2>4, QuietDispatcher DEF Holding
<1>10. CASE MarkClear("dispatcher")
  <2>. DEFINE l == [Disp EXCEPT !.pc = "offline", !.act = None]
  <2>1. At("dispatcher", "clear active") /\ active' = None
    BY <1>10 DEF MarkClear
  <2>2. Disp.job \in Jobs /\ active = None /\ Disp.act = None
    BY <1>0, <2>1 DEF DispatcherInv, At, Disp, Holding
  <2>3. Goto("dispatcher", l)
    BY <1>10, <2>2 DEF MarkClear, AfterMark, Disp
  <2>4. l \in Locals /\ l.act = None /\ l.job = Disp.job /\ l.pc = "offline"
    BY <1>0, <2>2 DEF Locals, DispatcherSteps
  <2>5. Quiet
    <3>1. response' \in Seq(Tokens)
      BY <1>10, EmptySeq DEF MarkClear
    <3>. QED  BY <1>q, <1>10, <2>2, <3>1 DEF MarkClear, Quiet
  <2>. HIDE DEF l
  <2>. QED  BY <2>1, <2>2, <2>3, <2>4, <2>5, QuietDispatcher DEF Holding
<1>11. CASE MarkNotify("dispatcher")
  BY <1>0, <1>11 DEF MarkNotify, At, DispatcherInv, Holding, Disp
<1>. QED  BY <1>1, <1>2, <1>3, <1>4, <1>5, <1>6, <1>7, <1>8, <1>9, <1>10, <1>11 DEF Dispatcher, Mark

LEMMA QuietReader ==
    ASSUME StepInv, NEW l \in Locals, NEW pc, At("reader", pc), Goto("reader", l), Quiet,
           active' \in {active, None},
           l.pc \in ReaderSteps \cup MarkSteps \cup {"dead"},
           l.job = None,
           l.pc \notin Answering => l.act = None,
           l.pc \in {"finish", "send", "notify"} => l.act \in Jobs
    PROVE  StepInv'
<1>1. TypeOK' /\ RemovalInv'
  BY QuietStep DEF Threads
<1>2. Rdr' = l /\ Disp' = Disp
  BY Moves DEF Threads
<1>3. DispatcherInv' /\ ReaderInv'
  BY <1>2 DEF StepInv, DispatcherInv, ReaderInv
<1>. QED  BY <1>1, <1>3 DEF StepInv

LEMMA StepReader ==
    ASSUME StepInv, Reader \/ Mark("reader")
    PROVE  StepInv'
<1>. USE DEF socketVars, deviceVars, historyVars
<1>0. /\ TypeOK /\ DispatcherInv /\ ReaderInv /\ Rdr \in Locals
      /\ \A pc \in ReaderSteps \cup MarkSteps : Waiting(pc) \in Locals
  BY LocalsType DEF StepInv
<1>w. \A pc : /\ Waiting(pc).pc = pc /\ Waiting(pc).job = None /\ Waiting(pc).act = None
              /\ Waiting(pc).got = <<>> /\ Waiting(pc).port = 0
  BY DEF Waiting
<1>q. /\ queue \in Seq(Jobs) /\ active \in Jobs \cup {None} /\ response \in Seq(Tokens)
      /\ port \in 0 .. MaxOpens /\ 0 \in 0 .. MaxOpens /\ live \in {0, port} /\ port <= opened
      /\ opened \in Nat /\ wire \in Seq(Jobs) /\ out \in Seq(Tokens) /\ <<>> \in Seq(Tokens)
      /\ written \in [Jobs -> 0 .. MaxOpens] /\ missed \subseteq Jobs
  BY <1>0, BridgeAssumption, EmptySeq DEF TypeOK
<1>s. /\ Rdr.job = None
      /\ Rdr.pc \notin Answering => Rdr.act = None
      /\ Rdr.got \in Seq(Tokens) /\ Owners(Rdr.got) \subseteq Jobs /\ Owners(response) \subseteq Jobs
  BY <1>0, <1>q, OwnersType DEF ReaderInv, Locals
<1>1. CASE ReaderPort
  <2>. DEFINE l == [Rdr EXCEPT !.pc = "read", !.port = port]
  <2>1. At("reader", "fetch") /\ Goto("reader", l) /\ UNCHANGED active
    BY <1>1 DEF ReaderPort, Rdr
  <2>2. l \in Locals /\ l.act = Rdr.act /\ l.job = None /\ l.pc = "read"
    BY <1>0, <1>q, <1>s DEF Locals, ReaderSteps
  <2>3. Rdr.act = None
    BY <1>s, <2>1 DEF At, Rdr, Answering
  <2>4. Quiet
    BY <1>q, <1>1 DEF ReaderPort, Quiet
  <2>. HIDE DEF l
  <2>. QED  BY <2>1, <2>2, <2>3, <2>4, QuietReader DEF ReaderSteps, Answering
<1>2. CASE Read
  <2>1. At("reader", "read") /\ UNCHANGED active
    BY <1>2 DEF Read
  <2>2. \/ \E n \in 1 .. Len(out) :
              /\ out' = SubSeq(out, n + 1, Len(out))
              /\ Goto("reader", [Waiting("look") EXCEPT !.got = SubSeq(out, 1, n)])
        \/ out' = out /\ Goto("reader", Waiting("close"))
    BY <1>2 DEF Read
  <2>3. CASE out' = out /\ Goto("reader", Waiting("close"))
    <3>1. Quiet
      BY <1>q, <1>2, <2>3 DEF Read, Quiet
    <3>. QED  BY <1>0, <1>w, <2>1, <2>3, <3>1, QuietReader DEF MarkSteps, Answering
  <2>4. ASSUME NEW n \in 1 .. Len(out), out' = SubSeq(out, n + 1, Len(out)),
               Goto("reader", [Waiting("look") EXCEPT !.got = SubSeq(out, 1, n)])
        PROVE  StepInv'
    <3>. DEFINE l == [Waiting("look") EXCEPT !.got = SubSeq(out, 1, n)]
    <3>0. Len(out) \in Nat
      BY <1>q, LenProperties
    <3>1. SubSeq(out, n + 1, Len(out)) \in Seq(Tokens) /\ SubSeq(out, 1, n) \in Seq(Tokens)
      BY <1>q, <3>0, SubSeqProperties
    <3>2. l \in Locals /\ l.act = None /\ l.job = None /\ l.pc = "look"
      BY <1>q, <3>1 DEF Waiting, Locals, ReaderSteps
    <3>3. Goto("reader", l)
      BY <2>4
    <3>4. Quiet
      BY <1>q, <1>2, <2>4, <3>1 DEF Read, Quiet
    <3>. HIDE DEF l
    <3>. QED  BY <2>1, <3>2, <3>3, <3>4, QuietReader DEF ReaderSteps, Answering
  <2>. QED  BY <2>2, <2>3, <2>4
<1>3. CASE Look
  <2>. DEFINE m == [Rdr EXCEPT !.pc = "extend"]
  <2>1. /\ At("reader", "look") /\ UNCHANGED active
        /\ Goto("reader", Waiting("fetch")) \/ Goto("reader", m)
    BY <1>3 DEF Look, Rdr
  <2>2. m \in Locals /\ m.act = Rdr.act /\ m.job = None /\ m.pc = "extend"
    BY <1>0, <1>s DEF Locals, ReaderSteps
  <2>3. Rdr.act = None
    BY <1>s, <2>1 DEF At, Rdr, Answering
  <2>4. missed' \subseteq Jobs
    BY <1>q, <1>s, <1>3 DEF Look, Rdr
  <2>5. Quiet
    BY <1>q, <1>3, <2>4 DEF Look, Quiet
  <2>. HIDE DEF m
  <2>6. CASE Goto("reader", m)
    BY <2>1, <2>2, <2>3, <2>5, <2>6, QuietReader DEF ReaderSteps, Answering
  <2>7. CASE Goto("reader", Waiting("fetch"))
    BY <1>0, <1>w, <2>1, <2>5, <2>7, QuietReader DEF ReaderSteps, Answering
  <2>. QED  BY <2>1, <2>6, <2>7
<1>4. CASE Extend
  <2>1. At("reader", "extend") /\ UNCHANGED active /\ Goto("reader", Waiting("complete"))
    BY <1>4 DEF Extend
  <2>2. response' \in Seq(Tokens)
    BY <1>q, <1>s, <1>4, ConcatProperties DEF Extend, Rdr
  <2>3. Quiet
    BY <1>q, <1>4, <2>2 DEF Extend, Quiet
  <2>. QED  BY <1>0, <1>w, <2>1, <2>3, QuietReader DEF ReaderSteps, Answering
<1>5. CASE TestComplete
  <2>1. /\ At("reader", "complete") /\ UNCHANGED active
        /\ \E pc \in {"grab", "fetch"} : Goto("reader", Waiting(pc))
    BY <1>5 DEF TestComplete
  <2>2. Quiet
    BY <1>q, <1>5 DEF TestComplete, Quiet
  <2>3. PICK pc \in {"grab", "fetch"} : Goto("reader", Waiting(pc))
    BY <2>1
  <2>. QED  BY <1>0, <1>w, <2>1, <2>2, <2>3, QuietReader DEF ReaderSteps, Answering
<1>6. CASE Grab
  <2>. DEFINE m == [Waiting("finish") EXCEPT !.act = active, !.got = response]
  <2>1. At("reader", "grab") /\ UNCHANGED active
    BY <1>6 DEF Grab
  <2>2. \/ active = None /\ Goto("reader", Waiting("fetch"))
        \/ active # None /\ Goto("reader", m)
    BY <1>6 DEF Grab
  <2>3. Quiet
    BY <1>q, <1>6 DEF Grab, Quiet
  <2>4. m \in Locals /\ m.act = active /\ m.job = None /\ m.pc = "finish"
    BY <1>q DEF Waiting, Locals, ReaderSteps
  <2>. HIDE DEF m
  <2>5. CASE Goto("reader", Waiting("fetch"))
    BY <1>0, <1>w, <2>1, <2>3, <2>5, QuietReader DEF ReaderSteps, Answering
  <2>6. CASE active # None /\ Goto("reader", m)
    BY <1>q, <2>1, <2>3, <2>4, <2>6, QuietReader DEF ReaderSteps, Answering
  <2>. QED  BY <2>2, <2>5, <2>6
<1>7. CASE Finish
  <2>. DEFINE m == [Rdr EXCEPT !.pc = "send"]
  <2>1. At("reader", "finish") /\ active' = None /\ Goto("reader", m)
    BY <1>7 DEF Finish, Rdr
  <2>2. Rdr.act \in Jobs
    BY <1>0, <2>1 DEF At, Rdr, ReaderInv
  <2>3. Quiet
    BY <1>q, <1>7 DEF Finish, Quiet
  <2>4. m \in Locals /\ m.act = Rdr.act /\ m.job = None /\ m.pc = "send"
    BY <1>0, <1>s DEF Locals, ReaderSteps
  <2>. HIDE DEF m
  <2>. QED  BY <2>1, <2>2, <2>3, <2>4, QuietReader DEF ReaderSteps, Answering
<1>8. CASE SendResponse
  <2>1. At("reader", "send") /\ Goto("reader", Waiting("fetch"))
    BY <1>8 DEF SendResponse
  <2>2. Rdr.act \in Jobs /\ Owners(Rdr.got) \in SUBSET Jobs
    BY <1>0, <1>s, <2>1 DEF ReaderInv, At, Rdr
  <2>3. /\ Send("reader", Rdr.act, Owners(Rdr.got)) /\ UNCHANGED active
        /\ UNCHANGED <<received, hands, queue, active, response, port, deviceVars, written, missed>>
    BY <1>8 DEF SendResponse, Rdr
  <2>4. TypeOK' /\ RemovalInv'
    BY <1>0, <1>w, <2>1, <2>2, <2>3, SendStep DEF Threads, ReaderSteps
  <2>5. Rdr' = Waiting("fetch") /\ Disp' = Disp
    BY <1>0, <2>1, Moves DEF Threads, ReaderSteps
  <2>6. DispatcherInv' /\ ReaderInv'
    BY <1>0, <1>w, <2>3, <2>5 DEF DispatcherInv, ReaderInv, Answering, ReaderSteps
  <2>. QED  BY <2>4, <2>6 DEF StepInv
<1>9. CASE MarkClose("reader")
  <2>. DEFINE l == [Rdr EXCEPT !.pc = "look at active", !.port = 0]
  <2>1. At("reader", "close") /\ Goto("reader", l) /\ UNCHANGED active
    BY <1>9 DEF MarkClose, Rdr
  <2>2. Rdr.act = None
    BY <1>s, <2>1 DEF At, Rdr, Answering
  <2>3. l \in Locals /\ l.act = Rdr.act /\ l.job = None /\ l.pc = "look at active"
    BY <1>0, <1>q, <1>s DEF Locals, MarkSteps
  <2>4. Quiet
    BY <1>q, <1>9 DEF MarkClose, Quiet
  <2>. HIDE DEF l
  <2>. QED  BY <2>1, <2>2, <2>3, <2>4, QuietReader DEF MarkSteps, Answering
<1>10. CASE MarkRead("reader")
  <2>. DEFINE l == [Rdr EXCEPT !.pc = "clear active", !.act = active]
  <2>1. At("reader", "look at active") /\ Goto("reader", l) /\ UNCHANGED active
    BY <1>10 DEF MarkRead, Rdr
  <2>2. l \in Locals /\ l.job = None /\ l.pc = "clear active"
    BY <1>0, <1>q, <1>s DEF Locals, MarkSteps
  <2>3. Quiet
    BY <1>q, <1>10 DEF MarkRead, Quiet
  <2>. HIDE DEF l
  <2>. QED  BY <2>1, <2>2, <2>3, QuietReader DEF MarkSteps, Answering
<1>11. CASE MarkClear("reader")
  <2>. DEFINE m == [Rdr EXCEPT !.pc = "notify"]
  <2>1. /\ At("reader", "clear active") /\ active' = None
        /\ \/ Rdr.act = None /\ Goto("reader", Waiting("fetch"))
           \/ Rdr.act # None /\ Goto("reader", m)
    BY <1>11 DEF MarkClear, AfterMark, Rdr
  <2>2. m \in Locals /\ m.act = Rdr.act /\ m.job = None /\ m.pc = "notify"
    BY <1>0, <1>s DEF Locals, MarkSteps
  <2>3. Rdr.act \in Jobs \cup {None}
    BY <1>0 DEF Locals
  <2>4. Quiet
    BY <1>q, <1>11 DEF MarkClear, Quiet
  <2>. HIDE DEF m
  <2>5. CASE Goto("reader", Waiting("fetch"))
    BY <1>0, <1>w, <2>1, <2>4, <2>5, QuietReader DEF ReaderSteps, Answering
  <2>6. CASE Rdr.act # None /\ Goto("reader", m)
    BY <2>1, <2>2, <2>3, <2>4, <2>6, QuietReader DEF MarkSteps, Answering
  <2>. QED  BY <2>1, <2>5, <2>6
<1>12. CASE MarkNotify("reader")
  <2>1. At("reader", "notify") /\ Goto("reader", Waiting("fetch"))
    BY <1>12 DEF MarkNotify, AfterMark
  <2>2. Rdr.act \in Jobs /\ {} \in SUBSET Jobs
    BY <1>0, <2>1 DEF ReaderInv, At, Rdr
  <2>3. /\ Send("reader", Rdr.act, {}) /\ UNCHANGED active
        /\ UNCHANGED <<received, hands, queue, active, response, port, deviceVars, written, missed>>
    BY <1>12 DEF MarkNotify, Rdr
  <2>4. TypeOK' /\ RemovalInv'
    BY <1>0, <1>w, <2>1, <2>2, <2>3, SendStep DEF Threads, ReaderSteps
  <2>5. Rdr' = Waiting("fetch") /\ Disp' = Disp
    BY <1>0, <2>1, Moves DEF Threads, ReaderSteps
  <2>6. DispatcherInv' /\ ReaderInv'
    BY <1>0, <1>w, <2>3, <2>5 DEF DispatcherInv, ReaderInv, Answering, ReaderSteps
  <2>. QED  BY <2>4, <2>6 DEF StepInv
<1>. QED  BY <1>1, <1>2, <1>3, <1>4, <1>5, <1>6, <1>7, <1>8, <1>9, <1>10, <1>11, <1>12
             DEF Reader, Mark

LEMMA StepPreserved == StepInv /\ [Next]_vars => StepInv'
<1>. SUFFICES ASSUME StepInv, [Next]_vars PROVE StepInv'
  OBVIOUS
<1>1. CASE UNCHANGED vars
  BY <1>1 DEF vars, StepInv, TypeOK, DispatcherInv, ReaderInv, RemovalInv, Disp, Rdr
<1>2. CASE Next
  BY <1>2, StepWorld, StepRemoval, StepClient, StepEnd, StepDispatcher, StepReader DEF Next, Threads
<1>. QED  BY <1>1, <1>2

\* The types of the variables: the port object a thread holds may have gone, but the
\* one that works is always the bridge's own, and what the threads hold where they
\* are is what the step they come to needs.
THEOREM BridgeTypes == Spec => []TypeOK
<1>1. StepInv => TypeOK
  BY DEF StepInv
<1>. QED  BY <1>1, StepInit, StepPreserved, PTL DEF Spec

(***************************************************************************)
(* Sequences without repetition.                                           *)
(***************************************************************************)
LEMMA Emptied == IsInjective(<<>>) /\ Range(<<>>) = {}
BY DEF IsInjective, Range

LEMMA Appended ==
    ASSUME NEW S, NEW s \in Seq(S), NEW e \in S, IsInjective(s), e \notin Range(s)
    PROVE  IsInjective(Append(s, e)) /\ Range(Append(s, e)) = Range(s) \cup {e}
<1>1. /\ Len(s) \in Nat /\ DOMAIN s = 1 .. Len(s)
      /\ DOMAIN Append(s, e) = 1 .. Len(s) + 1
      /\ \A i \in 1 .. Len(s) : Append(s, e)[i] = s[i]
      /\ Append(s, e)[Len(s) + 1] = e
  BY AppendProperties, LenProperties
<1>2. \A i \in 1 .. Len(s) : s[i] \in Range(s) /\ s[i] # e
  BY <1>1 DEF Range
<1>3. IsInjective(Append(s, e))
  <2>. SUFFICES ASSUME NEW a \in 1 .. Len(s) + 1, NEW b \in 1 .. Len(s) + 1,
                       Append(s, e)[a] = Append(s, e)[b]
                PROVE  a = b
    BY <1>1 DEF IsInjective
  <2>1. CASE a \in 1 .. Len(s) /\ b \in 1 .. Len(s)
    BY <1>1, <2>1 DEF IsInjective
  <2>2. CASE a = Len(s) + 1 /\ b = Len(s) + 1
    BY <2>2
  <2>3. CASE (a \in 1 .. Len(s)) # (b \in 1 .. Len(s))
    BY <1>1, <1>2, <2>3
  <2>. QED  BY <1>1, <2>1, <2>2, <2>3
<1>4. Range(Append(s, e)) \subseteq Range(s) \cup {e}
  BY <1>1, <1>2 DEF Range
<1>5. Range(s) \subseteq Range(Append(s, e)) /\ e \in Range(Append(s, e))
  BY <1>1 DEF Range
<1>. QED  BY <1>3, <1>4, <1>5

LEMMA Shortened ==
    ASSUME NEW S, NEW s \in Seq(S), s # <<>>, IsInjective(s)
    PROVE  /\ Head(s) \in Range(s) /\ Head(s) \in S
           /\ IsInjective(Tail(s)) /\ Range(Tail(s)) = Range(s) \ {Head(s)}
<1>1. /\ Len(s) \in Nat /\ Len(s) >= 1 /\ DOMAIN s = 1 .. Len(s) /\ Head(s) = s[1] /\ Head(s) \in S
      /\ DOMAIN Tail(s) = 1 .. Len(s) - 1
      /\ \A i \in 1 .. Len(s) - 1 : Tail(s)[i] = s[i + 1]
  BY HeadTailProperties, LenProperties, EmptySeq
<1>2. Head(s) \in Range(s)
  BY <1>1 DEF Range
<1>3. \A i \in 1 .. Len(s) - 1 : i + 1 \in DOMAIN s /\ i + 1 # 1 /\ s[i + 1] # s[1]
  BY <1>1 DEF IsInjective
<1>4. IsInjective(Tail(s))
  <2>. SUFFICES ASSUME NEW a \in 1 .. Len(s) - 1, NEW b \in 1 .. Len(s) - 1,
                       Tail(s)[a] = Tail(s)[b]
                PROVE  a = b
    BY <1>1 DEF IsInjective
  <2>1. s[a + 1] = s[b + 1]
    BY <1>1
  <2>2. a + 1 = b + 1
    BY <1>3, <2>1 DEF IsInjective
  <2>. QED  BY <2>2
<1>5. Range(Tail(s)) \subseteq Range(s) \ {Head(s)}
  BY <1>1, <1>3 DEF Range
<1>6. Range(s) \ {Head(s)} \subseteq Range(Tail(s))
  <2>. SUFFICES ASSUME NEW i \in 1 .. Len(s), s[i] # s[1] PROVE s[i] \in Range(Tail(s))
    BY <1>1 DEF Range
  <2>1. i - 1 \in 1 .. Len(s) - 1 /\ s[i] = Tail(s)[i - 1]
    BY <1>1
  <2>. QED  BY <1>1, <2>1 DEF Range
<1>. QED  BY <1>1, <1>2, <1>4, <1>5, <1>6

(***************************************************************************)
(* The places of a job.                                                    *)
(***************************************************************************)
LEMMA JobInit == Init => JobInv
<1>. SUFFICES ASSUME Init PROVE JobInv
  OBVIOUS
<1>1. Disp = Waiting("take") /\ Rdr = Waiting("fetch")
  BY DEF Init, Threads, Disp, Rdr
<1>2. \A j \in Jobs : ~Received(j) /\ ~Waits(j)
  <2>. SUFFICES ASSUME NEW j \in Jobs PROVE ~Received(j)
    BY DEF Waits
  <2>1. j[1] \in Clients /\ j[2] \in Nat /\ j[2] >= 1
    BY JobParts
  <2>. QED  BY <2>1 DEF Received, Init
<1>3. OnceInv
  BY Emptied DEF Init, NotRemoving, OnceInv, Handed, Queued, Kept
<1>4. SomewhereInv
  BY <1>2 DEF SomewhereInv
<1>5. AnswerInv
  <2>1. \A j \in Jobs : written[j] = 0 /\ answers[j] = <<>>
    BY DEF Init
  <2>2. active = None /\ Disp.pc = "take" /\ Rdr.pc = "fetch" /\ Rdr.act = None
    BY <1>1 DEF Init, Waiting
  <2>. QED  BY <2>1, <2>2 DEF AnswerInv, Holding
<1>. QED  BY <1>3, <1>4, <1>5 DEF JobInv

LEMMA RangeType == \A s \in Seq(Jobs) : Range(s) \subseteq Jobs
BY ElementOfSeq, LenProperties DEF Range

LEMMA PlacesType ==
    ASSUME TypeOK
    PROVE  /\ Queued \subseteq Jobs
           /\ \A c \in Clients : Handed(c) \subseteq Jobs /\ Kept(c) \subseteq Jobs
<1>1. /\ \A c \in Clients : hands[c] \in Seq(Jobs) /\ rm[c].kept \in Seq(Jobs)
      /\ queue \in Seq(Jobs)
  BY DEF TypeOK, Removals
<1>. QED  BY <1>1, RangeType DEF Queued, Handed, Kept

\* In a step that moves no job between the threads' sequences
LEMMA SamePlaces ==
    ASSUME OnceInv, SomewhereInv,
           UNCHANGED <<hands, queue>>, \A c \in Clients : rm'[c].kept = rm[c].kept,
           clients' \subseteq clients,
           \A j \in Jobs : /\ Waits(j)' => Waits(j)
                           /\ Held(j)' => Held(j)
                           /\ Waits(j) /\ ~Waits(j)' => Held(j)
                           /\ Held(j) /\ ~Held(j)' => ~Waits(j)' \/ j[1] \notin clients',
           TypeOK
    PROVE  OnceInv' /\ SomewhereInv'
<1>1. /\ Queued' = Queued /\ Queued \subseteq Jobs
      /\ \A c \in Clients : /\ Handed(c)' = Handed(c) /\ Handed(c) \subseteq Jobs
                            /\ Kept(c)' = Kept(c) /\ Kept(c) \subseteq Jobs
  BY PlacesType DEF Queued, Handed, Kept
<1>2. OnceInv'
  <2>1. ASSUME NEW c \in Clients, NEW j \in Handed(c)'
        PROVE  j[1] = c /\ Waits(j)' /\ j \notin Queued' /\ ~Held(j)'
    <3>1. j \in Handed(c) /\ j \in Jobs
      BY <1>1, <2>1
    <3>2. j[1] = c /\ Waits(j) /\ j \notin Queued /\ ~Held(j)
      BY <3>1 DEF OnceInv
    <3>. QED  BY <1>1, <3>1, <3>2
  <2>2. ASSUME NEW c \in Clients, NEW j \in Kept(c)'
        PROVE  Waits(j)' /\ j \notin Queued' /\ ~Held(j)' /\ j \notin Handed(j[1])'
    <3>1. j \in Kept(c) /\ j \in Jobs /\ j[1] \in Clients
      BY <1>1, <2>2, JobParts
    <3>2. Waits(j) /\ j \notin Queued /\ ~Held(j) /\ j \notin Handed(j[1])
      BY <3>1 DEF OnceInv
    <3>. QED  BY <1>1, <3>1, <3>2
  <2>3. ASSUME NEW j \in Queued' PROVE Waits(j)' /\ ~Held(j)'
    <3>1. j \in Queued /\ j \in Jobs
      BY <1>1, <2>3
    <3>2. Waits(j) /\ ~Held(j)
      BY <3>1 DEF OnceInv
    <3>. QED  BY <3>1, <3>2
  <2>4. /\ IsInjective(queue')
        /\ \A c \in Clients : IsInjective(hands'[c]) /\ IsInjective(rm'[c].kept)
        /\ \A c, d \in Clients : c # d => Kept(c)' \cap Kept(d)' = {}
    BY <1>1 DEF OnceInv
  <2>. QED  BY <2>1, <2>2, <2>3, <2>4 DEF OnceInv
<1>3. SomewhereInv'
  <2>. SUFFICES ASSUME NEW j \in Jobs, j[1] \in clients', Waits(j)'
                PROVE  \/ j \in Handed(j[1])' \cup Queued' \/ Held(j)'
                       \/ \E c \in Clients : j \in Kept(c)'
    BY DEF SomewhereInv
  <2>1. j[1] \in Clients
    BY JobParts
  <2>. QED  BY <1>1, <2>1 DEF SomewhereInv
<1>. QED  BY <1>2, <1>3

\* In a step that moves the job x only
LEMMA OtherPlaces ==
    ASSUME OnceInv, SomewhereInv, TypeOK, TypeOK', UNCHANGED <<clients, received, written, answers>>,
           IsInjective(queue'),
           \A c \in Clients : IsInjective(hands'[c]) /\ IsInjective(rm'[c].kept),
           NEW x \in Jobs, Waits(x),
           \A j \in Jobs \ {x} :
              /\ (j \in Queued') <=> (j \in Queued)
              /\ Held(j)' <=> Held(j)
              /\ \A c \in Clients : /\ (j \in Handed(c)') <=> (j \in Handed(c))
                                    /\ (j \in Kept(c)') <=> (j \in Kept(c)),
           \A c \in Clients : x \notin Handed(c)',
           \/ /\ x \in Queued' /\ ~Held(x)' /\ \A c \in Clients : x \notin Kept(c)'
           \/ /\ Held(x)' /\ x \notin Queued' /\ \A c \in Clients : x \notin Kept(c)'
           \/ /\ x \notin Queued' /\ ~Held(x)'
              /\ \E c \in Clients : x \in Kept(c)' /\ \A d \in Clients \ {c} : x \notin Kept(d)'
           \/ /\ x \notin Queued' /\ ~Held(x)' /\ \A c \in Clients : x \notin Kept(c)'
              /\ x[1] \notin clients
    PROVE  OnceInv' /\ SomewhereInv'
<1>1. /\ Queued' \subseteq Jobs
      /\ \A c \in Clients : Handed(c)' \subseteq Jobs /\ Kept(c)' \subseteq Jobs
  <2>1. /\ \A c \in Clients : hands'[c] \in Seq(Jobs) /\ rm'[c].kept \in Seq(Jobs)
        /\ queue' \in Seq(Jobs)
    BY DEF TypeOK, Removals
  <2>. QED  BY <2>1, RangeType DEF Queued, Handed, Kept
<1>2. \A j \in Jobs : (Waits(j)' <=> Waits(j)) /\ j[1] \in Clients
  BY JobParts DEF Waits, Received
<1>3. ASSUME NEW c \in Clients, NEW j \in Handed(c)'
      PROVE  j[1] = c /\ Waits(j)' /\ j \notin Queued' /\ ~Held(j)'
  <2>1. j \in Jobs /\ j # x
    BY <1>1, <1>3
  <2>2. j \in Handed(c)
    BY <1>3, <2>1
  <2>3. j[1] = c /\ Waits(j) /\ j \notin Queued /\ ~Held(j)
    BY <2>2 DEF OnceInv
  <2>. QED  BY <1>2, <2>1, <2>3
<1>4. ASSUME NEW c \in Clients, NEW j \in Kept(c)'
      PROVE  Waits(j)' /\ j \notin Queued' /\ ~Held(j)' /\ j \notin Handed(j[1])'
  <2>1. j \in Jobs /\ j[1] \in Clients
    BY <1>1, <1>2, <1>4
  <2>2. CASE j = x
    BY <1>2, <1>4, <2>1, <2>2
  <2>3. CASE j # x
    <3>1. j \in Kept(c)
      BY <1>4, <2>1, <2>3
    <3>2. Waits(j) /\ j \notin Queued /\ ~Held(j) /\ j \notin Handed(j[1])
      BY <3>1 DEF OnceInv
    <3>. QED  BY <1>2, <2>1, <2>3, <3>2
  <2>. QED  BY <2>2, <2>3
<1>5. ASSUME NEW j \in Queued' PROVE Waits(j)' /\ ~Held(j)'
  <2>1. j \in Jobs
    BY <1>1, <1>5
  <2>2. CASE j = x
    BY <1>2, <1>5, <2>2
  <2>3. CASE j # x
    <3>1. j \in Queued
      BY <1>5, <2>1, <2>3
    <3>2. Waits(j) /\ ~Held(j)
      BY <3>1 DEF OnceInv
    <3>. QED  BY <1>2, <2>1, <2>3, <3>2
  <2>. QED  BY <2>2, <2>3
<1>6. ASSUME NEW c \in Clients, NEW d \in Clients, c # d, NEW j \in Kept(c)', j \in Kept(d)'
      PROVE  FALSE
  <2>1. j \in Jobs
    BY <1>1, <1>6
  <2>2. CASE j = x
    BY <1>6, <2>2
  <2>3. CASE j # x
    <3>1. j \in Kept(c) /\ j \in Kept(d)
      BY <1>6, <2>1, <2>3
    <3>. QED  BY <1>6, <3>1 DEF OnceInv
  <2>. QED  BY <2>2, <2>3
<1>7. OnceInv'
  BY <1>3, <1>4, <1>5, <1>6 DEF OnceInv
<1>8. SomewhereInv'
  <2>. SUFFICES ASSUME NEW j \in Jobs, j[1] \in clients', Waits(j)'
                PROVE  \/ j \in Handed(j[1])' \cup Queued' \/ Held(j)'
                       \/ \E c \in Clients : j \in Kept(c)'
    BY DEF SomewhereInv
  <2>1. CASE j = x
    BY <2>1
  <2>2. CASE j # x
    <3>1. \/ j \in Handed(j[1]) \cup Queued \/ Held(j)
          \/ \E c \in Clients : j \in Kept(c)
      BY <1>2 DEF SomewhereInv
    <3>. QED  BY <1>2, <2>2, <3>1
  <2>. QED  BY <2>1, <2>2
<1>. QED  BY <1>7, <1>8

\* In a step that writes and answers nothing and gives nobody another job
LEMMA SameAnswers ==
    ASSUME StepInv, StepInv', AnswerInv, UNCHANGED <<written, answers>>,
           \A j \in Jobs : Received(j) => Received(j)',
           active' \in {active, None},
           \/ Disp'.pc \in {"take", "dead"}
           \/ /\ Disp.pc \in Holding \ {"activate"} /\ Disp'.pc \in Holding \ {"activate"}
              /\ Disp'.job = Disp.job
           \/ Disp'.pc = Disp.pc /\ Disp'.job = Disp.job,
           \/ Rdr'.act = None /\ Rdr'.pc \notin {"send", "notify"}
           \/ Rdr'.act = Rdr.act /\ Rdr'.pc = Rdr.pc
           \/ Rdr'.act = Rdr.act /\ active' = None
    PROVE  AnswerInv'
<1>0. /\ Disp.pc \in Holding \/ Disp.pc = "reset" => Disp.job \in Jobs
      /\ Disp.pc \in Holding => active = None
      /\ active \in Jobs \cup {None} /\ Rdr.act \in Jobs \cup {None}
      /\ Rdr'.pc \in {"send", "notify"} => Rdr'.act \in Jobs
      /\ None \notin Jobs
  BY BridgeAssumption, LocalsType DEF StepInv, DispatcherInv, ReaderInv, TypeOK, Locals
<1>1. /\ \A j \in Jobs : /\ Len(answers'[j]) <= 1
                         /\ written'[j] # 0 => Received(j)'
                         /\ answers'[j] # <<>> => Received(j)'
      /\ active' # None => written'[active'] # 0 /\ answers'[active'] = <<>>
      /\ Rdr'.act # None => written'[Rdr'.act] # 0 /\ answers'[Rdr'.act] = <<>>
      /\ Rdr'.pc \in {"send", "notify"} => active' # Rdr'.act
  BY <1>0 DEF AnswerInv
<1>2. /\ Disp'.pc \in Holding => Received(Disp.job)' /\ answers'[Disp'.job] = <<>>
      /\ Disp'.pc \in Holding => Disp'.job # Rdr'.act
      /\ Disp'.pc \in Holding \ {"activate"} => written'[Disp'.job] = 0
      /\ Disp'.pc \in {"activate", "reset"} => written'[Disp'.job] # 0
  <2>1. CASE Disp'.pc \in {"take", "dead"}
    BY <2>1 DEF Holding
  <2>2. CASE Disp'.job = Disp.job /\ (Disp'.pc = Disp.pc
                                      \/ (Disp.pc \in Holding \ {"activate"}
                                          /\ Disp'.pc \in Holding \ {"activate"}))
    <3>1. /\ Disp.pc \in Holding => Received(Disp.job) /\ answers[Disp.job] = <<>>
          /\ Disp.pc \in Holding => Disp.job # Rdr.act /\ Disp.job \in Jobs
          /\ Disp.pc \in Holding \ {"activate"} => written[Disp.job] = 0
          /\ Disp.pc \in {"activate", "reset"} => written[Disp.job] # 0
      BY <1>0 DEF AnswerInv
    <3>2. Rdr'.act \in {Rdr.act, None} /\ None \notin Jobs
      BY <1>0
    <3>3. Disp'.pc \in Holding => Disp.pc \in Holding
      BY <2>2 DEF Holding
    <3>4. Disp'.pc \in Holding => Received(Disp.job)'
      <4>1. Received(Disp.job)' <=> Disp'.job[2] <= received'[Disp'.job[1]]
        BY DEF Received
      <4>2. \A j \in Jobs : Received(j) => j[2] <= received'[j[1]]
        BY DEF Received
      <4>. QED  BY <2>2, <3>1, <3>3, <4>1, <4>2
    <3>. QED  BY <2>2, <3>1, <3>2, <3>3, <3>4 DEF Holding
  <2>. QED  BY <2>1, <2>2
<1>. QED  BY <1>1, <1>2 DEF AnswerInv

LEMMA JobWorld ==
    ASSUME StepInv, StepInv', JobInv,
           \/ \E c \in Clients : Accept(c) \/ Leave(c)
           \/ Execute \/ Unplug \/ OpenPort
    PROVE  JobInv'
<1>. USE DEF deviceVars, historyVars, socketVars
<1>1. /\ UNCHANGED <<received, hands, queue, active, th, rm, written, answers>>
      /\ clients' \subseteq clients \/ \E c \in Clients : Accept(c)
  BY DEF Accept, Leave, Execute, Unplug, OpenPort
<1>2. /\ \A j \in Jobs : (Waits(j)' <=> Waits(j)) /\ (Held(j)' <=> Held(j))
                         /\ (Received(j)' <=> Received(j))
      /\ Disp' = Disp /\ Rdr' = Rdr
  BY <1>1 DEF Waits, Held, Received, Disp, Rdr
<1>3. OnceInv' /\ SomewhereInv'
  <2>1. CASE clients' \subseteq clients
    BY <1>1, <1>2, <2>1, SamePlaces DEF JobInv, StepInv
  <2>2. ASSUME NEW c \in Clients, Accept(c) PROVE OnceInv' /\ SomewhereInv'
    <3>1. clients' = clients \cup {c} /\ received[c] = 0
      BY <2>2 DEF Accept, StepInv, RemovalInv
    <3>2. OnceInv'
      BY <1>1, ZenonT(60) DEF JobInv, OnceInv, Handed, Queued, Kept, Held, Waits, Received, Disp
    <3>3. SomewhereInv'
      <4>. SUFFICES ASSUME NEW j \in Jobs, j[1] \in clients', Waits(j)'
                    PROVE  \/ j \in Handed(j[1])' \cup Queued' \/ Held(j)'
                           \/ \E d \in Clients : j \in Kept(d)'
        BY DEF SomewhereInv
      <4>1. Waits(j) /\ j[2] \in Nat /\ j[2] >= 1
        BY <1>2, JobParts
      <4>2. j[1] # c
        BY <3>1, <4>1 DEF Waits, Received
      <4>3. \/ j \in Handed(j[1]) \cup Queued \/ Held(j)
            \/ \E d \in Clients : j \in Kept(d)
        BY <3>1, <4>1, <4>2 DEF JobInv, SomewhereInv
      <4>. QED  BY <1>1, <1>2, <4>3 DEF Handed, Queued, Kept
    <3>. QED  BY <3>2, <3>3
  <2>. QED  BY <1>1, <2>1, <2>2
<1>4. AnswerInv'
  BY <1>1, <1>2, SameAnswers DEF JobInv
<1>. QED  BY <1>3, <1>4 DEF JobInv

\* What StartRemoval does to the places of the jobs: nothing, but the client is gone
LEMMA StartPlaces ==
    ASSUME StepInv, NEW c \in Clients, NEW by, StartRemoval(c, by)
    PROVE  clients' = clients \ {c} /\ \A d \in Clients : rm'[d].kept = rm[d].kept
<1>1. rm \in [Clients -> Removals] /\ (c \in clients => rm[c].kept = <<>>)
  BY DEF StepInv, TypeOK, RemovalInv
<1>. QED  BY <1>1 DEF StartRemoval

LEMMA JobEnd ==
    ASSUME StepInv, StepInv', JobInv, NEW c \in Clients, EndClient(c)
    PROVE  JobInv'
<1>. USE DEF deviceVars, historyVars, socketVars
<1>1. /\ UNCHANGED <<received, hands, queue, active, th, written, answers>>
      /\ clients' = clients \ {c} /\ \A d \in Clients : rm'[d].kept = rm[d].kept
  BY StartPlaces DEF EndClient
<1>2. /\ \A j \in Jobs : (Waits(j)' <=> Waits(j)) /\ (Held(j)' <=> Held(j))
                         /\ (Received(j)' <=> Received(j))
      /\ Disp' = Disp /\ Rdr' = Rdr
  BY <1>1 DEF Waits, Held, Received, Disp, Rdr
<1>3. OnceInv' /\ SomewhereInv'
  BY <1>1, <1>2, SamePlaces DEF JobInv, StepInv
<1>4. AnswerInv'
  BY <1>1, <1>2, SameAnswers DEF JobInv
<1>. QED  BY <1>3, <1>4 DEF JobInv

LEMMA JobPut ==
    ASSUME StepInv, StepInv', JobInv, NEW c \in Clients, Put(c)
    PROVE  JobInv'
<1>. USE DEF deviceVars, historyVars, socketVars
<1>. DEFINE x == Head(hands[c])
<1>1. /\ UNCHANGED <<received, clients, active, th, rm, written, answers>>
      /\ hands[c] # <<>> /\ queue' = Append(queue, x) /\ hands' = [hands EXCEPT ![c] = Tail(@)]
  BY DEF Put
<1>2. /\ \A j \in Jobs : (Waits(j)' <=> Waits(j)) /\ (Held(j)' <=> Held(j))
                         /\ (Received(j)' <=> Received(j))
      /\ Disp' = Disp /\ Rdr' = Rdr
  BY <1>1 DEF Waits, Held, Received, Disp, Rdr
<1>3. AnswerInv'
  BY <1>1, <1>2, SameAnswers DEF JobInv
<1>4. /\ hands \in [Clients -> Seq(Jobs)] /\ queue \in Seq(Jobs) /\ hands[c] \in Seq(Jobs)
      /\ OnceInv /\ SomewhereInv /\ TypeOK /\ TypeOK'
  BY DEF StepInv, TypeOK, JobInv
<1>5. IsInjective(hands[c]) /\ IsInjective(queue)
  BY <1>4 DEF OnceInv
<1>6. /\ x \in Handed(c) /\ x \in Jobs /\ IsInjective(Tail(hands[c]))
      /\ Range(Tail(hands[c])) = Handed(c) \ {x}
  BY <1>1, <1>4, <1>5, Shortened DEF Handed
<1>7. Waits(x) /\ x \notin Queued /\ ~Held(x) /\ x[1] = c /\ \A d \in Clients : x \notin Kept(d)
  BY <1>4, <1>6 DEF OnceInv
<1>8. IsInjective(queue') /\ Queued' = Queued \cup {x}
  BY <1>1, <1>4, <1>5, <1>6, <1>7, Appended DEF Queued
<1>9. hands'[c] = Tail(hands[c]) /\ \A d \in Clients : d # c => hands'[d] = hands[d]
  BY <1>1, <1>4
<1>10. /\ Handed(c)' = Handed(c) \ {x}
       /\ \A d \in Clients : /\ d # c => Handed(d)' = Handed(d) /\ x \notin Handed(d)
                             /\ Kept(d)' = Kept(d)
  <2>1. Handed(c)' = Handed(c) \ {x} /\ \A d \in Clients : Kept(d)' = Kept(d)
    BY <1>1, <1>6, <1>9 DEF Handed, Kept
  <2>2. \A d \in Clients : d # c => Handed(d)' = Handed(d)
    BY <1>9 DEF Handed
  <2>3. \A d \in Clients : d # c => x \notin Handed(d)
    BY <1>4, <1>7 DEF OnceInv
  <2>. QED  BY <2>1, <2>2, <2>3
<1>11. \A d \in Clients : IsInjective(hands'[d]) /\ IsInjective(rm'[d].kept)
  BY <1>1, <1>4, <1>6, <1>9 DEF OnceInv
<1>. HIDE DEF x
<1>12. \A d \in Clients : x \notin Handed(d)' /\ x \notin Kept(d)'
  BY <1>7, <1>10
<1>13. OnceInv' /\ SomewhereInv'
  BY <1>1, <1>2, <1>4, <1>6, <1>7, <1>8, <1>10, <1>11, <1>12, OtherPlaces
<1>. QED  BY <1>3, <1>13 DEF JobInv

LEMMA JobReceive ==
    ASSUME StepInv, StepInv', JobInv, NEW c \in Clients, Receive(c)
    PROVE  JobInv'
<1>. USE DEF deviceVars, historyVars, socketVars
<1>0. PICK k \in 1 .. Commands[c] :
         /\ received[c] + k <= Commands[c]
         /\ received' = [received EXCEPT ![c] = @ + k]
         /\ hands' = [hands EXCEPT ![c] = [i \in 1 .. k |-> <<c, received[c] + i>>]]
  BY DEF Receive
<1>1. /\ UNCHANGED <<clients, queue, active, th, rm, written, answers>> /\ hands[c] = <<>>
      /\ Disp' = Disp /\ Rdr' = Rdr
  BY DEF Receive, Disp, Rdr
<1>2. /\ received[c] \in Nat /\ Commands[c] \in Nat /\ received'[c] = received[c] + k
      /\ hands'[c] = [i \in 1 .. k |-> <<c, received[c] + i>>]
      /\ \A d \in Clients : /\ d # c => received'[d] = received[d] /\ hands'[d] = hands[d]
                            /\ received[d] \in Nat
      /\ OnceInv /\ SomewhereInv /\ AnswerInv
  BY <1>0, BridgeAssumption DEF StepInv, TypeOK, JobInv
<1>3. \A j \in Jobs : /\ j[1] \in Clients /\ j[2] \in Nat /\ Received(j) => Received(j)'
                      /\ Held(j)' <=> Held(j)
  <2>1. \A j \in Jobs : j[1] \in Clients /\ j[2] \in Nat
    BY JobParts
  <2>2. \A d \in Clients : received[d] <= received'[d]
    BY <1>2
  <2>3. \A j \in Jobs : j[1] \in Clients /\ j[2] \in Nat /\ Received(j) => Received(j)'
    BY <1>2, <2>1, <2>2 DEF Received
  <2>. QED  BY <1>1, <2>1, <2>3 DEF Held
<1>4. AnswerInv'
  <2>1. \A j \in Jobs : Received(j) => Received(j)'
    BY <1>3, JobParts
  <2>. QED  BY <1>1, <1>2, <2>1, SameAnswers
<1>5. Handed(c) = {} /\ Handed(c)' = {<<c, received[c] + i>> : i \in 1 .. k}
      /\ IsInjective(hands'[c])
  <2>1. Handed(c) = {}
    BY <1>1, Emptied DEF Handed
  <2>2. Handed(c)' = {<<c, received[c] + i>> : i \in 1 .. k}
    <3>1. DOMAIN hands'[c] = 1 .. k /\ \A i \in 1 .. k : hands'[c][i] = <<c, received[c] + i>>
      BY <1>2
    <3>2. Handed(c)' = {hands'[c][i] : i \in 1 .. k}
      BY <3>1 DEF Handed, Range
    <3>. QED  BY <3>1, <3>2
  <2>3. IsInjective(hands'[c])
    BY <1>2 DEF IsInjective
  <2>. QED  BY <2>1, <2>2, <2>3
<1>6. ASSUME NEW j \in Handed(c)'
      PROVE  j \in Jobs /\ j[1] = c /\ ~Received(j) /\ Received(j)' /\ Waits(j)'
  <2>1. PICK i \in 1 .. k : j = <<c, received[c] + i>>
    BY <1>5, <1>6
  <2>2. j \in Jobs /\ j[1] = c
    BY <1>0, <1>2, <2>1, PartsJob
  <2>3. ~Received(j) /\ Received(j)'
    BY <1>2, <2>1 DEF Received
  <2>4. written[j] = 0 /\ answers[j] = <<>>
    BY <1>2, <2>2, <2>3 DEF AnswerInv
  <2>. QED  BY <1>1, <2>2, <2>3, <2>4 DEF Waits
<1>7. \A j \in Jobs : Waits(j) => Waits(j)'
  BY <1>1, <1>3, JobParts DEF Waits
<1>8. \A j \in Jobs : Waits(j)' => Waits(j) \/ j \in Handed(c)'
  <2>. SUFFICES ASSUME NEW j \in Jobs, Waits(j)', ~Waits(j) PROVE j \in Handed(c)'
    OBVIOUS
  <2>1. ~Received(j) /\ Received(j)'
    BY <1>1 DEF Waits
  <2>2. j[1] = c /\ received[c] < j[2] /\ j[2] <= received[c] + k /\ j[2] \in Nat /\ j = <<j[1], j[2]>>
    BY <1>2, <2>1, JobParts DEF Received
  <2>3. j[2] - received[c] \in 1 .. k /\ j = <<c, received[c] + (j[2] - received[c])>>
    BY <1>2, <2>2
  <2>. QED  BY <1>5, <2>3
<1>9. /\ Queued' = Queued /\ Queued \subseteq Jobs
      /\ \A d \in Clients : /\ Kept(d)' = Kept(d) /\ Kept(d) \subseteq Jobs
                            /\ d # c => Handed(d)' = Handed(d) /\ Handed(d) \subseteq Jobs
  BY <1>1, <1>2, PlacesType DEF Queued, Kept, Handed, StepInv
<1>10. \A j \in Jobs : Held(j) => Received(j)
  BY <1>2 DEF AnswerInv, Held
<1>11. ASSUME NEW d \in Clients, NEW j \in Handed(d)'
       PROVE  j[1] = d /\ Waits(j)' /\ j \notin Queued' /\ ~Held(j)'
  <2>1. CASE d = c
    <3>1. j \in Jobs /\ j[1] = c /\ ~Received(j) /\ Waits(j)'
      BY <1>6, <1>11, <2>1
    <3>2. j \notin Queued
      BY <1>2, <3>1 DEF OnceInv, Waits
    <3>. QED  BY <1>3, <1>9, <1>10, <2>1, <3>1, <3>2, JobParts
  <2>2. CASE d # c
    <3>1. j \in Handed(d) /\ j \in Jobs
      BY <1>9, <1>11, <2>2
    <3>2. j[1] = d /\ Waits(j) /\ j \notin Queued /\ ~Held(j)
      BY <1>2, <3>1 DEF OnceInv
    <3>. QED  BY <1>3, <1>7, <1>9, <3>1, <3>2, JobParts
  <2>. QED  BY <2>1, <2>2
<1>12. ASSUME NEW d \in Clients, NEW j \in Kept(d)'
       PROVE  Waits(j)' /\ j \notin Queued' /\ ~Held(j)' /\ j \notin Handed(j[1])'
  <2>1. j \in Kept(d) /\ j \in Jobs /\ j[1] \in Clients
    BY <1>9, <1>12, JobParts
  <2>2. Waits(j) /\ j \notin Queued /\ ~Held(j) /\ j \notin Handed(j[1]) /\ Received(j)
    BY <1>2, <2>1 DEF OnceInv, Waits
  <2>3. j \notin Handed(c)'
    BY <1>6, <2>2
  <2>4. ~Held(j)'
    BY <1>3, <2>1, <2>2, JobParts
  <2>. QED  BY <1>7, <1>9, <2>1, <2>2, <2>3, <2>4
<1>13. ASSUME NEW j \in Queued' PROVE Waits(j)' /\ ~Held(j)'
  <2>1. j \in Jobs /\ Waits(j) /\ ~Held(j)
    BY <1>2, <1>9, <1>13 DEF OnceInv
  <2>. QED  BY <1>3, <1>7, <2>1, JobParts
<1>14. OnceInv'
  <2>1. /\ IsInjective(queue') /\ \A d \in Clients : IsInjective(rm'[d].kept)
        /\ \A d, e \in Clients : d # e => Kept(d)' \cap Kept(e)' = {}
    BY <1>1, <1>2, <1>9 DEF OnceInv
  <2>2. \A d \in Clients : IsInjective(hands'[d])
    BY <1>2, <1>5 DEF OnceInv
  <2>. QED  BY <1>11, <1>12, <1>13, <2>1, <2>2 DEF OnceInv
<1>15. SomewhereInv'
  <2>. SUFFICES ASSUME NEW j \in Jobs, j[1] \in clients', Waits(j)'
                PROVE  \/ j \in Handed(j[1])' \cup Queued' \/ Held(j)'
                       \/ \E d \in Clients : j \in Kept(d)'
    BY DEF SomewhereInv
  <2>1. CASE j \in Handed(c)'
    BY <1>6, <2>1
  <2>2. CASE Waits(j) /\ j \notin Handed(c)'
    <3>1. \/ j \in Handed(j[1]) \cup Queued \/ Held(j)
          \/ \E d \in Clients : j \in Kept(d)
      BY <1>1, <1>2, <2>2 DEF SomewhereInv
    <3>2. j \in Handed(j[1]) => j \in Handed(j[1])'
      BY <1>5, <1>9, JobParts
    <3>3. Held(j) => Held(j)'
      BY <1>3, JobParts
    <3>. QED  BY <1>9, <3>1, <3>2, <3>3
  <2>. QED  BY <1>8, <2>1, <2>2
<1>. QED  BY <1>4, <1>14, <1>15 DEF JobInv

LEMMA JobRemoval ==
    ASSUME StepInv, StepInv', JobInv, NEW c \in Clients, Removal(c)
    PROVE  JobInv'
<1>. USE DEF deviceVars, historyVars, socketVars
<1>1. /\ UNCHANGED <<received, hands, clients, written, answers>>
      /\ rm[c].pc # "no" /\ c \notin clients /\ active' \in {active, None}
      /\ OnceInv /\ SomewhereInv /\ AnswerInv /\ TypeOK /\ TypeOK'
      /\ queue \in Seq(Jobs) /\ rm[c].kept \in Seq(Jobs)
  BY DEF Removal, Drain, Refill, TestActive, CompareActive, ClearRemoved, ResetRemoved,
         StepInv, RemovalInv, JobInv, TypeOK, Removals
<1>2. /\ Disp' = Disp \/ (Disp.pc \in {"take", "dead"} /\ Disp'.pc = "dead")
      /\ Rdr' = Rdr \/ (Rdr'.pc = "dead" /\ Rdr'.act = None)
  <2>1. CASE CompareActive(c)
    BY <2>1 DEF CompareActive, Disp, Rdr, Threads, Waiting, StepInv, RemovalInv
  <2>2. CASE ~CompareActive(c)
    BY <2>2 DEF Removal, Drain, Refill, TestActive, ClearRemoved, ResetRemoved, Disp, Rdr
  <2>. QED  BY <2>1, <2>2
<1>3. \A j \in Jobs : /\ Waits(j)' <=> Waits(j)
                      /\ Held(j)' <=> Held(j)
                      /\ Received(j)' <=> Received(j)
  <2>1. \A j \in Jobs : (Waits(j)' <=> Waits(j)) /\ (Received(j)' <=> Received(j))
    BY <1>1 DEF Waits, Received
  <2>2. \A j \in Jobs : Held(j)' <=> Held(j)
    BY <1>2 DEF Held, Holding
  <2>. QED  BY <2>1, <2>2
<1>4. AnswerInv'
  BY <1>1, <1>2, <1>3, SameAnswers
<1>5. /\ IsInjective(queue) /\ IsInjective(rm[c].kept) /\ Handed(c)' = Handed(c)
      /\ \A d \in Clients : /\ Handed(d)' = Handed(d) /\ IsInjective(hands'[d])
                            /\ IsInjective(rm[d].kept)
  BY <1>1 DEF OnceInv, Handed
<1>6. CASE UNCHANGED queue /\ \A d \in Clients : rm'[d].kept = rm[d].kept
  <2>1. OnceInv' /\ SomewhereInv'
    BY <1>1, <1>3, <1>6, SamePlaces
  <2>. QED  BY <1>4, <2>1 DEF JobInv
<1>7. ASSUME Drain(c), queue # <<>>, queue' = Tail(queue), NEW pc, NEW by,
             \/ Removing(c, pc, by, rm[c].kept) /\ ~Keeps(c, Head(queue))
             \/ Removing(c, pc, by, Append(rm[c].kept, Head(queue))) /\ Keeps(c, Head(queue))
      PROVE  JobInv'
  <2>0. PICK x \in Jobs : x = Head(queue)
    BY <1>1, <1>7, HeadTailProperties
  <2>1. /\ x \in Queued /\ x \in Jobs /\ IsInjective(queue') /\ Queued' = Queued \ {x}
    BY <1>1, <1>5, <1>7, <2>0, Shortened DEF Queued
  <2>2. /\ Waits(x) /\ ~Held(x) /\ x[1] \in Clients
        /\ \A d \in Clients : x \notin Handed(d) /\ x \notin Kept(d)
    BY <1>1, <2>1, JobParts DEF OnceInv
  <2>3. /\ \A d \in Clients : d # c => Kept(d)' = Kept(d)
        /\ \A d \in Clients : d # c => IsInjective(rm'[d].kept)
    BY <1>5, <1>7 DEF Removing, Kept
  <2>4. \/ Kept(c)' = Kept(c) /\ x[1] = c
        \/ Kept(c)' = Kept(c) \cup {x}
    <3>1. CASE Removing(c, pc, by, rm[c].kept) /\ ~Keeps(c, x)
      BY <2>0, <3>1 DEF Removing, Kept, Keeps
    <3>2. CASE Removing(c, pc, by, Append(rm[c].kept, x))
      BY <1>1, <1>5, <2>1, <2>2, <3>2, Appended DEF Removing, Kept
    <3>. QED  BY <1>7, <2>0, <3>1, <3>2
  <2>5. IsInjective(rm'[c].kept)
    <3>1. CASE Removing(c, pc, by, rm[c].kept)
      BY <1>5, <3>1 DEF Removing
    <3>2. CASE Removing(c, pc, by, Append(rm[c].kept, x))
      BY <1>1, <1>5, <2>1, <2>2, <3>2, Appended DEF Removing, Kept
    <3>. QED  BY <1>7, <2>0, <3>1, <3>2
  <2>6. OnceInv' /\ SomewhereInv'
    <3>1. \A d \in Clients : IsInjective(hands'[d]) /\ IsInjective(rm'[d].kept)
      BY <1>5, <2>3, <2>5
    <3>a. \A d \in Clients : x \notin Handed(d)'
      BY <1>5, <2>2
    <3>b. ~Held(x)' /\ x \notin Queued'
      BY <1>3, <2>1, <2>2
    <3>2. \A j \in Jobs \ {x} :
              /\ (j \in Queued') <=> (j \in Queued)
              /\ Held(j)' <=> Held(j)
              /\ \A d \in Clients : /\ (j \in Handed(d)') <=> (j \in Handed(d))
                                    /\ (j \in Kept(d)') <=> (j \in Kept(d))
      BY <1>3, <1>5, <2>1, <2>3, <2>4
    <3>3. CASE Kept(c)' = Kept(c) /\ x[1] = c
      <4>1. \A d \in Clients : x \notin Kept(d)'
        BY <2>2, <2>3, <3>3
      <4>. QED  BY <1>1, <2>1, <2>2, <3>1, <3>a, <3>b, <3>2, <3>3, <4>1, OtherPlaces
    <3>4. CASE Kept(c)' = Kept(c) \cup {x}
      <4>1. x \in Kept(c)' /\ \A d \in Clients \ {c} : x \notin Kept(d)'
        BY <2>2, <2>3, <3>4
      <4>2. /\ x \notin Queued' /\ ~Held(x)'
            /\ \E e \in Clients : x \in Kept(e)' /\ \A d \in Clients \ {e} : x \notin Kept(d)'
        BY <3>b, <4>1
      <4>. QED  BY <1>1, <2>1, <2>2, <3>1, <3>a, <3>2, <4>2, OtherPlaces
    <3>. QED  BY <2>4, <3>3, <3>4
  <2>. QED  BY <1>4, <2>6 DEF JobInv
<1>8. ASSUME Refill(c), rm[c].kept # <<>>, queue' = Append(queue, Head(rm[c].kept)), NEW pc, NEW by,
             Removing(c, pc, by, Tail(rm[c].kept))
      PROVE  JobInv'
  <2>0. PICK x \in Jobs : x = Head(rm[c].kept)
    BY <1>1, <1>8, HeadTailProperties
  <2>1. /\ x \in Kept(c) /\ x \in Jobs /\ IsInjective(Tail(rm[c].kept))
        /\ Range(Tail(rm[c].kept)) = Kept(c) \ {x}
    BY <1>1, <1>5, <1>8, <2>0, Shortened DEF Kept
  <2>2. /\ Waits(x) /\ ~Held(x) /\ x \notin Queued /\ x \notin Handed(x[1]) /\ x[1] \in Clients
        /\ \A d \in Clients \ {c} : x \notin Kept(d)
    BY <1>1, <2>1, JobParts DEF OnceInv
  <2>3. \A d \in Clients : x \notin Handed(d)
    BY <1>1, <2>2 DEF OnceInv
  <2>4. IsInjective(queue') /\ Queued' = Queued \cup {x}
    BY <1>1, <1>5, <1>8, <2>0, <2>1, <2>2, Appended DEF Queued
  <2>5. /\ Kept(c)' = Kept(c) \ {x} /\ IsInjective(rm'[c].kept)
        /\ \A d \in Clients : d # c => Kept(d)' = Kept(d) /\ IsInjective(rm'[d].kept)
    BY <1>5, <1>8, <2>0, <2>1 DEF Removing, Kept
  <2>6. OnceInv' /\ SomewhereInv'
    <3>1. \A d \in Clients : IsInjective(hands'[d]) /\ IsInjective(rm'[d].kept)
      BY <1>5, <2>5
    <3>a. \A d \in Clients : x \notin Handed(d)'
      BY <1>5, <2>3
    <3>b. \A d \in Clients : x \notin Kept(d)'
      BY <2>2, <2>5
    <3>c. ~Held(x)' /\ x \in Queued'
      BY <1>3, <2>1, <2>2, <2>4
    <3>2. \A j \in Jobs \ {x} :
              /\ (j \in Queued') <=> (j \in Queued)
              /\ Held(j)' <=> Held(j)
              /\ \A d \in Clients : /\ (j \in Handed(d)') <=> (j \in Handed(d))
                                    /\ (j \in Kept(d)') <=> (j \in Kept(d))
      BY <1>3, <1>5, <2>4, <2>5
    <3>. QED  BY <1>1, <2>1, <2>2, <2>4, <3>1, <3>a, <3>b, <3>c, <3>2, OtherPlaces
  <2>. QED  BY <1>4, <2>6 DEF JobInv
<1>9. CASE Drain(c)
  <2>1. CASE queue = <<>>
    BY <1>6, <1>9, <2>1, DrainStep DEF Removing
  <2>2. CASE queue # <<>>
    BY <1>7, <1>9, <2>2, DrainStep
  <2>. QED  BY <2>1, <2>2
<1>10. CASE Refill(c)
  <2>1. CASE rm[c].kept = <<>>
    BY <1>6, <1>10, <2>1, RefillStep DEF Removing
  <2>2. CASE rm[c].kept # <<>>
    BY <1>8, <1>10, <2>2, RefillStep
  <2>. QED  BY <2>1, <2>2
<1>11. CASE TestActive(c) \/ CompareActive(c) \/ ClearRemoved(c) \/ ResetRemoved(c)
  <2>1. UNCHANGED queue
    BY <1>11 DEF TestActive, CompareActive, ClearRemoved, ResetRemoved
  <2>2. \A d \in Clients : rm'[d].kept = rm[d].kept
    BY <1>11, RemovalEnds DEF Removing
  <2>. QED  BY <1>6, <2>1, <2>2
<1>. QED  BY <1>9, <1>10, <1>11 DEF Removal

LEMMA Hops ==
    ASSUME TypeOK, NEW t \in Threads, NEW l, Goto(t, l)
    PROVE  /\ t = "dispatcher" => Disp' = l /\ Rdr' = Rdr
           /\ t = "reader" => Rdr' = l /\ Disp' = Disp
<1>1. th'[t] = l /\ \A u \in Threads : u # t => th'[u] = th[u]
  BY DEF Goto, TypeOK
<1>. QED  BY <1>1 DEF Threads, Disp, Rdr

\* The dispatcher goes on with its job, drops the job of a client that is gone, or
\* forgets one that is active.
LEMMA JobQuiet ==
    ASSUME StepInv, StepInv', JobInv,
           UNCHANGED <<hands, queue, clients, rm, received, written, answers>>,
           active' \in {active, None}, Rdr' = Rdr,
           \/ /\ Disp.pc \in Holding \ {"activate"} /\ Disp'.pc \in Holding \ {"activate"}
              /\ Disp'.job = Disp.job
           \/ Disp'.pc = "take" /\ (Disp.pc = "reset" \/ Disp.job[1] \notin clients)
    PROVE  JobInv'
<1>1. OnceInv /\ SomewhereInv /\ AnswerInv /\ TypeOK
  BY DEF StepInv, JobInv
<1>2. \A j \in Jobs : (Waits(j)' <=> Waits(j)) /\ (Received(j) => Received(j)')
  BY DEF Waits, Received
<1>3. \A j \in Jobs : /\ Held(j)' => Held(j)
                      /\ Held(j) /\ ~Held(j)' => j[1] \notin clients'
  BY DEF Held, Holding
<1>4. OnceInv' /\ SomewhereInv'
  BY <1>1, <1>2, <1>3, SamePlaces
<1>5. AnswerInv'
  BY <1>1, <1>2, SameAnswers
<1>. QED  BY <1>4, <1>5 DEF JobInv

LEMMA JobTake ==
    ASSUME StepInv, StepInv', JobInv, TakeJob
    PROVE  JobInv'
<1>. USE DEF deviceVars, historyVars, socketVars
<1>1. /\ OnceInv /\ SomewhereInv /\ AnswerInv /\ TypeOK /\ TypeOK' /\ queue \in Seq(Jobs)
      /\ UNCHANGED <<received, hands, clients, active, rm, written, answers>>
      /\ active = None /\ queue # <<>> /\ queue' = Tail(queue) /\ Disp.pc = "take"
      /\ Goto("dispatcher", [Disp EXCEPT !.pc = "check", !.job = Head(queue)])
  BY DEF TakeJob, At, Disp, StepInv, TypeOK, JobInv
<1>2. PICK x \in Jobs : x = Head(queue)
  BY <1>1, HeadTailProperties
<1>3. Disp'.pc = "check" /\ Disp'.job = x /\ Rdr' = Rdr
  <2>1. Disp' = [Disp EXCEPT !.pc = "check", !.job = x] /\ Rdr' = Rdr
    BY <1>1, <1>2, Hops DEF Threads
  <2>2. Disp \in Locals
    BY LocalsType
  <2>. QED  BY <2>1, <2>2 DEF Locals
<1>4. x \in Queued /\ IsInjective(queue') /\ Queued' = Queued \ {x}
  BY <1>1, <1>2, Shortened DEF Queued, OnceInv
<1>5. /\ Waits(x) /\ ~Held(x) /\ x[1] \in Clients
      /\ \A d \in Clients : x \notin Handed(d) /\ x \notin Kept(d)
  BY <1>1, <1>4, JobParts DEF OnceInv
<1>6. \A j \in Jobs : /\ Held(j)' <=> j = x
                      /\ ~Held(j)
                      /\ Received(j)' <=> Received(j)
  <2>1. \A j \in Jobs : Held(j)' <=> j = x
    BY <1>3 DEF Held, Holding
  <2>2. \A j \in Jobs : ~Held(j) /\ (Received(j)' <=> Received(j))
    BY <1>1 DEF Held, Holding, Received
  <2>. QED  BY <2>1, <2>2
<1>7. /\ \A d \in Clients : IsInjective(hands'[d]) /\ IsInjective(rm'[d].kept)
      /\ \A d \in Clients : Handed(d)' = Handed(d) /\ Kept(d)' = Kept(d)
  BY <1>1 DEF OnceInv, Handed, Kept
<1>8. OnceInv' /\ SomewhereInv'
  <2>1. \A j \in Jobs \ {x} :
              /\ (j \in Queued') <=> (j \in Queued)
              /\ Held(j)' <=> Held(j)
              /\ \A d \in Clients : /\ (j \in Handed(d)') <=> (j \in Handed(d))
                                    /\ (j \in Kept(d)') <=> (j \in Kept(d))
    BY <1>4, <1>6, <1>7
  <2>2. \A d \in Clients : x \notin Handed(d)'
    BY <1>5, <1>7
  <2>3. Held(x)' /\ x \notin Queued' /\ \A d \in Clients : x \notin Kept(d)'
    BY <1>4, <1>5, <1>6, <1>7
  <2>. QED  BY <1>1, <1>4, <1>5, <1>7, <2>1, <2>2, <2>3, OtherPlaces
<1>9. AnswerInv'
  <2>1. written[x] = 0 /\ answers[x] = <<>> /\ Received(x)'
    BY <1>5, <1>6 DEF Waits
  <2>2. x # Rdr'.act
    BY <1>1, <1>3, <2>1, BridgeAssumption DEF AnswerInv
  <2>3. /\ \A j \in Jobs : /\ Len(answers'[j]) <= 1
                           /\ written'[j] # 0 => Received(j)'
                           /\ answers'[j] # <<>> => Received(j)'
        /\ active' = None
        /\ Rdr'.act # None => written'[Rdr'.act] # 0 /\ answers'[Rdr'.act] = <<>>
        /\ Rdr'.pc \in {"send", "notify"} => active' # Rdr'.act
    BY <1>1, <1>3, <1>6 DEF AnswerInv
  <2>4. Received(Disp.job)'
    BY <1>3, <2>1 DEF Received
  <2>. QED  BY <1>1, <1>3, <2>1, <2>2, <2>3, <2>4 DEF AnswerInv
<1>. QED  BY <1>8, <1>9 DEF JobInv

LEMMA JobWrite ==
    ASSUME StepInv, StepInv', JobInv, WriteJob
    PROVE  JobInv'
<1>. USE DEF deviceVars, historyVars, socketVars
<1>1. /\ OnceInv /\ SomewhereInv /\ AnswerInv /\ TypeOK
      /\ UNCHANGED <<received, hands, queue, clients, active, rm, answers>>
      /\ Disp.pc = "write" /\ Disp.port # 0 /\ Disp.job \in Jobs /\ active = None
      /\ Disp \in Locals /\ written \in [Jobs -> 0 .. MaxOpens]
  BY LocalsType DEF WriteJob, At, Disp, Holding, StepInv, DispatcherInv, TypeOK, JobInv
<1>2. CASE Disp.port # live
  <2>1. Goto("dispatcher", [Disp EXCEPT !.pc = "close"]) /\ UNCHANGED written
    BY <1>2 DEF WriteJob, Disp
  <2>2. Disp' = [Disp EXCEPT !.pc = "close"] /\ Rdr' = Rdr
    BY <1>1, <2>1, Hops DEF Threads
  <2>3. Disp'.pc = "close" /\ Disp'.job = Disp.job
    BY <1>1, <2>2 DEF Locals
  <2>. QED  BY <1>1, <2>1, <2>2, <2>3, JobQuiet DEF Holding
<1>3. CASE Disp.port = live
  <2>0. PICK x \in Jobs : x = Disp.job
    BY <1>1
  <2>1. Goto("dispatcher", [Disp EXCEPT !.pc = "activate"]) /\ written' = [written EXCEPT ![x] = live]
    BY <1>3, <2>0 DEF WriteJob, Disp
  <2>2. Disp' = [Disp EXCEPT !.pc = "activate"] /\ Rdr' = Rdr
    BY <1>1, <2>1, Hops DEF Threads
  <2>3. Disp'.pc = "activate" /\ Disp'.job = x
    BY <1>1, <2>0, <2>2 DEF Locals
  <2>4. written'[x] # 0 /\ \A j \in Jobs : j # x => written'[j] = written[j]
    BY <1>1, <1>3, <2>0, <2>1
  <2>5. \A j \in Jobs : /\ Waits(j)' => Waits(j)
                        /\ Waits(j) /\ ~Waits(j)' => j = x
                        /\ Received(j)' <=> Received(j)
                        /\ ~Held(j)'
                        /\ Held(j) <=> j = x
    <3>1. \A j \in Jobs : /\ Waits(j)' => Waits(j)
                          /\ Waits(j) /\ ~Waits(j)' => j = x
                          /\ Received(j)' <=> Received(j)
      BY <1>1, <2>4 DEF Waits, Received
    <3>2. \A j \in Jobs : ~Held(j)' /\ (Held(j) <=> j = x)
      BY <1>1, <2>0, <2>3 DEF Held, Holding
    <3>. QED  BY <3>1, <3>2
  <2>6. ~Waits(x)'
    BY <2>4 DEF Waits
  <2>7. OnceInv' /\ SomewhereInv'
    BY <1>1, <2>5, <2>6, SamePlaces
  <2>8. AnswerInv'
    <3>1. Received(x) /\ answers[x] = <<>> /\ x # Rdr.act
      BY <1>1, <2>0 DEF AnswerInv, Holding
    <3>2. Received(Disp.job)'
      BY <2>3, <2>5, <3>1 DEF Received
    <3>3. /\ \A j \in Jobs : /\ Len(answers'[j]) <= 1
                             /\ written'[j] # 0 => Received(j)'
                             /\ answers'[j] # <<>> => Received(j)'
      BY <1>1, <2>4, <2>5, <3>1 DEF AnswerInv
    <3>4. Rdr'.act # None => written'[Rdr'.act] # 0 /\ answers'[Rdr'.act] = <<>>
      <4>1. Rdr.act \in Jobs \cup {None}
        BY LocalsType DEF Locals
      <4>. QED  BY <1>1, <2>2, <2>4, <4>1 DEF AnswerInv
    <3>5. Rdr'.pc \in {"send", "notify"} => active' # Rdr'.act
      BY <1>1, <2>2 DEF AnswerInv
    <3>. QED  BY <1>1, <2>2, <2>3, <2>4, <3>1, <3>2, <3>3, <3>4, <3>5 DEF AnswerInv
  <2>. QED  BY <2>7, <2>8 DEF JobInv
<1>. QED  BY <1>2, <1>3

LEMMA JobActivate ==
    ASSUME StepInv, StepInv', JobInv, SetActive
    PROVE  JobInv'
<1>. USE DEF deviceVars, historyVars, socketVars
<1>1. /\ OnceInv /\ SomewhereInv /\ AnswerInv /\ TypeOK
      /\ UNCHANGED <<received, hands, queue, clients, rm, written, answers>>
      /\ Disp.pc = "activate" /\ Disp.job \in Jobs /\ active' = Disp.job
      /\ Goto("dispatcher", [Waiting("reset") EXCEPT !.job = Disp.job])
  BY DEF SetActive, At, Disp, Holding, StepInv, DispatcherInv, TypeOK, JobInv
<1>2. Disp'.pc = "reset" /\ Disp'.job = Disp.job /\ Rdr' = Rdr
  <2>1. Disp' = [Waiting("reset") EXCEPT !.job = Disp.job] /\ Rdr' = Rdr
    BY <1>1, Hops DEF Threads
  <2>. QED  BY <2>1 DEF Waiting
<1>3. \A j \in Jobs : /\ Waits(j)' <=> Waits(j)
                      /\ Received(j)' <=> Received(j)
                      /\ Held(j)' <=> Held(j)
  <2>1. \A j \in Jobs : (Waits(j)' <=> Waits(j)) /\ (Received(j)' <=> Received(j))
    BY <1>1 DEF Waits, Received
  <2>2. \A j \in Jobs : ~Held(j)' /\ ~Held(j)
    BY <1>1, <1>2 DEF Held, Holding
  <2>. QED  BY <2>1, <2>2
<1>4. OnceInv' /\ SomewhereInv'
  BY <1>1, <1>3, SamePlaces
<1>5. AnswerInv'
  <2>1. /\ answers[Disp.job] = <<>> /\ written[Disp.job] # 0 /\ Disp.job # Rdr.act
        /\ Rdr.act # None => written[Rdr.act] # 0 /\ answers[Rdr.act] = <<>>
    BY <1>1 DEF AnswerInv, Holding
  <2>2. \A j \in Jobs : /\ Len(answers'[j]) <= 1
                        /\ written'[j] # 0 => Received(j)'
                        /\ answers'[j] # <<>> => Received(j)'
    BY <1>1, <1>3 DEF AnswerInv
  <2>3. Disp'.pc \notin Holding
    BY <1>2 DEF Holding
  <2>. QED  BY <1>1, <1>2, <2>1, <2>2, <2>3 DEF AnswerInv
<1>. QED  BY <1>4, <1>5 DEF JobInv

\* An answer is sent for a job that has none, which nobody waits for any more then.
LEMMA JobSend ==
    ASSUME StepInv, StepInv', JobInv, NEW t \in Threads, NEW x \in Jobs, NEW content,
           Send(t, x, content), UNCHANGED <<received, hands, queue, active, written>>,
           answers[x] = <<>>,
           Waits(x) => Held(x),
           \A j \in Jobs : Held(j)' => Held(j),
           \A j \in Jobs : Held(j) /\ ~Held(j)' => j = x,
           active # x,
           \/ Disp'.pc = "take" /\ x = Disp.job /\ Disp.pc \in Holding /\ Rdr' = Rdr
           \/ Disp' = Disp /\ x = Rdr.act /\ Rdr'.act = None /\ Rdr'.pc = "fetch"
    PROVE  JobInv'
<1>1. /\ OnceInv /\ SomewhereInv /\ AnswerInv /\ TypeOK /\ x[1] \in Clients
      /\ answers \in [Jobs -> Seq(SUBSET Jobs)]
      /\ active \in Jobs \cup {None} /\ Rdr.act \in Jobs \cup {None} /\ None \notin Jobs
  BY JobParts, LocalsType, BridgeAssumption DEF StepInv, TypeOK, JobInv, Locals
<1>2. \/ answers' = [answers EXCEPT ![x] = Append(@, content)] /\ UNCHANGED <<clients, rm>>
      \/ UNCHANGED answers /\ StartRemoval(x[1], t)
  BY DEF Send
<1>3. /\ clients' \subseteq clients
      /\ \A d \in Clients : rm'[d].kept = rm[d].kept
  BY <1>1, <1>2, StartPlaces
<1>4. /\ \A j \in Jobs : j # x => answers'[j] = answers[j]
      /\ \/ answers'[x] # <<>> /\ Len(answers'[x]) = 1
         \/ answers'[x] = answers[x] /\ x[1] \notin clients'
  <2>1. CASE answers' = [answers EXCEPT ![x] = Append(@, content)]
    <3>1. answers'[x] = Append(<<>>, content) /\ \A j \in Jobs : j # x => answers'[j] = answers[j]
      BY <1>1, <2>1
    <3>2. Append(<<>>, content) = <<content>>
      OBVIOUS
    <3>. QED  BY <3>1, <3>2
  <2>2. CASE UNCHANGED answers /\ StartRemoval(x[1], t)
    BY <1>1, <2>2, StartPlaces
  <2>. QED  BY <1>2, <2>1, <2>2
<1>5. Received(x)
  BY <1>1 DEF AnswerInv, Waits
<1>6. \A j \in Jobs : Received(j)' <=> Received(j)
  BY DEF Received
<1>7. \A j \in Jobs : /\ Waits(j)' => Waits(j)
                      /\ Waits(j) /\ ~Waits(j)' => j = x
  BY <1>4, <1>6 DEF Waits
<1>8. OnceInv' /\ SomewhereInv'
  <2>1. \A j \in Jobs : /\ Waits(j) /\ ~Waits(j)' => Held(j)
                        /\ Held(j) /\ ~Held(j)' => ~Waits(j)' \/ j[1] \notin clients'
    BY <1>4, <1>7 DEF Waits
  <2>. QED  BY <1>1, <1>3, <1>7, <2>1, SamePlaces
<1>9. AnswerInv'
  <2>1. \A j \in Jobs : /\ Len(answers'[j]) <= 1
                        /\ written'[j] # 0 => Received(j)'
                        /\ answers'[j] # <<>> => Received(j)'
    <3>. SUFFICES ASSUME NEW j \in Jobs
                  PROVE  /\ Len(answers'[j]) <= 1
                         /\ written'[j] # 0 => Received(j)'
                         /\ answers'[j] # <<>> => Received(j)'
      OBVIOUS
    <3>1. /\ Len(answers[j]) <= 1
          /\ written[j] # 0 => Received(j)
          /\ answers[j] # <<>> => Received(j)
      BY <1>1 DEF AnswerInv
    <3>2. CASE j = x
      <4>1. Received(j)'
        BY <1>5, <1>6, <3>2
      <4>2. Len(answers'[j]) <= 1
        <5>1. Len(answers'[x]) = 1 \/ answers'[x] = answers[x]
          BY <1>4
        <5>2. Len(answers[x]) <= 1
          BY <3>1, <3>2
        <5>3. Len(answers'[x]) <= 1
          <6>1. CASE Len(answers'[x]) = 1
            BY <6>1
          <6>2. CASE answers'[x] = answers[x]
            BY <5>2, <6>2, Zenon
          <6>. QED  BY <5>1, <6>1, <6>2
        <5>. QED  BY <3>2, <5>3
      <4>. QED  BY <4>1, <4>2
    <3>3. CASE j # x
      BY <1>4, <1>6, <3>1, <3>3
    <3>. QED  BY <3>2, <3>3
  <2>2. active' # None => written'[active'] # 0 /\ answers'[active'] = <<>>
    BY <1>1, <1>4 DEF AnswerInv
  <2>3. CASE Disp'.pc = "take" /\ x = Disp.job /\ Disp.pc \in Holding /\ Rdr' = Rdr
    <3>1. x # Rdr.act /\ Disp'.pc \notin Holding
      BY <1>1, <2>3 DEF AnswerInv, Holding
    <3>2. Rdr'.act # None => written'[Rdr'.act] # 0 /\ answers'[Rdr'.act] = <<>>
      BY <1>1, <1>4, <2>3, <3>1 DEF AnswerInv
    <3>3. Rdr'.pc \in {"send", "notify"} => active' # Rdr'.act
      BY <1>1, <2>3 DEF AnswerInv
    <3>. QED  BY <2>1, <2>2, <2>3, <3>1, <3>2, <3>3 DEF AnswerInv
  <2>4. CASE Disp' = Disp /\ x = Rdr.act /\ Rdr'.act = None /\ Rdr'.pc = "fetch"
    <3>1. Disp.pc \in Holding => Received(Disp.job)' /\ answers'[Disp.job] = <<>> /\ Disp.job \in Jobs
      <4>1. Disp.pc \in Holding => /\ Received(Disp.job) /\ answers[Disp.job] = <<>>
                                   /\ Disp.job \in Jobs /\ Disp.job # x
        BY <1>1, <2>4 DEF AnswerInv, StepInv, DispatcherInv
      <4>. QED  BY <1>4, <2>4, <4>1 DEF Received
    <3>2. /\ Disp.pc \in Holding \ {"activate"} => written'[Disp.job] = 0
          /\ Disp.pc \in {"activate", "reset"} => written'[Disp.job] # 0
      BY <1>1 DEF AnswerInv
    <3>3. Disp'.pc \in Holding => Disp'.job # Rdr'.act
      BY <1>1, <2>4, <3>1
    <3>. QED  BY <2>1, <2>2, <2>4, <3>1, <3>2, <3>3 DEF AnswerInv
  <2>. QED  BY <2>3, <2>4
<1>. QED  BY <1>8, <1>9 DEF JobInv

LEMMA JobDispatcher ==
    ASSUME StepInv, StepInv', JobInv, Dispatcher \/ Mark("dispatcher")
    PROVE  JobInv'
<1>. USE DEF deviceVars, historyVars, socketVars
<1>0. /\ DispatcherInv /\ TypeOK /\ Disp \in Locals /\ AnswerInv /\ JobInv /\ None \notin Jobs
      /\ \A pc : Waiting(pc).pc = pc
  BY LocalsType, BridgeAssumption DEF StepInv, JobInv, Waiting
<1>1. CASE CheckClient
  <2>1. /\ Disp.pc = "check"
        /\ \/ Disp.job[1] \in clients /\ Goto("dispatcher", [Disp EXCEPT !.pc = "port"])
           \/ Disp.job[1] \notin clients /\ Goto("dispatcher", Waiting("take"))
        /\ UNCHANGED <<hands, queue, active, clients, rm, received, written, answers>>
    BY <1>1 DEF CheckClient, At, Disp
  <2>2. CASE Goto("dispatcher", [Disp EXCEPT !.pc = "port"])
    <3>1. Rdr' = Rdr /\ Disp'.pc = "port" /\ Disp'.job = Disp.job
      BY <1>0, <2>2, Hops DEF Threads, Locals
    <3>. QED  BY <1>0, <2>1, <3>1, JobQuiet DEF Holding
  <2>3. CASE Disp.job[1] \notin clients /\ Goto("dispatcher", Waiting("take"))
    <3>1. Rdr' = Rdr /\ Disp'.pc = "take"
      BY <1>0, <2>3, Hops DEF Threads
    <3>. QED  BY <1>0, <2>1, <2>3, <3>1, JobQuiet
  <2>. QED  BY <2>1, <2>2, <2>3
<1>2. CASE DispatcherPort
  <2>1. /\ Disp.pc = "port"
        /\ \E pc \in {"offline", "write"} : Goto("dispatcher", [Disp EXCEPT !.pc = pc, !.port = port])
        /\ UNCHANGED <<hands, queue, active, clients, rm, received, written, answers>>
    BY <1>2 DEF DispatcherPort, At, Disp
  <2>2. PICK pc \in {"offline", "write"} : Goto("dispatcher", [Disp EXCEPT !.pc = pc, !.port = port])
    BY <2>1
  <2>3. Rdr' = Rdr /\ Disp'.pc = pc /\ Disp'.job = Disp.job
    <3>1. Disp' = [Disp EXCEPT !.pc = pc, !.port = port] /\ Rdr' = Rdr
      BY <1>0, <2>2, Hops DEF Threads
    <3>. QED  BY <1>0, <3>1 DEF Locals
  <2>. QED  BY <1>0, <2>1, <2>3, JobQuiet DEF Holding
<1>3. CASE ResetResponse
  <2>1. /\ Disp.pc = "reset" /\ Goto("dispatcher", Waiting("take"))
        /\ UNCHANGED <<hands, queue, active, clients, rm, received, written, answers>>
    BY <1>3 DEF ResetResponse, At, Disp
  <2>2. Rdr' = Rdr /\ Disp'.pc = "take"
    BY <1>0, <2>1, Hops DEF Threads
  <2>. QED  BY <1>0, <2>1, <2>2, JobQuiet
<1>4. CASE AnswerOffline
  <2>1. /\ Disp.pc = "offline" /\ Goto("dispatcher", Waiting("take"))
        /\ Send("dispatcher", Disp.job, {})
        /\ UNCHANGED <<received, hands, queue, active, written>>
    BY <1>4 DEF AnswerOffline, At, Disp
  <2>2. PICK x \in Jobs : x = Disp.job
    BY <1>0, <2>1 DEF DispatcherInv, Holding
  <2>3. Rdr' = Rdr /\ Disp'.pc = "take"
    BY <1>0, <2>1, Hops DEF Threads
  <2>4. answers[x] = <<>> /\ active # x
    BY <1>0, <2>1, <2>2 DEF AnswerInv, DispatcherInv, Holding
  <2>5. \A j \in Jobs : ~Held(j)' /\ (Held(j) <=> j = x)
    BY <2>1, <2>2, <2>3 DEF Held, Holding
  <2>6. Disp.pc \in Holding
    BY <2>1 DEF Holding
  <2>. QED  BY <1>0, <2>1, <2>2, <2>3, <2>4, <2>5, <2>6, JobSend DEF Threads
<1>5. CASE MarkClose("dispatcher")
  <2>1. /\ Disp.pc = "close" /\ Goto("dispatcher", [Disp EXCEPT !.pc = "look at active", !.port = 0])
        /\ UNCHANGED <<hands, queue, active, clients, rm, received, written, answers>>
    BY <1>5 DEF MarkClose, At, Disp
  <2>2. Rdr' = Rdr /\ Disp'.pc = "look at active" /\ Disp'.job = Disp.job
    <3>1. Disp' = [Disp EXCEPT !.pc = "look at active", !.port = 0] /\ Rdr' = Rdr
      BY <1>0, <2>1, Hops DEF Threads
    <3>. QED  BY <1>0, <3>1 DEF Locals
  <2>. QED  BY <1>0, <2>1, <2>2, JobQuiet DEF Holding
<1>6. CASE MarkRead("dispatcher")
  <2>1. /\ Disp.pc = "look at active"
        /\ Goto("dispatcher", [Disp EXCEPT !.pc = "clear active", !.act = active])
        /\ UNCHANGED <<hands, queue, active, clients, rm, received, written, answers>>
    BY <1>6 DEF MarkRead, At, Disp
  <2>2. Rdr' = Rdr /\ Disp'.pc = "clear active" /\ Disp'.job = Disp.job
    <3>1. Disp' = [Disp EXCEPT !.pc = "clear active", !.act = active] /\ Rdr' = Rdr
      BY <1>0, <2>1, Hops DEF Threads
    <3>. QED  BY <1>0, <3>1 DEF Locals
  <2>. QED  BY <1>0, <2>1, <2>2, JobQuiet DEF Holding
<1>7. CASE MarkClear("dispatcher")
  <2>1. /\ Disp.pc = "clear active" /\ active' = None
        /\ UNCHANGED <<hands, queue, clients, rm, received, written, answers>>
    BY <1>7 DEF MarkClear, At, Disp
  <2>2. Goto("dispatcher", [Disp EXCEPT !.pc = "offline", !.act = None])
    BY <1>0, <1>7, <2>1 DEF MarkClear, AfterMark, Disp, DispatcherInv
  <2>3. Rdr' = Rdr /\ Disp'.pc = "offline" /\ Disp'.job = Disp.job
    <3>1. Disp' = [Disp EXCEPT !.pc = "offline", !.act = None] /\ Rdr' = Rdr
      BY <1>0, <2>2, Hops DEF Threads
    <3>. QED  BY <1>0, <3>1 DEF Locals
  <2>. QED  BY <1>0, <2>1, <2>3, JobQuiet DEF Holding
<1>8. CASE MarkNotify("dispatcher")
  BY <1>0, <1>8 DEF MarkNotify, At, DispatcherInv, Holding, Disp
<1>. QED  BY <1>1, <1>2, <1>3, <1>4, <1>5, <1>6, <1>7, <1>8, JobTake, JobWrite, JobActivate
          DEF Dispatcher, Mark

\* The reader goes on without a job, or with the one it had, or takes the active one.
LEMMA JobListen ==
    ASSUME StepInv, StepInv', JobInv, Disp' = Disp,
           UNCHANGED <<hands, queue, clients, rm, received, written, answers>>,
           \/ Rdr'.act = None /\ Rdr'.pc \notin {"send", "notify"} /\ active' \in {active, None}
           \/ Rdr'.act = Rdr.act /\ active' = None
           \/ Rdr'.act = active /\ Rdr'.pc \notin {"send", "notify"} /\ UNCHANGED active
    PROVE  JobInv'
<1>1. OnceInv /\ SomewhereInv /\ AnswerInv /\ TypeOK
  BY DEF StepInv, JobInv
<1>2. \A j \in Jobs : /\ Waits(j)' <=> Waits(j)
                      /\ Received(j)' <=> Received(j)
                      /\ Held(j)' <=> Held(j)
  BY DEF Waits, Received, Held
<1>3. OnceInv' /\ SomewhereInv'
  BY <1>1, <1>2, SamePlaces
<1>4. AnswerInv'
  <2>1. CASE \/ Rdr'.act = None /\ Rdr'.pc \notin {"send", "notify"} /\ active' \in {active, None}
             \/ Rdr'.act = Rdr.act /\ active' = None
    BY <1>1, <1>2, <2>1, SameAnswers
  <2>2. CASE Rdr'.act = active /\ Rdr'.pc \notin {"send", "notify"} /\ UNCHANGED active
    <3>1. \A j \in Jobs : /\ Len(answers'[j]) <= 1
                          /\ written'[j] # 0 => Received(j)'
                          /\ answers'[j] # <<>> => Received(j)'
      BY <1>1, <1>2 DEF AnswerInv
    <3>2. Disp.pc \in Holding => Received(Disp.job)' /\ Disp.job # Rdr'.act
      <4>1. Disp.pc \in Holding => Received(Disp.job) /\ Disp.job \in Jobs /\ active = None
        BY <1>1 DEF AnswerInv, StepInv, DispatcherInv
      <4>. QED  BY <1>2, <2>2, <4>1, BridgeAssumption DEF Received
    <3>. QED  BY <1>1, <2>2, <3>1, <3>2 DEF AnswerInv
  <2>. QED  BY <2>1, <2>2
<1>. QED  BY <1>3, <1>4 DEF JobInv

LEMMA JobReader ==
    ASSUME StepInv, StepInv', JobInv, Reader \/ Mark("reader")
    PROVE  JobInv'
<1>. USE DEF deviceVars, historyVars, socketVars
<1>0. /\ ReaderInv /\ DispatcherInv /\ TypeOK /\ Rdr \in Locals /\ AnswerInv /\ None \notin Jobs
      /\ \A pc : Waiting(pc).pc = pc /\ Waiting(pc).act = None
  BY LocalsType, BridgeAssumption DEF StepInv, JobInv, Waiting
<1>1. CASE ReaderPort \/ Look
  <2>1. /\ Rdr.act = None
        /\ \/ \E pc, p : Goto("reader", [Rdr EXCEPT !.pc = pc, !.port = p]) /\ pc = "read"
           \/ Goto("reader", [Rdr EXCEPT !.pc = "extend"])
           \/ Goto("reader", Waiting("fetch"))
        /\ UNCHANGED <<hands, queue, active, clients, rm, received, written, answers>>
    BY <1>0, <1>1 DEF ReaderPort, Look, At, Rdr, ReaderInv, Answering
  <2>2. \/ \E pc, p : Rdr' = [Rdr EXCEPT !.pc = pc, !.port = p] /\ pc = "read"
        \/ Rdr' = [Rdr EXCEPT !.pc = "extend"]
        \/ Rdr' = Waiting("fetch")
    BY <1>0, <2>1, Hops DEF Threads
  <2>3. Rdr'.act = None /\ Rdr'.pc \notin {"send", "notify"}
    BY <1>0, <2>1, <2>2 DEF Locals
  <2>4. Disp' = Disp
    BY <1>0, <2>1, Hops DEF Threads
  <2>. QED  BY <2>1, <2>3, <2>4, JobListen
<1>2. CASE Read \/ Extend \/ TestComplete
  <2>1. /\ \/ \E pc \in {"close", "complete", "grab", "fetch"} : Goto("reader", Waiting(pc))
           \/ \E got : Goto("reader", [Waiting("look") EXCEPT !.got = got])
        /\ UNCHANGED <<hands, queue, active, clients, rm, received, written, answers>>
    BY <1>2 DEF Read, Extend, TestComplete
  <2>2. CASE \E pc \in {"close", "complete", "grab", "fetch"} : Goto("reader", Waiting(pc))
    <3>1. PICK pc \in {"close", "complete", "grab", "fetch"} : Goto("reader", Waiting(pc))
      BY <2>2
    <3>2. Rdr' = Waiting(pc) /\ Disp' = Disp
      BY <1>0, <3>1, Hops DEF Threads
    <3>3. Rdr'.act = None /\ Rdr'.pc \notin {"send", "notify"}
      BY <1>0, <3>2
    <3>. QED  BY <2>1, <3>2, <3>3, JobListen
  <2>3. CASE \E got : Goto("reader", [Waiting("look") EXCEPT !.got = got])
    <3>1. PICK got : Goto("reader", [Waiting("look") EXCEPT !.got = got])
      BY <2>3
    <3>2. Rdr' = [Waiting("look") EXCEPT !.got = got] /\ Disp' = Disp
      BY <1>0, <3>1, Hops DEF Threads
    <3>3. Rdr'.act = None /\ Rdr'.pc \notin {"send", "notify"}
      BY <3>2 DEF Waiting
    <3>. QED  BY <2>1, <3>2, <3>3, JobListen
  <2>. QED  BY <2>1, <2>2, <2>3
<1>3. CASE Grab
  <2>1. /\ \/ active = None /\ Goto("reader", Waiting("fetch"))
           \/ Goto("reader", [Waiting("finish") EXCEPT !.act = active, !.got = response])
        /\ UNCHANGED <<hands, queue, active, clients, rm, received, written, answers>>
    BY <1>3 DEF Grab
  <2>2. CASE active = None /\ Goto("reader", Waiting("fetch"))
    <3>1. Rdr' = Waiting("fetch") /\ Disp' = Disp
      BY <1>0, <2>2, Hops DEF Threads
    <3>2. Rdr'.act = None /\ Rdr'.pc \notin {"send", "notify"}
      BY <1>0, <3>1
    <3>. QED  BY <2>1, <3>1, <3>2, JobListen
  <2>3. CASE Goto("reader", [Waiting("finish") EXCEPT !.act = active, !.got = response])
    <3>1. Rdr' = [Waiting("finish") EXCEPT !.act = active, !.got = response] /\ Disp' = Disp
      BY <1>0, <2>3, Hops DEF Threads
    <3>2. Rdr'.act = active /\ Rdr'.pc \notin {"send", "notify"}
      BY <3>1 DEF Waiting
    <3>. QED  BY <2>1, <3>1, <3>2, JobListen
  <2>. QED  BY <2>1, <2>2, <2>3
<1>4. CASE Finish
  <2>1. /\ Goto("reader", [Rdr EXCEPT !.pc = "send"]) /\ active' = None
        /\ UNCHANGED <<hands, queue, clients, rm, received, written, answers>>
    BY <1>4 DEF Finish, Rdr
  <2>2. Rdr' = [Rdr EXCEPT !.pc = "send"] /\ Disp' = Disp
    BY <1>0, <2>1, Hops DEF Threads
  <2>3. Rdr'.act = Rdr.act
    BY <1>0, <2>2 DEF Locals
  <2>. QED  BY <2>1, <2>2, <2>3, JobListen
<1>5. CASE MarkClose("reader")
  <2>1. /\ Goto("reader", [Rdr EXCEPT !.pc = "look at active", !.port = 0]) /\ Rdr.act = None
        /\ UNCHANGED <<hands, queue, active, clients, rm, received, written, answers>>
    BY <1>0, <1>5 DEF MarkClose, At, Rdr, ReaderInv, Answering
  <2>2. Rdr' = [Rdr EXCEPT !.pc = "look at active", !.port = 0] /\ Disp' = Disp
    BY <1>0, <2>1, Hops DEF Threads
  <2>3. Rdr'.act = None /\ Rdr'.pc \notin {"send", "notify"}
    BY <1>0, <2>1, <2>2 DEF Locals
  <2>. QED  BY <2>1, <2>2, <2>3, JobListen
<1>6. CASE MarkRead("reader")
  <2>1. /\ Goto("reader", [Rdr EXCEPT !.pc = "clear active", !.act = active])
        /\ UNCHANGED <<hands, queue, active, clients, rm, received, written, answers>>
    BY <1>6 DEF MarkRead, Rdr
  <2>2. Rdr' = [Rdr EXCEPT !.pc = "clear active", !.act = active] /\ Disp' = Disp
    BY <1>0, <2>1, Hops DEF Threads
  <2>3. Rdr'.act = active /\ Rdr'.pc \notin {"send", "notify"}
    BY <1>0, <2>2 DEF Locals
  <2>. QED  BY <2>1, <2>2, <2>3, JobListen
<1>7. CASE MarkClear("reader")
  <2>1. /\ \/ Rdr.act = None /\ Goto("reader", Waiting("fetch"))
           \/ Goto("reader", [Rdr EXCEPT !.pc = "notify"])
        /\ active' = None
        /\ UNCHANGED <<hands, queue, clients, rm, received, written, answers>>
    BY <1>7 DEF MarkClear, AfterMark, Rdr
  <2>2. /\ \/ Rdr' = Waiting("fetch") /\ Rdr.act = None
           \/ Rdr' = [Rdr EXCEPT !.pc = "notify"]
        /\ Disp' = Disp
    BY <1>0, <2>1, Hops DEF Threads
  <2>3. Rdr'.act = Rdr.act
    BY <1>0, <2>2 DEF Locals
  <2>. QED  BY <2>1, <2>2, <2>3, JobListen
<1>8. CASE SendResponse \/ MarkNotify("reader")
  <2>1. /\ Rdr.pc \in {"send", "notify"} /\ Goto("reader", Waiting("fetch"))
        /\ \E content : Send("reader", Rdr.act, content)
        /\ UNCHANGED <<received, hands, queue, active, written>>
    BY <1>8 DEF SendResponse, MarkNotify, AfterMark, At, Rdr
  <2>2. PICK x \in Jobs : x = Rdr.act
    BY <1>0, <2>1 DEF ReaderInv
  <2>3. PICK content : Send("reader", x, content)
    BY <2>1, <2>2
  <2>4. Rdr' = Waiting("fetch") /\ Disp' = Disp
    BY <1>0, <2>1, Hops DEF Threads
  <2>5. answers[x] = <<>> /\ written[x] # 0 /\ active # x
    BY <1>0, <2>1, <2>2 DEF AnswerInv
  <2>6. ~Waits(x) /\ \A j \in Jobs : Held(j)' <=> Held(j)
    BY <2>4, <2>5 DEF Waits, Held
  <2>7. Disp' = Disp /\ x = Rdr.act /\ Rdr'.act = None /\ Rdr'.pc = "fetch"
    BY <1>0, <2>2, <2>4
  <2>. QED  BY <2>1, <2>3, <2>5, <2>6, <2>7, JobSend DEF Threads
<1>. QED  BY <1>1, <1>2, <1>3, <1>4, <1>5, <1>6, <1>7, <1>8 DEF Reader, Mark

LEMMA JobPreserved == StepInv /\ StepInv' /\ JobInv /\ [Next]_vars => JobInv'
<1>. SUFFICES ASSUME StepInv, StepInv', JobInv, [Next]_vars PROVE JobInv'
  OBVIOUS
<1>1. CASE UNCHANGED vars
  BY <1>1 DEF vars, JobInv, OnceInv, SomewhereInv, AnswerInv, Handed, Queued, Kept, Held, Waits,
              Received, Disp, Rdr
<1>2. CASE Next
  BY <1>2, JobWorld, JobRemoval, JobReceive, JobPut, JobEnd, JobDispatcher, JobReader
     DEF Next, Threads
<1>. QED  BY <1>1, <1>2

\* No command is answered twice: the dispatcher answers what it could not write while
\* no job is active, and between the reader's answer and the failing of the active job
\* the reader itself decides, in one thread.
THEOREM OneAnswer == Spec => []AnsweredOnce
<1>1. JobInv => AnsweredOnce
  BY DEF JobInv, AnswerInv, AnsweredOnce
<1>. QED  BY <1>1, StepInit, JobInit, StepPreserved, JobPreserved, PTL DEF Spec

(***************************************************************************)
(* QueuedOnce counts the places of a job: OnceInv and SomewhereInv say the *)
(* same without a cardinality.                                             *)
(***************************************************************************)
\* The places of j in a sequence without repetition
LEMMA WhereOnce ==
    ASSUME NEW s, IsInjective(s), NEW j
    PROVE  /\ j \notin Range(s) => Where(j, s) = {}
           /\ j \in Range(s) => \E i \in DOMAIN s : Where(j, s) = {i}
<1>1. j \notin Range(s) => Where(j, s) = {}
  BY DEF Where, Range
<1>2. ASSUME j \in Range(s) PROVE \E i \in DOMAIN s : Where(j, s) = {i}
  <2>1. PICK i \in DOMAIN s : s[i] = j
    BY <1>2 DEF Range
  <2>2. Where(j, s) = {i}
    BY <2>1 DEF Where, IsInjective
  <2>. QED  BY <2>2
<1>. QED  BY <1>1, <1>2

LEMMA Counted ==
    ASSUME StepInv, JobInv, NEW j \in Jobs, j[1] \in clients, Received(j)
    PROVE  Cardinality(Slots(j)) = IF written[j] = 0 /\ answers[j] = <<>> THEN 1 ELSE 0
<1>. DEFINE H == {<<"hands", i>> : i \in Where(j, hands[j[1]])}
            Q == {<<"queue", i>> : i \in Where(j, queue)}
            K(c) == {<<"kept", c, i>> : i \in Where(j, rm[c].kept)}
            D == IF Disp.job = j /\ written[j] = 0 THEN {<<"dispatcher">>} ELSE {}
<1>0. /\ OnceInv /\ SomewhereInv /\ AnswerInv /\ TypeOK /\ DispatcherInv
      /\ j[1] \in Clients /\ None \notin Jobs
  BY JobParts, BridgeAssumption DEF StepInv, JobInv
<1>1. Slots(j) = H \cup Q \cup (UNION {K(c) : c \in Clients}) \cup D
  BY DEF Slots, Disp
<1>2. /\ IsInjective(hands[j[1]]) /\ IsInjective(queue)
      /\ \A c \in Clients : IsInjective(rm[c].kept)
  BY <1>0 DEF OnceInv
<1>3. /\ j \notin Handed(j[1]) => H = {}
      /\ j \in Handed(j[1]) => \E i : H = {<<"hands", i>>}
  <2>1. j \notin Handed(j[1]) => H = {}
    BY <1>2, WhereOnce DEF Handed
  <2>2. ASSUME j \in Handed(j[1]) PROVE \E i : H = {<<"hands", i>>}
    <3>1. PICK i : Where(j, hands[j[1]]) = {i}
      BY <1>2, <2>2, WhereOnce DEF Handed
    <3>2. H = {<<"hands", i>>}
      BY <3>1
    <3>. QED  BY <3>2
  <2>. QED  BY <2>1, <2>2
<1>4. /\ j \notin Queued => Q = {}
      /\ j \in Queued => \E i : Q = {<<"queue", i>>}
  <2>1. j \notin Queued => Q = {}
    BY <1>2, WhereOnce DEF Queued
  <2>2. ASSUME j \in Queued PROVE \E i : Q = {<<"queue", i>>}
    <3>1. PICK i : Where(j, queue) = {i}
      BY <1>2, <2>2, WhereOnce DEF Queued
    <3>2. Q = {<<"queue", i>>}
      BY <3>1
    <3>. QED  BY <3>2
  <2>. QED  BY <2>1, <2>2
<1>5. ASSUME NEW c \in Clients
      PROVE  /\ j \notin Kept(c) => K(c) = {}
             /\ j \in Kept(c) => \E i : K(c) = {<<"kept", c, i>>}
  <2>1. j \notin Kept(c) => K(c) = {}
    BY <1>2, <1>5, WhereOnce DEF Kept
  <2>2. ASSUME j \in Kept(c) PROVE \E i : K(c) = {<<"kept", c, i>>}
    <3>1. PICK i : Where(j, rm[c].kept) = {i}
      BY <1>2, <1>5, <2>2, WhereOnce DEF Kept
    <3>2. K(c) = {<<"kept", c, i>>}
      BY <3>1
    <3>. QED  BY <3>2
  <2>. QED  BY <2>1, <2>2
<1>6. D = IF Held(j) THEN {<<"dispatcher">>} ELSE {}
  <2>1. Disp.job = j /\ written[j] = 0 <=> Held(j)
    BY <1>0 DEF Held, DispatcherInv, AnswerInv, Holding
  <2>. QED  BY <2>1
<1>. HIDE DEF H, Q, K, D
<1>7. CASE ~Waits(j)
  <2>1. j \notin Handed(j[1]) /\ j \notin Queued /\ \A c \in Clients : j \notin Kept(c)
    BY <1>0, <1>7 DEF OnceInv
  <2>2. ~Held(j)
    BY <1>0, <1>7 DEF AnswerInv, Held, Waits
  <2>3. Slots(j) = {}
    BY <1>1, <1>3, <1>4, <1>5, <1>6, <2>1, <2>2
  <2>. QED  BY <1>7, <2>3, FS_EmptySet DEF Waits
<1>8. CASE Waits(j)
  <2>1. CASE j \in Handed(j[1])
    <3>1. j \notin Queued /\ ~Held(j) /\ \A c \in Clients : j \notin Kept(c)
      BY <1>0, <2>1 DEF OnceInv
    <3>2. UNION {K(c) : c \in Clients} = {}
      BY <1>5, <3>1
    <3>3. \E s : Slots(j) = {s}
      BY <1>1, <1>3, <1>4, <1>6, <2>1, <3>1, <3>2
    <3>. QED  BY <1>8, <3>3, FS_Singleton DEF Waits
  <2>2. CASE j \in Queued
    <3>1. j \notin Handed(j[1]) /\ ~Held(j) /\ \A c \in Clients : j \notin Kept(c)
      BY <1>0, <2>2 DEF OnceInv
    <3>2. UNION {K(c) : c \in Clients} = {}
      BY <1>5, <3>1
    <3>3. \E s : Slots(j) = {s}
      BY <1>1, <1>3, <1>4, <1>6, <2>2, <3>1, <3>2
    <3>. QED  BY <1>8, <3>3, FS_Singleton DEF Waits
  <2>3. CASE Held(j)
    <3>1. j \notin Handed(j[1]) /\ j \notin Queued /\ \A c \in Clients : j \notin Kept(c)
      BY <1>0, <2>3 DEF OnceInv
    <3>2. UNION {K(c) : c \in Clients} = {}
      BY <1>5, <3>1
    <3>3. H = {} /\ Q = {} /\ D = {<<"dispatcher">>}
      BY <1>3, <1>4, <1>6, <2>3, <3>1
    <3>4. Slots(j) = D
      BY <1>1, <3>2, <3>3, Zenon
    <3>5. \E s : Slots(j) = {s}
      BY <3>3, <3>4
    <3>. QED  BY <1>8, <3>5, FS_Singleton DEF Waits
  <2>4. ASSUME NEW c \in Clients, j \in Kept(c)
        PROVE  Cardinality(Slots(j)) = IF written[j] = 0 /\ answers[j] = <<>> THEN 1 ELSE 0
    <3>1. /\ j \notin Handed(j[1]) /\ j \notin Queued /\ ~Held(j)
          /\ \A d \in Clients \ {c} : j \notin Kept(d)
      BY <1>0, <2>4 DEF OnceInv
    <3>2. UNION {K(d) : d \in Clients} = K(c)
      <4>1. \A d \in Clients \ {c} : K(d) = {}
        BY <1>5, <3>1
      <4>. QED  BY <4>1
    <3>3. \E s : Slots(j) = {s}
      BY <1>1, <1>3, <1>4, <1>5, <1>6, <2>4, <3>1, <3>2
    <3>. QED  BY <1>8, <3>3, FS_Singleton DEF Waits
  <2>. QED  BY <1>0, <1>8, <2>1, <2>2, <2>3, <2>4 DEF SomewhereInv
<1>. QED  BY <1>7, <1>8

\* Emptying and refilling the queue for a client that leaves, next to the dispatcher
\* that takes from it and the clients that put into it, neither loses nor doubles a
\* command of another client: it is in one place until it is written or answered.
THEOREM NoneLostOrDoubled == Spec => []QueuedOnce
<1>1. StepInv /\ JobInv => QueuedOnce
  BY Counted DEF QueuedOnce
<1>. QED  BY <1>1, StepInit, JobInit, StepPreserved, JobPreserved, PTL DEF Spec

(***************************************************************************)
(* Output in a wrong answer.  A job that was written and is not given up   *)
(* is the last one in the stream of what the device was told and printed,  *)
(* so that an answer that ends in its prompt has taken all of it.          *)
(***************************************************************************)
\* given up, or the reader is about to answer it without its output
Gone(k) ==
    \/ GivenUp(k)
    \/ Rdr.act = k /\ Rdr.pc = "notify"
    \/ Rdr.act = k /\ Rdr.pc = "send" /\ k \notin Owners(Rdr.got)

Expected(k) == written[k] # 0 /\ ~Gone(k)
Settled(k)  == answers[k] # <<>> \/ (Rdr.act = k /\ Rdr.pc = "send")
Running(k)  == k = active \/ (Disp.pc = "activate" /\ Disp.job = k)

\* what was read and not yet answered, from the eldest token on
Collected == IF Rdr.pc = "finish" THEN Rdr.got ELSE response
Fresh     == IF Rdr.pc \in {"look", "extend"} THEN Rdr.got ELSE <<>>
Stream    == Collected \o Fresh \o out

Precedes(x, y, s) == \E p, q \in DOMAIN s : p < q /\ s[p] = x /\ s[q] = y

\* k is the last command, its output the last output, and only its last token a prompt
Ends(k) ==
    /\ \A p \in DOMAIN wire : wire[p] = k => p = Len(wire)
    /\ k \in Owners(Stream) => wire = <<>>
    /\ \A x, y : Precedes(x, y, Stream) /\ x.of = k => y.of = k /\ ~x.prompt

Flow(k) ==
    /\ \/ Settled(k) /\ k \notin Range(wire) \cup Owners(Stream)
       \/ ~Settled(k) /\ Running(k) /\ Ends(k)
    /\ k \in Owners(response) => k = active
    /\ Rdr.pc = "extend" /\ k \in Owners(Rdr.got) => k = active
    /\ Rdr.pc \in {"finish", "send"} /\ k \in Owners(Rdr.got) => Rdr.act = k

FlowInv == \A k \in Jobs : Expected(k) => Flow(k)

\* the device prints nothing of what it was not told
KnownInv ==
    \A k \in Jobs : written[k] = 0 =>
       /\ k \notin Range(wire) \cup Owners(out) \cup Owners(response) \cup Owners(Rdr.got)
       /\ \A j \in Jobs : \A i \in DOMAIN answers[j] : k \notin answers[j][i]

\* an answer ends in a prompt
PromptInv ==
    /\ Rdr.pc = "grab" => response = <<>> \/ Last(response).prompt
    /\ Rdr.pc = "finish" => Rdr.got = <<>> \/ Last(Rdr.got).prompt

StrayInv == FlowInv /\ KnownInv /\ PromptInv /\ StrayOnlyAbandoned

LEMMA ConcatParts ==
    ASSUME NEW a \in Seq(Tokens), NEW b \in Seq(Tokens)
    PROVE  /\ a \o b \in Seq(Tokens)
           /\ Owners(a \o b) = Owners(a) \cup Owners(b)
           /\ \A x, y : Precedes(x, y, a \o b) <=> \/ Precedes(x, y, a) \/ Precedes(x, y, b)
                                                   \/ x \in Range(a) /\ y \in Range(b)
<1>1. /\ a \o b \in Seq(Tokens) /\ DOMAIN (a \o b) = 1 .. Len(a) + Len(b)
      /\ DOMAIN a = 1 .. Len(a) /\ DOMAIN b = 1 .. Len(b) /\ Len(a) \in Nat /\ Len(b) \in Nat
      /\ \A i \in DOMAIN a : (a \o b)[i] = a[i]
      /\ \A i \in DOMAIN b : (a \o b)[Len(a) + i] = b[i]
  BY ConcatProperties, LenProperties
<1>2. \A i \in DOMAIN (a \o b) : i \in DOMAIN a \/ \E h \in DOMAIN b : i = Len(a) + h
  <2>1. SUFFICES ASSUME NEW i \in DOMAIN (a \o b), i \notin DOMAIN a
                 PROVE  \E h \in DOMAIN b : i = Len(a) + h
    OBVIOUS
  <2>2. i - Len(a) \in DOMAIN b /\ i = Len(a) + (i - Len(a))
    BY <1>1, <2>1
  <2>. QED  BY <2>2
<1>3. \A i \in DOMAIN a : i \in DOMAIN (a \o b)
  BY <1>1
<1>4. \A i \in DOMAIN b : Len(a) + i \in DOMAIN (a \o b)
  BY <1>1
<1>. DEFINE c == a \o b
<1>5. Owners(c) = Owners(a) \cup Owners(b)
  <2>1. ASSUME NEW k \in Owners(c) PROVE k \in Owners(a) \cup Owners(b)
    <3>1. PICK i \in DOMAIN c : k = c[i].of
      BY DEF Owners
    <3>2. CASE i \in DOMAIN a
      BY <1>1, <3>1, <3>2 DEF Owners
    <3>3. CASE i \notin DOMAIN a
      <4>1. PICK h \in DOMAIN b : i = Len(a) + h
        BY <1>2, <3>1, <3>3
      <4>2. k = b[h].of
        BY <1>1, <3>1, <4>1
      <4>. QED  BY <4>2 DEF Owners
    <3>. QED  BY <3>2, <3>3
  <2>2. ASSUME NEW k \in Owners(a) PROVE k \in Owners(c)
    BY <1>1, <1>3 DEF Owners
  <2>3. ASSUME NEW k \in Owners(b) PROVE k \in Owners(c)
    BY <1>1, <1>4 DEF Owners
  <2>. QED  BY <2>1, <2>2, <2>3
<1>6. ASSUME NEW x, NEW y, Precedes(x, y, a) \/ Precedes(x, y, b) \/ (x \in Range(a) /\ y \in Range(b))
      PROVE  Precedes(x, y, c)
  <2>1. CASE Precedes(x, y, a)
    BY <1>1, <1>3, <2>1 DEF Precedes
  <2>2. CASE Precedes(x, y, b)
    <3>1. PICK p, q \in DOMAIN b : p < q /\ b[p] = x /\ b[q] = y
      BY <2>2 DEF Precedes
    <3>2. Len(a) + p < Len(a) + q /\ c[Len(a) + p] = x /\ c[Len(a) + q] = y
      BY <1>1, <3>1
    <3>. QED  BY <1>4, <3>2 DEF Precedes
  <2>3. CASE x \in Range(a) /\ y \in Range(b)
    <3>1. PICK p \in DOMAIN a, q \in DOMAIN b : a[p] = x /\ b[q] = y
      BY <2>3 DEF Range
    <3>2. p < Len(a) + q /\ c[p] = x /\ c[Len(a) + q] = y
      BY <1>1, <3>1
    <3>. QED  BY <1>3, <1>4, <3>2 DEF Precedes
  <2>. QED  BY <1>6, <2>1, <2>2, <2>3
<1>7. ASSUME NEW x, NEW y, Precedes(x, y, c)
      PROVE  Precedes(x, y, a) \/ Precedes(x, y, b) \/ (x \in Range(a) /\ y \in Range(b))
  <2>1. PICK p, q \in DOMAIN c : p < q /\ c[p] = x /\ c[q] = y
    BY <1>7 DEF Precedes
  <2>2. CASE p \in DOMAIN a /\ q \in DOMAIN a
    BY <1>1, <2>1, <2>2 DEF Precedes
  <2>3. CASE p \in DOMAIN a /\ q \notin DOMAIN a
    <3>1. PICK h \in DOMAIN b : q = Len(a) + h
      BY <1>2, <2>3
    <3>. QED  BY <1>1, <2>1, <2>3, <3>1 DEF Range
  <2>4. CASE p \notin DOMAIN a
    <3>1. PICK g \in DOMAIN b : p = Len(a) + g
      BY <1>2, <2>4
    <3>2. q \notin DOMAIN a
      BY <1>1, <2>1, <3>1
    <3>3. PICK h \in DOMAIN b : q = Len(a) + h
      BY <1>2, <3>2
    <3>4. g < h /\ b[g] = x /\ b[h] = y
      BY <1>1, <2>1, <3>1, <3>3
    <3>. QED  BY <3>4 DEF Precedes
  <2>. QED  BY <2>2, <2>3, <2>4
<1>. QED  BY <1>1, <1>5, <1>6, <1>7

\* s is t without some of its tokens
Within(s, t) ==
    /\ Owners(s) \subseteq Owners(t)
    /\ \A x, y : Precedes(x, y, s) => Precedes(x, y, t)

LEMMA Nothing ==
    /\ <<>> \in Seq(Tokens) /\ Owners(<<>>) = {} /\ Range(<<>>) = {}
    /\ \A x, y : ~Precedes(x, y, <<>>)
BY EmptySeq DEF Owners, Range, Precedes

LEMMA Thinned ==
    ASSUME NEW a \in Seq(Tokens), NEW b \in Seq(Tokens), NEW c \in Seq(Tokens),
           NEW a1 \in {a, <<>>}, NEW b1 \in {b, <<>>}, NEW c1 \in {c, <<>>}
    PROVE  Within(a1 \o b1 \o c1, a \o b \o c)
<1>1. a1 \in Seq(Tokens) /\ b1 \in Seq(Tokens) /\ c1 \in Seq(Tokens)
  BY Nothing
<1>2. /\ Owners(a1) \subseteq Owners(a) /\ Owners(b1) \subseteq Owners(b) /\ Owners(c1) \subseteq Owners(c)
      /\ Range(a1) \subseteq Range(a) /\ Range(b1) \subseteq Range(b) /\ Range(c1) \subseteq Range(c)
      /\ \A x, y : /\ Precedes(x, y, a1) => Precedes(x, y, a)
                   /\ Precedes(x, y, b1) => Precedes(x, y, b)
                   /\ Precedes(x, y, c1) => Precedes(x, y, c)
  BY Nothing
<1>3. /\ a \o b \in Seq(Tokens) /\ a1 \o b1 \in Seq(Tokens)
      /\ Range(a \o b) = Range(a) \cup Range(b) /\ Range(a1 \o b1) = Range(a1) \cup Range(b1)
  BY <1>1, RangeConcatenation
<1>4. /\ Owners(a1 \o b1) \subseteq Owners(a \o b)
      /\ \A x, y : Precedes(x, y, a1 \o b1) => Precedes(x, y, a \o b)
  BY <1>1, <1>2, ConcatParts
<1>. DEFINE ab == a \o b
            ab1 == a1 \o b1
<1>5. /\ Owners(ab \o c) = Owners(ab) \cup Owners(c) /\ Owners(ab1 \o c1) = Owners(ab1) \cup Owners(c1)
      /\ \A x, y : /\ Precedes(x, y, ab \o c) <=> \/ Precedes(x, y, ab) \/ Precedes(x, y, c)
                                                  \/ x \in Range(ab) /\ y \in Range(c)
                   /\ Precedes(x, y, ab1 \o c1) <=> \/ Precedes(x, y, ab1) \/ Precedes(x, y, c1)
                                                    \/ x \in Range(ab1) /\ y \in Range(c1)
  BY <1>1, <1>3, ConcatParts
<1>. HIDE DEF ab, ab1
<1>6. Within(ab1 \o c1, ab \o c)
  BY <1>2, <1>3, <1>4, <1>5 DEF Within, ab, ab1
<1>. QED  BY <1>6 DEF ab, ab1

(***************************************************************************)
(* What was given up stays given up: a client that left does not come      *)
(* back, and what was sent cannot be unsent.                               *)
(***************************************************************************)
LEMMA Answered ==
    ASSUME StepInv, NEW t \in Threads, NEW x \in Jobs, NEW content, Send(t, x, content)
    PROVE  /\ clients' \subseteq clients
           /\ \A j \in Jobs : j # x => answers'[j] = answers[j]
           /\ \/ answers'[x] = Append(answers[x], content)
              \/ answers'[x] = answers[x] /\ x[1] \notin clients'
<1>1. answers \in [Jobs -> Seq(SUBSET Jobs)]
  BY DEF StepInv, TypeOK
<1>. QED  BY <1>1 DEF Send, StartRemoval

LEMMA Lasting ==
    ASSUME StepInv, Next
    PROVE  /\ missed \subseteq missed'
           /\ clients' \subseteq clients \/ \E c \in Clients : Accept(c)
           /\ \A j \in Jobs : \/ answers'[j] = answers[j]
                              \/ \E content : answers'[j] = Append(answers[j], content)
<1>. USE DEF deviceVars, historyVars, socketVars
<1>0. /\ Disp.pc = "offline" => Disp.job \in Jobs
      /\ Disp.pc # "notify"
      /\ Rdr.pc \in {"send", "notify"} => Rdr.act \in Jobs
  BY DEF StepInv, DispatcherInv, ReaderInv, Holding
<1>1. CASE \E c \in Clients : \/ Accept(c) \/ Leave(c) \/ Receive(c) \/ Put(c) \/ EndClient(c)
  BY <1>1 DEF Accept, Leave, Receive, Put, EndClient, StartRemoval
<1>2. CASE \E c \in Clients : Removal(c)
  BY <1>2 DEF Removal, Drain, Refill, TestActive, CompareActive, ClearRemoved, ResetRemoved
<1>3. CASE Execute \/ Unplug \/ OpenPort
  BY <1>3 DEF Execute, Unplug, OpenPort
<1>4. CASE AnswerOffline
  <2>1. missed' = missed /\ Disp.pc = "offline" /\ Send("dispatcher", Disp.job, {})
    BY <1>4 DEF AnswerOffline, At, Disp
  <2>. QED  BY <1>0, <2>1, Answered DEF Threads
<1>5. CASE \/ TakeJob \/ CheckClient \/ DispatcherPort \/ WriteJob \/ SetActive \/ ResetResponse
  BY <1>5 DEF TakeJob, CheckClient, DispatcherPort, WriteJob, SetActive, ResetResponse
<1>6. CASE SendResponse
  <2>1. missed' = missed /\ Rdr.pc = "send" /\ Send("reader", Rdr.act, Owners(Rdr.got))
    BY <1>6 DEF SendResponse, At, Rdr
  <2>. QED  BY <1>0, <2>1, Answered DEF Threads
<1>7. CASE \/ ReaderPort \/ Read \/ Look \/ Extend \/ TestComplete \/ Grab \/ Finish
  BY <1>7 DEF ReaderPort, Read, Look, Extend, TestComplete, Grab, Finish
<1>8. ASSUME NEW t \in Threads, MarkClose(t) \/ MarkRead(t) \/ MarkClear(t)
      PROVE  missed \subseteq missed' /\ clients' = clients /\ answers' = answers
  BY <1>8 DEF MarkClose, MarkRead, MarkClear
<1>9. CASE MarkNotify("reader")
  <2>1. missed' = missed /\ Rdr.pc = "notify" /\ Send("reader", Rdr.act, {})
    BY <1>9 DEF MarkNotify, At, Rdr
  <2>. QED  BY <1>0, <2>1, Answered DEF Threads
<1>10. ~MarkNotify("dispatcher")
  BY <1>0 DEF MarkNotify, At, Disp
<1>. QED  BY <1>1, <1>2, <1>3, <1>4, <1>5, <1>6, <1>7, <1>8, <1>9, <1>10
          DEF Next, Dispatcher, Reader, Mark, Threads

LEMMA GivenUpStays ==
    ASSUME StepInv, JobInv, Next, NEW k \in Jobs, written[k] # 0, GivenUp(k)
    PROVE  GivenUp(k)'
<1>1. CASE k \in missed
  BY <1>1, Lasting DEF GivenUp
<1>2. CASE k[1] \notin clients
  <2>1. ASSUME NEW c \in Clients, Accept(c) PROVE k[1] \notin clients'
    <3>1. Received(k) /\ k[1] \in Clients /\ k[2] \in Nat /\ k[2] >= 1
      BY JobParts DEF JobInv, AnswerInv
    <3>2. peer[c] = "away" /\ received[c] = 0 /\ clients' = clients \cup {c}
      BY <2>1 DEF Accept, StepInv, RemovalInv
    <3>. QED  BY <1>2, <3>1, <3>2 DEF Received
  <2>2. clients' \subseteq clients \/ \E c \in Clients : Accept(c)
    BY Lasting
  <2>3. k[1] \notin clients'
    BY <1>2, <2>1, <2>2
  <2>. QED  BY <2>3 DEF GivenUp
<1>3. CASE \E i \in DOMAIN answers[k] : k \notin answers[k][i]
  <2>1. PICK i \in DOMAIN answers[k] : k \notin answers[k][i]
    BY <1>3
  <2>2. answers[k] \in Seq(SUBSET Jobs) /\ i \in 1 .. Len(answers[k])
    BY <2>1 DEF StepInv, TypeOK
  <2>3. i \in DOMAIN answers'[k] /\ k \notin answers'[k][i]
    <3>1. CASE answers'[k] = answers[k]
      BY <2>1, <3>1
    <3>2. ASSUME NEW content, answers'[k] = Append(answers[k], content)
          PROVE  i \in DOMAIN answers'[k] /\ k \notin answers'[k][i]
      <4>1. /\ DOMAIN answers'[k] = 1 .. Len(answers[k]) + 1
            /\ answers'[k][i] = answers[k][i] /\ Len(answers[k]) \in Nat
        BY <2>2, <3>2
      <4>. QED  BY <2>1, <2>2, <4>1
    <3>. QED  BY <3>1, <3>2, Lasting
  <2>. QED  BY <2>3 DEF GivenUp
<1>. QED  BY <1>1, <1>2, <1>3 DEF GivenUp

(***************************************************************************)
(* Most steps take nothing but tokens out of the stream.                   *)
(***************************************************************************)
LEMMA StreamType ==
    ASSUME StepInv
    PROVE  /\ Rdr.got \in Seq(Tokens) /\ Collected \in Seq(Tokens) /\ Fresh \in Seq(Tokens)
           /\ out \in Seq(Tokens) /\ response \in Seq(Tokens) /\ wire \in Seq(Jobs)
           /\ Stream \in Seq(Tokens)
           /\ Owners(Stream) = Owners(Collected) \cup Owners(Fresh) \cup Owners(out)
<1>1. /\ Rdr.got \in Seq(Tokens) /\ response \in Seq(Tokens) /\ out \in Seq(Tokens)
      /\ wire \in Seq(Jobs)
  BY LocalsType DEF StepInv, TypeOK, Locals
<1>2. Collected \in Seq(Tokens) /\ Fresh \in Seq(Tokens)
  BY <1>1, Nothing DEF Collected, Fresh
<1>3. /\ Collected \o Fresh \in Seq(Tokens)
      /\ Owners(Collected \o Fresh) = Owners(Collected) \cup Owners(Fresh)
  BY <1>2, ConcatParts
<1>4. /\ Stream \in Seq(Tokens)
      /\ Owners(Stream) = Owners(Collected \o Fresh) \cup Owners(out)
  <2>. DEFINE s == Collected \o Fresh
  <2>. HIDE DEF s
  <2>1. s \in Seq(Tokens)
    BY <1>3 DEF s
  <2>2. s \o out \in Seq(Tokens) /\ Owners(s \o out) = Owners(s) \cup Owners(out)
    BY <1>1, <2>1, ConcatParts
  <2>. QED  BY <2>2 DEF s, Stream
<1>. QED  BY <1>1, <1>2, <1>3, <1>4

\* The reader stands still, or goes on without anything in its hands that counts.
Passing ==
    \/ Rdr' = Rdr
    \/ /\ Rdr.pc \notin {"finish", "send", "notify"}
       /\ Rdr'.pc \notin {"finish", "send", "look", "extend"}
       /\ Rdr'.got \in {Rdr.got, <<>>}
       /\ Rdr'.pc = "grab" => response' = <<>> \/ Last(response').prompt

LEMMA GoneStays ==
    ASSUME StepInv, JobInv, Next, NEW k \in Jobs, written[k] # 0, Gone(k),
           Rdr' = Rdr \/ Rdr.pc \notin {"send", "notify"}
    PROVE  Gone(k)'
BY GivenUpStays DEF Gone

\* What is written and not given up after a step was not given up before it.
LEMMA StillExpected ==
    ASSUME StepInv, JobInv, Next, NEW k \in Jobs, written[k] # 0, Expected(k)',
           Rdr' = Rdr \/ Rdr.pc \notin {"send", "notify"}
    PROVE  Expected(k)
BY GoneStays DEF Expected

LEMMA ThinEnds ==
    ASSUME NEW k, Ends(k), wire' \in {wire, <<>>},
           Within(Stream', Stream)
    PROVE  Ends(k)'
BY DEF Ends, Within

LEMMA ThinStep ==
    ASSUME StepInv, JobInv, StrayInv, Next,
           UNCHANGED <<written, answers>>,
           wire' \in {wire, <<>>}, out' \in {out, <<>>}, response' \in {response, <<>>},
           Passing,
           \A k \in Jobs : Expected(k)' => (k = active => k = active') /\ (Running(k) => Running(k)')
    PROVE  StrayInv'
<1>0. FlowInv /\ KnownInv /\ PromptInv /\ StrayOnlyAbandoned
  BY DEF StrayInv
<1>1. Within(Stream', Stream)
  <2>1. Collected' \in {Collected, <<>>} /\ Fresh' \in {Fresh, <<>>}
    BY DEF Passing, Collected, Fresh
  <2>2. PICK a1, b1, c1 : a1 = Collected' /\ b1 = Fresh' /\ c1 = out'
    OBVIOUS
  <2>3. Within(a1 \o b1 \o c1, Stream)
    BY <2>1, <2>2, StreamType, Thinned DEF Stream
  <2>. QED  BY <2>2, <2>3 DEF Stream
<1>2. /\ Range(wire') \subseteq Range(wire) /\ Owners(out') \subseteq Owners(out)
      /\ Owners(response') \subseteq Owners(response) /\ Owners(Rdr'.got) \subseteq Owners(Rdr.got)
  BY Nothing DEF Passing, Range
<1>3. KnownInv'
  BY <1>0, <1>2 DEF KnownInv
<1>4. PromptInv'
  BY <1>0 DEF PromptInv, Passing
<1>5. StrayOnlyAbandoned'
  <2>. SUFFICES ASSUME NEW j \in Jobs, NEW k \in Jobs, k # j, 
                       \E i \in DOMAIN answers[j] : k \in answers[j][i]
                PROVE  GivenUp(k)'
    BY DEF StrayOnlyAbandoned
  <2>1. written[k] # 0 /\ GivenUp(k)
    BY <1>0 DEF KnownInv, StrayOnlyAbandoned
  <2>. QED  BY <2>1, GivenUpStays
<1>6. FlowInv'
  <2>. SUFFICES ASSUME NEW k \in Jobs, Expected(k)' PROVE Flow(k)'
    BY DEF FlowInv
  <2>1. written[k] # 0
    BY DEF Expected
  <2>2. Expected(k)
    BY <2>1, StillExpected DEF Passing
  <2>3. Flow(k)
    BY <1>0, <2>2 DEF FlowInv
  <2>4. Settled(k)' <=> Settled(k)
    BY DEF Settled, Passing
  <2>5. \/ Settled(k)' /\ k \notin Range(wire') \cup Owners(Stream')
        \/ ~Settled(k)' /\ Running(k)' /\ Ends(k)'
    <3>1. CASE Settled(k)
      BY <1>1, <1>2, <2>3, <2>4, <3>1 DEF Flow, Within
    <3>2. CASE ~Settled(k)
      BY <1>1, <2>3, <2>4, <3>2, ThinEnds DEF Flow
    <3>. QED  BY <3>1, <3>2
  <2>6. k \in Owners(response') => k = active'
    BY <1>2, <2>3 DEF Flow
  <2>7. /\ Rdr'.pc = "extend" /\ k \in Owners(Rdr'.got) => k = active'
        /\ Rdr'.pc \in {"finish", "send"} /\ k \in Owners(Rdr'.got) => Rdr'.act = k
    BY <2>3 DEF Flow, Passing
  <2>. QED  BY <2>5, <2>6, <2>7 DEF Flow
<1>. QED  BY <1>3, <1>4, <1>5, <1>6 DEF StrayInv

\* To forget the active job is to give it up, in every step but the reader's own.
LEMMA Forgotten ==
    ASSUME StepInv, JobInv, NEW k \in Jobs, Expected(k)', k = active,
           missed' = IF active # None /\ Due(active) THEN missed \cup {active} ELSE missed
    PROVE  FALSE
<1>1. answers[active] = <<>> /\ active # None
  BY BridgeAssumption DEF JobInv, AnswerInv
<1>2. k \in missed'
  BY <1>1 DEF Due
<1>. QED  BY <1>2 DEF Expected, Gone, GivenUp

LEMMA StrayWorld ==
    ASSUME StepInv, JobInv, StrayInv, Next,
           \/ \E c \in Clients : Accept(c) \/ Leave(c) \/ Receive(c) \/ Put(c) \/ EndClient(c)
           \/ Unplug \/ OpenPort
    PROVE  StrayInv'
<1>. USE DEF deviceVars, historyVars, socketVars
<1>1. /\ UNCHANGED <<written, answers, response, active, th>>
      /\ wire' \in {wire, <<>>} /\ out' \in {out, <<>>}
  BY DEF Accept, Leave, Receive, Put, EndClient, Unplug, OpenPort
<1>2. Rdr' = Rdr /\ Disp' = Disp
  BY <1>1 DEF Rdr, Disp
<1>. QED  BY <1>1, <1>2, ThinStep DEF Passing, Running

LEMMA StrayRemoval ==
    ASSUME StepInv, JobInv, StrayInv, Next, NEW c \in Clients, Removal(c)
    PROVE  StrayInv'
<1>. USE DEF deviceVars, historyVars, socketVars
<1>0. RemovalInv /\ TypeOK /\ DispatcherInv /\ ReaderInv
  BY DEF StepInv
<1>1. /\ UNCHANGED <<written, answers, wire, out>>
      /\ response' \in {response, <<>>}
  BY DEF Removal, Drain, Refill, TestActive, CompareActive, ClearRemoved, ResetRemoved
<1>2. \/ th' = th
      \/ active' = active /\ th' = [t \in Threads |-> IF active = None /\ rm[c].by = t THEN Waiting("dead") ELSE th[t]]
  BY DEF Removal, Drain, Refill, TestActive, CompareActive, ClearRemoved, ResetRemoved
<1>3. /\ Rdr' = Rdr \/ (rm[c].by = "reader" /\ Rdr' = Waiting("dead"))
      /\ Disp' = Disp \/ (rm[c].by = "dispatcher" /\ active' = active)
  BY <1>2 DEF Rdr, Disp, Threads
<1>4. Passing
  BY <1>0, <1>3 DEF Passing, RemovalInv, Waiting
<1>5. \A k \in Jobs : Expected(k)' => (k = active => k = active')
  <2>1. CASE ClearRemoved(c)
    <3>1. missed' = IF active # None /\ Due(active) THEN missed \cup {active} ELSE missed
      BY <2>1 DEF ClearRemoved
    <3>. QED  BY <3>1, Forgotten
  <2>2. CASE ~ClearRemoved(c)
    BY <2>2 DEF Removal, Drain, Refill, TestActive, CompareActive, ResetRemoved
  <2>. QED  BY <2>1, <2>2
<1>6. \A k \in Jobs : Expected(k)' => (Running(k) => Running(k)')
  BY <1>0, <1>3, <1>5 DEF Running, RemovalInv
<1>. QED  BY <1>1, <1>4, <1>5, <1>6, ThinStep

LEMMA StrayDispatcher ==
    ASSUME StepInv, JobInv, StrayInv, Next,
           \/ TakeJob \/ CheckClient \/ DispatcherPort \/ SetActive \/ ResetResponse
           \/ WriteJob /\ UNCHANGED written
           \/ MarkClose("dispatcher") \/ MarkRead("dispatcher") \/ MarkClear("dispatcher")
    PROVE  StrayInv'
<1>. USE DEF deviceVars, historyVars, socketVars
<1>0. TypeOK /\ DispatcherInv /\ AnswerInv /\ None \notin Jobs
  BY BridgeAssumption DEF StepInv, JobInv
<1>1. /\ UNCHANGED <<written, answers, out>>
      /\ response' \in {response, <<>>}
      /\ \E l : Goto("dispatcher", l)
  BY DEF TakeJob, CheckClient, DispatcherPort, SetActive, ResetResponse, WriteJob,
         MarkClose, MarkRead, MarkClear
<1>2. Rdr' = Rdr
  <2>1. PICK l : Goto("dispatcher", l)
    BY <1>1
  <2>. QED  BY <1>0, <2>1, Hops DEF Threads
<1>3. wire' = wire
  <2>1. CASE WriteJob
    <3>1. Disp.pc = "write" /\ Disp.job \in Jobs /\ written[Disp.job] = 0 /\ Disp.port # 0
      BY <1>0, <2>1 DEF WriteJob, At, Disp, DispatcherInv, AnswerInv, Holding
    <3>2. written \in [Jobs -> 0 .. MaxOpens] /\ written' = written
      BY <1>0, <1>1 DEF TypeOK
    <3>3. Disp.port # live
      <4>1. SUFFICES ASSUME Disp.port = live PROVE FALSE
        OBVIOUS
      <4>2. written' = [written EXCEPT ![Disp.job] = live]
        BY <2>1, <4>1 DEF WriteJob, Disp
      <4>3. written'[Disp.job] = live
        BY <3>1, <3>2, <4>2
      <4>. QED  BY <3>1, <3>2, <4>1, <4>3
    <3>. QED  BY <2>1, <3>3 DEF WriteJob, Disp
  <2>2. CASE ~WriteJob
    BY <2>2 DEF TakeJob, CheckClient, DispatcherPort, SetActive, ResetResponse,
                MarkClose, MarkRead, MarkClear
  <2>. QED  BY <2>1, <2>2
<1>4. \A k \in Jobs : (k = active => k = active') /\ (Running(k) => Running(k)')
  <2>1. CASE SetActive
    <3>1. Disp.pc = "activate" /\ active = None /\ active' = Disp.job
      BY <1>0, <2>1 DEF SetActive, At, Disp, DispatcherInv, Holding
    <3>. QED  BY <1>0, <3>1 DEF Running
  <2>2. CASE MarkClear("dispatcher")
    <3>1. Disp.pc = "clear active" /\ active = None
      BY <1>0, <2>2 DEF MarkClear, At, Disp, DispatcherInv, Holding
    <3>. QED  BY <1>0, <3>1 DEF Running
  <2>3. CASE ~SetActive /\ ~MarkClear("dispatcher")
    <3>1. Disp.pc # "activate" /\ active' = active
      BY <2>3 DEF TakeJob, CheckClient, DispatcherPort, ResetResponse, WriteJob,
                  MarkClose, MarkRead, At, Disp
    <3>. QED  BY <3>1 DEF Running
  <2>. QED  BY <2>1, <2>2, <2>3
<1>. QED  BY <1>1, <1>2, <1>3, <1>4, ThinStep DEF Passing

\* The dispatcher answers a job that was not written.
LEMMA StrayOffline ==
    ASSUME StepInv, JobInv, StrayInv, Next, AnswerOffline
    PROVE  StrayInv'
<1>. USE DEF deviceVars, historyVars, socketVars
<1>0. /\ TypeOK /\ DispatcherInv /\ AnswerInv
      /\ FlowInv /\ KnownInv /\ PromptInv /\ StrayOnlyAbandoned
  BY DEF StepInv, JobInv, StrayInv
<1>1. /\ Disp.pc = "offline" /\ Send("dispatcher", Disp.job, {})
      /\ UNCHANGED <<written, wire, out, response, active>>
      /\ Goto("dispatcher", Waiting("take"))
  BY DEF AnswerOffline, At, Disp
<1>2. PICK x \in Jobs : x = Disp.job
  BY <1>0, <1>1 DEF DispatcherInv, Holding
<1>3. written[x] = 0
  BY <1>0, <1>1, <1>2 DEF AnswerInv, Holding
<1>4. Rdr' = Rdr
  BY <1>0, <1>1, Hops DEF Threads
<1>5. /\ \A j \in Jobs : j # x => answers'[j] = answers[j]
      /\ answers'[x] = answers[x] \/ answers'[x] = Append(answers[x], {})
  BY <1>1, <1>2, Answered DEF Threads
<1>6. \A j \in Jobs : \A i \in DOMAIN answers'[j] :
         answers'[j][i] = {} \/ (i \in DOMAIN answers[j] /\ answers'[j][i] = answers[j][i])
  <2>1. answers[x] \in Seq(SUBSET Jobs)
    BY <1>0 DEF TypeOK
  <2>2. ASSUME NEW i \in DOMAIN answers'[x]
        PROVE  answers'[x][i] = {} \/ (i \in DOMAIN answers[x] /\ answers'[x][i] = answers[x][i])
    <3>1. CASE answers'[x] = Append(answers[x], {})
      BY <2>1, <2>2, <3>1
    <3>2. CASE answers'[x] = answers[x]
      BY <3>2, <2>2
    <3>. QED  BY <1>5, <3>1, <3>2
  <2>. QED  BY <1>5, <2>2
<1>7. KnownInv'
  <2>. SUFFICES ASSUME NEW k \in Jobs, written[k] = 0 
                PROVE  /\ k \notin Range(wire) \cup Owners(out) \cup Owners(response) \cup Owners(Rdr.got)
                       /\ \A j \in Jobs : \A i \in DOMAIN answers'[j] : k \notin answers'[j][i]
    BY <1>1, <1>4 DEF KnownInv
  <2>. QED  BY <1>0, <1>6 DEF KnownInv
<1>8. PromptInv'
  BY <1>0, <1>1, <1>4 DEF PromptInv
<1>9. StrayOnlyAbandoned'
  <2>. SUFFICES ASSUME NEW j \in Jobs, NEW k \in Jobs, k # j, 
                       NEW i \in DOMAIN answers'[j], k \in answers'[j][i]
                PROVE  GivenUp(k)'
    BY DEF StrayOnlyAbandoned
  <2>1. i \in DOMAIN answers[j] /\ k \in answers[j][i]
    BY <1>6
  <2>2. written[k] # 0 /\ GivenUp(k)
    BY <1>0, <2>1 DEF KnownInv, StrayOnlyAbandoned
  <2>. QED  BY <2>2, GivenUpStays
<1>10. FlowInv'
  <2>. SUFFICES ASSUME NEW k \in Jobs, Expected(k)' PROVE Flow(k)'
    BY DEF FlowInv
  <2>1. written[k] # 0
    BY <1>1 DEF Expected
  <2>2. Expected(k)
    BY <1>4, <2>1, StillExpected
  <2>3. Flow(k) /\ k # x
    BY <1>0, <1>3, <2>1, <2>2 DEF FlowInv
  <2>4. answers'[k] = answers[k]
    BY <1>5, <2>3
  <2>6. Stream' = Stream
    BY <1>1, <1>4 DEF Stream, Collected, Fresh
  <2>7. Ends(k)' <=> Ends(k)
    BY <1>1, <2>6 DEF Ends
  <2>8. (Settled(k)' <=> Settled(k)) /\ (Running(k) => Running(k)')
    BY <1>1, <1>4, <2>4 DEF Settled, Running
  <2>. QED  BY <1>1, <1>4, <2>3, <2>6, <2>7, <2>8 DEF Flow
<1>. QED  BY <1>7, <1>8, <1>9, <1>10 DEF StrayInv

LEMMA PrecedesOwners ==
    ASSUME NEW s, NEW x, NEW y, Precedes(x, y, s)
    PROVE  x.of \in Owners(s) /\ y.of \in Owners(s)
BY DEF Precedes, Owners

LEMMA AppendedRange ==
    ASSUME NEW S, NEW s \in Seq(S), NEW x \in S
    PROVE  /\ Range(Append(s, x)) = Range(s) \cup {x}
           /\ x \notin Range(s) => \A p \in DOMAIN Append(s, x) : Append(s, x)[p] = x => p = Len(Append(s, x))
<1>1. /\ DOMAIN Append(s, x) = 1 .. Len(s) + 1 /\ Len(Append(s, x)) = Len(s) + 1
      /\ \A i \in 1 .. Len(s) : Append(s, x)[i] = s[i]
      /\ Append(s, x)[Len(s) + 1] = x /\ DOMAIN s = 1 .. Len(s) /\ Len(s) \in Nat
  BY AppendProperties
<1>. DEFINE t == Append(s, x)
<1>. HIDE DEF t
<1>2. Range(t) = Range(s) \cup {x}
  BY <1>1 DEF Range, t
<1>3. ASSUME x \notin Range(s), NEW p \in DOMAIN t, t[p] = x PROVE p = Len(t)
  BY <1>1, <1>3 DEF Range, t
<1>. QED  BY <1>2, <1>3 DEF t

\* The device is told a job that is new to it, while nothing else is expected.
LEMMA StrayWrite ==
    ASSUME StepInv, JobInv, StrayInv, Next, WriteJob
    PROVE  StrayInv'
<1>. USE DEF deviceVars, historyVars, socketVars
<1>0. /\ TypeOK /\ DispatcherInv /\ AnswerInv /\ None \notin Jobs
      /\ FlowInv /\ KnownInv /\ PromptInv /\ StrayOnlyAbandoned
  BY BridgeAssumption DEF StepInv, JobInv, StrayInv
<1>1. CASE UNCHANGED written
  BY <1>1, StrayDispatcher
<1>2. CASE ~UNCHANGED written
  <2>1. /\ Disp.pc = "write" /\ active = None /\ Disp.port # 0
        /\ UNCHANGED <<answers, out, response, active>>
    BY <1>0 DEF WriteJob, At, Disp, DispatcherInv, Holding
  <2>2. PICK x \in Jobs : x = Disp.job
    BY <1>0, <2>1 DEF DispatcherInv, Holding
  <2>3. /\ wire' = Append(wire, x) /\ written' = [written EXCEPT ![x] = live] /\ live # 0
        /\ Goto("dispatcher", [Disp EXCEPT !.pc = "activate"])
    BY <1>2, <2>1, <2>2 DEF WriteJob, Disp
  <2>4. /\ Rdr' = Rdr /\ Disp'.pc = "activate" /\ Disp'.job = x
    <3>1. Disp' = [Disp EXCEPT !.pc = "activate"] /\ Rdr' = Rdr
      BY <1>0, <2>3, Hops DEF Threads
    <3>. QED  BY <1>0, <2>2, <3>1, LocalsType DEF Locals
  <2>5. /\ written[x] = 0 /\ answers[x] = <<>> /\ x # Rdr.act
        /\ written'[x] # 0 /\ \A k \in Jobs : k # x => written'[k] = written[k]
    BY <1>0, <2>1, <2>2, <2>3 DEF AnswerInv, Holding, TypeOK
  <2>6. /\ Range(wire') = Range(wire) \cup {x}
        /\ x \notin Range(wire) => \A p \in DOMAIN wire' : wire'[p] = x => p = Len(wire')
    <3>1. PICK w : w = wire
      OBVIOUS
    <3>2. w \in Seq(Jobs)
      BY <1>0, <3>1 DEF TypeOK
    <3>3. /\ Range(Append(w, x)) = Range(w) \cup {x}
          /\ x \notin Range(w) =>
                \A p \in DOMAIN Append(w, x) : Append(w, x)[p] = x => p = Len(Append(w, x))
      BY <3>2, AppendedRange
    <3>. QED  BY <2>3, <3>1, <3>3
  <2>7. KnownInv'
    BY <1>0, <2>1, <2>4, <2>5, <2>6 DEF KnownInv
  <2>8. PromptInv'
    BY <1>0, <2>1, <2>4 DEF PromptInv
  <2>9. StrayOnlyAbandoned'
    <3>. SUFFICES ASSUME NEW j \in Jobs, NEW k \in Jobs, k # j, 
                         \E i \in DOMAIN answers[j] : k \in answers[j][i]
                  PROVE  GivenUp(k)'
      BY <2>1 DEF StrayOnlyAbandoned
    <3>1. written[k] # 0 /\ GivenUp(k)
      BY <1>0 DEF KnownInv, StrayOnlyAbandoned
    <3>. QED  BY <3>1, GivenUpStays
  <2>10. Stream' = Stream
    BY <2>1, <2>4 DEF Stream, Collected, Fresh
  <2>11. FlowInv'
    <3>. SUFFICES ASSUME NEW k \in Jobs, Expected(k)' PROVE Flow(k)'
      BY DEF FlowInv
    <3>1. CASE k = x
      <4>1. /\ x \notin Range(wire) /\ x \notin Owners(out) /\ x \notin Owners(response)
            /\ x \notin Owners(Rdr.got)
        BY <1>0, <2>5 DEF KnownInv
      <4>2. x \notin Owners(Stream)
        BY <4>1, StreamType, Nothing DEF Collected, Fresh
      <4>3. Ends(x)'
        BY <2>6, <2>10, <4>1, <4>2, PrecedesOwners DEF Ends
      <4>4. ~Settled(x)' /\ Running(x)'
        BY <2>1, <2>4, <2>5 DEF Settled, Running
      <4>. QED  BY <2>1, <2>4, <3>1, <4>1, <4>3, <4>4 DEF Flow
    <3>2. CASE k # x
      <4>1. written[k] # 0
        BY <2>5, <3>2 DEF Expected
      <4>2. Expected(k)
        BY <2>4, <4>1, StillExpected
      <4>3. Flow(k) /\ ~Running(k)
        BY <1>0, <2>1, <4>2 DEF FlowInv, Running
      <4>4. Settled(k)' /\ k \notin Range(wire') \cup Owners(Stream')
        BY <2>1, <2>4, <2>6, <2>10, <3>2, <4>3 DEF Flow, Settled
      <4>. QED  BY <2>1, <2>4, <4>3, <4>4 DEF Flow
    <3>. QED  BY <3>1, <3>2
  <2>. QED  BY <2>7, <2>8, <2>9, <2>11 DEF StrayInv
<1>. QED  BY <1>1, <1>2

\* The device prints what the job it was told last asks for, a prompt at its end.
LEMMA StrayExecute ==
    ASSUME StepInv, JobInv, StrayInv, Next, Execute
    PROVE  StrayInv'
<1>. USE DEF deviceVars, historyVars, socketVars
<1>0. /\ TypeOK /\ FlowInv /\ KnownInv /\ PromptInv /\ StrayOnlyAbandoned
  BY DEF StepInv, StrayInv
<1>1. UNCHANGED <<written, answers, response, active, th>> /\ Rdr' = Rdr /\ Disp' = Disp
  BY DEF Execute, Rdr, Disp
<1>2. PICK h \in Jobs : h = Head(wire)
  BY <1>0, HeadTailProperties DEF Execute, TypeOK
<1>3. /\ wire # <<>> /\ wire \in Seq(Jobs) /\ wire' = Tail(wire) /\ wire[1] = h /\ 1 \in DOMAIN wire
  BY <1>0, <1>2 DEF Execute, TypeOK
<1>4. /\ Len(wire) \in Nat /\ Len(wire') = Len(wire) - 1 /\ DOMAIN wire' = 1 .. Len(wire) - 1
      /\ DOMAIN wire = 1 .. Len(wire) /\ \A p \in DOMAIN wire' : wire'[p] = wire[p + 1]
      /\ wire' \in Seq(Jobs)
  BY <1>3, HeadTailProperties, LenProperties
<1>5. Range(wire') \subseteq Range(wire) /\ h \in Range(wire)
  BY <1>3, <1>4 DEF Range
<1>. DEFINE a == [of |-> h, prompt |-> FALSE]
            b == [of |-> h, prompt |-> TRUE]
            s == <<a, b>>
<1>6. /\ s \in Seq(Tokens) /\ Owners(s) = {h} /\ Range(s) = {a, b}
      /\ \A x, y : Precedes(x, y, s) => x = a /\ y = b
  <2>1. s \in Seq(Tokens) /\ DOMAIN s = {1, 2} /\ s[1] = a /\ s[2] = b
    BY DEF Tokens
  <2>2. a.of = h /\ b.of = h
    OBVIOUS
  <2>. HIDE DEF a, b, s
  <2>3. Owners(s) = {h}
    BY <2>1, <2>2 DEF Owners
  <2>4. Range(s) = {a, b}
    BY <2>1 DEF Range
  <2>5. ASSUME NEW x, NEW y, Precedes(x, y, s) PROVE x = a /\ y = b
    <3>1. PICK p, q \in DOMAIN s : p < q /\ s[p] = x /\ s[q] = y
      BY <2>5 DEF Precedes
    <3>. QED  BY <2>1, <3>1
  <2>. QED  BY <2>1, <2>3, <2>4, <2>5
<1>7. out' = out \/ out' = out \o s
  BY <1>2 DEF Execute
<1>8. a.of = h /\ b.of = h /\ ~a.prompt
  OBVIOUS
<1>. HIDE DEF a, b, s
<1>9. /\ Owners(out') \subseteq Owners(out) \cup {h}
      /\ Owners(Stream') \subseteq Owners(Stream) \cup {h}
      /\ \A x, y : Precedes(x, y, Stream') => \/ Precedes(x, y, Stream)
                                              \/ x = a /\ y = b
                                              \/ x.of \in Owners(Stream) /\ y \in {a, b}
  <2>1. CASE out' = out
    <3>1. Stream' = Stream
      BY <1>1, <2>1 DEF Stream, Collected, Fresh
    <3>. QED  BY <2>1, <3>1
  <2>2. CASE out' = out \o s
    <3>1. out \in Seq(Tokens) /\ Stream \in Seq(Tokens)
      BY StreamType
    <3>2. Stream' = Stream \o s
      <4>1. PICK ro : ro = Collected \o Fresh
        OBVIOUS
      <4>2. ro \in Seq(Tokens) /\ Stream = ro \o out
        BY <4>1, StreamType, ConcatParts DEF Stream
      <4>3. ro = Collected' \o Fresh'
        BY <1>1, <4>1 DEF Collected, Fresh
      <4>4. Stream' = ro \o (out \o s)
        BY <2>2, <4>3 DEF Stream
      <4>5. \A r, u, v \in Seq(Tokens) : (r \o u) \o v = r \o (u \o v)
        BY ConcatAssociative
      <4>. QED  BY <1>6, <3>1, <4>2, <4>4, <4>5
    <3>3. /\ Owners(out \o s) = Owners(out) \cup Owners(s)
          /\ Owners(Stream \o s) = Owners(Stream) \cup Owners(s)
          /\ \A x, y : Precedes(x, y, Stream \o s) <=>
                          \/ Precedes(x, y, Stream) \/ Precedes(x, y, s)
                          \/ x \in Range(Stream) /\ y \in Range(s)
      BY <1>6, <3>1, ConcatParts
    <3>4. \A x \in Range(Stream) : x.of \in Owners(Stream)
      BY DEF Range, Owners
    <3>. QED  BY <1>6, <2>2, <3>2, <3>3, <3>4
  <2>. QED  BY <1>7, <2>1, <2>2
<1>10. KnownInv'
  BY <1>0, <1>1, <1>5, <1>9 DEF KnownInv
<1>11. PromptInv'
  BY <1>0, <1>1 DEF PromptInv
<1>12. StrayOnlyAbandoned'
  <2>. SUFFICES ASSUME NEW j \in Jobs, NEW k \in Jobs, k # j, 
                       \E i \in DOMAIN answers[j] : k \in answers[j][i]
                PROVE  GivenUp(k)'
    BY <1>1 DEF StrayOnlyAbandoned
  <2>1. written[k] # 0 /\ GivenUp(k)
    BY <1>0 DEF KnownInv, StrayOnlyAbandoned
  <2>. QED  BY <2>1, GivenUpStays
<1>13. FlowInv'
  <2>. SUFFICES ASSUME NEW k \in Jobs, Expected(k)' PROVE Flow(k)'
    BY DEF FlowInv
  <2>1. Expected(k)
    BY <1>1, StillExpected DEF Expected
  <2>2. Flow(k)
    BY <1>0, <2>1 DEF FlowInv
  <2>3. (Settled(k)' <=> Settled(k)) /\ (Running(k)' <=> Running(k))
    BY <1>1 DEF Settled, Running
  <2>4. CASE Settled(k)
    BY <1>1, <1>5, <1>9, <2>2, <2>3, <2>4 DEF Flow
  <2>5. CASE ~Settled(k)
    <3>1. Ends(k) /\ k \notin Owners(Stream)
      BY <1>3, <2>2, <2>5 DEF Flow, Ends
    <3>2. \A p \in DOMAIN wire' : wire'[p] = k => p = Len(wire')
      BY <1>4, <3>1 DEF Ends
    <3>3. k \in Owners(Stream') => wire' = <<>>
      <4>1. SUFFICES ASSUME k \in Owners(Stream') PROVE wire' = <<>>
        OBVIOUS
      <4>2. k = h
        BY <1>9, <3>1, <4>1
      <4>3. Len(wire) = 1
        BY <1>3, <3>1, <4>2 DEF Ends
      <4>4. Len(wire') = 0
        BY <1>4, <4>3
      <4>. QED  BY <1>4, <4>4, EmptySeq
    <3>4. \A x, y : Precedes(x, y, Stream') /\ x.of = k => y.of = k /\ ~x.prompt
      <4>1. SUFFICES ASSUME NEW x, NEW y, Precedes(x, y, Stream'), x.of = k
                     PROVE  y.of = k /\ ~x.prompt
        OBVIOUS
      <4>2. ~Precedes(x, y, Stream) /\ x.of \notin Owners(Stream)
        BY <3>1, <4>1, PrecedesOwners
      <4>3. x = a /\ y = b
        BY <1>9, <4>1, <4>2
      <4>. QED  BY <1>8, <4>1, <4>3
    <3>. QED  BY <1>1, <2>2, <2>3, <2>5, <3>2, <3>3, <3>4 DEF Flow, Ends
  <2>. QED  BY <2>4, <2>5
<1>. QED  BY <1>10, <1>11, <1>12, <1>13 DEF StrayInv

LEMMA StrayListen ==
    ASSUME StepInv, JobInv, StrayInv, Next,
           \/ ReaderPort \/ TestComplete
           \/ Read /\ Rdr'.pc = "close"
           \/ (Look \/ Grab) /\ active = None
           \/ MarkClose("reader") \/ MarkRead("reader") \/ MarkClear("reader")
    PROVE  StrayInv'
<1>. USE DEF deviceVars, historyVars, socketVars
<1>0. /\ TypeOK /\ AnswerInv /\ None \notin Jobs /\ Rdr \in Locals
      /\ \A pc : Waiting(pc).pc = pc /\ Waiting(pc).got = <<>> /\ Waiting(pc).act = None
  BY LocalsType, BridgeAssumption DEF StepInv, JobInv, Waiting
<1>1. /\ UNCHANGED <<written, answers, wire>> /\ Disp' = Disp
      /\ out' \in {out, <<>>} /\ response' \in {response, <<>>}
      /\ Passing
      /\ \A k \in Jobs : Expected(k)' => (k = active => k = active')
  <2>1. CASE ReaderPort
    <3>1. Rdr' = [Rdr EXCEPT !.pc = "read", !.port = port] /\ Disp' = Disp /\ Rdr.pc = "fetch"
      BY <1>0, <2>1, Hops DEF ReaderPort, Rdr, At, Threads
    <3>2. Rdr'.pc = "read" /\ Rdr'.got = Rdr.got
      BY <1>0, <3>1 DEF Locals
    <3>. QED  BY <2>1, <3>1, <3>2 DEF ReaderPort, Passing
  <2>2. CASE TestComplete
    <3>1. /\ Rdr' = Waiting(IF IsComplete(response) THEN "grab" ELSE "fetch") /\ Disp' = Disp
          /\ Rdr.pc = "complete"
      BY <1>0, <2>2, Hops DEF TestComplete, Rdr, At, Threads
    <3>2. /\ Rdr'.pc = IF IsComplete(response) THEN "grab" ELSE "fetch"
          /\ Rdr'.got = <<>>
      BY <1>0, <3>1
    <3>. QED  BY <2>2, <3>1, <3>2 DEF TestComplete, Passing, IsComplete
  <2>3. CASE Read /\ Rdr'.pc = "close"
    <3>1. Rdr.port # live
      <4>1. SUFFICES ASSUME Rdr.port = live PROVE FALSE
        OBVIOUS
      <4>2. PICK n : Goto("reader", [Waiting("look") EXCEPT !.got = SubSeq(out, 1, n)])
        BY <2>3, <4>1 DEF Read, Rdr
      <4>3. Rdr' = [Waiting("look") EXCEPT !.got = SubSeq(out, 1, n)]
        BY <1>0, <4>2, Hops DEF Threads
      <4>. QED  BY <2>3, <4>3 DEF Waiting
    <3>2. Rdr' = Waiting("close") /\ Disp' = Disp /\ Rdr.pc = "read" /\ out' = out
      BY <1>0, <2>3, <3>1, Hops DEF Read, Rdr, At, Threads
    <3>. QED  BY <1>0, <2>3, <3>2 DEF Read, Passing
  <2>4. CASE (Look \/ Grab) /\ active = None
    <3>1. Rdr' = Waiting("fetch") /\ Disp' = Disp /\ Rdr.pc \in {"look", "grab"}
      BY <1>0, <2>4, Hops DEF Look, Grab, Rdr, At, Threads
    <3>. QED  BY <1>0, <2>4, <3>1 DEF Look, Grab, Passing
  <2>5. CASE MarkClose("reader")
    <3>1. /\ Rdr' = [Rdr EXCEPT !.pc = "look at active", !.port = 0] /\ Disp' = Disp
          /\ Rdr.pc = "close"
      BY <1>0, <2>5, Hops DEF MarkClose, Rdr, At, Threads
    <3>2. Rdr'.pc = "look at active" /\ Rdr'.got = Rdr.got
      BY <1>0, <3>1 DEF Locals
    <3>. QED  BY <2>5, <3>1, <3>2 DEF MarkClose, Passing
  <2>6. CASE MarkRead("reader")
    <3>1. /\ Rdr' = [Rdr EXCEPT !.pc = "clear active", !.act = active] /\ Disp' = Disp
          /\ Rdr.pc = "look at active"
      BY <1>0, <2>6, Hops DEF MarkRead, Rdr, At, Threads
    <3>2. Rdr'.pc = "clear active" /\ Rdr'.got = Rdr.got
      BY <1>0, <3>1 DEF Locals
    <3>. QED  BY <2>6, <3>1, <3>2 DEF MarkRead, Passing
  <2>7. CASE MarkClear("reader")
    <3>1. /\ Rdr' = IF Rdr.act = None THEN Waiting("fetch") ELSE [Rdr EXCEPT !.pc = "notify"]
          /\ Disp' = Disp /\ Rdr.pc = "clear active"
      BY <1>0, <2>7, Hops DEF MarkClear, AfterMark, Rdr, At, Threads
    <3>2. /\ Rdr'.got \in {Rdr.got, <<>>} /\ Rdr'.pc \in {"fetch", "notify"}
          /\ Rdr.act # None => Rdr'.pc = "notify" /\ Rdr'.act = Rdr.act
      BY <1>0, <3>1 DEF Locals
    <3>3. missed' = IF active # Rdr.act /\ active # None /\ Due(active) THEN missed \cup {active}
                    ELSE missed
      BY <2>7 DEF MarkClear, Rdr
    <3>4. ASSUME NEW k \in Jobs, Expected(k)', k = active PROVE FALSE
      <4>1. CASE active = Rdr.act
        BY <1>0, <3>2, <3>4, <4>1 DEF Expected, Gone
      <4>2. CASE active # Rdr.act
        BY <3>3, <3>4, <4>2, Forgotten
      <4>. QED  BY <4>1, <4>2
    <3>. QED  BY <2>7, <3>1, <3>2, <3>4 DEF MarkClear, Passing
  <2>. QED  BY <2>1, <2>2, <2>3, <2>4, <2>5, <2>6, <2>7
<1>2. \A k \in Jobs : Expected(k)' => (Running(k) => Running(k)')
  BY <1>1 DEF Running
<1>. QED  BY <1>1, <1>2, ThinStep

\* The reader takes tokens on, one place further down the stream.
LEMMA ShiftStep ==
    ASSUME StepInv, JobInv, StrayInv, Next,
           UNCHANGED <<written, answers, wire, active>>, Disp' = Disp, Stream' = Stream,
           Rdr.pc \notin {"send", "notify"}, Rdr'.pc \notin {"send", "notify"},
           Owners(out') \subseteq Owners(out),
           Owners(response') \subseteq Owners(response) \cup Owners(Rdr.got),
           Owners(Rdr'.got) \subseteq Owners(response) \cup Owners(Rdr.got) \cup Owners(out),
           PromptInv',
           \A k \in Jobs : Flow(k) =>
              /\ k \in Owners(response') => k = active
              /\ Rdr'.pc = "extend" /\ k \in Owners(Rdr'.got) => k = active
              /\ Rdr'.pc = "finish" /\ k \in Owners(Rdr'.got) => Rdr'.act = k
    PROVE  StrayInv'
<1>0. FlowInv /\ KnownInv /\ StrayOnlyAbandoned
  BY DEF StrayInv
<1>1. KnownInv'
  BY <1>0 DEF KnownInv
<1>2. StrayOnlyAbandoned'
  <2>. SUFFICES ASSUME NEW j \in Jobs, NEW k \in Jobs, k # j, 
                       \E i \in DOMAIN answers[j] : k \in answers[j][i]
                PROVE  GivenUp(k)'
    BY DEF StrayOnlyAbandoned
  <2>1. written[k] # 0 /\ GivenUp(k)
    BY <1>0 DEF KnownInv, StrayOnlyAbandoned
  <2>. QED  BY <2>1, GivenUpStays
<1>3. FlowInv'
  <2>. SUFFICES ASSUME NEW k \in Jobs, Expected(k)' PROVE Flow(k)'
    BY DEF FlowInv
  <2>1. Expected(k)
    BY StillExpected DEF Expected
  <2>2. Flow(k)
    BY <1>0, <2>1 DEF FlowInv
  <2>3. (Settled(k)' <=> Settled(k)) /\ (Running(k)' <=> Running(k)) /\ (Ends(k)' <=> Ends(k))
    BY DEF Settled, Running, Ends
  <2>4. /\ k \in Owners(response') => k = active
        /\ Rdr'.pc = "extend" /\ k \in Owners(Rdr'.got) => k = active
        /\ Rdr'.pc = "finish" /\ k \in Owners(Rdr'.got) => Rdr'.act = k
    BY <2>2
  <2>. QED  BY <2>2, <2>3, <2>4 DEF Flow
<1>. QED  BY <1>1, <1>2, <1>3 DEF StrayInv

LEMMA Regrouped ==
    ASSUME NEW r \in Seq(Tokens), NEW g \in Seq(Tokens), NEW o \in Seq(Tokens)
    PROVE  (r \o g) \o o = (r \o <<>>) \o (g \o o)
<1>1. (r \o g) \o o = r \o (g \o o)
  BY ConcatAssociative
<1>2. r \o <<>> = r
  BY ConcatEmptySeq
<1>. QED  BY <1>1, <1>2

LEMMA StrayShift ==
    ASSUME StepInv, JobInv, StrayInv, Next,
           \/ Read /\ Rdr'.pc # "close"
           \/ (Look \/ Grab) /\ active # None
           \/ Extend
    PROVE  StrayInv'
<1>. USE DEF deviceVars, historyVars, socketVars
<1>0. /\ TypeOK /\ DispatcherInv /\ AnswerInv /\ None \notin Jobs /\ Rdr \in Locals /\ PromptInv
      /\ \A pc : Waiting(pc).pc = pc /\ Waiting(pc).got = <<>> /\ Waiting(pc).act = None
  BY LocalsType, BridgeAssumption DEF StepInv, JobInv, StrayInv, Waiting
<1>1. /\ out \in Seq(Tokens) /\ response \in Seq(Tokens) /\ Rdr.got \in Seq(Tokens)
  BY StreamType
<1>2. CASE Read /\ Rdr'.pc # "close"
  <2>1. Rdr.port = live
    <3>1. SUFFICES ASSUME Rdr.port # live PROVE FALSE
      OBVIOUS
    <3>2. Rdr' = Waiting("close")
      BY <1>0, <1>2, <3>1, Hops DEF Read, Rdr, Threads
    <3>. QED  BY <1>0, <1>2, <3>2
  <2>2. PICK n \in 1 .. Len(out) : /\ out' = SubSeq(out, n + 1, Len(out))
                                   /\ Goto("reader", [Waiting("look") EXCEPT !.got = SubSeq(out, 1, n)])
    BY <1>2, <2>1 DEF Read, Rdr
  <2>3. /\ Rdr' = [Waiting("look") EXCEPT !.got = SubSeq(out, 1, n)] /\ Disp' = Disp
    BY <1>0, <2>2, Hops DEF Threads
  <2>4. Rdr'.pc = "look" /\ Rdr'.got = SubSeq(out, 1, n)
    BY <2>3 DEF Waiting
  <2>5. Rdr.pc = "read" /\ UNCHANGED <<written, answers, wire, active, response>>
    BY <1>2 DEF Read, At, Rdr
  <2>6. PICK g, o : g = SubSeq(out, 1, n) /\ o = SubSeq(out, n + 1, Len(out))
    OBVIOUS
  <2>7. g \in Seq(Tokens) /\ o \in Seq(Tokens) /\ g \o o = out
    <3>1. Len(out) \in Nat
      BY <1>1, LenProperties
    <3>2. g \in Seq(Tokens) /\ o \in Seq(Tokens)
      BY <1>1, <2>6, <3>1, SubSeqProperties
    <3>3. g \o o = SubSeq(out, 1, Len(out))
      BY <1>1, <2>6, <3>1, ConcatAdjacentSubSeq
    <3>. QED  BY <1>1, <3>2, <3>3, SubSeqFull
  <2>8. Stream' = Stream
    <3>1. Stream = response \o <<>> \o out
      BY <2>5 DEF Stream, Collected, Fresh
    <3>2. Stream' = response \o g \o o
      BY <2>2, <2>4, <2>5, <2>6 DEF Stream, Collected, Fresh
    <3>. QED  BY <1>1, <2>7, <3>1, <3>2, Regrouped
  <2>9. Owners(g) \subseteq Owners(out) /\ Owners(o) \subseteq Owners(out)
    BY <2>7, ConcatParts
  <2>10. PromptInv'
    BY <2>4 DEF PromptInv
  <2>11. \A k \in Jobs : Flow(k) => (k \in Owners(response') => k = active)
    BY <2>5 DEF Flow
  <2>12. Owners(out') \subseteq Owners(out) /\ Owners(Rdr'.got) \subseteq Owners(out)
    BY <2>2, <2>4, <2>6, <2>9
  <2>. QED  BY <2>3, <2>4, <2>5, <2>8, <2>10, <2>11, <2>12, ShiftStep
<1>3. CASE Look /\ active # None
  <2>1. /\ Rdr' = [Rdr EXCEPT !.pc = "extend"] /\ Disp' = Disp /\ Rdr.pc = "look"
        /\ UNCHANGED <<written, answers, wire, active, response, out>>
    BY <1>0, <1>3, Hops DEF Look, Rdr, At, Threads
  <2>2. Rdr'.pc = "extend" /\ Rdr'.got = Rdr.got
    BY <1>0, <2>1 DEF Locals
  <2>3. Stream' = Stream
    BY <2>1, <2>2 DEF Stream, Collected, Fresh
  <2>4. PromptInv'
    BY <2>2 DEF PromptInv
  <2>5. ASSUME NEW k \in Jobs, Flow(k), k \in Owners(Rdr.got) PROVE k = active
    <3>1. k \in Owners(Stream)
      BY <2>1, <2>5, StreamType DEF Fresh
    <3>2. Running(k)
      BY <2>5, <3>1 DEF Flow
    <3>. QED  BY <1>0, <1>3, <3>2 DEF Running, DispatcherInv, Holding
  <2>6. \A k \in Jobs : Flow(k) => (k \in Owners(response') => k = active)
    BY <2>1 DEF Flow
  <2>. QED  BY <2>1, <2>2, <2>3, <2>4, <2>5, <2>6, ShiftStep
<1>4. CASE Grab /\ active # None
  <2>1. /\ Rdr' = [Waiting("finish") EXCEPT !.act = active, !.got = response] /\ Disp' = Disp
        /\ Rdr.pc = "grab" /\ UNCHANGED <<written, answers, wire, active, response, out>>
    BY <1>0, <1>4, Hops DEF Grab, Rdr, At, Threads
  <2>2. Rdr'.pc = "finish" /\ Rdr'.got = response /\ Rdr'.act = active
    BY <2>1 DEF Waiting
  <2>3. Stream' = Stream
    BY <2>1, <2>2 DEF Stream, Collected, Fresh
  <2>4. PromptInv'
    BY <1>0, <2>1, <2>2 DEF PromptInv
  <2>5. \A k \in Jobs : Flow(k) => (k \in Owners(response) => k = active)
    BY DEF Flow
  <2>. QED  BY <2>1, <2>2, <2>3, <2>4, <2>5, ShiftStep
<1>5. CASE Extend
  <2>1. /\ Rdr' = Waiting("complete") /\ Disp' = Disp /\ response' = response \o Rdr.got
        /\ Rdr.pc = "extend" /\ UNCHANGED <<written, answers, wire, active, out>>
    BY <1>0, <1>5, Hops DEF Extend, Rdr, At, Threads
  <2>2. Rdr'.pc = "complete" /\ Rdr'.got = <<>>
    BY <1>0, <2>1
  <2>3. PICK r : r = response \o Rdr.got
    OBVIOUS
  <2>4. /\ r \in Seq(Tokens) /\ Owners(r) = Owners(response) \cup Owners(Rdr.got)
        /\ r \o <<>> = r
    BY <1>1, <2>3, ConcatParts, ConcatEmptySeq
  <2>5. Stream' = Stream
    <3>1. Stream = r \o out
      BY <2>1, <2>3 DEF Stream, Collected, Fresh
    <3>2. Stream' = r \o <<>> \o out
      BY <2>1, <2>2, <2>3 DEF Stream, Collected, Fresh
    <3>. QED  BY <2>4, <3>1, <3>2
  <2>6. PromptInv'
    BY <2>2 DEF PromptInv
  <2>7. \A k \in Jobs : Flow(k) => (k \in Owners(response') => k = active)
    BY <2>1, <2>3, <2>4 DEF Flow
  <2>. QED  BY <2>1, <2>2, <2>3, <2>4, <2>5, <2>6, <2>7, Nothing, ShiftStep
<1>. QED  BY <1>2, <1>3, <1>4, <1>5

\* The answer is ready: it ends in a prompt, so the job has nothing left to say.
LEMMA LastOne ==
    ASSUME NEW s \in Seq(Tokens), NEW t \in Seq(Tokens), NEW k,
           k \in Owners(s), Last(s).prompt,
           \A x, y : Precedes(x, y, s \o t) /\ x.of = k => y.of = k /\ ~x.prompt
    PROVE  t = <<>>
<1>1. PICK i \in DOMAIN s : s[i].of = k
  BY DEF Owners
<1>2. Len(s) \in Nat /\ DOMAIN s = 1 .. Len(s) /\ Len(s) \in DOMAIN s /\ Last(s) = s[Len(s)]
  BY <1>1, LenProperties DEF Last
<1>3. \A x, y : \/ Precedes(x, y, s)
                \/ x \in Range(s) /\ y \in Range(t) => Precedes(x, y, s \o t)
  BY ConcatParts
<1>4. Last(s).of = k
  <2>1. CASE i = Len(s)
    BY <1>1, <1>2, <2>1
  <2>2. CASE i # Len(s)
    <3>1. i < Len(s)
      BY <1>1, <1>2, <2>2
    <3>2. Precedes(s[i], s[Len(s)], s)
      BY <1>1, <1>2, <3>1 DEF Precedes
    <3>3. Precedes(s[i], s[Len(s)], s \o t)
      BY <3>2, ConcatParts
    <3>. QED  BY <1>1, <1>2, <3>3
  <2>. QED  BY <2>1, <2>2
<1>5. SUFFICES ASSUME t # <<>> PROVE FALSE
  OBVIOUS
<1>6. 1 \in DOMAIN t
  BY <1>5, LenProperties, EmptySeq
<1>7. Last(s) \in Range(s) /\ t[1] \in Range(t)
  BY <1>2, <1>6 DEF Range
<1>8. Precedes(Last(s), t[1], s \o t)
  BY <1>7, ConcatParts
<1>. QED  BY <1>4, <1>8

LEMMA StrayFinish ==
    ASSUME StepInv, JobInv, StrayInv, Next, Finish
    PROVE  StrayInv'
<1>. USE DEF deviceVars, historyVars, socketVars
<1>0. /\ TypeOK /\ DispatcherInv /\ ReaderInv /\ AnswerInv /\ None \notin Jobs /\ Rdr \in Locals
      /\ FlowInv /\ KnownInv /\ PromptInv /\ StrayOnlyAbandoned
  BY LocalsType, BridgeAssumption DEF StepInv, JobInv, StrayInv
<1>1. /\ Rdr' = [Rdr EXCEPT !.pc = "send"] /\ Disp' = Disp /\ Rdr.pc = "finish"
      /\ UNCHANGED <<written, answers, wire, out>>
      /\ response' = <<>> /\ active' = None
      /\ missed' = IF active # Rdr.act /\ active # None /\ Due(active) THEN missed \cup {active}
                   ELSE missed
  BY <1>0, Hops DEF Finish, Rdr, At, Threads
<1>2. Rdr'.pc = "send" /\ Rdr'.got = Rdr.got /\ Rdr'.act = Rdr.act /\ Rdr.act \in Jobs
  BY <1>0, <1>1 DEF Locals, ReaderInv
<1>3. answers[Rdr.act] = <<>> /\ (Disp.pc \in Holding => Disp.job # Rdr.act)
  BY <1>0, <1>2 DEF AnswerInv
<1>4. KnownInv'
  BY <1>0, <1>1, <1>2, Nothing DEF KnownInv
<1>5. PromptInv'
  BY <1>2 DEF PromptInv
<1>6. StrayOnlyAbandoned'
  <2>. SUFFICES ASSUME NEW j \in Jobs, NEW k \in Jobs, k # j, 
                       \E i \in DOMAIN answers[j] : k \in answers[j][i]
                PROVE  GivenUp(k)'
    BY <1>1 DEF StrayOnlyAbandoned
  <2>1. written[k] # 0 /\ GivenUp(k)
    BY <1>0 DEF KnownInv, StrayOnlyAbandoned
  <2>. QED  BY <2>1, GivenUpStays
<1>7. /\ Collected = Rdr.got /\ Fresh = <<>> /\ Collected' = <<>> /\ Fresh' = <<>>
      /\ Rdr.got \in Seq(Tokens) /\ out \in Seq(Tokens)
  BY <1>1, <1>2, StreamType DEF Collected, Fresh
<1>8. Stream = Rdr.got \o out /\ Stream' = out
  BY <1>1, <1>7, ConcatEmptySeq DEF Stream
<1>9. Owners(Stream) = Owners(Rdr.got) \cup Owners(out) /\ Within(Stream', Stream)
  BY <1>7, <1>8, ConcatParts DEF Within
<1>10. FlowInv'
  <2>. SUFFICES ASSUME NEW k \in Jobs, Expected(k)' PROVE Flow(k)'
    BY DEF FlowInv
  <2>1. written[k] # 0
    BY <1>1 DEF Expected
  <2>2. Expected(k)
    BY <1>1, <2>1, StillExpected
  <2>3. Flow(k)
    BY <1>0, <2>2 DEF FlowInv
  <2>4. CASE k = Rdr.act
    <3>1. k \in Owners(Rdr.got)
      BY <1>2, <2>4 DEF Expected, Gone
    <3>2. ~Settled(k) /\ Ends(k)
      BY <1>1, <1>3, <2>3, <2>4 DEF Flow, Settled
    <3>3. Last(Rdr.got).prompt
      BY <1>0, <1>1, <3>1, Nothing DEF PromptInv
    <3>4. out = <<>> /\ wire = <<>>
      BY <1>7, <1>8, <1>9, <3>1, <3>2, <3>3, LastOne DEF Ends
    <3>5. Settled(k)' /\ k \notin Range(wire') \cup Owners(Stream')
      BY <1>1, <1>2, <1>8, <2>4, <3>4, Nothing DEF Settled, Range
    <3>. QED  BY <1>1, <1>2, <2>4, <3>5, Nothing DEF Flow
  <2>5. CASE k # Rdr.act
    <3>1. Settled(k)' <=> Settled(k)
      BY <1>1, <1>2, <2>5 DEF Settled
    <3>2. Running(k) => Running(k)'
      <4>1. CASE k = active
        <5>1. missed' = IF active # None /\ Due(active) THEN missed \cup {active} ELSE missed
          BY <1>1, <2>5, <4>1
        <5>. QED  BY <4>1, <5>1, Forgotten
      <4>2. CASE k # active
        BY <1>1, <4>2 DEF Running
      <4>. QED  BY <4>1, <4>2
    <3>3. k \notin Owners(Rdr.got)
      BY <1>1, <2>3, <2>5 DEF Flow
    <3>4. Ends(k) => Ends(k)'
      BY <1>1, <1>9, ThinEnds
    <3>5. k \notin Owners(Stream) => k \notin Owners(Stream')
      BY <1>9 DEF Within
    <3>. QED  BY <1>1, <1>2, <2>3, <3>1, <3>2, <3>3, <3>4, <3>5, Nothing DEF Flow
  <2>. QED  BY <2>4, <2>5
<1>. QED  BY <1>4, <1>5, <1>6, <1>10 DEF StrayInv

\* The reader answers: with what it has, or without anything after the port went.
LEMMA StraySend ==
    ASSUME StepInv, JobInv, StrayInv, Next, SendResponse \/ MarkNotify("reader")
    PROVE  StrayInv'
<1>. USE DEF deviceVars, historyVars, socketVars
<1>0. /\ TypeOK /\ ReaderInv /\ AnswerInv /\ Rdr \in Locals
      /\ FlowInv /\ KnownInv /\ PromptInv /\ StrayOnlyAbandoned
      /\ \A pc : Waiting(pc).pc = pc /\ Waiting(pc).got = <<>> /\ Waiting(pc).act = None
  BY LocalsType DEF StepInv, JobInv, StrayInv, Waiting
<1>1. /\ \/ Rdr.pc = "send" /\ Send("reader", Rdr.act, Owners(Rdr.got))
         \/ Rdr.pc = "notify" /\ Send("reader", Rdr.act, {})
      /\ Goto("reader", Waiting("fetch"))
      /\ UNCHANGED <<written, wire, out, response, active, missed>>
  BY DEF SendResponse, MarkNotify, AfterMark, At, Rdr
<1>2. PICK x \in Jobs : x = Rdr.act
  BY <1>0, <1>1 DEF ReaderInv
<1>3. PICK content : /\ Send("reader", x, content)
                     /\ content = IF Rdr.pc = "send" THEN Owners(Rdr.got) ELSE {}
  BY <1>1, <1>2
<1>4. Rdr' = Waiting("fetch") /\ Disp' = Disp /\ Rdr'.pc = "fetch" /\ Rdr'.got = <<>>
  BY <1>0, <1>1, Hops DEF Threads
<1>5. written[x] # 0 /\ answers[x] = <<>> /\ x # active
  BY <1>0, <1>1, <1>2, BridgeAssumption DEF AnswerInv
<1>6. /\ \A j \in Jobs : j # x => answers'[j] = answers[j]
      /\ \/ answers'[x] = <<content>>
         \/ answers'[x] = <<>> /\ x[1] \notin clients'
  <2>1. Append(<<>>, content) = <<content>>
    OBVIOUS
  <2>. QED  BY <1>3, <1>5, <2>1, Answered DEF Threads
<1>7. \A j \in Jobs : \A i \in DOMAIN answers'[j] :
         \/ j = x /\ answers'[j][i] = content
         \/ i \in DOMAIN answers[j] /\ answers'[j][i] = answers[j][i]
  BY <1>5, <1>6
<1>8. KnownInv'
  <2>. SUFFICES ASSUME NEW k \in Jobs, written[k] = 0 
                PROVE  /\ k \notin Range(wire) \cup Owners(out) \cup Owners(response) \cup Owners(Rdr'.got)
                       /\ \A j \in Jobs : \A i \in DOMAIN answers'[j] : k \notin answers'[j][i]
    BY <1>1 DEF KnownInv
  <2>1. k \notin content
    BY <1>0, <1>3 DEF KnownInv
  <2>. QED  BY <1>0, <1>4, <1>7, <2>1, Nothing DEF KnownInv
<1>9. PromptInv'
  BY <1>4 DEF PromptInv
<1>10. StrayOnlyAbandoned'
  <2>. SUFFICES ASSUME NEW j \in Jobs, NEW k \in Jobs, k # j, 
                       NEW i \in DOMAIN answers'[j], k \in answers'[j][i]
                PROVE  GivenUp(k)'
    BY DEF StrayOnlyAbandoned
  <2>1. CASE j = x /\ answers'[j][i] = content
    <3>1. Rdr.pc = "send" /\ k \in Owners(Rdr.got) /\ k # Rdr.act
      BY <1>2, <1>3, <2>1
    <3>2. written[k] # 0
      BY <1>0, <3>1 DEF KnownInv
    <3>3. ~Expected(k)
      BY <1>0, <3>1 DEF FlowInv, Flow
    <3>4. GivenUp(k)
      BY <3>1, <3>2, <3>3 DEF Expected, Gone
    <3>. QED  BY <3>2, <3>4, GivenUpStays
  <2>2. CASE i \in DOMAIN answers[j] /\ answers'[j][i] = answers[j][i]
    <3>1. written[k] # 0 /\ GivenUp(k)
      BY <1>0, <2>2 DEF KnownInv, StrayOnlyAbandoned
    <3>. QED  BY <3>1, GivenUpStays
  <2>. QED  BY <1>7, <2>1, <2>2
<1>11. Stream' = Stream
  BY <1>1, <1>4 DEF Stream, Collected, Fresh
<1>12. FlowInv'
  <2>. SUFFICES ASSUME NEW k \in Jobs, Expected(k)' PROVE Flow(k)'
    BY DEF FlowInv
  <2>1. written[k] # 0 /\ ~GivenUp(k)
    BY <1>1, GivenUpStays DEF Expected, Gone
  <2>2. CASE k = x
    <3>1. answers'[x] = <<content>> /\ x \in content
      <4>1. ~GivenUp(x)'
        BY <2>2 DEF Expected, Gone
      <4>2. answers'[x] = <<content>>
        BY <1>6, <4>1 DEF GivenUp
      <4>3. 1 \in DOMAIN answers'[x] /\ answers'[x][1] = content
        BY <4>2
      <4>. QED  BY <4>1, <4>2, <4>3 DEF GivenUp
    <3>2. Rdr.pc = "send" /\ x \in Owners(Rdr.got)
      BY <1>3, <3>1
    <3>3. Expected(x) /\ Settled(x)
      BY <1>2, <2>1, <2>2, <3>2 DEF Expected, Gone, Settled
    <3>4. Flow(x)
      BY <1>0, <3>3 DEF FlowInv
    <3>5. Settled(x)'
      BY <3>1 DEF Settled
    <3>. QED  BY <1>1, <1>4, <1>11, <2>2, <3>3, <3>4, <3>5, Nothing DEF Flow
  <2>3. CASE k # x
    <3>1. Flow(k)
      BY <1>0, <1>2, <2>1, <2>3 DEF FlowInv, Expected, Gone
    <3>2. /\ Settled(k)' <=> Settled(k)
          /\ Running(k)' <=> Running(k)
          /\ Ends(k)' <=> Ends(k)
      BY <1>1, <1>2, <1>4, <1>6, <1>11, <2>3 DEF Settled, Running, Ends
    <3>. QED  BY <1>1, <1>4, <1>11, <3>1, <3>2 DEF Flow
  <2>. QED  BY <2>2, <2>3
<1>. QED  BY <1>8, <1>9, <1>10, <1>12 DEF StrayInv

LEMMA StrayStart == Init => StrayInv
<1>. SUFFICES ASSUME Init PROVE StrayInv
  OBVIOUS
<1>1. Rdr = Waiting("fetch") /\ Waiting("fetch").pc = "fetch" /\ Waiting("fetch").got = <<>>
  BY DEF Init, Threads, Rdr, Waiting
<1>2. /\ wire = <<>> /\ out = <<>> /\ response = <<>>
      /\ \A j \in Jobs : written[j] = 0 /\ answers[j] = <<>>
  BY DEF Init
<1>. QED  BY <1>1, <1>2, Nothing
          DEF StrayInv, FlowInv, Expected, KnownInv, PromptInv, StrayOnlyAbandoned

LEMMA StrayPreserved == StepInv /\ JobInv /\ StrayInv /\ [Next]_vars => StrayInv'
<1>. SUFFICES ASSUME StepInv, JobInv, StrayInv, [Next]_vars PROVE StrayInv'
  OBVIOUS
<1>1. CASE UNCHANGED vars
  BY <1>1 DEF vars, StrayInv, FlowInv, Expected, Gone, GivenUp, Flow, Settled, Running, Ends, Stream,
              Collected, Fresh, KnownInv, PromptInv, StrayOnlyAbandoned, Disp, Rdr
<1>2. CASE Next
  <2>1. ~MarkNotify("dispatcher")
    BY DEF MarkNotify, At, Disp, StepInv, DispatcherInv, Holding
  <2>2. WriteJob \/ ~WriteJob
    OBVIOUS
  <2>. QED  BY <1>2, <2>1, StrayWorld, StrayRemoval, StrayExecute, StrayWrite, StrayDispatcher,
               StrayOffline, StrayListen, StrayShift, StrayFinish, StraySend
            DEF Next, Dispatcher, Reader, Mark, Threads
<1>. QED  BY <1>1, <1>2

\* Output of a command is only found in another command's answer when nobody waits for
\* it any more: the command the device works on is the last it was told, its output the
\* last it printed, and an answer that ends in its prompt leaves nothing of it behind.
THEOREM StraysWereGivenUp == Spec => []StrayOnlyAbandoned
<1>1. StrayInv => StrayOnlyAbandoned
  BY DEF StrayInv
<1>. QED  BY <1>1, StepInit, JobInit, StrayStart, StepPreserved, JobPreserved, StrayPreserved, PTL
          DEF Spec
===============================================================================
