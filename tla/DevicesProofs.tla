---------------------------- MODULE DevicesProofs ----------------------------
(***************************************************************************)
(* Proofs about Devices and Pins, for every set of open commands, of pins  *)
(* and of frequencies, about HLK, for every chunk and buffer size, about   *)
(* FileSync, for every set of threads and every size of a file, about      *)
(* Displays, for every text, and about DataFile, for every content.        *)
(*                                                                         *)
(* Devices: nothing is closed, so a step leaves every device as it was but *)
(* for its reader and its user, which it sets at most once, and to the     *)
(* device it makes (Grown).  That, and that an input was looked up without *)
(* a user (FindIs), keeps ReaderIsUser.                                    *)
(*                                                                         *)
(* HLK: the bytes collected are consecutive bytes of one frame that has    *)
(* not ended, and the next byte of the port is the one that follows them   *)
(* (SensorInv); a frame's last byte ends every search it can be in         *)
(* (FrameEnds), so that no search goes on into the next frame.             *)
(*                                                                         *)
(* FileSync: as long as every thread saw its answers, a thread has one     *)
(* command or answer under way at most (Orderly), so the file of an upload *)
(* without an error is as long as the device ran of its commands           *)
(* (FileKept), the pieces of a dump are next to each other (DumpKept) and  *)
(* every listing names the directory that was entered (PathKept).          *)
(*                                                                         *)
(* Displays: the packed words hold the text's columns in order (BitIs), so *)
(* that five of them from any offset are a window of the ring.             *)
(*                                                                         *)
(* DataFile: the fields lie one behind the other up to the size in the     *)
(* header, and none is behind them (FileInv), so that the walk enters each *)
(* of them and never their data (WalkEnds).                                *)
(***************************************************************************)
EXTENDS Devices, Pins, HLK, FileSync, Displays, DataFile,
        TLAPS, SequenceTheorems, FiniteSetTheorems, WellFoundedInduction

LEMMA Smallest ==
    ASSUME NEW T, T \subseteq Nat, T # {}
    PROVE  Min(T) \in T /\ \A m \in T : Min(T) <= m
<1>1. PICK n \in T : \A m \in T : ~ (<<m, n>> \in OpToRel(<, Nat))
  BY NatLessThanWellFounded, WFMin
<1>2. \A m \in T : ~ (m < n)
  BY <1>1 DEF OpToRel
<1>3. \E x \in T : \A y \in T : x <= y
  BY <1>2
<1>. QED  BY <1>3 DEF Min

-----------------------------------------------------------------------------
(***************************************************************************)
(* Sequences of devices.                                                   *)
(***************************************************************************)
\* s is a sequence of n things
Listing(s, n) == n \in Nat /\ s = [i \in 1 .. n |-> s[i]]

LEMMA ListingIsSeq ==
    ASSUME NEW s, NEW n, Listing(s, n)
    PROVE  s \in Seq(ToSet(s)) /\ Len(s) = n /\ DOMAIN s = 1 .. n
<1>1. n \in Nat /\ s = [i \in 1 .. n |-> s[i]]
  BY DEF Listing
<1>2. DOMAIN s = 1 .. n
  BY <1>1
<1>3. \A i \in 1 .. n : s[i] \in ToSet(s)
  BY <1>2 DEF ToSet
<1>4. s \in [1 .. n -> ToSet(s)]
  BY <1>1, <1>3
<1>. QED  BY <1>1, <1>2, <1>4

LEMMA SeqIsListing ==
    ASSUME NEW S, NEW s \in Seq(S)
    PROVE  Listing(s, Len(s))
BY DEF Listing

LEMMA Appended ==
    ASSUME NEW s, NEW n, Listing(s, n), NEW x
    PROVE  Append(s, x) = [i \in 1 .. n + 1 |-> IF i <= n THEN s[i] ELSE x]
<1>. DEFINE S == ToSet(s) \cup {x}
<1>1. n \in Nat /\ Len(s) = n /\ DOMAIN s = 1 .. n /\ s \in Seq(ToSet(s))
  BY ListingIsSeq DEF Listing
<1>2. s \in Seq(S) /\ x \in S
  BY <1>1
<1>. HIDE DEF S
<1>3. /\ Append(s, x) \in Seq(S) /\ Len(Append(s, x)) = Len(s) + 1
      /\ \A i \in 1 .. Len(s) : Append(s, x)[i] = s[i]
      /\ Append(s, x)[Len(s) + 1] = x
  BY <1>2, AppendProperties
<1>. DEFINE all == Append(s, x)
<1>. HIDE DEF all
<1>4. all = [i \in 1 .. n + 1 |-> all[i]]
  <2>1. all \in Seq(S) /\ Len(all) = n + 1
    BY <1>1, <1>3 DEF all
  <2>. QED  BY <2>1
<1>5. \A i \in 1 .. n + 1 : all[i] = IF i <= n THEN s[i] ELSE x
  BY <1>1, <1>3 DEF all
<1>6. all = [i \in 1 .. n + 1 |-> IF i <= n THEN s[i] ELSE x]
  BY <1>4, <1>5
<1>. QED  BY <1>6 DEF all

-----------------------------------------------------------------------------
Fields == {"type", "name", "on", "user", "reader"}

\* l lists devices, which are n
Lists(l, n) ==
    Listing(l, Len(l)) /\ \A i \in 1 .. Len(l) : l[i] \in 1 .. n

Records ==
    /\ Listing(devices, Len(devices)) /\ Len(devices) > 0
    /\ \A id \in 1 .. Len(devices) :
          /\ DOMAIN devices[id] = Fields
          /\ devices[id].user \in 0 .. Len(devices)
          /\ devices[id].reader \in 0 .. Len(devices)
    /\ Lists(repository, Len(devices))

\* What a step does to the devices there are, and the ones it makes.
GrownTo(made) ==
    /\ Listing(made, Len(made)) /\ Len(made) >= NextId
    /\ \A id \in 1 .. Len(devices) :
          /\ DOMAIN made[id] = Fields
          /\ made[id].type = devices[id].type /\ made[id].on = devices[id].on
          /\ \/ made[id].user = devices[id].user
             \/ devices[id].user = None /\ made[id].user = NextId
          /\ \/ made[id].reader = devices[id].reader
             \/ /\ made[id].reader = NextId
                /\ Repeats(made[NextId].on) = {} => made[id].user = NextId
    /\ \A id \in NextId .. Len(made) :
          DOMAIN made[id] = Fields /\ made[id].user = None /\ made[id].reader = None
Grown ==
    /\ GrownTo(devices')
    /\ Lists(repository', Len(devices'))

LEMMA GrownKeeps ==
    ASSUME Records, Grown
    PROVE  /\ Records'
           /\ ReaderIsUser => ReaderIsUser'
<1>. USE DEF Records, Grown, GrownTo, NextId, None
<1>1. Len(devices) \in Nat /\ Len(devices') \in Nat /\ Len(devices') >= Len(devices) + 1
  BY DEF Listing
<1>2. \A id \in 1 .. Len(devices') :
         /\ DOMAIN devices'[id] = Fields
         /\ devices'[id].user \in 0 .. Len(devices')
         /\ devices'[id].reader \in 0 .. Len(devices')
  <2>. SUFFICES ASSUME NEW id \in 1 .. Len(devices')
                PROVE  /\ DOMAIN devices'[id] = Fields
                       /\ devices'[id].user \in 0 .. Len(devices')
                       /\ devices'[id].reader \in 0 .. Len(devices')
    OBVIOUS
  <2>1. CASE id \in 1 .. Len(devices)
    BY <1>1, <2>1
  <2>2. CASE id \in Len(devices) + 1 .. Len(devices')
    BY <1>1, <2>2
  <2>. QED  BY <1>1, <2>1, <2>2
<1>3. Records'
  BY <1>1, <1>2
<1>4. ASSUME ReaderIsUser PROVE ReaderIsUser'
  <2>1. DOMAIN devices' = 1 .. Len(devices') /\ DOMAIN devices = 1 .. Len(devices)
    BY ListingIsSeq
  <2>. SUFFICES ASSUME NEW id \in 1 .. Len(devices'), devices'[id].reader # None,
                       ~ Twice(devices[id].reader)'
                PROVE  devices'[id].user = devices'[id].reader
    BY <2>1 DEF ReaderIsUser
  <2>2. id \in 1 .. Len(devices)
    BY <1>1
  <2>3. CASE devices'[id].reader = Len(devices) + 1
    <3>1. ~ Repeats(devices'[Len(devices) + 1].on) # {} \/ devices'[id].reader = devices[id].reader
      BY <2>3 DEF Twice
    <3>2. devices[id].reader # Len(devices) + 1
      BY <1>1, <2>2
    <3>. QED  BY <2>2, <2>3, <3>1, <3>2
  <2>4. CASE devices'[id].reader = devices[id].reader
    <3>1. devices[id].reader \in 1 .. Len(devices)
      BY <1>1, <2>2, <2>4
    <3>2. devices'[devices[id].reader].on = devices[devices[id].reader].on
      BY <3>1
    <3>3. ~ Twice(devices[id].reader)
      BY <2>4, <3>2 DEF Twice
    <3>4. devices[id].user = devices[id].reader
      BY <1>4, <2>1, <2>2, <2>4, <3>3 DEF ReaderIsUser
    <3>. QED  BY <1>1, <2>2, <2>4, <3>1, <3>4
  <2>. QED  BY <2>2, <2>3, <2>4
<1>. QED  BY <1>3, <1>4

LEMMA FindIs ==
    ASSUME Records, NEW name, NEW types, Find(name, types) # None
    PROVE  /\ Find(name, types) \in 1 .. Len(devices)
           /\ devices[Find(name, types)].type \in types
           /\ devices[Find(name, types)].user = None
<1>. DEFINE named == {i \in DOMAIN repository : devices[repository[i]].name = name}
            first == repository[Min(named)]
<1>1. named # {} /\ Find(name, types) = first
      /\ devices[first].type \in types /\ devices[first].user = None
  BY DEF Find
<1>2. DOMAIN repository = 1 .. Len(repository) /\ Len(repository) \in Nat
  BY ListingIsSeq DEF Records, Lists, Listing
<1>3. named \subseteq Nat
  BY <1>2
<1>4. Min(named) \in named
  <2>. HIDE DEF named
  <2>. QED  BY <1>1, <1>3, Smallest
<1>5. first \in 1 .. Len(devices)
  BY <1>2, <1>4 DEF Records, Lists
<1>. HIDE DEF named, first
<1>. QED  BY <1>1, <1>5

\* a agrees with b on the devices there were
Agrees(a, b) == \A id \in 1 .. Len(devices) : a[id] = b[id]

LEMMA Longer ==
    ASSUME Records, NEW made, GrownTo(made), NEW more, NEW m, Listing(more, m),
           \A r \in ToSet(more) : DOMAIN r = Fields /\ r.user = None /\ r.reader = None
    PROVE  GrownTo(made \o more) /\ Len(made \o more) = Len(made) + m /\ Agrees(made \o more, made)
<1>. DEFINE S == ToSet(made) \cup ToSet(more)
            all == made \o more
            n == Len(made)
<1>1. /\ n \in Nat /\ made \in Seq(ToSet(made)) /\ m \in Nat /\ Len(more) = m /\ more \in Seq(ToSet(more))
      /\ Len(devices) \in Nat
  BY ListingIsSeq DEF Listing, GrownTo, Records
<1>2. made \in Seq(S) /\ more \in Seq(S)
  BY <1>1
<1>. HIDE DEF S
<1>3. /\ all \in Seq(S) /\ Len(all) = Len(made) + Len(more)
      /\ \A i \in 1 .. Len(made) + Len(more) : all[i] = IF i <= Len(made) THEN made[i] ELSE more[i - Len(made)]
  BY <1>2, ConcatProperties
<1>4. Listing(all, Len(all)) /\ Len(all) = n + m
  BY <1>1, <1>3, SeqIsListing
<1>. HIDE DEF all
<1>5. \A i \in 1 .. n : all[i] = made[i]
  BY <1>1, <1>3
<1>6. \A i \in n + 1 .. n + m : all[i] \in ToSet(more)
  <2>. TAKE i \in n + 1 .. n + m
  <2>1. i - n \in 1 .. Len(more) /\ all[i] = more[i - n]
    BY <1>1, <1>3
  <2>. QED  BY <1>1, <2>1
<1>7. \A id \in NextId .. n + m :
         DOMAIN all[id] = Fields /\ all[id].user = None /\ all[id].reader = None
  <2>. TAKE id \in NextId .. n + m
  <2>1. CASE id <= n
    BY <1>1, <1>5, <2>1 DEF GrownTo, NextId
  <2>2. CASE id > n
    BY <1>1, <1>6, <2>2 DEF NextId
  <2>. QED  BY <1>1, <2>1, <2>2 DEF NextId
<1>8. n >= NextId /\ NextId \in Nat /\ NextId \in 1 .. n /\ \A id \in 1 .. Len(devices) : id \in 1 .. n
  BY <1>1 DEF GrownTo, NextId
<1>9. \A id \in 1 .. Len(devices) : all[id] = made[id]
  BY <1>5, <1>8
<1>10. all[NextId] = made[NextId]
  BY <1>5, <1>8
<1>. HIDE DEF n
<1>11. GrownTo(all)
  BY <1>1, <1>4, <1>7, <1>8, <1>9, <1>10 DEF GrownTo, n
<1>. QED  BY <1>1, <1>4, <1>9, <1>11 DEF all, n, Agrees

LEMMA LongerList ==
    ASSUME NEW l, NEW n \in Nat, NEW k \in Nat, n <= k, Lists(l, n), NEW ids, NEW m, Listing(ids, m),
           \A i \in ToSet(ids) : i \in 1 .. k
    PROVE  Lists(l \o ids, k)
<1>. DEFINE S == ToSet(l) \cup ToSet(ids)
            all == l \o ids
<1>1. Len(l) \in Nat /\ l \in Seq(ToSet(l)) /\ m \in Nat /\ Len(ids) = m /\ ids \in Seq(ToSet(ids))
  BY ListingIsSeq DEF Listing, Lists
<1>2. l \in Seq(S) /\ ids \in Seq(S)
  BY <1>1
<1>. HIDE DEF S
<1>3. /\ all \in Seq(S) /\ Len(all) = Len(l) + Len(ids)
      /\ \A i \in 1 .. Len(l) + Len(ids) : all[i] = IF i <= Len(l) THEN l[i] ELSE ids[i - Len(l)]
  BY <1>2, ConcatProperties
<1>4. Listing(all, Len(all)) /\ Len(all) = Len(l) + m
  BY <1>1, <1>3, SeqIsListing
<1>. HIDE DEF all
<1>5. ASSUME NEW i \in 1 .. Len(l) + m PROVE all[i] \in 1 .. k
  <2>1. CASE i <= Len(l)
    BY <1>1, <1>3, <2>1 DEF Lists
  <2>2. CASE i > Len(l)
    <3>1. i - Len(l) \in 1 .. Len(ids) /\ all[i] = ids[i - Len(l)]
      BY <1>1, <1>3, <2>2
    <3>. QED  BY <1>1, <3>1
  <2>. QED  BY <1>1, <2>1, <2>2
<1>. QED  BY <1>4, <1>5 DEF all, Lists

\* A device on the hardware
LEMMA OneMore ==
    ASSUME Records, NEW type, NEW name,
           Listed(Append(devices, Device(type, name, <<>>)), <<NextId>>)
    PROVE  Grown /\ \A id \in 1 .. Len(devices) : devices'[id] = devices[id]
<1>1. devices' = Append(devices, Device(type, name, <<>>)) /\ repository' = repository \o <<NextId>>
  BY DEF Listed
<1>2. Len(devices) \in Nat /\ Listing(devices, Len(devices))
  BY DEF Records, Listing
<1>3. devices' = [i \in 1 .. Len(devices) + 1 |->
                     IF i <= Len(devices) THEN devices[i] ELSE Device(type, name, <<>>)]
  BY <1>1, <1>2, Appended
<1>4. /\ Listing(devices', NextId) /\ Len(devices') = NextId /\ NextId \in Nat /\ Len(devices) <= NextId
      /\ \A i \in 1 .. Len(devices) : devices'[i] = devices[i]
      /\ devices'[NextId] = Device(type, name, <<>>)
  BY <1>2, <1>3 DEF Listing, NextId
<1>5. Lists(repository', NextId)
  <2>1. PICK one : one = <<NextId>>
    OBVIOUS
  <2>2. Listing(one, 1)
    BY <2>1 DEF Listing
  <2>3. \A i \in ToSet(one) : i = NextId
    BY <2>1 DEF ToSet
  <2>4. NextId \in 1 .. NextId
    BY <1>2, <1>4 DEF NextId
  <2>5. Lists(repository, Len(devices)) /\ repository' = repository \o one
    BY <1>1, <2>1 DEF Records
  <2>. QED  BY <1>2, <1>4, <2>2, <2>3, <2>4, <2>5, LongerList
<1>6. /\ DOMAIN devices'[NextId] = Fields
      /\ devices'[NextId].user = None /\ devices'[NextId].reader = None
  BY <1>4 DEF Device, Fields
<1>7. \A id \in NextId .. Len(devices') : id = NextId
  BY <1>4
<1>. QED  BY <1>2, <1>4, <1>5, <1>6, <1>7 DEF Grown, GrownTo, Records, NextId
-----------------------------------------------------------------------------
(***************************************************************************)
(* A device on devices: the readers, the users, the monitors.              *)
(***************************************************************************)
\* r is the device q but for its reader and its user
Same(r, q) == DOMAIN r = Fields /\ r.type = q.type /\ r.on = q.on

LEMMA ReadersIs ==
    ASSUME Records, NEW c, NEW inputs
    PROVE  /\ Listing(Readers(c, inputs, devices), Len(devices))
           /\ \A id \in 1 .. Len(devices) :
                 LET r == Readers(c, inputs, devices)[id]
                 IN  /\ Same(r, devices[id]) /\ r.user = devices[id].user
                     /\ \/ r.reader = devices[id].reader
                        \/ Builds(c) /\ id \in ToSet(inputs) /\ r.reader = NextId
<1>1. /\ Listing(devices, Len(devices)) /\ Len(devices) \in Nat /\ DOMAIN devices = 1 .. Len(devices)
      /\ \A id \in 1 .. Len(devices) : DOMAIN devices[id] = Fields
  BY ListingIsSeq DEF Records, Listing
<1>2. CASE ~ Builds(c)
  BY <1>1, <1>2 DEF Readers, Same
<1>3. CASE Builds(c)
  <2>. DEFINE R == [i \in 1 .. Len(devices) |->
                     IF i \in ToSet(inputs) /\ devices[i].type \in CommTypes /\ devices[i].reader = None
                     THEN [devices[i] EXCEPT !.reader = NextId] ELSE devices[i]]
  <2>1. Readers(c, inputs, devices) = R
    BY <1>1, <1>3 DEF Readers
  <2>2. Listing(R, Len(devices))
    BY <1>1 DEF Listing
  <2>3. ASSUME NEW id \in 1 .. Len(devices)
        PROVE  /\ Same(R[id], devices[id]) /\ R[id].user = devices[id].user
               /\ \/ R[id].reader = devices[id].reader
                  \/ id \in ToSet(inputs) /\ R[id].reader = NextId
    <3>1. DOMAIN devices[id] = Fields
      BY <1>1
    <3>2. CASE R[id] = devices[id]
      BY <3>1, <3>2 DEF Same
    <3>3. CASE R[id] = [devices[id] EXCEPT !.reader = NextId] /\ id \in ToSet(inputs)
      BY <3>1, <3>3 DEF Same, Fields
    <3>. QED  BY <3>2, <3>3
  <2>. HIDE DEF R
  <2>. QED  BY <1>3, <2>1, <2>2, <2>3
<1>. QED  BY <1>2, <1>3

LEMMA AssignedIs ==
    ASSUME NEW made, NEW n \in Nat, Listing(made, n), NEW inputs, NEW k \in Nat, Listing(inputs, k),
           \A id \in 1 .. n : DOMAIN made[id] = Fields
    PROVE  /\ Listing(Assigned(inputs, made), n)
           /\ \A id \in 1 .. n :
                 LET r == Assigned(inputs, made)[id]
                 IN  /\ Same(r, made[id]) /\ r.reader = made[id].reader
                     /\ \/ r.user = made[id].user
                        \/ id \in ToSet(inputs) /\ r.user = NextId
                     /\ Repeats(inputs) = {} /\ id \in ToSet(inputs) => r.user = NextId
                     /\ k > 0 /\ id = inputs[1] => r.user = NextId
<1>. DEFINE reached == IF Repeats(inputs) = {} THEN Len(inputs) ELSE Min(Repeats(inputs)) - 1
            taken == {inputs[j] : j \in 1 .. reached}
            A == [i \in 1 .. n |-> IF i \in taken THEN [made[i] EXCEPT !.user = NextId] ELSE made[i]]
<1>1. DOMAIN made = 1 .. n /\ DOMAIN inputs = 1 .. k /\ Len(inputs) = k
  BY ListingIsSeq
<1>2. Assigned(inputs, made) = A
  BY <1>1 DEF Assigned
<1>3. Repeats(inputs) \subseteq 2 .. k
  BY <1>1 DEF Repeats
<1>4. reached \in 0 .. k /\ (k > 0 => reached > 0) /\ (Repeats(inputs) = {} => reached = k)
  <2>1. CASE Repeats(inputs) = {}
    BY <1>1, <2>1
  <2>2. CASE Repeats(inputs) # {}
    <3>1. Repeats(inputs) \subseteq Nat
      BY <1>3
    <3>2. Min(Repeats(inputs)) \in 2 .. k
      BY <1>3, <2>2, <3>1, Smallest
    <3>. QED  BY <2>2, <3>2
  <2>. QED  BY <2>1, <2>2
<1>5. /\ taken \subseteq ToSet(inputs)
      /\ Repeats(inputs) = {} => taken = ToSet(inputs)
      /\ k > 0 => inputs[1] \in taken
  <2>. HIDE DEF reached
  <2>. QED  BY <1>1, <1>4 DEF ToSet
<1>. HIDE DEF taken
<1>6. ASSUME NEW id \in 1 .. n
      PROVE  /\ Same(A[id], made[id]) /\ A[id].reader = made[id].reader
             /\ IF id \in taken THEN A[id].user = NextId ELSE A[id].user = made[id].user
  BY DEF Same, Fields
<1>7. Listing(A, n)
  BY DEF Listing
<1>. HIDE DEF A
<1>. QED  BY <1>2, <1>5, <1>6, <1>7

OnOthers == {"WS2812", "LEDStatus", "HLKDevice", "Loopback"} \cup Panels \cup Routers
Inputs(c, types) == [i \in DOMAIN c.on |-> Find(c.on[i], types)]

LEMMA InputsAre ==
    ASSUME Records, NEW c \in Opens, c.type \in OnOthers, NEW types,
           None \notin ToSet(Inputs(c, types))
    PROVE  /\ Listing(Inputs(c, types), Len(c.on)) /\ Len(c.on) \in Nat
           /\ c.type = "WS2812" => Len(c.on) > 0
           /\ \A id \in ToSet(Inputs(c, types)) :
                 id \in 1 .. Len(devices) /\ devices[id].type \in types /\ devices[id].user = None
<1>1. c.on \in Seq(ToSet(c.on)) /\ (c.type = "WS2812" => c.on # <<>>)
  BY DevicesAssumption DEF OnOthers
<1>2. Len(c.on) \in Nat /\ DOMAIN c.on = 1 .. Len(c.on) /\ (c.on # <<>> => Len(c.on) > 0)
  BY <1>1
<1>3. Inputs(c, types) = [i \in 1 .. Len(c.on) |-> Find(c.on[i], types)]
  BY <1>2 DEF Inputs
<1>4. Listing(Inputs(c, types), Len(c.on))
  BY <1>2, <1>3 DEF Listing
<1>5. ASSUME NEW id \in ToSet(Inputs(c, types))
      PROVE  id \in 1 .. Len(devices) /\ devices[id].type \in types /\ devices[id].user = None
  <2>1. PICK i \in 1 .. Len(c.on) : id = Find(c.on[i], types)
    BY <1>3 DEF ToSet
  <2>2. Find(c.on[i], types) # None
    BY <1>5, <2>1
  <2>. QED  BY <2>1, <2>2, FindIs
<1>. QED  BY <1>1, <1>2, <1>4, <1>5

\* What a device built on others does: an input has no user before, and the
\* first one has the new device, if the device is built.
LEMMA BuildIs ==
    ASSUME Records, NEW c \in Opens, c.type \in OnOthers, NEW types, BuildOn(c, types)
    PROVE  /\ Grown
           /\ \A id \in ToSet(Inputs(c, types)) :
                 id \in 1 .. Len(devices) /\ devices[id].type \in types /\ devices[id].user = None
           /\ hardware' = IF c.type = "WS2812" THEN StripHardware(c, Inputs(c, types)[1]) ELSE hardware
           /\ c.type = "WS2812" =>
                 /\ Inputs(c, types)[1] \in ToSet(Inputs(c, types))
                 /\ Builds(c) => devices'[Inputs(c, types)[1]].user = NextId
<1>. DEFINE inputs == Inputs(c, types)
            R == Readers(c, inputs, devices)
            made == Append(R, Device(c.type, c.name, inputs))
            monitors == IF c.type # "PassthroughMonitor" THEN <<>>
                        ELSE [i \in 1 .. 2 |-> Device("MonitorDevice", c.name \o c.on[i], <<NextId>>)]
            opened == Assigned(inputs, made)
            L == Len(devices)
            k == Len(c.on)
<1>1. /\ None \notin ToSet(inputs)
      /\ hardware' = IF c.type = "WS2812" THEN StripHardware(c, inputs[1]) ELSE hardware
      /\ IF ~Builds(c) THEN Listed(made, <<>>)
         ELSE IF Repeats(inputs) # {} THEN Listed(opened, <<>>)
         ELSE Listed(opened \o monitors, [i \in DOMAIN monitors |-> NextId + i] \o <<NextId>>)
  BY DEF BuildOn, Inputs
<1>2. /\ Listing(inputs, k) /\ k \in Nat /\ (c.type = "WS2812" => k > 0)
      /\ \A id \in ToSet(inputs) :
            id \in 1 .. L /\ devices[id].type \in types /\ devices[id].user = None
  BY <1>1, InputsAre
<1>3. c.type = "WS2812" => inputs[1] \in ToSet(inputs)
  <2>1. DOMAIN inputs = 1 .. k
    BY <1>2, ListingIsSeq
  <2>. HIDE DEF inputs
  <2>. QED  BY <1>2, <2>1 DEF ToSet
<1>. HIDE DEF inputs
<1>4. /\ Listing(R, L) /\ L \in Nat
      /\ \A id \in 1 .. L : /\ Same(R[id], devices[id]) /\ R[id].user = devices[id].user
                            /\ \/ R[id].reader = devices[id].reader
                               \/ Builds(c) /\ id \in ToSet(inputs) /\ R[id].reader = NextId
  BY ReadersIs DEF Records, Listing
<1>. HIDE DEF R
<1>5. /\ Listing(made, L + 1)
      /\ \A id \in 1 .. L : made[id] = R[id]
      /\ made[L + 1] = Device(c.type, c.name, inputs)
  <2>1. Listing(R, L) /\ L \in Nat
    BY <1>4
  <2>2. made = [i \in 1 .. L + 1 |-> IF i <= L THEN R[i] ELSE Device(c.type, c.name, inputs)]
    BY <2>1, Appended
  <2>. HIDE DEF made
  <2>. QED  BY <2>1, <2>2 DEF Listing
<1>. HIDE DEF made
<1>6. /\ \A id \in 1 .. L : /\ Same(made[id], devices[id]) /\ made[id].user = devices[id].user
                            /\ \/ made[id].reader = devices[id].reader
                               \/ Builds(c) /\ id \in ToSet(inputs) /\ made[id].reader = NextId
      /\ DOMAIN made[L + 1] = Fields
      /\ made[L + 1].user = None /\ made[L + 1].reader = None /\ made[L + 1].on = inputs
  BY <1>4, <1>5 DEF Device, Fields
<1>7. \A id \in 1 .. L + 1 : DOMAIN made[id] = Fields
  <2>1. \A id \in 1 .. L : DOMAIN made[id] = Fields
    BY <1>6 DEF Same
  <2>. QED  BY <1>4, <1>6, <2>1
<1>8. /\ Listing(opened, L + 1)
      /\ \A id \in 1 .. L + 1 :
            /\ Same(opened[id], made[id]) /\ opened[id].reader = made[id].reader
            /\ \/ opened[id].user = made[id].user
               \/ id \in ToSet(inputs) /\ opened[id].user = NextId
            /\ Repeats(inputs) = {} /\ id \in ToSet(inputs) => opened[id].user = NextId
            /\ k > 0 /\ id = inputs[1] => opened[id].user = NextId
  <2>1. L + 1 \in Nat
    BY <1>4
  <2>. HIDE DEF L
  <2>. QED  BY <1>2, <1>5, <1>7, <2>1, AssignedIs
<1>. HIDE DEF opened
<1>9. \A id \in ToSet(inputs) : id \in 1 .. L /\ id # NextId /\ devices[id].user = None
  BY <1>2, <1>4 DEF NextId
<1>10. ASSUME ~ Builds(c) PROVE GrownTo(made)
  <2>1. Len(made) = L + 1
    BY <1>5, ListingIsSeq
  <2>2. \A id \in NextId .. L + 1 : id = L + 1
    BY <1>4 DEF NextId
  <2>. QED  BY <1>4, <1>5, <1>6, <1>10, <2>1, <2>2 DEF GrownTo, Same, NextId
<1>11. ASSUME Builds(c) PROVE GrownTo(opened)
  <2>1. Len(opened) = L + 1
    BY <1>8, ListingIsSeq
  <2>2. \A id \in NextId .. L + 1 : id = L + 1 /\ id \in 1 .. L + 1
    BY <1>4 DEF NextId
  <2>3. opened[L + 1].user = None /\ opened[L + 1].reader = None /\ DOMAIN opened[L + 1] = Fields
        /\ opened[NextId].on = inputs
    BY <1>4, <1>6, <1>8, <1>9 DEF NextId, Same
  <2>4. ASSUME NEW id \in 1 .. L
        PROVE  /\ DOMAIN opened[id] = Fields
               /\ opened[id].type = devices[id].type /\ opened[id].on = devices[id].on
               /\ \/ opened[id].user = devices[id].user
                  \/ devices[id].user = None /\ opened[id].user = NextId
               /\ \/ opened[id].reader = devices[id].reader
                  \/ /\ opened[id].reader = NextId
                     /\ Repeats(inputs) = {} => opened[id].user = NextId
    <3>1. id \in 1 .. L + 1
      BY <1>4
    <3>2. Same(opened[id], devices[id])
      BY <1>6, <1>8, <3>1 DEF Same
    <3>3. \/ opened[id].user = devices[id].user
          \/ devices[id].user = None /\ opened[id].user = NextId
      BY <1>6, <1>8, <1>9, <3>1
    <3>4. \/ opened[id].reader = devices[id].reader
          \/ /\ opened[id].reader = NextId
             /\ Repeats(inputs) = {} => opened[id].user = NextId
      BY <1>6, <1>8, <3>1
    <3>. QED  BY <3>2, <3>3, <3>4 DEF Same
  <2>. QED  BY <1>4, <1>8, <2>1, <2>2, <2>3, <2>4 DEF GrownTo, NextId
<1>12. Lists(repository, L) /\ L <= NextId /\ NextId \in Nat
  BY <1>4 DEF Records, NextId
<1>13. ASSUME Listed(opened, <<>>) \/ Listed(made, <<>>)
       PROVE  repository' = repository
  <2>1. repository' = repository \o <<>>
    BY <1>13 DEF Listed
  <2>2. repository \in Seq(ToSet(repository))
    BY <1>12, ListingIsSeq DEF Lists
  <2>. QED  BY <2>1, <2>2
<1>14. \A n \in Nat : n >= L => Lists(repository, n)
  BY <1>4, <1>12 DEF Lists, Listing
<1>. DEFINE Goal == /\ Grown
                    /\ c.type = "WS2812" /\ Builds(c) => devices'[inputs[1]].user = NextId
<1>15. ASSUME ~ Builds(c) PROVE Goal
  <2>1. devices' = made /\ repository' = repository
    BY <1>1, <1>13, <1>15 DEF Listed
  <2>2. Len(made) = L + 1
    BY <1>5, ListingIsSeq
  <2>3. GrownTo(devices') /\ Len(devices') = L + 1
    BY <1>10, <1>15, <2>1, <2>2
  <2>4. Lists(repository', Len(devices'))
    BY <1>4, <1>14, <2>1, <2>3
  <2>5. Grown
    BY <2>3, <2>4 DEF Grown
  <2>. QED  BY <1>15, <2>5
<1>16. c.type = "WS2812" => inputs[1] \in 1 .. L /\ inputs[1] \in 1 .. L + 1 /\ opened[inputs[1]].user = NextId
  BY <1>2, <1>3, <1>4, <1>8
<1>17. Len(opened) = L + 1
  BY <1>8, ListingIsSeq
<1>18. ASSUME Builds(c), Repeats(inputs) # {} PROVE Goal
  <2>1. devices' = opened /\ repository' = repository
    BY <1>1, <1>13, <1>18 DEF Listed
  <2>2. GrownTo(devices') /\ Len(devices') = L + 1
    BY <1>11, <1>17, <1>18, <2>1
  <2>3. Lists(repository', Len(devices'))
    BY <1>4, <1>14, <2>1, <2>2
  <2>4. Grown
    BY <2>2, <2>3 DEF Grown
  <2>5. c.type = "WS2812" => devices'[inputs[1]].user = NextId
    BY <1>16, <2>1
  <2>. QED  BY <2>4, <2>5
<1>19. ASSUME Builds(c), Repeats(inputs) = {} PROVE Goal
  <2>. DEFINE ids == [i \in DOMAIN monitors |-> NextId + i]
              one == <<NextId>>
              m == IF c.type # "PassthroughMonitor" THEN 0 ELSE 2
  <2>1. devices' = opened \o monitors /\ repository' = repository \o (ids \o one)
    BY <1>1, <1>19 DEF Listed
  <2>2. /\ m \in Nat /\ Listing(monitors, m) /\ DOMAIN monitors = 1 .. m
        /\ \A r \in ToSet(monitors) : DOMAIN r = Fields /\ r.user = None /\ r.reader = None
    <3>1. CASE c.type # "PassthroughMonitor"
      BY <3>1 DEF Listing, ToSet
    <3>2. CASE c.type = "PassthroughMonitor"
      <4>1. monitors = [i \in 1 .. 2 |-> Device("MonitorDevice", c.name \o c.on[i], <<NextId>>)] /\ m = 2
        BY <3>2
      <4>. HIDE DEF monitors, m
      <4>2. Listing(monitors, 2) /\ DOMAIN monitors = 1 .. 2
        BY <4>1 DEF Listing
      <4>3. \A i \in 1 .. 2 : /\ DOMAIN monitors[i] = Fields
                              /\ monitors[i].user = None /\ monitors[i].reader = None
        BY <4>1 DEF Device, Fields
      <4>. QED  BY <4>1, <4>2, <4>3 DEF ToSet
    <3>. QED  BY <3>1, <3>2
  <2>. HIDE DEF monitors, m
  <2>3. /\ GrownTo(devices') /\ Len(devices') = L + 1 + m
        /\ Agrees(devices', opened)
    BY <1>11, <1>17, <1>19, <2>1, <2>2, Longer
  <2>4. Lists(ids \o one, L + 1 + m)
    <3>1. ids = [i \in 1 .. m |-> L + 1 + i]
      BY <2>2 DEF NextId
    <3>2. Listing(ids, m)
      BY <2>2, <3>1 DEF Listing
    <3>3. Lists(ids, L + 1 + m)
      <4>1. Len(ids) = m
        BY <3>2, ListingIsSeq
      <4>. QED  BY <1>4, <2>2, <3>1, <3>2, <4>1 DEF Lists
    <3>4. Listing(one, 1)
      BY DEF Listing
    <3>5. \A i \in ToSet(one) : i = L + 1
      BY DEF ToSet, NextId
    <3>. HIDE DEF ids, one
    <3>6. \A i \in ToSet(one) : i \in 1 .. L + 1 + m
      BY <1>4, <2>2, <3>5
    <3>. QED  BY <1>4, <2>2, <3>3, <3>4, <3>6, LongerList
  <2>5. Lists(repository', L + 1 + m)
    <3>. DEFINE more == ids \o one
    <3>1. Listing(more, Len(more)) /\ \A i \in ToSet(more) : i \in 1 .. L + 1 + m
      <4>. HIDE DEF more
      <4>1. Lists(more, L + 1 + m)
        BY <2>4 DEF more
      <4>2. DOMAIN more = 1 .. Len(more)
        BY <4>1, ListingIsSeq DEF Lists
      <4>. QED  BY <4>1, <4>2 DEF Lists, ToSet
    <3>2. repository' = repository \o more
      BY <2>1
    <3>3. L + 1 + m \in Nat /\ L <= L + 1 + m
      BY <1>4, <2>2
    <3>. HIDE DEF more
    <3>. QED  BY <1>4, <1>12, <3>1, <3>2, <3>3, LongerList
  <2>6. c.type = "WS2812" => devices'[inputs[1]].user = NextId
    BY <1>16, <2>3 DEF Agrees
  <2>7. Grown
    BY <2>3, <2>5 DEF Grown
  <2>. QED  BY <2>6, <2>7
<1>20. Goal
  <2>. HIDE DEF Goal
  <2>. QED  BY <1>15, <1>18, <1>19
<1>. QED  BY <1>1, <1>2, <1>3, <1>20 DEF inputs

-----------------------------------------------------------------------------
(***************************************************************************)
(* The hardware.                                                           *)
(***************************************************************************)
HardwareFields == {"sms", "programs", "dma", "uarts", "adcs"}
TakenPios == {id \in DOMAIN devices : devices[id].type = "PIO" /\ devices[id].user # None}

Claims ==
    /\ DOMAIN hardware = HardwareFields
    /\ hardware.sms \in [Pios -> 0 .. StateMachines] /\ claimed_sms = hardware.sms
    /\ hardware.programs \in [Pios -> {0, 1}]
    /\ hardware.dma \in Nat /\ hardware.dma <= Cardinality(TakenPios)

LEMMA TakenIsFinite ==
    ASSUME Records
    PROVE  TakenPios \subseteq 1 .. Len(devices) /\ IsFiniteSet(TakenPios) /\ Cardinality(TakenPios) \in Nat
<1>1. Len(devices) \in Nat /\ DOMAIN devices = 1 .. Len(devices)
  BY ListingIsSeq DEF Records, Listing
<1>2. IsFiniteSet(1 .. Len(devices))
  BY <1>1, FS_Interval
<1>3. TakenPios \subseteq 1 .. Len(devices)
  BY <1>1 DEF TakenPios
<1>. QED  BY <1>2, <1>3, FS_Subset, FS_CardinalityType

\* No strip loses its PIO, and one that gets one takes a PIO no strip had.
LEMMA TakenGrow ==
    ASSUME Records, Grown
    PROVE  /\ Cardinality(TakenPios') \in Nat /\ Cardinality(TakenPios) \in Nat
           /\ Cardinality(TakenPios) <= Cardinality(TakenPios')
           /\ \A id \in 1 .. Len(devices) :
                 devices[id].type = "PIO" /\ devices[id].user = None /\ devices'[id].user = NextId =>
                     Cardinality(TakenPios) + 1 <= Cardinality(TakenPios')
<1>1. Records'
  BY GrownKeeps
<1>2. /\ TakenPios' \subseteq 1 .. Len(devices') /\ IsFiniteSet(TakenPios')
      /\ Cardinality(TakenPios') \in Nat
  <2>1. (Records => TakenPios \subseteq 1 .. Len(devices) /\ IsFiniteSet(TakenPios)
                      /\ Cardinality(TakenPios) \in Nat)'
    BY TakenIsFinite, PTL
  <2>. QED  BY <1>1, <2>1
<1>3. TakenPios \subseteq 1 .. Len(devices) /\ IsFiniteSet(TakenPios) /\ Cardinality(TakenPios) \in Nat
  BY TakenIsFinite
<1>4. /\ DOMAIN devices = 1 .. Len(devices) /\ DOMAIN devices' = 1 .. Len(devices')
      /\ Len(devices) \in Nat /\ Len(devices') \in Nat /\ Len(devices) <= Len(devices')
  BY <1>1, ListingIsSeq DEF Records, Grown, GrownTo, Listing, NextId
<1>5. \A id \in 1 .. Len(devices) :
         /\ id \in 1 .. Len(devices') /\ devices'[id].type = devices[id].type
         /\ devices[id].user # None => devices'[id].user # None
  BY <1>4 DEF Grown, GrownTo, NextId, None
<1>6. TakenPios \subseteq TakenPios'
  BY <1>4, <1>5 DEF TakenPios
<1>7. Cardinality(TakenPios) <= Cardinality(TakenPios')
  BY <1>2, <1>6, FS_Subset
<1>8. ASSUME NEW id \in 1 .. Len(devices),
             devices[id].type = "PIO", devices[id].user = None, devices'[id].user = NextId
      PROVE  Cardinality(TakenPios) + 1 <= Cardinality(TakenPios')
  <2>1. id \notin TakenPios
    BY <1>8 DEF TakenPios
  <2>2. id \in TakenPios'
    BY <1>4, <1>5, <1>8 DEF TakenPios, NextId, None
  <2>3. Cardinality(TakenPios \cup {id}) = Cardinality(TakenPios) + 1
    BY <1>3, <2>1, FS_AddElement
  <2>4. Cardinality(TakenPios \cup {id}) <= Cardinality(TakenPios')
    <3>1. TakenPios \cup {id} \subseteq TakenPios'
      BY <1>6, <2>2
    <3>. QED  BY <1>2, <3>1, FS_Subset
  <2>. QED  BY <2>3, <2>4
<1>. QED  BY <1>2, <1>3, <1>7, <1>8

LEMMA ClaimsKept ==
    ASSUME Records, Claims, Grown,
           DOMAIN hardware' = HardwareFields,
           hardware'.sms \in [Pios -> 0 .. StateMachines], claimed_sms' = hardware'.sms,
           hardware'.programs = hardware.programs, hardware'.dma = hardware.dma
    PROVE  Claims'
<1>1. /\ Cardinality(TakenPios') \in Nat /\ Cardinality(TakenPios) \in Nat
      /\ Cardinality(TakenPios) <= Cardinality(TakenPios')
  BY TakenGrow
<1>2. hardware'.dma \in Nat /\ hardware'.dma <= Cardinality(TakenPios')
  BY <1>1 DEF Claims
<1>. QED  BY <1>2 DEF Claims

DInv == Records /\ ReaderIsUser /\ Claims

LEMMA PIOKeeps == ASSUME DInv, NEW c \in Opens, OpenPIO(c) PROVE DInv'
<1>1. Records /\ ReaderIsUser /\ Claims
  BY DEF DInv
<1>2. Grown
  BY <1>1, OneMore DEF OpenPIO
<1>3. /\ hardware' = [hardware EXCEPT !.sms[c.number] = @ + 1] /\ claimed_sms[c.number] < StateMachines
      /\ claimed_sms' = [claimed_sms EXCEPT ![c.number] = @ + 1]
  BY DEF OpenPIO
<1>4. /\ DOMAIN hardware = HardwareFields /\ hardware.sms \in [Pios -> 0 .. StateMachines]
      /\ claimed_sms = hardware.sms
  BY <1>1 DEF Claims
<1>5. /\ DOMAIN hardware' = HardwareFields /\ hardware'.sms = [hardware.sms EXCEPT ![c.number] = @ + 1]
      /\ hardware'.programs = hardware.programs /\ hardware'.dma = hardware.dma
  BY <1>3, <1>4 DEF HardwareFields
<1>6. hardware'.sms \in [Pios -> 0 .. StateMachines] /\ claimed_sms' = hardware'.sms
  <2>1. hardware'.sms = [p \in Pios |-> IF p = c.number THEN hardware.sms[p] + 1 ELSE hardware.sms[p]]
    BY <1>4, <1>5
  <2>2. \A p \in Pios : hardware.sms[p] \in 0 .. StateMachines
    BY <1>4
  <2>3. c.number \in Pios => hardware.sms[c.number] + 1 \in 0 .. StateMachines
    BY <1>3, <1>4, <2>2 DEF StateMachines
  <2>4. claimed_sms' = hardware'.sms
    BY <1>3, <1>4, <1>5
  <2>. QED  BY <2>1, <2>2, <2>3, <2>4
<1>7. Claims'
  BY <1>1, <1>2, <1>5, <1>6, ClaimsKept
<1>. QED  BY <1>1, <1>2, <1>7, GrownKeeps DEF DInv

LEMMA UARTKeeps == ASSUME DInv, NEW c \in Opens, OpenUART(c) \/ OpenADC(c) PROVE DInv'
<1>1. Records /\ ReaderIsUser /\ Claims
  BY DEF DInv
<1>2. Grown
  BY <1>1, OneMore DEF OpenUART, OpenADC
<1>3. /\ claimed_sms' = claimed_sms
      /\ \/ hardware' = [hardware EXCEPT !.uarts = @ \cup {c.number}]
         \/ hardware' = [hardware EXCEPT !.adcs = @ \cup {c.number}]
  BY DEF OpenUART, OpenADC
<1>4. /\ DOMAIN hardware = HardwareFields /\ hardware.sms \in [Pios -> 0 .. StateMachines]
      /\ claimed_sms = hardware.sms
  BY <1>1 DEF Claims
<1>5. /\ DOMAIN hardware' = HardwareFields /\ hardware'.sms = hardware.sms
      /\ hardware'.programs = hardware.programs /\ hardware'.dma = hardware.dma
  BY <1>3, <1>4 DEF HardwareFields
<1>6. Claims'
  BY <1>1, <1>2, <1>3, <1>4, <1>5, ClaimsKept
<1>. QED  BY <1>1, <1>2, <1>6, GrownKeeps DEF DInv

LEMMA BuildKeeps ==
    ASSUME DInv, NEW c \in Opens, c.type \in OnOthers, NEW types, BuildOn(c, types),
           c.type = "WS2812" => types = {"PIO"}
    PROVE  DInv'
<1>1. Records /\ ReaderIsUser /\ Claims
  BY DEF DInv
<1>2. /\ Grown
      /\ \A id \in ToSet(Inputs(c, types)) :
            id \in 1 .. Len(devices) /\ devices[id].type \in types /\ devices[id].user = None
      /\ hardware' = IF c.type = "WS2812" THEN StripHardware(c, Inputs(c, types)[1]) ELSE hardware
      /\ c.type = "WS2812" =>
            /\ Inputs(c, types)[1] \in ToSet(Inputs(c, types))
            /\ Builds(c) => devices'[Inputs(c, types)[1]].user = NextId
  BY <1>1, BuildIs
<1>3. claimed_sms' = claimed_sms
  BY DEF BuildOn
<1>4. /\ DOMAIN hardware = HardwareFields /\ hardware.sms \in [Pios -> 0 .. StateMachines]
      /\ claimed_sms = hardware.sms /\ hardware.programs \in [Pios -> {0, 1}]
      /\ hardware.dma \in Nat /\ hardware.dma <= Cardinality(TakenPios)
  BY <1>1 DEF Claims
<1>5. CASE c.type # "WS2812"
  <2>1. Claims'
    BY <1>1, <1>2, <1>3, <1>4, <1>5, ClaimsKept
  <2>. QED  BY <1>1, <1>2, <2>1, GrownKeeps DEF DInv
<1>6. CASE c.type = "WS2812"
  <2>. DEFINE pio == Inputs(c, types)[1]
  <2>1. /\ pio \in 1 .. Len(devices) /\ devices[pio].type = "PIO" /\ devices[pio].user = None
        /\ hardware' = StripHardware(c, pio) /\ (Builds(c) => devices'[pio].user = NextId)
    BY <1>2, <1>6
  <2>. HIDE DEF pio
  <2>2. /\ Cardinality(TakenPios') \in Nat /\ Cardinality(TakenPios) \in Nat
        /\ Cardinality(TakenPios) <= Cardinality(TakenPios')
        /\ devices'[pio].user = NextId => Cardinality(TakenPios) + 1 <= Cardinality(TakenPios')
    BY <1>1, <1>2, <2>1, TakenGrow
  <2>3. /\ DOMAIN hardware' = HardwareFields /\ hardware'.sms = hardware.sms
        /\ hardware'.programs = [hardware.programs EXCEPT ![PioOf(pio)] = IF @ = 0 THEN 1 ELSE @]
        /\ hardware'.dma = IF c.leds > DMA_THRESHOLD /\ hardware.dma < DmaChannels
                           THEN hardware.dma + 1 ELSE hardware.dma
    BY <1>4, <2>1 DEF StripHardware, HardwareFields
  <2>4. hardware'.programs \in [Pios -> {0, 1}]
    BY <1>4, <2>3
  <2>5. hardware'.dma \in Nat /\ hardware'.dma <= Cardinality(TakenPios')
    <3>1. CASE c.leds > DMA_THRESHOLD /\ hardware.dma < DmaChannels
      <4>1. Builds(c)
        BY <1>6, <3>1 DEF Builds, Routers
      <4>. QED  BY <1>4, <2>1, <2>2, <2>3, <3>1, <4>1
    <3>2. CASE ~ (c.leds > DMA_THRESHOLD /\ hardware.dma < DmaChannels)
      BY <1>4, <2>2, <2>3, <3>2
    <3>. QED  BY <3>1, <3>2
  <2>6. Claims'
    BY <1>3, <1>4, <2>3, <2>4, <2>5 DEF Claims
  <2>. QED  BY <1>1, <1>2, <2>6, GrownKeeps DEF DInv
<1>. QED  BY <1>5, <1>6

LEMMA DInitHolds == ASSUME DInit PROVE DInv
<1>1. /\ devices = <<Device("USBUART", <<"USBUART">>, <<>>)>> /\ repository = <<1>>
      /\ claimed_sms = [p \in Pios |-> 0]
      /\ hardware = [sms |-> [p \in Pios |-> 0], programs |-> [p \in Pios |-> 0],
                     dma |-> 0, uarts |-> {}, adcs |-> {}]
  BY DEF DInit
<1>2. /\ Listing(devices, 1) /\ Len(devices) = 1
      /\ devices[1] = Device("USBUART", <<"USBUART">>, <<>>)
  BY <1>1 DEF Listing
<1>3. Lists(repository, 1)
  BY <1>1 DEF Lists, Listing
<1>4. DOMAIN devices[1] = Fields /\ devices[1].user = 0 /\ devices[1].reader = 0
  BY <1>2 DEF Device, Fields, None
<1>5. Records
  BY <1>2, <1>3, <1>4 DEF Records
<1>6. ReaderIsUser
  <2>1. DOMAIN devices = 1 .. 1
    BY <1>2, ListingIsSeq
  <2>. QED  BY <1>4, <2>1 DEF ReaderIsUser, None
<1>7. Claims
  BY <1>1, <1>5, TakenIsFinite DEF Claims, HardwareFields, StateMachines
<1>. QED  BY <1>5, <1>6, <1>7 DEF DInv

LEMMA DNextKeeps == ASSUME DInv, [DNext]_dvars PROVE DInv'
<1>1. CASE UNCHANGED dvars
  BY <1>1 DEF dvars, DInv, Records, Lists, ReaderIsUser, Twice, Claims, TakenPios, Listing
<1>2. CASE DNext
  <2>1. PICK c \in Opens :
           \/ OpenPIO(c) \/ OpenUART(c) \/ OpenADC(c)
           \/ OpenStrip(c) \/ OpenDisplay(c) \/ OpenStatus(c) \/ OpenSensor(c)
           \/ OpenPassthrough(c) \/ OpenLoopback(c) \/ OpenMonitor(c) \/ OpenMulti(c)
    BY <1>2 DEF DNext
  <2>2. CASE OpenPIO(c)
    BY <2>2, PIOKeeps
  <2>3. CASE OpenUART(c) \/ OpenADC(c)
    BY <2>3, UARTKeeps
  <2>4. CASE OpenStrip(c)
    BY <2>4, BuildKeeps DEF OpenStrip, OnOthers
  <2>5. CASE OpenDisplay(c)
    BY <2>5, BuildKeeps DEF OpenDisplay, OnOthers, Panels
  <2>6. CASE OpenStatus(c) \/ OpenSensor(c) \/ OpenLoopback(c)
    BY <2>6, BuildKeeps DEF OpenStatus, OpenSensor, OpenLoopback, OnOthers
  <2>7. CASE OpenPassthrough(c) \/ OpenMonitor(c) \/ OpenMulti(c)
    BY <2>7, BuildKeeps DEF OpenPassthrough, OpenMonitor, OpenMulti, OnOthers, Routers
  <2>. QED  BY <2>1, <2>2, <2>3, <2>4, <2>5, <2>6, <2>7
<1>. QED  BY <1>1, <1>2

LEMMA DInvHolds == DSpec => []DInv
BY DInitHolds, DNextKeeps, PTL DEF DSpec

\* The data a device receives goes to the device that uses it, and to nobody
\* else, whatever is opened in whatever order.
THEOREM ReadersUse == DSpec => []ReaderIsUser
<1>1. DInv => ReaderIsUser
  BY DEF DInv
<1>. QED  BY <1>1, DInvHolds, PTL

\* No open, and no failing open, makes the PIOs, the programs or the DMA
\* channels run out where the factories say they do not.
THEOREM ClaimsAlwaysFit == DSpec => []ClaimsFit
<1>1. DInv => ClaimsFit
  <2>. SUFFICES ASSUME DInv PROVE ClaimsFit
    OBVIOUS
  <2>1. Records /\ Claims
    BY DEF DInv
  <2>2. TakenPios \subseteq {id \in DOMAIN devices : devices[id].type = "PIO"}
    BY DEF TakenPios
  <2>3. IsFiniteSet({id \in DOMAIN devices : devices[id].type = "PIO"})
        /\ Cardinality({id \in DOMAIN devices : devices[id].type = "PIO"}) \in Nat
    <3>1. Len(devices) \in Nat /\ DOMAIN devices = 1 .. Len(devices)
      BY <2>1, ListingIsSeq DEF Records, Listing
    <3>2. IsFiniteSet(1 .. Len(devices))
      BY <3>1, FS_Interval
    <3>. QED  BY <3>1, <3>2, FS_Subset, FS_CardinalityType
  <2>4. Cardinality(TakenPios) <= Cardinality({id \in DOMAIN devices : devices[id].type = "PIO"})
    BY <2>2, <2>3, FS_Subset
  <2>5. Cardinality(TakenPios) \in Nat
    BY <2>1, TakenIsFinite
  <2>6. \A p \in Pios : /\ hardware.sms[p] = claimed_sms[p]
                        /\ hardware.sms[p] <= StateMachines
                        /\ hardware.programs[p] <= 1
    BY <2>1 DEF Claims, StateMachines
  <2>7. hardware.dma <= Cardinality({id \in DOMAIN devices : devices[id].type = "PIO"})
    BY <2>1, <2>3, <2>4, <2>5 DEF Claims
  <2>. QED  BY <2>6, <2>7 DEF ClaimsFit
<1>. QED  BY <1>1, DInvHolds, PTL

-----------------------------------------------------------------------------
(***************************************************************************)
(* Pins.  The invariant adds to PinsAsConfigured that a pin without a      *)
(* variable has no device, so that the first open of a pin is the only one *)
(* that writes its registers and owns its variable, and that the rules for *)
(* the level of an output hold whatever its direction.                     *)
(***************************************************************************)
Registers == [dir : {"IN", "OUT"}, out : BOOLEAN]

PinTypes ==
    /\ pin \in [Gpios -> Registers]
    /\ Listing(gpios, Len(gpios))
    /\ gvars \in [Gpios -> 0 .. Len(gpios)]
    /\ \A i \in 1 .. Len(gpios) : gpios[i].config \in Configurations
OwnersKnown ==
    \A g \in Gpios :
        /\ gvars[g] = 0 => \A i \in 1 .. Len(gpios) : gpios[i].pin # g
        /\ gvars[g] # 0 => gpios[gvars[g]].pin = g
Obeys(r, config) ==
    /\ config \in {"OUTPUT_OPEN_DRAIN", "INPUT_PULLUP"} => ~r.out
    /\ config \in {"OUTPUT_OPEN_SOURCE", "INPUT_PULLDOWN"} => r.out
    /\ config = "INPUT" => r.dir = "IN"
\* i is the only device of g
Alone(g, i) == gpios[i].pin = g /\ \A j \in 1 .. Len(gpios) : gpios[j].pin = g => j = i
PinsObey ==
    \A g \in Gpios, i \in 1 .. Len(gpios) : Alone(g, i) => Obeys(pin[g], gpios[i].config)

PulseTypes ==
    /\ DOMAIN slice = {p \div 2 : p \in Pwms} /\ DOMAIN level = Pwms /\ DOMAIN duty = Pwms
    /\ Listing(pwms, Len(pwms))
    /\ \A i \in 1 .. Len(pwms) : DOMAIN pwms[i] = {"pin", "wrap"}
PulsesFit ==
    \A p \in Pwms : p \notin upset /\ (\E i \in 1 .. Len(pwms) : pwms[i].pin = p) =>
        level[p] = (slice[p \div 2] * duty[p]) \div 100

PinInv == PinTypes /\ OwnersKnown /\ PinsObey /\ PulseTypes /\ PulsesFit

LEMMA OpenGPIOKeeps ==
    ASSUME PinInv, NEW g \in Gpios, NEW config \in Configurations, OpenGPIO(g, config)
    PROVE  PinTypes' /\ OwnersKnown' /\ PinsObey'
<1>. DEFINE n == Len(gpios)
            new == [pin |-> g, config |-> config]
<1>1. /\ pin \in [Gpios -> Registers] /\ Listing(gpios, n) /\ gvars \in [Gpios -> 0 .. n]
      /\ \A i \in 1 .. n : gpios[i].config \in Configurations
      /\ n \in Nat
  BY DEF PinInv, PinTypes, Listing
<1>2. /\ pin' = [pin EXCEPT ![g] = Configured(config)]
      /\ gvars' = [gvars EXCEPT ![g] = IF @ = 0 THEN n + 1 ELSE @]
  BY DEF OpenGPIO
<1>3. gpios' = [i \in 1 .. n + 1 |-> IF i <= n THEN gpios[i] ELSE new]
  <2>1. gpios' = Append(gpios, new)
    BY DEF OpenGPIO
  <2>. QED  BY <1>1, <2>1, Appended
<1>. HIDE DEF new
<1>4. Listing(gpios', n + 1)
  BY <1>1, <1>3 DEF Listing
<1>5. Len(gpios') = n + 1
  BY <1>4, ListingIsSeq
<1>6. /\ \A i \in 1 .. n : gpios'[i] = gpios[i]
      /\ gpios'[n + 1] = new
  BY <1>1, <1>3
<1>. HIDE DEF n
<1>7. Configured(config) \in Registers /\ Obeys(Configured(config), config)
  <2>. DEFINE out == config \in {"INPUT_PULLDOWN", "OUTPUT_OPEN_SOURCE"}
  <2>0. (out = TRUE) \/ (out = FALSE)
    OBVIOUS
  <2>1. out \in BOOLEAN
    BY <2>0
  <2>2. PICK dir \in {"IN", "OUT"} : dir = IF config = "OUTPUT" THEN "OUT" ELSE "IN"
    OBVIOUS
  <2>3. Configured(config) = [dir |-> dir, out |-> out]
    BY <2>2, Zenon DEF Configured
  <2>9. (config \in {"OUTPUT_OPEN_DRAIN", "INPUT_PULLUP"} => ~out)
        /\ (config \in {"OUTPUT_OPEN_SOURCE", "INPUT_PULLDOWN"} => out)
    OBVIOUS
  <2>. HIDE DEF out
  <2>4. Configured(config) \in Registers
    BY <2>1, <2>2, <2>3 DEF Registers
  <2>5. Configured(config).out = out /\ Configured(config).dir = dir
    BY <2>3
  <2>8. config = "INPUT" => dir = "IN"
    BY <2>2
  <2>. QED  BY <2>4, <2>5, <2>8, <2>9, Zenon DEF Obeys
<1>8. new.pin = g /\ new.config = config
  BY DEF new
<1>9. PinTypes'
  <2>1. pin' \in [Gpios -> Registers]
    BY <1>1, <1>2, <1>7
  <2>2. gvars' \in [Gpios -> 0 .. n + 1]
    BY <1>1, <1>2
  <2>3. \A i \in 1 .. n + 1 : gpios'[i].config \in Configurations
    <3>. TAKE i \in 1 .. n + 1
    <3>1. CASE i \in 1 .. n
      BY <1>1, <1>6, <3>1
    <3>2. CASE i = n + 1
      BY <1>6, <1>8, <3>2
    <3>. QED  BY <1>1, <3>1, <3>2
  <2>. QED  BY <1>4, <1>5, <2>1, <2>2, <2>3 DEF PinTypes
<1>10. OwnersKnown'
  <2>. SUFFICES ASSUME NEW h \in Gpios
                PROVE  /\ gvars'[h] = 0 => \A i \in 1 .. n + 1 : gpios'[i].pin # h
                       /\ gvars'[h] # 0 => gpios'[gvars'[h]].pin = h
    BY <1>5 DEF OwnersKnown
  <2>1. /\ gvars[h] = 0 => \A i \in 1 .. n : gpios[i].pin # h
        /\ gvars[h] # 0 => gpios[gvars[h]].pin = h
        /\ gvars[h] \in 0 .. n
    <3>1. gvars[h] \in 0 .. n
      BY <1>1
    <3>2. OwnersKnown
      BY DEF PinInv
    <3>3. gvars[h] # 0 => gpios[gvars[h]].pin = h
      BY <3>2 DEF OwnersKnown
    <3>4. gvars[h] = 0 => \A i \in 1 .. n : gpios[i].pin # h
      BY <3>2 DEF OwnersKnown, n
    <3>. QED  BY <3>1, <3>3, <3>4
  <2>2. CASE h # g
    <3>1. gvars'[h] = gvars[h]
      BY <1>1, <1>2, <2>2
    <3>2. \A i \in 1 .. n + 1 : i \in 1 .. n \/ i = n + 1
      BY <1>1
    <3>. QED  BY <1>1, <1>6, <1>8, <2>1, <2>2, <3>1, <3>2
  <2>3. CASE h = g
    <3>1. gvars'[g] = IF gvars[g] = 0 THEN n + 1 ELSE gvars[g]
      BY <1>1, <1>2
    <3>. QED  BY <1>1, <1>6, <1>8, <2>1, <2>3, <3>1
  <2>. QED  BY <2>2, <2>3
<1>11. PinsObey'
  <2>. SUFFICES ASSUME NEW h \in Gpios, NEW i \in 1 .. n + 1, gpios'[i].pin = h,
                       \A j \in 1 .. n + 1 : gpios'[j].pin = h => j = i
                PROVE  Obeys(pin'[h], gpios'[i].config)
    BY <1>5 DEF PinsObey, Alone
  <2>1. CASE h = g
    <3>1. i = n + 1
      BY <1>1, <1>6, <1>8, <2>1
    <3>2. pin'[g] = Configured(config)
      BY <1>1, <1>2
    <3>. QED  BY <1>6, <1>7, <1>8, <2>1, <3>1, <3>2
  <2>2. CASE h # g
    <3>1. i \in 1 .. n
      BY <1>1, <1>6, <1>8, <2>2
    <3>2. gpios[i].pin = h /\ gpios'[i].config = gpios[i].config
      BY <1>6, <3>1
    <3>3. \A j \in 1 .. n : gpios[j].pin = h => j = i
      BY <1>1, <1>6
    <3>4. Obeys(pin[h], gpios[i].config)
      BY <3>1, <3>2, <3>3 DEF PinInv, PinsObey, Alone, n
    <3>5. pin'[h] = pin[h]
      BY <1>1, <1>2, <2>2
    <3>. QED  BY <3>2, <3>4, <3>5
  <2>. QED  BY <2>1, <2>2
<1>. QED  BY <1>9, <1>10, <1>11

LEMMA SetGPIOKeeps ==
    ASSUME PinInv, NEW g \in Gpios, NEW on \in BOOLEAN, SetGPIO(g, on)
    PROVE  PinTypes' /\ OwnersKnown' /\ PinsObey'
<1>. DEFINE config == gpios[gvars[g]].config
            d == CASE config \in {"OUTPUT_OPEN_DRAIN", "INPUT_PULLUP"} -> ~on
                   [] config \in {"OUTPUT_OPEN_SOURCE", "INPUT_PULLDOWN"} -> on
                   [] config \in {"INPUT", "OUTPUT"} -> FALSE
<1>1. /\ pin \in [Gpios -> Registers] /\ Len(gpios) \in Nat /\ gvars[g] \in 0 .. Len(gpios)
      /\ \A i \in 1 .. Len(gpios) : gpios[i].config \in Configurations
  BY DEF PinInv, PinTypes, Listing
<1>2. /\ gvars[g] # 0 /\ gpios' = gpios /\ gvars' = gvars
      /\ IF config \in {"INPUT", "OUTPUT"} THEN pin' = [pin EXCEPT ![g].out = on]
         ELSE pin' = [pin EXCEPT ![g].dir = IF d THEN "OUT" ELSE "IN"]
  BY DEF SetGPIO
<1>3. config \in Configurations /\ gpios[gvars[g]].pin = g /\ gvars[g] \in 1 .. Len(gpios)
  BY <1>1, <1>2 DEF PinInv, OwnersKnown
<1>. HIDE DEF d
<1>4. \A h \in Gpios : h # g => pin'[h] = pin[h]
  BY <1>1, <1>2
<1>5. pin[g] \in Registers
  BY <1>1
<1>6. /\ pin'[g] \in Registers
      /\ Obeys(pin[g], config) => Obeys(pin'[g], config)
  <2>1. CASE config \in {"INPUT", "OUTPUT"}
    <3>1. pin'[g] = [pin[g] EXCEPT !.out = on]
      BY <1>1, <1>2, <2>1
    <3>2. pin'[g].dir = pin[g].dir /\ pin'[g] \in Registers
      BY <1>5, <3>1 DEF Registers
    <3>. QED  BY <2>1, <3>2 DEF Obeys
  <2>2. CASE config \notin {"INPUT", "OUTPUT"}
    <3>1. pin'[g] = [pin[g] EXCEPT !.dir = IF d THEN "OUT" ELSE "IN"]
      BY <1>1, <1>2, <2>2
    <3>2. pin'[g].out = pin[g].out /\ pin'[g] \in Registers
      BY <1>5, <3>1 DEF Registers
    <3>. QED  BY <2>2, <3>2 DEF Obeys
  <2>. QED  BY <2>1, <2>2
<1>7. pin' \in [Gpios -> Registers]
  <2>1. DOMAIN pin' = Gpios /\ pin' = [h \in Gpios |-> pin'[h]]
    BY <1>1, <1>2
  <2>2. \A h \in Gpios : pin'[h] \in Registers
    BY <1>1, <1>4, <1>6
  <2>. QED  BY <2>1, <2>2
<1>8. PinTypes' /\ OwnersKnown'
  BY <1>2, <1>7 DEF PinInv, PinTypes, OwnersKnown, Listing
<1>9. PinsObey'
  <2>. SUFFICES ASSUME NEW h \in Gpios, NEW i \in 1 .. Len(gpios), Alone(h, i)
                PROVE  Obeys(pin'[h], gpios[i].config)
    BY <1>2 DEF PinsObey, Alone
  <2>1. Obeys(pin[h], gpios[i].config)
    BY DEF PinInv, PinsObey
  <2>2. CASE h # g
    BY <1>4, <2>1, <2>2
  <2>3. CASE h = g
    <3>1. gvars[g] = i
      BY <1>3, <2>3 DEF Alone
    <3>. QED  BY <1>6, <2>1, <2>3, <3>1
  <2>. QED  BY <2>2, <2>3
<1>. QED  BY <1>8, <1>9

-----------------------------------------------------------------------------
LEMMA Half == ASSUME NEW w \in Int PROVE (w * 50) \div 100 = w \div 2
OBVIOUS

\* A frequency that is taken has a wrap: one bit at least fits.
LEMMA WrapIs == ASSUME NEW f \in Frequencies, Valid(f) PROVE WrapOf(f) \in Int
<1>. DEFINE fitting == {b \in 1 .. 16 : f <= Clock \div 2 ^ b}
            T == {17 - b : b \in fitting}
<1>1. f \in Int /\ f <= 4000000
  BY PinsAssumption DEF Valid
<1>2. 1 \in fitting
  <2>1. Clock \div 2 ^ 1 = 31250000
    <3>1. 2 ^ 1 = 2 /\ Clock = 62500000
      BY DEF Clock
    <3>. QED  BY <3>1
  <2>. QED  BY <1>1, <2>1
<1>3. fitting \subseteq 1 .. 16
  OBVIOUS
<1>. HIDE DEF fitting
<1>4. T \subseteq Nat /\ T # {}
  BY <1>2, <1>3
<1>5. PICK m \in T : \A k \in T : m <= k
  <2>. HIDE DEF T
  <2>. QED  BY <1>4, Smallest
<1>6. PICK b \in fitting : m = 17 - b
  BY DEF T
<1>7. \A c \in fitting : b >= c
  <2>. TAKE c \in fitting
  <2>1. 17 - c \in T /\ c \in 1 .. 16 /\ b \in 1 .. 16
    BY <1>3
  <2>. HIDE DEF T
  <2>2. m <= 17 - c
    BY <1>5, <2>1
  <2>. QED  BY <1>6, <2>1, <2>2
<1>8. Max(fitting) \in fitting
  BY <1>7 DEF Max
<1>9. Bits(f) = Max(fitting)
  BY DEF Bits, fitting
<1>10. Bits(f) \in Nat
  <2>1. PICK n : n = Max(fitting)
    OBVIOUS
  <2>2. n \in 1 .. 16
    BY <1>3, <1>8, <2>1
  <2>3. n \in Nat
    BY <2>2
  <2>. QED  BY <1>9, <2>1, <2>3, Zenon
<1>11. 2 ^ Bits(f) \in Int
  BY <1>10
<1>. QED  BY <1>11 DEF WrapOf

LEMMA ReconfiguredIs ==
    ASSUME PulseTypes, NEW p \in Pwms, NEW f \in Frequencies, Valid(f), Reconfigured(p, f)
    PROVE  /\ DOMAIN slice' = DOMAIN slice /\ DOMAIN level' = Pwms
           /\ level'[p] = (slice'[p \div 2] * 50) \div 100
           /\ \A q \in Pwms : q # p /\ q \notin Neighbours(p) =>
                 level'[q] = level[q] /\ slice'[q \div 2] = slice[q \div 2]
<1>1. /\ slice' = [slice EXCEPT ![p \div 2] = WrapOf(f)]
      /\ level' = [level EXCEPT ![p] = WrapOf(f) \div 2]
      /\ DOMAIN slice = {q \div 2 : q \in Pwms} /\ DOMAIN level = Pwms
  BY DEF Reconfigured, PulseTypes
<1>2. WrapOf(f) \in Int
  BY WrapIs
<1>3. slice'[p \div 2] = WrapOf(f) /\ level'[p] = WrapOf(f) \div 2
  BY <1>1
<1>4. level'[p] = (slice'[p \div 2] * 50) \div 100
  BY <1>2, <1>3, Half
<1>5. ASSUME NEW q \in Pwms, q # p, q \notin Neighbours(p)
      PROVE  level'[q] = level[q] /\ slice'[q \div 2] = slice[q \div 2]
  <2>1. q \div 2 # p \div 2
    BY <1>5 DEF Neighbours
  <2>2. q \div 2 \in DOMAIN slice
    BY <1>1
  <2>. QED  BY <1>1, <1>5, <2>1, <2>2
<1>. QED  BY <1>1, <1>4, <1>5

LEMMA OpenPWMKeeps ==
    ASSUME PinInv, NEW p \in Pwms, NEW f \in Frequencies, OpenPWM(p, f)
    PROVE  PulseTypes' /\ PulsesFit'
<1>. DEFINE n == Len(pwms)
            new == [pin |-> p, wrap |-> WrapOf(f)]
<1>1. PulseTypes /\ PulsesFit /\ Valid(f) /\ Reconfigured(p, f)
  BY DEF PinInv, OpenPWM
<1>2. /\ DOMAIN slice' = DOMAIN slice /\ DOMAIN level' = Pwms
      /\ level'[p] = (slice'[p \div 2] * 50) \div 100
      /\ \A q \in Pwms : q # p /\ q \notin Neighbours(p) =>
            level'[q] = level[q] /\ slice'[q \div 2] = slice[q \div 2]
  BY <1>1, ReconfiguredIs
<1>3. /\ duty' = [duty EXCEPT ![p] = 50] /\ DOMAIN duty = Pwms
      /\ upset' = (upset \ {p}) \cup Neighbours(p)
  BY <1>1 DEF OpenPWM, PulseTypes
<1>4. n \in Nat /\ Listing(pwms, n) /\ \A i \in 1 .. n : DOMAIN pwms[i] = {"pin", "wrap"}
  BY <1>1 DEF PulseTypes, Listing
<1>5. pwms' = [i \in 1 .. n + 1 |-> IF i <= n THEN pwms[i] ELSE new]
  <2>1. pwms' = Append(pwms, new)
    BY DEF OpenPWM
  <2>. QED  BY <1>4, <2>1, Appended
<1>6. new.pin = p /\ DOMAIN new = {"pin", "wrap"}
  OBVIOUS
<1>. HIDE DEF new
<1>7. Listing(pwms', n + 1) /\ (\A i \in 1 .. n : pwms'[i] = pwms[i]) /\ pwms'[n + 1] = new
  BY <1>4, <1>5 DEF Listing
<1>8. Len(pwms') = n + 1
  BY <1>7, ListingIsSeq
<1>. HIDE DEF n
<1>9. \A i \in 1 .. n + 1 : i \in 1 .. n \/ i = n + 1
  BY <1>4
<1>10. PulseTypes'
  <2>1. \A i \in 1 .. n + 1 : DOMAIN pwms'[i] = {"pin", "wrap"}
    BY <1>4, <1>6, <1>7, <1>9
  <2>. QED  BY <1>1, <1>2, <1>3, <1>7, <1>8, <2>1 DEF PulseTypes
<1>11. PulsesFit'
  <2>. SUFFICES ASSUME NEW q \in Pwms, q \notin upset', NEW i \in 1 .. n + 1, pwms'[i].pin = q
                PROVE  level'[q] = (slice'[q \div 2] * duty'[q]) \div 100
    BY <1>8 DEF PulsesFit
  <2>1. CASE q = p
    BY <1>2, <1>3, <2>1
  <2>2. CASE q # p
    <3>1. q \notin Neighbours(p) /\ q \notin upset /\ duty'[q] = duty[q]
      BY <1>3, <2>2
    <3>2. i \in 1 .. n /\ pwms[i].pin = q
      BY <1>6, <1>7, <1>9, <2>2
    <3>3. level[q] = (slice[q \div 2] * duty[q]) \div 100
      BY <1>1, <3>1, <3>2 DEF PulsesFit, n
    <3>. QED  BY <1>2, <2>2, <3>1, <3>3
  <2>. QED  BY <2>1, <2>2
<1>. QED  BY <1>10, <1>11

LEMMA SetFrequencyKeeps ==
    ASSUME PinInv, NEW p \in Pwms, NEW f \in Frequencies, SetFrequency(p, f)
    PROVE  PulseTypes' /\ PulsesFit'
<1>1. PulseTypes /\ PulsesFit /\ Valid(f) /\ Reconfigured(p, f)
  BY DEF PinInv, SetFrequency
<1>2. /\ DOMAIN slice' = DOMAIN slice /\ DOMAIN level' = Pwms
      /\ level'[p] = (slice'[p \div 2] * 50) \div 100
      /\ \A q \in Pwms : q # p /\ q \notin Neighbours(p) =>
            level'[q] = level[q] /\ slice'[q \div 2] = slice[q \div 2]
  BY <1>1, ReconfiguredIs
<1>3. /\ duty' = duty /\ DOMAIN duty = Pwms
      /\ upset' = upset \cup Neighbours(p) \cup (IF duty[p] = 50 THEN {} ELSE {p})
      /\ pwms' = [pwms EXCEPT ![PwmDevice(p)].wrap = WrapOf(f)]
  BY <1>1 DEF SetFrequency, PulseTypes
<1>4. /\ Listing(pwms, Len(pwms)) /\ DOMAIN pwms = 1 .. Len(pwms)
      /\ \A i \in 1 .. Len(pwms) : DOMAIN pwms[i] = {"pin", "wrap"}
  BY <1>1, ListingIsSeq DEF PulseTypes
<1>5. Listing(pwms', Len(pwms))
  BY <1>3, <1>4 DEF Listing
<1>6. Len(pwms') = Len(pwms)
  BY <1>5, ListingIsSeq
<1>7. \A i \in 1 .. Len(pwms) : DOMAIN pwms'[i] = {"pin", "wrap"} /\ pwms'[i].pin = pwms[i].pin
  BY <1>3, <1>4
<1>8. PulseTypes'
  BY <1>1, <1>2, <1>3, <1>5, <1>6, <1>7 DEF PulseTypes
<1>9. PulsesFit'
  <2>. SUFFICES ASSUME NEW q \in Pwms, q \notin upset', NEW i \in 1 .. Len(pwms), pwms'[i].pin = q
                PROVE  level'[q] = (slice'[q \div 2] * duty'[q]) \div 100
    BY <1>6 DEF PulsesFit
  <2>1. CASE q = p
    BY <1>2, <1>3, <2>1
  <2>2. CASE q # p
    <3>1. q \notin Neighbours(p) /\ q \notin upset
      BY <1>3
    <3>2. level[q] = (slice[q \div 2] * duty[q]) \div 100
      BY <1>1, <1>7, <3>1 DEF PulsesFit
    <3>. QED  BY <1>2, <1>3, <2>2, <3>1, <3>2
  <2>. QED  BY <2>1, <2>2
<1>. QED  BY <1>8, <1>9

LEMMA SetDutyKeeps ==
    ASSUME PinInv, NEW p \in Pwms, NEW d, SetDuty(p, d)
    PROVE  PulseTypes' /\ PulsesFit'
<1>1. /\ PulseTypes /\ PulsesFit
      /\ level' = [level EXCEPT ![p] = (pwms[PwmDevice(p)].wrap * d) \div 100]
      /\ duty' = [duty EXCEPT ![p] = d]
      /\ upset' = IF pwms[PwmDevice(p)].wrap = slice[p \div 2] THEN upset \ {p} ELSE upset \cup {p}
      /\ slice' = slice /\ pwms' = pwms
  BY DEF PinInv, SetDuty
<1>2. DOMAIN level = Pwms /\ DOMAIN duty = Pwms
  BY <1>1 DEF PulseTypes
<1>3. PulseTypes'
  BY <1>1, <1>2 DEF PulseTypes, Listing
<1>4. PulsesFit'
  <2>. SUFFICES ASSUME NEW q \in Pwms, q \notin upset', \E i \in 1 .. Len(pwms) : pwms[i].pin = q
                PROVE  level'[q] = (slice[q \div 2] * duty'[q]) \div 100
    BY <1>1 DEF PulsesFit
  <2>1. CASE q = p
    BY <1>1, <1>2, <2>1
  <2>2. CASE q # p
    <3>1. q \notin upset /\ level'[q] = level[q] /\ duty'[q] = duty[q]
      BY <1>1, <1>2, <2>2
    <3>. QED  BY <1>1, <3>1 DEF PulsesFit
  <2>. QED  BY <2>1, <2>2
<1>. QED  BY <1>3, <1>4

LEMMA PInitHolds == ASSUME PInit PROVE PinInv
<1>1. gpios = <<>> /\ pwms = <<>>
  BY DEF PInit
<1>2. Listing(gpios, 0) /\ Len(gpios) = 0 /\ Listing(pwms, 0) /\ Len(pwms) = 0
  BY <1>1 DEF Listing
<1>3. PinTypes
  BY <1>2 DEF PInit, PinTypes, Registers
<1>4. OwnersKnown /\ PinsObey /\ PulsesFit
  BY <1>2 DEF PInit, OwnersKnown, PinsObey, PulsesFit
<1>5. PulseTypes
  BY <1>2 DEF PInit, PulseTypes
<1>. QED  BY <1>3, <1>4, <1>5 DEF PinInv

LEMMA PNextKeeps == ASSUME PinInv, [PNext]_pvars PROVE PinInv'
<1>. USE DEF PinInv
<1>1. CASE UNCHANGED pvars
  BY <1>1 DEF pvars, PinTypes, OwnersKnown, PinsObey, Alone, PulseTypes, PulsesFit, Listing
<1>2. CASE \E g \in Gpios, config \in Configurations : OpenGPIO(g, config)
  <2>1. PICK g \in Gpios, config \in Configurations : OpenGPIO(g, config)
    BY <1>2
  <2>2. PinTypes' /\ OwnersKnown' /\ PinsObey'
    BY <2>1, OpenGPIOKeeps
  <2>3. PulseTypes' /\ PulsesFit'
    BY <2>1 DEF OpenGPIO, PulseTypes, PulsesFit, Listing
  <2>. QED  BY <2>2, <2>3
<1>3. CASE \E g \in Gpios, on \in BOOLEAN : SetGPIO(g, on)
  <2>1. PICK g \in Gpios, on \in BOOLEAN : SetGPIO(g, on)
    BY <1>3
  <2>2. PinTypes' /\ OwnersKnown' /\ PinsObey'
    BY <2>1, SetGPIOKeeps
  <2>3. PulseTypes' /\ PulsesFit'
    BY <2>1 DEF SetGPIO, PulseTypes, PulsesFit, Listing
  <2>. QED  BY <2>2, <2>3
<1>4. CASE \E p \in Pwms, f \in Frequencies : OpenPWM(p, f) \/ SetFrequency(p, f)
  <2>1. PICK p \in Pwms, f \in Frequencies : OpenPWM(p, f) \/ SetFrequency(p, f)
    BY <1>4
  <2>2. PulseTypes' /\ PulsesFit'
    BY <2>1, OpenPWMKeeps, SetFrequencyKeeps
  <2>3. UNCHANGED <<pin, gpios, gvars>>
    BY <2>1 DEF OpenPWM, SetFrequency
  <2>. QED  BY <2>2, <2>3 DEF PinTypes, OwnersKnown, PinsObey, Alone, Listing
<1>5. CASE \E p \in Pwms, d \in {0, 25, 100, 101} : SetDuty(p, d)
  <2>1. PICK p \in Pwms, d \in {0, 25, 100, 101} : SetDuty(p, d)
    BY <1>5
  <2>2. PulseTypes' /\ PulsesFit'
    BY <2>1, SetDutyKeeps
  <2>3. UNCHANGED <<pin, gpios, gvars>>
    BY <2>1 DEF SetDuty
  <2>. QED  BY <2>2, <2>3 DEF PinTypes, OwnersKnown, PinsObey, Alone, Listing
<1>. QED  BY <1>1, <1>2, <1>3, <1>4, <1>5 DEF PNext

LEMMA PinInvHolds == PSpec => []PinInv
BY PInitHolds, PNextKeeps, PTL DEF PSpec

\* A pin does to the wire what it is configured for, over any sequence of
\* opens and writes, and a pulse is as wide as its .duty variable says unless
\* the frequency of its slice was changed after it.
THEOREM PinsKeepTheirWord == PSpec => []PinsAsConfigured
<1>1. PinInv => PinsAsConfigured
  <2>. SUFFICES ASSUME PinInv PROVE PinsAsConfigured
    OBVIOUS
  <2>1. DOMAIN gpios = 1 .. Len(gpios) /\ DOMAIN pwms = 1 .. Len(pwms)
    BY ListingIsSeq DEF PinInv, PinTypes, PulseTypes
  <2>2. ASSUME NEW g \in Gpios, NEW i \in Opened(g), Opened(g) = {i}, pin[g].dir = "OUT"
        PROVE  /\ gpios[i].config \in {"OUTPUT_OPEN_DRAIN", "INPUT_PULLUP"} => ~pin[g].out
               /\ gpios[i].config \in {"OUTPUT_OPEN_SOURCE", "INPUT_PULLDOWN"} => pin[g].out
               /\ gpios[i].config # "INPUT"
    <3>1. i \in 1 .. Len(gpios) /\ Alone(g, i)
      BY <2>1, <2>2 DEF Opened, Alone
    <3>2. Obeys(pin[g], gpios[i].config)
      BY <3>1 DEF PinInv, PinsObey
    <3>. QED  BY <2>2, <3>2 DEF Obeys
  <2>3. ASSUME NEW p \in Pwms \ upset, IsOpen(p)
        PROVE  level[p] = (slice[p \div 2] * duty[p]) \div 100
    BY <2>1, <2>3 DEF PinInv, PulsesFit, IsOpen
  <2>. QED  BY <2>2, <2>3 DEF PinsAsConfigured
<1>. QED  BY <1>1, PinInvHolds, PTL

-----------------------------------------------------------------------------
(***************************************************************************)
(* The sensor's bytes.  Both folds of HLK go over a sequence from the left: *)
(* what they make of its first i elements is a sequence of steps.          *)
(***************************************************************************)
One(of, s, e) == IF of = "width" THEN s + Width(e.k)
                 ELSE IF of = "dump" THEN TakeBytes(s, e)
                 ELSE IF of = "visit" THEN VisitWord(s, e)
                 ELSE IF of = "pass" THEN PassWord(s, e) ELSE Take(s, e)
FoldStep(of, seq, base, at, K) ==
    IF K = {} THEN base ELSE One(of, at[K \ {Max(K)}], seq[Max(K)])
IsFold(of, seq, base, D, at) == at = [K \in SUBSET D |-> FoldStep(of, seq, base, at, K)]

LEMMA Largest ==
    ASSUME NEW n \in Nat, NEW K \in SUBSET (1 .. n), K # {}
    PROVE  Max(K) \in K /\ \A m \in K : m <= Max(K)
<1>. DEFINE T == {n - k : k \in K}
<1>1. T \subseteq Nat /\ T # {}
  <2>1. \A k \in K : n - k \in Nat
    OBVIOUS
  <2>. QED  BY <2>1
<1>2. Min(T) \in T /\ \A m \in T : Min(T) <= m
  BY <1>1, Smallest
<1>3. PICK k \in K : Min(T) = n - k
  BY <1>2
<1>4. \A m \in K : n - m \in T
  OBVIOUS
<1>5. PICK l \in Nat : l = Min(T)
  BY <1>1, <1>2
<1>. HIDE DEF T
<1>6. \A m \in K : m <= k
  BY <1>2, <1>3, <1>4, <1>5
<1>7. \E x \in K : \A y \in K : x >= y
  BY <1>6
<1>. QED  BY <1>7 DEF Max

LEMMA FoldExists ==
    ASSUME NEW of, NEW seq, NEW base, NEW n \in Nat
    PROVE  \E at : IsFold(of, seq, base, 1 .. n, at)
<1>. DEFINE Upto(i, at) == \A K \in SUBSET (1 .. n) :
                              Cardinality(K) <= i => at[K] = FoldStep(of, seq, base, at, K)
            T == {i \in Nat : ~ \E at : Upto(i, at)}
<1>1. \A K \in SUBSET (1 .. n) : IsFiniteSet(K) /\ Cardinality(K) \in Nat
  <2>1. IsFiniteSet(1 .. n)
    BY FS_Interval
  <2>. QED  BY <2>1, FS_Subset, FS_CardinalityType
<1>2. ASSUME NEW K \in SUBSET (1 .. n), K # {}
      PROVE  K \ {Max(K)} \in SUBSET (1 .. n) /\ Cardinality(K \ {Max(K)}) = Cardinality(K) - 1
  BY <1>1, <1>2, Largest, FS_RemoveElement
<1>3. T = {}
  <2>. SUFFICES ASSUME T # {} PROVE FALSE
    OBVIOUS
  <2>1. PICK k \in Nat : k \in T /\ \A m \in T : k <= m
    BY Smallest
  <2>2. k # 0
    <3>1. PICK f : f = [K \in SUBSET (1 .. n) |-> base]
      OBVIOUS
    <3>2. ASSUME NEW K \in SUBSET (1 .. n), Cardinality(K) <= 0
          PROVE  f[K] = FoldStep(of, seq, base, f, K)
      <4>1. IsFiniteSet(K) /\ Cardinality(K) = 0
        BY <1>1, <3>2
      <4>2. K = {}
        BY <4>1, FS_EmptySet, Zenon
      <4>. QED  BY <3>1, <4>2 DEF FoldStep
    <3>3. Upto(0, f)
      BY <3>2
    <3>. QED  BY <2>1, <3>3
  <2>3. PICK j \in Nat : j = k - 1 /\ j \notin T
    <3>. HIDE DEF T
    <3>1. k - 1 \in Nat /\ ~ (k <= k - 1)
      BY <2>2
    <3>. QED  BY <2>1, <3>1
  <2>4. PICK f : Upto(j, f)
    BY <2>3
  <2>5. PICK g : g = [K \in SUBSET (1 .. n) |->
                        IF Cardinality(K) = k THEN FoldStep(of, seq, base, f, K) ELSE f[K]]
    OBVIOUS
  <2>6. ASSUME NEW K \in SUBSET (1 .. n), Cardinality(K) <= k
        PROVE  g[K] = FoldStep(of, seq, base, g, K)
    <3>1. k \in Nat /\ Cardinality(K) \in Nat
      BY <1>1
    <3>2. FoldStep(of, seq, base, g, K) = FoldStep(of, seq, base, f, K)
      <4>1. CASE K = {}
        BY <4>1 DEF FoldStep
      <4>2. CASE K # {}
        <5>1. PICK L \in SUBSET (1 .. n) : L = K \ {Max(K)} /\ Cardinality(L) = Cardinality(K) - 1
          BY <1>2, <4>2
        <5>2. Cardinality(L) # k
          BY <2>6, <3>1, <5>1
        <5>3. g[L] = f[L]
          BY <2>5, <5>2
        <5>. QED  BY <4>2, <5>1, <5>3 DEF FoldStep
      <4>. QED  BY <4>1, <4>2
    <3>3. CASE Cardinality(K) = k
      BY <2>5, <3>2, <3>3
    <3>4. CASE Cardinality(K) # k
      <4>1. Cardinality(K) <= j
        BY <2>3, <2>6, <3>1, <3>4
      <4>. QED  BY <2>4, <2>5, <3>2, <3>4, <4>1
    <3>. QED  BY <3>3, <3>4
  <2>7. Upto(k, g)
    BY <2>6
  <2>. QED  BY <2>1, <2>7
<1>4. Cardinality(1 .. n) \in Nat /\ \A K \in SUBSET (1 .. n) : Cardinality(K) <= Cardinality(1 .. n)
  <2>1. IsFiniteSet(1 .. n) /\ 1 .. n \in SUBSET (1 .. n)
    BY FS_Interval
  <2>. QED  BY <1>1, <2>1, FS_Subset
<1>5. PICK f : Upto(Cardinality(1 .. n), f)
  BY <1>3, <1>4
<1>6. \A K \in SUBSET (1 .. n) : f[K] = FoldStep(of, seq, base, f, K)
  BY <1>4, <1>5
<1>7. PICK at : at = [K \in SUBSET (1 .. n) |-> f[K]]
  OBVIOUS
<1>8. ASSUME NEW K \in SUBSET (1 .. n)
      PROVE  at[K] = FoldStep(of, seq, base, at, K)
  <2>1. K \ {Max(K)} \in SUBSET (1 .. n)
    OBVIOUS
  <2>2. at[K \ {Max(K)}] = f[K \ {Max(K)}]
    BY <1>7, <2>1
  <2>3. FoldStep(of, seq, base, at, K) = FoldStep(of, seq, base, f, K)
    BY <2>2 DEF FoldStep
  <2>. QED  BY <1>6, <1>7, <2>3
<1>9. at = [K \in SUBSET (1 .. n) |-> FoldStep(of, seq, base, at, K)]
  BY <1>7, <1>8
<1>. QED  BY <1>9 DEF IsFold

\* steps[i] is what a fold has made of the first i elements
Steps(of, seq, base, n, steps) ==
    steps[0] = base /\ \A i \in 1 .. n : steps[i] = One(of, steps[i - 1], seq[i])

LEMMA FoldSteps ==
    ASSUME NEW of, NEW seq, NEW base, NEW n \in Nat, NEW at, IsFold(of, seq, base, 1 .. n, at)
    PROVE  \E steps : Steps(of, seq, base, n, steps) /\ steps[n] = at[1 .. n]
<1>1. PICK steps : steps = [i \in 0 .. n |-> at[1 .. i]]
  OBVIOUS
<1>2. at[1 .. 0] = base
  <2>1. 1 .. 0 = {} /\ {} \in SUBSET (1 .. n)
    OBVIOUS
  <2>. QED  BY <2>1 DEF IsFold, FoldStep
<1>3. ASSUME NEW i \in 1 .. n
      PROVE  at[1 .. i] = One(of, at[1 .. i - 1], seq[i])
  <2>1. 1 .. i \in SUBSET (1 .. n) /\ 1 .. i # {} /\ i \in 1 .. i
    OBVIOUS
  <2>2. Max(1 .. i) \in 1 .. i /\ \A m \in 1 .. i : m <= Max(1 .. i)
    BY <2>1, Largest
  <2>3. Max(1 .. i) = i
    BY <2>1, <2>2
  <2>4. (1 .. i) \ {i} = 1 .. i - 1
    OBVIOUS
  <2>5. at[1 .. i] = FoldStep(of, seq, base, at, 1 .. i)
    BY <2>1 DEF IsFold
  <2>. QED  BY <2>1, <2>3, <2>4, <2>5 DEF FoldStep
<1>4. n \in 0 .. n /\ 0 \in 0 .. n /\ \A i \in 1 .. n : i \in 0 .. n /\ i - 1 \in 0 .. n
  OBVIOUS
<1>5. Steps(of, seq, base, n, steps) /\ steps[n] = at[1 .. n]
  BY <1>1, <1>2, <1>3, <1>4 DEF Steps
<1>. QED  BY <1>5

LEMMA TakeSteps ==
    ASSUME NEW seq, NEW base, NEW n \in Nat, DOMAIN seq = 1 .. n
    PROVE  \E steps : Steps("take", seq, base, n, steps) /\ steps[n] = FoldLeft(Take, base, seq)
<1>1. PICK at : at = CHOOSE g : IsFold("take", seq, base, DOMAIN seq, g)
  OBVIOUS
<1>2. IsFold("take", seq, base, 1 .. n, at)
  BY <1>1, FoldExists
<1>3. FoldLeft(Take, base, seq) = (CHOOSE g : IsFold("take", seq, base, DOMAIN seq, g))[DOMAIN seq]
  BY DEF FoldLeft, MapThenFoldSet, IsFold, FoldStep, One
<1>4. \E steps : Steps("take", seq, base, n, steps) /\ steps[n] = at[1 .. n]
  BY <1>2, FoldSteps
<1>5. FoldLeft(Take, base, seq) = at[1 .. n]
  BY <1>1, <1>3
<1>. QED  BY <1>4, <1>5

LEMMA WidthSteps ==
    ASSUME NEW bytes, NEW n \in Nat, DOMAIN bytes = 1 .. n
    PROVE  \E steps : Steps("width", bytes, 0, n, steps) /\ steps[n] = ByteCount(bytes)
<1>1. PICK at : at = CHOOSE g : IsFold("width", bytes, 0, DOMAIN bytes, g)
  OBVIOUS
<1>2. IsFold("width", bytes, 0, 1 .. n, at)
  BY <1>1, FoldExists
<1>3. ByteCount(bytes) = (CHOOSE g : IsFold("width", bytes, 0, DOMAIN bytes, g))[DOMAIN bytes]
  BY DEF ByteCount, FoldLeft, MapThenFoldSet, IsFold, FoldStep, One
<1>4. \E steps : Steps("width", bytes, 0, n, steps) /\ steps[n] = at[1 .. n]
  BY <1>2, FoldSteps
<1>5. ByteCount(bytes) = at[1 .. n]
  BY <1>1, <1>3
<1>. QED  BY <1>4, <1>5

\* what a byte may be, and that bytes are of the frames F and follow one another
Kinds == {g[i] : g \in Frames, i \in 1 .. 5}
AnyByte == [k : Kinds, f : Nat, i : 1 .. 5]
OfFrames(b, F) == b.f \in DOMAIN F /\ b.k = F[b.f][b.i]
Follows(b, c) == IF b.i < 5 THEN c.f = b.f /\ c.i = b.i + 1 ELSE c.i = 1

\* every byte of bytes is the next of one frame that has not ended yet
Begun(bytes, F) ==
    /\ Len(bytes) \in 1 .. 4
    /\ \A j \in 1 .. Len(bytes) : /\ OfFrames(bytes[j], F) /\ bytes[j].f = bytes[1].f
                                  /\ bytes[j].i = bytes[1].i + j - 1 /\ bytes[j].i < 5

States == {Start, "Minimal"} \cup LongTypes
HeadOf(s) == IF s = "Minimal" THEN MinimalFrameHead ELSE FrameHead[s]
Searching(s, bytes, F) == s # Start => Begun(bytes, F) /\ bytes[1].k = HeadOf(s)

Whole(bytes) == \A i \in DOMAIN bytes : bytes[i].i = i /\ bytes[i].f = bytes[1].f

Pending(F) ==
    /\ \A j \in 1 .. Len(pending) : OfFrames(pending[j], F)
    /\ \A j \in 1 .. Len(pending) - 1 : Follows(pending[j], pending[j + 1])
    /\ Len(pending) > 0 => pending[Len(pending)].i = 5

\* bytes were begun and pending[m] is the next one
Continued(s, bytes, m) ==
    s # Start => m <= Len(pending) /\ Follows(bytes[Len(bytes)], pending[m])

LEMMA FrameIs ==
    ASSUME NEW g \in Frames
    PROVE  /\ Len(g) = 5 /\ DOMAIN g = 1 .. 5
           /\ g[5] \in {MinimalFrameTail, FrameTail["Standart"], FrameTail["Command"]}
           /\ \A i \in 1 .. 5 :
                 /\ g[i] \in Kinds
                 /\ g[i] = MinimalFrameHead => i < 5 /\ (i = 4 \/ g[5] = MinimalFrameTail)
                 /\ \A type \in LongTypes : g[i] = FrameHead[type] => i = 1 /\ g[5] = FrameTail[type]
<1>1. \A i \in 1 .. 5 : g[i] \in Kinds
  BY DEF Kinds
<1>2. CASE \E lo \in Payload, hi \in Payload : g = <<MinimalFrameHead, "x", lo, hi, MinimalFrameTail>>
  <2>1. PICK lo \in Payload, hi \in Payload : g = <<MinimalFrameHead, "x", lo, hi, MinimalFrameTail>>
    BY <1>2
  <2>2. lo \in {"x", "6E", "62"} /\ hi \in {"x", "6E", "62"}
    BY DEF Payload, MinimalFrameHead, MinimalFrameTail
  <2>3. /\ Len(g) = 5 /\ DOMAIN g = 1 .. 5
        /\ g[1] = "6E" /\ g[2] = "x" /\ g[3] = lo /\ g[4] = hi /\ g[5] = "62"
    BY <2>1 DEF MinimalFrameHead, MinimalFrameTail
  <2>4. \A type \in LongTypes : FrameHead[type] \notin {"x", "6E", "62"}
    BY DEF LongTypes, FrameHead
  <2>. QED  BY <1>1, <2>2, <2>3, <2>4 DEF MinimalFrameHead, MinimalFrameTail
<1>3. CASE \E type \in LongTypes, data \in {"x", MinimalFrameHead} :
             g = <<FrameHead[type], "1", "x", data, FrameTail[type]>>
  <2>1. PICK type \in LongTypes, data \in {"x", MinimalFrameHead} :
               g = <<FrameHead[type], "1", "x", data, FrameTail[type]>>
    BY <1>3
  <2>2. data \in {"x", "6E"}
    BY DEF MinimalFrameHead
  <2>3. /\ Len(g) = 5 /\ DOMAIN g = 1 .. 5
        /\ g[1] = FrameHead[type] /\ g[2] = "1" /\ g[3] = "x" /\ g[4] = data /\ g[5] = FrameTail[type]
    BY <2>1
  <2>4. \A t \in LongTypes :
          /\ FrameHead[t] \notin {"x", "6E", "1"} /\ FrameTail[t] \notin {"x", "6E", "1"}
          /\ \A u \in LongTypes : FrameHead[t] # FrameTail[u] /\ (FrameHead[t] = FrameHead[u] => t = u)
    BY DEF LongTypes, FrameHead, FrameTail
  <2>5. type = "Standart" \/ type = "Command"
    BY DEF LongTypes
  <2>. QED  BY <1>1, <2>2, <2>3, <2>4, <2>5 DEF MinimalFrameHead, MinimalFrameTail
<1>. QED  BY <1>2, <1>3 DEF Frames

\* a long frame's last byte but one and its tail are five bytes wide
LEMMA TwoBytes ==
    ASSUME NEW bytes \in Seq(AnyByte), Len(bytes) = 2,
           bytes[1].k = MinimalFrameHead,
           bytes[2].k \in {FrameTail["Standart"], FrameTail["Command"]}
    PROVE  ByteCount(bytes) >= 5
<1>1. DOMAIN bytes = 1 .. 2
  BY LenProperties
<1>2. PICK steps : Steps("width", bytes, 0, 2, steps) /\ steps[2] = ByteCount(bytes)
  BY <1>1, WidthSteps
<1>3. Width(bytes[1].k) = 1
  BY DEF Width, MinimalFrameHead, FrameHead, FrameTail, LongTypes
<1>4. Width(bytes[2].k) = 4
  BY DEF Width, FrameTail, LongTypes
<1>5. steps[0] = 0 /\ steps[1] = steps[0] + Width(bytes[1].k) /\ steps[2] = steps[1] + Width(bytes[2].k)
  BY <1>2 DEF Steps, One
<1>. QED  BY <1>2, <1>3, <1>4, <1>5

LEMMA FrameEnds ==
    ASSUME NEW F, NEW s \in {"Minimal"} \cup LongTypes, NEW bytes \in Seq(AnyByte), NEW byte \in AnyByte,
           \A f \in DOMAIN F : F[f] \in Frames,
           Begun(bytes, F), bytes[1].k = HeadOf(s), OfFrames(byte, F),
           Follows(bytes[Len(bytes)], byte), byte.i = 5
    PROVE  Ends(s, Append(bytes, byte))
<1>1. PICK n \in 1 .. 4 : n = Len(bytes)
  BY DEF Begun
<1>2. /\ bytes[n].f = bytes[1].f /\ bytes[n].i = bytes[1].i + n - 1 /\ bytes[n].i < 5
      /\ OfFrames(bytes[1], F) /\ bytes[1] \in AnyByte
  BY <1>1, ElementOfSeq DEF Begun
<1>3. byte.f = bytes[1].f /\ byte.i = bytes[n].i + 1
  BY <1>1, <1>2 DEF Follows
<1>4. PICK more : more = Append(bytes, byte)
  OBVIOUS
<1>5. /\ more \in Seq(AnyByte) /\ Len(more) = n + 1 /\ more[n + 1] = byte /\ more[1] = bytes[1]
  BY <1>1, <1>4, AppendProperties
<1>6. Last(more) = byte
  BY <1>5 DEF Last
<1>7. PICK g \in Frames : g = F[byte.f]
  BY DEF OfFrames
<1>8. PICK i \in 1 .. 5 : i = bytes[1].i
  BY <1>2 DEF AnyByte
<1>9. byte.k = g[5] /\ bytes[1].k = g[i] /\ i + n = 5
  BY <1>2, <1>3, <1>7, <1>8 DEF OfFrames
<1>10. CASE s = "Minimal"
  <2>0. ByteCount(more) >= 5 \/ Last(more).k = MinimalFrameTail => Ends(s, more)
    BY <1>10 DEF Ends, LongTypes
  <2>1. g[i] = MinimalFrameHead
    BY <1>9, <1>10 DEF HeadOf
  <2>2. i = 4 \/ g[5] = MinimalFrameTail
    BY <2>1, FrameIs
  <2>3. CASE g[5] = MinimalFrameTail
    BY <1>4, <1>6, <1>9, <2>0, <2>3
  <2>4. CASE g[5] # MinimalFrameTail
    <3>1. n = 1 /\ g[5] \in {FrameTail["Standart"], FrameTail["Command"]}
      BY <1>9, <2>2, <2>4, FrameIs
    <3>2. ByteCount(more) >= 5
      BY <1>5, <1>9, <2>1, <3>1, TwoBytes
    <3>. QED  BY <1>4, <2>0, <3>2
  <2>. QED  BY <2>3, <2>4
<1>11. CASE s \in LongTypes
  <2>1. s # "Minimal"
    BY <1>11 DEF LongTypes
  <2>2. g[i] = FrameHead[s]
    BY <1>9, <2>1 DEF HeadOf
  <2>3. g[5] = FrameTail[s]
    BY <1>11, <2>2, FrameIs
  <2>. QED  BY <1>4, <1>6, <1>9, <1>11, <2>1, <2>3 DEF Ends
<1>. QED  BY <1>10, <1>11

\* a search goes on, or has ended and looks at nothing more
Going(st, buf, fnd) == [state |-> st, buffer |-> buf, done |-> FALSE, found |-> fnd]
Over(buf, fnd)      == [state |-> Start, buffer |-> buf, done |-> TRUE, found |-> fnd]

\* s is a search after m of the bytes pending
Sound(s, F, m) ==
    \E st \in States, buf \in Seq(AnyByte), fnd \in Seq(AnyByte) :
       /\ s = Going(st, buf, fnd) \/ (s = Over(buf, fnd) /\ st = Start)
       /\ Searching(st, buf, F) /\ Continued(st, buf, m + 1) /\ Whole(fnd)

LEMMA TakeOver ==
    ASSUME NEW buf, NEW fnd, NEW byte
    PROVE  Take(Over(buf, fnd), byte) = Over(buf, fnd)
<1>1. Over(buf, fnd).done
  BY DEF Over
<1>. QED  BY <1>1 DEF Take

LEMMA TakeFirst ==
    ASSUME NEW buf, NEW fnd, NEW byte
    PROVE  \/ Take(Going(Start, buf, fnd), byte) = Going(Start, buf, fnd)
           \/ \E b \in States \ {Start} :
                 Take(Going(Start, buf, fnd), byte) = Going(b, <<byte>>, fnd) /\ byte.k = HeadOf(b)
<1>1. PICK s : s = Going(Start, buf, fnd)
  OBVIOUS
<1>2. s.state = Start /\ s.buffer = buf /\ s.done = FALSE /\ s.found = fnd
  BY <1>1 DEF Going
<1>3. PICK b : b = CASE byte.k = MinimalFrameHead -> "Minimal"
                     [] finder = "full" /\ byte.k = FrameHead["Standart"] -> "Standart"
                     [] finder = "full" /\ byte.k = FrameHead["Command"] -> "Command"
                     [] OTHER -> Start
  OBVIOUS
<1>4. Take(s, byte) = [s EXCEPT !.state = b, !.buffer = IF b = Start THEN @ ELSE <<byte>>]
  BY <1>2, <1>3 DEF Take
<1>5. Take(s, byte) = Going(b, IF b = Start THEN buf ELSE <<byte>>, fnd)
  BY <1>1, <1>2, <1>4 DEF Going
<1>6. b \in States /\ (b # Start => byte.k = HeadOf(b))
  BY <1>3 DEF States, Start, LongTypes, HeadOf, MinimalFrameHead, FrameHead
<1>. QED  BY <1>1, <1>5, <1>6

LEMMA GoingOn ==
    ASSUME NEW st, NEW buf, NEW fnd, NEW more
    PROVE  [Going(st, buf, fnd) EXCEPT !.buffer = more] = Going(st, more, fnd)
<1>1. PICK no : no = FALSE
  OBVIOUS
<1>2. PICK s : s = [state |-> st, buffer |-> buf, done |-> no, found |-> fnd]
  OBVIOUS
<1>3. [s EXCEPT !.buffer = more] = [state |-> st, buffer |-> more, done |-> no, found |-> fnd]
  BY <1>2
<1>. QED  BY <1>1, <1>2, <1>3 DEF Going

LEMMA TakeMore ==
    ASSUME NEW st, st # Start, NEW buf, NEW fnd, NEW byte
    PROVE  Take(Going(st, buf, fnd), byte)
              = IF Ends(st, Append(buf, byte))
                THEN Over(Append(buf, byte), Deserialized(Append(buf, byte)))
                ELSE Going(st, Append(buf, byte), fnd)
<1>1. PICK s : s = Going(st, buf, fnd)
  OBVIOUS
<1>2. s.state = st /\ s.buffer = buf /\ s.done = FALSE /\ s.found = fnd
  BY <1>1 DEF Going
<1>3. ASSUME ~Ends(st, Append(buf, byte))
      PROVE  Take(s, byte) = Going(st, Append(buf, byte), fnd)
  <2>1. Take(s, byte) = [s EXCEPT !.buffer = Append(buf, byte)]
    BY <1>2, <1>3 DEF Take
  <2>2. PICK more : more = Append(buf, byte)
    OBVIOUS
  <2>3. Take(s, byte) = [s EXCEPT !.buffer = more]
    BY <2>1, <2>2
  <2>4. [s EXCEPT !.buffer = more] = Going(st, more, fnd)
    BY <1>1, GoingOn
  <2>. QED  BY <2>2, <2>3, <2>4
<1>4. ASSUME Ends(st, Append(buf, byte))
      PROVE  Take(s, byte) = Over(Append(buf, byte), Deserialized(Append(buf, byte)))
  BY <1>2, <1>4 DEF Take, Over
<1>. QED  BY <1>1, <1>3, <1>4

\* a frame that was begun goes on with the byte that follows
LEMMA MoreIs ==
    ASSUME NEW F, NEW bytes \in Seq(AnyByte), NEW byte \in AnyByte,
           Begun(bytes, F), OfFrames(byte, F), Follows(bytes[Len(bytes)], byte)
    PROVE  LET more == Append(bytes, byte)
           IN  /\ more \in Seq(AnyByte) /\ Len(more) = Len(bytes) + 1 /\ Len(bytes) \in 1 .. 4
               /\ more[Len(more)] = byte /\ more[1] = bytes[1]
               /\ \A j \in 1 .. Len(more) : /\ OfFrames(more[j], F) /\ more[j].f = more[1].f
                                            /\ more[j].i = more[1].i + j - 1
               /\ \A j \in 1 .. Len(bytes) : more[j].i < 5
<1>1. PICK n \in 1 .. 4 : n = Len(bytes)
  BY DEF Begun
<1>2. PICK more : more = Append(bytes, byte)
  OBVIOUS
<1>3. /\ more \in Seq(AnyByte) /\ Len(more) = n + 1 /\ more[n + 1] = byte
      /\ \A j \in 1 .. n : more[j] = bytes[j]
  BY <1>1, <1>2, AppendProperties
<1>4. \A j \in 1 .. n : /\ OfFrames(bytes[j], F) /\ bytes[j].f = bytes[1].f
                        /\ bytes[j].i = bytes[1].i + j - 1 /\ bytes[j].i < 5
  BY <1>1 DEF Begun
<1>5. bytes[1].i \in Nat /\ bytes[n].i \in Nat
  <2>1. bytes[1] \in AnyByte /\ bytes[n] \in AnyByte
    BY <1>1, ElementOfSeq
  <2>. QED  BY <2>1 DEF AnyByte
<1>6. byte.f = bytes[1].f /\ byte.i = bytes[1].i + n
  <2>1. n \in 1 .. n
    OBVIOUS
  <2>2. bytes[n].f = bytes[1].f /\ bytes[n].i = bytes[1].i + n - 1 /\ bytes[n].i < 5
    BY <1>4, <2>1
  <2>3. byte.f = bytes[n].f /\ byte.i = bytes[n].i + 1
    BY <1>1, <2>2 DEF Follows
  <2>. QED  BY <1>5, <2>2, <2>3
<1>7. ASSUME NEW j \in 1 .. n + 1
      PROVE  OfFrames(more[j], F) /\ more[j].f = more[1].f /\ more[j].i = more[1].i + j - 1
  <2>1. more[1] = bytes[1]
    BY <1>3
  <2>2. CASE j \in 1 .. n
    BY <1>3, <1>4, <2>1, <2>2
  <2>3. CASE j = n + 1
    BY <1>3, <1>5, <1>6, <2>1, <2>3
  <2>. QED  BY <2>2, <2>3
<1>8. \A j \in 1 .. n : more[j].i < 5
  BY <1>3, <1>4
<1>9. more[1] = bytes[1] /\ Len(more) = n + 1
  BY <1>3
<1>. QED  BY <1>1, <1>2, <1>3, <1>7, <1>8, <1>9

LEMMA DeserializedIs ==
    ASSUME NEW F, NEW bytes \in Seq(AnyByte), NEW byte \in AnyByte,
           Begun(bytes, F), OfFrames(byte, F), Follows(bytes[Len(bytes)], byte)
    PROVE  LET found == Deserialized(Append(bytes, byte))
           IN  found \in Seq(AnyByte) /\ Whole(found)
<1>1. PICK more : more = Append(bytes, byte)
  OBVIOUS
<1>2. /\ more \in Seq(AnyByte) /\ Len(more) = Len(bytes) + 1 /\ Len(bytes) \in 1 .. 4
      /\ \A j \in 1 .. Len(more) : more[j].f = more[1].f /\ more[j].i = more[1].i + j - 1
      /\ \A j \in 1 .. Len(bytes) : more[j].i < 5
  BY <1>1, MoreIs
<1>3. CASE Deserialized(more) = <<>>
  <2>1. <<>> \in Seq(AnyByte) /\ Whole(<<>>)
    BY DEF Whole
  <2>. QED  BY <1>1, <1>3, <2>1
<1>4. CASE Deserialized(more) # <<>>
  <2>1. Len(more) >= 5 /\ Deserialized(more) = SubSeq(more, 1, 5)
    BY <1>4 DEF Deserialized
  <2>2. Len(more) = 5 /\ Len(bytes) = 4
    <3>1. PICK n \in 1 .. 4 : n = Len(bytes) /\ Len(more) = n + 1
      BY <1>2
    <3>. QED  BY <2>1, <3>1
  <2>3. more[1] \in AnyByte /\ more[4].i < 5 /\ more[4].i = more[1].i + 4 - 1
    <3>1. more \in Seq(AnyByte) /\ 1 \in 1 .. Len(more) /\ 4 \in 1 .. Len(more) /\ 4 \in 1 .. Len(bytes)
      BY <1>2, <2>2
    <3>2. more[1] \in AnyByte
      BY <3>1, ElementOfSeq
    <3>. QED  BY <1>2, <3>1, <3>2
  <2>4. more[1].i = 1
    BY <2>3 DEF AnyByte
  <2>5. PICK found : found = SubSeq(more, 1, 5)
    OBVIOUS
  <2>6. found \in Seq(AnyByte) /\ Len(found) = 5 /\ \A j \in 1 .. 5 : found[j] = more[j]
    <3>1. more \in Seq(AnyByte)
      BY <1>2
    <3>2. 1 \in 1 .. Len(more) + 1 /\ 5 \in 1 - 1 .. Len(more)
      BY <2>2
    <3>3. found \in Seq(AnyByte) /\ Len(found) = 5 - 1 + 1 /\ \A j \in 1 .. 5 - 1 + 1 : found[j] = more[1 + j - 1]
      BY <2>5, <3>1, <3>2, SubSeqProperties
    <3>. QED  BY <3>3
  <2>7. DOMAIN found = 1 .. 5
    BY <2>6, LenProperties
  <2>8. \A j \in 1 .. 5 : found[j].i = j /\ found[j].f = found[1].f
    BY <1>2, <2>2, <2>4, <2>6
  <2>9. Whole(found)
    BY <2>7, <2>8 DEF Whole
  <2>. QED  BY <1>1, <2>1, <2>5, <2>6, <2>9
<1>. QED  BY <1>3, <1>4

LEMMA TakeKeeps ==
    ASSUME NEW F, \A f \in DOMAIN F : F[f] \in Frames, Pending(F), pending \in Seq(AnyByte),
           NEW m \in Nat, m < Len(pending), NEW s, Sound(s, F, m)
    PROVE  Sound(Take(s, pending[m + 1]), F, m + 1)
<1>1. PICK byte : byte = pending[m + 1]
  OBVIOUS
<1>2. PICK st \in States, buf \in Seq(AnyByte), fnd \in Seq(AnyByte) :
        /\ s = Going(st, buf, fnd) \/ (s = Over(buf, fnd) /\ st = Start)
        /\ Searching(st, buf, F) /\ Continued(st, buf, m + 1) /\ Whole(fnd)
  BY DEF Sound
<1>4. /\ byte \in AnyByte /\ OfFrames(byte, F)
      /\ m + 1 < Len(pending) => Follows(byte, pending[m + 2])
      /\ m + 1 = Len(pending) => byte.i = 5
  <2>1. m + 1 \in 1 .. Len(pending) /\ Len(pending) \in Nat
    BY LenProperties
  <2>2. m + 1 < Len(pending) => m + 1 \in 1 .. Len(pending) - 1 /\ (m + 1) + 1 = m + 2
    BY <2>1
  <2>. QED  BY <1>1, <2>1, <2>2, ElementOfSeq DEF Pending
<1>5. byte.i < 5 => \A bytes : bytes[Len(bytes)] = byte =>
                       m + 2 <= Len(pending) /\ Follows(bytes[Len(bytes)], pending[m + 2])
  <2>1. m + 1 < Len(pending) \/ m + 1 = Len(pending)
    BY LenProperties
  <2>. QED  BY <1>4, <2>1, LenProperties
<1>6. \A b, bytes : Continued(Start, bytes, b)
  BY DEF Continued
<1>7. \A bytes : Searching(Start, bytes, F)
  BY DEF Searching
<1>8. (m + 1) + 1 = m + 2 /\ Start \in States
  BY DEF States
<1>9. CASE s = Over(buf, fnd) /\ st = Start
  <2>1. Take(s, byte) = Over(buf, fnd)
    BY <1>9, TakeOver
  <2>2. Sound(Over(buf, fnd), F, m + 1)
    BY <1>2, <1>6, <1>7, <1>9 DEF Sound
  <2>. QED  BY <1>1, <2>1, <2>2
<1>10. CASE s = Going(st, buf, fnd) /\ st = Start
  <2>1. CASE Take(s, byte) = Going(Start, buf, fnd)
    <3>1. Sound(Going(Start, buf, fnd), F, m + 1)
      BY <1>2, <1>6, <1>7, <1>8 DEF Sound
    <3>. QED  BY <1>1, <2>1, <3>1
  <2>2. ASSUME NEW b \in States \ {Start},
               Take(s, byte) = Going(b, <<byte>>, fnd), byte.k = HeadOf(b)
        PROVE  Sound(Take(s, pending[m + 1]), F, m + 1)
    <3>1. byte.i < 5
      <4>1. PICK g \in Frames, i \in 1 .. 5 : i = byte.i /\ byte.k = g[i]
        BY <1>4 DEF OfFrames, AnyByte
      <4>2. g[i] = HeadOf(b)
        BY <2>2, <4>1
      <4>3. b = "Minimal" \/ (b \in LongTypes /\ b # "Minimal")
        BY DEF States, LongTypes
      <4>. QED  BY <4>1, <4>2, <4>3, FrameIs DEF HeadOf
    <3>2. PICK bytes \in Seq(AnyByte) : /\ bytes = <<byte>>
                                        /\ Len(bytes) = 1 /\ bytes[1] = byte
      <4>1. <<byte>> \in Seq(AnyByte) /\ Len(<<byte>>) = 1 /\ <<byte>>[1] = byte
        BY <1>4
      <4>. QED  BY <4>1
    <3>3. Begun(bytes, F)
      <4>1. byte.i = byte.i + 1 - 1
        BY <1>4 DEF AnyByte
      <4>2. \A j \in 1 .. Len(bytes) : j = 1
        BY <3>2
      <4>. QED  BY <1>4, <3>1, <3>2, <4>1, <4>2 DEF Begun
    <3>4. Searching(b, bytes, F)
      BY <2>2, <3>2, <3>3 DEF Searching
    <3>5. Continued(b, bytes, (m + 1) + 1)
      BY <1>5, <1>8, <3>1, <3>2 DEF Continued
    <3>6. Sound(Going(b, bytes, fnd), F, m + 1)
      BY <1>2, <3>4, <3>5 DEF Sound
    <3>. QED  BY <1>1, <2>2, <3>2, <3>6
  <2>. QED  BY <1>10, <2>1, <2>2, TakeFirst
<1>11. CASE s = Going(st, buf, fnd) /\ st # Start
  <2>1. /\ Begun(buf, F) /\ buf[1].k = HeadOf(st) /\ Follows(buf[Len(buf)], byte)
        /\ st \in {"Minimal"} \cup LongTypes
        /\ buf \in Seq(AnyByte) /\ byte \in AnyByte /\ OfFrames(byte, F)
    BY <1>1, <1>2, <1>4, <1>11 DEF Searching, Continued, States
  <2>2. PICK more : more = Append(buf, byte)
    OBVIOUS
  <2>3. /\ more \in Seq(AnyByte) /\ Len(more) = Len(buf) + 1 /\ Len(buf) \in 1 .. 4
        /\ more[Len(more)] = byte /\ more[1] = buf[1]
        /\ \A j \in 1 .. Len(more) : /\ OfFrames(more[j], F) /\ more[j].f = more[1].f
                                     /\ more[j].i = more[1].i + j - 1
        /\ \A j \in 1 .. Len(buf) : more[j].i < 5
    BY <2>1, <2>2, MoreIs
  <2>4. Take(Going(st, buf, fnd), byte)
           = IF Ends(st, more) THEN Over(more, Deserialized(more)) ELSE Going(st, more, fnd)
    <3>1. st # Start
      BY <1>11
    <3>2. Take(Going(st, buf, fnd), byte)
             = IF Ends(st, Append(buf, byte))
               THEN Over(Append(buf, byte), Deserialized(Append(buf, byte)))
               ELSE Going(st, Append(buf, byte), fnd)
      BY <3>1, TakeMore
    <3>. QED  BY <2>2, <3>2, Zenon
  <2>5. CASE Ends(st, more)
    <3>1. PICK found : found = Deserialized(more)
      OBVIOUS
    <3>2. found \in Seq(AnyByte) /\ Whole(found)
      BY <2>1, <2>2, <3>1, DeserializedIs
    <3>3. Take(s, byte) = Over(more, found)
      BY <1>11, <2>4, <2>5, <3>1
    <3>4. Sound(Over(more, found), F, m + 1)
      BY <1>6, <1>7, <1>8, <2>3, <3>2 DEF Sound
    <3>. QED  BY <1>1, <3>3, <3>4
  <2>6. CASE ~Ends(st, more)
    <3>1. Take(s, byte) = Going(st, more, fnd)
      BY <1>11, <2>4, <2>6
    <3>2. byte.i # 5
      BY <2>1, <2>2, <2>6, FrameEnds
    <3>3. byte.i < 5
      BY <1>4, <3>2 DEF AnyByte
    <3>4. PICK n \in 1 .. 4 : n = Len(buf) /\ Len(more) = n + 1
      BY <2>3
    <3>5. more[n + 1].i < 5 /\ \A j \in 1 .. n : more[j].i < 5
      BY <2>3, <3>3, <3>4
    <3>6. \A j \in 1 .. n + 1 : more[j].i < 5
      BY <3>5
    <3>7. n + 1 \in 1 .. 4
      <4>1. more[1].i \in Nat /\ more[1].i >= 1
        <5>1. more[1] \in AnyByte
          BY <2>3, <3>4, ElementOfSeq
        <5>. QED  BY <5>1 DEF AnyByte
      <4>2. n + 1 \in 1 .. Len(more)
        BY <3>4
      <4>3. more[n + 1].i = more[1].i + (n + 1) - 1
        BY <2>3, <4>2
      <4>. QED  BY <3>5, <4>1, <4>3
    <3>8. Begun(more, F)
      BY <2>3, <3>4, <3>6, <3>7 DEF Begun
    <3>9. Searching(st, more, F)
      BY <2>1, <2>3, <3>8 DEF Searching
    <3>10. Continued(st, more, (m + 1) + 1)
      BY <1>5, <1>8, <2>3, <3>3 DEF Continued
    <3>11. Sound(Going(st, more, fnd), F, m + 1)
      BY <1>2, <2>3, <3>9, <3>10 DEF Sound
    <3>. QED  BY <1>1, <3>1, <3>11
  <2>. QED  BY <2>5, <2>6
<1>. QED  BY <1>2, <1>9, <1>10, <1>11

LEMMA BytesAre ==
    ASSUME NEW g \in Frames, NEW f \in Nat
    PROVE  /\ Bytes(g, f) \in Seq(AnyByte) /\ Len(Bytes(g, f)) = 5
           /\ \A i \in 1 .. 5 : Bytes(g, f)[i].k = g[i] /\ Bytes(g, f)[i].f = f /\ Bytes(g, f)[i].i = i
<1>1. DOMAIN g = 1 .. 5 /\ \A i \in 1 .. 5 : g[i] \in Kinds
  BY FrameIs
<1>2. PICK bytes : bytes = [i \in 1 .. 5 |-> [k |-> g[i], f |-> f, i |-> i]]
  OBVIOUS
<1>3. Bytes(g, f) = bytes
  BY <1>1, <1>2 DEF Bytes
<1>4. \A i \in 1 .. 5 : [k |-> g[i], f |-> f, i |-> i] \in AnyByte
  BY <1>1 DEF AnyByte
<1>5. bytes \in [1 .. 5 -> AnyByte]
  BY <1>2, <1>4
<1>6. bytes \in Seq(AnyByte) /\ Len(bytes) = 5
  <2>1. PICK n \in Nat : n = 5
    OBVIOUS
  <2>2. bytes \in [1 .. n -> AnyByte]
    BY <1>5, <2>1
  <2>3. bytes \in Seq(AnyByte) /\ Len(bytes) = n
    BY <2>2
  <2>. QED  BY <2>1, <2>3
<1>7. \A i \in 1 .. 5 : bytes[i].k = g[i] /\ bytes[i].f = f /\ bytes[i].i = i
  BY <1>2
<1>. QED  BY <1>3, <1>6, <1>7

SensorInv ==
    /\ sent \in Nat /\ pending \in Seq(AnyByte)
    /\ buffer \in Seq(AnyByte) /\ state \in States /\ Whole(reported)
    /\ \E F \in [0 .. sent -> Frames] :
          Pending(F) /\ Searching(state, buffer, F) /\ Continued(state, buffer, 1)

LEMMA SensorInit == HInit => SensorInv
<1>. SUFFICES ASSUME HInit PROVE SensorInv
  OBVIOUS
<1>1. PICK g \in Frames, from \in 1 .. 5 : pending = SubSeq(Bytes(g, 0), from, 5)
  BY DEF HInit, FramesOf
<1>2. sent = 0 /\ state = Start /\ buffer = <<>> /\ reported = <<>>
  BY DEF HInit
<1>3. PICK bytes : bytes = Bytes(g, 0)
  OBVIOUS
<1>4. /\ bytes \in Seq(AnyByte) /\ Len(bytes) = 5
      /\ \A i \in 1 .. 5 : bytes[i].k = g[i] /\ bytes[i].f = 0 /\ bytes[i].i = i
  BY <1>3, BytesAre
<1>5. PICK n \in 1 .. 5 : n = 5 - from + 1
  OBVIOUS
<1>6. /\ pending \in Seq(AnyByte) /\ Len(pending) = n
      /\ \A j \in 1 .. n : pending[j] = bytes[from + j - 1]
  <2>1. bytes \in Seq(AnyByte) /\ from \in 1 .. Len(bytes) + 1 /\ 5 \in from - 1 .. Len(bytes)
    BY <1>4
  <2>2. /\ SubSeq(bytes, from, 5) \in Seq(AnyByte) /\ Len(SubSeq(bytes, from, 5)) = 5 - from + 1
        /\ \A j \in 1 .. 5 - from + 1 : SubSeq(bytes, from, 5)[j] = bytes[from + j - 1]
    BY <2>1, SubSeqProperties
  <2>. QED  BY <1>1, <1>3, <1>5, <2>2
<1>7. \A j \in 1 .. n : pending[j].k = g[from + j - 1] /\ pending[j].f = 0 /\ pending[j].i = from + j - 1
  <2>. TAKE j \in 1 .. n
  <2>1. PICK i \in 1 .. 5 : i = from + j - 1
    BY <1>5
  <2>2. pending[j] = bytes[i]
    BY <1>6, <2>1
  <2>. QED  BY <1>4, <2>1, <2>2
<1>8. PICK F \in [0 .. 0 -> Frames] : F = [f \in 0 .. 0 |-> g]
  OBVIOUS
<1>9. Pending(F)
  <2>1. \A j \in 1 .. n : OfFrames(pending[j], F)
    BY <1>7, <1>8 DEF OfFrames
  <2>2. \A j \in 1 .. n - 1 : j \in 1 .. n /\ j + 1 \in 1 .. n /\ from + j - 1 < 5
    BY <1>5
  <2>3. \A j \in 1 .. n - 1 : Follows(pending[j], pending[j + 1])
    BY <1>7, <2>2 DEF Follows
  <2>4. pending[n].i = 5
    BY <1>5, <1>7
  <2>. QED  BY <1>6, <2>1, <2>3, <2>4 DEF Pending
<1>10. Searching(state, buffer, F) /\ Continued(state, buffer, 1)
  BY <1>2 DEF Searching, Continued
<1>11. Whole(reported) /\ buffer \in Seq(AnyByte) /\ state \in States
  BY <1>2 DEF Whole, States
<1>. QED  BY <1>2, <1>6, <1>8, <1>9, <1>10, <1>11 DEF SensorInv

LEMMA SendsKeeps ==
    ASSUME SensorInv, NEW g \in FramesOf(finder), SensorSends(g)
    PROVE  SensorInv'
<1>1. PICK F \in [0 .. sent -> Frames] :
        Pending(F) /\ Searching(state, buffer, F) /\ Continued(state, buffer, 1)
  BY DEF SensorInv
<1>2. /\ sent \in Nat /\ pending \in Seq(AnyByte)
      /\ buffer \in Seq(AnyByte) /\ state \in States /\ Whole(reported)
  BY DEF SensorInv
<1>3. /\ sent' = sent + 1 /\ pending' = pending \o Bytes(g, sent + 1)
      /\ state' = state /\ buffer' = buffer /\ reported' = reported
  BY DEF SensorSends
<1>4. g \in Frames
  BY DEF FramesOf
<1>5. PICK bytes, n, buffered :
        bytes = Bytes(g, sent + 1) /\ n = Len(pending) /\ buffered = pending \o bytes
  OBVIOUS
<1>6. /\ bytes \in Seq(AnyByte) /\ Len(bytes) = 5
      /\ \A i \in 1 .. 5 : bytes[i].k = g[i] /\ bytes[i].f = sent + 1 /\ bytes[i].i = i
  <2>1. sent + 1 \in Nat
    BY <1>2
  <2>. QED  BY <1>4, <1>5, <2>1, BytesAre
<1>7. n \in Nat
  BY <1>2, <1>5, LenProperties
<1>8. /\ buffered \in Seq(AnyByte) /\ Len(buffered) = n + 5
      /\ \A j \in 1 .. n : buffered[j] = pending[j]
      /\ \A i \in 1 .. 5 : buffered[n + i] = bytes[i]
  <2>1. buffered \in Seq(AnyByte) /\ Len(buffered) = Len(pending) + Len(bytes)
    BY <1>2, <1>5, <1>6, ConcatProperties
  <2>2. \A j \in 1 .. Len(pending) + Len(bytes) :
           buffered[j] = IF j <= Len(pending) THEN pending[j] ELSE bytes[j - Len(pending)]
    BY <1>2, <1>5, <1>6, ConcatProperties
  <2>3. \A j \in 1 .. n + 5 : buffered[j] = IF j <= n THEN pending[j] ELSE bytes[j - n]
    BY <1>5, <1>6, <2>2
  <2>4. ASSUME NEW i \in 1 .. 5
        PROVE  buffered[n + i] = bytes[i]
    <3>1. PICK j : j = n + i
      OBVIOUS
    <3>2. j \in 1 .. n + 5 /\ ~ (j <= n) /\ j - n = i
      BY <1>7, <3>1
    <3>. QED  BY <2>3, <3>1, <3>2
  <2>5. \A j \in 1 .. n : buffered[j] = pending[j]
    <3>1. \A j \in 1 .. n : j \in 1 .. n + 5 /\ j <= n
      BY <1>7
    <3>. QED  BY <2>3, <3>1
  <2>6. Len(buffered) = n + 5
    BY <1>5, <1>6, <2>1
  <2>. QED  BY <2>1, <2>4, <2>5, <2>6
<1>9. pending' = buffered
  BY <1>3, <1>5
<1>10. PICK G \in [0 .. sent + 1 -> Frames] :
         G = [f \in 0 .. sent + 1 |-> IF f = sent + 1 THEN g ELSE F[f]]
  BY <1>2, <1>4
<1>11. ASSUME NEW b, OfFrames(b, F)
       PROVE  OfFrames(b, G)
  <2>1. b.f \in 0 .. sent /\ b.k = F[b.f][b.i]
    BY <1>11 DEF OfFrames
  <2>2. b.f \in 0 .. sent + 1 /\ b.f # sent + 1
    BY <1>2, <2>1
  <2>. QED  BY <1>10, <2>1, <2>2 DEF OfFrames
<1>12. \A i \in 1 .. 5 : OfFrames(bytes[i], G)
  <2>1. sent + 1 \in 0 .. sent + 1
    BY <1>2
  <2>. QED  BY <1>6, <1>10, <2>1 DEF OfFrames
<1>13. /\ \A j \in 1 .. n : OfFrames(pending[j], F)
       /\ \A j \in 1 .. n - 1 : Follows(pending[j], pending[j + 1])
       /\ n > 0 => pending[n].i = 5
  BY <1>1, <1>5 DEF Pending
<1>14. \A j \in 1 .. n + 5 : OfFrames(buffered[j], G)
  <2>1. \A j \in 1 .. n : OfFrames(buffered[j], G)
    BY <1>8, <1>11, <1>13
  <2>2. \A i \in 1 .. 5 : OfFrames(buffered[n + i], G)
    BY <1>8, <1>12
  <2>3. \A j \in 1 .. n + 5 : j \in 1 .. n \/ (j - n \in 1 .. 5 /\ j = n + (j - n))
    BY <1>7
  <2>. QED  BY <2>1, <2>2, <2>3
<1>15. ASSUME NEW j \in 1 .. n + 5 - 1
       PROVE  Follows(buffered[j], buffered[j + 1])
  <2>1. CASE j < n
    <3>1. j \in 1 .. n /\ j + 1 \in 1 .. n /\ j \in 1 .. n - 1
      BY <1>7, <2>1
    <3>. QED  BY <1>8, <1>13, <3>1
  <2>2. CASE j = n
    <3>1. n > 0 /\ n \in 1 .. n /\ 1 \in 1 .. 5
      BY <1>7, <2>2
    <3>2. buffered[j].i = 5 /\ buffered[j + 1] = bytes[1]
      BY <1>8, <1>13, <2>2, <3>1
    <3>. QED  BY <1>6, <3>2 DEF Follows
  <2>3. CASE j > n
    <3>1. PICK i \in 1 .. 4 : j = n + i
      <4>1. j - n \in 1 .. 4 /\ j = n + (j - n)
        BY <1>7, <2>3
      <4>. QED  BY <4>1
    <3>2. j + 1 = n + (i + 1) /\ i + 1 \in 1 .. 5 /\ i \in 1 .. 5 /\ i < 5
      BY <1>7, <3>1
    <3>3. buffered[j] = bytes[i] /\ buffered[j + 1] = bytes[i + 1]
      BY <1>8, <3>1, <3>2
    <3>. QED  BY <1>6, <3>2, <3>3 DEF Follows
  <2>. QED  BY <1>7, <2>1, <2>2, <2>3
<1>16. buffered[n + 5].i = 5
  BY <1>6, <1>8
<1>17. Pending(G)'
  BY <1>7, <1>8, <1>9, <1>14, <1>15, <1>16 DEF Pending
<1>18. Searching(state, buffer, G)
  <2>1. Begun(buffer, F) => Begun(buffer, G)
    BY <1>11 DEF Begun
  <2>. QED  BY <1>1, <2>1 DEF Searching
<1>19. Continued(state, buffer, 1)'
  <2>1. CASE state = Start
    BY <1>3, <2>1 DEF Continued
  <2>2. CASE state # Start
    <3>1. 1 <= n /\ Follows(buffer[Len(buffer)], pending[1])
      BY <1>1, <1>5, <2>2 DEF Continued
    <3>2. buffered[1] = pending[1] /\ 1 <= n + 5
      BY <1>7, <1>8, <3>1
    <3>. QED  BY <1>3, <1>8, <1>9, <3>1, <3>2 DEF Continued
  <2>. QED  BY <2>1, <2>2
<1>20. Searching(state, buffer, G)' /\ Whole(reported)'
  BY <1>2, <1>3, <1>18 DEF Searching, Begun, OfFrames, Whole
<1>21. sent' \in Nat /\ G \in [0 .. sent' -> Frames]
  BY <1>2, <1>3, <1>10
<1>22. pending' \in Seq(AnyByte) /\ buffer' \in Seq(AnyByte) /\ state' \in States
  BY <1>2, <1>3, <1>8, <1>9
<1>. QED  BY <1>17, <1>19, <1>20, <1>21, <1>22 DEF SensorInv

\* the search is sound after any number of the chunk's bytes
LEMMA ChunkSound ==
    ASSUME NEW F, \A f \in DOMAIN F : F[f] \in Frames, Pending(F), pending \in Seq(AnyByte),
           NEW chunk, NEW size \in Nat, size <= Len(pending), DOMAIN chunk = 1 .. size,
           \A j \in 1 .. size : chunk[j] = pending[j],
           NEW base, Sound(base, F, 0)
    PROVE  Sound(FoldLeft(Take, base, chunk), F, size)
<1>1. PICK steps : Steps("take", chunk, base, size, steps) /\ steps[size] = FoldLeft(Take, base, chunk)
  BY TakeSteps
<1>. DEFINE T == {i \in 0 .. size : ~ Sound(steps[i], F, i)}
<1>2. T = {}
  <2>. SUFFICES ASSUME T # {} PROVE FALSE
    OBVIOUS
  <2>1. PICK k \in Nat : k \in T /\ \A m \in T : k <= m
    <3>1. T \subseteq Nat
      OBVIOUS
    <3>2. Min(T) \in T /\ \A m \in T : Min(T) <= m
      BY <3>1, Smallest
    <3>. HIDE DEF T
    <3>. QED  BY <3>1, <3>2
  <2>2. k \in 0 .. size /\ ~ Sound(steps[k], F, k)
    BY <2>1
  <2>3. k # 0
    BY <1>1, <2>2 DEF Steps
  <2>4. PICK j \in Nat : j = k - 1 /\ j \in 0 .. size /\ j + 1 = k /\ k \in 1 .. size
    BY <2>2, <2>3
  <2>5. Sound(steps[j], F, j)
    <3>1. j \in 0 .. size /\ ~ (k <= j)
      BY <2>4
    <3>2. j \notin T
      <4>. HIDE DEF T
      <4>. QED  BY <2>1, <3>1
    <3>. QED  BY <3>1, <3>2
  <2>6. steps[k] = Take(steps[j], chunk[k])
    <3>1. steps[k] = One("take", steps[k - 1], chunk[k])
      BY <1>1, <2>4 DEF Steps
    <3>. QED  BY <2>4, <3>1 DEF One
  <2>7. chunk[k] = pending[j + 1] /\ j < Len(pending)
    <3>1. Len(pending) \in Nat
      BY LenProperties
    <3>. QED  BY <2>4, <3>1
  <2>8. Sound(Take(steps[j], pending[j + 1]), F, j + 1)
    BY <2>4, <2>5, <2>7, TakeKeeps
  <2>. QED  BY <2>2, <2>4, <2>6, <2>7, <2>8
<1>3. size \in 0 .. size
  OBVIOUS
<1>4. Sound(steps[size], F, size)
  BY <1>2, <1>3
<1>. QED  BY <1>1, <1>4

LEMMA ExecuteKeeps ==
    ASSUME SensorInv, ExecuteTask
    PROVE  SensorInv'
<1>1. PICK F \in [0 .. sent -> Frames] :
        Pending(F) /\ Searching(state, buffer, F) /\ Continued(state, buffer, 1)
  BY DEF SensorInv
<1>2. /\ sent \in Nat /\ pending \in Seq(AnyByte)
      /\ buffer \in Seq(AnyByte) /\ state \in States /\ Whole(reported)
  BY DEF SensorInv
<1>3. PICK n \in Nat : n = Len(pending)
  BY <1>2, LenProperties
<1>4. PICK size : size = IF Len(pending) < ChunkSize THEN Len(pending) ELSE ChunkSize
  OBVIOUS
<1>5. PICK chunk, base, end, rest :
        /\ chunk = SubSeq(pending, 1, size)
        /\ base = [state |-> state, buffer |-> buffer, done |-> FALSE, found |-> <<>>]
        /\ end = FoldLeft(Take, base, chunk)
        /\ rest = SubSeq(pending, size + 1, Len(pending))
  OBVIOUS
<1>6. /\ pending # <<>> /\ pending' = rest /\ state' = end.state
      /\ buffer' = IF end.state = Start THEN <<>> ELSE end.buffer
      /\ reported' = IF end.found = <<>> THEN reported ELSE end.found
      /\ sent' = sent
  BY <1>4, <1>5 DEF ExecuteTask
<1>7. size \in Nat /\ size >= 1 /\ size <= n
  <2>1. n # 0
    BY <1>2, <1>3, <1>6, EmptySeq
  <2>. QED  BY <1>3, <1>4, <2>1, SensorAssumption
<1>8. DOMAIN chunk = 1 .. size /\ \A j \in 1 .. size : chunk[j] = pending[j]
  <2>1. 1 \in 1 .. Len(pending) + 1 /\ size \in 1 - 1 .. Len(pending)
    BY <1>3, <1>7
  <2>2. /\ chunk \in Seq(AnyByte) /\ Len(chunk) = size - 1 + 1
        /\ \A j \in 1 .. size - 1 + 1 : chunk[j] = pending[1 + j - 1]
    BY <1>2, <1>5, <2>1, SubSeqProperties
  <2>3. size - 1 + 1 = size /\ \A j \in 1 .. size : 1 + j - 1 = j
    BY <1>7
  <2>4. DOMAIN chunk = 1 .. size
    BY <2>2, <2>3, LenProperties
  <2>. QED  BY <2>2, <2>3, <2>4
<1>9. /\ rest \in Seq(AnyByte) /\ Len(rest) = n - size
      /\ \A j \in 1 .. n - size : rest[j] = pending[size + j]
  <2>1. size + 1 \in 1 .. Len(pending) + 1 /\ Len(pending) \in (size + 1) - 1 .. Len(pending)
    BY <1>3, <1>7
  <2>2. /\ rest \in Seq(AnyByte) /\ Len(rest) = Len(pending) - (size + 1) + 1
        /\ \A j \in 1 .. Len(pending) - (size + 1) + 1 : rest[j] = pending[(size + 1) + j - 1]
    BY <1>2, <1>5, <2>1, SubSeqProperties
  <2>3. Len(pending) - (size + 1) + 1 = n - size
    BY <1>3, <1>7
  <2>4. \A j \in 1 .. n - size : (size + 1) + j - 1 = size + j
    BY <1>3, <1>7
  <2>. QED  BY <2>2, <2>3, <2>4
<1>10. base = Going(state, buffer, <<>>)
  BY <1>5 DEF Going
<1>11. Sound(base, F, 0)
  <2>1. <<>> \in Seq(AnyByte) /\ Whole(<<>>) /\ 0 + 1 = 1
    BY DEF Whole
  <2>. QED  BY <1>1, <1>2, <1>10, <2>1 DEF Sound
<1>12. Sound(end, F, size)
  <2>1. \A f \in DOMAIN F : F[f] \in Frames
    OBVIOUS
  <2>2. size <= Len(pending)
    BY <1>3, <1>7
  <2>3. Sound(FoldLeft(Take, base, chunk), F, size)
    BY <1>1, <1>2, <1>7, <1>8, <1>11, <2>1, <2>2, ChunkSound
  <2>. QED  BY <1>5, <2>3
<1>13. PICK st \in States, buf \in Seq(AnyByte), fnd \in Seq(AnyByte) :
         /\ end = Going(st, buf, fnd) \/ (end = Over(buf, fnd) /\ st = Start)
         /\ Searching(st, buf, F) /\ Continued(st, buf, size + 1) /\ Whole(fnd)
  BY <1>12 DEF Sound
<1>14. end.state = st /\ end.buffer = buf /\ end.found = fnd
  BY <1>13 DEF Going, Over
<1>15. Whole(reported')
  BY <1>2, <1>6, <1>13, <1>14
<1>16. /\ state' \in States /\ buffer' \in Seq(AnyByte) /\ pending' \in Seq(AnyByte) /\ sent' \in Nat
       /\ F \in [0 .. sent' -> Frames]
  <2>1. <<>> \in Seq(AnyByte)
    OBVIOUS
  <2>. QED  BY <1>2, <1>6, <1>9, <1>13, <1>14, <2>1
<1>17. state' = st /\ (st # Start => buffer' = buf)
  BY <1>6, <1>14
<1>18. Searching(st, buf, F) => Searching(state', buffer', F)
  BY <1>17 DEF Searching
<1>19. /\ \A j \in 1 .. n : OfFrames(pending[j], F)
       /\ \A j \in 1 .. n - 1 : Follows(pending[j], pending[j + 1])
       /\ n > 0 => pending[n].i = 5
  BY <1>1, <1>3 DEF Pending
<1>20. PICK left \in Nat : left = n - size
  BY <1>7
<1>21. \A j \in 1 .. left : OfFrames(rest[j], F)
  <2>1. \A j \in 1 .. left : size + j \in 1 .. n
    BY <1>7, <1>20
  <2>. QED  BY <1>9, <1>19, <1>20, <2>1
<1>22. ASSUME NEW j \in 1 .. left - 1
       PROVE  Follows(rest[j], rest[j + 1])
  <2>1. PICK m \in 1 .. n - 1 : m = size + j
    BY <1>7, <1>20
  <2>2. j \in 1 .. left /\ j + 1 \in 1 .. left /\ size + (j + 1) = m + 1
    BY <1>7, <1>20, <2>1
  <2>3. rest[j] = pending[m] /\ rest[j + 1] = pending[m + 1]
    BY <1>9, <1>20, <2>1, <2>2
  <2>. QED  BY <1>19, <2>3
<1>23. left > 0 => rest[left].i = 5
  <2>1. left > 0 => left \in 1 .. left /\ size + left = n /\ n > 0
    BY <1>7, <1>20
  <2>. QED  BY <1>9, <1>19, <1>20, <2>1
<1>24. Pending(F)'
  BY <1>6, <1>9, <1>20, <1>21, <1>22, <1>23 DEF Pending
<1>25. Continued(state, buffer, 1)'
  <2>1. CASE st = Start
    BY <1>17, <2>1 DEF Continued
  <2>2. CASE st # Start
    <3>1. size + 1 <= n /\ Follows(buf[Len(buf)], pending[size + 1])
      BY <1>3, <1>13, <2>2 DEF Continued
    <3>2. 1 <= left /\ 1 \in 1 .. left
      BY <1>7, <1>20, <3>1
    <3>3. rest[1] = pending[size + 1] /\ 1 <= Len(rest)
      BY <1>9, <1>20, <3>2
    <3>. QED  BY <1>6, <1>17, <2>2, <3>1, <3>3 DEF Continued
  <2>. QED  BY <2>1, <2>2
<1>26. Searching(state, buffer, F)' /\ Whole(reported)'
  BY <1>13, <1>15, <1>18 DEF Searching, Begun, OfFrames, Whole
<1>. QED  BY <1>16, <1>24, <1>25, <1>26 DEF SensorInv

\* A reading is one whole frame of the sensor, its bytes in their order,
\* whatever the chunks findPackage and fastDistanceFinder are given.
THEOREM ReadingsAreWhole == HSpec => []ReadingsAreSent
<1>1. HInit => SensorInv
  BY SensorInit
<1>2. SensorInv /\ [HNext]_hvars => SensorInv'
  <2>. SUFFICES ASSUME SensorInv, [HNext]_hvars PROVE SensorInv'
    OBVIOUS
  <2>1. CASE \E g \in FramesOf(finder) : SensorSends(g)
    BY <2>1, SendsKeeps
  <2>2. CASE ExecuteTask
    BY <2>2, ExecuteKeeps
  <2>3. CASE UNCHANGED hvars
    BY <2>3 DEF hvars, SensorInv, Pending, Searching, Continued, Begun, OfFrames, Whole
  <2>. QED  BY <2>1, <2>2, <2>3 DEF HNext
<1>3. SensorInv => ReadingsAreSent
  BY DEF SensorInv, Whole, ReadingsAreSent
<1>. QED  BY <1>1, <1>2, <1>3, PTL DEF HSpec

-----------------------------------------------------------------------------
(***************************************************************************)
(* FileSync.                                                               *)
(***************************************************************************)
LEMMA WorkIs ==
    /\ \A t \in Uploads :
          /\ Len(Work(t)) = Chunks + 2
          /\ \A n \in 1 .. Chunks + 2 :
                Work(t)[n] = IF n = 1 THEN "alloc" ELSE IF n = Chunks + 2 THEN "finish" ELSE "append"
    /\ \A t \in Downloads : Len(Work(t)) = 1 /\ Work(t)[1] = "cat"
    /\ \A t \in Visits : Len(Work(t)) = 2 /\ Work(t)[1] = "cd" /\ Work(t)[2] = "dir"
<1>1. PICK appends : appends = [n \in 1 .. Chunks |-> "append"]
  OBVIOUS
<1>2. appends \in Seq({"append"}) /\ Len(appends) = Chunks /\ \A n \in 1 .. Chunks : appends[n] = "append"
  BY <1>1, FilesAssumption
<1>3. PICK first, last : first = <<"alloc">> /\ last = <<"finish">>
  OBVIOUS
<1>4. PICK mid : mid = first \o appends
  OBVIOUS
<1>5. /\ mid \in Seq({"alloc", "append"}) /\ Len(mid) = Chunks + 1 /\ mid[1] = "alloc"
      /\ \A n \in 2 .. Chunks + 1 : mid[n] = "append"
  BY <1>2, <1>3, <1>4, FilesAssumption
<1>6. UploadWork = mid \o last
  BY <1>1, <1>3, <1>4 DEF UploadWork
<1>7. /\ Len(UploadWork) = Chunks + 2
      /\ \A n \in 1 .. Chunks + 2 :
            UploadWork[n] = IF n = 1 THEN "alloc" ELSE IF n = Chunks + 2 THEN "finish" ELSE "append"
  BY <1>3, <1>5, <1>6, FilesAssumption
<1>8. ASSUME NEW t \in Uploads PROVE Work(t) = UploadWork
  BY FilesAssumption DEF Work
<1>9. ASSUME NEW t \in Downloads PROVE Work(t) = DownloadWork
  BY FilesAssumption DEF Work
<1>10. ASSUME NEW t \in Visits PROVE Work(t) = VisitWork
  BY FilesAssumption DEF Work
<1>. QED  BY <1>7, <1>8, <1>9, <1>10 DEF DownloadWork, VisitWork

\* what has been answered and is not lost or taken yet
Way == capture.chunks \o answers

Command == [by : Threads \cup {Nobody}, n : Nat \ {0}]
Whats   == {"ok", "Error:", "hex", "not found", "root", "sub"}
Answer  == [by : Threads \cup {Nobody}, n : Nat \ {0}, what : Whats, piece : Nat \ {0}]
Block   == [by : Uploads, n : Nat \ {0}, length : Nat]

FilesTyped ==
    /\ thread \in [Threads -> Nat] /\ waiting \subseteq Threads
    /\ result \in [Threads -> {"none", "complete", "failed"}]
    /\ commands \in Seq(Command) /\ answers \in Seq(Answer)
    /\ capture \in [active : BOOLEAN, chunks : Seq(Answer)]
    /\ handle \in Uploads \cup {Nobody} /\ allocated \in BOOLEAN
    /\ content \in Seq(Block) /\ stored \in [Uploads -> Seq(Block)]
    /\ directory \in {"root", "sub"} /\ manual \in Nat /\ blind \in BOOLEAN
    /\ allocated => handle # Nobody
    /\ ~capture.active => capture.chunks = <<>>
    /\ \A t \in Threads :
          /\ thread[t] <= Len(Work(t))
          /\ t \in waiting => thread[t] # 0 /\ result[t] = "none"
          /\ t \notin waiting /\ result[t] = "none" => thread[t] < Len(Work(t))
          /\ result[t] = "complete" => thread[t] = Len(Work(t))
    /\ \A i \in DOMAIN commands :
          IF commands[i].by = Nobody THEN manual > 0 ELSE commands[i].n <= thread[commands[i].by]

LEMMA SizeIs ==
    ASSUME NEW t \in Uploads, NEW n \in Nat
    PROVE  Size(t, n) \in Nat /\ Decoded(Size(t, n)) \in Nat
<1>1. LastChunk[t] \in Nat /\ UPLOAD_CHUNK_SIZE \in Nat
  BY FilesAssumption DEF UPLOAD_CHUNK_SIZE
<1>. QED  BY <1>1 DEF Size, Decoded

\* which command a command is
LEMMA RunsWhat ==
    ASSUME FilesTyped, NEW c \in Command, c.by \in Threads => c.n <= thread[c.by], NEW op, Runs(c, op)
    PROVE  /\ op = "alloc"  => c.by \in Uploads /\ c.n = 1
           /\ op = "append" => c.by \in Uploads /\ c.n \in 2 .. Chunks + 1
           /\ op = "finish" => c.by = Nobody \/ (c.by \in Uploads /\ c.n = Chunks + 2)
           /\ op = "cat"    => c.by \in Downloads /\ c.n = 1
           /\ op = "cd"     => c.by \in Visits /\ c.n = 1
           /\ op = "dir"    => c.by \in Visits /\ c.n = 2
<1>1. CASE c.by = Nobody
  BY <1>1 DEF Runs
<1>2. CASE c.by \in Threads
  <2>1. c.by # Nobody /\ c.n \in 1 .. Len(Work(c.by)) /\ op = Work(c.by)[c.n]
    BY <1>2, FilesAssumption, WorkIs DEF Runs, Command, FilesTyped, Threads
  <2>2. CASE c.by \in Uploads
    <3>1. c.n \in 1 .. Chunks + 2
      BY <2>1, <2>2, WorkIs
    <3>2. op = IF c.n = 1 THEN "alloc" ELSE IF c.n = Chunks + 2 THEN "finish" ELSE "append"
      BY <2>1, <2>2, <3>1, WorkIs
    <3>. QED  BY <2>2, <3>1, <3>2, FilesAssumption
  <2>3. CASE c.by \in Downloads
    BY <2>1, <2>3, WorkIs
  <2>4. CASE c.by \in Visits
    BY <2>1, <2>4, WorkIs
  <2>. QED  BY <1>2, <2>2, <2>3, <2>4 DEF Threads
<1>. QED  BY <1>1, <1>2 DEF Command

\* the command the device runs is the first, and its answer is the last of the way
LEMMA FirstCommand ==
    ASSUME FilesTyped, commands # <<>>
    PROVE  /\ Head(commands) \in Command /\ 1 \in DOMAIN commands /\ commands[1] = Head(commands)
           /\ Head(commands).by \in Threads => Head(commands).n <= thread[Head(commands).by]
           /\ Head(commands).by = Nobody => manual > 0
<1>1. commands \in Seq(Command)
  BY DEF FilesTyped
<1>2. 1 \in DOMAIN commands /\ Head(commands) = commands[1] /\ commands[1] \in Command
  BY <1>1
<1>3. commands[1].by # Nobody => commands[1].n <= thread[commands[1].by]
  BY <1>2 DEF FilesTyped
<1>4. commands[1].by = Nobody => manual > 0
  BY <1>2 DEF FilesTyped
<1>. QED  BY <1>2, <1>3, <1>4, FilesAssumption

LEMMA AnswersAre ==
    ASSUME FilesTyped, commands # <<>>, NEW c, c = Head(commands), NEW pieces \in Seq(Whats),
           AnsweredIn(c, pieces)
    PROVE  /\ commands' \in Seq(Command) /\ answers' \in Seq(Answer)
           /\ \A i \in DOMAIN commands' : i + 1 \in DOMAIN commands /\ commands'[i] = commands[i + 1]
           /\ Way' \in Seq(Answer) /\ Len(Way') = Len(Way) + Len(pieces) /\ Len(Way) \in Nat
           /\ \A i \in 1 .. Len(Way) : Way'[i] = Way[i]
           /\ \A p \in 1 .. Len(pieces) :
                 Way'[Len(Way) + p] = [by |-> c.by, n |-> c.n, what |-> pieces[p], piece |-> p]
<1>1. /\ commands \in Seq(Command) /\ answers \in Seq(Answer) /\ capture.chunks \in Seq(Answer)
      /\ commands' = Tail(commands) /\ capture' = capture
  BY DEF FilesTyped, AnsweredIn
<1>2. PICK new : new = [p \in 1 .. Len(pieces) |->
                          [by |-> c.by, n |-> c.n, what |-> pieces[p], piece |-> p]]
  OBVIOUS
<1>3. c \in Command
  BY FirstCommand
<1>4. ASSUME NEW p \in 1 .. Len(pieces)
      PROVE  /\ new[p] = [by |-> c.by, n |-> c.n, what |-> pieces[p], piece |-> p]
             /\ new[p] \in Answer
  <2>1. pieces[p] \in Whats /\ p \in Nat \ {0}
    OBVIOUS
  <2>. QED  BY <1>2, <1>3, <2>1 DEF Answer, Command
<1>5. new \in Seq(Answer) /\ Len(new) = Len(pieces)
  BY <1>2, <1>4
<1>6. answers' = answers \o new
  <2>1. DOMAIN pieces = 1 .. Len(pieces)
    OBVIOUS
  <2>. QED  BY <1>2, <2>1 DEF AnsweredIn
<1>7. Way' = (capture.chunks) \o (answers \o new)
  BY <1>1, <1>6 DEF Way
<1>8. Way = capture.chunks \o answers
  BY DEF Way
<1>9. PICK a : a = capture.chunks
  OBVIOUS
<1>10. /\ Way \in Seq(Answer) /\ Len(Way) = Len(a) + Len(answers) /\ a \in Seq(Answer)
       /\ \A i \in 1 .. Len(Way) : Way[i] = IF i <= Len(a) THEN a[i] ELSE answers[i - Len(a)]
  BY <1>1, <1>8, <1>9
<1>11. PICK more : more = answers \o new
  OBVIOUS
<1>12. /\ more \in Seq(Answer) /\ Len(more) = Len(answers) + Len(new)
       /\ \A i \in 1 .. Len(more) :
             more[i] = IF i <= Len(answers) THEN answers[i] ELSE new[i - Len(answers)]
  BY <1>1, <1>5, <1>11
<1>13. PICK w : w = Way'
  OBVIOUS
<1>14. w = a \o more
  BY <1>7, <1>9, <1>11, <1>13
<1>15. /\ w \in Seq(Answer) /\ Len(w) = Len(a) + Len(more) /\ Len(a) \in Nat
       /\ \A i \in 1 .. Len(w) : w[i] = IF i <= Len(a) THEN a[i] ELSE more[i - Len(a)]
  <2>1. a \in Seq(Answer) /\ more \in Seq(Answer)
    BY <1>10, <1>12
  <2>2. /\ a \o more \in Seq(Answer) /\ Len(a \o more) = Len(a) + Len(more) /\ Len(a) \in Nat
        /\ \A i \in 1 .. Len(a) + Len(more) :
              (a \o more)[i] = IF i <= Len(a) THEN a[i] ELSE more[i - Len(a)]
    BY <2>1
  <2>. QED  BY <1>14, <2>2
<1>16. PICK k \in Nat, l \in Nat, m \in Nat : k = Len(a) /\ l = Len(answers) /\ m = Len(new)
  BY <1>1, <1>5, <1>10
<1>17. ASSUME NEW i \in 1 .. Len(Way)
       PROVE  w[i] = Way[i]
  <2>1. i \in 1 .. Len(w) /\ i \in 1 .. k + l
    BY <1>10, <1>12, <1>15, <1>16
  <2>2. CASE i <= k
    BY <1>10, <1>15, <1>16, <2>1, <2>2
  <2>3. CASE i > k
    <3>1. i - k \in 1 .. l /\ i - k \in 1 .. l + m
      BY <1>16, <2>1, <2>3
    <3>2. more[i - k] = answers[i - k]
      BY <1>12, <1>16, <3>1
    <3>. QED  BY <1>10, <1>15, <1>16, <2>1, <2>3, <3>2
  <2>. QED  BY <1>16, <2>1, <2>2, <2>3
<1>18. ASSUME NEW p \in 1 .. Len(pieces)
       PROVE  w[Len(Way) + p] = new[p]
  <2>1. p \in 1 .. m /\ Len(Way) = k + l /\ Len(w) = k + (l + m)
    BY <1>5, <1>10, <1>12, <1>15, <1>16
  <2>2. k + l + p \in 1 .. Len(w) /\ ~ (k + l + p <= k) /\ l + p \in 1 .. l + m /\ ~ (l + p <= l)
    BY <2>1, <1>16
  <2>3. w[k + l + p] = more[l + p]
    <3>1. k + l + p - k = l + p
      BY <2>1
    <3>. QED  BY <1>15, <1>16, <2>2, <3>1
  <2>4. more[l + p] = new[p]
    <3>1. l + p - l = p
      BY <2>1
    <3>. QED  BY <1>12, <1>16, <2>2, <3>1
  <2>. QED  BY <2>1, <2>3, <2>4
<1>19. answers' \in Seq(Answer)
  BY <1>1, <1>5, <1>6
<1>20. /\ Way' \in Seq(Answer) /\ Len(Way') = Len(Way) + Len(pieces) /\ Len(Way) \in Nat
  BY <1>5, <1>10, <1>12, <1>13, <1>15, <1>16
<1>21. \A p \in 1 .. Len(pieces) :
          Way'[Len(Way) + p] = [by |-> c.by, n |-> c.n, what |-> pieces[p], piece |-> p]
  BY <1>4, <1>13, <1>18
<1>22. \A i \in 1 .. Len(Way) : Way'[i] = Way[i]
  BY <1>13, <1>17
<1>23. commands' \in Seq(Command) /\ \A i \in DOMAIN commands' :
          i + 1 \in DOMAIN commands /\ commands'[i] = commands[i + 1]
  BY <1>1
<1>. QED  BY <1>19, <1>20, <1>21, <1>22, <1>23

LEMMA OneAnswer ==
    ASSUME NEW c, NEW what \in Whats, Answered(c, what)
    PROVE  AnsweredIn(c, <<what>>) /\ <<what>> \in Seq(Whats) /\ Len(<<what>>) = 1 /\ <<what>>[1] = what
BY DEF Answered

LEMMA CatAnswers ==
    ASSUME NEW c, Cat(c)
    PROVE  \E pieces \in Seq(Whats) :
              /\ AnsweredIn(c, pieces)
              /\ \/ directory # "root" /\ pieces = <<"not found">>
                 \/ Len(pieces) = Pieces /\ \A p \in 1 .. Pieces : pieces[p] = "hex"
<1>1. CASE directory = "root"
  <2>1. PICK pieces : pieces = [i \in 1 .. Pieces |-> "hex"]
    OBVIOUS
  <2>2. AnsweredIn(c, pieces)
    BY <1>1, <2>1 DEF Cat
  <2>3. pieces \in Seq(Whats) /\ Len(pieces) = Pieces /\ \A p \in 1 .. Pieces : pieces[p] = "hex"
    BY <2>1, FilesAssumption DEF Whats
  <2>. QED  BY <2>2, <2>3
<1>2. CASE directory # "root"
  <2>1. AnsweredIn(c, <<"not found">>)
    BY <1>2 DEF Cat, Answered
  <2>2. <<"not found">> \in Seq(Whats)
    BY DEF Whats
  <2>. QED  BY <1>2, <2>1, <2>2
<1>. QED  BY <1>1, <1>2

LEMMA DeviceTypes ==
    ASSUME FilesTyped, commands # <<>>, NEW pieces \in Seq(Whats), AnsweredIn(Head(commands), pieces),
           handle' \in Uploads \cup {Nobody}, allocated' \in BOOLEAN, allocated' => handle' # Nobody,
           content' \in Seq(Block), stored' \in [Uploads -> Seq(Block)], directory' \in {"root", "sub"}
    PROVE  FilesTyped'
<1>1. /\ commands' \in Seq(Command) /\ answers' \in Seq(Answer)
      /\ \A i \in DOMAIN commands' : i + 1 \in DOMAIN commands /\ commands'[i] = commands[i + 1]
  BY AnswersAre
<1>2. UNCHANGED <<thread, waiting, result, capture, tool, manual, blind>>
  BY DEF AnsweredIn
<1>3. ASSUME NEW i \in DOMAIN commands'
      PROVE  IF commands'[i].by = Nobody THEN manual > 0
             ELSE commands'[i].n <= thread[commands'[i].by]
  BY <1>1 DEF FilesTyped
<1>. QED  BY <1>1, <1>2, <1>3 DEF FilesTyped

LEMMA DeviceTyped ==
    ASSUME FilesTyped, DeviceRuns
    PROVE  FilesTyped'
<1>1. PICK c : c = Head(commands)
  OBVIOUS
<1>2. commands # <<>> /\ c \in Command /\ (c.by \in Threads => c.n <= thread[c.by])
  BY <1>1, FirstCommand DEF DeviceRuns
<1>3. /\ handle \in Uploads \cup {Nobody} /\ allocated \in BOOLEAN /\ content \in Seq(Block)
      /\ allocated => handle # Nobody
      /\ stored \in [Uploads -> Seq(Block)] /\ directory \in {"root", "sub"}
  BY DEF FilesTyped
<1>4. <<>> \in Seq(Block) /\ {"ok", "Error:", "sub", "root"} \subseteq Whats
  <2>1. <<>> \in Seq(Block)
    OBVIOUS
  <2>2. {"ok", "Error:", "sub", "root"} \subseteq Whats
    BY DEF Whats
  <2>. QED  BY <2>1, <2>2
<1>6. CASE StoreAlloc(c)
  <2>1. c.by \in Uploads
    <3>1. Runs(c, "alloc")
      BY <1>6 DEF StoreAlloc
    <3>. QED  BY <1>2, <3>1, RunsWhat
  <2>2. c.by # Nobody
    BY <2>1, FilesAssumption DEF Threads
  <2>3. PICK what \in {"ok", "Error:"} :
          /\ Answered(c, what) /\ handle' \in {handle, c.by} /\ allocated' \in BOOLEAN
          /\ content' \in {content, <<>>} /\ stored' = stored /\ directory' = directory
          /\ (handle' = handle /\ allocated' = allocated) \/ handle' = c.by
    BY <1>3, <1>6 DEF StoreAlloc
  <2>. QED  BY <1>1, <1>3, <1>4, <1>2, <2>1, <2>2, <2>3, OneAnswer, DeviceTypes
<1>7. CASE StoreAppend(c)
  <2>1. c.by \in Uploads /\ c.n \in 2 .. Chunks + 1
    <3>1. Runs(c, "append")
      BY <1>7 DEF StoreAppend
    <3>. QED  BY <1>2, <3>1, RunsWhat
  <2>2. PICK what \in {"ok", "Error:"} :
          /\ Answered(c, what) /\ handle' = handle /\ allocated' = allocated
          /\ content' \in {content, Append(content, [by |-> c.by, n |-> c.n - 1,
                                              length |-> Decoded(Size(c.by, c.n - 1))])}
          /\ stored' = stored /\ directory' = directory
    BY <1>7 DEF StoreAppend
  <2>3. [by |-> c.by, n |-> c.n - 1, length |-> Decoded(Size(c.by, c.n - 1))] \in Block
    <3>1. c.n - 1 \in Nat \ {0}
      BY <2>1, FilesAssumption
    <3>2. Decoded(Size(c.by, c.n - 1)) \in Nat
      BY <2>1, <3>1, SizeIs
    <3>. QED  BY <2>1, <3>1, <3>2 DEF Block
  <2>4. content' \in Seq(Block)
    BY <1>3, <2>2, <2>3
  <2>. QED  BY <1>1, <1>3, <1>4, <1>2, <2>2, <2>4, OneAnswer, DeviceTypes
<1>8. CASE StoreFinish(c)
  <2>1. PICK what \in {"ok", "Error:"} :
          /\ Answered(c, what) /\ directory' = directory
          /\ \/ UNCHANGED <<handle, allocated, content, stored>>
             \/ /\ allocated /\ stored' = [stored EXCEPT ![handle] = content]
                /\ handle' = Nobody /\ allocated' = FALSE /\ content' = <<>>
    BY <1>8 DEF StoreFinish
  <2>2. stored' \in [Uploads -> Seq(Block)]
    BY <1>3, <2>1
  <2>3. /\ handle' \in Uploads \cup {Nobody} /\ allocated' \in BOOLEAN
        /\ (allocated' => handle' # Nobody)
    <3>1. CASE UNCHANGED <<handle, allocated>>
      BY <1>3, <3>1
    <3>2. CASE handle' = Nobody /\ allocated' = FALSE
      BY <3>2
    <3>. QED  BY <2>1, <3>1, <3>2
  <2>5. content' \in Seq(Block) /\ directory' \in {"root", "sub"}
    BY <1>3, <1>4, <2>1
  <2>4. what \in Whats /\ Answered(c, what)
    BY <1>4, <2>1
  <2>. QED  BY <1>1, <1>2, <2>2, <2>3, <2>4, <2>5, OneAnswer, DeviceTypes
<1>9. CASE Cat(c)
  <2>1. PICK pieces \in Seq(Whats) : AnsweredIn(c, pieces)
    BY <1>9, CatAnswers
  <2>2. UNCHANGED device
    BY <1>9 DEF Cat
  <2>. QED  BY <1>1, <1>3, <1>2, <2>1, <2>2, DeviceTypes DEF device
<1>10. CASE ChangeDir(c)
  <2>1. Answered(c, "ok") /\ directory' = "sub" /\ UNCHANGED <<handle, allocated, content, stored>>
    BY <1>10 DEF ChangeDir
  <2>. QED  BY <1>1, <1>3, <1>4, <1>2, <2>1, OneAnswer, DeviceTypes
<1>11. CASE Dir(c)
  <2>1. Answered(c, directory) /\ UNCHANGED <<handle, allocated, content, stored, directory>>
    BY <1>11 DEF Dir, device
  <2>. QED  BY <1>1, <1>3, <1>4, <1>2, <2>1, OneAnswer, DeviceTypes
<1>. QED  BY <1>1, <1>6, <1>7, <1>8, <1>9, <1>10, <1>11 DEF DeviceRuns

\* what the tool makes of its results
LEMMA ResultIs ==
    ASSUME FilesTyped, NEW t \in waiting, CaptureEnds(t)
    PROVE  /\ result' = [result EXCEPT ![t] = result'[t]]
           /\ result'[t] \in {"none", "complete", "failed"}
           /\ result'[t] = "none" => thread[t] < Len(Work(t))
           /\ result'[t] = "complete" => thread[t] = Len(Work(t))
           /\ t \in Uploads /\ result'[t] # "failed" => ~Captured("Error:")
           /\ t \in Downloads /\ result'[t] = "complete" => ~ (Dump = <<>> /\ Captured("not found"))
<1>1. t \in Threads /\ thread[t] \in Nat /\ thread[t] <= Len(Work(t)) /\ thread[t] # 0
  BY DEF FilesTyped
<1>2. PICK r : r = CASE t \in Uploads   -> UploadResult(t)
                     [] t \in Downloads -> DownloadResult
                     [] t \in Visits    -> VisitResult(t)
  OBVIOUS
<1>3. result'[t] = r /\ result' = [result EXCEPT ![t] = result'[t]]
  <2>1. result' = [result EXCEPT ![t] = r]
    BY <1>1, <1>2, Zenon DEF CaptureEnds
  <2>2. result'[t] = r
    BY <1>1, <2>1 DEF FilesTyped
  <2>. QED  BY <2>1, <2>2
<1>. DEFINE Fits ==
        /\ r \in {"none", "complete", "failed"}
        /\ r = "none" => thread[t] < Len(Work(t))
        /\ r = "complete" => thread[t] = Len(Work(t))
        /\ t \in Uploads /\ r # "failed" => ~Captured("Error:")
        /\ t \in Downloads /\ r = "complete" => ~ (Dump = <<>> /\ Captured("not found"))
<1>4. ASSUME t \in Uploads PROVE Fits
  <2>1. r = UploadResult(t) /\ t \notin Downloads /\ Len(Work(t)) = Chunks + 2
    BY <1>2, <1>4, FilesAssumption, WorkIs
  <2>2. /\ r \in {"none", "complete", "failed"}
        /\ r = "none" => thread[t] # Len(Work(t))
        /\ r = "complete" => thread[t] = Len(Work(t))
    BY <2>1 DEF UploadResult, Done
  <2>3. r # "failed" => ~Captured("Error:")
    BY <2>1 DEF UploadResult
  <2>4. r = "none" => thread[t] < Len(Work(t))
    BY <1>1, <2>1, <2>2, FilesAssumption
  <2>. QED  BY <2>1, <2>2, <2>3, <2>4
<1>5. ASSUME t \in Downloads PROVE Fits
  <2>1. r = DownloadResult /\ t \notin Uploads /\ Len(Work(t)) = 1
    BY <1>2, <1>5, FilesAssumption, WorkIs
  <2>2. r \in {"complete", "failed"}
    BY <2>1 DEF DownloadResult
  <2>3. r = "complete" => ~ (Dump = <<>> /\ Captured("not found"))
    BY <2>1 DEF DownloadResult
  <2>4. thread[t] = Len(Work(t))
    BY <1>1, <2>1
  <2>. QED  BY <2>1, <2>2, <2>3, <2>4
<1>6. ASSUME t \in Visits PROVE Fits
  <2>1. r = VisitResult(t) /\ t \notin Uploads /\ t \notin Downloads /\ Len(Work(t)) = 2
    BY <1>2, <1>6, FilesAssumption, WorkIs
  <2>2. /\ r \in {"none", "complete"}
        /\ r = "none" => thread[t] # Len(Work(t))
        /\ r = "complete" => thread[t] = Len(Work(t))
    BY <2>1 DEF VisitResult, Done
  <2>3. r = "none" => thread[t] < Len(Work(t))
    BY <1>1, <2>1, <2>2
  <2>. QED  BY <2>1, <2>2, <2>3
<1>7. Fits
  <2>. HIDE DEF Fits
  <2>. QED  BY <1>1, <1>4, <1>5, <1>6 DEF Threads
<1>. QED  BY <1>3, <1>7

LEMMA FilesTypes ==
    ASSUME FilesTyped, [YNext]_yvars
    PROVE  FilesTyped'
<1>1. ASSUME NEW t \in Threads, SendCommand(t)
      PROVE  FilesTyped'
  <2>1. /\ t \notin waiting /\ result[t] = "none" /\ waiting' = waiting \cup {t}
        /\ thread' = [thread EXCEPT ![t] = @ + 1]
        /\ commands' = Append(commands, [by |-> t, n |-> thread[t] + 1])
        /\ capture' = [active |-> TRUE, chunks |-> <<>>]
        /\ UNCHANGED <<result, answers, device, manual, blind>>
    BY <1>1 DEF SendCommand
  <2>2. /\ thread[t] \in Nat /\ Len(Work(t)) \in Nat /\ thread[t] < Len(Work(t))
        /\ thread \in [Threads -> Nat]
    BY <2>1, WorkIs, FilesAssumption DEF FilesTyped, Threads
  <2>3. thread'[t] = thread[t] + 1 /\ \A u \in Threads \ {t} : thread'[u] = thread[u]
    BY <2>1, <2>2
  <2>4. [by |-> t, n |-> thread[t] + 1] \in Command
    BY <2>2 DEF Command
  <2>5. commands \in Seq(Command)
    BY DEF FilesTyped
  <2>6. PICK new : new = [by |-> t, n |-> thread[t] + 1]
    OBVIOUS
  <2>7. /\ commands' \in Seq(Command) /\ Len(commands') = Len(commands) + 1
        /\ commands'[Len(commands) + 1] = new
        /\ \A i \in 1 .. Len(commands) : commands'[i] = commands[i]
    BY <2>1, <2>4, <2>5, <2>6
  <2>8. ASSUME NEW i \in DOMAIN commands'
        PROVE  IF commands'[i].by = Nobody THEN manual' > 0
               ELSE commands'[i].n <= thread'[commands'[i].by]
    <3>1. CASE i = Len(commands) + 1
      <4>1. commands'[i].by = t /\ commands'[i].n = thread[t] + 1
        BY <2>6, <2>7, <3>1
      <4>. QED  BY <2>2, <2>3, <4>1, FilesAssumption
    <3>2. CASE i # Len(commands) + 1
      <4>1. i \in DOMAIN commands /\ commands'[i] = commands[i] /\ commands[i] \in Command
        BY <2>5, <2>7, <3>2
      <4>2. IF commands[i].by = Nobody THEN manual > 0
            ELSE commands[i].n <= thread[commands[i].by]
        BY <4>1 DEF FilesTyped
      <4>3. \A u \in Threads : thread'[u] >= thread[u] /\ thread[u] \in Nat /\ thread'[u] \in Nat
        BY <2>2, <2>3
      <4>4. commands[i].n \in Nat /\ (commands[i].by # Nobody => commands[i].by \in Threads)
        BY <4>1 DEF Command
      <4>5. manual' = manual
        BY <2>1
      <4>. QED  BY <4>1, <4>2, <4>3, <4>4, <4>5
    <3>. QED  BY <3>1, <3>2
  <2>9. ASSUME NEW u \in Threads
        PROVE  /\ thread'[u] <= Len(Work(u))
               /\ u \in waiting' => thread'[u] # 0 /\ result'[u] = "none"
               /\ u \notin waiting' /\ result'[u] = "none" => thread'[u] < Len(Work(u))
               /\ result'[u] = "complete" => thread'[u] = Len(Work(u))
    BY <2>1, <2>2, <2>3 DEF FilesTyped
  <2>10. capture' \in [active : BOOLEAN, chunks : Seq(Answer)] /\ capture'.active = TRUE
    BY <2>1
  <2>11. thread' \in [Threads -> Nat] /\ waiting' \subseteq Threads
    BY <2>1, <2>2 DEF FilesTyped
  <2>. QED  BY <2>1, <2>7, <2>8, <2>9, <2>10, <2>11 DEF FilesTyped, device
<1>2. ASSUME NEW t \in Threads, CaptureEnds(t)
      PROVE  FilesTyped'
  <2>1. /\ t \in waiting /\ waiting' = waiting \ {t} /\ capture' = [active |-> FALSE, chunks |-> <<>>]
        /\ blind' = (blind \/ ~Seen(t))
        /\ UNCHANGED <<thread, commands, answers, device, manual>>
    BY <1>2 DEF CaptureEnds
  <2>2. /\ result' = [result EXCEPT ![t] = result'[t]] /\ result'[t] \in {"none", "complete", "failed"}
        /\ result'[t] = "none" => thread[t] < Len(Work(t))
        /\ result'[t] = "complete" => thread[t] = Len(Work(t))
    BY <1>2, <2>1, ResultIs
  <2>3. blind' \in BOOLEAN
    BY <2>1
  <2>4. capture' \in [active : BOOLEAN, chunks : Seq(Answer)] /\ capture'.chunks = <<>>
    BY <2>1
  <2>5. PICK r : r = result'[t]
    OBVIOUS
  <2>6. result' = [result EXCEPT ![t] = r] /\ r \in {"none", "complete", "failed"}
    BY <2>2, <2>5, Zenon
  <2>7. /\ result' \in [Threads -> {"none", "complete", "failed"}]
        /\ \A u \in Threads \ {t} : result'[u] = result[u]
    BY <2>6 DEF FilesTyped
  <2>8. ASSUME NEW u \in Threads
        PROVE  /\ thread'[u] <= Len(Work(u))
               /\ u \in waiting' => thread'[u] # 0 /\ result'[u] = "none"
               /\ u \notin waiting' /\ result'[u] = "none" => thread'[u] < Len(Work(u))
               /\ result'[u] = "complete" => thread'[u] = Len(Work(u))
    BY <2>1, <2>2, <2>7 DEF FilesTyped
  <2>. QED  BY <2>1, <2>3, <2>4, <2>7, <2>8 DEF FilesTyped, device
<1>3. CASE ManualFinish
  <2>1. /\ manual' = manual + 1 /\ commands' = Append(commands, [by |-> Nobody, n |-> 1])
        /\ UNCHANGED <<thread, waiting, result, answers, capture, device, blind>>
    BY <1>3 DEF ManualFinish
  <2>2. PICK new : new = [by |-> Nobody, n |-> 1]
    OBVIOUS
  <2>3. new \in Command /\ new.by = Nobody
    BY <2>2 DEF Command
  <2>4. /\ commands' \in Seq(Command) /\ Len(commands') = Len(commands) + 1
        /\ commands'[Len(commands) + 1] = new
        /\ \A i \in 1 .. Len(commands) : commands'[i] = commands[i]
    BY <2>1, <2>2, <2>3 DEF FilesTyped
  <2>5. manual \in Nat /\ manual' \in Nat /\ manual' > 0
    BY <2>1 DEF FilesTyped
  <2>6. ASSUME NEW i \in DOMAIN commands'
        PROVE  IF commands'[i].by = Nobody THEN manual' > 0
               ELSE commands'[i].n <= thread[commands'[i].by]
    <3>1. CASE i = Len(commands) + 1
      BY <2>3, <2>4, <2>5, <3>1
    <3>2. CASE i # Len(commands) + 1
      <4>0. commands \in Seq(Command)
        BY DEF FilesTyped
      <4>1. i \in DOMAIN commands /\ commands'[i] = commands[i]
        BY <2>4, <3>2, <4>0
      <4>2. IF commands[i].by = Nobody THEN manual > 0
            ELSE commands[i].n <= thread[commands[i].by]
        BY <4>1 DEF FilesTyped
      <4>. QED  BY <2>5, <4>1, <4>2
    <3>. QED  BY <3>1, <3>2
  <2>. QED  BY <2>1, <2>4, <2>5, <2>6 DEF FilesTyped, device
<1>4. CASE Receive
  <2>1. /\ answers # <<>> /\ answers' = Tail(answers)
        /\ capture' = IF capture.active
                      THEN [capture EXCEPT !.chunks = Append(@, Head(answers))] ELSE capture
        /\ UNCHANGED <<thread, waiting, result, commands, device, manual, blind>>
    BY <1>4 DEF Receive
  <2>2. answers' \in Seq(Answer) /\ Head(answers) \in Answer
    BY <2>1 DEF FilesTyped
  <2>3. /\ capture' \in [active : BOOLEAN, chunks : Seq(Answer)]
        /\ ~capture'.active => capture'.chunks = <<>>
    <3>1. CASE capture.active
      <4>1. capture' = [capture EXCEPT !.chunks = Append(@, Head(answers))]
        BY <2>1, <3>1
      <4>2. Append(capture.chunks, Head(answers)) \in Seq(Answer)
        BY <2>2 DEF FilesTyped
      <4>. QED  BY <3>1, <4>1, <4>2 DEF FilesTyped
    <3>2. CASE ~capture.active
      BY <2>1, <3>2 DEF FilesTyped
    <3>. QED  BY <3>1, <3>2
  <2>. QED  BY <2>1, <2>2, <2>3 DEF FilesTyped, device
<1>5. CASE DeviceRuns
  BY <1>5, DeviceTyped
<1>6. CASE UNCHANGED yvars
  BY <1>6 DEF yvars, device, FilesTyped
<1>. QED  BY <1>1, <1>2, <1>3, <1>4, <1>5, <1>6 DEF YNext

\* what is received and not captured, or taken or cleared with the buffer, leaves the way
LEMMA WayShrinks ==
    ASSUME FilesTyped, UNCHANGED answers, capture'.chunks = <<>>
    PROVE  /\ Way \in Seq(Answer) /\ Way' = answers
           /\ \A i \in DOMAIN answers : /\ i + Len(capture.chunks) \in DOMAIN Way
                                        /\ Way[i + Len(capture.chunks)] = answers[i]
           /\ \A i \in DOMAIN capture.chunks : i \in DOMAIN Way /\ Way[i] = capture.chunks[i]
           /\ Len(capture.chunks) \in Nat
<1>1. PICK a, b : a = capture.chunks /\ b = answers
  OBVIOUS
<1>2. a \in Seq(Answer) /\ b \in Seq(Answer)
  BY <1>1 DEF FilesTyped
<1>3. Way = a \o b /\ Way' = <<>> \o b
  BY <1>1 DEF Way
<1>4. /\ Way \in Seq(Answer) /\ Way' = b /\ Len(a) \in Nat
      /\ \A i \in DOMAIN b : i + Len(a) \in DOMAIN Way /\ Way[i + Len(a)] = b[i]
      /\ \A i \in DOMAIN a : i \in DOMAIN Way /\ Way[i] = a[i]
  BY <1>2, <1>3
<1>. QED  BY <1>1, <1>4

LEMMA Joined ==
    ASSUME NEW S, NEW a \in Seq(S), NEW b \in Seq(S)
    PROVE  /\ a \o b \in Seq(S) /\ Len(a \o b) = Len(a) + Len(b)
           /\ \A i \in 1 .. Len(a) + Len(b) :
                 (a \o b)[i] = IF i <= Len(a) THEN a[i] ELSE b[i - Len(a)]
OBVIOUS

LEMMA WayReceives ==
    ASSUME FilesTyped, Receive
    PROVE  /\ Way \in Seq(Answer) /\ Way' \in Seq(Answer)
           /\ \E k \in Nat : \A i \in DOMAIN Way' : i + k \in DOMAIN Way /\ Way'[i] = Way[i + k]
<1>1. PICK a, b : a = capture.chunks /\ b = answers
  OBVIOUS
<1>2. a \in Seq(Answer) /\ b \in Seq(Answer) /\ b # <<>>
  BY <1>1 DEF FilesTyped, Receive
<1>3. Way = a \o b
  BY <1>1 DEF Way
<1>4. CASE capture.active
  <2>1. Way' = Append(a, Head(b)) \o Tail(b)
    BY <1>1, <1>4 DEF Way, Receive, FilesTyped
  <2>2. PICK h, c, d : h = Head(b) /\ d = Tail(b) /\ c = Append(a, h)
    OBVIOUS
  <2>3. /\ h \in Answer /\ d \in Seq(Answer) /\ Len(b) = Len(d) + 1 /\ b[1] = h
        /\ Len(d) \in Nat /\ \A i \in 1 .. Len(d) : b[i + 1] = d[i]
    BY <1>2, <2>2
  <2>4. /\ c \in Seq(Answer) /\ Len(c) = Len(a) + 1 /\ c[Len(a) + 1] = h /\ Len(a) \in Nat
        /\ \A i \in 1 .. Len(a) : c[i] = a[i]
    BY <1>2, <2>2, <2>3
  <2>5. PICK v, w : v = c \o d /\ w = a \o b
    OBVIOUS
  <2>6. /\ v \in Seq(Answer) /\ Len(v) = Len(c) + Len(d)
        /\ \A i \in 1 .. Len(c) + Len(d) : v[i] = IF i <= Len(c) THEN c[i] ELSE d[i - Len(c)]
    BY <2>3, <2>4, <2>5, Joined
  <2>7. /\ w \in Seq(Answer) /\ Len(w) = Len(a) + Len(b)
        /\ \A i \in 1 .. Len(a) + Len(b) : w[i] = IF i <= Len(a) THEN a[i] ELSE b[i - Len(a)]
    BY <1>2, <2>5, Joined
  <2>8. ASSUME NEW i \in 1 .. Len(w)
        PROVE  i \in 1 .. Len(v) /\ v[i] = w[i]
    <3>1. i \in 1 .. Len(c) + Len(d) /\ i \in 1 .. Len(a) + Len(b)
      BY <2>3, <2>4, <2>7
    <3>2. CASE i <= Len(a)
      BY <2>4, <2>6, <2>7, <3>1, <3>2
    <3>3. CASE i = Len(a) + 1
      BY <2>3, <2>4, <2>6, <2>7, <3>1, <3>3
    <3>4. CASE i > Len(a) + 1
      <4>1. PICK j \in 1 .. Len(d) : i = Len(a) + 1 + j
        <5>1. /\ Len(b) = Len(d) + 1 /\ Len(d) \in Nat /\ Len(a) \in Nat
              /\ i \in Int /\ i <= Len(a) + Len(b)
          BY <2>3, <2>4, <3>1
        <5>2. i - (Len(a) + 1) \in 1 .. Len(d) /\ i = Len(a) + 1 + (i - (Len(a) + 1))
          BY <3>4, <5>1
        <5>. QED  BY <5>2
      <4>2. v[i] = d[j]
        BY <2>4, <2>6, <3>1, <3>4, <4>1
      <4>3. w[i] = b[j + 1]
        BY <2>4, <2>7, <3>1, <3>4, <4>1
      <4>. QED  BY <2>3, <2>4, <2>6, <3>1, <4>2, <4>3
    <3>. QED  BY <2>4, <2>6, <3>1, <3>2, <3>3, <3>4
  <2>9. Way' = v /\ Way = w
    BY <1>3, <2>1, <2>2, <2>5
  <2>10. \A i \in DOMAIN v : i + 0 \in DOMAIN w /\ v[i] = w[i + 0]
    <3>1. Len(v) = Len(w) /\ Len(w) \in Nat
      BY <2>3, <2>4, <2>6, <2>7
    <3>. QED  BY <2>6, <2>7, <2>8, <3>1
  <2>. QED  BY <2>6, <2>7, <2>9, <2>10
<1>5. CASE ~capture.active
  <2>1. a = <<>> /\ Way' = <<>> \o Tail(b)
    BY <1>1, <1>5 DEF Way, Receive, FilesTyped
  <2>2. Way' = Tail(b) /\ Way = b
    BY <1>2, <1>3, <2>1
  <2>3. Tail(b) \in Seq(Answer) /\ \A i \in DOMAIN Tail(b) : i + 1 \in DOMAIN b /\ Tail(b)[i] = b[i + 1]
    BY <1>2
  <2>. QED  BY <1>2, <2>2, <2>3
<1>. QED  BY <1>4, <1>5

\* As long as no thread went on without its answer: a thread has at most one command under
\* way or answered, and the pieces of a dump are next to each other and in order
Commanded ==
    /\ \A i \in DOMAIN commands : commands[i].by \in Threads =>
          commands[i].by \in waiting /\ commands[i].n = thread[commands[i].by]
    /\ \A i, j \in DOMAIN commands :
          commands[i].by = commands[j].by /\ commands[i].by \in Threads => i = j
OnTheWay(a) == a.by \in Threads => /\ a.by \in waiting /\ a.n = thread[a.by]
                                   /\ \A j \in DOMAIN commands : commands[j].by # a.by
Paired(way) ==
    \A i, j \in DOMAIN way : way[i].by = way[j].by =>
       /\ way[i].by \in Threads /\ i # j => way[i].what = "hex"
       /\ way[i].what = "hex" /\ way[j].what = "hex" => way[j].piece - way[i].piece = j - i
AllOnTheWay == \A i \in DOMAIN Way : OnTheWay(Way[i])
Orderly == Commanded /\ AllOnTheWay /\ Paired(Way)

LEMMA StillPaired ==
    ASSUME NEW way \in Seq(Answer), Paired(way), NEW rest \in Seq(Answer), NEW k \in Nat,
           \A i \in DOMAIN rest : i + k \in DOMAIN way /\ rest[i] = way[i + k]
    PROVE  Paired(rest)
<1>. SUFFICES ASSUME NEW i \in DOMAIN rest, NEW j \in DOMAIN rest, rest[i].by = rest[j].by
              PROVE  /\ rest[i].by \in Threads /\ i # j => rest[i].what = "hex"
                     /\ rest[i].what = "hex" /\ rest[j].what = "hex" =>
                           rest[j].piece - rest[i].piece = j - i
  BY DEF Paired
<1>1. i \in Nat /\ j \in Nat
  OBVIOUS
<1>2. /\ i + k \in DOMAIN way /\ j + k \in DOMAIN way
      /\ rest[i] = way[i + k] /\ rest[j] = way[j + k]
  OBVIOUS
<1>3. /\ way[i + k].by \in Threads /\ i + k # j + k => way[i + k].what = "hex"
      /\ way[i + k].what = "hex" /\ way[j + k].what = "hex" =>
            way[j + k].piece - way[i + k].piece = (j + k) - (i + k)
  BY <1>2 DEF Paired
<1>. QED  BY <1>1, <1>2, <1>3

LEMMA OrderlyInit == YInit => FilesTyped /\ Orderly
<1>. SUFFICES ASSUME YInit PROVE FilesTyped /\ Orderly
  OBVIOUS
<1>1. \A t \in Threads : Len(Work(t)) \in Nat /\ Len(Work(t)) > 0
  BY WorkIs, FilesAssumption DEF Threads
<1>2. capture = [active |-> FALSE, chunks |-> <<>>] /\ answers = <<>> /\ commands = <<>>
  BY DEF YInit
<1>3. Way = <<>>
  BY <1>2 DEF Way
<1>4. Orderly
  BY <1>2, <1>3 DEF Orderly, AllOnTheWay, Commanded, Paired
<1>5. capture \in [active : BOOLEAN, chunks : Seq(Answer)] /\ capture.chunks = <<>>
  BY <1>2
<1>6. /\ thread \in [Threads -> Nat] /\ waiting \subseteq Threads
      /\ result \in [Threads -> {"none", "complete", "failed"}]
      /\ \A t \in Threads : thread[t] = 0 /\ result[t] = "none" /\ t \notin waiting
  BY DEF YInit
<1>7. stored \in [Uploads -> Seq(Block)]
  BY DEF YInit
<1>8. /\ handle \in Uploads \cup {Nobody} /\ allocated \in BOOLEAN /\ allocated = FALSE
      /\ directory \in {"root", "sub"} /\ manual \in Nat /\ blind \in BOOLEAN /\ content = <<>>
  BY DEF YInit
<1>9. \A t \in Threads :
          /\ thread[t] <= Len(Work(t))
          /\ t \in waiting => thread[t] # 0 /\ result[t] = "none"
          /\ t \notin waiting /\ result[t] = "none" => thread[t] < Len(Work(t))
          /\ result[t] = "complete" => thread[t] = Len(Work(t))
  BY <1>1, <1>6
<1>10. commands \in Seq(Command) /\ answers \in Seq(Answer) /\ content \in Seq(Block)
  BY <1>2, <1>8
<1>11. FilesTyped
  BY <1>2, <1>5, <1>6, <1>7, <1>8, <1>9, <1>10 DEF FilesTyped
<1>. QED  BY <1>4, <1>11

LEMMA SendOrderly ==
    ASSUME FilesTyped, Orderly, NEW t \in Threads, SendCommand(t)
    PROVE  Orderly'
<1>1. /\ t \notin waiting /\ waiting' = waiting \cup {t}
      /\ thread' = [thread EXCEPT ![t] = @ + 1]
      /\ commands' = Append(commands, [by |-> t, n |-> thread[t] + 1])
      /\ capture' = [active |-> TRUE, chunks |-> <<>>] /\ answers' = answers
  BY DEF SendCommand
<1>2. thread'[t] = thread[t] + 1 /\ \A u \in Threads \ {t} : thread'[u] = thread[u]
  BY <1>1 DEF FilesTyped
<1>3. PICK new : new = [by |-> t, n |-> thread[t] + 1]
  OBVIOUS
<1>4. new.by = t /\ new.n = thread[t] + 1 /\ commands \in Seq(Command)
  BY <1>3 DEF FilesTyped
<1>5. commands' = Append(commands, new)
  BY <1>1, <1>3
<1>6. PICK n \in Nat : n = Len(commands)
  BY <1>4
<1>7. /\ DOMAIN commands = 1 .. n /\ DOMAIN commands' = 1 .. n + 1 /\ commands'[n + 1] = new
      /\ \A i \in 1 .. n : commands'[i] = commands[i]
  BY <1>4, <1>5, <1>6
<1>8. \A i \in 1 .. n : commands[i].by # t
  BY <1>1, <1>7 DEF Orderly, Commanded
<1>9. Commanded'
  <2>1. ASSUME NEW i \in DOMAIN commands', commands'[i].by \in Threads
        PROVE  commands'[i].by \in waiting' /\ commands'[i].n = thread'[commands'[i].by]
    <3>1. CASE i = n + 1
      BY <1>1, <1>2, <1>4, <1>7, <3>1
    <3>2. CASE i \in 1 .. n
      <4>1. commands[i].by \in waiting /\ commands[i].n = thread[commands[i].by]
        BY <1>7, <2>1, <3>2 DEF Orderly, Commanded
      <4>. QED  BY <1>1, <1>2, <1>7, <1>8, <2>1, <3>2, <4>1
    <3>. QED  BY <1>7, <3>1, <3>2
  <2>2. ASSUME NEW i \in DOMAIN commands', NEW j \in DOMAIN commands',
               commands'[i].by = commands'[j].by, commands'[i].by \in Threads
        PROVE  i = j
    <3>1. CASE i \in 1 .. n /\ j \in 1 .. n
      BY <1>7, <2>2, <3>1 DEF Orderly, Commanded
    <3>2. CASE i = n + 1 \/ j = n + 1
      BY <1>4, <1>7, <1>8, <2>2, <3>2
    <3>. QED  BY <1>7, <3>1, <3>2
  <2>. QED  BY <2>1, <2>2 DEF Commanded
<1>10. /\ Way \in Seq(Answer) /\ Way' = answers /\ answers \in Seq(Answer)
       /\ \A i \in DOMAIN answers : /\ i + Len(capture.chunks) \in DOMAIN Way
                                    /\ Way[i + Len(capture.chunks)] = answers[i]
       /\ Len(capture.chunks) \in Nat
  <2>1. capture'.chunks = <<>>
    BY <1>1
  <2>. QED  BY <1>1, <2>1, WayShrinks DEF FilesTyped
<1>11. Paired(answers)
  BY <1>10, StillPaired DEF Orderly
<1>12. ASSUME NEW i \in DOMAIN answers, answers[i].by \in Threads
       PROVE  /\ answers[i].by \in waiting' /\ answers[i].n = thread'[answers[i].by]
              /\ \A j \in DOMAIN commands' : commands'[j].by # answers[i].by
  <2>1. /\ answers[i].by \in waiting /\ answers[i].n = thread[answers[i].by]
        /\ \A j \in DOMAIN commands : commands[j].by # answers[i].by
    BY <1>10, <1>12 DEF Orderly, AllOnTheWay, OnTheWay
  <2>2. answers[i].by # t
    BY <1>1, <2>1
  <2>. QED  BY <1>1, <1>2, <1>4, <1>7, <1>12, <2>1, <2>2
<1>13. AllOnTheWay'
  <2>1. Way' = answers
    BY <1>10
  <2>. QED  BY <1>12, <2>1 DEF AllOnTheWay, OnTheWay
<1>14. Paired(Way)'
  <2>1. Way' = answers
    BY <1>10
  <2>. QED  BY <1>11, <2>1, Zenon DEF Paired
<1>. QED  BY <1>9, <1>13, <1>14 DEF Orderly

LEMMA ManualOrderly ==
    ASSUME FilesTyped, Orderly, ManualFinish
    PROVE  Orderly'
<1>1. /\ commands' = Append(commands, [by |-> Nobody, n |-> 1])
      /\ UNCHANGED <<thread, waiting, answers, capture>>
  BY DEF ManualFinish
<1>2. PICK new : new = [by |-> Nobody, n |-> 1]
  OBVIOUS
<1>3. new.by \notin Threads /\ commands \in Seq(Command) /\ commands' = Append(commands, new)
  BY <1>1, <1>2, FilesAssumption DEF FilesTyped
<1>4. PICK n \in Nat : n = Len(commands)
  BY <1>3
<1>5. /\ DOMAIN commands = 1 .. n /\ DOMAIN commands' = 1 .. n + 1 /\ commands'[n + 1] = new
      /\ \A i \in 1 .. n : commands'[i] = commands[i]
  BY <1>3, <1>4
<1>6. Commanded'
  BY <1>1, <1>3, <1>5 DEF Orderly, Commanded
<1>7. Way' = Way
  BY <1>1 DEF Way
<1>8. AllOnTheWay'
  BY <1>1, <1>3, <1>5, <1>7 DEF Orderly, AllOnTheWay, OnTheWay
<1>9. Paired(Way)'
  BY <1>7, Zenon DEF Orderly, Paired
<1>. QED  BY <1>6, <1>8, <1>9 DEF Orderly

LEMMA ReceiveOrderly ==
    ASSUME FilesTyped, Orderly, Receive
    PROVE  Orderly'
<1>1. UNCHANGED <<thread, waiting, commands>>
  BY DEF Receive
<1>2. PICK k \in Nat : \A i \in DOMAIN Way' : i + k \in DOMAIN Way /\ Way'[i] = Way[i + k]
  BY WayReceives
<1>3. PICK way : way = Way'
  OBVIOUS
<1>4. /\ way \in Seq(Answer) /\ Way \in Seq(Answer)
      /\ \A i \in DOMAIN way : i + k \in DOMAIN Way /\ way[i] = Way[i + k]
  BY <1>2, <1>3, WayReceives
<1>5. Paired(way)
  BY <1>4, StillPaired DEF Orderly
<1>6. Commanded'
  BY <1>1 DEF Orderly, Commanded
<1>7. AllOnTheWay'
  BY <1>1, <1>3, <1>4 DEF Orderly, AllOnTheWay, OnTheWay
<1>8. Paired(Way)'
  BY <1>3, <1>5, Zenon DEF Paired
<1>. QED  BY <1>6, <1>7, <1>8 DEF Orderly

\* what an answer may be, by whose command it answers
AnswerFits(a) ==
    /\ a.what = "hex" => a.by \in Downloads /\ a.piece \in 1 .. Pieces
    /\ a.by \in Uploads \cup {Nobody} => a.what \in {"ok", "Error:"}
    /\ a.by \in Downloads => a.what \in {"hex", "not found"}
    /\ a.by \in Visits => IF a.n = 2 THEN a.what \in {"root", "sub"} ELSE a.what = "ok"
AnswersFit == \A i \in DOMAIN Way : AnswerFits(Way[i])

LEMMA DeviceAnswers ==
    ASSUME FilesTyped, DeviceRuns, NEW c, c = Head(commands)
    PROVE  \E pieces \in Seq(Whats) :
              /\ AnsweredIn(c, pieces)
              /\ Len(pieces) = 1 \/ (\A p \in 1 .. Len(pieces) : pieces[p] = "hex")
              /\ \A p \in 1 .. Len(pieces) :
                    AnswerFits([by |-> c.by, n |-> c.n, what |-> pieces[p], piece |-> p])
<1>1. commands # <<>> /\ c \in Command /\ (c.by \in Threads => c.n <= thread[c.by])
  BY FirstCommand DEF DeviceRuns
<1>. DEFINE Answering(what) == /\ what \in Whats /\ Answered(c, what)
                               /\ AnswerFits([by |-> c.by, n |-> c.n, what |-> what, piece |-> 1])
<1>2. ASSUME NEW what, Answering(what)
      PROVE  \E pieces \in Seq(Whats) :
                /\ AnsweredIn(c, pieces)
                /\ Len(pieces) = 1 \/ (\A p \in 1 .. Len(pieces) : pieces[p] = "hex")
                /\ \A p \in 1 .. Len(pieces) :
                      AnswerFits([by |-> c.by, n |-> c.n, what |-> pieces[p], piece |-> p])
  <2>1. PICK pieces : pieces = <<what>>
    OBVIOUS
  <2>2. pieces \in Seq(Whats) /\ Len(pieces) = 1 /\ pieces[1] = what /\ AnsweredIn(c, pieces)
    BY <1>2, <2>1, OneAnswer
  <2>3. \A p \in 1 .. Len(pieces) : p = 1
    BY <2>2
  <2>. QED  BY <1>2, <2>2, <2>3
<1>3. c.by \in Uploads \cup {Nobody} =>
         /\ c.by \notin Downloads /\ c.by \notin Visits
         /\ \A what \in {"ok", "Error:"} :
               AnswerFits([by |-> c.by, n |-> c.n, what |-> what, piece |-> 1])
  BY FilesAssumption DEF AnswerFits, Threads
<1>4. {"ok", "Error:"} \subseteq Whats /\ {"root", "sub"} \subseteq Whats
  BY DEF Whats
<1>5. CASE StoreAlloc(c) \/ StoreAppend(c) \/ StoreFinish(c)
  <2>1. c.by \in Uploads \cup {Nobody}
    <3>1. \E op \in {"alloc", "append", "finish"} : Runs(c, op)
      BY <1>5 DEF StoreAlloc, StoreAppend, StoreFinish
    <3>. QED  BY <1>1, <3>1, RunsWhat
  <2>2. PICK what \in {"ok", "Error:"} : Answered(c, what)
    BY <1>5 DEF StoreAlloc, StoreAppend, StoreFinish
  <2>3. Answering(what)
    BY <1>3, <1>4, <2>1, <2>2
  <2>. QED  BY <1>2, <2>3
<1>6. CASE Cat(c)
  <2>1. c.by \in Downloads /\ c.by \notin Uploads \cup {Nobody} /\ c.by \notin Visits
    <3>1. Runs(c, "cat")
      BY <1>6 DEF Cat
    <3>. QED  BY <1>1, <3>1, RunsWhat, FilesAssumption DEF Threads
  <2>2. PICK pieces \in Seq(Whats) :
          /\ AnsweredIn(c, pieces)
          /\ \/ directory # "root" /\ pieces = <<"not found">>
             \/ Len(pieces) = Pieces /\ \A p \in 1 .. Pieces : pieces[p] = "hex"
    BY <1>6, CatAnswers
  <2>3. CASE pieces = <<"not found">>
    <3>0. PICK missing : missing = "not found" /\ pieces = <<missing>>
      BY <2>3
    <3>1. Len(pieces) = 1 /\ pieces[1] = "not found" /\ \A p \in 1 .. Len(pieces) : p = 1
      <4>1. Len(<<missing>>) = 1 /\ <<missing>>[1] = missing
        OBVIOUS
      <4>2. Len(pieces) = 1 /\ pieces[1] = missing
        BY <3>0, <4>1, Zenon
      <4>3. pieces[1] = "not found"
        BY <3>0, <4>2, Zenon
      <4>4. \A p \in 1 .. 1 : p = 1
        OBVIOUS
      <4>. QED  BY <4>2, <4>3, <4>4, Zenon
    <3>2. AnswerFits([by |-> c.by, n |-> c.n, what |-> "not found", piece |-> 1])
      BY <2>1 DEF AnswerFits
    <3>3. \A p \in 1 .. Len(pieces) :
             AnswerFits([by |-> c.by, n |-> c.n, what |-> pieces[p], piece |-> p])
      BY <3>1, <3>2
    <3>. QED  BY <2>2, <3>1, <3>3
  <2>4. CASE Len(pieces) = Pieces /\ \A p \in 1 .. Pieces : pieces[p] = "hex"
    <3>1. \A p \in 1 .. Pieces :
             AnswerFits([by |-> c.by, n |-> c.n, what |-> "hex", piece |-> p])
      BY <2>1 DEF AnswerFits
    <3>. QED  BY <2>2, <2>4, <3>1
  <2>. QED  BY <2>2, <2>3, <2>4
<1>7. CASE ChangeDir(c) \/ Dir(c)
  <2>1. c.by \in Visits /\ c.by \notin Uploads \cup {Nobody} /\ c.by \notin Downloads
    <3>1. \E op \in {"cd", "dir"} : Runs(c, op)
      BY <1>7 DEF ChangeDir, Dir
    <3>. QED  BY <1>1, <3>1, RunsWhat, FilesAssumption DEF Threads
  <2>2. PICK what : /\ Answered(c, what)
                    /\ IF c.n = 2 THEN what \in {"root", "sub"} ELSE what = "ok"
    <3>1. CASE ChangeDir(c)
      <4>1. c.n = 1
        BY <1>1, <3>1, RunsWhat DEF ChangeDir
      <4>. QED  BY <3>1, <4>1 DEF ChangeDir
    <3>2. CASE Dir(c)
      <4>1. c.n = 2
        BY <1>1, <3>2, RunsWhat DEF Dir
      <4>. QED  BY <3>2, <4>1 DEF Dir, FilesTyped
    <3>. QED  BY <1>7, <3>1, <3>2
  <2>3. what \in Whats /\ what # "hex"
    BY <1>4, <2>2
  <2>4. AnswerFits([by |-> c.by, n |-> c.n, what |-> what, piece |-> 1])
    BY <2>1, <2>2, <2>3 DEF AnswerFits
  <2>. QED  BY <1>2, <2>2, <2>3, <2>4
<1>. QED  BY <1>5, <1>6, <1>7 DEF DeviceRuns

LEMMA StillFit ==
    ASSUME FilesTyped, AnswersFit, [YNext]_yvars
    PROVE  AnswersFit'
<1>1. ASSUME NEW t \in Threads, SendCommand(t) \/ CaptureEnds(t)
      PROVE  AnswersFit'
  <2>1. answers' = answers /\ capture'.chunks = <<>>
    BY <1>1 DEF SendCommand, CaptureEnds
  <2>2. Way' = answers /\ \A i \in DOMAIN answers : /\ i + Len(capture.chunks) \in DOMAIN Way
                                                    /\ Way[i + Len(capture.chunks)] = answers[i]
    BY <2>1, WayShrinks
  <2>3. ASSUME NEW i \in DOMAIN answers
        PROVE  AnswerFits(answers[i])
    BY <2>2 DEF AnswersFit
  <2>. QED  BY <2>2, <2>3 DEF AnswersFit, AnswerFits
<1>2. CASE ManualFinish
  <2>1. Way' = Way
    BY <1>2 DEF ManualFinish, Way
  <2>. QED  BY <2>1 DEF AnswersFit, AnswerFits
<1>3. CASE Receive
  <2>1. PICK k \in Nat : \A i \in DOMAIN Way' : i + k \in DOMAIN Way /\ Way'[i] = Way[i + k]
    BY <1>3, WayReceives
  <2>2. PICK way : way = Way'
    OBVIOUS
  <2>3. ASSUME NEW i \in DOMAIN way
        PROVE  AnswerFits(way[i])
    <3>1. i + k \in DOMAIN Way /\ way[i] = Way[i + k]
      BY <2>1, <2>2
    <3>. QED  BY <3>1 DEF AnswersFit
  <2>. QED  BY <2>2, <2>3 DEF AnswersFit, AnswerFits
<1>4. CASE DeviceRuns
  <2>1. PICK c : c = Head(commands)
    OBVIOUS
  <2>2. PICK pieces \in Seq(Whats) :
          /\ AnsweredIn(c, pieces)
          /\ \A p \in 1 .. Len(pieces) :
                AnswerFits([by |-> c.by, n |-> c.n, what |-> pieces[p], piece |-> p])
    BY <1>4, <2>1, DeviceAnswers
  <2>3. PICK m, l \in Nat : m = Len(Way) /\ l = Len(pieces)
    BY <1>4, <2>1, <2>2, AnswersAre DEF DeviceRuns
  <2>4. PICK way : way = Way'
    OBVIOUS
  <2>5. /\ way \in Seq(Answer) /\ Len(way) = m + l /\ Way \in Seq(Answer)
        /\ \A i \in 1 .. m : way[i] = Way[i]
        /\ \A p \in 1 .. l : way[m + p] = [by |-> c.by, n |-> c.n, what |-> pieces[p], piece |-> p]
    <3>1. Way \in Seq(Answer)
      BY Joined DEF Way, FilesTyped
    <3>. QED  BY <1>4, <2>1, <2>2, <2>3, <2>4, <3>1, AnswersAre DEF DeviceRuns
  <2>6. ASSUME NEW i \in DOMAIN way
        PROVE  AnswerFits(way[i])
    <3>1. CASE i \in 1 .. m
      BY <2>3, <2>5, <3>1 DEF AnswersFit
    <3>2. CASE i \notin 1 .. m
      <4>1. i - m \in 1 .. l /\ i = m + (i - m)
        BY <2>3, <2>5, <3>2
      <4>. QED  BY <2>2, <2>3, <2>5, <4>1
    <3>. QED  BY <3>1, <3>2
  <2>. QED  BY <2>4, <2>6 DEF AnswersFit, AnswerFits
<1>5. CASE UNCHANGED yvars
  BY <1>5 DEF yvars, AnswersFit, AnswerFits, Way
<1>. QED  BY <1>1, <1>2, <1>3, <1>4, <1>5 DEF YNext

\* a thread that goes on with its answer leaves nothing behind
LEMMA NothingLeft ==
    ASSUME FilesTyped, Orderly, AnswersFit, NEW t \in Threads, CaptureEnds(t), Seen(t)
    PROVE  /\ \A i \in DOMAIN answers : answers[i].by # t
           /\ \A i \in DOMAIN commands : commands[i].by # t
           /\ \E j \in DOMAIN capture.chunks :
                 j \in DOMAIN Way /\ Way[j] = capture.chunks[j] /\ Way[j].by = t
<1>1. PICK n, chunks : n = Len(capture.chunks) /\ chunks = capture.chunks
  OBVIOUS
<1>2. /\ chunks \in Seq(Answer) /\ answers \in Seq(Answer) /\ Way \in Seq(Answer)
      /\ n = Len(chunks) /\ n \in Nat
      /\ \A i \in DOMAIN answers : i + n \in DOMAIN Way /\ Way[i + n] = answers[i]
      /\ \A i \in DOMAIN chunks : i \in DOMAIN Way /\ Way[i] = chunks[i]
  <2>1. answers' = answers /\ capture'.chunks = <<>>
    BY DEF CaptureEnds
  <2>. QED  BY <1>1, <2>1, WayShrinks DEF FilesTyped
<1>3. Own(t) = {a \in Range(chunks) : a.by = t /\ a.n = thread[t]}
  BY <1>1 DEF Own
<1>4. \A a \in Own(t) : \E j \in DOMAIN chunks : a = chunks[j] /\ a.by = t
  BY <1>3 DEF Range
<1>5. PICK j \in DOMAIN chunks : chunks[j].by = t
  BY <1>4 DEF Seen
<1>6. j \in DOMAIN Way /\ Way[j].by = t
  BY <1>2, <1>5
<1>7. \A i \in DOMAIN commands : commands[i].by # t
  BY <1>6 DEF Orderly, AllOnTheWay, OnTheWay
<1>8. ASSUME NEW i \in DOMAIN answers, answers[i].by = t
      PROVE  FALSE
  <2>1. PICK k \in Nat : k = i + n /\ k > n /\ k \in DOMAIN Way /\ Way[k].by = t
    BY <1>2, <1>8
  <2>2. \A f \in DOMAIN chunks : f # k
    BY <1>2, <2>1
  <2>3. ASSUME NEW f \in DOMAIN chunks, chunks[f].by = t
        PROVE  /\ Way[f] = chunks[f] /\ Way[f].what = "hex" /\ Way[k].what = "hex"
               /\ Way[k].piece - Way[f].piece = k - f
    <3>1. f \in DOMAIN Way /\ Way[f] = chunks[f] /\ f # k /\ Way[f].by = Way[k].by
      BY <1>2, <2>1, <2>2, <2>3
    <3>2. Way[f].what = "hex" /\ Way[k].what = "hex"
      BY <2>1, <3>1 DEF Orderly, Paired
    <3>. QED  BY <2>1, <3>1, <3>2 DEF Orderly, Paired
  <2>4. Way[k].piece \in 1 .. Pieces
    BY <1>5, <2>1, <2>3 DEF AnswersFit, AnswerFits
  <2>5. \E a \in Own(t) : a.what = "hex"
    <3>1. PICK a \in Own(t) : TRUE
      BY DEF Seen
    <3>2. PICK f \in DOMAIN chunks : a = chunks[f] /\ a.by = t
      BY <1>4
    <3>. QED  BY <2>3, <3>2
  <2>6. Way[k].piece \in {a.piece : a \in Own(t)}
    BY <2>4, <2>5 DEF Seen
  <2>7. PICK a \in Own(t) : a.piece = Way[k].piece
    BY <2>6
  <2>8. PICK f \in DOMAIN chunks : a = chunks[f] /\ a.by = t
    BY <1>4
  <2>9. Way[k].piece - Way[f].piece = k - f /\ Way[f].piece = Way[k].piece
    BY <2>3, <2>7, <2>8
  <2>10. k - f = 0 /\ f \in Nat
    BY <1>2, <2>4, <2>9
  <2>. QED  BY <2>1, <2>2, <2>8, <2>10
<1>9. \A i \in DOMAIN answers : answers[i].by # t
  BY <1>8
<1>. QED  BY <1>1, <1>2, <1>5, <1>6, <1>7, <1>9

LEMMA EndOrderly ==
    ASSUME FilesTyped, Orderly, AnswersFit, NEW t \in Threads, CaptureEnds(t), Seen(t)
    PROVE  Orderly'
<1>1. /\ waiting' = waiting \ {t} /\ capture'.chunks = <<>>
      /\ UNCHANGED <<thread, commands, answers>>
  BY DEF CaptureEnds
<1>2. /\ Way \in Seq(Answer) /\ Way' = answers /\ answers \in Seq(Answer)
      /\ \A i \in DOMAIN answers : /\ i + Len(capture.chunks) \in DOMAIN Way
                                   /\ Way[i + Len(capture.chunks)] = answers[i]
      /\ Len(capture.chunks) \in Nat
  BY <1>1, WayShrinks DEF FilesTyped
<1>3. Paired(answers)
  BY <1>2, StillPaired DEF Orderly
<1>4. /\ \A i \in DOMAIN answers : answers[i].by # t
      /\ \A i \in DOMAIN commands : commands[i].by # t
  BY NothingLeft
<1>5. Commanded'
  BY <1>1, <1>4 DEF Orderly, Commanded
<1>6. ASSUME NEW i \in DOMAIN answers, answers[i].by \in Threads
      PROVE  /\ answers[i].by \in waiting' /\ answers[i].n = thread[answers[i].by]
             /\ \A j \in DOMAIN commands : commands[j].by # answers[i].by
  BY <1>1, <1>2, <1>4, <1>6 DEF Orderly, AllOnTheWay, OnTheWay
<1>7. AllOnTheWay'
  BY <1>1, <1>2, <1>6 DEF AllOnTheWay, OnTheWay
<1>8. Paired(Way)'
  <2>1. Way' = answers
    BY <1>2
  <2>. QED  BY <1>3, <2>1, Zenon DEF Paired
<1>. QED  BY <1>5, <1>7, <1>8 DEF Orderly

LEMMA DeviceOrderly ==
    ASSUME FilesTyped, Orderly, DeviceRuns
    PROVE  Orderly'
<1>1. PICK c : c = Head(commands)
  OBVIOUS
<1>2. PICK pieces \in Seq(Whats) :
        /\ AnsweredIn(c, pieces)
        /\ Len(pieces) = 1 \/ (\A p \in 1 .. Len(pieces) : pieces[p] = "hex")
        /\ \A p \in 1 .. Len(pieces) :
              AnswerFits([by |-> c.by, n |-> c.n, what |-> pieces[p], piece |-> p])
  BY <1>1, DeviceAnswers
<1>3. UNCHANGED <<thread, waiting>> /\ 1 \in DOMAIN commands /\ c = commands[1] /\ c \in Command
  BY <1>1, <1>2, FirstCommand DEF AnsweredIn, DeviceRuns
<1>4. PICK m, l \in Nat : m = Len(Way) /\ l = Len(pieces)
  BY <1>1, <1>2, AnswersAre DEF DeviceRuns
<1>5. PICK way : way = Way'
  OBVIOUS
<1>6. /\ way \in Seq(Answer) /\ Len(way) = m + l /\ Way \in Seq(Answer)
      /\ \A i \in 1 .. m : way[i] = Way[i]
      /\ \A p \in 1 .. l : way[m + p] = [by |-> c.by, n |-> c.n, what |-> pieces[p], piece |-> p]
      /\ \A i \in DOMAIN commands' : /\ i + 1 \in DOMAIN commands /\ commands'[i] = commands[i + 1]
                                     /\ i \in Nat \ {0}
  <2>1. Way \in Seq(Answer)
    BY Joined DEF Way, FilesTyped
  <2>2. commands' \in Seq(Command)
    BY <1>1, <1>2, AnswersAre DEF DeviceRuns
  <2>3. \A i \in DOMAIN commands' : i \in Nat \ {0}
    BY <2>2
  <2>. QED  BY <1>1, <1>2, <1>4, <1>5, <2>1, <2>3, AnswersAre DEF DeviceRuns
<1>7. \A i \in 1 .. m : i \in DOMAIN Way
  BY <1>4, <1>6
<1>0. ASSUME NEW p \in 1 .. l
      PROVE  /\ way[m + p].by = c.by /\ way[m + p].n = c.n
             /\ way[m + p].what = pieces[p] /\ way[m + p].piece = p
  <2>1. PICK a : a = way[m + p]
    OBVIOUS
  <2>2. a = [by |-> c.by, n |-> c.n, what |-> pieces[p], piece |-> p]
    BY <1>6, <2>1
  <2>. QED  BY <2>1, <2>2
<1>8. Commanded'
  <2>1. ASSUME NEW i \in DOMAIN commands', commands'[i].by \in Threads
        PROVE  commands'[i].by \in waiting /\ commands'[i].n = thread[commands'[i].by]
    BY <1>6, <2>1 DEF Orderly, Commanded
  <2>2. ASSUME NEW i \in DOMAIN commands', NEW j \in DOMAIN commands',
               commands'[i].by = commands'[j].by, commands'[i].by \in Threads
        PROVE  i = j
    <3>1. i + 1 = j + 1
      BY <1>6, <2>2 DEF Orderly, Commanded
    <3>. QED  BY <1>6, <3>1
  <2>. QED  BY <1>3, <2>1, <2>2 DEF Commanded
<1>9. c.by \in Threads => /\ c.by \in waiting /\ c.n = thread[c.by]
                          /\ \A j \in DOMAIN commands' : commands'[j].by # c.by
                          /\ \A i \in 1 .. m : way[i].by # c.by
  <2>. SUFFICES ASSUME c.by \in Threads
                PROVE  /\ c.by \in waiting /\ c.n = thread[c.by]
                       /\ \A j \in DOMAIN commands' : commands'[j].by # c.by
                       /\ \A i \in 1 .. m : way[i].by # c.by
    OBVIOUS
  <2>1. c.by \in waiting /\ c.n = thread[c.by]
    BY <1>3 DEF Orderly, Commanded
  <2>2. ASSUME NEW j \in DOMAIN commands', commands'[j].by = c.by
        PROVE  FALSE
    <3>1. j + 1 = 1
      BY <1>3, <1>6, <2>2 DEF Orderly, Commanded
    <3>. QED  BY <1>6, <3>1
  <2>3. ASSUME NEW i \in 1 .. m, way[i].by = c.by
        PROVE  FALSE
    BY <1>3, <1>6, <1>7, <2>3 DEF Orderly, AllOnTheWay, OnTheWay
  <2>. QED  BY <2>1, <2>2, <2>3
<1>10. ASSUME NEW i \in DOMAIN way
       PROVE  \/ i \in 1 .. m /\ i \in DOMAIN Way /\ way[i] = Way[i]
              \/ \E p \in 1 .. l : i = m + p /\ p = i - m
  <2>1. CASE i \in 1 .. m
    BY <1>6, <1>7, <2>1
  <2>2. CASE i \notin 1 .. m
    <3>1. i - m \in 1 .. l /\ i = m + (i - m)
      BY <1>4, <1>6, <2>2
    <3>. QED  BY <3>1
  <2>. QED  BY <2>1, <2>2
<1>11. ASSUME NEW i \in DOMAIN way, way[i].by \in Threads
       PROVE  /\ way[i].by \in waiting /\ way[i].n = thread[way[i].by]
              /\ \A j \in DOMAIN commands' : commands'[j].by # way[i].by
  <2>1. CASE i \in 1 .. m /\ i \in DOMAIN Way /\ way[i] = Way[i]
    BY <1>6, <1>11, <2>1 DEF Orderly, AllOnTheWay, OnTheWay
  <2>2. CASE \E p \in 1 .. l : i = m + p /\ p = i - m
    <3>1. PICK p \in 1 .. l : i = m + p
      BY <2>2
    <3>2. way[i].by = c.by /\ way[i].n = c.n
      BY <1>0, <3>1
    <3>. QED  BY <1>9, <1>11, <3>2, Zenon
  <2>. QED  BY <1>10, <2>1, <2>2
<1>12. AllOnTheWay'
  BY <1>3, <1>5, <1>11 DEF AllOnTheWay, OnTheWay
<1>13. Paired(way)
  <2>. SUFFICES ASSUME NEW i \in DOMAIN way, NEW j \in DOMAIN way, way[i].by = way[j].by
                PROVE  /\ way[i].by \in Threads /\ i # j => way[i].what = "hex"
                       /\ way[i].what = "hex" /\ way[j].what = "hex" =>
                             way[j].piece - way[i].piece = j - i
    BY DEF Paired
  <2>1. CASE i \in DOMAIN Way /\ way[i] = Way[i] /\ j \in DOMAIN Way /\ way[j] = Way[j]
    BY <2>1 DEF Orderly, Paired
  <2>2. ASSUME NEW p \in 1 .. l, i = m + p, NEW q \in 1 .. l, j = m + q
        PROVE  /\ way[i].by \in Threads /\ i # j => way[i].what = "hex"
               /\ way[i].what = "hex" /\ way[j].what = "hex" =>
                     way[j].piece - way[i].piece = j - i
    <3>1. way[i].what = pieces[p] /\ way[i].piece = p /\ way[j].piece = q
      BY <1>0, <2>2
    <3>2. i # j => l # 1
      BY <2>2
    <3>. QED  BY <1>2, <1>4, <2>2, <3>1, <3>2
  <2>3. ASSUME NEW e \in 1 .. m, NEW p \in 1 .. l, way[e].by = way[m + p].by
        PROVE  way[e].by \notin Threads /\ way[m + p].what # "hex"
    <3>1. way[m + p].by = c.by /\ way[m + p].what = pieces[p]
      BY <1>0
    <3>2. c.by \notin Threads
      BY <1>9, <2>3, <3>1
    <3>3. pieces[p] # "hex"
      BY <1>2, <1>4, <3>2 DEF AnswerFits, Threads
    <3>. QED  BY <2>3, <3>1, <3>2, <3>3
  <2>4. CASE i \in 1 .. m /\ \E p \in 1 .. l : j = m + p /\ p = j - m
    BY <2>3, <2>4
  <2>5. CASE j \in 1 .. m /\ \E p \in 1 .. l : i = m + p /\ p = i - m
    BY <2>3, <2>5
  <2>. QED  BY <1>10, <2>1, <2>2, <2>4, <2>5
<1>14. Paired(Way)'
  BY <1>5, <1>13, Zenon DEF Paired
<1>. QED  BY <1>8, <1>12, <1>14 DEF Orderly

\* the pieces 1 .. n of a dump
Dumped(n) == [i \in 1 .. n |-> i]

LEMMA DumpedIs ==
    ASSUME NEW n \in Nat
    PROVE  /\ Append(Dumped(n), n + 1) = Dumped(n + 1) /\ Dumped(0) = <<>>
<1>1. /\ Dumped(n) \in Seq(Nat) /\ Len(Dumped(n)) = n
      /\ Dumped(n + 1) \in Seq(Nat) /\ Len(Dumped(n + 1)) = n + 1
      /\ \A i \in 1 .. n : Dumped(n)[i] = i
      /\ \A i \in 1 .. n + 1 : Dumped(n + 1)[i] = i
  BY DEF Dumped
<1>2. PICK a : a = Append(Dumped(n), n + 1)
  OBVIOUS
<1>3. /\ a \in Seq(Nat) /\ Len(a) = n + 1 /\ a[n + 1] = n + 1
      /\ \A i \in 1 .. n : a[i] = Dumped(n)[i]
  BY <1>1, <1>2
<1>4. \A i \in 1 .. n + 1 : a[i] = i
  <2>. TAKE i \in 1 .. n + 1
  <2>1. i = n + 1 \/ i \in 1 .. n
    OBVIOUS
  <2>. QED  BY <1>1, <1>3, <2>1
<1>5. a = Dumped(n + 1)
  BY <1>1, <1>3, <1>4
<1>6. Dumped(0) = <<>>
  BY DEF Dumped
<1>. QED  BY <1>2, <1>5, <1>6

LEMMA DumpSteps ==
    ASSUME NEW chunks, chunks = capture.chunks, NEW n \in Nat, DOMAIN chunks = 1 .. n
    PROVE  \E steps : Steps("dump", chunks, <<>>, n, steps) /\ steps[n] = Dump
<1>1. PICK at : at = CHOOSE g : IsFold("dump", chunks, <<>>, DOMAIN chunks, g)
  OBVIOUS
<1>2. IsFold("dump", chunks, <<>>, 1 .. n, at)
  BY <1>1, FoldExists
<1>3. Dump = (CHOOSE g : IsFold("dump", chunks, <<>>, DOMAIN chunks, g))[DOMAIN chunks]
  BY DEF Dump, FoldLeft, MapThenFoldSet, IsFold, FoldStep, One
<1>4. \E steps : Steps("dump", chunks, <<>>, n, steps) /\ steps[n] = at[1 .. n]
  BY <1>2, FoldSteps
<1>5. Dump = at[1 .. n]
  BY <1>1, <1>3
<1>. QED  BY <1>4, <1>5

\* of n chunks the m behind the first o are the pieces of a dump
DumpLies(chunks, n, o, m) ==
    /\ n \in Nat /\ DOMAIN chunks = 1 .. n /\ o \in Nat /\ m \in Nat /\ o + m <= n
    /\ \A i \in 1 .. n : /\ chunks[i].what = "hex" <=> i - o \in 1 .. m
                         /\ chunks[i].what = "hex" => chunks[i].piece = i - o

LEMMA DumpIs ==
    ASSUME NEW chunks, chunks = capture.chunks, NEW n, NEW o, NEW m, DumpLies(chunks, n, o, m)
    PROVE  Dump = Dumped(m)
<1>0. /\ n \in Nat /\ DOMAIN chunks = 1 .. n /\ o \in Nat /\ m \in Nat /\ o + m <= n
      /\ \A i \in 1 .. n : /\ chunks[i].what = "hex" <=> i - o \in 1 .. m
                           /\ chunks[i].what = "hex" => chunks[i].piece = i - o
  BY DEF DumpLies
<1>1. PICK steps : Steps("dump", chunks, <<>>, n, steps) /\ steps[n] = Dump
  BY <1>0, DumpSteps
<1>. DEFINE Pos(i) == IF i <= o THEN 0 ELSE IF i <= o + m THEN i - o ELSE m
            T == {i \in 0 .. n : steps[i] # Dumped(Pos(i))}
<1>2. \A i \in 1 .. n : steps[i] = TakeBytes(steps[i - 1], chunks[i])
  BY <1>0, <1>1 DEF Steps, One
<1>3. steps[0] = <<>>
  BY <1>1 DEF Steps
<1>4. T = {}
  <2>. SUFFICES ASSUME T # {} PROVE FALSE
    OBVIOUS
  <2>1. PICK k \in Nat : k \in T /\ \A j \in T : k <= j
    <3>1. T \subseteq Nat
      BY <1>0
    <3>. HIDE DEF T
    <3>. QED  BY <3>1, Smallest
  <2>2. k \in 0 .. n /\ steps[k] # Dumped(Pos(k))
    BY <2>1
  <2>3. k # 0
    <3>1. Pos(0) = 0
      BY <1>0
    <3>. QED  BY <1>3, <2>2, <3>1, DumpedIs
  <2>4. PICK j \in Nat : j = k - 1 /\ j \in 0 .. n /\ j \notin T
    <3>1. k - 1 \in Nat /\ k - 1 \in 0 .. n /\ ~ (k <= k - 1)
      BY <1>0, <2>2, <2>3
    <3>. HIDE DEF T
    <3>. QED  BY <2>1, <3>1
  <2>5. steps[j] = Dumped(Pos(j))
    BY <2>4
  <2>6. steps[k] = TakeBytes(Dumped(Pos(j)), chunks[k]) /\ k \in 1 .. n
    BY <1>0, <1>2, <2>2, <2>3, <2>4, <2>5
  <2>7. CASE k - o \in 1 .. m
    <3>1. Pos(k) = k - o /\ Pos(j) = k - o - 1 /\ k - o - 1 \in Nat
      BY <1>0, <2>2, <2>4, <2>7
    <3>2. chunks[k].what = "hex" /\ chunks[k].piece = k - o
      BY <1>0, <2>6, <2>7
    <3>3. PICK p \in Nat : p = k - o - 1
      BY <3>1
    <3>4. Append(Dumped(p), p + 1) = Dumped(p + 1)
      BY DumpedIs
    <3>5. chunks[k].piece = p + 1 /\ Pos(j) = p /\ Pos(k) = p + 1
      BY <1>0, <2>2, <3>1, <3>2, <3>3
    <3>6. steps[k] = Append(Dumped(p), p + 1)
      BY <2>6, <3>2, <3>5 DEF TakeBytes
    <3>. QED  BY <2>2, <3>4, <3>5, <3>6
  <2>8. CASE k - o \notin 1 .. m
    <3>1. chunks[k].what # "hex"
      BY <1>0, <2>6, <2>8
    <3>2. Pos(k) = Pos(j)
      BY <1>0, <2>2, <2>3, <2>4, <2>8
    <3>3. steps[k] = Dumped(Pos(j))
      BY <2>6, <3>1 DEF TakeBytes
    <3>. QED  BY <2>2, <3>2, <3>3
  <2>. QED  BY <2>7, <2>8
<1>5. steps[n] = Dumped(Pos(n)) /\ Pos(n) = m
  <2>1. n \in 0 .. n /\ n \notin T
    BY <1>0, <1>4
  <2>2. Pos(n) = m
    BY <1>0
  <2>. QED  BY <2>1, <2>2
<1>. QED  BY <1>1, <1>5

\* the hypothesis: one download at a time, see README.md
OneDownload == \A d, e \in Downloads : d = e

LEMMA DumpWhole ==
    ASSUME FilesTyped, Orderly, AnswersFit, OneDownload, NEW t \in Downloads, CaptureEnds(t), Seen(t),
           result'[t] = "complete"
    PROVE  Dump = Dumped(Pieces)
<1>1. PICK chunks, n : chunks = capture.chunks /\ n = Len(chunks)
  OBVIOUS
<1>2. t \in Threads /\ t \in waiting
  BY DEF Threads, CaptureEnds
<1>3. /\ chunks \in Seq(Answer) /\ n \in Nat /\ DOMAIN chunks = 1 .. n
      /\ \A i \in DOMAIN chunks : i \in DOMAIN Way /\ Way[i] = chunks[i]
  <2>1. answers' = answers /\ capture'.chunks = <<>>
    BY DEF CaptureEnds
  <2>2. chunks \in Seq(Answer)
    BY <1>1 DEF FilesTyped
  <2>. QED  BY <1>1, <2>1, <2>2, WayShrinks
<1>4. ASSUME NEW i \in 1 .. n
      PROVE  /\ AnswerFits(chunks[i]) /\ (chunks[i].what = "hex" => chunks[i].by = t)
             /\ chunks[i].by = t => chunks[i].n = thread[t] /\ chunks[i].what \in {"hex", "not found"}
  <2>1. AnswerFits(chunks[i])
    BY <1>3 DEF AnswersFit
  <2>2. chunks[i].what = "hex" => chunks[i].by = t
    BY <2>1 DEF AnswerFits, OneDownload
  <2>3. chunks[i].by = t => chunks[i].n = thread[t]
    BY <1>2, <1>3 DEF Orderly, AllOnTheWay, OnTheWay
  <2>. QED  BY <2>1, <2>2, <2>3 DEF AnswerFits
<1>5. ASSUME NEW i \in 1 .. n, NEW j \in 1 .. n, chunks[i].by = t, chunks[j].by = t
      PROVE  /\ i # j => chunks[i].what = "hex"
             /\ chunks[i].what = "hex" /\ chunks[j].what = "hex" =>
                   chunks[j].piece - chunks[i].piece = j - i
  BY <1>2, <1>3, <1>5 DEF Orderly, Paired
<1>6. \A a : a \in Own(t) <=> \E i \in 1 .. n : a = chunks[i] /\ chunks[i].by = t
  <2>1. Own(t) = {a \in Range(chunks) : a.by = t /\ a.n = thread[t]}
    BY <1>1 DEF Own
  <2>. QED  BY <1>3, <1>4, <2>1 DEF Range
<1>7. PICK j \in 1 .. n : chunks[j].by = t
  BY <1>6 DEF Seen
<1>8. CASE chunks[j].what = "not found"
  <2>1. \A i \in 1 .. n : chunks[i].what # "hex"
    BY <1>4, <1>5, <1>7, <1>8
  <2>2. Dump = Dumped(0)
    <3>1. \A i \in 1 .. n : ~ (i - 0 \in 1 .. 0)
      OBVIOUS
    <3>2. DumpLies(chunks, n, 0, 0)
      BY <1>3, <2>1, <3>1 DEF DumpLies
    <3>. QED  BY <1>1, <3>2, DumpIs
  <2>3. Captured("not found")
    BY <1>1, <1>3, <1>7, <1>8 DEF Captured, Range
  <2>. QED  BY <1>2, <2>2, <2>3, DumpedIs, ResultIs
<1>9. CASE chunks[j].what = "hex"
  <2>1. \A i \in 1 .. n : chunks[i].by = t => chunks[i].what = "hex"
    BY <1>5, <1>7, <1>9
  <2>2. {a.piece : a \in Own(t)} = 1 .. Pieces
    BY <1>6, <1>7, <1>9 DEF Seen
  <2>3. ASSUME NEW p \in 1 .. Pieces
        PROVE  \E i \in 1 .. n : chunks[i].by = t /\ chunks[i].piece = p /\ chunks[i].what = "hex"
    <3>1. PICK a \in Own(t) : a.piece = p
      BY <2>2
    <3>. QED  BY <1>6, <2>1, <3>1
  <2>4. 1 \in 1 .. Pieces /\ Pieces \in 1 .. Pieces /\ Pieces \in Nat
    BY FilesAssumption
  <2>5. PICK f \in 1 .. n : chunks[f].by = t /\ chunks[f].piece = 1 /\ chunks[f].what = "hex"
    BY <2>3, <2>4
  <2>6. PICK o \in Nat : o = f - 1
    OBVIOUS
  <2>7. ASSUME NEW i \in 1 .. n, chunks[i].what = "hex"
        PROVE  chunks[i].piece = i - o /\ i - o \in 1 .. Pieces
    <3>1. chunks[i].by = t /\ chunks[i].piece \in 1 .. Pieces
      BY <1>4, <2>7 DEF AnswerFits
    <3>2. chunks[i].piece - 1 = i - f
      BY <1>5, <2>5, <2>7, <3>1
    <3>. QED  BY <2>6, <3>1, <3>2
  <2>8. ASSUME NEW i \in 1 .. n, i - o \in 1 .. Pieces
        PROVE  chunks[i].what = "hex"
    <3>1. PICK g \in 1 .. n : chunks[g].piece = i - o /\ chunks[g].what = "hex"
      BY <2>3, <2>8
    <3>2. g - o = i - o
      BY <2>7, <3>1
    <3>3. g = i
      BY <3>2
    <3>. QED  BY <3>1, <3>3
  <2>9. o + Pieces <= n
    <3>1. PICK g \in 1 .. n : chunks[g].piece = Pieces /\ chunks[g].what = "hex"
      BY <2>3, <2>4
    <3>2. g - o = Pieces
      BY <2>7, <3>1
    <3>. QED  BY <2>4, <3>2
  <2>10. \A i \in 1 .. n : /\ chunks[i].what = "hex" <=> i - o \in 1 .. Pieces
                           /\ chunks[i].what = "hex" => chunks[i].piece = i - o
    BY <2>7, <2>8
  <2>11. DumpLies(chunks, n, o, Pieces)
    BY <1>3, <2>4, <2>9, <2>10 DEF DumpLies
  <2>. QED  BY <1>1, <2>11, DumpIs
<1>. QED  BY <1>4, <1>7, <1>8, <1>9

\* how many of its commands the device has run
Running(t) == \E i \in DOMAIN commands : commands[i].by = t
Ran(t)     == IF Running(t) THEN thread[t] - 1 ELSE thread[t]

LEMMA SendRan ==
    ASSUME FilesTyped, Orderly, NEW t \in Threads, SendCommand(t)
    PROVE  /\ \A u \in Threads : Ran(u)' = Ran(u) /\ (u # t => (Running(u)' <=> Running(u)))
           /\ t \notin waiting /\ result[t] = "none" /\ Running(t)'
<1>1. /\ t \notin waiting /\ result[t] = "none"
      /\ thread' = [thread EXCEPT ![t] = @ + 1]
      /\ commands' = Append(commands, [by |-> t, n |-> thread[t] + 1])
  BY DEF SendCommand
<1>2. /\ thread'[t] = thread[t] + 1 /\ thread[t] \in Nat
      /\ \A u \in Threads \ {t} : thread'[u] = thread[u]
  BY <1>1 DEF FilesTyped
<1>3. PICK new : new = [by |-> t, n |-> thread[t] + 1]
  OBVIOUS
<1>4. new.by = t /\ commands \in Seq(Command) /\ commands' = Append(commands, new)
  BY <1>1, <1>3 DEF FilesTyped
<1>5. PICK n \in Nat : n = Len(commands)
  BY <1>4
<1>6. /\ DOMAIN commands = 1 .. n /\ DOMAIN commands' = 1 .. n + 1 /\ commands'[n + 1] = new
      /\ \A i \in 1 .. n : commands'[i] = commands[i]
  BY <1>4, <1>5
<1>7. ~Running(t)
  BY <1>1 DEF Orderly, Commanded, Running
<1>8. Running(t)'
  BY <1>4, <1>6 DEF Running
<1>9. ASSUME NEW u \in Threads, u # t
      PROVE  Running(u)' <=> Running(u)
  <2>1. ASSUME NEW i \in DOMAIN commands', commands'[i].by = u
        PROVE  Running(u)
    <3>1. i \in 1 .. n
      BY <1>4, <1>6, <1>9, <2>1
    <3>. QED  BY <1>6, <2>1, <3>1 DEF Running
  <2>2. ASSUME NEW i \in DOMAIN commands, commands[i].by = u
        PROVE  Running(u)'
    BY <1>6, <2>2 DEF Running
  <2>. QED  BY <2>1, <2>2 DEF Running
<1>. QED  BY <1>1, <1>2, <1>7, <1>8, <1>9 DEF Ran

LEMMA ManualRan ==
    ASSUME FilesTyped, ManualFinish, NEW u \in Threads
    PROVE  Ran(u)' = Ran(u) /\ (Running(u)' <=> Running(u))
<1>1. commands' = Append(commands, [by |-> Nobody, n |-> 1]) /\ thread' = thread
  BY DEF ManualFinish
<1>2. PICK new : new = [by |-> Nobody, n |-> 1]
  OBVIOUS
<1>3. new.by # u /\ commands \in Seq(Command) /\ commands' = Append(commands, new)
  BY <1>1, <1>2, FilesAssumption DEF FilesTyped
<1>4. PICK n \in Nat : n = Len(commands)
  BY <1>3
<1>5. /\ DOMAIN commands = 1 .. n /\ DOMAIN commands' = 1 .. n + 1 /\ commands'[n + 1] = new
      /\ \A i \in 1 .. n : commands'[i] = commands[i]
  BY <1>3, <1>4
<1>6. Running(u)' <=> Running(u)
  <2>1. ASSUME NEW i \in DOMAIN commands', commands'[i].by = u
        PROVE  Running(u)
    <3>1. i \in 1 .. n
      BY <1>3, <1>5, <2>1
    <3>. QED  BY <1>5, <2>1, <3>1 DEF Running
  <2>2. ASSUME NEW i \in DOMAIN commands, commands[i].by = u
        PROVE  Running(u)'
    BY <1>5, <2>2 DEF Running
  <2>. QED  BY <2>1, <2>2 DEF Running
<1>. QED  BY <1>1, <1>6 DEF Ran

LEMMA DeviceRan ==
    ASSUME FilesTyped, Orderly, DeviceRuns, NEW c, c = Head(commands)
    PROVE  /\ UNCHANGED <<thread, waiting, result, capture, tool, manual, blind>>
           /\ \A u \in Threads : u # c.by => Ran(u)' = Ran(u) /\ (Running(u)' <=> Running(u))
           /\ c.by \in Threads => /\ Running(c.by) /\ ~Running(c.by)' /\ c.by \in waiting
                                  /\ Ran(c.by) = c.n - 1 /\ Ran(c.by)' = c.n
<1>1. PICK pieces \in Seq(Whats) : AnsweredIn(c, pieces)
  BY DeviceAnswers
<1>2. /\ UNCHANGED <<thread, waiting, result, capture, tool, manual, blind>>
      /\ commands # <<>> /\ commands' = Tail(commands) /\ commands \in Seq(Command)
  BY <1>1 DEF AnsweredIn, DeviceRuns, FilesTyped
<1>3. PICK n \in Nat : n = Len(commands) /\ n > 0
  BY <1>2
<1>4. /\ DOMAIN commands = 1 .. n /\ DOMAIN commands' = 1 .. n - 1 /\ commands[1] = c
      /\ \A i \in 1 .. n - 1 : commands'[i] = commands[i + 1]
  BY <1>2, <1>3
<1>5. 1 \in DOMAIN commands
  BY <1>3, <1>4
<1>6. ASSUME NEW u \in Threads, u # c.by
      PROVE  Running(u)' <=> Running(u)
  <2>1. ASSUME NEW i \in DOMAIN commands', commands'[i].by = u
        PROVE  Running(u)
    <3>1. i + 1 \in DOMAIN commands /\ commands[i + 1].by = u
      BY <1>3, <1>4, <2>1
    <3>. QED  BY <3>1 DEF Running
  <2>2. ASSUME NEW i \in DOMAIN commands, commands[i].by = u
        PROVE  Running(u)'
    <3>1. i - 1 \in 1 .. n - 1 /\ (i - 1) + 1 = i
      BY <1>3, <1>4, <1>6, <2>2
    <3>2. i - 1 \in DOMAIN commands' /\ commands'[i - 1].by = u
      BY <1>4, <2>2, <3>1
    <3>. QED  BY <3>2 DEF Running
  <2>. QED  BY <2>1, <2>2 DEF Running
<1>7. ASSUME c.by \in Threads
      PROVE  Running(c.by) /\ ~Running(c.by)' /\ c.by \in waiting /\ c.n = thread[c.by]
  <2>1. Running(c.by)
    BY <1>4, <1>5 DEF Running
  <2>2. c.by \in waiting /\ c.n = thread[c.by]
    BY <1>4, <1>5, <1>7 DEF Orderly, Commanded
  <2>3. ASSUME NEW i \in DOMAIN commands', commands'[i].by = c.by
        PROVE  FALSE
    <3>1. i + 1 \in DOMAIN commands /\ commands[i + 1].by = commands[1].by /\ i + 1 # 1
      BY <1>3, <1>4, <2>3
    <3>. QED  BY <1>4, <1>5, <1>7, <3>1 DEF Orderly, Commanded
  <2>. QED  BY <2>1, <2>2, <2>3 DEF Running
<1>8. \A u \in Threads : thread[u] \in Nat
  BY DEF FilesTyped
<1>. QED  BY <1>2, <1>6, <1>7, <1>8 DEF Ran

\* what is still on the way was
LEMMA WayOnlyShrinks ==
    ASSUME FilesTyped, [YNext]_yvars, ~DeviceRuns
    PROVE  Way \in Seq(Answer) /\ \A i \in DOMAIN Way' : \E j \in DOMAIN Way : Way'[i] = Way[j]
<1>0. Way \in Seq(Answer)
  BY Joined DEF Way, FilesTyped
<1>1. ASSUME NEW t \in Threads, SendCommand(t) \/ CaptureEnds(t)
      PROVE  \A i \in DOMAIN Way' : \E j \in DOMAIN Way : Way'[i] = Way[j]
  <2>1. answers' = answers /\ capture'.chunks = <<>>
    BY <1>1 DEF SendCommand, CaptureEnds
  <2>. QED  BY <2>1, WayShrinks
<1>2. CASE ManualFinish \/ UNCHANGED yvars
  <2>1. UNCHANGED <<answers, capture>>
    BY <1>2 DEF ManualFinish, yvars
  <2>2. Way' = Way
    BY <2>1 DEF Way
  <2>. QED  BY <1>0, <2>2
<1>3. CASE Receive
  BY <1>3, WayReceives
<1>. QED  BY <1>0, <1>1, <1>2, <1>3 DEF YNext

\* what is known goes on being known
LEMMA HistoryGrows ==
    ASSUME FilesTyped, [YNext]_yvars
    PROVE  (blind => blind') /\ (Meddled => Meddled') /\ manual' >= manual
<1>1. (blind => blind') /\ manual' >= manual /\ manual \in Nat /\ manual' \in Nat
  <2>1. manual \in Nat
    BY DEF FilesTyped
  <2>2. ASSUME NEW c, DeviceRuns
        PROVE  UNCHANGED <<manual, blind>>
    BY <2>2, DeviceAnswers DEF AnsweredIn
  <2>3. ASSUME NEW t \in Threads, SendCommand(t)
        PROVE  UNCHANGED <<manual, blind>>
    BY <2>3 DEF SendCommand
  <2>4. ASSUME NEW t \in Threads, CaptureEnds(t)
        PROVE  manual' = manual /\ (blind => blind')
    BY <2>4 DEF CaptureEnds
  <2>5. CASE ManualFinish
    BY <2>1, <2>5 DEF ManualFinish
  <2>6. CASE Receive
    BY <2>1, <2>6 DEF Receive
  <2>7. CASE UNCHANGED yvars
    BY <2>1, <2>7 DEF yvars
  <2>. QED  BY <2>1, <2>2, <2>3, <2>4, <2>5, <2>6, <2>7 DEF YNext
<1>2. ASSUME NEW u \in Threads, thread[u] > 0
      PROVE  thread'[u] > 0
  <2>1. thread \in [Threads -> Nat]
    BY DEF FilesTyped
  <2>2. ASSUME NEW t \in Threads, SendCommand(t)
        PROVE  thread'[u] > 0
    BY <1>2, <2>1, <2>2 DEF SendCommand
  <2>3. CASE thread' = thread
    BY <1>2, <2>3
  <2>4. DeviceRuns => thread' = thread
    BY DeviceAnswers DEF AnsweredIn
  <2>. QED  BY <2>2, <2>3, <2>4 DEF YNext, CaptureEnds, ManualFinish, Receive, yvars
<1>3. \A t \in Uploads : t \in Threads
  BY DEF Threads
<1>. QED  BY <1>1, <1>2, <1>3 DEF Meddled

\* the device is in the directory that was entered, and no listing says otherwise
ListsSub(a) == a.what # "root" /\ (a.what = "sub" => directory = "sub")
AllListSub  == \A i \in DOMAIN Way : ListsSub(Way[i])
PathKept ==
    /\ AllListSub
    /\ \A v \in Visits : /\ Ran(v) > 0 => directory = "sub"
                         /\ result[v] = "complete" => tool.path = "sub"

LEMMA DevicePath ==
    ASSUME FilesTyped, Orderly, PathKept, DeviceRuns
    PROVE  PathKept'
<1>1. PICK c : c = Head(commands)
  OBVIOUS
<1>2. /\ commands # <<>> /\ c \in Command /\ (c.by \in Threads => c.n <= thread[c.by])
      /\ UNCHANGED <<thread, waiting, result, capture, tool, manual, blind>>
      /\ \A u \in Threads : u # c.by => Ran(u)' = Ran(u)
      /\ c.by \in Threads => Ran(c.by) = c.n - 1 /\ Ran(c.by)' = c.n
  BY <1>1, FirstCommand, DeviceRan DEF DeviceRuns
<1>. DEFINE Entered == \A v \in Visits : Ran(v)' > 0 => directory' = "sub"
            Answering(pieces) ==
               /\ AnsweredIn(c, pieces)
               /\ \A p \in 1 .. Len(pieces) :
                     pieces[p] # "root" /\ (pieces[p] = "sub" => directory' = "sub")
<1>3. ASSUME NEW pieces \in Seq(Whats), Answering(pieces), Entered, directory = "sub" => directory' = "sub"
      PROVE  PathKept'
  <2>1. PICK m, l \in Nat : m = Len(Way) /\ l = Len(pieces)
    BY <1>1, <1>2, <1>3, AnswersAre
  <2>2. PICK way : way = Way'
    OBVIOUS
  <2>3. /\ way \in Seq(Answer) /\ Len(way) = m + l /\ Way \in Seq(Answer)
        /\ \A i \in 1 .. m : way[i] = Way[i]
        /\ \A p \in 1 .. l : way[m + p] = [by |-> c.by, n |-> c.n, what |-> pieces[p], piece |-> p]
    <3>1. Way \in Seq(Answer)
      BY Joined DEF Way, FilesTyped
    <3>. QED  BY <1>1, <1>2, <1>3, <2>1, <2>2, <3>1, AnswersAre
  <2>4. ASSUME NEW i \in DOMAIN way
        PROVE  way[i].what # "root" /\ (way[i].what = "sub" => directory' = "sub")
    <3>1. CASE i \in 1 .. m
      BY <1>3, <2>1, <2>3, <3>1 DEF PathKept, AllListSub, ListsSub
    <3>2. CASE i \notin 1 .. m
      <4>1. i - m \in 1 .. l /\ i = m + (i - m)
        BY <2>1, <2>3, <3>2
      <4>2. PICK p \in 1 .. l : i = m + p
        BY <4>1
      <4>3. PICK a : a = way[i]
        OBVIOUS
      <4>4. a = [by |-> c.by, n |-> c.n, what |-> pieces[p], piece |-> p]
        BY <2>3, <4>2, <4>3
      <4>5. way[i].what = pieces[p]
        BY <4>3, <4>4
      <4>. QED  BY <1>3, <2>1, <4>2, <4>5
    <3>. QED  BY <3>1, <3>2
  <2>5. AllListSub'
    BY <2>2, <2>4 DEF AllListSub, ListsSub
  <2>. QED  BY <1>2, <1>3, <2>5 DEF PathKept
<1>. HIDE DEF Answering
<1>4. ASSUME NEW what \in Whats, Answered(c, what), what # "root", what = "sub" => directory' = "sub"
      PROVE  \E pieces \in Seq(Whats) : Answering(pieces)
  <2>1. PICK pieces : pieces = <<what>>
    OBVIOUS
  <2>2. pieces \in Seq(Whats) /\ Len(pieces) = 1 /\ pieces[1] = what /\ AnsweredIn(c, pieces)
    BY <1>4, <2>1, OneAnswer
  <2>3. \A p \in 1 .. Len(pieces) : p = 1
    BY <2>2
  <2>. QED  BY <1>4, <2>2, <2>3 DEF Answering
<1>5. {"ok", "Error:", "sub"} \subseteq Whats
  BY DEF Whats
<1>6. CASE StoreAlloc(c) \/ StoreAppend(c) \/ StoreFinish(c)
  <2>1. c.by \notin Visits
    <3>1. \E op \in {"alloc", "append", "finish"} : Runs(c, op)
      BY <1>6 DEF StoreAlloc, StoreAppend, StoreFinish
    <3>. QED  BY <1>2, <3>1, RunsWhat, FilesAssumption DEF Threads
  <2>2. PICK what \in {"ok", "Error:"} : Answered(c, what) /\ directory' = directory
    BY <1>6 DEF StoreAlloc, StoreAppend, StoreFinish
  <2>3. Entered
    BY <1>2, <2>1, <2>2 DEF PathKept, Threads
  <2>. QED  BY <1>3, <1>4, <1>5, <2>2, <2>3
<1>7. CASE Cat(c)
  <2>1. c.by \notin Visits
    <3>1. Runs(c, "cat")
      BY <1>7 DEF Cat
    <3>. QED  BY <1>2, <3>1, RunsWhat, FilesAssumption
  <2>2. directory' = directory
    BY <1>7 DEF Cat, device
  <2>3. Entered
    BY <1>2, <2>1, <2>2 DEF PathKept, Threads
  <2>4. PICK pieces \in Seq(Whats) :
          /\ AnsweredIn(c, pieces)
          /\ \/ directory # "root" /\ pieces = <<"not found">>
             \/ Len(pieces) = Pieces /\ \A p \in 1 .. Pieces : pieces[p] = "hex"
    BY <1>7, CatAnswers
  <2>5. \A p \in 1 .. Len(pieces) : pieces[p] \in {"not found", "hex"}
    <3>1. CASE pieces = <<"not found">>
      <4>1. PICK missing : missing = "not found"
        OBVIOUS
      <4>2. pieces = <<missing>>
        BY <3>1, <4>1
      <4>3. Len(<<missing>>) = 1 /\ <<missing>>[1] = missing
        OBVIOUS
      <4>4. Len(pieces) = 1 /\ pieces[1] = missing
        BY <4>2, <4>3, Zenon
      <4>5. pieces[1] \in {"not found", "hex"}
        BY <4>1, <4>4
      <4>6. \A p \in 1 .. 1 : p = 1
        OBVIOUS
      <4>. QED  BY <4>4, <4>5, <4>6, Zenon
    <3>. QED  BY <2>4, <3>1
  <2>6. Answering(pieces)
    BY <2>4, <2>5 DEF Answering
  <2>. QED  BY <1>3, <2>2, <2>3, <2>6
<1>8. CASE ChangeDir(c)
  <2>1. Answered(c, "ok") /\ directory' = "sub"
    BY <1>8 DEF ChangeDir
  <2>. QED  BY <1>3, <1>4, <1>5, <2>1
<1>9. CASE Dir(c)
  <2>1. c.by \in Visits /\ c.n = 2 /\ Answered(c, directory) /\ directory' = directory
    <3>1. Runs(c, "dir")
      BY <1>9 DEF Dir
    <3>. QED  BY <1>2, <1>9, <3>1, RunsWhat DEF Dir, device
  <2>2. directory = "sub"
    <3>1. c.by \in Threads /\ Ran(c.by) = 1
      BY <1>2, <2>1 DEF Threads
    <3>. QED  BY <2>1, <3>1 DEF PathKept
  <2>3. Entered
    BY <2>1, <2>2
  <2>. QED  BY <1>3, <1>4, <1>5, <2>1, <2>2, <2>3
<1>. QED  BY <1>1, <1>6, <1>7, <1>8, <1>9 DEF DeviceRuns

LEMMA StillPath ==
    ASSUME FilesTyped, Orderly, AnswersFit, PathKept, [YNext]_yvars, ~blind'
    PROVE  PathKept'
<1>1. CASE DeviceRuns
  BY <1>1, DevicePath
<1>. SUFFICES ASSUME ~DeviceRuns PROVE PathKept'
  BY <1>1
<1>2. \A i \in DOMAIN Way' : \E j \in DOMAIN Way : Way'[i] = Way[j]
  BY WayOnlyShrinks
<1>3. ASSUME directory' = directory
      PROVE  AllListSub'
  BY <1>2, <1>3 DEF PathKept, AllListSub, ListsSub
<1>4. ASSUME NEW t \in Threads, SendCommand(t)
      PROVE  PathKept'
  <2>1. UNCHANGED <<directory, tool, result>>
    BY <1>4 DEF SendCommand, device
  <2>2. \A v \in Visits : Ran(v)' = Ran(v)
    BY <1>4, SendRan DEF Threads
  <2>. QED  BY <1>3, <2>1, <2>2 DEF PathKept
<1>5. ASSUME NEW t \in Threads, CaptureEnds(t)
      PROVE  PathKept'
  <2>1. /\ UNCHANGED <<directory, thread, commands>> /\ t \in waiting /\ Seen(t)
        /\ tool'.path = (IF t \in Visits /\ Done(t) THEN PathShown ELSE tool.path)
    <3>1. blind' = (blind \/ ~Seen(t))
      BY <1>5 DEF CaptureEnds
    <3>. QED  BY <1>5, <3>1 DEF CaptureEnds, device
  <2>2. \A v \in Visits : Ran(v)' = Ran(v)
    BY <2>1 DEF Ran, Running
  <2>3. PICK chunks : chunks = capture.chunks
    OBVIOUS
  <2>4. /\ chunks \in Seq(Answer)
        /\ \A i \in DOMAIN chunks : i \in DOMAIN Way /\ Way[i] = chunks[i] /\ chunks[i].what # "root"
    <3>1. answers' = answers /\ capture'.chunks = <<>>
      BY <1>5 DEF CaptureEnds
    <3>. QED  BY <2>3, <3>1, WayShrinks DEF FilesTyped, PathKept, AllListSub, ListsSub
  <2>5. Listings # {} => PathShown = "sub"
    <3>1. Listings \subseteq Nat /\ \A i \in Listings : i \in DOMAIN chunks /\ chunks[i].what \in {"root", "sub"}
      BY <2>3, <2>4 DEF Listings
    <3>2. Listings # {} => Min(Listings) \in Listings
      BY <3>1, Smallest
    <3>. QED  BY <2>3, <2>4, <3>1, <3>2 DEF PathShown
  <2>6. tool'.path \in {tool.path, "sub"}
    BY <2>1, <2>5 DEF PathShown
  <2>7. ASSUME t \in Visits, Done(t)
        PROVE  tool'.path = "sub"
    <3>1. thread[t] = 2
      BY <2>7, WorkIs DEF Done
    <3>2. PICK a \in Own(t) : a.by = t /\ a.n = 2 /\ a \in Range(chunks)
      BY <2>1, <2>3, <3>1 DEF Own, Seen
    <3>3. PICK i \in DOMAIN chunks : a = chunks[i]
      BY <3>2 DEF Range
    <3>4. chunks[i].what \in {"root", "sub"}
      BY <2>4, <2>7, <3>2, <3>3 DEF AnswersFit, AnswerFits
    <3>5. i \in Listings
      BY <2>3, <3>3, <3>4 DEF Listings
    <3>. QED  BY <2>1, <2>5, <2>7, <3>5
  <2>8. ASSUME NEW v \in Visits, result'[v] = "complete"
        PROVE  tool'.path = "sub"
    <3>1. result' = [result EXCEPT ![t] = result'[t]] /\ (result'[t] = "complete" => Done(t))
      BY <1>5, <2>1, ResultIs DEF Done
    <3>2. v # t => result'[v] = result[v]
      <4>1. PICK r : r = result'[t]
        OBVIOUS
      <4>2. result' = [result EXCEPT ![t] = r]
        BY <3>1, <4>1, Zenon
      <4>. QED  BY <4>2 DEF FilesTyped, Threads
    <3>. QED  BY <2>6, <2>7, <2>8, <3>1, <3>2 DEF PathKept
  <2>. QED  BY <1>3, <2>1, <2>2, <2>8 DEF PathKept
<1>6. CASE ManualFinish
  <2>1. UNCHANGED <<directory, tool, result>>
    BY <1>6 DEF ManualFinish, device
  <2>2. \A v \in Visits : Ran(v)' = Ran(v)
    BY <1>6, ManualRan DEF Threads
  <2>. QED  BY <1>3, <2>1, <2>2 DEF PathKept
<1>7. CASE Receive \/ UNCHANGED yvars
  <2>1. UNCHANGED <<directory, tool, result, thread, commands>>
    BY <1>7 DEF Receive, device, yvars
  <2>2. \A v \in Visits : Ran(v)' = Ran(v)
    BY <2>1 DEF Ran, Running
  <2>. QED  BY <1>3, <2>1, <2>2 DEF PathKept
<1>. QED  BY <1>4, <1>5, <1>6, <1>7 DEF YNext

\* a download that is over has its dump
DumpKept == \A d \in Downloads : result[d] = "complete" => tool.dump = Dumped(Pieces)

LEMMA StillDumped ==
    ASSUME FilesTyped, Orderly, AnswersFit, OneDownload, DumpKept, [YNext]_yvars, ~blind'
    PROVE  DumpKept'
<1>1. ASSUME NEW t \in Threads, CaptureEnds(t)
      PROVE  DumpKept'
  <2>1. /\ t \in waiting /\ Seen(t) /\ tool'.dump = (IF t \in Downloads THEN Dump ELSE tool.dump)
    <3>1. blind' = (blind \/ ~Seen(t))
      BY <1>1 DEF CaptureEnds
    <3>. QED  BY <1>1, <3>1 DEF CaptureEnds
  <2>2. PICK r : r = result'[t]
    OBVIOUS
  <2>3. result' = [result EXCEPT ![t] = r]
    <3>1. result' = [result EXCEPT ![t] = result'[t]]
      BY <1>1, <2>1, ResultIs
    <3>. QED  BY <2>2, <3>1, Zenon
  <2>4. CASE t \in Downloads
    <3>1. result'[t] = "complete" => Dump = Dumped(Pieces)
      BY <1>1, <2>1, <2>4, DumpWhole
    <3>2. \A d \in Downloads : d = t
      BY <2>4 DEF OneDownload
    <3>. QED  BY <2>1, <2>4, <3>1, <3>2 DEF DumpKept, Dumped
  <2>5. CASE t \notin Downloads
    <3>1. \A d \in Downloads : result'[d] = result[d]
      BY <2>3, <2>5 DEF FilesTyped, Threads
    <3>. QED  BY <2>1, <2>5, <3>1 DEF DumpKept, Dumped
  <2>. QED  BY <2>4, <2>5
<1>2. ASSUME NEW t \in Threads, SendCommand(t)
      PROVE  DumpKept'
  BY <1>2 DEF SendCommand, DumpKept, Dumped
<1>3. ASSUME NEW c, c = Head(commands), DeviceRuns
      PROVE  DumpKept'
  <2>1. UNCHANGED <<result, tool>>
    BY <1>3, DeviceAnswers DEF AnsweredIn
  <2>. QED  BY <2>1 DEF DumpKept, Dumped
<1>4. CASE ManualFinish \/ Receive \/ UNCHANGED yvars
  <2>1. UNCHANGED <<result, tool>>
    BY <1>4 DEF ManualFinish, Receive, yvars
  <2>. QED  BY <2>1 DEF DumpKept, Dumped
<1>. QED  BY <1>1, <1>2, <1>3, <1>4 DEF YNext

\* how far the file of an upload is, whose commands went well until now
Prefix(t, k) == [i \in 1 .. k |-> [by |-> t, n |-> i, length |-> Decoded(Size(t, i))]]
WentWell(t)  == \E i \in DOMAIN Way : Way[i].by = t /\ Way[i].what = "ok"
Unbroken(t)  == result[t] # "failed" /\ (t \in waiting => Running(t) \/ WentWell(t))
Good(t, m) ==
    /\ m \in 1 .. Chunks + 1 => \/ handle = t /\ allocated /\ content = Prefix(t, m - 1)
                                \/ manual > 0 /\ handle = Nobody /\ ~allocated
    /\ m = Chunks + 2 => handle # t /\ stored[t] = Prefix(t, Chunks)
FileKept == \A t \in Uploads : Unbroken(t) => Good(t, Ran(t))

\* what does not disturb the device leaves the files as they are
LEMMA UndisturbedFile ==
    ASSUME FilesTyped, FileKept, [YNext]_yvars, NEW t \in Uploads, Unbroken(t)' => Unbroken(t), Ran(t)' = Ran(t),
           UNCHANGED <<handle, allocated, content, stored>>
    PROVE  Unbroken(t)' => Good(t, Ran(t))'
<1>1. manual \in Nat /\ manual' \in Nat /\ manual' >= manual
  <2>1. manual' >= manual /\ manual \in Nat
    BY HistoryGrows DEF FilesTyped
  <2>. QED  BY <2>1, FilesTypes DEF FilesTyped
<1>2. PICK m : m = Ran(t)
  OBVIOUS
<1>3. Ran(t)' = m
  BY <1>2
<1>4. Unbroken(t)' => Good(t, m)
  BY <1>2 DEF FileKept
<1>5. Good(t, m) => Good(t, m)'
  BY <1>1 DEF Good, Prefix, Size
<1>. QED  BY <1>3, <1>4, <1>5 DEF Good

LEMMA PrefixIs ==
    ASSUME NEW t \in Uploads, NEW k \in Nat
    PROVE  Append(Prefix(t, k), [by |-> t, n |-> k + 1, length |-> Decoded(Size(t, k + 1))])
              = Prefix(t, k + 1)
<1>1. PICK b : b = [i \in Nat |-> [by |-> t, n |-> i, length |-> Decoded(Size(t, i))]]
  OBVIOUS
<1>2. PICK S : S = {b[i] : i \in Nat}
  OBVIOUS
<1>3. \A i \in Nat : b[i] = [by |-> t, n |-> i, length |-> Decoded(Size(t, i))]
  BY <1>1
<1>0. \A i \in Nat : b[i] \in S
  BY <1>2
<1>4. PICK p : p = Prefix(t, k)
  OBVIOUS
<1>5. PICK q : q = Prefix(t, k + 1)
  OBVIOUS
<1>6. p = [i \in 1 .. k |-> b[i]] /\ q = [i \in 1 .. k + 1 |-> b[i]]
  BY <1>3, <1>4, <1>5 DEF Prefix
<1>7. p \in Seq(S) /\ q \in Seq(S) /\ Len(p) = k /\ Len(q) = k + 1
  <2>1. \A i \in 1 .. k + 1 : i \in Nat /\ b[i] \in S
    BY <1>0
  <2>2. \A i \in 1 .. k : b[i] \in S
    BY <2>1
  <2>3. p \in [1 .. k -> S] /\ q \in [1 .. k + 1 -> S] /\ k + 1 \in Nat
    BY <1>6, <2>1, <2>2
  <2>4. p \in Seq(S) /\ Len(p) = k
    <3>1. p \in Seq(S) /\ DOMAIN p = 1 .. k
      BY <2>3
    <3>. QED  BY <3>1
  <2>5. q \in Seq(S) /\ Len(q) = k + 1
    <3>1. q \in Seq(S) /\ DOMAIN q = 1 .. k + 1
      BY <2>3
    <3>. QED  BY <2>3, <3>1
  <2>. QED  BY <2>4, <2>5
<1>8. PICK e : e = b[k + 1]
  OBVIOUS
<1>9. PICK a : a = Append(p, e)
  OBVIOUS
<1>10. /\ a \in Seq(S) /\ Len(a) = k + 1 /\ a[k + 1] = e /\ e \in S
       /\ \A i \in 1 .. k : a[i] = p[i]
  <2>1. e \in S
    BY <1>0, <1>8
  <2>. QED  BY <1>7, <1>9, <2>1
<1>11. \A i \in 1 .. k + 1 : a[i] = q[i]
  <2>. TAKE i \in 1 .. k + 1
  <2>1. CASE i = k + 1
    BY <1>6, <1>8, <1>10, <2>1
  <2>2. CASE i \in 1 .. k
    BY <1>6, <1>10, <2>2
  <2>. QED  BY <2>1, <2>2
<1>12. a = q
  BY <1>7, <1>10, <1>11
<1>13. e = [by |-> t, n |-> k + 1, length |-> Decoded(Size(t, k + 1))]
  BY <1>3, <1>8
<1>. QED  BY <1>4, <1>5, <1>9, <1>12, <1>13

LEMMA GoodAfter ==
    ASSUME NEW t, NEW m, Ran(t)' = m, Good(t, m)'
    PROVE  Good(t, Ran(t))'
BY DEF Good

LEMMA NewAnswer ==
    ASSUME FilesTyped, Orderly, DeviceRuns, NEW c, c = Head(commands), NEW pieces \in Seq(Whats),
           AnsweredIn(c, pieces)
    PROVE  /\ \A t \in Threads : t # c.by => (WentWell(t)' => WentWell(t))
           /\ c.by \in Threads /\ WentWell(c.by)' => \E p \in 1 .. Len(pieces) : pieces[p] = "ok"
<1>1. PICK m, l \in Nat : m = Len(Way) /\ l = Len(pieces)
  BY AnswersAre DEF DeviceRuns
<1>2. PICK way : way = Way'
  OBVIOUS
<1>3. /\ way \in Seq(Answer) /\ Len(way) = m + l /\ Way \in Seq(Answer)
      /\ \A i \in 1 .. m : way[i] = Way[i] /\ i \in DOMAIN Way
      /\ \A p \in 1 .. l : way[m + p] = [by |-> c.by, n |-> c.n, what |-> pieces[p], piece |-> p]
  <2>1. Way \in Seq(Answer)
    BY Joined DEF Way, FilesTyped
  <2>2. \A i \in 1 .. m : i \in DOMAIN Way
    BY <1>1, <2>1
  <2>. QED  BY <1>1, <1>2, <2>1, <2>2, AnswersAre DEF DeviceRuns
<1>4. ASSUME NEW p \in 1 .. l
      PROVE  way[m + p].by = c.by /\ way[m + p].what = pieces[p]
  <2>1. PICK a : a = way[m + p]
    OBVIOUS
  <2>2. a = [by |-> c.by, n |-> c.n, what |-> pieces[p], piece |-> p]
    BY <1>3, <2>1
  <2>. QED  BY <2>1, <2>2
<1>5. ASSUME NEW i \in DOMAIN way
      PROVE  i \in 1 .. m \/ \E p \in 1 .. l : i = m + p
  <2>1. i \notin 1 .. m => i - m \in 1 .. l /\ i = m + (i - m)
    BY <1>1, <1>3
  <2>. QED  BY <2>1
<1>6. \A t \in Threads : WentWell(t)' <=> \E i \in DOMAIN way : way[i].by = t /\ way[i].what = "ok"
  BY <1>2 DEF WentWell
<1>7. ASSUME NEW t \in Threads, t # c.by, WentWell(t)'
      PROVE  WentWell(t)
  <2>1. PICK i \in DOMAIN way : way[i].by = t /\ way[i].what = "ok"
    BY <1>6, <1>7
  <2>2. i \in 1 .. m
    BY <1>4, <1>5, <1>7, <2>1
  <2>. QED  BY <1>3, <2>1, <2>2 DEF WentWell
<1>8. ASSUME c.by \in Threads, WentWell(c.by)'
      PROVE  \E p \in 1 .. l : pieces[p] = "ok"
  <2>1. PICK i \in DOMAIN way : way[i].by = c.by /\ way[i].what = "ok"
    BY <1>6, <1>8
  <2>2. i \notin 1 .. m
    <3>1. ASSUME i \in 1 .. m
          PROVE  FALSE
      <4>1. i \in DOMAIN Way /\ Way[i].by = c.by
        BY <1>3, <2>1, <3>1
      <4>2. 1 \in DOMAIN commands /\ commands[1] = c
        BY FirstCommand DEF DeviceRuns
      <4>. QED  BY <1>8, <4>1, <4>2 DEF Orderly, AllOnTheWay, OnTheWay
    <3>. QED  BY <3>1
  <2>. QED  BY <1>4, <1>5, <2>1, <2>2
<1>. QED  BY <1>1, <1>7, <1>8

LEMMA DeviceFile ==
    ASSUME FilesTyped, Orderly, FileKept, DeviceRuns, ~Meddled
    PROVE  FileKept'
<1>1. PICK c : c = Head(commands)
  OBVIOUS
<1>2. /\ commands # <<>> /\ c \in Command /\ (c.by \in Threads => c.n <= thread[c.by] /\ c.n > 0)
      /\ UNCHANGED <<thread, waiting, result, capture, tool, manual, blind>>
      /\ \A u \in Threads : u # c.by => Ran(u)' = Ran(u) /\ (Running(u)' <=> Running(u))
      /\ c.by \in Threads => /\ Running(c.by) /\ ~Running(c.by)' /\ c.by \in waiting
                             /\ Ran(c.by) = c.n - 1 /\ Ran(c.by)' = c.n
      /\ c.by = Nobody => manual > 0
  <2>1. commands # <<>>
    BY DEF DeviceRuns
  <2>2. c \in Command /\ (c.by \in Threads => c.n <= thread[c.by]) /\ (c.by = Nobody => manual > 0)
    BY <1>1, <2>1, FirstCommand
  <2>3. c.n > 0
    BY <2>2 DEF Command
  <2>. QED  BY <1>1, <2>1, <2>2, <2>3, DeviceRan
<1>3. /\ manual \in Nat /\ Nobody \notin Threads /\ Uploads \subseteq Threads /\ Chunks \in Nat
      /\ handle \in Uploads \cup {Nobody} /\ stored \in [Uploads -> Seq(Block)]
      /\ allocated \in BOOLEAN
  BY FilesAssumption DEF FilesTyped, Threads
<1>4. c.by \in Threads => Unbroken(c.by)
  BY <1>2 DEF Unbroken, FilesTyped
\* only one upload is under way when a file was closed by hand
<1>5. ASSUME NEW t \in Uploads, NEW u \in Uploads, t # u, Ran(t) > 0, thread[u] > 0
      PROVE  manual = 0
  <2>1. thread[t] \in Nat /\ thread[t] > 0
    <3>1. thread[t] \in Nat
      BY <1>3 DEF FilesTyped
    <3>2. Ran(t) \in {thread[t], thread[t] - 1}
      BY DEF Ran
    <3>. QED  BY <1>5, <3>1, <3>2
  <2>. QED  BY <1>3, <1>5, <2>1 DEF Meddled
<1>6. ASSUME NEW t \in Uploads, t # c.by, Unbroken(t)'
      PROVE  Unbroken(t) /\ Good(t, Ran(t))
  <2>1. PICK pieces \in Seq(Whats) : AnsweredIn(c, pieces)
    BY <1>1, DeviceAnswers
  <2>2. WentWell(t)' => WentWell(t)
    BY <1>1, <1>3, <1>6, <2>1, NewAnswer
  <2>3. Unbroken(t)
    BY <1>2, <1>3, <1>6, <2>2 DEF Unbroken
  <2>. QED  BY <2>3 DEF FileKept
<1>7. ASSUME NEW what \in {"ok", "Error:"}, Answered(c, what), c.by \in Uploads, Unbroken(c.by)'
      PROVE  what = "ok"
  <2>1. PICK pieces : pieces = <<what>>
    OBVIOUS
  <2>2. what \in Whats
    BY DEF Whats
  <2>3. pieces \in Seq(Whats) /\ Len(pieces) = 1 /\ pieces[1] = what /\ AnsweredIn(c, pieces)
    BY <1>7, <2>1, <2>2, OneAnswer
  <2>4. WentWell(c.by)'
    BY <1>2, <1>3, <1>7 DEF Unbroken
  <2>5. \E p \in 1 .. Len(pieces) : pieces[p] = "ok"
    BY <1>1, <1>3, <1>7, <2>3, <2>4, NewAnswer
  <2>. QED  BY <2>3, <2>5
<1>8. CASE StoreAlloc(c)
  <2>1. c.by \in Uploads /\ c.n = 1 /\ Ran(c.by) = 0 /\ Ran(c.by)' = 1 /\ thread[c.by] > 0
    <3>1. Runs(c, "alloc")
      BY <1>8 DEF StoreAlloc
    <3>2. c.by \in Uploads /\ c.n = 1
      BY <1>2, <3>1, RunsWhat
    <3>3. thread[c.by] \in Nat
      BY <1>3, <3>2 DEF FilesTyped
    <3>. QED  BY <1>2, <1>3, <3>2, <3>3
  <2>2. ASSUME NEW t \in Uploads, Unbroken(t)'
        PROVE  Good(t, Ran(t))'
    <3>1. CASE t = c.by
      <4>1. handle = Nobody /\ handle' = t /\ allocated' = TRUE /\ content' = <<>>
        <5>1. handle # Nobody => Answered(c, "Error:")
          BY <1>8 DEF StoreAlloc
        <5>2. handle = Nobody => /\ handle' = t /\ content' = <<>>
                                 /\ allocated' = TRUE \/ Answered(c, "Error:")
          BY <1>8, <3>1 DEF StoreAlloc
        <5>3. ~Answered(c, "Error:")
          BY <1>7, <2>2, <3>1
        <5>. QED  BY <5>1, <5>2, <5>3
      <4>2. Prefix(t, 0) = <<>>
        BY DEF Prefix
      <4>3. Good(t, 1)'
        BY <1>3, <4>1, <4>2 DEF Good, Prefix, Size
      <4>. QED  BY <2>1, <3>1, <4>3, GoodAfter
    <3>2. CASE t # c.by
      <4>1. PICK m : m = Ran(t)
        OBVIOUS
      <4>2. Good(t, m) /\ Ran(t)' = m
        BY <1>2, <1>3, <1>6, <2>2, <3>2, <4>1
      <4>3. m \in 1 .. Chunks + 1 => manual = 0
        BY <1>3, <1>5, <2>1, <3>2, <4>1
      <4>4. stored' = stored /\ manual' = manual
        BY <1>2, <1>8 DEF StoreAlloc
      <4>5. CASE handle # Nobody
        <5>1. UNCHANGED <<handle, allocated, content>>
          BY <1>8, <4>5 DEF StoreAlloc
        <5>2. Good(t, m)'
          BY <4>2, <4>4, <5>1 DEF Good, Prefix, Size
        <5>. QED  BY <4>2, <5>2, GoodAfter
      <4>6. CASE handle = Nobody
        <5>1. handle' = c.by /\ handle # t
          BY <1>3, <1>8, <4>6 DEF StoreAlloc
        <5>2. m \notin 1 .. Chunks + 1
          BY <4>2, <4>3, <5>1 DEF Good
        <5>3. Good(t, m)'
          BY <3>2, <4>2, <4>4, <5>1, <5>2 DEF Good, Prefix, Size
        <5>. QED  BY <4>2, <5>3, GoodAfter
      <4>. QED  BY <4>5, <4>6
    <3>. QED  BY <3>1, <3>2
  <2>. QED  BY <2>2 DEF FileKept
<1>9. CASE StoreAppend(c)
  <2>1. /\ c.by \in Uploads /\ c.n \in 2 .. Chunks + 1 /\ Ran(c.by) = c.n - 1 /\ Ran(c.by)' = c.n
        /\ thread[c.by] > 0 /\ Good(c.by, c.n - 1)
    <3>1. Runs(c, "append")
      BY <1>9 DEF StoreAppend
    <3>2. c.by \in Uploads /\ c.n \in 2 .. Chunks + 1
      BY <1>2, <3>1, RunsWhat
    <3>3. thread[c.by] \in Nat
      BY <1>3, <3>2 DEF FilesTyped
    <3>4. Good(c.by, Ran(c.by))
      BY <1>3, <1>4, <3>2 DEF FileKept
    <3>5. Ran(c.by) = c.n - 1 /\ Ran(c.by)' = c.n
      BY <1>2, <1>3, <3>2
    <3>. QED  BY <1>2, <1>3, <3>2, <3>3, <3>4, <3>5
  <2>2. ASSUME NEW t \in Uploads, Unbroken(t)'
        PROVE  Good(t, Ran(t))'
    <3>1. UNCHANGED <<handle, allocated, stored, manual>>
      BY <1>2, <1>9 DEF StoreAppend
    <3>2. CASE t = c.by
      <4>1. allocated
        <5>1. ~allocated => Answered(c, "Error:")
          BY <1>9 DEF StoreAppend
        <5>. QED  BY <1>7, <2>2, <3>2, <5>1
      <4>2. PICK k \in Nat : k = c.n - 2
        BY <1>3, <2>1
      <4>3. /\ k + 1 = c.n - 1 /\ k + 2 = c.n /\ k + 1 \in 1 .. Chunks + 1 /\ k + 1 # Chunks + 2
            /\ k + 2 \in 1 .. Chunks + 1 /\ k + 2 # Chunks + 2
        BY <1>3, <2>1, <4>2
      <4>4. Good(t, k + 1)
        BY <2>1, <3>2, <4>3
      <4>5. handle = t /\ content = Prefix(t, k)
        <5>1. k + 1 - 1 = k
          OBVIOUS
        <5>. QED  BY <4>1, <4>3, <4>4, <5>1 DEF Good
      <4>6. content' = Append(content, [by |-> t, n |-> k + 1, length |-> Decoded(Size(t, k + 1))])
        <5>1. content' = Append(content, [by |-> c.by, n |-> c.n - 1,
                                          length |-> Decoded(Size(c.by, c.n - 1))])
          BY <1>9, <4>1 DEF StoreAppend
        <5>. QED  BY <3>2, <4>3, <5>1
      <4>7. content' = Prefix(t, k + 1)
        BY <4>5, <4>6, PrefixIs
      <4>8. Good(t, k + 2)'
        <5>1. k + 2 - 1 = k + 1
          OBVIOUS
        <5>2. handle' = t /\ allocated'
          BY <3>1, <4>1, <4>5
        <5>3. content' = Prefix(t, k + 2 - 1)
          BY <4>7, <5>1
        <5>. QED  BY <4>3, <5>2, <5>3 DEF Good, Prefix, Size
      <4>9. Ran(t)' = k + 2
        BY <2>1, <3>2, <4>3
      <4>. QED  BY <4>8, <4>9, GoodAfter
    <3>3. CASE t # c.by
      <4>1. PICK m : m = Ran(t)
        OBVIOUS
      <4>2. Good(t, m) /\ Ran(t)' = m
        BY <1>2, <1>3, <1>6, <2>2, <3>3, <4>1
      <4>3. CASE ~allocated
        <5>1. content' = content
          BY <1>9, <4>3 DEF StoreAppend
        <5>2. Good(t, m)'
          BY <3>1, <4>2, <5>1 DEF Good, Prefix, Size
        <5>. QED  BY <4>2, <5>2, GoodAfter
      <4>4. CASE allocated
        <5>1. handle = c.by
          <6>1. c.n - 1 \in 1 .. Chunks + 1
            BY <1>3, <2>1
          <6>. QED  BY <2>1, <4>4, <6>1 DEF Good
        <5>2. m \notin 1 .. Chunks + 1
          BY <3>3, <4>2, <4>4, <5>1 DEF Good
        <5>3. Good(t, m)'
          BY <3>1, <4>2, <5>2 DEF Good, Prefix, Size
        <5>. QED  BY <4>2, <5>3, GoodAfter
      <4>. QED  BY <4>3, <4>4
    <3>. QED  BY <3>2, <3>3
  <2>. QED  BY <2>2 DEF FileKept
<1>10. CASE StoreFinish(c)
  <2>1. \/ c.by = Nobody /\ manual > 0
        \/ /\ c.by \in Uploads /\ c.by # Nobody /\ c.n = Chunks + 2 /\ Ran(c.by)' = Chunks + 2
           /\ Good(c.by, Chunks + 1)
    <3>1. Runs(c, "finish")
      BY <1>10 DEF StoreFinish
    <3>2. c.by = Nobody \/ (c.by \in Uploads /\ c.n = Chunks + 2)
      BY <1>2, <3>1, RunsWhat
    <3>3. CASE c.by \in Uploads /\ c.n = Chunks + 2
      <4>1. Good(c.by, Ran(c.by))
        BY <1>3, <1>4, <3>3 DEF FileKept
      <4>2. Ran(c.by) = Chunks + 1 /\ Ran(c.by)' = Chunks + 2
        BY <1>2, <1>3, <3>3
      <4>. QED  BY <1>3, <3>3, <4>1, <4>2
    <3>. QED  BY <1>2, <3>2, <3>3
  <2>2. ASSUME NEW t \in Uploads, Unbroken(t)'
        PROVE  Good(t, Ran(t))'
    <3>1. manual' = manual
      BY <1>2
    <3>2. CASE ~allocated
      <4>1. Answered(c, "Error:") /\ UNCHANGED <<handle, allocated, content, stored>>
        BY <1>10, <3>2 DEF StoreFinish
      <4>2. t # c.by
        BY <1>7, <2>2, <4>1
      <4>3. PICK m : m = Ran(t)
        OBVIOUS
      <4>4. Good(t, m) /\ Ran(t)' = m
        BY <1>2, <1>3, <1>6, <2>2, <4>2, <4>3
      <4>5. Good(t, m)'
        BY <3>1, <4>1, <4>4 DEF Good, Prefix, Size
      <4>. QED  BY <4>4, <4>5, GoodAfter
    <3>3. CASE allocated
      <4>1. /\ stored' = [stored EXCEPT ![handle] = content] /\ handle' = Nobody /\ allocated' = FALSE
            /\ handle \in Uploads
        <5>1. handle # Nobody
          BY <3>3 DEF FilesTyped
        <5>. QED  BY <1>3, <1>10, <3>3, <5>1 DEF StoreFinish
      <4>2. CASE t = c.by
        <5>1. Good(t, Chunks + 1) /\ Ran(t)' = Chunks + 2
          BY <1>3, <2>1, <4>2
        <5>2. handle = t /\ content = Prefix(t, Chunks)
          <6>1. PICK m \in Nat : m = Chunks + 1 /\ m \in 1 .. Chunks + 1 /\ m - 1 = Chunks
            BY <1>3
          <6>2. Good(t, m)
            BY <5>1, <6>1
          <6>3. handle = t /\ content = Prefix(t, m - 1)
            BY <3>3, <6>1, <6>2 DEF Good
          <6>. QED  BY <6>1, <6>3
        <5>3. stored'[t] = Prefix(t, Chunks) /\ handle' # t
          BY <1>3, <4>1, <5>2
        <5>4. Good(t, Chunks + 2)'
          <6>1. Chunks + 2 \notin 1 .. Chunks + 1
            BY <1>3
          <6>. QED  BY <5>3, <6>1 DEF Good, Prefix, Size
        <5>. QED  BY <5>1, <5>4, GoodAfter
      <4>3. CASE t # c.by
        <5>1. PICK m : m = Ran(t)
          OBVIOUS
        <5>2. Good(t, m) /\ Ran(t)' = m
          BY <1>2, <1>3, <1>6, <2>2, <4>3, <5>1
        <5>3. CASE m \in 1 .. Chunks + 1
          <6>1. handle = t /\ m # Chunks + 2
            BY <1>3, <3>3, <5>2, <5>3 DEF Good
          <6>2. manual > 0
            <7>1. CASE c.by \in Uploads
              <8>1. Good(c.by, Chunks + 1)
                BY <1>3, <2>1, <7>1
              <8>2. Chunks + 1 \in 1 .. Chunks + 1
                BY <1>3
              <8>3. handle = c.by
                BY <3>3, <8>1, <8>2 DEF Good
              <8>. QED  BY <4>3, <6>1, <8>3
            <7>2. CASE c.by \notin Uploads
              BY <2>1, <7>2
            <7>. QED  BY <7>1, <7>2
          <6>3. Good(t, m)'
            BY <3>1, <4>1, <6>1, <6>2 DEF Good, Prefix, Size
          <6>. QED  BY <5>2, <6>3, GoodAfter
        <5>4. CASE m \notin 1 .. Chunks + 1
          <6>1. handle # t => stored'[t] = stored[t]
            BY <1>3, <4>1
          <6>2. handle' # t
            BY <1>3, <4>1
          <6>3. Good(t, m)'
            BY <5>2, <5>4, <6>1, <6>2 DEF Good, Prefix, Size
          <6>. QED  BY <5>2, <6>3, GoodAfter
        <5>. QED  BY <5>3, <5>4
      <4>. QED  BY <4>2, <4>3
    <3>. QED  BY <3>2, <3>3
  <2>. QED  BY <2>2 DEF FileKept
<1>11. CASE Cat(c) \/ ChangeDir(c) \/ Dir(c)
  <2>1. c.by \notin Uploads
    <3>1. \E op \in {"cat", "cd", "dir"} : Runs(c, op)
      BY <1>11 DEF Cat, ChangeDir, Dir
    <3>. QED  BY <1>2, <3>1, RunsWhat, FilesAssumption DEF Threads
  <2>2. UNCHANGED <<handle, allocated, content, stored>>
    BY <1>11 DEF Cat, ChangeDir, Dir, device
  <2>3. ASSUME NEW t \in Uploads, Unbroken(t)'
        PROVE  Good(t, Ran(t))'
    <3>1. t # c.by /\ t \in Threads
      BY <1>3, <2>1
    <3>2. Ran(t)' = Ran(t) /\ Unbroken(t)
      BY <1>2, <1>6, <2>3, <3>1
    <3>3. [YNext]_yvars
      BY DEF YNext
    <3>. QED  BY <2>2, <2>3, <3>2, <3>3, UndisturbedFile
  <2>. QED  BY <2>3 DEF FileKept
<1>. QED  BY <1>1, <1>8, <1>9, <1>10, <1>11 DEF DeviceRuns

LEMMA StillFile ==
    ASSUME FilesTyped, Orderly, AnswersFit, FileKept, [YNext]_yvars, ~blind', ~Meddled
    PROVE  FileKept'
<1>1. CASE DeviceRuns
  BY <1>1, DeviceFile
<1>. SUFFICES ASSUME ~DeviceRuns, NEW t \in Uploads, Unbroken(t)'
              PROVE  Good(t, Ran(t))'
  BY <1>1 DEF FileKept
<1>2. t \in Threads /\ t \notin Downloads /\ t \notin Visits
  BY FilesAssumption DEF Threads
<1>3. WentWell(t)' => WentWell(t)
  BY WayOnlyShrinks DEF WentWell
<1>4. ASSUME NEW u \in Threads, SendCommand(u)
      PROVE  Good(t, Ran(t))'
  <2>1. /\ waiting' = waiting \cup {u} /\ result' = result
        /\ UNCHANGED <<handle, allocated, content, stored>>
    BY <1>4 DEF SendCommand, device
  <2>2. /\ Ran(t)' = Ran(t) /\ (t # u => (Running(t)' <=> Running(t)))
        /\ u \notin waiting /\ result[u] = "none"
    BY <1>2, <1>4, SendRan
  <2>3. Unbroken(t)
    BY <1>3, <2>1, <2>2 DEF Unbroken
  <2>. QED  BY <2>1, <2>2, <2>3, UndisturbedFile
<1>5. ASSUME NEW u \in Threads, CaptureEnds(u)
      PROVE  Good(t, Ran(t))'
  <2>1. /\ u \in waiting /\ waiting' = waiting \ {u} /\ UNCHANGED <<thread, commands>>
        /\ UNCHANGED <<handle, allocated, content, stored>> /\ Seen(u)
    <3>1. blind' = (blind \/ ~Seen(u))
      BY <1>5 DEF CaptureEnds
    <3>. QED  BY <1>5, <3>1 DEF CaptureEnds, device
  <2>2. (Running(t)' <=> Running(t)) /\ Ran(t)' = Ran(t)
    BY <2>1 DEF Ran, Running
  <2>3. CASE t # u
    <3>1. PICK r : r = result'[u]
      OBVIOUS
    <3>2. result' = [result EXCEPT ![u] = r]
      <4>1. result' = [result EXCEPT ![u] = result'[u]]
        BY <1>5, <2>1, ResultIs
      <4>. QED  BY <3>1, <4>1, Zenon
    <3>3. result'[t] = result[t]
      BY <1>2, <2>3, <3>2 DEF FilesTyped
    <3>4. Unbroken(t)
      BY <1>3, <2>1, <2>2, <2>3, <3>3 DEF Unbroken
    <3>. QED  BY <2>1, <2>2, <3>4, UndisturbedFile
  <2>4. CASE t = u
    <3>1. ~Captured("Error:")
      <4>1. result'[t] # "failed"
        BY DEF Unbroken
      <4>. QED  BY <1>5, <2>1, <2>4, <4>1, ResultIs
    <3>2. PICK a \in Own(t) : a \in Range(capture.chunks) /\ a.by = t
      BY <2>1, <2>4 DEF Seen, Own
    <3>3. PICK i \in DOMAIN capture.chunks : a = capture.chunks[i]
      BY <3>2 DEF Range
    <3>4. i \in DOMAIN Way /\ Way[i] = a
      <4>1. answers' = answers /\ capture'.chunks = <<>>
        BY <1>5 DEF CaptureEnds
      <4>. QED  BY <3>3, <4>1, WayShrinks
    <3>5. a.what \in {"ok", "Error:"}
      BY <3>2, <3>4 DEF AnswersFit, AnswerFits
    <3>6. a.what # "Error:"
      BY <3>1, <3>2 DEF Captured
    <3>7. WentWell(t)
      BY <3>2, <3>4, <3>5, <3>6 DEF WentWell
    <3>8. result[t] = "none"
      BY <1>2, <2>1, <2>4 DEF FilesTyped
    <3>9. Unbroken(t)
      BY <3>7, <3>8 DEF Unbroken
    <3>. QED  BY <2>1, <2>2, <3>9, UndisturbedFile
  <2>. QED  BY <2>3, <2>4
<1>6. CASE ManualFinish
  <2>1. UNCHANGED <<waiting, result, handle, allocated, content, stored>>
    BY <1>6 DEF ManualFinish, device
  <2>2. Ran(t)' = Ran(t) /\ (Running(t)' <=> Running(t))
    BY <1>2, <1>6, ManualRan
  <2>3. Unbroken(t)
    BY <1>3, <2>1, <2>2 DEF Unbroken
  <2>. QED  BY <2>1, <2>2, <2>3, UndisturbedFile
<1>7. CASE Receive \/ UNCHANGED yvars
  <2>1. UNCHANGED <<waiting, result, thread, commands, handle, allocated, content, stored>>
    BY <1>7 DEF Receive, device, yvars
  <2>2. Ran(t)' = Ran(t) /\ (Running(t)' <=> Running(t))
    BY <2>1 DEF Ran, Running
  <2>3. Unbroken(t)
    BY <1>3, <2>1, <2>2 DEF Unbroken
  <2>. QED  BY <2>1, <2>2, <2>3, UndisturbedFile
<1>. QED  BY <1>4, <1>5, <1>6, <1>7 DEF YNext

\* the inductive invariant
FilesKept ==
    /\ FilesTyped /\ AnswersFit
    /\ ~blind => Orderly /\ PathKept /\ DumpKept /\ (~Meddled => FileKept)

LEMMA FilesKeptInit == YInit => FilesKept
<1>. SUFFICES ASSUME YInit PROVE FilesKept
  OBVIOUS
<1>1. FilesTyped /\ Orderly
  BY OrderlyInit
<1>2. capture.chunks = <<>> /\ answers = <<>> /\ commands = <<>>
  BY DEF YInit
<1>3. Way = <<>>
  BY <1>2 DEF Way
<1>4. AnswersFit /\ AllListSub
  BY <1>3 DEF AnswersFit, AllListSub
<1>5. \A t \in Threads : Ran(t) = 0 /\ result[t] = "none"
  <2>. TAKE t \in Threads
  <2>1. ~Running(t)
    BY <1>2 DEF Running
  <2>. QED  BY <2>1 DEF Ran, YInit
<1>6. PathKept
  BY <1>4, <1>5 DEF PathKept, Threads
<1>7. DumpKept
  BY <1>5 DEF DumpKept, Threads
<1>8. FileKept
  <2>. SUFFICES ASSUME NEW t \in Uploads PROVE Good(t, Ran(t))
    BY DEF FileKept
  <2>1. Ran(t) = 0
    BY <1>5 DEF Threads
  <2>. QED  BY <2>1, FilesAssumption DEF Good
<1>. QED  BY <1>1, <1>4, <1>6, <1>7, <1>8 DEF FilesKept

LEMMA FilesKeptStep ==
    ASSUME OneDownload, FilesKept, [YNext]_yvars
    PROVE  FilesKept'
<1>1. FilesTyped /\ FilesTyped' /\ AnswersFit'
  BY FilesTypes, StillFit DEF FilesKept
<1>. SUFFICES ASSUME ~blind'
              PROVE  (Orderly /\ PathKept /\ DumpKept /\ (~Meddled => FileKept))'
  BY <1>1 DEF FilesKept
<1>2. ~blind /\ (~Meddled' => ~Meddled)
  BY <1>1, HistoryGrows
<1>3. AnswersFit /\ Orderly /\ PathKept /\ DumpKept /\ (~Meddled => FileKept)
  BY <1>2 DEF FilesKept
<1>4. Orderly'
  <2>1. ASSUME NEW t \in Threads, CaptureEnds(t)
        PROVE  Orderly'
    <3>1. blind' = (blind \/ ~Seen(t))
      BY <2>1 DEF CaptureEnds
    <3>. QED  BY <1>1, <1>3, <2>1, <3>1, EndOrderly
  <2>2. CASE UNCHANGED yvars
    <3>1. UNCHANGED <<thread, waiting, commands, answers, capture>>
      BY <2>2 DEF yvars
    <3>. QED  BY <1>3, <3>1 DEF Orderly, Commanded, AllOnTheWay, OnTheWay, Paired, Way
  <2>. QED  BY <1>1, <1>3, <2>1, <2>2, SendOrderly, ManualOrderly, ReceiveOrderly, DeviceOrderly DEF YNext
<1>5. PathKept'
  BY <1>1, <1>3, StillPath
<1>6. DumpKept'
  BY <1>1, <1>3, StillDumped
<1>7. ASSUME ~Meddled'
      PROVE  FileKept'
  BY <1>1, <1>2, <1>3, <1>7, StillFile
<1>. QED  BY <1>4, <1>5, <1>6, <1>7

LEMMA FilesKeptIsExact == FilesKept => CompleteIsExact
<1>. SUFFICES ASSUME FilesKept, NEW t \in Threads, result[t] = "complete", ~blind
              PROVE  /\ t \in Uploads /\ ~Meddled => Exactly(t)
                     /\ t \in Downloads => tool.dump = [i \in 1 .. Pieces |-> i]
                     /\ t \in Visits => tool.path = directory
  BY DEF CompleteIsExact
<1>1. FilesTyped /\ Orderly /\ PathKept /\ DumpKept /\ (~Meddled => FileKept)
  BY DEF FilesKept
<1>2. t \notin waiting /\ thread[t] = Len(Work(t))
  BY <1>1 DEF FilesTyped
<1>3. Ran(t) = Len(Work(t))
  <2>1. ~Running(t)
    BY <1>1, <1>2 DEF Running, Orderly, Commanded
  <2>. QED  BY <1>2, <2>1 DEF Ran
<1>4. ASSUME t \in Uploads, ~Meddled
      PROVE  Exactly(t)
  <2>1. Unbroken(t)
    BY <1>2 DEF Unbroken
  <2>2. Ran(t) = Chunks + 2
    BY <1>3, <1>4, WorkIs
  <2>3. Good(t, Chunks + 2)
    BY <1>1, <1>4, <2>1, <2>2 DEF FileKept
  <2>4. stored[t] = Prefix(t, Chunks)
    BY <2>3 DEF Good
  <2>5. PICK s : s = stored[t]
    OBVIOUS
  <2>6. DOMAIN s = 1 .. Chunks
    BY <2>4, <2>5 DEF Prefix
  <2>7. ASSUME NEW i \in 1 .. Chunks
        PROVE  /\ s[i].by = t /\ s[i].n = i
               /\ s[i].length = Decoded(Size(t, i))
    <3>1. PICK b : b = s[i]
      OBVIOUS
    <3>2. b = [by |-> t, n |-> i, length |-> Decoded(Size(t, i))]
      BY <2>4, <2>5, <3>1 DEF Prefix
    <3>. QED  BY <3>1, <3>2
  <2>8. [i \in DOMAIN s |-> [by |-> s[i].by, n |-> s[i].n]] = [i \in 1 .. Chunks |-> [by |-> t, n |-> i]]
    BY <2>6, <2>7
  <2>9. \A i \in 1 .. Chunks : Size(t, i) % 3 # 1 => s[i].length = Size(t, i)
    BY <2>7 DEF Decoded
  <2>. QED  BY <2>5, <2>8, <2>9 DEF Exactly
<1>5. ASSUME t \in Visits
      PROVE  tool.path = directory
  <2>1. Ran(t) > 0
    BY <1>3, <1>5, WorkIs
  <2>. QED  BY <1>1, <1>5, <2>1 DEF PathKept
<1>6. t \in Downloads => tool.dump = [i \in 1 .. Pieces |-> i]
  BY <1>1 DEF DumpKept, Dumped
<1>. QED  BY <1>4, <1>5, <1>6

\* What the tool reports complete is whole, from whatever bytes, in whatever
\* order its threads send their commands, capture and give up, and the device
\* runs and answers them (execute_and_capture of the tool, StoreCommand::execute),
\* as long as every thread saw its answers: of two downloads at once the dumps
\* mix in the buffer, so there is at most one.
THEOREM CompletesAreExact == OneDownload => (YSpec => []CompleteIsExact)
<1>. SUFFICES ASSUME OneDownload PROVE YSpec => []CompleteIsExact
  OBVIOUS
<1>1. YInit => FilesKept
  BY FilesKeptInit
<1>2. FilesKept /\ [YNext]_yvars => FilesKept'
  BY FilesKeptStep
<1>3. FilesKept => CompleteIsExact
  BY FilesKeptIsExact
<1>. QED  BY <1>1, <1>2, <1>3, PTL DEF YSpec

-----------------------------------------------------------------------------
(***************************************************************************)
(* Displays: the frame is a window of the text's ring of columns.  A       *)
(* column counts from the first of the text; the packed words hold one     *)
(* character more, the first again.                                        *)
(***************************************************************************)
LEMMA ColumnsAre ==
    ASSUME NEW t, Len(t) \in Nat \ {0}
    PROVE  Len(Columns8(t)) = 8 * Len(t) /\ 8 * Len(t) \in Nat \ {0}
<1>1. 8 * Len(t) \in Nat \ {0}  OBVIOUS
<1>2. PICK n \in Nat : n = 8 * Len(t)  BY <1>1
<1>3. PICK columns : columns = Columns8(t)  OBVIOUS
<1>4. columns = [i \in 1 .. n |-> Glyph8(t[((i - 1) \div 8) + 1], (i - 1) % 8)]
  BY <1>2, <1>3, Zenon DEF Columns8
<1>5. DOMAIN columns = 1 .. n  BY <1>4
<1>6. PICK S : S = {columns[i] : i \in 1 .. n}  OBVIOUS
<1>7. columns \in [1 .. n -> S]
  <2>1. \A i \in 1 .. n : columns[i] \in S  BY <1>6
  <2>. QED  BY <1>4, <1>5, <2>1
<1>8. columns \in Seq(S)  BY <1>7
<1>9. Len(columns) = n  BY <1>2, <1>5, <1>8
<1>. QED  BY <1>1, <1>2, <1>3, <1>9

\* Column P of what dotMatrix5x5 packs.
Packed(t, P) == IF P \div 6 = Len(t) THEN Glyph(t[1], P % 6) ELSE Glyph(t[(P \div 6) + 1], P % 6)

\* The bits of a word are its columns; one that is not there shows nothing.
LEMMA BitIs ==
    ASSUME NEW t, Len(t) \in Nat \ {0}, NEW w \in Nat, NEW b \in Int,
           w < _total_columns(t), 30 * w + b < 6 * (Len(t) + 1)
    PROVE  /\ b \in 0 .. 29 => Bit(t, w, b) = Packed(t, 30 * w + b)
           /\ b \notin 0 .. 29 => Bit(t, w, b) = Off
<1>1. ~(w >= _total_columns(t))
  <2>1. _total_columns(t) \in Int  BY DEF _total_columns, _bit_vector_length
  <2>. QED  BY <2>1
<1>2. PICK L \in Nat : L = Len(t) /\ L > 0  OBVIOUS
<1>3. CASE b \notin 0 .. 29
  <2>1. b < 0 \/ b >= 30  BY <1>3
  <2>. QED  BY <1>1, <1>3, <2>1, Zenon DEF Bit
<1>4. CASE b \in 0 .. 29
  <2>1. PICK P \in Nat : P = 30 * w + b  BY <1>4
  <2>2. PICK i : i = w * 5 + (b \div 6)  OBVIOUS
  <2>3. i = P \div 6 /\ b % 6 = P % 6  BY <1>4, <2>1, <2>2
  <2>4. i \in Nat /\ i <= L  BY <1>2, <2>1, <2>3
  <2>5. ~(b < 0 \/ b >= 30 \/ i > L)  BY <1>4, <1>2, <2>4
  <2>6. Bit(t, w, b) = Glyph(IF i = L THEN t[1] ELSE t[i + 1], b % 6)
    BY <1>1, <1>2, <2>2, <2>5, Zenon DEF Bit
  <2>7. Bit(t, w, b) = Packed(t, P)
    BY <1>2, <2>3, <2>6 DEF Packed
  <2>. QED  BY <1>4, <2>1, <2>7
<1>. QED  BY <1>3, <1>4

\* What is painted is five columns of what is packed, in one word or in two.
LEMMA PaintedFive ==
    ASSUME NEW t, Len(t) \in Nat \ {0}, NEW o \in 0 .. 6 * Len(t)
    PROVE  Paint5x5(t, o) = [r \in 1 .. 5 |-> Packed(t, o + r - 1)]
<1>1. PICK L \in Nat : L = Len(t) /\ L > 0  OBVIOUS
<1>2. o \in Nat /\ o <= 6 * L  BY <1>1
<1>3. PICK s \in Nat : s = o \div 30  BY <1>2
<1>4. PICK e \in Nat : e = (o + 5) \div 30  BY <1>2
<1>5. PICK start : start = [r \in Int |-> Bit(t, s, o - s * 30 + r)]  OBVIOUS
<1>6. PICK end : end = [r \in Int |-> Bit(t, e, r - (30 - (o - s * 30)))]  OBVIOUS
<1>7. Paint5x5(t, o) = [r \in 1 .. 5 |->
                          IF s = e \/ end[r - 1] = Off THEN start[r - 1] ELSE end[r - 1]]
  <2>1. \A r \in 1 .. 5 : r - 1 \in Int  OBVIOUS
  <2>2. \A r \in 1 .. 5 : start[r - 1] = Bit(t, s, o - s * 30 + (r - 1))
    BY <1>5, <2>1, Zenon
  <2>3. \A r \in 1 .. 5 : end[r - 1] = Bit(t, e, (r - 1) - (30 - (o - s * 30)))
    BY <1>6, <2>1, Zenon
  <2>. QED  BY <1>3, <1>4, <2>2, <2>3, Zenon DEF Paint5x5
<1>8. _total_columns(t) = (6 * L + 35) \div 30
  <2>1. (L + 1) * 6 + 29 = 6 * L + 35  BY <1>1
  <2>. QED  BY <1>1, <2>1 DEF _total_columns, _bit_vector_length
<1>9. s < _total_columns(t) /\ e < _total_columns(t) /\ (e = s \/ e = s + 1)
  BY <1>1, <1>2, <1>3, <1>4, <1>8
<1>10. ASSUME NEW r \in 1 .. 5
       PROVE  (IF s = e \/ end[r - 1] = Off THEN start[r - 1] ELSE end[r - 1]) = Packed(t, o + r - 1)
  <2>1. PICK b \in Int : b = o - s * 30 + (r - 1)  BY <1>2, <1>3
  <2>2. PICK c \in Int : c = (r - 1) - (30 - (o - s * 30))  BY <1>2, <1>3
  <2>3. start[r - 1] = Bit(t, s, b) /\ end[r - 1] = Bit(t, e, c)
    <3>1. r - 1 \in Int  OBVIOUS
    <3>. QED  BY <1>5, <1>6, <2>1, <2>2, <3>1, Zenon
  <2>4. PICK P \in Nat : P = o + r - 1  BY <1>2
  <2>5. P < 6 * (Len(t) + 1)  BY <1>1, <1>2, <2>4
  <2>6. 30 * s + b = P /\ b >= 0 /\ c = b - 30  BY <1>2, <1>3, <2>1, <2>2, <2>4
  <2>7. CASE s = e
    <3>1. b \in 0 .. 29  BY <1>2, <1>3, <1>4, <2>1, <2>7
    <3>2. Bit(t, s, b) = Packed(t, P)
      BY <1>9, <2>5, <2>6, <3>1, BitIs
    <3>. QED  BY <2>3, <2>4, <2>7, <3>2
  <2>8. CASE e = s + 1 /\ b < 30
    <3>1. b \in 0 .. 29 /\ c \notin 0 .. 29  BY <2>6, <2>8
    <3>2. Bit(t, s, b) = Packed(t, P)
      BY <1>9, <2>5, <2>6, <3>1, BitIs
    <3>3. 30 * e + c < 6 * (Len(t) + 1)
      BY <2>5, <2>6, <2>8
    <3>4. Bit(t, e, c) = Off
      BY <1>9, <3>1, <3>3, BitIs
    <3>. QED  BY <2>3, <2>4, <3>2, <3>4
  <2>9. CASE e = s + 1 /\ b >= 30
    <3>0. b <= 33
      <4>1. PICK x \in Int : x = o - s * 30
        BY <1>2, <1>3
      <4>2. x <= 29
        BY <1>2, <1>3, <4>1
      <4>3. b = x + (r - 1)
        BY <2>1, <4>1
      <4>. QED  BY <4>2, <4>3
    <3>1. b \notin 0 .. 29 /\ c \in 0 .. 29 /\ 30 * e + c = P
      <4>1. b \notin 0 .. 29  BY <2>9
      <4>2. c \in 0 .. 29  BY <2>6, <2>9, <3>0
      <4>3. 30 * e + c = P
        <5>1. 30 * e = 30 * s + 30  BY <2>9
        <5>2. 30 * e \in Int /\ 30 * s \in Int  OBVIOUS
        <5>. QED  BY <2>6, <5>1, <5>2
      <4>. QED  BY <4>1, <4>2, <4>3
    <3>2. Bit(t, e, c) = Packed(t, P)
      <4>1. e < _total_columns(t) /\ 30 * e + c < 6 * (Len(t) + 1)
        BY <1>9, <2>5, <3>1
      <4>2. Bit(t, e, c) = Packed(t, 30 * e + c)
        BY <3>1, <4>1, BitIs
      <4>. QED  BY <3>1, <4>2
    <3>3. Bit(t, s, b) = Off
      BY <1>9, <2>5, <2>6, <3>1, BitIs
    <3>4. s # e  BY <2>9
    <3>. QED  BY <2>3, <2>4, <3>2, <3>3, <3>4
  <2>. QED  BY <1>9, <2>7, <2>8, <2>9
<1>. QED  BY <1>7, <1>10, Zenon

LEMMA Modulo ==
    ASSUME NEW x \in Nat, NEW n \in Nat, n > 0
    PROVE  /\ x < n => x % n = x
           /\ n <= x /\ x < 2 * n => x % n = x - n
OBVIOUS

\* The window of the ring, which starts over at its end.
LEMMA WindowFive ==
    ASSUME NEW t, Len(t) \in Nat \ {0}, NEW o \in 0 .. 6 * Len(t),
           display.kind = "dotMatrix5x5"
    PROVE  Paint5x5(t, o) = Picture(t, o % Len(Ring(t)), 5) /\ Len(Ring(t)) = 6 * Len(t)
<1>1. PICK L \in Nat : L = Len(t) /\ L > 0  OBVIOUS
<1>2. PICK n \in Nat : n = 6 * L  BY <1>1
<1>3. PICK ring : ring = Ring(t)  OBVIOUS
<1>4. ring = [i \in 1 .. n |-> Glyph(t[((i - 1) \div 6) + 1], (i - 1) % 6)]
  <2>1. display.kind # "dotMatrix8xN"  OBVIOUS
  <2>. QED  BY <1>1, <1>2, <1>3, <2>1, Zenon DEF Ring
<1>5. DOMAIN ring = 1 .. n  BY <1>4
<1>6. Len(ring) = n
  <2>1. PICK S : S = {ring[i] : i \in 1 .. n}  OBVIOUS
  <2>2. \A i \in 1 .. n : ring[i] \in S  BY <2>1
  <2>3. ring \in [1 .. n -> S]  BY <1>4, <1>5, <2>2
  <2>4. ring \in Seq(S)  BY <2>3
  <2>. QED  BY <1>2, <1>5, <2>4
<1>7. PICK p \in Nat : p = o % n /\ o \in Nat /\ o <= n /\ n > 0 /\ p < n
  BY <1>1, <1>2
<1>8. p = IF o = n THEN 0 ELSE o
  BY <1>2, <1>7, Modulo
<1>9. ASSUME NEW r \in 1 .. 5
      PROVE  ring[((p + r - 1) % n) + 1] = Packed(t, o + r - 1)
  <2>1. PICK q \in Nat : q = (p + r - 1) % n /\ q < n  BY <1>2, <1>7
  <2>2. PICK P \in Nat : P = o + r - 1  BY <1>7
  <2>3. q = IF P < n THEN P ELSE P - n
    <3>1. n >= 6  BY <1>1, <1>2
    <3>2. CASE o = n
      <4>1. p + r - 1 = r - 1 /\ r - 1 \in Nat /\ r - 1 < n /\ P = n + (r - 1)
        BY <1>8, <2>2, <3>1, <3>2
      <4>. QED  BY <1>2, <1>7, <2>1, <4>1, Modulo
    <3>3. CASE o # n
      <4>1. p + r - 1 = P /\ P < 2 * n
        BY <1>7, <1>8, <2>2, <3>1, <3>3
      <4>. QED  BY <1>2, <1>7, <2>1, <2>2, <4>1, Modulo
    <3>. QED  BY <3>2, <3>3
  <2>4. ring[q + 1] = Glyph(t[(q \div 6) + 1], q % 6)
    <3>1. q + 1 \in 1 .. n /\ (q + 1) - 1 = q  BY <2>1
    <3>. QED  BY <1>4, <3>1
  <2>5. P < n + 6  BY <1>1, <1>2, <1>7, <2>2
  <2>6. CASE P < n
    <3>1. P \div 6 # L  BY <1>1, <1>2, <2>6
    <3>. QED  BY <1>1, <2>1, <2>2, <2>3, <2>4, <2>6, <3>1 DEF Packed
  <2>7. CASE ~(P < n)
    <3>1. P \div 6 = L /\ q \div 6 = 0 /\ q % 6 = P % 6
      BY <1>1, <1>2, <2>3, <2>5, <2>7
    <3>2. t[(q \div 6) + 1] = t[1]  BY <3>1
    <3>. QED  BY <1>1, <2>1, <2>2, <2>4, <3>1, <3>2 DEF Packed
  <2>. QED  BY <2>6, <2>7
<1>10. Picture(t, p, 5) = [r \in 1 .. 5 |-> ring[((p + r - 1) % n) + 1]]
  BY <1>3, <1>6, Zenon DEF Picture
<1>11. Picture(t, p, 5) = Paint5x5(t, o)
  <2>1. Paint5x5(t, o) = [r \in 1 .. 5 |-> Packed(t, o + r - 1)]  BY PaintedFive
  <2>. QED  BY <1>9, <1>10, <2>1, Zenon
<1>. QED  BY <1>1, <1>2, <1>3, <1>6, <1>7, <1>11

LEMMA WindowEight ==
    ASSUME NEW t, Len(t) \in Nat \ {0}, NEW o \in 0 .. 8 * Len(t) - 1, NEW old,
           display.kind = "dotMatrix8xN", ~Static(t)
    PROVE  Paint8xN(t, o, old) = Picture(t, o % Len(Ring(t)), Width8)
           /\ Len(Ring(t)) = 8 * Len(t)
<1>1. Ring(t) = Columns8(t)  BY DEF Ring
<1>2. PICK n \in Nat : n = Len(Columns8(t)) /\ n = 8 * Len(t) /\ n > 0  BY ColumnsAre
<1>3. o % n = o  BY <1>2, Modulo
<1>4. Paint8xN(t, o, old) = [i \in 1 .. Width8 |-> Columns8(t)[((o + i - 1) % n) + 1]]
  BY <1>2 DEF Paint8xN
<1>5. Picture(t, o, Width8) = [i \in 1 .. Width8 |-> Columns8(t)[((o + i - 1) % n) + 1]]
  BY <1>1, <1>2 DEF Picture
<1>. QED  BY <1>1, <1>2, <1>3, <1>4, <1>5

(***************************************************************************)
(* The invariant: the offset stays on the ring, and what the DMA reads, or *)
(* an idle strip shows, is the frame unless it was missed.                 *)
(***************************************************************************)
OffsetInv ==
    /\ display \in DisplayKinds /\ text \in Texts /\ direction \in {"STOP", "LEFT", "RIGHT"}
    /\ display.kind = "dotMatrix5x5" => offset \in 0 .. 6 * Len(text)
    /\ display.kind = "dotMatrix8xN" => offset \in 0 .. 8 * Len(text) - 1

StripInv ==
    /\ busy \in BOOLEAN /\ missed \in BOOLEAN
    /\ ~missed /\ busy => wire = Characters(frame)
    /\ ~missed /\ ~busy => strip = Characters(frame)

LEMMA TextFacts ==
    ASSUME NEW t \in Texts
    PROVE  Len(t) \in Nat \ {0} /\ 0 \in 0 .. 6 * Len(t) /\ 0 \in 0 .. 8 * Len(t) - 1
BY DisplaysAssumption

LEMMA StepsStay ==
    ASSUME NEW t \in Texts, direction \in {"STOP", "LEFT", "RIGHT"}
    PROVE  /\ \A o \in 0 .. 6 * Len(t) : Step5x5(t, o, direction) \in 0 .. 6 * Len(t)
           /\ \A o \in 0 .. 8 * Len(t) - 1 : Step8xN(t, o, direction) \in 0 .. 8 * Len(t) - 1
<1>1. PICK L \in Nat : L = Len(t) /\ L > 0  BY TextFacts
<1>2. ASSUME NEW o \in 0 .. 6 * Len(t)
      PROVE  Step5x5(t, o, direction) \in 0 .. 6 * Len(t)
  <2>1. CASE L = 1
    <3>1. Step5x5(t, o, direction) = o  BY <1>1, <2>1 DEF Step5x5
    <3>. QED  BY <3>1
  <2>2. CASE L > 1 /\ direction = "LEFT"
    BY <1>1, <2>2 DEF Step5x5, _bit_vector_length
  <2>3. CASE L > 1 /\ direction = "RIGHT"
    BY <1>1, <2>3 DEF Step5x5, _bit_vector_length
  <2>4. CASE L > 1 /\ direction = "STOP"
    BY <1>1, <2>4 DEF Step5x5, _bit_vector_length
  <2>. QED  BY <1>1, <2>1, <2>2, <2>3, <2>4
<1>3. ASSUME NEW o \in 0 .. 8 * Len(t) - 1
      PROVE  Step8xN(t, o, direction) \in 0 .. 8 * Len(t) - 1
  <2>1. PICK n \in Nat : n = Len(Columns8(t)) /\ n = 8 * L /\ n > 0  BY <1>1, ColumnsAre
  <2>2. CASE Static(t)
    BY <2>2 DEF Step8xN
  <2>3. CASE ~Static(t) /\ direction = "LEFT"
    BY <1>1, <2>1, <2>3 DEF Step8xN
  <2>4. CASE ~Static(t) /\ direction = "RIGHT"
    BY <1>1, <2>1, <2>4 DEF Step8xN
  <2>5. CASE ~Static(t) /\ direction = "STOP"
    BY <1>1, <2>5 DEF Step8xN
  <2>. QED  BY <2>2, <2>3, <2>4, <2>5
<1>. QED  BY <1>2, <1>3

LEMMA SendKeeps ==
    ASSUME StripInv, NEW picture, Send(picture)
    PROVE  StripInv'
<1>1. PICK fits, dma : fits = FrameFits /\ dma = UsesDma  OBVIOUS
<1>2. fits \in BOOLEAN /\ dma \in BOOLEAN  BY <1>1 DEF FrameFits, UsesDma
<1>3. /\ frame' = picture
      /\ wire' = IF busy THEN wire \cup Characters(picture) ELSE Characters(picture)
      /\ busy' = (busy \/ (fits /\ dma))
      /\ strip' = IF fits /\ ~dma THEN Characters(picture) ELSE strip
      /\ missed' = (~fits \/ (busy /\ picture # frame) \/ (busy /\ missed))
  BY <1>1 DEF Send
<1>4. busy' \in BOOLEAN /\ missed' \in BOOLEAN
  BY <1>2, <1>3 DEF StripInv
<1>5. CASE missed'
  BY <1>4, <1>5 DEF StripInv
<1>6. CASE ~missed' /\ busy
  <2>1. picture = frame /\ ~missed  BY <1>3, <1>6 DEF StripInv
  <2>2. wire = Characters(frame)  BY <1>6, <2>1 DEF StripInv
  <2>3. wire' = Characters(picture) /\ busy'
    BY <1>3, <1>6, <2>1, <2>2
  <2>. QED  BY <1>3, <1>4, <2>3 DEF StripInv
<1>7. CASE ~missed' /\ ~busy
  <2>1. fits  BY <1>3, <1>7
  <2>2. wire' = Characters(picture)  BY <1>3, <1>7
  <2>3. busy' = dma /\ (~dma => strip' = Characters(picture))
    BY <1>2, <1>3, <1>7, <2>1
  <2>. QED  BY <1>3, <1>4, <2>2, <2>3 DEF StripInv
<1>. QED  BY <1>4, <1>5, <1>6, <1>7 DEF StripInv

LEMMA DisplayStarts ==
    ASSUME CInit
    PROVE  OffsetInv /\ StripInv
<1>1. display \in DisplayKinds /\ text \in Texts /\ direction = "LEFT" /\ offset = 0
      /\ busy = FALSE /\ missed = TRUE
  BY DEF CInit
<1>. QED  BY <1>1, TextFacts DEF OffsetInv, StripInv

LEMMA DisplayStep ==
    ASSUME OffsetInv, StripInv, [CNext]_cvars
    PROVE  OffsetInv' /\ StripInv'
<1>1. ASSUME NEW t \in Texts, SetValue(t)  PROVE OffsetInv' /\ StripInv'
  <2>1. display' = display /\ text' = t /\ direction' = direction  BY <1>1 DEF SetValue
  <2>2. CASE display.kind \in Scrolling
    <3>1. offset' = 0 /\ UNCHANGED <<frame, busy, wire, strip, missed>>
      BY <1>1, <2>2 DEF SetValue
    <3>2. StripInv'  BY <3>1 DEF StripInv
    <3>. QED  BY <2>1, <3>1, <3>2, TextFacts DEF OffsetInv
  <2>3. CASE display.kind \notin Scrolling
    <3>1. Send([i \in DOMAIN t |-> <<t[i], 0>>])
      BY <1>1, <2>3 DEF SetValue
    <3>2. StripInv'  BY <3>1, SendKeeps
    <3>3. display.kind # "dotMatrix5x5" /\ display.kind # "dotMatrix8xN"
      BY <2>3 DEF Scrolling
    <3>. QED  BY <2>1, <3>2, <3>3 DEF OffsetInv
  <2>. QED  BY <2>2, <2>3
<1>2. ASSUME NEW d \in {"STOP", "LEFT", "RIGHT"}, SetScrollingDirection(d)
      PROVE  OffsetInv' /\ StripInv'
  <2>1. direction' = d /\ offset' = 0 /\ UNCHANGED <<display, text, frame, busy, wire, strip, missed>>
    BY <1>2 DEF SetScrollingDirection
  <2>2. StripInv'  BY <2>1 DEF StripInv
  <2>3. text \in Texts  BY DEF OffsetInv
  <2>. QED  BY <2>1, <2>2, <2>3, TextFacts DEF OffsetInv
<1>3. CASE ScrollText
  <2>1. UNCHANGED <<display, text, direction>>  BY <1>3 DEF ScrollText
  <2>2. text \in Texts /\ direction \in {"STOP", "LEFT", "RIGHT"}  BY DEF OffsetInv
  <2>3. CASE /\ display.kind = "dotMatrix5x5" /\ Send(Paint5x5(text, offset))
             /\ offset' = Step5x5(text, offset, direction)
    <3>1. StripInv'  BY <2>3, SendKeeps
    <3>2. offset \in 0 .. 6 * Len(text)  BY <2>3 DEF OffsetInv
    <3>3. offset' \in 0 .. 6 * Len(text)  BY <2>2, <2>3, <3>2, StepsStay
    <3>. QED  BY <2>1, <2>3, <3>1, <3>3 DEF OffsetInv
  <2>4. CASE /\ display.kind = "dotMatrix8xN" /\ Send(Paint8xN(text, offset, frame))
             /\ offset' = Step8xN(text, offset, direction)
    <3>1. StripInv'  BY <2>4, SendKeeps
    <3>2. offset \in 0 .. 8 * Len(text) - 1  BY <2>4 DEF OffsetInv
    <3>3. offset' \in 0 .. 8 * Len(text) - 1  BY <2>2, <2>4, <3>2, StepsStay
    <3>. QED  BY <2>1, <2>4, <3>1, <3>3 DEF OffsetInv
  <2>. QED  BY <1>3, <2>3, <2>4 DEF ScrollText
<1>4. CASE DmaDone
  <2>1. /\ busy /\ busy' = FALSE /\ strip' = wire
        /\ UNCHANGED <<display, text, direction, offset, frame, missed>>
    BY <1>4 DEF DmaDone
  <2>2. OffsetInv'  BY <2>1 DEF OffsetInv
  <2>3. StripInv'  BY <2>1 DEF StripInv
  <2>. QED  BY <2>2, <2>3
<1>5. CASE UNCHANGED cvars
  BY <1>5 DEF cvars, OffsetInv, StripInv
<1>. QED  BY <1>1, <1>2, <1>3, <1>4, <1>5 DEF CNext

\* A scrolling display of dotMatrix5x5.cpp or dotMatrix8xN.cpp paints the window of the
\* text's ring of columns at its offset, for every text, however many words it is packed
\* in, and every width; and a strip that is idle shows the frame that was sent last.
THEOREM PictureShowsText == CSpec => []PictureIsText
<1>1. CInit => OffsetInv /\ StripInv  BY DisplayStarts
<1>2. OffsetInv /\ StripInv /\ [CNext]_cvars => OffsetInv' /\ StripInv'  BY DisplayStep
<1>3. OffsetInv /\ StripInv => PictureIsText
  <2> SUFFICES ASSUME OffsetInv, StripInv  PROVE PictureIsText
    OBVIOUS
  <2>1. ~busy /\ ~missed => strip = Characters(frame)  BY DEF StripInv
  <2>2. Len(text) \in Nat \ {0}  BY TextFacts DEF OffsetInv
  <2>3. CASE display.kind = "dotMatrix5x5"
    <3>1. offset \in 0 .. 6 * Len(text)  BY <2>3 DEF OffsetInv
    <3>2. /\ Paint5x5(text, offset) = Picture(text, offset % Len(Ring(text)), 5)
          /\ Len(Ring(text)) = 6 * Len(text)
      BY <2>2, <2>3, <3>1, WindowFive
    <3>. QED  BY <2>1, <2>3, <3>1, <3>2, Zenon DEF PictureIsText
  <2>4. CASE display.kind = "dotMatrix8xN"
    <3>1. display.kind # "dotMatrix5x5"  BY <2>4
    <3>2. offset \in 0 .. 8 * Len(text) - 1  BY <2>4 DEF OffsetInv
    <3>3. ~Static(text) =>
             /\ Paint8xN(text, offset, frame) = Picture(text, offset % Len(Ring(text)), Width8)
             /\ Len(Ring(text)) = 8 * Len(text)
      BY <2>2, <2>4, <3>2, WindowEight
    <3>4. offset \in 0 .. 8 * Len(text)  BY <2>2, <3>2
    <3>. QED  BY <2>1, <2>4, <3>1, <3>3, <3>4, Zenon DEF PictureIsText
  <2>5. CASE display.kind \notin Scrolling
    BY <2>1, <2>5 DEF PictureIsText
  <2>. QED  BY <2>3, <2>4, <2>5 DEF Scrolling
<1>. QED  BY <1>1, <1>2, <1>3, PTL DEF CSpec

-----------------------------------------------------------------------------
(***************************************************************************)
(* Data files.  A walk that has seen i words stands before the first field *)
(* from there on and has entered those before (Stands), whatever the data  *)
(* of the fields looks like.                                               *)
(***************************************************************************)
\* the number of words a content of this many bytes fills
DataWords(size) == (size + 3) \div 4

LEMMA Remainder ==
    ASSUME NEW x \in Nat, NEW R \in Nat, R > 0
    PROVE  /\ x < R => x % R = x
           /\ x >= R => x % R <= x - R
           /\ x % R \in Nat
<1>1. x % R \in Nat /\ x \div R \in Nat /\ x = R * (x \div R) + (x % R)  OBVIOUS
<1>2. ASSUME x < R  PROVE x % R = x  BY <1>2
<1>3. ASSUME x >= R  PROVE x % R <= x - R
  <2>1. x \div R >= 1  BY <1>3
  <2>2. PICK q \in Nat : q = x \div R  BY <1>1
  <2>3. R * q >= R  BY <2>1, <2>2
  <2>. QED  BY <1>1, <2>2, <2>3
<1>. QED  BY <1>1, <1>2, <1>3

\* A field that is not too large has the space of its header and its data.
LEMMA SpaceIs ==
    ASSUME NEW size \in Nat, ~(FieldSpace(size) * 4 < size)
    PROVE  FieldSpace(size) = 2 + DataWords(size) /\ DataWords(size) \in Nat
<1>1. PICK m \in Nat : m = DataWords(size) /\ 4 * m <= size + 3 /\ size <= 4 * m
  BY DEF DataWords
<1>2. PICK x \in Nat : x = 8 + 4 * m  BY <1>1
<1>3. PICK r : r = x % SpaceRange  OBVIOUS
<1>4. FieldSpace(size) = r \div 4
  BY <1>1, <1>2, <1>3, Zenon DEF FieldSpace, DataWords
<1>5. r \in Nat /\ (x < SpaceRange => r = x) /\ (x >= SpaceRange => r <= x - SpaceRange)
  BY <1>3, FieldsAssumption, Remainder
<1>6. x < SpaceRange
  <2> SUFFICES ASSUME x >= SpaceRange  PROVE FALSE
    BY FieldsAssumption
  <2>1. r <= x - SpaceRange /\ SpaceRange > 11 /\ SpaceRange \in Nat  BY <1>5, FieldsAssumption
  <2>2. r < size  BY <1>1, <1>2, <1>5, <2>1
  <2>3. (r \div 4) * 4 <= r  BY <1>5
  <2>. QED  BY <1>1, <1>4, <1>5, <2>2, <2>3
<1>. QED  BY <1>1, <1>2, <1>4, <1>5, <1>6

\* The fields lie one behind the other, the k-th from word pos[k] on, and the last
\* ends before word pos[n + 1].
AppendedFields == [sig : Signatures, data : FieldContents]
FieldAt(ws, pos, k, f) ==
    /\ pos[k + 1] = pos[k] + FieldSpace(f.data.size)
    /\ FieldSpace(f.data.size) = 2 + DataWords(f.data.size)
    /\ ws[pos[k]] = FieldHeader(f.sig, f.data.size)
    /\ \A j \in 1 .. DataWords(f.data.size) : ws[pos[k] + 1 + j] = f.data.words[j]
Laid(ws, fields, n, pos) ==
    /\ n \in Nat /\ n = Len(fields) /\ fields \in Seq(AppendedFields)
    /\ Len(ws) \in Nat /\ DOMAIN ws = 1 .. Len(ws)
    /\ \A k \in 1 .. n + 1 : pos[k] \in Nat
    /\ pos[1] = 1
    /\ \A j, k \in 1 .. n + 1 : j < k => pos[j] + 2 <= pos[k]
    /\ \A k \in 1 .. n : FieldAt(ws, pos, k, fields[k])
    /\ pos[n + 1] <= Len(ws) + 1

\* Where a walk stands that has seen i words: before the first field from there on, and
\* it has entered those before.
Stands(s, i, pos, n) ==
    \E k \in 1 .. n + 1 :
       /\ s = [word |-> i + 1, next |-> pos[k], fields |-> s.fields]
       /\ s.fields \in Seq(Nat) /\ Len(s.fields) = k - 1
       /\ \A j \in 1 .. k - 1 : s.fields[j] = pos[j]
       /\ k <= n => i < pos[k]
       /\ k > 1 => pos[k - 1] <= i

\* What a walk may meet behind the fields.
NothingFollows(of, ws, pos, n) ==
    /\ of \in {"visit", "pass"}
    /\ of = "visit" => Len(ws) < pos[n + 1]
    /\ of = "pass" => \A i \in pos[n + 1] .. Len(ws) : ~isValidFieldHeader(ws[i])

LEMMA WalkGoesOn ==
    ASSUME NEW ws, NEW fields, NEW n, NEW pos, Laid(ws, fields, n, pos),
           NEW of, NothingFollows(of, ws, pos, n),
           NEW i \in Nat, i + 2 <= Len(ws), NEW s, Stands(s, i, pos, n)
    PROVE  Stands(One(of, s, ws[i + 1]), i + 1, pos, n)
<1>1. PICK k \in 1 .. n + 1 :
         /\ s = [word |-> i + 1, next |-> pos[k], fields |-> s.fields]
         /\ s.fields \in Seq(Nat) /\ Len(s.fields) = k - 1
         /\ \A j \in 1 .. k - 1 : s.fields[j] = pos[j]
         /\ k <= n => i < pos[k]
         /\ k > 1 => pos[k - 1] <= i
  BY DEF Stands
<1>2. PICK found : found = s.fields  OBVIOUS
<1>3. s = [word |-> i + 1, next |-> pos[k], fields |-> found]
      /\ s.word = i + 1 /\ s.next = pos[k] /\ s.fields = found
      /\ found \in Seq(Nat) /\ Len(found) = k - 1 /\ \A j \in 1 .. k - 1 : found[j] = pos[j]
  BY <1>1, <1>2
<1>4. n \in Nat /\ pos[k] \in Nat /\ Len(ws) \in Nat
  BY DEF Laid
<1>5. PICK w : w = ws[i + 1]  OBVIOUS
<1>6. PICK r : r = One(of, s, w)  OBVIOUS
<1>7. of = "visit" \/ of = "pass"  BY DEF NothingFollows
<1>8. CASE pos[k] # i + 1
  <2>1. r = PassBy(s)
    BY <1>3, <1>6, <1>7, <1>8 DEF One, VisitWord, PassWord
  <2>2. r = [word |-> i + 2, next |-> pos[k], fields |-> found]
    BY <1>3, <2>1 DEF PassBy
  <2>3. (k <= n => i + 1 < pos[k]) /\ (k > 1 => pos[k - 1] <= i + 1)
    <3>1. k > 1 => pos[k - 1] \in Nat  BY DEF Laid
    <3>. QED  BY <1>1, <1>4, <1>8, <3>1
  <2>4. r = [word |-> (i + 1) + 1, next |-> pos[k], fields |-> r.fields] /\ r.fields = found
    BY <2>2
  <2>. QED  BY <1>3, <1>5, <1>6, <2>3, <2>4 DEF Stands
<1>9. CASE pos[k] = i + 1 /\ k <= n
  <2>1. PICK f : f = fields[k]  OBVIOUS
  <2>2. f \in AppendedFields /\ FieldAt(ws, pos, k, f)  BY <1>9, <2>1 DEF Laid
  <2>3. w.sig \in Signatures /\ w.size = f.data.size
    BY <1>5, <1>9, <2>2 DEF FieldAt, FieldHeader, AppendedFields
  <2>4. r = EnterField(s, w)
    BY <1>3, <1>6, <1>7, <1>9, <2>3 DEF One, VisitWord, PassWord, isValidFieldHeader
  <2>5. PICK more : more = Append(found, i + 1)  OBVIOUS
  <2>6. r = [word |-> i + 2, next |-> pos[k + 1], fields |-> more]
    <3>1. (i + 1) + 1 = i + 2  OBVIOUS
    <3>2. pos[k + 1] = (i + 1) + FieldSpace(w.size)
      BY <1>9, <2>2, <2>3 DEF FieldAt
    <3>. QED  BY <1>3, <2>4, <2>5, <3>1, <3>2, Zenon DEF EnterField
  <2>7. more \in Seq(Nat) /\ Len(more) = k /\ \A j \in 1 .. k : more[j] = pos[j]
    BY <1>3, <1>4, <1>9, <2>5
  <2>8. k + 1 \in 1 .. n + 1 /\ (k + 1) - 1 = k  BY <1>4, <1>9
  <2>9. k + 1 <= n => i + 1 < pos[k + 1]
    <3>1. k \in 1 .. n + 1 /\ k < k + 1  BY <1>4
    <3>2. \A p, q \in 1 .. n + 1 : p < q => pos[p] + 2 <= pos[q]  BY DEF Laid
    <3>3. pos[k] + 2 <= pos[k + 1]  BY <2>8, <3>1, <3>2
    <3>4. pos[k + 1] \in Nat  BY <2>8 DEF Laid
    <3>. QED  BY <1>9, <3>3, <3>4
  <2>10. r = [word |-> (i + 1) + 1, next |-> pos[k + 1], fields |-> r.fields] /\ r.fields = more
    BY <2>6
  <2>11. pos[k] <= i + 1  BY <1>9
  <2>. QED  BY <1>5, <1>6, <2>7, <2>8, <2>9, <2>10, <2>11 DEF Stands
<1>10. CASE pos[k] = i + 1 /\ k = n + 1
  <2>1. of = "pass"
    BY <1>4, <1>7, <1>10 DEF NothingFollows
  <2>2. ~isValidFieldHeader(w)
    <3>1. i + 1 \in pos[n + 1] .. Len(ws)  BY <1>4, <1>10
    <3>. QED  BY <1>5, <2>1, <3>1 DEF NothingFollows
  <2>3. r = PassBy(s)
    BY <1>6, <2>1, <2>2 DEF One, PassWord
  <2>4. r = [word |-> i + 2, next |-> pos[k], fields |-> found]
    BY <1>3, <2>3 DEF PassBy
  <2>5. ~(k <= n) /\ (k > 1 => pos[k - 1] <= i + 1)
    <3>1. k > 1 => pos[k - 1] \in Nat  BY DEF Laid
    <3>. QED  BY <1>1, <1>4, <1>10, <3>1
  <2>6. r = [word |-> (i + 1) + 1, next |-> pos[k], fields |-> r.fields] /\ r.fields = found
    BY <2>4
  <2>. QED  BY <1>3, <1>5, <1>6, <2>5, <2>6 DEF Stands
<1>. QED  BY <1>4, <1>8, <1>9, <1>10

LEMMA VisitSteps ==
    ASSUME NEW seq, NEW base, NEW n \in Nat, DOMAIN seq = 1 .. n
    PROVE  \E steps : /\ Steps("visit", seq, base, n, steps)
                      /\ steps[n] = FoldLeft(VisitWord, base, seq)
<1>1. PICK at : at = CHOOSE g : IsFold("visit", seq, base, DOMAIN seq, g)
  OBVIOUS
<1>2. IsFold("visit", seq, base, 1 .. n, at)
  BY <1>1, FoldExists
<1>3. FoldLeft(VisitWord, base, seq) = (CHOOSE g : IsFold("visit", seq, base, DOMAIN seq, g))[DOMAIN seq]
  BY DEF FoldLeft, MapThenFoldSet, IsFold, FoldStep, One
<1>4. \E steps : Steps("visit", seq, base, n, steps) /\ steps[n] = at[1 .. n]
  BY <1>2, FoldSteps
<1>5. FoldLeft(VisitWord, base, seq) = at[1 .. n]
  BY <1>1, <1>3
<1>. QED  BY <1>4, <1>5

LEMMA PassSteps ==
    ASSUME NEW seq, NEW base, NEW n \in Nat, DOMAIN seq = 1 .. n
    PROVE  \E steps : /\ Steps("pass", seq, base, n, steps)
                      /\ steps[n] = FoldLeft(PassWord, base, seq)
<1>1. PICK at : at = CHOOSE g : IsFold("pass", seq, base, DOMAIN seq, g)
  OBVIOUS
<1>2. IsFold("pass", seq, base, 1 .. n, at)
  BY <1>1, FoldExists
<1>3. FoldLeft(PassWord, base, seq) = (CHOOSE g : IsFold("pass", seq, base, DOMAIN seq, g))[DOMAIN seq]
  BY DEF FoldLeft, MapThenFoldSet, IsFold, FoldStep, One
<1>4. \E steps : Steps("pass", seq, base, n, steps) /\ steps[n] = at[1 .. n]
  BY <1>2, FoldSteps
<1>5. FoldLeft(PassWord, base, seq) = at[1 .. n]
  BY <1>1, <1>3
<1>. QED  BY <1>4, <1>5

LEMMA WalkStarts ==
    ASSUME NEW ws, NEW fields, NEW n, NEW pos, Laid(ws, fields, n, pos)
    PROVE  Stands(WalkBegins, 0, pos, n)
<1>1. n \in Nat /\ pos[1] = 1  BY DEF Laid
<1>2. PICK none : none = <<>>  OBVIOUS
<1>3. none \in Seq(Nat) /\ Len(none) = 0  BY <1>2
<1>4. PICK s : s = WalkBegins  OBVIOUS
<1>5. s = [word |-> 1, next |-> 1, fields |-> none]  BY <1>2, <1>4 DEF WalkBegins
<1>6. s = [word |-> 0 + 1, next |-> pos[1], fields |-> s.fields] /\ s.fields = none
  BY <1>1, <1>5
<1>7. 1 \in 1 .. n + 1  BY <1>1
<1>. QED  BY <1>1, <1>3, <1>4, <1>6, <1>7 DEF Stands

SameUpTo(L, cut, ws) == \A i \in 1 .. L : cut[i] = ws[i]
AllButLast(seq, N, ws) ==
    N = (IF Len(ws) = 0 THEN 0 ELSE Len(ws) - 1) /\ SameUpTo(N, seq, ws)

\* The walk over all words but the last enters the fields and nothing else.
LEMMA WalkEnds ==
    ASSUME NEW ws, NEW fields, NEW n, NEW pos, Laid(ws, fields, n, pos),
           NEW of, NothingFollows(of, ws, pos, n),
           NEW N \in Nat, NEW seq, AllButLast(seq, N, ws),
           NEW steps, Steps(of, seq, WalkBegins, N, steps)
    PROVE  /\ steps[N].next = pos[n + 1]
           /\ steps[N].fields \in Seq(Nat) /\ Len(steps[N].fields) = n
           /\ \A j \in 1 .. n : steps[N].fields[j] = pos[j]
<1>0. N = (IF Len(ws) = 0 THEN 0 ELSE Len(ws) - 1) /\ \A i \in 1 .. N : seq[i] = ws[i]
  BY DEF AllButLast, SameUpTo
<1>1. n \in Nat /\ Len(ws) \in Nat /\ pos[1] = 1 /\ pos[n + 1] <= Len(ws) + 1
      /\ \A k \in 1 .. n + 1 : pos[k] \in Nat
  BY DEF Laid
<1>2. steps[0] = WalkBegins /\ \A i \in 1 .. N : steps[i] = One(of, steps[i - 1], seq[i])
  BY DEF Steps
<1>3. \A i \in 0 .. N : Stands(steps[i], i, pos, n)
  <2> DEFINE T == {i \in 0 .. N : ~Stands(steps[i], i, pos, n)}
  <2> SUFFICES ASSUME T # {}  PROVE FALSE
    OBVIOUS
  <2>1. PICK i \in T : \A j \in T : i <= j
    <3>1. T \subseteq Nat  OBVIOUS
    <3>. QED  BY <3>1, Smallest
  <2>2. i # 0
    <3>1. Stands(WalkBegins, 0, pos, n)  BY WalkStarts
    <3>2. Stands(steps[0], 0, pos, n)  BY <1>2, <3>1, Zenon
    <3>3. ~Stands(steps[i], i, pos, n)  BY <2>1
    <3>. QED  BY <3>2, <3>3, Zenon
  <2>3. PICK h \in Nat : i = h + 1
    <3>1. i \in 0 .. N  BY <2>1
    <3>2. i - 1 \in Nat /\ i = (i - 1) + 1  BY <2>2, <3>1
    <3>. QED  BY <3>2
  <2>4. h + 1 \in 1 .. N /\ h \in 0 .. N /\ (h + 1) - 1 = h  BY <2>1, <2>3
  <2>5. Stands(steps[h], h, pos, n)
    BY <2>1, <2>3, <2>4
  <2>6. h + 2 <= Len(ws)  BY <1>0, <1>1, <2>4
  <2>7. steps[h + 1] = One(of, steps[h], ws[h + 1])
    BY <1>0, <1>2, <2>4
  <2>8. Stands(steps[h + 1], h + 1, pos, n)
    BY <2>5, <2>6, <2>7, WalkGoesOn, Zenon
  <2>. QED  BY <2>1, <2>3, <2>8
<1>4. Stands(steps[N], N, pos, n)  BY <1>3
<1>5. PICK k \in 1 .. n + 1 :
         /\ steps[N] = [word |-> N + 1, next |-> pos[k], fields |-> steps[N].fields]
         /\ steps[N].fields \in Seq(Nat) /\ Len(steps[N].fields) = k - 1
         /\ \A j \in 1 .. k - 1 : steps[N].fields[j] = pos[j]
         /\ k <= n => N < pos[k]
  BY <1>4 DEF Stands
<1>6. k = n + 1
  <2> SUFFICES ASSUME k <= n  PROVE FALSE
    BY <1>1
  <2>1. pos[k] + 2 <= pos[n + 1]
    <3>1. k \in 1 .. n + 1 /\ n + 1 \in 1 .. n + 1 /\ k < n + 1  BY <1>1
    <3>. QED  BY <3>1 DEF Laid
  <2>2. pos[k] \in Nat /\ pos[n + 1] \in Nat /\ N < pos[k]  BY <1>1, <1>5
  <2>. QED  BY <1>0, <1>1, <2>1, <2>2
<1>7. steps[N].next = pos[n + 1]  BY <1>5, <1>6
<1>. QED  BY <1>1, <1>5, <1>6, <1>7

LEMMA FrontIs ==
    ASSUME NEW S, NEW ws \in Seq(S)
    PROVE  \E N \in Nat : /\ N = IF Len(ws) = 0 THEN 0 ELSE Len(ws) - 1
                          /\ DOMAIN Front(ws) = 1 .. N
                          /\ \A i \in 1 .. N : Front(ws)[i] = ws[i]
<1>1. Front(ws) = SubSeq(ws, 1, Len(ws) - 1)  BY DEF Front
<1>2. PICK N : N = IF Len(ws) = 0 THEN 0 ELSE Len(ws) - 1  OBVIOUS
<1>3. N \in Nat /\ DOMAIN Front(ws) = 1 .. N /\ \A i \in 1 .. N : Front(ws)[i] = ws[i]
  BY <1>1, <1>2
<1>. QED  BY <1>2, <1>3

LEMMA AppendPositionIs ==
    ASSUME NEW S, NEW ws \in Seq(S), NEW fields, NEW n, NEW pos, Laid(ws, fields, n, pos),
           NothingFollows("pass", ws, pos, n)
    PROVE  AppendPosition(ws) = pos[n + 1]
<1>1. PICK N \in Nat : /\ N = IF Len(ws) = 0 THEN 0 ELSE Len(ws) - 1
                       /\ DOMAIN Front(ws) = 1 .. N
                       /\ \A i \in 1 .. N : Front(ws)[i] = ws[i]
  BY FrontIs
<1>2. PICK seq : seq = Front(ws)  OBVIOUS
<1>3. PICK steps : /\ Steps("pass", seq, WalkBegins, N, steps)
                   /\ steps[N] = FoldLeft(PassWord, WalkBegins, seq)
  BY <1>1, <1>2, PassSteps
<1>4. steps[N].next = pos[n + 1]
  <2>1. AllButLast(seq, N, ws)  BY <1>1, <1>2 DEF AllButLast, SameUpTo
  <2>. QED  BY <1>1, <1>3, <2>1, WalkEnds
<1>. QED  BY <1>2, <1>3, <1>4 DEF AppendPosition

LEMMA FieldsFromIs ==
    ASSUME NEW S, NEW ws \in Seq(S), NEW fields, NEW n, NEW pos, Laid(ws, fields, n, pos),
           NothingFollows("visit", ws, pos, n)
    PROVE  /\ FieldsFrom(ws) \in Seq(Nat) /\ Len(FieldsFrom(ws)) = n
           /\ \A j \in 1 .. n : FieldsFrom(ws)[j] = pos[j]
<1>1. PICK N \in Nat : /\ N = IF Len(ws) = 0 THEN 0 ELSE Len(ws) - 1
                       /\ DOMAIN Front(ws) = 1 .. N
                       /\ \A i \in 1 .. N : Front(ws)[i] = ws[i]
  BY FrontIs
<1>2. PICK seq : seq = Front(ws)  OBVIOUS
<1>3. PICK steps : /\ Steps("visit", seq, WalkBegins, N, steps)
                   /\ steps[N] = FoldLeft(VisitWord, WalkBegins, seq)
  BY <1>1, <1>2, VisitSteps
<1>4. /\ steps[N].fields \in Seq(Nat) /\ Len(steps[N].fields) = n
      /\ \A j \in 1 .. n : steps[N].fields[j] = pos[j]
  <2>1. AllButLast(seq, N, ws)  BY <1>1, <1>2 DEF AllButLast, SameUpTo
  <2>. QED  BY <1>1, <1>3, <2>1, WalkEnds
<1>. QED  BY <1>2, <1>3, <1>4 DEF FieldsFrom

LEMMA SmallerOfTwo ==
    ASSUME NEW a \in Int, NEW b \in Int, b <= a
    PROVE  Min({a, b}) = b
<1>1. b \in {a, b} /\ \A y \in {a, b} : b <= y  OBVIOUS
<1>. QED  BY <1>1 DEF Min

\* The fields still lie where they lay when their words are as they were.
LEMMA FieldsStay ==
    ASSUME NEW ws, NEW fields, NEW n, NEW pos, Laid(ws, fields, n, pos),
           NEW L, L = pos[n + 1] - 1, NEW cut, SameUpTo(L, cut, ws),
           NEW k \in 1 .. n
    PROVE  FieldAt(cut, pos, k, fields[k])
<1>1. /\ n \in Nat /\ n = Len(fields) /\ fields \in Seq(AppendedFields)
      /\ Len(ws) \in Nat /\ DOMAIN ws = 1 .. Len(ws)
      /\ \A q \in 1 .. n + 1 : pos[q] \in Nat
      /\ pos[1] = 1
      /\ \A j, q \in 1 .. n + 1 : j < q => pos[j] + 2 <= pos[q]
      /\ \A q \in 1 .. n : FieldAt(ws, pos, q, fields[q])
      /\ pos[n + 1] <= Len(ws) + 1
  BY DEF Laid
<1>2. 1 \in 1 .. n + 1 /\ n + 1 \in 1 .. n + 1  BY <1>1
<1>3. pos[n + 1] \in Nat /\ pos[n + 1] >= 1
  <2>1. CASE n = 0
    BY <1>1, <2>1
  <2>2. CASE n # 0
    <3>1. pos[1] + 2 <= pos[n + 1]  BY <1>1, <1>2, <2>2
    <3>. QED  BY <1>1, <1>2, <3>1
  <2>. QED  BY <2>1, <2>2
<1>4. L \in Nat /\ L <= Len(ws)  BY <1>1, <1>3
<1>5. FieldAt(cut, pos, k, fields[k])
  <2>1. PICK f : f = fields[k]  OBVIOUS
  <2>2. FieldAt(ws, pos, k, f)  BY <1>1, <2>1
  <2>3. f.data.size \in Nat /\ DataWords(f.data.size) \in Nat
    <3>1. f \in AppendedFields  BY <1>1, <2>1
    <3>. QED  BY <3>1, FieldsAssumption DEF AppendedFields, DataWords
  <2>4. k + 1 \in 1 .. n + 1 /\ k \in 1 .. n + 1  BY <1>1
  <2>5. pos[k + 1] <= pos[n + 1]
    <3>1. CASE k = n  BY <1>1, <1>3, <3>1
    <3>2. CASE k # n
      <4>1. k + 1 < n + 1  BY <1>1, <3>2
      <4>2. pos[k + 1] + 2 <= pos[n + 1]  BY <1>1, <1>2, <2>4, <4>1
      <4>3. pos[k + 1] \in Nat /\ pos[n + 1] \in Nat  BY <1>1, <1>2, <2>4
      <4>. QED  BY <4>2, <4>3
    <3>. QED  BY <3>1, <3>2
  <2>6. pos[k] \in Nat /\ pos[k] >= 1
    <3>1. CASE k = 1  BY <1>1, <3>1
    <3>2. CASE k # 1
      <4>1. pos[1] + 2 <= pos[k]  BY <1>1, <1>2, <2>4, <3>2
      <4>. QED  BY <1>1, <2>4, <4>1
    <3>. QED  BY <3>1, <3>2
  <2>7. PICK m \in Nat : m = DataWords(f.data.size)  BY <2>3
  <2>8. pos[k + 1] = pos[k] + (2 + m)  BY <2>2, <2>7 DEF FieldAt
  <2>9. pos[k] + 1 + m <= L  BY <1>3, <1>4, <2>5, <2>6, <2>7, <2>8
  <2>10. pos[k] \in 1 .. L  BY <1>4, <2>6, <2>7, <2>9
  <2>11. \A j \in 1 .. m : pos[k] + 1 + j \in 1 .. L  BY <1>4, <2>6, <2>7, <2>9
  <2>12. cut[pos[k]] = ws[pos[k]] /\ \A j \in 1 .. m : cut[pos[k] + 1 + j] = ws[pos[k] + 1 + j]
    BY <2>10, <2>11 DEF SameUpTo
  <2>. QED  BY <2>1, <2>2, <2>7, <2>12 DEF FieldAt
<1>. QED  BY <1>5

CutBehind(cut, ws, L, n, pos) == L = pos[n + 1] - 1 /\ cut = SubSeq(ws, 1, L)

\* What is cut off at the end of the last field still holds the fields.
LEMMA CutAtTheEnd ==
    ASSUME NEW S, NEW ws \in Seq(S), NEW fields, NEW n, NEW pos, Laid(ws, fields, n, pos),
           NEW L, NEW cut, CutBehind(cut, ws, L, n, pos)
    PROVE  /\ cut \in Seq(S) /\ Len(cut) = L /\ \A i \in 1 .. L : cut[i] = ws[i]
           /\ Laid(cut, fields, n, pos) /\ NothingFollows("visit", cut, pos, n)
<1>0. L = pos[n + 1] - 1 /\ cut = SubSeq(ws, 1, L)  BY DEF CutBehind
<1>1. /\ n \in Nat /\ n = Len(fields) /\ fields \in Seq(AppendedFields)
      /\ Len(ws) \in Nat /\ DOMAIN ws = 1 .. Len(ws)
      /\ \A k \in 1 .. n + 1 : pos[k] \in Nat
      /\ pos[1] = 1
      /\ \A j, k \in 1 .. n + 1 : j < k => pos[j] + 2 <= pos[k]
      /\ \A k \in 1 .. n : FieldAt(ws, pos, k, fields[k])
      /\ pos[n + 1] <= Len(ws) + 1
  BY DEF Laid
<1>2. 1 \in 1 .. n + 1 /\ n + 1 \in 1 .. n + 1  BY <1>1
<1>3. pos[n + 1] \in Nat /\ pos[n + 1] >= 1
  <2>1. CASE n = 0
    BY <1>1, <2>1
  <2>2. CASE n # 0
    <3>1. pos[1] + 2 <= pos[n + 1]  BY <1>1, <1>2, <2>2
    <3>. QED  BY <1>1, <1>2, <3>1
  <2>. QED  BY <2>1, <2>2
<1>4. L \in Nat /\ L <= Len(ws)  BY <1>0, <1>1, <1>3
<1>5. cut \in Seq(S) /\ Len(cut) = L /\ DOMAIN cut = 1 .. L /\ \A i \in 1 .. L : cut[i] = ws[i]
  BY <1>0, <1>1, <1>4
<1>6. \A k \in 1 .. n : FieldAt(cut, pos, k, fields[k])
  <2>1. SameUpTo(L, cut, ws)  BY <1>5 DEF SameUpTo
  <2>. QED  BY <1>0, <2>1, FieldsStay, Zenon
<1>7. Laid(cut, fields, n, pos)
  <2>1. pos[n + 1] <= Len(cut) + 1  BY <1>0, <1>3, <1>5
  <2>. QED  BY <1>1, <1>4, <1>5, <1>6, <2>1 DEF Laid
<1>8. NothingFollows("visit", cut, pos, n)
  <2>1. Len(cut) < pos[n + 1]  BY <1>0, <1>3, <1>5
  <2>. QED  BY <2>1 DEF NothingFollows
<1>. QED  BY <1>5, <1>7, <1>8

\* The data of a field is read as it was appended.
LEMMA DataIs ==
    ASSUME NEW S, NEW ws \in Seq(S), NEW fields, NEW n, NEW pos, Laid(ws, fields, n, pos),
           NEW k \in 1 .. n
    PROVE  DataAt(ws, pos[k]) = fields[k].data /\ ws[pos[k]].sig = fields[k].sig
<1>1. PICK f : f = fields[k]  OBVIOUS
<1>2. /\ FieldAt(ws, pos, k, f) /\ f \in AppendedFields /\ n \in Nat
      /\ \A j \in 1 .. n + 1 : pos[j] \in Nat
      /\ \A i, j \in 1 .. n + 1 : i < j => pos[i] + 2 <= pos[j]
      /\ pos[n + 1] <= Len(ws) + 1 /\ Len(ws) \in Nat /\ pos[1] = 1
  BY <1>1 DEF Laid
<1>3. PICK c : c = f.data  OBVIOUS
<1>4. c \in FieldContents  BY <1>2, <1>3 DEF AppendedFields
<1>5. c = [size |-> c.size, words |-> c.words] /\ c.size \in Nat
      /\ c.words \in Seq(ToSet(c.words)) /\ Len(c.words) = DataWords(c.size)
  BY <1>4, FieldsAssumption DEF DataWords
<1>6. PICK m \in Nat : m = DataWords(c.size)  BY <1>5 DEF DataWords
<1>7. PICK p \in Nat : p = pos[k]
  <2>1. k \in 1 .. n + 1  BY <1>2
  <2>. QED  BY <1>2, <2>1
<1>8. /\ pos[k + 1] = p + (2 + m) /\ ws[p] = [sig |-> f.sig, size |-> c.size]
      /\ \A j \in 1 .. m : ws[p + 1 + j] = c.words[j]
  BY <1>2, <1>3, <1>6, <1>7 DEF FieldAt, FieldHeader
<1>9. p + 1 + m <= Len(ws) /\ p >= 1
  <2>1. pos[k + 1] <= pos[n + 1]
    <3>1. CASE k = n  BY <1>2, <3>1
    <3>2. CASE k # n
      <4>1. k + 1 < n + 1 /\ k + 1 \in 1 .. n + 1 /\ n + 1 \in 1 .. n + 1  BY <1>2, <3>2
      <4>2. pos[k + 1] + 2 <= pos[n + 1]  BY <1>2, <4>1
      <4>. QED  BY <1>2, <4>1, <4>2
    <3>. QED  BY <3>1, <3>2
  <2>2. p >= 1
    <3>1. CASE k = 1  BY <1>2, <1>7, <3>1
    <3>2. CASE k # 1
      <4>1. 1 \in 1 .. n + 1 /\ k \in 1 .. n + 1 /\ 1 < k  BY <1>2, <3>2
      <4>2. pos[1] + 2 <= pos[k]  BY <1>2, <4>1
      <4>. QED  BY <1>2, <1>7, <4>2
    <3>. QED  BY <3>1, <3>2
  <2>3. n + 1 \in 1 .. n + 1  BY <1>2
  <2>4. pos[n + 1] \in Nat  BY <1>2, <2>3
  <2>. QED  BY <1>2, <1>8, <2>1, <2>2, <2>4
<1>10. ws[p].size = c.size /\ ws[p].sig = f.sig  BY <1>8
<1>11. Min({Len(ws), p + 1 + m}) = p + 1 + m
  BY <1>2, <1>9, SmallerOfTwo
<1>12. PICK data : data = SubSeq(ws, p + 2, p + 1 + m)  OBVIOUS
<1>13. data = c.words
  <2>1. Len(data) = m /\ DOMAIN data = 1 .. m /\ \A j \in 1 .. m : data[j] = ws[p + 1 + j]
    <3>1. data \in Seq(S) /\ Len(data) = m /\ \A j \in 1 .. m : data[j] = ws[(p + 2) + j - 1]
      BY <1>2, <1>9, <1>12, SubSeqProperties
    <3>2. \A j \in 1 .. m : (p + 2) + j - 1 = p + 1 + j  OBVIOUS
    <3>. QED  BY <3>1, <3>2
  <2>2. \A j \in 1 .. m : data[j] = c.words[j]  BY <1>8, <2>1
  <2>3. Len(c.words) = m /\ DOMAIN c.words = 1 .. m  BY <1>5, <1>6
  <2>4. data \in Seq(S)
    BY <1>2, <1>9, <1>12, SubSeqProperties
  <2>. QED  BY <1>5, <2>1, <2>2, <2>3, <2>4
<1>14. DataAt(ws, p) = [size |-> c.size, words |-> data]
  <2>1. (c.size + 3) \div 4 = m  BY <1>6 DEF DataWords
  <2>. QED  BY <1>10, <1>11, <1>12, <2>1, Zenon DEF DataAt
<1>. QED  BY <1>1, <1>3, <1>5, <1>7, <1>10, <1>13, <1>14, Zenon

(***************************************************************************)
(* The invariant: unless the file was broken, its fields lie one behind    *)
(* the other up to the size in its header, and no header follows.          *)
(***************************************************************************)
AnyWord == {FieldHeader(sig, c.size) : sig \in Signatures, c \in FieldContents}
           \cup {Flags, Junk} \cup UNION {ToSet(c.words) : c \in FieldContents}
FileHolds(pos, n) ==
    /\ words \in Seq(AnyWord)
    /\ Laid(words, appended, n, pos) /\ NothingFollows("pass", words, pos, n)
    /\ fileSize = HeaderSize + 4 * (pos[n + 1] - 1)
FileInv == ~broken => \E pos : FileHolds(pos, Len(appended))

LEMMA EndIs ==
    ASSUME NEW ws, NEW fields, NEW n, NEW pos, Laid(ws, fields, n, pos)
    PROVE  /\ pos[n + 1] \in Nat /\ pos[n + 1] >= 1 /\ pos[n + 1] <= Len(ws) + 1
           /\ n \in Nat /\ n = Len(fields) /\ Len(ws) \in Nat
<1>1. /\ n \in Nat /\ n = Len(fields) /\ pos[1] = 1 /\ pos[n + 1] <= Len(ws) + 1
      /\ \A k \in 1 .. n + 1 : pos[k] \in Nat /\ Len(ws) \in Nat
      /\ \A j, k \in 1 .. n + 1 : j < k => pos[j] + 2 <= pos[k]
  BY DEF Laid
<1>2. 1 \in 1 .. n + 1 /\ n + 1 \in 1 .. n + 1  BY <1>1
<1>3. CASE n = 0
  BY <1>1, <1>2, <1>3
<1>4. CASE n # 0
  <2>1. pos[1] + 2 <= pos[n + 1]  BY <1>1, <1>2, <1>4
  <2>. QED  BY <1>1, <1>2, <2>1
<1>. QED  BY <1>3, <1>4

LEMMA FileReadsBack ==
    ASSUME FileInv
    PROVE  FieldsReadBack
<1> SUFFICES ASSUME ~broken
             PROVE  /\ Len(FieldIndex) = Len(appended)
                    /\ \A sig \in Signatures :
                          Of(sig) # {} => /\ getFieldData(sig) = appended[Min(Of(sig))].data
                                          /\ findFieldDataInIndex(sig) = appended[Max(Of(sig))].data
  BY DEF FieldsReadBack
<1>1. PICK n : n = Len(appended)  OBVIOUS
<1>2. PICK pos : FileHolds(pos, n)  BY <1>1 DEF FileInv
<1>3. PICK L : L = pos[n + 1] - 1  OBVIOUS
<1>4. words \in Seq(AnyWord) /\ Laid(words, appended, n, pos)
  BY <1>2 DEF FileHolds
<1>5. /\ n \in Nat /\ L \in Nat /\ L <= Len(words) /\ Len(words) \in Nat
      /\ DOMAIN appended = 1 .. n
  <2>1. appended \in Seq(AppendedFields)  BY <1>4 DEF Laid
  <2>. QED  BY <1>1, <1>3, <1>4, <2>1, EndIs
<1>6. PICK cut : cut = ReadWords  OBVIOUS
<1>7. cut = SubSeq(words, 1, L)
  <2>1. (fileSize - HeaderSize) \div 4 = L
    <3>1. fileSize = HeaderSize + 4 * L  BY <1>2, <1>3 DEF FileHolds
    <3>. QED  BY <1>5, <3>1 DEF HeaderSize
  <2>2. Min({Len(words), L}) = L  BY <1>5, SmallerOfTwo
  <2>. QED  BY <1>6, <2>1, <2>2 DEF ReadWords
<1>8. cut \in Seq(AnyWord) /\ Laid(cut, appended, n, pos) /\ NothingFollows("visit", cut, pos, n)
  <2>1. PICK S : S = AnyWord  OBVIOUS
  <2>2. PICK ws, fields : /\ ws = words /\ ws \in Seq(S)
                          /\ fields = appended /\ Laid(ws, fields, n, pos)
    BY <1>4, <2>1
  <2>3. CutBehind(cut, ws, L, n, pos)  BY <1>3, <1>7, <2>2 DEF CutBehind
  <2>4. cut \in Seq(S) /\ Laid(cut, appended, n, pos) /\ NothingFollows("visit", cut, pos, n)
    <3>1. /\ cut \in Seq(S) /\ Len(cut) = L /\ \A i \in 1 .. L : cut[i] = ws[i]
          /\ Laid(cut, fields, n, pos) /\ NothingFollows("visit", cut, pos, n)
      BY <2>2, <2>3, CutAtTheEnd
    <3>. QED  BY <2>2, <3>1
  <2>. QED  BY <2>1, <2>4
<1>9. PICK index : index = FieldIndex  OBVIOUS
<1>10. index \in Seq(Nat) /\ Len(index) = n /\ \A j \in 1 .. n : index[j] = pos[j]
  <2>1. index = FieldsFrom(cut)  BY <1>6, <1>9 DEF FieldIndex
  <2>. QED  BY <1>8, <2>1, FieldsFromIs
<1>11. \A k \in 1 .. n : /\ DataAt(cut, index[k]) = appended[k].data
                         /\ cut[index[k]].sig = appended[k].sig
  BY <1>8, <1>10, DataIs
<1>12. ASSUME NEW sig \in Signatures, Of(sig) # {}
       PROVE  /\ getFieldData(sig) = appended[Min(Of(sig))].data
              /\ findFieldDataInIndex(sig) = appended[Max(Of(sig))].data
  <2>1. PICK K : K = Of(sig)  OBVIOUS
  <2>2. K = {k \in 1 .. n : appended[k].sig = sig}  BY <1>5, <2>1 DEF Of
  <2>3. Found(sig) = K
    <3>1. DOMAIN index = 1 .. n  BY <1>5, <1>10
    <3>2. Found(sig) = {k \in 1 .. n : cut[index[k]].sig = sig}
      BY <1>6, <1>9, <3>1 DEF Found
    <3>. QED  BY <1>11, <2>2, <3>2
  <2>4. Min(K) \in K /\ Max(K) \in K
    <3>1. K \in SUBSET (1 .. n) /\ K # {} /\ K \subseteq Nat  BY <1>12, <1>5, <2>1, <2>2
    <3>. QED  BY <1>5, <3>1, Smallest, Largest
  <2>5. Min(K) \in 1 .. n /\ Max(K) \in 1 .. n  BY <2>2, <2>4
  <2>6. getFieldData(sig) = DataAt(cut, index[Min(K)])
    BY <1>6, <1>9, <2>3 DEF getFieldData
  <2>7. findFieldDataInIndex(sig) = DataAt(cut, index[Max(K)])
    BY <1>6, <1>9, <2>3 DEF findFieldDataInIndex
  <2>. QED  BY <1>11, <2>1, <2>5, <2>6, <2>7
<1>. QED  BY <1>1, <1>9, <1>10, <1>12

\* One more field behind the others.
TooLarge(c) == FieldSpace(c.size) * 4 < c.size
WithField(ws, at, sig, c) ==
    SubSeq(SubSeq(ws, 1, at - 1) \o <<FieldHeader(sig, c.size), Flags>> \o c.words,
           1, at - 1 + FieldSpace(c.size))

LEMMA JoinIs ==
    ASSUME NEW S, NEW a \in Seq(S), NEW b \in Seq(S)
    PROVE  /\ a \o b \in Seq(S) /\ Len(a \o b) = Len(a) + Len(b)
           /\ \A i \in 1 .. Len(a) : (a \o b)[i] = a[i]
           /\ \A j \in 1 .. Len(b) : (a \o b)[Len(a) + j] = b[j]
<1>1. a \o b \in Seq(S) /\ Len(a \o b) = Len(a) + Len(b)  OBVIOUS
<1>2. \A i \in 1 .. Len(a) : (a \o b)[i] = a[i]  OBVIOUS
<1>3. \A j \in 1 .. Len(b) : (a \o b)[Len(a) + j] = b[j]  OBVIOUS
<1>. QED  BY <1>1, <1>2, <1>3

LEMMA FieldIsLaid ==
    ASSUME NEW ws \in Seq(AnyWord), NEW fields, NEW n, NEW pos, Laid(ws, fields, n, pos),
           NEW at, at = pos[n + 1], NEW sig \in Signatures, NEW c \in FieldContents,
           ~TooLarge(c), NEW more, more = WithField(ws, at, sig, c)
    PROVE  \E new : /\ more \in Seq(AnyWord)
                    /\ Laid(more, Append(fields, [sig |-> sig, data |-> c]), n + 1, new)
                    /\ NothingFollows("pass", more, new, n + 1)
                    /\ new[(n + 1) + 1] = at + FieldSpace(c.size)
<1>1. c = [size |-> c.size, words |-> c.words] /\ c.size \in Nat
      /\ c.words \in Seq(ToSet(c.words)) /\ Len(c.words) = DataWords(c.size)
  BY FieldsAssumption DEF DataWords
<1>2. PICK m \in Nat : m = DataWords(c.size) /\ FieldSpace(c.size) = 2 + m
  BY <1>1, SpaceIs DEF TooLarge
<1>3. at \in Nat /\ at >= 1 /\ at <= Len(ws) + 1 /\ Len(ws) \in Nat /\ n \in Nat /\ n = Len(fields)
  BY EndIs
<1>4. PICK head : head = SubSeq(ws, 1, at - 1)  OBVIOUS
<1>5. head \in Seq(AnyWord) /\ Len(head) = at - 1 /\ \A i \in 1 .. at - 1 : head[i] = ws[i]
  BY <1>3, <1>4
<1>6. PICK H : H = FieldHeader(sig, c.size)  OBVIOUS
<1>7. PICK two : two = <<H, Flags>>  OBVIOUS
<1>8. two \in Seq(AnyWord) /\ Len(two) = 2 /\ two[1] = H
  <2>1. H \in AnyWord /\ Flags \in AnyWord  BY <1>6 DEF AnyWord
  <2>. QED  BY <1>7, <2>1
<1>9. c.words \in Seq(AnyWord) /\ Len(c.words) = m
  <2>1. ToSet(c.words) \subseteq AnyWord  BY DEF AnyWord
  <2>2. PICK d : d = c.words  OBVIOUS
  <2>3. d \in Seq(AnyWord)  BY <1>1, <2>1, <2>2
  <2>. QED  BY <1>1, <1>2, <2>2, <2>3
<1>10. PICK front : front = head \o two  OBVIOUS
<1>11. /\ front \in Seq(AnyWord) /\ Len(front) = at + 1 /\ front[at] = H
       /\ \A i \in 1 .. at - 1 : front[i] = ws[i]
  <2>1. PICK p \in Nat : p = at - 1  BY <1>3
  <2>2. /\ front \in Seq(AnyWord) /\ Len(front) = p + 2
        /\ \A i \in 1 .. p : front[i] = head[i]
        /\ \A j \in 1 .. 2 : front[p + j] = two[j]
    <3>1. /\ front \in Seq(AnyWord) /\ Len(front) = Len(head) + Len(two)
          /\ \A i \in 1 .. Len(head) : front[i] = head[i]
          /\ \A j \in 1 .. Len(two) : front[Len(head) + j] = two[j]
      <4>1. head \in Seq(AnyWord) /\ two \in Seq(AnyWord)  BY <1>5, <1>8
      <4>2. /\ head \o two \in Seq(AnyWord) /\ Len(head \o two) = Len(head) + Len(two)
            /\ \A i \in 1 .. Len(head) : (head \o two)[i] = head[i]
            /\ \A j \in 1 .. Len(two) : (head \o two)[Len(head) + j] = two[j]
        BY <4>1, JoinIs
      <4>. QED  BY <1>10, <4>2, Zenon
    <3>. QED  BY <1>5, <1>8, <2>1, <3>1
  <2>3. p + 2 = at + 1 /\ p + 1 = at /\ 1 \in 1 .. 2  BY <1>3, <2>1
  <2>. QED  BY <1>5, <1>8, <2>1, <2>2, <2>3
<1>12. PICK d : d = c.words  OBVIOUS
<1>13. PICK all : all = front \o d  OBVIOUS
<1>14. /\ all \in Seq(AnyWord) /\ Len(all) = at + 1 + m /\ all[at] = H
       /\ \A i \in 1 .. at - 1 : all[i] = ws[i]
       /\ \A j \in 1 .. m : all[at + 1 + j] = d[j]
  <2>1. PICK p \in Nat : p = at + 1  BY <1>3
  <2>2. /\ all \in Seq(AnyWord) /\ Len(all) = p + m
        /\ \A i \in 1 .. p : all[i] = front[i]
        /\ \A j \in 1 .. m : all[p + j] = d[j]
    <3>1. /\ all \in Seq(AnyWord) /\ Len(all) = Len(front) + Len(d)
          /\ \A i \in 1 .. Len(front) : all[i] = front[i]
          /\ \A j \in 1 .. Len(d) : all[Len(front) + j] = d[j]
      <4>1. front \in Seq(AnyWord) /\ d \in Seq(AnyWord)  BY <1>9, <1>11, <1>12
      <4>2. /\ front \o d \in Seq(AnyWord) /\ Len(front \o d) = Len(front) + Len(d)
            /\ \A i \in 1 .. Len(front) : (front \o d)[i] = front[i]
            /\ \A j \in 1 .. Len(d) : (front \o d)[Len(front) + j] = d[j]
        BY <4>1, JoinIs
      <4>. QED  BY <1>13, <4>2, Zenon
    <3>. QED  BY <1>9, <1>11, <1>12, <2>1, <3>1
  <2>3. at \in 1 .. p /\ \A i \in 1 .. at - 1 : i \in 1 .. p  BY <1>3, <2>1
  <2>. QED  BY <1>11, <2>1, <2>2, <2>3
<1>15. more = SubSeq(all, 1, at + 1 + m)
  <2>1. at - 1 + (2 + m) = at + 1 + m  BY <1>2, <1>3
  <2>. QED  BY <1>2, <1>4, <1>6, <1>7, <1>10, <1>12, <1>13, <2>1, Zenon DEF WithField
<1>16. more \in Seq(AnyWord) /\ Len(more) = at + 1 + m /\ DOMAIN more = 1 .. (at + 1 + m)
       /\ \A i \in 1 .. (at + 1 + m) : more[i] = all[i]
  <2>1. PICK M \in Nat : M = at + 1 + m  BY <1>2, <1>3
  <2>2. more = SubSeq(all, 1, M) /\ Len(all) = M /\ all \in Seq(AnyWord)  BY <1>14, <1>15, <2>1
  <2>3. more \in Seq(AnyWord) /\ Len(more) = M /\ DOMAIN more = 1 .. M
        /\ \A i \in 1 .. M : more[i] = all[i]
    BY <2>2
  <2>. QED  BY <2>1, <2>3
<1>17. /\ more[at] = H
       /\ \A i \in 1 .. at - 1 : more[i] = ws[i]
       /\ \A j \in 1 .. m : more[at + 1 + j] = d[j]
  <2>1. at \in 1 .. (at + 1 + m) /\ \A j \in 1 .. m : at + 1 + j \in 1 .. (at + 1 + m)
    BY <1>2, <1>3
  <2>2. \A i \in 1 .. at - 1 : i \in 1 .. (at + 1 + m)  BY <1>2, <1>3
  <2>. QED  BY <1>14, <1>16, <2>1, <2>2
<1>18. PICK new : new = [k \in 1 .. n + 2 |-> IF k = n + 2 THEN at + (2 + m) ELSE pos[k]]
  OBVIOUS
<1>19. PICK f : f = [sig |-> sig, data |-> c]  OBVIOUS
<1>20. f \in AppendedFields /\ f.sig = sig /\ f.data = c  BY <1>19 DEF AppendedFields
<1>21. PICK longer : longer = Append(fields, f)  OBVIOUS
<1>22. fields \in Seq(AppendedFields)  BY DEF Laid
<1>23. /\ longer \in Seq(AppendedFields) /\ Len(longer) = n + 1 /\ longer[n + 1] = f
       /\ \A k \in 1 .. n : longer[k] = fields[k]
  BY <1>3, <1>20, <1>21, <1>22
<1>24. new[n + 2] = at + (2 + m) /\ \A k \in 1 .. n + 1 : new[k] = pos[k]
  BY <1>3, <1>18
<1>25. \A k \in 1 .. n : FieldAt(more, new, k, longer[k])
  <2> SUFFICES ASSUME NEW k \in 1 .. n  PROVE FieldAt(more, new, k, longer[k])
    OBVIOUS
  <2>1. FieldAt(more, pos, k, fields[k])
    <3>1. PICK l : l = at - 1  OBVIOUS
    <3>2. l = pos[n + 1] - 1 /\ SameUpTo(l, more, ws)  BY <1>17, <3>1 DEF SameUpTo
    <3>. QED  BY <3>2, FieldsStay, Zenon
  <2>2. k \in 1 .. n + 1 /\ k + 1 \in 1 .. n + 1  BY <1>3
  <2>3. new[k] = pos[k] /\ new[k + 1] = pos[k + 1] /\ longer[k] = fields[k]
    BY <1>23, <1>24, <2>2
  <2>. QED  BY <2>1, <2>3, Zenon DEF FieldAt
<1>26. FieldAt(more, new, n + 1, longer[n + 1])
  <2>1. n + 1 \in 1 .. n + 1 /\ (n + 1) + 1 = n + 2  BY <1>3
  <2>2. new[n + 1] = at /\ new[(n + 1) + 1] = at + (2 + m)
    BY <1>24, <2>1
  <2>3. longer[n + 1].data.size = c.size /\ longer[n + 1].data.words = d /\ longer[n + 1].sig = sig
    BY <1>12, <1>20, <1>23
  <2>. QED  BY <1>2, <1>6, <1>17, <2>2, <2>3, Zenon DEF FieldAt
<1>27. \A k \in 1 .. n + 2 : new[k] \in Nat
  <2>1. \A k \in 1 .. n + 1 : pos[k] \in Nat  BY DEF Laid
  <2>2. \A k \in 1 .. n + 2 : k \in 1 .. n + 1 \/ k = n + 2  BY <1>3
  <2>. QED  BY <1>2, <1>3, <1>24, <2>1, <2>2
<1>28. \A j, k \in 1 .. n + 2 : j < k => new[j] + 2 <= new[k]
  <2> SUFFICES ASSUME NEW j \in 1 .. n + 2, NEW k \in 1 .. n + 2, j < k
               PROVE  new[j] + 2 <= new[k]
    OBVIOUS
  <2>1. j \in 1 .. n + 1 /\ n + 1 \in 1 .. n + 1  BY <1>3
  <2>2. \A p, q \in 1 .. n + 1 : p < q => pos[p] + 2 <= pos[q]  BY DEF Laid
  <2>3. pos[j] \in Nat  BY <2>1 DEF Laid
  <2>4. CASE k # n + 2
    <3>1. k \in 1 .. n + 1  BY <1>3, <2>4
    <3>. QED  BY <1>24, <2>1, <2>2, <3>1
  <2>5. CASE k = n + 2
    <3>1. pos[j] <= at
      <4>1. CASE j = n + 1  BY <1>3, <4>1
      <4>2. CASE j # n + 1
        <5>1. j < n + 1  BY <1>3, <2>1, <4>2
        <5>2. pos[j] + 2 <= pos[n + 1]  BY <2>1, <2>2, <5>1
        <5>. QED  BY <1>3, <2>3, <5>2
      <4>. QED  BY <4>1, <4>2
    <3>2. new[j] = pos[j] /\ new[k] = at + (2 + m)  BY <1>24, <2>1, <2>5
    <3>3. pos[j] + 2 <= at + (2 + m)  BY <1>2, <1>3, <2>3, <3>1
    <3>. QED  BY <3>2, <3>3
  <2>. QED  BY <2>4, <2>5
<1>29. new[1] = 1
  <2>1. pos[1] = 1 /\ 1 \in 1 .. n + 1  BY <1>3 DEF Laid
  <2>. QED  BY <1>24, <2>1
<1>30. PICK l : l = n + 1  OBVIOUS
<1>31. l \in Nat /\ l + 1 = n + 2 /\ l = Len(longer)  BY <1>3, <1>23, <1>30
<1>32. \A k \in 1 .. l : FieldAt(more, new, k, longer[k])
  <2>1. \A k \in 1 .. l : k \in 1 .. n \/ k = n + 1  BY <1>3, <1>30
  <2>. QED  BY <1>25, <1>26, <2>1
<1>33. new[l + 1] = at + (2 + m) /\ Len(more) \in Nat /\ new[l + 1] <= Len(more) + 1
       /\ new[l + 1] > Len(more)
  <2>1. new[l + 1] = at + (2 + m)  BY <1>24, <1>31
  <2>2. Len(more) = at + 1 + m  BY <1>16
  <2>3. at + 1 + m \in Nat /\ at + (2 + m) = (at + 1 + m) + 1  BY <1>2, <1>3
  <2>. QED  BY <2>1, <2>2, <2>3
<1>34. Laid(more, longer, l, new)
  <2>1. DOMAIN more = 1 .. Len(more)  BY <1>16
  <2>2. \A k \in 1 .. l + 1 : new[k] \in Nat  BY <1>27, <1>31
  <2>3. \A j, k \in 1 .. l + 1 : j < k => new[j] + 2 <= new[k]  BY <1>28, <1>31
  <2>. QED  BY <1>23, <1>29, <1>31, <1>32, <1>33, <2>1, <2>2, <2>3, Zenon DEF Laid
<1>35. NothingFollows("pass", more, new, l)
  <2>1. new[l + 1] .. Len(more) = {}
    <3>1. new[l + 1] \in Nat  BY <1>2, <1>3, <1>33
    <3>. QED  BY <1>33, <3>1
  <2>. QED  BY <2>1 DEF NothingFollows
<1>36. new[l + 1] = at + FieldSpace(c.size)  BY <1>2, <1>33
<1>. QED  BY <1>16, <1>19, <1>21, <1>30, <1>34, <1>35, <1>36, Zenon

LEMMA NoFieldIsLaid ==
    ASSUME NEW none, none = <<>>
    PROVE  \E pos : /\ Laid(none, none, 0, pos) /\ NothingFollows("pass", none, pos, 0)
                    /\ pos[0 + 1] = 1
<1>1. PICK pos : pos = [k \in 1 .. 1 |-> 1]  OBVIOUS
<1>2. pos[1] = 1 /\ 0 + 1 = 1 /\ \A k \in 1 .. 1 : k = 1  BY <1>1
<1>3. none \in Seq(AppendedFields) /\ Len(none) = 0 /\ DOMAIN none = 1 .. 0 /\ 1 .. 0 = {}
  OBVIOUS
<1>4. Laid(none, none, 0, pos)
  <2>1. \A j, k \in 1 .. 0 + 1 : ~(j < k)  OBVIOUS
  <2>2. \A k \in 1 .. 0 : FieldAt(none, pos, k, none[k])  BY <1>3
  <2>3. \A k \in 1 .. 0 + 1 : pos[k] \in Nat  BY <1>2
  <2>. QED  BY <1>2, <1>3, <2>1, <2>2, <2>3 DEF Laid
<1>5. NothingFollows("pass", none, pos, 0)
  <2>1. 1 .. Len(none) = {}  BY <1>3
  <2>. QED  BY <1>2, <2>1 DEF NothingFollows
<1>. QED  BY <1>2, <1>4, <1>5

LEMMA FilesBegin ==
    ASSUME FInit
    PROVE  FileInv
<1>1. PICK none : none = <<>>  OBVIOUS
<1>2. PICK pos : Laid(none, none, 0, pos) /\ NothingFollows("pass", none, pos, 0) /\ pos[0 + 1] = 1
  BY <1>1, NoFieldIsLaid
<1>3. words = none /\ appended = none /\ fileSize = HeaderSize /\ Len(appended) = 0
  BY <1>1 DEF FInit
<1>4. words \in Seq(AnyWord)  BY <1>1, <1>3
<1>5. fileSize = HeaderSize + 4 * (pos[0 + 1] - 1)  BY <1>2, <1>3 DEF HeaderSize
<1>6. FileHolds(pos, 0)
  <2>1. Laid(words, appended, 0, pos) /\ NothingFollows("pass", words, pos, 0)  BY <1>2, <1>3
  <2>. QED  BY <1>4, <1>5, <2>1 DEF FileHolds
<1>. QED  BY <1>3, <1>6 DEF FileInv

\* A field that is not too large leaves an unbroken file.
LEMMA AddKeeps ==
    ASSUME NEW sig \in Signatures, NEW c \in FieldContents, NEW ws \in Seq(AnyWord),
           NEW fields, NEW n, NEW pos, Laid(ws, fields, n, pos),
           NEW at, at = pos[n + 1], ~TooLarge(c),
           words' = WithField(ws, at, sig, c),
           fileSize' = HeaderSize + 4 * (at - 1 + FieldSpace(c.size)),
           appended' = Append(fields, [sig |-> sig, data |-> c])
    PROVE  FileInv'
<1>1. PICK more : more = words'  OBVIOUS
<1>2. more = WithField(ws, at, sig, c)  BY <1>1
<1>3. PICK longer : longer = Append(fields, [sig |-> sig, data |-> c])  OBVIOUS
<1>4. PICK new : /\ more \in Seq(AnyWord) /\ Laid(more, longer, n + 1, new)
                 /\ NothingFollows("pass", more, new, n + 1)
                 /\ new[(n + 1) + 1] = at + FieldSpace(c.size)
  <2>1. \E new : /\ more \in Seq(AnyWord)
                 /\ Laid(more, Append(fields, [sig |-> sig, data |-> c]), n + 1, new)
                 /\ NothingFollows("pass", more, new, n + 1)
                 /\ new[(n + 1) + 1] = at + FieldSpace(c.size)
    BY <1>2, FieldIsLaid
  <2>. QED  BY <1>3, <2>1, Zenon
<1>5. PICK l : l = n + 1  OBVIOUS
<1>6. appended' = longer /\ Len(appended') = l
  <2>1. l = Len(longer)  BY <1>4, <1>5 DEF Laid
  <2>. QED  BY <1>3, <2>1
<1>7. fileSize' = HeaderSize + 4 * (new[l + 1] - 1)
  <2>1. at \in Nat  BY EndIs
  <2>2. FieldSpace(c.size) \in Nat  BY FieldsAssumption, SpaceIs DEF TooLarge
  <2>3. new[l + 1] = at + FieldSpace(c.size)  BY <1>4, <1>5
  <2>4. at - 1 + FieldSpace(c.size) = (at + FieldSpace(c.size)) - 1  BY <2>1, <2>2
  <2>. QED  BY <2>3, <2>4
<1>8. FileHolds(new, l)'
  BY <1>1, <1>4, <1>5, <1>6, <1>7 DEF FileHolds
<1>. QED  BY <1>6, <1>8 DEF FileInv

LEMMA JunkBehind ==
    ASSUME NEW ws \in Seq(AnyWord), NEW fields, NEW n, NEW pos, Laid(ws, fields, n, pos),
           NothingFollows("pass", ws, pos, n), NEW more, more = Append(ws, Junk)
    PROVE  more \in Seq(AnyWord) /\ Laid(more, fields, n, pos) /\ NothingFollows("pass", more, pos, n)
<1>1. Junk \in AnyWord /\ ~isValidFieldHeader(Junk)
  BY FieldsAssumption DEF AnyWord, Junk, isValidFieldHeader
<1>2. PICK L : L = Len(ws)  OBVIOUS
<1>3. /\ L \in Nat /\ more \in Seq(AnyWord) /\ Len(more) = L + 1 /\ DOMAIN more = 1 .. L + 1
      /\ more[L + 1] = Junk /\ \A i \in 1 .. L : more[i] = ws[i]
  BY <1>1, <1>2
<1>4. pos[n + 1] \in Nat /\ pos[n + 1] >= 1 /\ pos[n + 1] <= L + 1 /\ n \in Nat
  BY <1>2, EndIs
<1>5. \A k \in 1 .. n : FieldAt(more, pos, k, fields[k])
  <2>1. PICK l : l = pos[n + 1] - 1  OBVIOUS
  <2>2. SameUpTo(l, more, ws)  BY <1>3, <1>4, <2>1 DEF SameUpTo
  <2>. QED  BY <2>1, <2>2, FieldsStay, Zenon
<1>6. Laid(more, fields, n, pos)
  <2>1. pos[n + 1] <= Len(more) + 1  BY <1>3, <1>4
  <2>2. Len(more) \in Nat /\ DOMAIN more = 1 .. Len(more)  BY <1>3
  <2>. QED  BY <1>5, <2>1, <2>2 DEF Laid
<1>7. NothingFollows("pass", more, pos, n)
  <2> SUFFICES ASSUME NEW i \in pos[n + 1] .. Len(more)  PROVE ~isValidFieldHeader(more[i])
    BY DEF NothingFollows
  <2>1. CASE i = L + 1  BY <1>1, <1>3, <2>1
  <2>2. CASE i # L + 1
    <3>1. i \in pos[n + 1] .. L /\ i \in 1 .. L  BY <1>3, <1>4, <2>2
    <3>2. ~isValidFieldHeader(ws[i])  BY <1>2, <3>1 DEF NothingFollows
    <3>. QED  BY <1>3, <3>1, <3>2
  <2>. QED  BY <2>1, <2>2
<1>. QED  BY <1>3, <1>6, <1>7

LEMMA FileStep ==
    ASSUME FileInv, [FNext]_fvars
    PROVE  FileInv'
<1> SUFFICES ASSUME ~broken'  PROVE \E pos : FileHolds(pos, Len(appended))'
  BY DEF FileInv
<1>1. CASE UNCHANGED fvars
  <2>1. ~broken  BY <1>1 DEF fvars
  <2>2. PICK pos : FileHolds(pos, Len(appended))  BY <2>1 DEF FileInv
  <2>3. FileHolds(pos, Len(appended))'  BY <1>1, <2>2 DEF fvars, FileHolds
  <2>. QED  BY <2>3
<1>2. ASSUME NEW sig \in Signatures, NEW c \in FieldContents, AppendField(sig, c)
      PROVE  FileInv'
  <2>1. ~broken  BY <1>2 DEF AppendField
  <2>2. AddField(AppendPosition(words), sig, c) /\ ~TooLarge(c)
    BY <1>2 DEF AppendField, TooLarge
  <2>3. PICK n : n = Len(appended)  OBVIOUS
  <2>4. PICK pos : FileHolds(pos, n)  BY <2>1, <2>3 DEF FileInv
  <2>5. PICK ws : ws = words  OBVIOUS
  <2>6. PICK fields : fields = appended  OBVIOUS
  <2>7. ws \in Seq(AnyWord) /\ Laid(ws, fields, n, pos) /\ NothingFollows("pass", ws, pos, n)
    BY <2>4, <2>5, <2>6 DEF FileHolds
  <2>8. PICK at : at = pos[n + 1]  OBVIOUS
  <2>9. AppendPosition(words) = at
    <3>1. AppendPosition(ws) = at  BY <2>7, <2>8, AppendPositionIs
    <3>. QED  BY <2>5, <3>1
  <2>10. /\ words' = WithField(ws, at, sig, c)
         /\ fileSize' = HeaderSize + 4 * (at - 1 + FieldSpace(c.size))
         /\ appended' = Append(fields, [sig |-> sig, data |-> c])
    BY <2>2, <2>5, <2>6, <2>9 DEF AddField, WithField
  <2>. QED  BY <2>2, <2>7, <2>8, <2>10, AddKeeps
<1>3. ASSUME NEW sig \in Signatures, NEW c \in FieldContents, Convert(sig, c)
      PROVE  FileInv'
  <2>1. PICK none : none = <<>>  OBVIOUS
  <2>2. PICK pos : Laid(none, none, 0, pos) /\ NothingFollows("pass", none, pos, 0) /\ pos[0 + 1] = 1
    BY <2>1, NoFieldIsLaid
  <2>3. none \in Seq(AnyWord)  BY <2>1
  <2>4. ~TooLarge(c)  BY <1>3 DEF Convert, TooLarge
  <2>5. PICK at : at = 1  OBVIOUS
  <2>6. c.words \in Seq(ToSet(c.words)) /\ c.size \in Nat  BY FieldsAssumption
  <2>7. FieldSpace(c.size) \in Nat  BY <2>4, <2>6, SpaceIs DEF TooLarge
  <2>8. PICK two : two = <<FieldHeader(sig, c.size), Flags>>  OBVIOUS
  <2>9. SubSeq(none, 1, at - 1) \o two = two
    <3>1. two \in Seq({FieldHeader(sig, c.size), Flags})  BY <2>8
    <3>2. SubSeq(none, 1, at - 1) = <<>>  BY <2>1, <2>5
    <3>3. <<>> \o two = two  BY <3>1, ConcatEmptySeq
    <3>. QED  BY <3>2, <3>3
  <2>10. at - 1 + FieldSpace(c.size) = FieldSpace(c.size)  BY <2>5, <2>7
  <2>11. /\ words' = SubSeq(two \o c.words, 1, FieldSpace(c.size))
         /\ fileSize' = HeaderSize + 4 * FieldSpace(c.size)
         /\ appended' = <<[sig |-> sig, data |-> c]>>
    BY <1>3, <2>8 DEF Convert
  <2>12. words' = WithField(none, at, sig, c)
    BY <2>8, <2>9, <2>10, <2>11, Zenon DEF WithField
  <2>13. fileSize' = HeaderSize + 4 * (at - 1 + FieldSpace(c.size))
    BY <2>10, <2>11, Zenon
  <2>14. appended' = Append(none, [sig |-> sig, data |-> c])
    <3>1. PICK f : f = [sig |-> sig, data |-> c]  OBVIOUS
    <3>2. Append(none, f) = <<f>>  BY <2>1
    <3>. QED  BY <2>11, <3>1, <3>2
  <2>15. at = pos[0 + 1]  BY <2>2, <2>5
  <2>. QED  BY <2>2, <2>3, <2>4, <2>12, <2>13, <2>14, <2>15, AddKeeps
<1>4. ASSUME Trailing
      PROVE  FileInv'
  <2>1. ~broken /\ UNCHANGED <<fileSize, appended>> /\ words' = Append(words, Junk)
    BY <1>4 DEF Trailing
  <2>2. PICK n : n = Len(appended)  OBVIOUS
  <2>3. PICK pos : FileHolds(pos, n)  BY <2>1, <2>2 DEF FileInv
  <2>4. PICK ws : ws = words  OBVIOUS
  <2>5. PICK fields : fields = appended  OBVIOUS
  <2>6. ws \in Seq(AnyWord) /\ Laid(ws, fields, n, pos) /\ NothingFollows("pass", ws, pos, n)
    BY <2>3, <2>4, <2>5 DEF FileHolds
  <2>7. PICK more : more = Append(ws, Junk)  OBVIOUS
  <2>8. more \in Seq(AnyWord) /\ Laid(more, fields, n, pos) /\ NothingFollows("pass", more, pos, n)
    BY <2>6, <2>7, JunkBehind
  <2>9. more = words'  BY <2>1, <2>4, <2>7
  <2>10. FileHolds(pos, n)'
    BY <2>1, <2>3, <2>5, <2>8, <2>9 DEF FileHolds
  <2>. QED  BY <2>1, <2>2, <2>10 DEF FileInv
<1>5. FileInv' => \E pos : FileHolds(pos, Len(appended))'  BY DEF FileInv
<1>. QED  BY <1>1, <1>2, <1>3, <1>4, <1>5 DEF FNext

\* What dfile appends to a file, dataFileReader finds: for every content of fields,
\* whatever their padding, whatever their data holds and however many there are, with
\* bytes behind the file's end too, unless a field was too large for its space or what
\* the tool's buffer held was taken for a field.
THEOREM FieldsAreReadBack == FSpec => []FieldsReadBack
<1>1. FInit => FileInv  BY FilesBegin
<1>2. FileInv /\ [FNext]_fvars => FileInv'  BY FileStep
<1>3. FileInv => FieldsReadBack  BY FileReadsBack
<1>. QED  BY <1>1, <1>2, <1>3, PTL DEF FSpec
=============================================================================
