-------------------------- MODULE CommRouterProofs --------------------------
(***************************************************************************)
(* Proofs about the byte routers: what a ring holds after each of its      *)
(* operations, and that through the rings no byte is lost, repeated or     *)
(* reordered, for every number of devices, size and order; and the same of *)
(* the relays of module Relays, whose rings may be too small.              *)
(***************************************************************************)
EXTENDS CommRouter, Relays, TLAPS, SequenceTheorems, FiniteSetTheorems, WellFoundedInduction

(***************************************************************************)
(* Rings.                                                                  *)
(***************************************************************************)

\* the k-th unread byte
Cell(f, k) == f.buffer[Step(f, f.tail, k - 1)]

LEMMA SmallerIs ==
    ASSUME NEW a \in Nat, NEW b \in Nat
    PROVE  /\ Smaller(a, b) \in Nat /\ Smaller(a, b) <= a /\ Smaller(a, b) <= b
           /\ a <= b => Smaller(a, b) = a
           /\ b <= a => Smaller(a, b) = b
BY DEF Smaller

LEMMA RingFields ==
    ASSUME NEW s \in Nat, s > 0, NEW f \in Ring(s)
    PROVE  /\ f.size = s
           /\ f.head \in Nat /\ f.head < s
           /\ f.tail \in Nat /\ f.tail < s
           /\ f.buffer \in [0 .. s - 1 -> Nat]
           /\ f = [buffer |-> f.buffer, size |-> s, head |-> f.head, tail |-> f.tail]
BY DEF Ring

LEMMA CountFits ==
    ASSUME NEW s \in Nat, s > 0, NEW f \in Ring(s)
    PROVE  Count(f) \in Nat /\ Count(f) < s
<1>1. /\ f.size = s /\ f.head \in Nat /\ f.head < s /\ f.tail \in Nat /\ f.tail < s
  BY RingFields
<1>. QED  BY <1>1 DEF Count

LEMMA StepFits ==
    ASSUME NEW s \in Nat, s > 0, NEW f \in Ring(s),
           NEW i \in Nat, i < s, NEW n \in Nat, n <= s
    PROVE  /\ Step(f, i, n) \in Nat /\ Step(f, i, n) < s
           /\ Step(f, i, n) = IF i + n >= s THEN i + n - s ELSE i + n
<1>1. f.size = s
  BY RingFields
<1>. QED  BY <1>1 DEF Step

LEMMA HeadIs ==
    ASSUME NEW s \in Nat, s > 0, NEW f \in Ring(s)
    PROVE  f.head = Step(f, f.tail, Count(f))
<1>1. /\ f.size = s /\ f.head \in Nat /\ f.head < s /\ f.tail \in Nat /\ f.tail < s
  BY RingFields
<1>. QED  BY <1>1 DEF Count, Step

LEMMA NewRing ==
    ASSUME NEW s \in Nat, s > 0
    PROVE  New(s, 0) \in Ring(s) /\ Count(New(s, 0)) = 0
<1>1. 0 \in 0 .. s - 1
  OBVIOUS
<1>2. New(s, 0) \in Ring(s)
  BY <1>1 DEF New, Ring
<1>. QED  BY <1>2 DEF New, Count

LEMMA CellType ==
    ASSUME NEW s \in Nat, s > 0, NEW f \in Ring(s), NEW k \in Nat, k > 0, k <= s
    PROVE  Cell(f, k) \in Nat
<1>1. f.tail \in Nat /\ f.tail < s /\ f.buffer \in [0 .. s - 1 -> Nat]
  BY RingFields
<1>2. k - 1 \in Nat /\ k - 1 <= s
  OBVIOUS
<1>3. Step(f, f.tail, k - 1) \in Nat /\ Step(f, f.tail, k - 1) < s
  BY <1>1, <1>2, StepFits
<1>4. Step(f, f.tail, k - 1) \in 0 .. s - 1
  BY <1>3
<1>. QED  BY <1>1, <1>4 DEF Cell

\* what is unread is at different places
LEMMA StepsDiffer ==
    ASSUME NEW s \in Nat, s > 0, NEW f \in Ring(s), NEW i \in Nat, i < s,
           NEW m \in Nat, m < s, NEW n \in Nat, n < s, m # n
    PROVE  Step(f, i, m) # Step(f, i, n)
<1>1. f.size = s
  BY RingFields
<1>. QED  BY <1>1 DEF Step

LEMMA PushIs ==
    ASSUME NEW s \in Nat, s > 0, NEW f \in Ring(s), NEW byte \in Nat
    PROVE  /\ Push(f, byte) = [buffer |-> [f.buffer EXCEPT ![f.head] = byte], size |-> s,
                               head |-> Step(f, f.head, 1), tail |-> f.tail]
           /\ Push(f, byte) \in Ring(s)
<1>1. /\ f.size = s /\ f.head \in Nat /\ f.head < s /\ f.tail \in Nat /\ f.tail < s
      /\ f.buffer \in [0 .. s - 1 -> Nat]
      /\ f = [buffer |-> f.buffer, size |-> s, head |-> f.head, tail |-> f.tail]
  BY RingFields
<1>2. Count(f) # f.size
  BY <1>1, CountFits
<1>3. Step(f, f.head, 1) \in Nat /\ Step(f, f.head, 1) < s
  BY <1>1, StepFits
<1>4. Step(f, f.head, 1) \in 0 .. s - 1 /\ f.tail \in 0 .. s - 1
  BY <1>1, <1>3
<1>5. Push(f, byte) = [f EXCEPT !.buffer[f.head] = byte, !.head = Step(f, f.head, 1)]
  BY <1>2 DEF Push, IsFull
<1>6. Push(f, byte) = [buffer |-> [f.buffer EXCEPT ![f.head] = byte], size |-> s,
                       head |-> Step(f, f.head, 1), tail |-> f.tail]
  BY <1>1, <1>5
<1>7. [f.buffer EXCEPT ![f.head] = byte] \in [0 .. s - 1 -> Nat]
  BY <1>1
<1>. QED  BY <1>4, <1>6, <1>7 DEF Ring

LEMMA PushCells ==
    ASSUME NEW s \in Nat, s > 0, NEW f \in Ring(s), NEW byte \in Nat, Count(f) < s - 1
    PROVE  /\ Count(Push(f, byte)) = Count(f) + 1
           /\ \A k \in 1 .. Count(f) : Cell(Push(f, byte), k) = Cell(f, k)
           /\ Cell(Push(f, byte), Count(f) + 1) = byte
<1>. DEFINE g == Push(f, byte)
<1>1. /\ f.size = s /\ f.head \in Nat /\ f.head < s /\ f.tail \in Nat /\ f.tail < s
      /\ f.buffer \in [0 .. s - 1 -> Nat] /\ Count(f) \in Nat /\ Count(f) < s
      /\ f.head = Step(f, f.tail, Count(f))
  BY RingFields, CountFits, HeadIs
<1>2. /\ g.size = s /\ g.tail = f.tail /\ g.head = Step(f, f.head, 1)
      /\ g.buffer = [f.buffer EXCEPT ![f.head] = byte]
  BY PushIs
<1>3. f.head \in 0 .. s - 1
  BY <1>1
<1>4. /\ g.buffer[f.head] = byte
      /\ \A i \in 0 .. s - 1 : i # f.head => g.buffer[i] = f.buffer[i]
  BY <1>1, <1>2, <1>3
<1>. HIDE DEF g
<1>5. Count(g) = Count(f) + 1
  <2>1. g.head = IF f.head + 1 >= s THEN f.head + 1 - s ELSE f.head + 1
    BY <1>1, <1>2 DEF Step
  <2>2. Count(f) = IF f.head >= f.tail THEN f.head - f.tail ELSE s - (f.tail - f.head)
    BY <1>1 DEF Count
  <2>3. Count(g) = IF g.head >= f.tail THEN g.head - f.tail ELSE s - (f.tail - g.head)
    BY <1>2 DEF Count
  <2>4. /\ f.head \in Nat /\ f.head < s /\ f.tail \in Nat /\ f.tail < s
        /\ Count(f) < s - 1
    BY <1>1
  <2>. QED  BY <2>1, <2>2, <2>3, <2>4
<1>6. \A n : Step(g, g.tail, n) = Step(f, f.tail, n)
  BY <1>1, <1>2 DEF Step
<1>7. \A k \in 1 .. Count(f) : Cell(g, k) = Cell(f, k)
  <2>. SUFFICES ASSUME NEW k \in 1 .. Count(f) PROVE Cell(g, k) = Cell(f, k)
    OBVIOUS
  <2>1. k - 1 \in Nat /\ k - 1 < s /\ k - 1 <= s /\ k - 1 # Count(f)
    BY <1>1
  <2>2. Step(f, f.tail, k - 1) \in Nat /\ Step(f, f.tail, k - 1) < s
    BY <1>1, <2>1, StepFits
  <2>3. Step(f, f.tail, k - 1) # f.head
    BY <1>1, <2>1, StepsDiffer
  <2>4. Step(f, f.tail, k - 1) \in 0 .. s - 1
    BY <2>2
  <2>. QED  BY <1>4, <1>6, <2>3, <2>4 DEF Cell
<1>8. Cell(g, Count(f) + 1) = byte
  <2>1. Count(f) + 1 - 1 = Count(f)
    BY <1>1
  <2>. QED  BY <1>1, <1>4, <1>6, <2>1 DEF Cell
<1>. QED  BY <1>5, <1>7, <1>8 DEF g

LEMMA RemoveIs ==
    ASSUME NEW s \in Nat, s > 0, NEW f \in Ring(s), NEW n \in Nat,
           NEW m, m = Smaller(Count(f), n)
    PROVE  /\ m \in Nat /\ m <= Count(f) /\ m <= n
           /\ Remove(f, n) = [buffer |-> f.buffer, size |-> s,
                              head |-> f.head, tail |-> Step(f, f.tail, m)]
           /\ Remove(f, n) \in Ring(s)
<1>1. /\ f.size = s /\ f.head \in Nat /\ f.head < s /\ f.tail \in Nat /\ f.tail < s
      /\ f.buffer \in [0 .. s - 1 -> Nat] /\ Count(f) \in Nat /\ Count(f) < s
      /\ f = [buffer |-> f.buffer, size |-> s, head |-> f.head, tail |-> f.tail]
  BY RingFields, CountFits
<1>2. m \in Nat /\ m <= Count(f) /\ m <= n
  BY <1>1, SmallerIs
<1>3. m <= s
  BY <1>1, <1>2
<1>4. Step(f, f.tail, m) \in Nat /\ Step(f, f.tail, m) < s
  BY <1>1, <1>2, <1>3, StepFits
<1>5. Step(f, f.tail, m) \in 0 .. s - 1 /\ f.head \in 0 .. s - 1
  BY <1>1, <1>4
<1>6. Remove(f, n) = [buffer |-> f.buffer, size |-> s,
                      head |-> f.head, tail |-> Step(f, f.tail, m)]
  BY <1>1 DEF Remove
<1>. QED  BY <1>1, <1>2, <1>5, <1>6 DEF Ring

LEMMA RemoveCells ==
    ASSUME NEW s \in Nat, s > 0, NEW f \in Ring(s), NEW n \in Nat,
           NEW m, m = Smaller(Count(f), n)
    PROVE  /\ Count(Remove(f, n)) = Count(f) - m
           /\ \A k \in 1 .. Count(f) - m : Cell(Remove(f, n), k) = Cell(f, k + m)
<1>. DEFINE g == Remove(f, n)
<1>1. /\ f.size = s /\ f.head \in Nat /\ f.head < s /\ f.tail \in Nat /\ f.tail < s
      /\ Count(f) \in Nat /\ Count(f) < s
  BY RingFields, CountFits
<1>2. /\ m \in Nat /\ m <= Count(f)
      /\ g.size = s /\ g.head = f.head /\ g.tail = Step(f, f.tail, m) /\ g.buffer = f.buffer
  BY RemoveIs
<1>. HIDE DEF g
<1>3. Count(g) = Count(f) - m
  BY <1>1, <1>2 DEF Count, Step
<1>4. \A k \in 1 .. Count(f) - m : Cell(g, k) = Cell(f, k + m)
  <2>. SUFFICES ASSUME NEW k \in 1 .. Count(f) - m PROVE Cell(g, k) = Cell(f, k + m)
    OBVIOUS
  <2>1. Step(g, g.tail, k - 1) = Step(f, f.tail, (k + m) - 1)
    BY <1>1, <1>2 DEF Step
  <2>. QED  BY <1>2, <2>1 DEF Cell
<1>. QED  BY <1>3, <1>4 DEF g

LEMMA PeekCells ==
    ASSUME NEW s \in Nat, s > 0, NEW f \in Ring(s), NEW n \in Nat,
           NEW m, m = Smaller(Count(f), n)
    PROVE  /\ m \in Nat /\ m <= Count(f) /\ m <= n
           /\ PeekAvailable(f, n) \in Seq(Nat)
           /\ Len(PeekAvailable(f, n)) = m
           /\ \A k \in 1 .. m : PeekAvailable(f, n)[k] = Cell(f, k)
<1>1. Count(f) \in Nat /\ Count(f) < s
  BY CountFits
<1>2. m \in Nat /\ m <= Count(f) /\ m <= n
  BY <1>1, SmallerIs
<1>3. PeekAvailable(f, n) = [k \in 1 .. m |-> Cell(f, k)]
  BY DEF PeekAvailable, Cell
<1>4. \A k \in 1 .. m : Cell(f, k) \in Nat
  <2>. SUFFICES ASSUME NEW k \in 1 .. m PROVE Cell(f, k) \in Nat
    OBVIOUS
  <2>1. k \in Nat /\ k > 0 /\ k <= s
    BY <1>1, <1>2
  <2>. QED  BY <2>1, CellType
<1>5. [k \in 1 .. m |-> Cell(f, k)] \in Seq(Nat)
  BY <1>2, <1>4
<1>. QED  BY <1>2, <1>3, <1>5

LEMMA WriteIs ==
    ASSUME NEW s \in Nat, s > 0, NEW f \in Ring(s), NEW bytes \in Seq(Nat),
           Count(f) + Len(bytes) < s
    PROVE  LET g == WriteAvailable(f, bytes)
           IN  /\ g \in Ring(s)
               /\ g.head = Step(f, f.head, Len(bytes)) /\ g.tail = f.tail
               /\ \A i \in 0 .. s - 1 :
                     (\A k \in 1 .. Len(bytes) : Step(f, f.head, k - 1) # i)
                        => g.buffer[i] = f.buffer[i]
               /\ \A k \in 1 .. Len(bytes) : g.buffer[Step(f, f.head, k - 1)] = bytes[k]
<1>. DEFINE n == Len(bytes)
            cell == [k \in 1 .. n |-> Step(f, f.head, k - 1)]
            buffer == [i \in 0 .. s - 1 |-> IF \E k \in 1 .. n : cell[k] = i
                                            THEN bytes[CHOOSE k \in 1 .. n : cell[k] = i]
                                            ELSE f.buffer[i]]
            g == [buffer |-> buffer, size |-> s,
                  head |-> Step(f, f.head, n), tail |-> f.tail]
<1>1. /\ f.size = s /\ f.head \in Nat /\ f.head < s /\ f.tail \in Nat /\ f.tail < s
      /\ f.buffer \in [0 .. s - 1 -> Nat] /\ Count(f) \in Nat /\ Count(f) < s
      /\ f = [buffer |-> f.buffer, size |-> s, head |-> f.head, tail |-> f.tail]
      /\ f.head = Step(f, f.tail, Count(f))
  BY RingFields, CountFits, HeadIs
<1>2. n \in Nat /\ n < s
  BY <1>1, LenProperties
<1>3. Smaller(f.size - Count(f), n) = n
  <2>1. Count(f) + n < s
    OBVIOUS
  <2>. HIDE DEF n, g
  <2>2. s - Count(f) \in Nat /\ ~(s - Count(f) < n)
    BY <1>1, <1>2, <2>1
  <2>. QED  BY <1>1, <2>2 DEF Smaller
<1>4. ~(n > 0 /\ Step(f, f.head, n) = f.tail)
  BY <1>1, <1>2 DEF Step
<1>5. DOMAIN f.buffer = 0 .. s - 1
  BY <1>1
<1>6. WriteAvailable(f, bytes) = g
  <2>. HIDE DEF n
  <2>1. WriteAvailable(f, bytes) =
           [f EXCEPT !.buffer = buffer, !.head = Step(f, f.head, n), !.tail = f.tail]
    <3>1. WriteAvailable(f, bytes) =
            [f EXCEPT !.buffer = [i \in DOMAIN @ |-> IF \E k \in 1 .. n : cell[k] = i
                                           THEN bytes[CHOOSE k \in 1 .. n : cell[k] = i]
                                           ELSE @[i]],
                      !.head = Step(f, f.head, n),
                      !.tail = IF n > 0 /\ Step(f, f.head, n) = @ THEN Step(f, @, 1) ELSE @]
      BY <1>3 DEF WriteAvailable, n
    <3>. QED  BY <1>4, <1>5, <3>1
  <2>. HIDE DEF buffer
  <2>. QED  BY <1>1, <2>1
<1>7. \A k \in 1 .. n : Step(f, f.head, k - 1) \in 0 .. s - 1
  <2>. SUFFICES ASSUME NEW k \in 1 .. n PROVE Step(f, f.head, k - 1) \in 0 .. s - 1
    OBVIOUS
  <2>1. k - 1 \in Nat /\ k - 1 <= s
    BY <1>2
  <2>. HIDE DEF n
  <2>2. Step(f, f.head, k - 1) \in Nat /\ Step(f, f.head, k - 1) < s
    BY <1>1, <2>1, StepFits
  <2>. QED  BY <2>2
<1>8. \A k \in 1 .. n, l \in 1 .. n : cell[k] = cell[l] => k = l
  <2>. SUFFICES ASSUME NEW k \in 1 .. n, NEW l \in 1 .. n, k # l PROVE cell[k] # cell[l]
    OBVIOUS
  <2>1. k - 1 \in Nat /\ k - 1 < s /\ l - 1 \in Nat /\ l - 1 < s /\ k - 1 # l - 1
    BY <1>2
  <2>. HIDE DEF n
  <2>2. Step(f, f.head, k - 1) # Step(f, f.head, l - 1)
    BY <1>1, <2>1, StepsDiffer
  <2>. QED  BY <2>2
<1>9. \A k \in 1 .. n : buffer[Step(f, f.head, k - 1)] = bytes[k]
  <2>. SUFFICES ASSUME NEW k \in 1 .. n PROVE buffer[Step(f, f.head, k - 1)] = bytes[k]
    OBVIOUS
  <2>1. cell[k] = Step(f, f.head, k - 1) /\ cell[k] \in 0 .. s - 1
    BY <1>7
  <2>. HIDE DEF cell
  <2>2. buffer[cell[k]] = bytes[CHOOSE l \in 1 .. n : cell[l] = cell[k]]
    BY <2>1
  <2>3. (CHOOSE l \in 1 .. n : cell[l] = cell[k]) = k
    BY <1>8
  <2>. QED  BY <2>1, <2>2, <2>3
<1>10. \A i \in 0 .. s - 1 :
         (\A k \in 1 .. n : Step(f, f.head, k - 1) # i) => buffer[i] = f.buffer[i]
  <2>. HIDE DEF n
  <2>. QED  OBVIOUS
<1>11. buffer \in [0 .. s - 1 -> Nat]
  <2>1. \A k \in 1 .. n : bytes[k] \in Nat
    BY ElementOfSeq
  <2>2. \A i \in 0 .. s - 1 : f.buffer[i] \in Nat
    BY <1>1
  <2>. HIDE DEF n, cell
  <2>. QED  BY <2>1, <2>2
<1>12. g \in Ring(s)
  <2>. HIDE DEF n, buffer
  <2>1. Step(f, f.head, n) \in Nat /\ Step(f, f.head, n) < s
    BY <1>1, <1>2, StepFits
  <2>2. Step(f, f.head, n) \in 0 .. s - 1 /\ f.tail \in 0 .. s - 1
    BY <1>1, <2>1
  <2>. QED  BY <1>11, <2>2 DEF Ring
<1>. HIDE DEF buffer
<1>. QED  BY <1>6, <1>9, <1>10, <1>12

LEMMA WriteCells ==
    ASSUME NEW s \in Nat, s > 0, NEW f \in Ring(s), NEW bytes \in Seq(Nat),
           Count(f) + Len(bytes) < s
    PROVE  LET g == WriteAvailable(f, bytes)
           IN  /\ g \in Ring(s) /\ Count(g) = Count(f) + Len(bytes)
               /\ \A k \in 1 .. Count(f) : Cell(g, k) = Cell(f, k)
               /\ \A k \in 1 .. Len(bytes) : Cell(g, Count(f) + k) = bytes[k]
<1>. DEFINE g == WriteAvailable(f, bytes)
<1>1. /\ f.size = s /\ f.head \in Nat /\ f.head < s /\ f.tail \in Nat /\ f.tail < s
      /\ Count(f) \in Nat /\ Count(f) < s
      /\ f.head = Step(f, f.tail, Count(f)) /\ Len(bytes) \in Nat
  BY RingFields, CountFits, HeadIs, LenProperties
<1>2. /\ g \in Ring(s)
      /\ g.head = Step(f, f.head, Len(bytes)) /\ g.tail = f.tail
      /\ \A i \in 0 .. s - 1 :
            (\A k \in 1 .. Len(bytes) : Step(f, f.head, k - 1) # i)
               => g.buffer[i] = f.buffer[i]
      /\ \A k \in 1 .. Len(bytes) : g.buffer[Step(f, f.head, k - 1)] = bytes[k]
  BY WriteIs
<1>. HIDE DEF g
<1>3. g.size = s
  BY <1>2, RingFields
<1>4. Count(g) = Count(f) + Len(bytes)
  <2>1. g.head = IF f.head + Len(bytes) >= s THEN f.head + Len(bytes) - s ELSE f.head + Len(bytes)
    BY <1>1, <1>2 DEF Step
  <2>2. Count(f) = IF f.head >= f.tail THEN f.head - f.tail ELSE s - (f.tail - f.head)
    BY <1>1 DEF Count
  <2>3. Count(g) = IF g.head >= f.tail THEN g.head - f.tail ELSE s - (f.tail - g.head)
    BY <1>2, <1>3 DEF Count
  <2>4. /\ f.head \in Nat /\ f.head < s /\ f.tail \in Nat /\ f.tail < s
        /\ Len(bytes) \in Nat /\ Count(f) + Len(bytes) < s
    BY <1>1
  <2>. QED  BY <2>1, <2>2, <2>3, <2>4
<1>5. \A n : Step(g, g.tail, n) = Step(f, f.tail, n)
  BY <1>1, <1>2, <1>3 DEF Step
<1>6. \A k \in 1 .. Len(bytes) : Step(f, f.head, k - 1) = Step(f, f.tail, (Count(f) + k) - 1)
  <2>. SUFFICES ASSUME NEW k \in 1 .. Len(bytes)
                PROVE  Step(f, f.head, k - 1) = Step(f, f.tail, (Count(f) + k) - 1)
    OBVIOUS
  <2>1. f.head = IF f.tail + Count(f) >= s THEN f.tail + Count(f) - s ELSE f.tail + Count(f)
    BY <1>1 DEF Step
  <2>2. Step(f, f.head, k - 1) = IF f.head + (k - 1) >= s THEN f.head + (k - 1) - s
                                 ELSE f.head + (k - 1)
    BY <1>1 DEF Step
  <2>3. Step(f, f.tail, (Count(f) + k) - 1)
           = IF f.tail + ((Count(f) + k) - 1) >= s THEN f.tail + ((Count(f) + k) - 1) - s
             ELSE f.tail + ((Count(f) + k) - 1)
    BY <1>1 DEF Step
  <2>4. /\ f.head \in Nat /\ f.head < s /\ f.tail \in Nat /\ f.tail < s
        /\ Count(f) \in Nat /\ k \in Nat /\ k >= 1 /\ Count(f) + k < s
    BY <1>1
  <2>5. PICK h, a, c : h = f.head /\ a = f.tail /\ c = Count(f)
    OBVIOUS
  <2>6. CASE a + c >= s
    <3>1. h = a + c - s /\ h + (k - 1) < s /\ a + ((c + k) - 1) >= s
      BY <2>1, <2>4, <2>5, <2>6
    <3>. QED  BY <2>2, <2>3, <2>4, <2>5, <3>1, SMTT(60)
  <2>7. CASE a + c < s
    <3>1. h = a + c
      BY <2>1, <2>4, <2>5, <2>7
    <3>. QED  BY <2>2, <2>3, <2>4, <2>5, <3>1, SMTT(60)
  <2>. QED  BY <2>4, <2>5, <2>6, <2>7
<1>7. \A k \in 1 .. Count(f) : Cell(g, k) = Cell(f, k)
  <2>. SUFFICES ASSUME NEW k \in 1 .. Count(f) PROVE Cell(g, k) = Cell(f, k)
    OBVIOUS
  <2>1. k - 1 \in Nat /\ k - 1 < s /\ k - 1 <= s
    BY <1>1
  <2>2. Step(f, f.tail, k - 1) \in Nat /\ Step(f, f.tail, k - 1) < s
    BY <1>1, <2>1, StepFits
  <2>3. Step(f, f.tail, k - 1) \in 0 .. s - 1
    BY <2>2
  <2>4. ASSUME NEW l \in 1 .. Len(bytes) PROVE Step(f, f.head, l - 1) # Step(f, f.tail, k - 1)
    <3>1. /\ (Count(f) + l) - 1 \in Nat /\ (Count(f) + l) - 1 < s
          /\ (Count(f) + l) - 1 # k - 1
      BY <1>1
    <3>2. Step(f, f.tail, (Count(f) + l) - 1) # Step(f, f.tail, k - 1)
      BY <1>1, <2>1, <3>1, StepsDiffer
    <3>. QED  BY <1>6, <3>2
  <2>. QED  BY <1>2, <1>5, <2>3, <2>4 DEF Cell
<1>8. \A k \in 1 .. Len(bytes) : Cell(g, Count(f) + k) = bytes[k]
  BY <1>2, <1>5, <1>6 DEF Cell
<1>. QED  BY <1>2, <1>4, <1>7, <1>8 DEF g

(***************************************************************************)
(* The invariant.                                                          *)
(***************************************************************************)

\* the step names a place in the orders
AtInv == at[1] \in {"signal", "receive", "route"} => at[2] \in Order

\* how many of d's bytes are with all its targets
Given(d) == Len(sent[d][LastTarget(d)])

\* the k-th byte waiting in the device
InDevice(d, k) == IF d \in Usb THEN usbRx[d][k] ELSE Cell(rxFifo[d], k)

\* The bytes are on their way in the order of their arrival, byte by byte.
Flow(d) ==
    /\ Given(d) + Count(fifo[d]) + DataAvailable(d) = arrived[d]
    /\ \A j \in 1 .. Len(Targets[d]) :
          sent[d][Targets[d][j]] \in {FirstN(Given(d)), FirstN(Given(d) + 1)}
    /\ \A k \in 1 .. Count(fifo[d]) : Cell(fifo[d], k) = Given(d) + k
    /\ \A k \in 1 .. DataAvailable(d) : InDevice(d, k) = Given(d) + Count(fifo[d]) + k

FlowInv == \A d \in Devices : d \notin overrun => Flow(d)

(***************************************************************************)
(* The constants.                                                          *)
(***************************************************************************)

LEMMA Minimum ==
    ASSUME NEW T, T \subseteq Nat, T # {}
    PROVE  \E n \in T : \A m \in T : n <= m
<1>1. PICK n \in T : \A m \in T : ~ (<<m, n>> \in OpToRel(<, Nat))
  BY NatLessThanWellFounded, WFMin
<1>2. \A m \in T : ~ (m < n)
  BY <1>1 DEF OpToRel
<1>. QED  BY <1>2

LEMMA Sizes ==
    /\ Capacity \in Nat /\ Capacity > 0 /\ Junk \in Nat /\ Junk > 0
    /\ RxSize \in Nat /\ RxSize > 0 /\ TxSize \in Nat /\ UsbSize \in Nat
<1>1. Capacity \in Nat /\ Junks \in Nat /\ Junks > 0 /\ Capacity \div Junks > 0
  BY RouterAssumption DEF Junk
<1>2. Capacity # 0
  <2>. SUFFICES ASSUME Capacity = 0 PROVE FALSE
    OBVIOUS
  <2>1. 0 \div Junks = 0
    BY <1>1, SMTT(30)
  <2>. QED  BY <1>1, <2>1
<1>. QED  BY <1>1, <1>2, RouterAssumption, SMTT(60) DEF Junk

LEMMA Orders ==
    /\ Len(Served) \in Nat /\ Len(Served) > 0 /\ Len(Registered) = Len(Served)
    /\ \A i \in Order : Served[i] \in Devices /\ Registered[i] \in Devices
    /\ \A d \in Devices : \E i \in Order : Registered[i] = d
<1>1. Cardinality(Devices) \in Nat /\ Cardinality(Devices) > 0
  BY RouterAssumption, FS_CardinalityType, FS_EmptySet
<1>2. /\ Served \in Seq(Devices) /\ Len(Served) = Cardinality(Devices)
      /\ Registered \in Seq(Devices) /\ Len(Registered) = Cardinality(Devices)
  <2>1. /\ Served \in [1 .. Cardinality(Devices) -> Devices]
        /\ Registered \in [1 .. Cardinality(Devices) -> Devices]
    BY RouterAssumption
  <2>2. ASSUME NEW f \in [1 .. Cardinality(Devices) -> Devices]
        PROVE  f \in Seq(Devices) /\ Len(f) = Cardinality(Devices)
    BY <1>1
  <2>. QED  BY <2>1, <2>2
<1>3. \A i \in Order : Served[i] \in Devices /\ Registered[i] \in Devices
  BY <1>2 DEF Order
<1>4. \A d \in Devices : \E i \in Order : Registered[i] = d
  BY RouterAssumption
<1>. QED  BY <1>1, <1>2, <1>3, <1>4

LEMMA TargetsAre ==
    ASSUME NEW d \in Devices
    PROVE  /\ Targets[d] \in Seq(Devices) /\ Len(Targets[d]) \in Nat /\ Len(Targets[d]) > 0
           /\ \A j \in 1 .. Len(Targets[d]) : Targets[d][j] \in Devices
           /\ \A i, j \in 1 .. Len(Targets[d]) : Targets[d][i] = Targets[d][j] => i = j
           /\ Len(Targets[d]) \in 1 .. Len(Targets[d]) /\ LastTarget(d) \in Devices
<1>1. Targets[d] \in Seq(Devices) /\ Len(Targets[d]) > 0
  BY RouterAssumption
<1>2. Len(Targets[d]) \in Nat /\ \A j \in 1 .. Len(Targets[d]) : Targets[d][j] \in Devices
  BY <1>1, LenProperties, ElementOfSeq
<1>3. \A i, j \in 1 .. Len(Targets[d]) : Targets[d][i] = Targets[d][j] => i = j
  BY RouterAssumption
<1>. QED  BY <1>1, <1>2, <1>3 DEF LastTarget

(***************************************************************************)
(* What the targets take of an offered junk.                               *)
(***************************************************************************)

LEMMA TakesIs ==
    ASSUME room \in [Devices -> 0 .. TxSize], NEW d \in Devices, NEW n \in Nat,
           NEW j \in 1 .. Len(Targets[d])
    PROVE  /\ Takes(d, n, j) \in Nat /\ Takes(d, n, j) <= n
           /\ Takes(d, n, j) <= room[Targets[d][j]]
           /\ \A i \in 1 .. Len(Targets[d]) : Takes(d, n, j) <= room[Targets[d][i]] + 1
           /\ \A i \in 1 .. j : Takes(d, n, j) <= room[Targets[d][i]]
           /\ \/ Takes(d, n, j) = n
              \/ \E i \in 1 .. j : Takes(d, n, j) = room[Targets[d][i]]
              \/ \E i \in j + 1 .. Len(Targets[d]) : Takes(d, n, j) = room[Targets[d][i]] + 1
<1>. DEFINE limit == {n} \cup {room[Targets[d][i]] : i \in 1 .. j}
                        \cup {room[Targets[d][i]] + 1 : i \in j + 1 .. Len(Targets[d])}
<1>1. /\ Len(Targets[d]) \in Nat /\ j \in Nat /\ j >= 1 /\ j <= Len(Targets[d])
      /\ \A i \in 1 .. Len(Targets[d]) : room[Targets[d][i]] \in Nat
  BY TargetsAre, Sizes
<1>2. limit \subseteq Nat /\ limit # {}
  BY <1>1
<1>3. PICK m \in limit : \A l \in limit : m <= l
  BY <1>2, Minimum
<1>4. Takes(d, n, j) = CHOOSE x \in limit : \A l \in limit : x <= l
  BY DEF Takes
<1>5. Takes(d, n, j) \in limit /\ \A l \in limit : Takes(d, n, j) <= l
  BY <1>3, <1>4
<1>6. /\ Takes(d, n, j) \in Nat /\ n \in limit
      /\ \A i \in 1 .. j : room[Targets[d][i]] \in limit
      /\ \A i \in j + 1 .. Len(Targets[d]) : room[Targets[d][i]] + 1 \in limit
  BY <1>2, <1>5
<1>7. /\ Takes(d, n, j) <= n
      /\ \A i \in 1 .. j : Takes(d, n, j) <= room[Targets[d][i]]
      /\ \A i \in j + 1 .. Len(Targets[d]) : Takes(d, n, j) <= room[Targets[d][i]] + 1
  BY <1>5, <1>6
<1>8. \A i \in 1 .. Len(Targets[d]) : Takes(d, n, j) <= room[Targets[d][i]] + 1
  <2>. SUFFICES ASSUME NEW i \in 1 .. Len(Targets[d])
                PROVE  Takes(d, n, j) <= room[Targets[d][i]] + 1
    OBVIOUS
  <2>1. i \in 1 .. j \/ i \in j + 1 .. Len(Targets[d])
    BY <1>1
  <2>. QED  BY <1>1, <1>6, <1>7, <2>1
<1>9. \/ Takes(d, n, j) = n
      \/ \E i \in 1 .. j : Takes(d, n, j) = room[Targets[d][i]]
      \/ \E i \in j + 1 .. Len(Targets[d]) : Takes(d, n, j) = room[Targets[d][i]] + 1
  BY <1>5
<1>10. Takes(d, n, j) <= room[Targets[d][j]]
  BY <1>1, <1>7
<1>. QED  BY <1>6, <1>7, <1>8, <1>9, <1>10

\* an earlier target is ahead of the last by at most one byte
LEMMA TakesKeepStep ==
    ASSUME room \in [Devices -> 0 .. TxSize], NEW d \in Devices, NEW n \in Nat,
           NEW j \in 1 .. Len(Targets[d])
    PROVE  /\ Written(d, n) \in Nat /\ Written(d, n) <= n
           /\ Takes(d, n, j) \in {Written(d, n), Written(d, n) + 1}
<1>. DEFINE last == Len(Targets[d])
            w == Takes(d, n, last)
            t == Takes(d, n, j)
<1>1. /\ last \in 1 .. last /\ last \in Nat /\ j \in Nat /\ j >= 1 /\ j <= last
      /\ \A i \in 1 .. last : room[Targets[d][i]] \in Nat
  BY TargetsAre, Sizes
<1>2. /\ w \in Nat /\ w <= n
      /\ \A i \in 1 .. last : w <= room[Targets[d][i]]
      /\ w = n \/ \E i \in 1 .. last : w = room[Targets[d][i]]
  <2>1. /\ w \in Nat /\ w <= n
        /\ \A i \in 1 .. last : w <= room[Targets[d][i]]
    BY <1>1, TakesIs
  <2>2. \/ w = n
        \/ \E i \in 1 .. last : w = room[Targets[d][i]]
        \/ \E i \in last + 1 .. last : w = room[Targets[d][i]] + 1
    BY <1>1, TakesIs
  <2>3. last + 1 .. last = {}
    BY <1>1
  <2>. HIDE DEF w, last
  <2>. QED  BY <2>1, <2>2, <2>3
<1>3. /\ t \in Nat /\ t <= n
      /\ \A i \in 1 .. last : t <= room[Targets[d][i]] + 1
      /\ \/ t = n
         \/ \E i \in 1 .. j : t = room[Targets[d][i]]
         \/ \E i \in j + 1 .. last : t = room[Targets[d][i]] + 1
  BY TakesIs
<1>4. Written(d, n) = w
  BY DEF Written
<1>. HIDE DEF w, t, last
<1>5. t <= w + 1
  BY <1>1, <1>2, <1>3
<1>6. w <= t
  <2>1. CASE t = n
    BY <1>2, <2>1
  <2>2. CASE \E i \in 1 .. j : t = room[Targets[d][i]]
    <3>1. PICK i \in 1 .. j : t = room[Targets[d][i]]
      BY <2>2
    <3>2. i \in 1 .. last
      BY <1>1
    <3>. QED  BY <1>2, <3>1, <3>2
  <2>3. CASE \E i \in j + 1 .. last : t = room[Targets[d][i]] + 1
    <3>1. PICK i \in j + 1 .. last : t = room[Targets[d][i]] + 1
      BY <2>3
    <3>2. i \in 1 .. last
      BY <1>1
    <3>3. w <= room[Targets[d][i]] /\ room[Targets[d][i]] \in Nat
      BY <1>1, <1>2, <3>2
    <3>. QED  BY <1>2, <3>1, <3>3
  <2>. QED  BY <1>3, <2>1, <2>2, <2>3
<1>7. t = w \/ t = w + 1
  BY <1>2, <1>3, <1>5, <1>6
<1>8. t \in {w, w + 1}
  BY <1>7
<1>. QED  BY <1>2, <1>4, <1>8 DEF t

\* a junk given to a target continues what it was given
LEMMA AppendType ==
    ASSUME NEW given \in Seq(Nat), NEW bytes \in Seq(Nat)
    PROVE  AppendNew(given, bytes) \in Seq(Nat)
<1>1. CASE bytes = <<>>
  BY <1>1 DEF AppendNew
<1>2. CASE bytes # <<>>
  <2>1. Tail(bytes) \in Seq(Nat)
    BY <1>2, HeadTailProperties
  <2>. QED  BY <2>1 DEF AppendNew
<1>. QED  BY <1>1, <1>2

LEMMA FirstNType ==
    ASSUME NEW n \in Nat
    PROVE  /\ FirstN(n) \in Seq(Nat) /\ Len(FirstN(n)) = n
           /\ \A k \in 1 .. n : FirstN(n)[k] = k
BY DEF FirstN

LEMMA IsFirstN ==
    ASSUME NEW n \in Nat, NEW s \in Seq(Nat), Len(s) = n, \A k \in 1 .. n : s[k] = k
    PROVE  s = FirstN(n)
BY LenProperties DEF FirstN

LEMMA RunContinued ==
    ASSUME NEW g \in Nat, NEW bytes \in Seq(Nat), \A k \in 1 .. Len(bytes) : bytes[k] = g + k
    PROVE  FirstN(g) \o bytes = FirstN(g + Len(bytes))
<1>. DEFINE given == FirstN(g)
            all == given \o bytes
            t == Len(bytes)
<1>1. /\ given \in Seq(Nat) /\ Len(given) = g /\ t \in Nat
      /\ \A k \in 1 .. g : given[k] = k
      /\ \A k \in 1 .. t : bytes[k] = g + k
  BY FirstNType, LenProperties
<1>. HIDE DEF given
<1>2. /\ all \in Seq(Nat) /\ Len(all) = g + t
      /\ \A k \in 1 .. g + t : all[k] = IF k <= g THEN given[k] ELSE bytes[k - g]
  BY <1>1, ConcatProperties
<1>. HIDE DEF all, t
<1>3. \A k \in 1 .. g + t : all[k] = k
  <2>. SUFFICES ASSUME NEW k \in 1 .. g + t PROVE all[k] = k
    OBVIOUS
  <2>1. CASE k <= g
    BY <1>1, <1>2, <2>1
  <2>2. CASE k > g
    <3>1. k - g \in 1 .. t /\ g + (k - g) = k
      BY <1>1, <2>2
    <3>2. bytes[k - g] = g + (k - g)
      BY <1>1, <3>1
    <3>3. all[k] = bytes[k - g]
      BY <1>2, <2>2
    <3>. QED  BY <3>1, <3>2, <3>3
  <2>. QED  BY <1>1, <2>1, <2>2
<1>4. g + t \in Nat
  BY <1>1
<1>5. all = FirstN(g + t)
  BY <1>2, <1>3, <1>4, IsFirstN
<1>. QED  BY <1>5 DEF all, given, t

LEMMA AppendSame ==
    ASSUME NEW g \in Nat, NEW bytes \in Seq(Nat), \A k \in 1 .. Len(bytes) : bytes[k] = g + k
    PROVE  AppendNew(FirstN(g), bytes) = FirstN(g + Len(bytes))
<1>. DEFINE given == FirstN(g)
<1>1. /\ given \in Seq(Nat) /\ Len(given) = g
      /\ \A k \in 1 .. g : given[k] = k
  BY FirstNType
<1>. HIDE DEF given
<1>2. ~ (given # <<>> /\ bytes # <<>> /\ given[Len(given)] = bytes[1])
  <2>. SUFFICES ASSUME given # <<>>, bytes # <<>> PROVE given[Len(given)] # bytes[1]
    OBVIOUS
  <2>1. g > 0 /\ Len(bytes) \in Nat /\ Len(bytes) > 0
    BY <1>1, EmptySeq, LenProperties
  <2>2. given[g] = g /\ bytes[1] = g + 1
    BY <1>1, <2>1
  <2>. QED  BY <1>1, <2>2
<1>3. AppendNew(given, bytes) = given \o bytes
  BY <1>2 DEF AppendNew
<1>. QED  BY <1>3, RunContinued DEF given

\* also when the target has had the first of the bytes before
LEMMA AppendCells ==
    ASSUME NEW g \in Nat, NEW h \in {g, g + 1}, NEW w \in Nat, NEW t \in {w, w + 1},
           NEW bytes \in Seq(Nat), Len(bytes) = t, \A k \in 1 .. t : bytes[k] = g + k
    PROVE  AppendNew(FirstN(h), bytes) \in {FirstN(g + w), FirstN(g + w + 1)}
<1>. DEFINE given == FirstN(h)
            all == AppendNew(given, bytes)
<1>1. /\ given \in Seq(Nat) /\ Len(given) = h /\ h \in Nat /\ t \in Nat
      /\ \A k \in 1 .. h : given[k] = k
  BY FirstNType
<1>. HIDE DEF given
<1>2. CASE h = g + 1 /\ t > 0
  <2>1. bytes # <<>> /\ given # <<>> /\ bytes[1] = g + 1 /\ given[Len(given)] = g + 1
    BY <1>1, <1>2
  <2>2. all = given \o Tail(bytes)
    BY <2>1 DEF AppendNew
  <2>3. /\ Tail(bytes) \in Seq(Nat) /\ Len(Tail(bytes)) = t - 1
        /\ \A k \in 1 .. t - 1 : Tail(bytes)[k] = bytes[k + 1]
    BY <1>1, <2>1, HeadTailProperties
  <2>4. /\ all \in Seq(Nat) /\ Len(all) = g + t
        /\ \A k \in 1 .. g + t : all[k] = IF k <= h THEN given[k] ELSE Tail(bytes)[k - h]
    <3>1. Len(given) + Len(Tail(bytes)) = g + t
      BY <1>1, <1>2, <2>3
    <3>2. /\ given \o Tail(bytes) \in Seq(Nat)
          /\ Len(given \o Tail(bytes)) = Len(given) + Len(Tail(bytes))
          /\ \A k \in 1 .. Len(given) + Len(Tail(bytes)) :
                (given \o Tail(bytes))[k] = IF k <= Len(given) THEN given[k]
                                            ELSE Tail(bytes)[k - Len(given)]
      BY <1>1, <2>3, ConcatProperties
    <3>. QED  BY <1>1, <2>2, <3>1, <3>2
  <2>. HIDE DEF all
  <2>5. \A k \in 1 .. g + t : all[k] = k
    <3>. SUFFICES ASSUME NEW k \in 1 .. g + t PROVE all[k] = k
      OBVIOUS
    <3>1. CASE k <= h
      BY <1>1, <2>4, <3>1
    <3>2. CASE k > h
      <4>1. k - h \in 1 .. t - 1 /\ k - h + 1 \in 1 .. t /\ g + (k - h + 1) = k
        BY <1>1, <1>2, <3>2
      <4>2. all[k] = bytes[k - h + 1]
        BY <1>1, <2>3, <2>4, <3>2, <4>1
      <4>. QED  BY <4>1, <4>2
    <3>. QED  BY <1>1, <3>1, <3>2
  <2>6. all = FirstN(g + t)
    BY <1>1, <2>4, <2>5, IsFirstN
  <2>. QED  BY <2>6 DEF all, given
<1>3. CASE h = g + 1 /\ t = 0
  <2>1. bytes = <<>> /\ w = 0
    BY <1>1, <1>3, EmptySeq
  <2>2. all = given
    BY <1>1, <2>1, ConcatEmptySeq DEF AppendNew
  <2>. QED  BY <1>3, <2>1, <2>2 DEF given
<1>4. CASE h = g
  <2>1. AppendNew(FirstN(g), bytes) = FirstN(g + t)
    BY <1>1, AppendSame
  <2>2. g + t = g + w \/ g + t = g + w + 1
    OBVIOUS
  <2>. QED  BY <1>4, <2>1, <2>2
<1>. QED  BY <1>1, <1>2, <1>3, <1>4

(***************************************************************************)
(* Types.                                                                  *)
(***************************************************************************)

LEMMA RingsAre ==
    ASSUME TypeOK
    PROVE  /\ \A d \in Devices : fifo[d] \in Ring(Capacity) /\ room[d] \in Nat
                                 /\ arrived[d] \in Nat
           /\ \A d \in Uarts : rxFifo[d] \in Ring(RxSize)
           /\ \A d \in Usb : usbRx[d] \in Seq(Nat)
           /\ \A d \in Devices, t \in Devices : sent[d][t] \in Seq(Nat)
BY Sizes DEF TypeOK

LEMMA AvailableIs ==
    ASSUME TypeOK, NEW d \in Devices
    PROVE  DataAvailable(d) \in Nat
<1>1. CASE d \in Usb
  BY <1>1, RingsAre, LenProperties DEF DataAvailable
<1>2. CASE d \notin Usb
  <2>1. d \in Uarts
    BY <1>2 DEF Uarts
  <2>. QED  BY <1>2, <2>1, RingsAre, CountFits, Sizes DEF DataAvailable
<1>. QED  BY <1>1, <1>2

LEMMA ReceivedIs ==
    ASSUME TypeOK, NEW d \in Devices
    PROVE  LET m == Smaller(DataAvailable(d), Junk)
           IN  /\ m \in Nat /\ m <= DataAvailable(d) /\ m <= Junk
               /\ Received(d) \in Seq(Nat) /\ Len(Received(d)) = m
               /\ \A k \in 1 .. m : Received(d)[k] = InDevice(d, k)
<1>. DEFINE m == Smaller(DataAvailable(d), Junk)
<1>1. m \in Nat /\ m <= DataAvailable(d) /\ m <= Junk /\ DataAvailable(d) \in Nat
  BY AvailableIs, SmallerIs, Sizes
<1>2. CASE d \in Usb
  <2>1. usbRx[d] \in Seq(Nat) /\ DataAvailable(d) = Len(usbRx[d])
    BY <1>2, RingsAre DEF DataAvailable
  <2>2. Smaller(Junk, Len(usbRx[d])) = m
    BY <1>1, <2>1, Sizes DEF Smaller
  <2>3. \A i \in 1 .. m : usbRx[d][i] \in Nat
    <3>1. \A i \in 1 .. Len(usbRx[d]) : usbRx[d][i] \in Nat
      BY <2>1, ElementOfSeq
    <3>. HIDE DEF m
    <3>. QED  BY <1>1, <2>1, <3>1
  <2>4. Received(d) = SubSeq(usbRx[d], 1, m)
    BY <1>2, <2>2 DEF Received
  <2>. HIDE DEF m
  <2>5. /\ SubSeq(usbRx[d], 1, m) \in Seq(Nat)
        /\ Len(SubSeq(usbRx[d], 1, m)) = IF 1 <= m THEN m - 1 + 1 ELSE 0
        /\ \A i \in 1 .. m - 1 + 1 : SubSeq(usbRx[d], 1, m)[i] = usbRx[d][1 + i - 1]
    BY <1>1, <2>3, SubSeqProperties
  <2>6. Received(d) \in Seq(Nat) /\ Len(Received(d)) = m
    BY <1>1, <2>4, <2>5
  <2>7. \A k \in 1 .. m : Received(d)[k] = InDevice(d, k)
    BY <1>1, <1>2, <2>4, <2>5 DEF InDevice
  <2>. QED  BY <1>1, <2>6, <2>7 DEF m
<1>3. CASE d \notin Usb
  <2>1. d \in Uarts /\ DataAvailable(d) = Count(rxFifo[d])
    BY <1>3 DEF Uarts, DataAvailable
  <2>2. rxFifo[d] \in Ring(RxSize)
    BY <2>1, RingsAre
  <2>3. Received(d) = PeekAvailable(rxFifo[d], Junk)
    BY <1>3 DEF Received
  <2>4. m = Smaller(Count(rxFifo[d]), Junk)
    BY <2>1
  <2>. HIDE DEF m
  <2>5. /\ PeekAvailable(rxFifo[d], Junk) \in Seq(Nat)
        /\ Len(PeekAvailable(rxFifo[d], Junk)) = m
        /\ \A k \in 1 .. m : PeekAvailable(rxFifo[d], Junk)[k] = Cell(rxFifo[d], k)
    BY <2>2, <2>4, PeekCells, Sizes, ZenonT(60)
  <2>6. \A k \in 1 .. m : Received(d)[k] = InDevice(d, k)
    BY <1>3, <2>3, <2>5 DEF InDevice
  <2>7. Received(d) \in Seq(Nat) /\ Len(Received(d)) = m
    BY <2>3, <2>5
  <2>. QED  BY <1>1, <2>6, <2>7 DEF m
<1>. QED  BY <1>2, <1>3

\* what a router moves fits into its ring
LEMMA JunkFits ==
    ASSUME TypeOK, NEW d \in Devices, TakesJunk(d)
    PROVE  LET g == WriteAvailable(fifo[d], Received(d))
               m == Smaller(DataAvailable(d), Junk)
           IN  /\ g \in Ring(Capacity) /\ Count(g) = Count(fifo[d]) + m
               /\ \A k \in 1 .. Count(fifo[d]) : Cell(g, k) = Cell(fifo[d], k)
               /\ \A k \in 1 .. m : Cell(g, Count(fifo[d]) + k) = InDevice(d, k)
<1>. DEFINE m == Smaller(DataAvailable(d), Junk)
            g == WriteAvailable(fifo[d], Received(d))
<1>1. /\ m \in Nat /\ m <= Junk /\ Received(d) \in Seq(Nat) /\ Len(Received(d)) = m
      /\ \A k \in 1 .. m : Received(d)[k] = InDevice(d, k)
  BY ReceivedIs
<1>2. fifo[d] \in Ring(Capacity)
  BY RingsAre
<1>3. Count(fifo[d]) \in Nat
  BY <1>2, CountFits, Sizes
<1>. HIDE DEF m
<1>4. Count(fifo[d]) + Len(Received(d)) < Capacity
  BY <1>1, <1>3, Sizes DEF TakesJunk
<1>5. /\ g \in Ring(Capacity) /\ Count(g) = Count(fifo[d]) + Len(Received(d))
      /\ \A k \in 1 .. Count(fifo[d]) : Cell(g, k) = Cell(fifo[d], k)
      /\ \A k \in 1 .. Len(Received(d)) : Cell(g, Count(fifo[d]) + k) = Received(d)[k]
  BY <1>1, <1>2, <1>4, WriteCells, Sizes
<1>. QED  BY <1>1, <1>5 DEF m

LEMMA OfferedIs ==
    ASSUME TypeOK, NEW d \in Devices
    PROVE  LET offered == PeekAvailable(fifo[d], Junk)
           IN  /\ offered \in Seq(Nat) /\ Len(offered) \in Nat /\ Len(offered) <= Count(fifo[d])
               /\ \A k \in 1 .. Len(offered) : offered[k] = Cell(fifo[d], k)
<1>1. fifo[d] \in Ring(Capacity) /\ Smaller(Count(fifo[d]), Junk) = Smaller(Count(fifo[d]), Junk)
  BY RingsAre
<1>. QED  BY <1>1, PeekCells, Sizes

\* the first bytes of what was offered
LEMMA FirstBytes ==
    ASSUME NEW offered \in Seq(Nat), NEW t \in Nat, t <= Len(offered)
    PROVE  /\ SubSeq(offered, 1, t) \in Seq(Nat) /\ Len(SubSeq(offered, 1, t)) = t
           /\ \A k \in 1 .. t : SubSeq(offered, 1, t)[k] = offered[k]
<1>1. \A i \in 1 .. t : offered[i] \in Nat
  BY ElementOfSeq, LenProperties
<1>2. /\ SubSeq(offered, 1, t) \in Seq(Nat)
      /\ Len(SubSeq(offered, 1, t)) = IF 1 <= t THEN t - 1 + 1 ELSE 0
      /\ \A i \in 1 .. t - 1 + 1 : SubSeq(offered, 1, t)[i] = offered[1 + i - 1]
  BY <1>1, SubSeqProperties
<1>. QED  BY <1>2

TypeInv == TypeOK /\ AtInv

LEMMA TypesInit ==
    ASSUME Init
    PROVE  TypeInv
<1>1. \A d \in Uarts : New(RxSize, 0) \in Ring(RxSize)
  BY NewRing, Sizes
<1>2. \A d \in Devices : New(Capacity, 0) \in Ring(Capacity)
  BY NewRing, Sizes
<1>3. 1 \in Order /\ Len(Served) \in Nat /\ Len(Served) > 0
  BY Orders DEF Order
<1>4. Registered[1] \in Devices
  BY <1>3, Orders
<1>5. at \in {"signal", "receive", "return", "usb", "route"} \X (0 .. Len(Served)) /\ at[2] = 1
  BY <1>3 DEF Init
<1>6. rxFifo \in [Uarts -> Ring(RxSize)] /\ fifo \in [Devices -> Ring(Capacity)]
  BY <1>1, <1>2 DEF Init
<1>7. room \in [Devices -> 0 .. TxSize] /\ arrived \in [Devices -> Nat]
  BY Sizes DEF Init
<1>8. usbRx \in [Usb -> Seq(Nat)] /\ sent \in [Devices -> [Devices -> Seq(Nat)]]
  BY DEF Init
<1>9. /\ serving \in Devices /\ dataInQueue \in BOOLEAN
      /\ execute \subseteq Devices /\ overrun \subseteq Uarts
  BY <1>4 DEF Init
<1>. QED  BY <1>3, <1>5, <1>6, <1>7, <1>8, <1>9 DEF TypeInv, TypeOK, AtInv

\* where the loop goes next
LEMMA NextTaskIs ==
    ASSUME NEW i \in Order
    PROVE  /\ NextTask(i) \in {"signal", "receive", "return", "usb", "route"} \X (0 .. Len(Served))
           /\ NextTask(i)[1] \in {"signal", "usb"}
           /\ NextTask(i)[1] = "signal" => NextTask(i)[2] \in Order
<1>1. Len(Served) \in Nat /\ Len(Registered) = Len(Served) /\ i \in Nat /\ i >= 1 /\ i <= Len(Served)
  BY Orders DEF Order
<1>2. CASE i < Len(Registered)
  <2>1. NextTask(i) = <<"signal", i + 1>> /\ i + 1 \in Order /\ i + 1 \in 0 .. Len(Served)
    BY <1>1, <1>2 DEF NextTask, Order
  <2>. QED  BY <2>1
<1>3. CASE ~ (i < Len(Registered))
  <2>1. NextTask(i) = <<"usb", 0>> /\ 0 \in 0 .. Len(Served)
    BY <1>1, <1>3 DEF NextTask
  <2>. QED  BY <2>1
<1>. QED  BY <1>2, <1>3

LEMMA ServedIs ==
    ASSUME AtInv, at[1] \in {"signal", "receive", "route"}
    PROVE  /\ at[2] \in Order /\ at[2] \in Nat /\ at[2] >= 1 /\ at[2] <= Len(Served)
           /\ Served[at[2]] \in Devices /\ Registered[at[2]] \in Devices
<1>1. at[2] \in Order /\ Len(Served) \in Nat
  BY Orders DEF AtInv
<1>. QED  BY <1>1, Orders DEF Order

LEMMA SkipTypes ==
    ASSUME TypeInv, SkipUnflagged
    PROVE  TypeInv'
<1>1. NextTask(at[2]) \in {"signal", "receive", "return", "usb", "route"} \X (0 .. Len(Served))
      /\ NextTask(at[2])[1] \in {"signal", "usb"}
      /\ (NextTask(at[2])[1] = "signal" => NextTask(at[2])[2] \in Order)
  BY ServedIs, NextTaskIs DEF TypeInv, SkipUnflagged
<1>2. at' = NextTask(at[2])
  BY DEF SkipUnflagged
<1>3. TypeOK'
  BY <1>1, <1>2 DEF TypeInv, TypeOK, SkipUnflagged
<1>4. AtInv'
  BY <1>1, <1>2 DEF AtInv
<1>. QED  BY <1>3, <1>4 DEF TypeInv

LEMMA StartTypes ==
    ASSUME TypeInv, StartSignalTask
    PROVE  TypeInv'
<1>1. Registered[at[2]] \in Devices
  BY ServedIs DEF TypeInv, StartSignalTask
<1>2. 1 \in Order /\ 1 \in 0 .. Len(Served)
  BY Orders DEF Order
<1>3. at' = <<"receive", 1>>
  BY DEF StartSignalTask
<1>4. at' \in {"signal", "receive", "return", "usb", "route"} \X (0 .. Len(Served))
  BY <1>2, <1>3
<1>5. TypeOK'
  BY <1>1, <1>4 DEF TypeInv, TypeOK, StartSignalTask
<1>6. AtInv'
  BY <1>2, <1>3 DEF AtInv
<1>. QED  BY <1>5, <1>6 DEF TypeInv

\* a junk leaves the device
LEMMA ReceiveTypes ==
    ASSUME TypeOK, NEW d \in Devices, Receive(d)
    PROVE  rxFifo' \in [Uarts -> Ring(RxSize)] /\ usbRx' \in [Usb -> Seq(Nat)]
<1>1. CASE d \in Usb
  <2>1. SubSeq(usbRx[d], Junk + 1, Len(usbRx[d])) \in Seq(Nat)
    <3>1. usbRx[d] \in Seq(Nat)
      BY <1>1, RingsAre
    <3>2. Len(usbRx[d]) \in Int /\ Junk + 1 \in Int
          /\ \A i \in Junk + 1 .. Len(usbRx[d]) : usbRx[d][i] \in Nat
      BY <3>1, LenProperties, ElementOfSeq, Sizes
    <3>. QED  BY <3>2, SubSeqProperties
  <2>. QED  BY <1>1, <2>1 DEF TypeOK, Receive
<1>2. CASE d \notin Usb
  <2>1. d \in Uarts
    BY <1>2 DEF Uarts
  <2>2. AfterRead(rxFifo[d], Junk) \in Ring(RxSize)
    <3>1. rxFifo[d] \in Ring(RxSize)
      BY <2>1, RingsAre
    <3>. QED  BY <3>1, RemoveIs, Sizes DEF AfterRead
  <2>. QED  BY <1>2, <2>1, <2>2 DEF TypeOK, Receive
<1>. QED  BY <1>1, <1>2

LEMMA MoveTypes ==
    ASSUME TypeInv, MoveJunk
    PROVE  TypeInv'
<1>. DEFINE d == Served[at[2]]
<1>1. /\ at[2] \in Nat /\ at[2] >= 1 /\ at[2] <= Len(Served) /\ d \in Devices
      /\ Len(Served) \in Nat
  BY ServedIs, Orders DEF TypeInv, MoveJunk
<1>2. \/ at' = <<"receive", at[2] + 1>> /\ at[2] + 1 <= Len(Served)
      \/ at' = <<"return", 0>>
  BY <1>1 DEF MoveJunk
<1>3. at' \in {"signal", "receive", "return", "usb", "route"} \X (0 .. Len(Served)) /\ AtInv'
  <2>1. CASE at' = <<"receive", at[2] + 1>> /\ at[2] + 1 <= Len(Served)
    <3>1. at[2] + 1 \in 0 .. Len(Served) /\ at[2] + 1 \in Order
      BY <1>1, <2>1 DEF Order
    <3>. QED  BY <2>1, <3>1 DEF AtInv
  <2>2. CASE at' = <<"return", 0>>
    BY <1>1, <2>2 DEF AtInv
  <2>. QED  BY <1>2, <2>1, <2>2
<1>4. fifo' \in [Devices -> Ring(Capacity)]
  <2>1. CASE DataAvailable(d) > 0 /\ TakesJunk(d)
    <3>1. WriteAvailable(fifo[d], Received(d)) \in Ring(Capacity)
      BY <1>1, <2>1, JunkFits DEF TypeInv
    <3>2. fifo' = [fifo EXCEPT ![d] = WriteAvailable(@, Received(d))]
      BY <2>1 DEF MoveJunk
    <3>3. fifo \in [Devices -> Ring(Capacity)]
      BY DEF TypeInv, TypeOK
    <3>. HIDE DEF d
    <3>. QED  BY <1>1, <3>1, <3>2, <3>3
  <2>2. CASE ~ (DataAvailable(d) > 0 /\ TakesJunk(d))
    BY <2>2 DEF MoveJunk, TypeInv, TypeOK
  <2>. QED  BY <2>1, <2>2
<1>5. rxFifo' \in [Uarts -> Ring(RxSize)] /\ usbRx' \in [Usb -> Seq(Nat)]
  <2>1. CASE DataAvailable(d) > 0 /\ TakesJunk(d)
    <3>1. Receive(d)
      BY <2>1 DEF MoveJunk
    <3>. QED  BY <1>1, <3>1, ReceiveTypes DEF TypeInv
  <2>2. CASE ~ (DataAvailable(d) > 0 /\ TakesJunk(d))
    BY <2>2 DEF MoveJunk, TypeInv, TypeOK
  <2>. QED  BY <2>1, <2>2
<1>6. dataInQueue' \in BOOLEAN
  BY DEF MoveJunk, TypeInv, TypeOK
<1>7. UNCHANGED <<serving, execute, room, arrived, sent, overrun>>
  BY DEF MoveJunk
<1>. QED  BY <1>3, <1>4, <1>5, <1>6, <1>7 DEF TypeInv, TypeOK

LEMMA ReturnTypes ==
    ASSUME TypeInv, ReturnSignalTask
    PROVE  TypeInv'
<1>. DEFINE i == CHOOSE k \in Order : Registered[k] = serving
<1>1. i \in Order
  <2>1. serving \in Devices
    BY DEF TypeInv, TypeOK
  <2>. QED  BY <2>1, Orders
<1>2. at' = NextTask(i)
  BY DEF ReturnSignalTask
<1>. HIDE DEF i
<1>3. NextTask(i) \in {"signal", "receive", "return", "usb", "route"} \X (0 .. Len(Served))
      /\ NextTask(i)[1] \in {"signal", "usb"}
      /\ (NextTask(i)[1] = "signal" => NextTask(i)[2] \in Order)
  BY <1>1, NextTaskIs
<1>4. TypeOK'
  BY <1>2, <1>3 DEF TypeInv, TypeOK, ReturnSignalTask
<1>5. AtInv'
  BY <1>2, <1>3 DEF AtInv
<1>. QED  BY <1>4, <1>5 DEF TypeInv

LEMMA WorkerTypes ==
    ASSUME TypeInv, UsbWorker
    PROVE  TypeInv'
<1>1. PICK new \in [Usb -> 0 .. UsbSize] :
         /\ usbRx' = [d \in Usb |-> usbRx[d] \o [k \in 1 .. new[d] |-> arrived[d] + k]]
         /\ arrived' = [d \in Devices |-> IF d \in Usb THEN arrived[d] + new[d] ELSE arrived[d]]
  BY DEF UsbWorker
<1>2. at' = <<"route", 1>> /\ 1 \in Order /\ 1 \in 0 .. Len(Served)
  BY Orders DEF UsbWorker, Order
<1>3. at' \in {"signal", "receive", "return", "usb", "route"} \X (0 .. Len(Served)) /\ AtInv'
  BY <1>2 DEF AtInv
<1>4. \A d \in Usb : d \in Devices /\ new[d] \in Nat /\ arrived[d] \in Nat
  BY Sizes, RouterAssumption DEF TypeInv, TypeOK
<1>5. \A d \in Usb : usbRx[d] \o [k \in 1 .. new[d] |-> arrived[d] + k] \in Seq(Nat)
  <2>. SUFFICES ASSUME NEW d \in Usb
                PROVE  usbRx[d] \o [k \in 1 .. new[d] |-> arrived[d] + k] \in Seq(Nat)
    OBVIOUS
  <2>1. [k \in 1 .. new[d] |-> arrived[d] + k] \in Seq(Nat) /\ usbRx[d] \in Seq(Nat)
    BY <1>4, RingsAre DEF TypeInv
  <2>. QED  BY <2>1, ConcatProperties
<1>6. usbRx' \in [Usb -> Seq(Nat)]
  BY <1>1, <1>5
<1>7. arrived' \in [Devices -> Nat]
  BY <1>1, <1>4 DEF TypeInv, TypeOK
<1>8. execute' \subseteq Devices
  BY RouterAssumption DEF UsbWorker, Triggered, TypeInv, TypeOK
<1>9. UNCHANGED <<serving, dataInQueue, rxFifo, fifo, room, sent, overrun>>
  BY DEF UsbWorker
<1>. QED  BY <1>3, <1>6, <1>7, <1>8, <1>9 DEF TypeInv, TypeOK

\* what each target takes of what one ring offers
Took(d, n) ==
    [t \in Devices |-> IF \E j \in 1 .. Len(Targets[d]) : Targets[d][j] = t
                       THEN Takes(d, n, CHOOSE j \in 1 .. Len(Targets[d]) : Targets[d][j] = t)
                       ELSE 0]

LEMMA TookIs ==
    ASSUME room \in [Devices -> 0 .. TxSize], NEW d \in Devices, NEW n \in Nat
    PROVE  /\ \A t \in Devices : Took(d, n)[t] \in Nat /\ Took(d, n)[t] <= n
                                 /\ Took(d, n)[t] <= room[t]
           /\ \A j \in 1 .. Len(Targets[d]) : Took(d, n)[Targets[d][j]] = Takes(d, n, j)
<1>1. ASSUME NEW t \in Devices
      PROVE  Took(d, n)[t] \in Nat /\ Took(d, n)[t] <= n /\ Took(d, n)[t] <= room[t]
  <2>1. CASE \E j \in 1 .. Len(Targets[d]) : Targets[d][j] = t
    <3>. DEFINE j == CHOOSE j \in 1 .. Len(Targets[d]) : Targets[d][j] = t
    <3>1. j \in 1 .. Len(Targets[d]) /\ Targets[d][j] = t
      BY <2>1
    <3>2. Took(d, n)[t] = Takes(d, n, j)
      BY <2>1 DEF Took
    <3>. HIDE DEF j
    <3>3. /\ Takes(d, n, j) \in Nat /\ Takes(d, n, j) <= n
          /\ Takes(d, n, j) <= room[Targets[d][j]]
      BY <3>1, TakesIs
    <3>. QED  BY <3>1, <3>2, <3>3
  <2>2. CASE ~ \E j \in 1 .. Len(Targets[d]) : Targets[d][j] = t
    <3>1. Took(d, n)[t] = 0 /\ room[t] \in 0 .. TxSize
      BY <2>2 DEF Took
    <3>. QED  BY <3>1, Sizes
  <2>. QED  BY <2>1, <2>2
<1>2. ASSUME NEW j \in 1 .. Len(Targets[d])
      PROVE  Took(d, n)[Targets[d][j]] = Takes(d, n, j)
  <2>1. Targets[d][j] \in Devices
    BY TargetsAre
  <2>2. (CHOOSE i \in 1 .. Len(Targets[d]) : Targets[d][i] = Targets[d][j]) = j
    BY TargetsAre
  <2>3. Took(d, n)[Targets[d][j]]
          = Takes(d, n, CHOOSE i \in 1 .. Len(Targets[d]) : Targets[d][i] = Targets[d][j])
    BY <2>1 DEF Took
  <2>. QED  BY <2>2, <2>3
<1>. QED  BY <1>1, <1>2

\* a step of the regular task, with its LETs named
LEMMA RouteIs ==
    ASSUME RouteJunk, NEW d, d = Served[at[2]],
           NEW offered, offered = PeekAvailable(fifo[d], Junk)
    PROVE  /\ fifo' = [fifo EXCEPT ![d] = Remove(@, Written(d, Len(offered)))]
           /\ room' = [t \in Devices |-> room[t] - Took(d, Len(offered))[t]]
           /\ sent' = [sent EXCEPT ![d] =
                 [t \in Devices |-> AppendNew(@[t], SubSeq(offered, 1, Took(d, Len(offered))[t]))]]
BY DEF RouteJunk, Took

LEMMA RouteTypes ==
    ASSUME TypeInv, RouteJunk
    PROVE  TypeInv'
<1>1. PICK d \in Devices : d = Served[at[2]]
  BY ServedIs DEF TypeInv, RouteJunk
<1>2. /\ at[2] \in Nat /\ at[2] >= 1 /\ at[2] <= Len(Served) /\ Len(Served) \in Nat
  BY ServedIs, Orders DEF TypeInv, RouteJunk
<1>3. PICK offered \in Seq(Nat) : offered = PeekAvailable(fifo[d], Junk)
  BY OfferedIs DEF TypeInv
<1>4. PICK n \in Nat : n = Len(offered)
  BY LenProperties
<1>5. /\ fifo' = [fifo EXCEPT ![d] = Remove(@, Written(d, n))]
      /\ room' = [t \in Devices |-> room[t] - Took(d, n)[t]]
      /\ sent' = [sent EXCEPT ![d] =
            [t \in Devices |-> AppendNew(@[t], SubSeq(offered, 1, Took(d, n)[t]))]]
  BY <1>1, <1>3, <1>4, RouteIs
<1>6. room \in [Devices -> 0 .. TxSize]
  BY DEF TypeInv, TypeOK
<1>7. \A t \in Devices : Took(d, n)[t] \in Nat /\ Took(d, n)[t] <= n /\ Took(d, n)[t] <= room[t]
  BY <1>6, TookIs
<1>8. room' \in [Devices -> 0 .. TxSize]
  <2>1. \A t \in Devices : room[t] \in 0 .. TxSize /\ room[t] - Took(d, n)[t] \in 0 .. TxSize
    BY <1>6, <1>7, Sizes
  <2>. QED  BY <1>5, <2>1
<1>9. fifo' \in [Devices -> Ring(Capacity)]
  <2>1. Len(Targets[d]) \in 1 .. Len(Targets[d])
    BY TargetsAre
  <2>2. Written(d, n) \in Nat
    BY <1>6, <2>1, TakesKeepStep
  <2>3. Remove(fifo[d], Written(d, n)) \in Ring(Capacity)
    BY <2>2, RingsAre, RemoveIs, Sizes DEF TypeInv
  <2>. QED  BY <1>5, <2>3 DEF TypeInv, TypeOK
<1>10. sent' \in [Devices -> [Devices -> Seq(Nat)]]
  <2>1. \A t \in Devices : AppendNew(sent[d][t], SubSeq(offered, 1, Took(d, n)[t])) \in Seq(Nat)
    <3>. SUFFICES ASSUME NEW t \in Devices
                  PROVE  AppendNew(sent[d][t], SubSeq(offered, 1, Took(d, n)[t])) \in Seq(Nat)
      OBVIOUS
    <3>1. SubSeq(offered, 1, Took(d, n)[t]) \in Seq(Nat)
      BY <1>4, <1>7, FirstBytes
    <3>. QED  BY <3>1, RingsAre, AppendType DEF TypeInv
  <2>2. [t \in Devices |-> AppendNew(sent[d][t], SubSeq(offered, 1, Took(d, n)[t]))]
           \in [Devices -> Seq(Nat)]
    BY <2>1
  <2>3. sent \in [Devices -> [Devices -> Seq(Nat)]]
    BY DEF TypeInv, TypeOK
  <2>. QED  BY <1>5, <2>2, <2>3
<1>11. at' \in {"signal", "receive", "return", "usb", "route"} \X (0 .. Len(Served)) /\ AtInv'
  <2>1. \/ at' = <<"route", at[2] + 1>> /\ at[2] + 1 <= Len(Served)
        \/ at' = <<"signal", 1>>
    BY <1>2 DEF RouteJunk
  <2>2. CASE at' = <<"route", at[2] + 1>> /\ at[2] + 1 <= Len(Served)
    <3>1. at[2] + 1 \in 0 .. Len(Served) /\ at[2] + 1 \in Order
      BY <1>2, <2>2 DEF Order
    <3>. QED  BY <2>2, <3>1 DEF AtInv
  <2>3. CASE at' = <<"signal", 1>>
    <3>1. 1 \in 0 .. Len(Served) /\ 1 \in Order
      BY <1>2 DEF Order
    <3>. QED  BY <2>3, <3>1 DEF AtInv
  <2>. QED  BY <2>1, <2>2, <2>3
<1>12. UNCHANGED <<serving, dataInQueue, execute, rxFifo, usbRx, arrived, overrun>>
  BY DEF RouteJunk
<1>. QED  BY <1>8, <1>9, <1>10, <1>11, <1>12 DEF TypeInv, TypeOK

LEMMA IRQTypes ==
    ASSUME TypeInv, NEW d \in Devices, HandleIRQ(d)
    PROVE  TypeInv'
<1>1. d \in Uarts /\ rxFifo[d] \in Ring(RxSize) /\ arrived[d] + 1 \in Nat
  BY RingsAre DEF TypeInv, HandleIRQ
<1>2. Push(rxFifo[d], arrived[d] + 1) \in Ring(RxSize)
  BY <1>1, PushIs, Sizes
<1>3. rxFifo' \in [Uarts -> Ring(RxSize)] /\ arrived' \in [Devices -> Nat]
  BY <1>1, <1>2 DEF TypeInv, TypeOK, HandleIRQ
<1>4. execute' \subseteq Devices /\ overrun' \subseteq Uarts
  BY <1>1 DEF TypeInv, TypeOK, HandleIRQ
<1>5. UNCHANGED <<at, serving, dataInQueue, usbRx, fifo, room, sent>>
  BY DEF HandleIRQ
<1>. QED  BY <1>3, <1>4, <1>5 DEF TypeInv, TypeOK, AtInv

LEMMA DrainTypes ==
    ASSUME TypeInv, NEW d \in Devices, Drain(d)
    PROVE  TypeInv'
<1>1. room' \in [Devices -> 0 .. TxSize]
  BY Sizes DEF TypeInv, TypeOK, Drain
<1>2. UNCHANGED <<at, serving, dataInQueue, execute, rxFifo, usbRx, fifo, arrived, sent, overrun>>
  BY DEF Drain
<1>. QED  BY <1>1, <1>2 DEF TypeInv, TypeOK, AtInv

LEMMA TypesStep ==
    ASSUME TypeInv, [Next]_vars
    PROVE  TypeInv'
<1>1. CASE Loop
  BY <1>1, SkipTypes, StartTypes, MoveTypes, ReturnTypes, WorkerTypes, RouteTypes DEF Loop
<1>2. CASE \E d \in Devices : HandleIRQ(d) \/ Drain(d)
  BY <1>2, IRQTypes, DrainTypes
<1>3. CASE UNCHANGED vars
  BY <1>3 DEF TypeInv, TypeOK, AtInv, vars
<1>. QED  BY <1>1, <1>2, <1>3 DEF Next

(* Every ring, buffer and place of the loop keeps its type: the signal task   *)
(* and the regular task never serve a place behind the last device, and no    *)
(* target is given more than it has room for.                                 *)
THEOREM RouterTypes == Spec => []TypeOK
<1>1. Init => TypeInv
  BY TypesInit
<1>2. TypeInv /\ [Next]_vars => TypeInv'
  BY TypesStep
<1>3. TypeInv => TypeOK
  BY DEF TypeInv
<1>. QED  BY <1>1, <1>2, <1>3, PTL DEF Spec

(***************************************************************************)
(* The flow of the bytes.                                                  *)
(***************************************************************************)

LEMMA FlowInit ==
    ASSUME Init
    PROVE  FlowInv
<1>. SUFFICES ASSUME NEW d \in Devices PROVE Flow(d)
  BY DEF FlowInv
<1>1. LastTarget(d) \in Devices /\ \A j \in 1 .. Len(Targets[d]) : Targets[d][j] \in Devices
  BY TargetsAre
<1>2. Given(d) = 0 /\ \A j \in 1 .. Len(Targets[d]) : sent[d][Targets[d][j]] = <<>>
  BY <1>1 DEF Init, Given
<1>3. Count(fifo[d]) = 0
  BY NewRing, Sizes DEF Init
<1>4. DataAvailable(d) = 0
  <2>1. CASE d \in Usb
    BY <2>1 DEF DataAvailable, Init
  <2>2. CASE d \notin Usb
    BY <2>2, NewRing, Sizes DEF DataAvailable, Init, Uarts
  <2>. QED  BY <2>1, <2>2
<1>5. arrived[d] = 0
  BY DEF Init
<1>6. <<>> = FirstN(0)
  BY DEF FirstN
<1>7. 1 .. 0 = {}
  OBVIOUS
<1>. QED  BY <1>2, <1>3, <1>4, <1>5, <1>6, <1>7 DEF Flow

LEMMA FlowTypes ==
    ASSUME TypeOK, NEW d \in Devices
    PROVE  /\ Given(d) \in Nat /\ Count(fifo[d]) \in Nat /\ DataAvailable(d) \in Nat
           /\ arrived[d] \in Nat
<1>1. LastTarget(d) \in Devices
  BY TargetsAre
<1>2. sent[d][LastTarget(d)] \in Seq(Nat)
  BY <1>1, RingsAre
<1>3. Given(d) \in Nat
  BY <1>2, LenProperties DEF Given
<1>4. Count(fifo[d]) \in Nat
  BY RingsAre, CountFits, Sizes
<1>. QED  BY <1>3, <1>4, AvailableIs, RingsAre

\* a step that does not touch a device's bytes
LEMMA FlowKept ==
    ASSUME NEW d, Flow(d), sent'[d] = sent[d], fifo'[d] = fifo[d], arrived'[d] = arrived[d],
           rxFifo'[d] = rxFifo[d], usbRx'[d] = usbRx[d]
    PROVE  Flow(d)'
BY DEF Flow, Given, DataAvailable, InDevice

LEMMA ReceiveFlow ==
    ASSUME TypeOK, NEW d \in Devices, Receive(d),
           NEW m, m = Smaller(DataAvailable(d), Junk)
    PROVE  /\ DataAvailable(d)' = DataAvailable(d) - m
           /\ \A k \in 1 .. DataAvailable(d) - m : InDevice(d, k)' = InDevice(d, k + m)
<1>1. m \in Nat /\ m <= DataAvailable(d) /\ m <= Junk /\ DataAvailable(d) \in Nat
  BY AvailableIs, SmallerIs, Sizes
<1>2. CASE d \in Usb
  <2>1. usbRx[d] \in Seq(Nat) /\ DataAvailable(d) = Len(usbRx[d]) /\ Len(usbRx[d]) \in Nat
    BY <1>1, <1>2, RingsAre DEF DataAvailable
  <2>2. usbRx'[d] = SubSeq(usbRx[d], Junk + 1, Len(usbRx[d]))
    <3>1. usbRx' = [usbRx EXCEPT ![d] = SubSeq(@, Junk + 1, Len(@))]
      BY <1>2 DEF Receive
    <3>. QED  BY <1>2, <3>1 DEF TypeOK
  <2>3. \A i \in Junk + 1 .. Len(usbRx[d]) : usbRx[d][i] \in Nat
    BY <2>1, ElementOfSeq, Sizes
  <2>4. /\ Len(SubSeq(usbRx[d], Junk + 1, Len(usbRx[d])))
             = IF Junk + 1 <= Len(usbRx[d]) THEN Len(usbRx[d]) - (Junk + 1) + 1 ELSE 0
        /\ \A i \in 1 .. Len(usbRx[d]) - (Junk + 1) + 1 :
              SubSeq(usbRx[d], Junk + 1, Len(usbRx[d]))[i] = usbRx[d][Junk + 1 + i - 1]
    BY <2>1, <2>3, SubSeqProperties, Sizes
  <2>5. m = IF Len(usbRx[d]) < Junk THEN Len(usbRx[d]) ELSE Junk
    BY <2>1 DEF Smaller
  <2>6. DataAvailable(d)' = Len(usbRx'[d])
    BY <1>2 DEF DataAvailable
  <2>7. DataAvailable(d)' = DataAvailable(d) - m
    <3>1. DataAvailable(d)' = IF Junk + 1 <= Len(usbRx[d])
                              THEN Len(usbRx[d]) - (Junk + 1) + 1 ELSE 0
      BY <2>2, <2>4, <2>6
    <3>. QED  BY <2>1, <2>5, <3>1, Sizes
  <2>8. ASSUME NEW k \in 1 .. DataAvailable(d) - m
        PROVE  InDevice(d, k)' = InDevice(d, k + m)
    <3>1. Junk = m /\ k \in 1 .. Len(usbRx[d]) - (Junk + 1) + 1 /\ Junk + 1 + k - 1 = k + m
      <4>1. m = Junk
        BY <1>1, <2>1, <2>5, Sizes
      <4>. QED  BY <1>1, <2>1, <4>1, Sizes
    <3>2. usbRx'[d][k] = usbRx[d][k + m]
      BY <2>2, <2>4, <3>1
    <3>. QED  BY <1>2, <3>2 DEF InDevice
  <2>. QED  BY <2>7, <2>8
<1>3. CASE d \notin Usb
  <2>1. d \in Uarts /\ DataAvailable(d) = Count(rxFifo[d])
    BY <1>3 DEF Uarts, DataAvailable
  <2>2. rxFifo[d] \in Ring(RxSize)
    BY <2>1, RingsAre
  <2>3. rxFifo'[d] = Remove(rxFifo[d], Junk)
    <3>1. rxFifo' = [rxFifo EXCEPT ![d] = AfterRead(@, Junk)]
      BY <1>3 DEF Receive
    <3>. QED  BY <2>1, <3>1 DEF TypeOK, AfterRead
  <2>4. /\ Count(Remove(rxFifo[d], Junk)) = Count(rxFifo[d]) - m
        /\ \A k \in 1 .. Count(rxFifo[d]) - m :
              Cell(Remove(rxFifo[d], Junk), k) = Cell(rxFifo[d], k + m)
    BY <2>1, <2>2, RemoveCells, Sizes
  <2>5. DataAvailable(d)' = Count(rxFifo'[d]) /\ \A k : InDevice(d, k)' = Cell(rxFifo'[d], k)
    BY <1>3 DEF DataAvailable, InDevice
  <2>6. \A k : InDevice(d, k) = Cell(rxFifo[d], k)
    BY <1>3 DEF InDevice
  <2>. QED  BY <2>1, <2>3, <2>4, <2>5, <2>6
<1>. QED  BY <1>2, <1>3

LEMMA MoveFlow ==
    ASSUME TypeInv, FlowInv, MoveJunk, NEW e \in Devices, e \notin overrun'
    PROVE  Flow(e)'
<1>1. PICK d \in Devices : d = Served[at[2]]
  BY ServedIs DEF TypeInv, MoveJunk
<1>2. /\ Flow(e) /\ sent'[e] = sent[e] /\ arrived'[e] = arrived[e]
  BY DEF MoveJunk, FlowInv
<1>3. CASE DataAvailable(d) > 0 /\ TakesJunk(d)
  <2>1. fifo' = [fifo EXCEPT ![d] = WriteAvailable(@, Received(d))] /\ Receive(d)
    BY <1>1, <1>3 DEF MoveJunk
  <2>2. CASE e # d
    <3>1. fifo'[e] = fifo[e] /\ rxFifo'[e] = rxFifo[e] /\ usbRx'[e] = usbRx[e]
      <4>1. fifo'[e] = fifo[e]
        BY <2>1, <2>2 DEF TypeInv, TypeOK
      <4>2. CASE d \in Usb
        <5>1. rxFifo' = rxFifo /\ usbRx' = [usbRx EXCEPT ![d] = SubSeq(@, Junk + 1, Len(@))]
          BY <2>1, <4>2 DEF Receive
        <5>2. ASSUME e \in Usb PROVE usbRx'[e] = usbRx[e]
          BY <2>2, <5>1, <5>2 DEF TypeInv, TypeOK
        <5>. QED  BY <4>1, <5>1, <2>2
      <4>3. CASE d \notin Usb
        <5>1. usbRx' = usbRx /\ rxFifo' = [rxFifo EXCEPT ![d] = AfterRead(@, Junk)]
          BY <2>1, <4>3 DEF Receive
        <5>. QED  BY <4>1, <5>1, <2>2
      <4>. QED  BY <4>2, <4>3
    <3>. QED  BY <1>2, <3>1, FlowKept
  <2>3. CASE e = d
    <3>1. PICK m \in Nat : m = Smaller(DataAvailable(e), Junk)
      BY <2>3, AvailableIs, SmallerIs, Sizes DEF TypeInv
    <3>2. /\ DataAvailable(e)' = DataAvailable(e) - m
          /\ \A k \in 1 .. DataAvailable(e) - m : InDevice(e, k)' = InDevice(e, k + m)
      BY <2>1, <2>3, <3>1, ReceiveFlow DEF TypeInv
    <3>3. fifo'[e] = WriteAvailable(fifo[e], Received(e))
      BY <2>1, <2>3 DEF TypeInv, TypeOK
    <3>4. /\ Count(fifo'[e]) = Count(fifo[e]) + m
          /\ \A k \in 1 .. Count(fifo[e]) : Cell(fifo'[e], k) = Cell(fifo[e], k)
          /\ \A k \in 1 .. m : Cell(fifo'[e], Count(fifo[e]) + k) = InDevice(e, k)
      BY <1>3, <2>3, <3>1, <3>3, JunkFits DEF TypeInv
    <3>5. /\ Given(e) \in Nat /\ Count(fifo[e]) \in Nat /\ DataAvailable(e) \in Nat
          /\ m <= DataAvailable(e)
      BY <3>1, FlowTypes, SmallerIs, Sizes DEF TypeInv
    <3>6. Given(e)' = Given(e)
      BY <1>2 DEF Given
    <3>7. /\ Given(e) + Count(fifo[e]) + DataAvailable(e) = arrived[e]
          /\ \A j \in 1 .. Len(Targets[e]) :
                sent[e][Targets[e][j]] \in {FirstN(Given(e)), FirstN(Given(e) + 1)}
          /\ \A k \in 1 .. Count(fifo[e]) : Cell(fifo[e], k) = Given(e) + k
          /\ \A k \in 1 .. DataAvailable(e) : InDevice(e, k) = Given(e) + Count(fifo[e]) + k
      BY <1>2 DEF Flow
    <3>8. Given(e)' + Count(fifo'[e]) + DataAvailable(e)' = arrived'[e]
      BY <1>2, <3>2, <3>4, <3>5, <3>6, <3>7
    <3>9. \A j \in 1 .. Len(Targets[e]) :
             sent'[e][Targets[e][j]] \in {FirstN(Given(e)'), FirstN(Given(e)' + 1)}
      BY <1>2, <3>6, <3>7
    <3>10. \A k \in 1 .. Count(fifo'[e]) : Cell(fifo'[e], k) = Given(e)' + k
      <4>. SUFFICES ASSUME NEW k \in 1 .. Count(fifo'[e])
                    PROVE  Cell(fifo'[e], k) = Given(e)' + k
        OBVIOUS
      <4>1. CASE k <= Count(fifo[e])
        <5>1. k \in 1 .. Count(fifo[e])
          BY <3>5, <4>1
        <5>. QED  BY <3>4, <3>6, <3>7, <5>1
      <4>2. CASE k > Count(fifo[e])
        <5>1. PICK l \in 1 .. m : k = Count(fifo[e]) + l
          <6>1. k - Count(fifo[e]) \in 1 .. m /\ k = Count(fifo[e]) + (k - Count(fifo[e]))
            BY <3>4, <3>5, <4>2
          <6>. QED  BY <6>1
        <5>2. l \in 1 .. DataAvailable(e)
          BY <3>5
        <5>3. Cell(fifo'[e], k) = Given(e) + Count(fifo[e]) + l
          BY <3>4, <3>7, <5>1, <5>2
        <5>. QED  BY <3>5, <3>6, <5>1, <5>3
      <4>. QED  BY <3>4, <3>5, <4>1, <4>2
    <3>11. \A k \in 1 .. DataAvailable(e)' :
              InDevice(e, k)' = Given(e)' + Count(fifo'[e]) + k
      <4>. SUFFICES ASSUME NEW k \in 1 .. DataAvailable(e)'
                    PROVE  InDevice(e, k)' = Given(e)' + Count(fifo'[e]) + k
        OBVIOUS
      <4>1. k \in 1 .. DataAvailable(e) - m /\ k + m \in 1 .. DataAvailable(e)
        BY <3>2, <3>5
      <4>2. InDevice(e, k)' = Given(e) + Count(fifo[e]) + (k + m)
        BY <3>2, <3>7, <4>1
      <4>. QED  BY <3>4, <3>5, <3>6, <4>1, <4>2
    <3>. QED  BY <3>8, <3>9, <3>10, <3>11 DEF Flow
  <2>. QED  BY <2>2, <2>3
<1>4. CASE ~ (DataAvailable(d) > 0 /\ TakesJunk(d))
  <2>1. fifo' = fifo /\ rxFifo' = rxFifo /\ usbRx' = usbRx
    BY <1>1, <1>4 DEF MoveJunk
  <2>. QED  BY <1>2, <2>1, FlowKept
<1>. QED  BY <1>3, <1>4

LEMMA RouteFlow ==
    ASSUME TypeInv, FlowInv, RouteJunk, NEW e \in Devices, e \notin overrun'
    PROVE  Flow(e)'
<1>1. PICK d \in Devices : d = Served[at[2]]
  BY ServedIs DEF TypeInv, RouteJunk
<1>2. PICK offered \in Seq(Nat) : offered = PeekAvailable(fifo[d], Junk)
  BY OfferedIs DEF TypeInv
<1>3. PICK n \in Nat : n = Len(offered)
  BY LenProperties
<1>4. /\ fifo' = [fifo EXCEPT ![d] = Remove(@, Written(d, n))]
      /\ sent' = [sent EXCEPT ![d] =
            [t \in Devices |-> AppendNew(@[t], SubSeq(offered, 1, Took(d, n)[t]))]]
  BY <1>1, <1>2, <1>3, RouteIs
<1>5. Flow(e) /\ arrived'[e] = arrived[e] /\ rxFifo' = rxFifo /\ usbRx' = usbRx
  BY DEF RouteJunk, FlowInv
<1>6. CASE e # d
  <2>1. fifo'[e] = fifo[e] /\ sent'[e] = sent[e]
    BY <1>4, <1>6 DEF TypeInv, TypeOK
  <2>. QED  BY <1>5, <2>1, FlowKept
<1>7. CASE e = d
  <2>1. PICK w \in Nat : w = Written(e, n) /\ w <= n
    <3>1. Len(Targets[e]) \in 1 .. Len(Targets[e])
      BY TargetsAre
    <3>. QED  BY <3>1, TakesKeepStep DEF TypeInv, TypeOK
  <2>2. /\ n <= Count(fifo[e]) /\ \A k \in 1 .. n : offered[k] = Cell(fifo[e], k)
    BY <1>2, <1>3, <1>7, OfferedIs DEF TypeInv
  <2>3. PICK g \in Nat : g = Given(e)
    BY FlowTypes DEF TypeInv
  <2>4. Count(fifo[e]) \in Nat /\ DataAvailable(e) \in Nat
    BY FlowTypes DEF TypeInv
  <2>5. /\ g + Count(fifo[e]) + DataAvailable(e) = arrived[e]
        /\ \A j \in 1 .. Len(Targets[e]) :
              sent[e][Targets[e][j]] \in {FirstN(g), FirstN(g + 1)}
        /\ \A k \in 1 .. Count(fifo[e]) : Cell(fifo[e], k) = g + k
        /\ \A k \in 1 .. DataAvailable(e) : InDevice(e, k) = g + Count(fifo[e]) + k
    BY <1>5, <2>3 DEF Flow
  <2>6. fifo'[e] = Remove(fifo[e], w)
    BY <1>4, <1>7, <2>1 DEF TypeInv, TypeOK
  <2>7. Smaller(Count(fifo[e]), w) = w
    BY <2>1, <2>2, <2>4, SmallerIs
  <2>8. /\ Count(fifo'[e]) = Count(fifo[e]) - w
        /\ \A k \in 1 .. Count(fifo[e]) - w : Cell(fifo'[e], k) = Cell(fifo[e], k + w)
    <3>1. fifo[e] \in Ring(Capacity)
      BY RingsAre DEF TypeInv
    <3>. QED  BY <2>6, <2>7, <3>1, RemoveCells, Sizes
  <2>9. ASSUME NEW j \in 1 .. Len(Targets[e])
        PROVE  /\ sent'[e][Targets[e][j]] =
                     AppendNew(sent[e][Targets[e][j]], SubSeq(offered, 1, Takes(e, n, j)))
               /\ Takes(e, n, j) \in Nat /\ Takes(e, n, j) \in {w, w + 1}
               /\ Takes(e, n, j) <= n
    <3>1. Targets[e][j] \in Devices
      BY TargetsAre
    <3>2. room \in [Devices -> 0 .. TxSize] /\ sent \in [Devices -> [Devices -> Seq(Nat)]]
      BY DEF TypeInv, TypeOK
    <3>3. Took(e, n)[Targets[e][j]] = Takes(e, n, j)
      BY <3>2, TookIs
    <3>4. sent'[e] = [t \in Devices |-> AppendNew(sent[e][t], SubSeq(offered, 1, Took(e, n)[t]))]
      BY <1>4, <1>7, <3>2
    <3>5. Takes(e, n, j) \in Nat /\ Takes(e, n, j) <= n /\ Takes(e, n, j) \in {w, w + 1}
      BY <2>1, <3>2, TakesIs, TakesKeepStep
    <3>. QED  BY <3>1, <3>3, <3>4, <3>5
  <2>10. ASSUME NEW t \in Nat, t <= n
         PROVE  /\ SubSeq(offered, 1, t) \in Seq(Nat) /\ Len(SubSeq(offered, 1, t)) = t
                /\ \A k \in 1 .. t : SubSeq(offered, 1, t)[k] = g + k
    <3>1. /\ SubSeq(offered, 1, t) \in Seq(Nat) /\ Len(SubSeq(offered, 1, t)) = t
          /\ \A k \in 1 .. t : SubSeq(offered, 1, t)[k] = offered[k]
      BY <1>3, <2>10, FirstBytes
    <3>2. \A k \in 1 .. t : k \in 1 .. n /\ k \in 1 .. Count(fifo[e])
      BY <2>2, <2>4, <2>10
    <3>. QED  BY <2>2, <2>5, <3>1, <3>2
  <2>11. \A j \in 1 .. Len(Targets[e]) :
            sent'[e][Targets[e][j]] \in {FirstN(g + w), FirstN(g + w + 1)}
    <3>. SUFFICES ASSUME NEW j \in 1 .. Len(Targets[e])
                  PROVE  sent'[e][Targets[e][j]] \in {FirstN(g + w), FirstN(g + w + 1)}
      OBVIOUS
    <3>1. PICK h \in {g, g + 1} : sent[e][Targets[e][j]] = FirstN(h)
      BY <2>5
    <3>2. PICK t \in Nat : t = Takes(e, n, j) /\ t <= n /\ t \in {w, w + 1}
      BY <2>9
    <3>3. /\ SubSeq(offered, 1, t) \in Seq(Nat) /\ Len(SubSeq(offered, 1, t)) = t
          /\ \A k \in 1 .. t : SubSeq(offered, 1, t)[k] = g + k
      BY <2>10, <3>2
    <3>4. AppendNew(FirstN(h), SubSeq(offered, 1, t)) \in {FirstN(g + w), FirstN(g + w + 1)}
      BY <3>2, <3>3, AppendCells
    <3>. QED  BY <2>9, <3>1, <3>2, <3>4
  <2>12. Given(e)' = g + w
    <3>. DEFINE last == Len(Targets[e])
    <3>1. last \in 1 .. last /\ LastTarget(e) = Targets[e][last]
      BY TargetsAre DEF LastTarget
    <3>2. sent[e][LastTarget(e)] = FirstN(g)
      <4>1. Len(sent[e][LastTarget(e)]) = g
        BY <2>3 DEF Given
      <4>2. sent[e][LastTarget(e)] \in {FirstN(g), FirstN(g + 1)}
        BY <2>5, <3>1
      <4>3. Len(FirstN(g + 1)) = g + 1
        BY <2>3, FirstNType
      <4>. QED  BY <2>3, <4>1, <4>2, <4>3
    <3>3. Takes(e, n, last) = w
      BY <2>1 DEF Written
    <3>4. sent'[e][LastTarget(e)] = AppendNew(FirstN(g), SubSeq(offered, 1, w))
      BY <2>9, <3>1, <3>2, <3>3
    <3>5. /\ SubSeq(offered, 1, w) \in Seq(Nat) /\ Len(SubSeq(offered, 1, w)) = w
          /\ \A k \in 1 .. w : SubSeq(offered, 1, w)[k] = g + k
      BY <2>1, <2>10
    <3>6. AppendNew(FirstN(g), SubSeq(offered, 1, w)) = FirstN(g + w)
      BY <2>1, <2>3, <3>5, AppendSame
    <3>7. Len(sent'[e][LastTarget(e)]) = g + w
      BY <2>1, <2>3, <3>4, <3>6, FirstNType
    <3>. QED  BY <3>7 DEF Given, LastTarget
  <2>13. DataAvailable(e)' = DataAvailable(e) /\ \A k : InDevice(e, k)' = InDevice(e, k)
    BY <1>5 DEF DataAvailable, InDevice
  <2>14. Given(e)' + Count(fifo'[e]) + DataAvailable(e)' = arrived'[e]
    BY <1>5, <2>1, <2>2, <2>4, <2>5, <2>8, <2>12, <2>13
  <2>15. \A k \in 1 .. Count(fifo'[e]) : Cell(fifo'[e], k) = Given(e)' + k
    <3>. SUFFICES ASSUME NEW k \in 1 .. Count(fifo'[e])
                  PROVE  Cell(fifo'[e], k) = Given(e)' + k
      OBVIOUS
    <3>1. k \in 1 .. Count(fifo[e]) - w /\ k + w \in 1 .. Count(fifo[e])
      BY <2>1, <2>2, <2>4, <2>8
    <3>2. Cell(fifo'[e], k) = g + (k + w)
      BY <2>5, <2>8, <3>1
    <3>. QED  BY <2>12, <3>1, <3>2
  <2>16. \A k \in 1 .. DataAvailable(e)' :
            InDevice(e, k)' = Given(e)' + Count(fifo'[e]) + k
    <3>. SUFFICES ASSUME NEW k \in 1 .. DataAvailable(e)'
                  PROVE  InDevice(e, k)' = Given(e)' + Count(fifo'[e]) + k
      OBVIOUS
    <3>1. k \in 1 .. DataAvailable(e)
      BY <2>13
    <3>2. InDevice(e, k)' = g + Count(fifo[e]) + k
      BY <2>5, <2>13, <3>1
    <3>. QED  BY <2>1, <2>4, <2>8, <2>12, <3>1, <3>2
  <2>17. \A j \in 1 .. Len(Targets[e]) :
            sent'[e][Targets[e][j]] \in {FirstN(Given(e)'), FirstN(Given(e)' + 1)}
    BY <2>11, <2>12
  <2>. QED  BY <2>14, <2>15, <2>16, <2>17 DEF Flow
<1>. QED  BY <1>6, <1>7

LEMMA WorkerFlow ==
    ASSUME TypeInv, FlowInv, UsbWorker, NEW e \in Devices, e \notin overrun'
    PROVE  Flow(e)'
<1>1. PICK new \in [Usb -> 0 .. UsbSize] :
         /\ usbRx' = [d \in Usb |-> usbRx[d] \o [k \in 1 .. new[d] |-> arrived[d] + k]]
         /\ arrived' = [d \in Devices |-> IF d \in Usb THEN arrived[d] + new[d] ELSE arrived[d]]
  BY DEF UsbWorker
<1>2. /\ Flow(e) /\ sent' = sent /\ fifo' = fifo /\ rxFifo' = rxFifo
  BY DEF UsbWorker, FlowInv
<1>3. /\ Given(e) \in Nat /\ Count(fifo[e]) \in Nat /\ DataAvailable(e) \in Nat
      /\ arrived[e] \in Nat
  BY FlowTypes DEF TypeInv
<1>4. /\ Given(e) + Count(fifo[e]) + DataAvailable(e) = arrived[e]
      /\ \A j \in 1 .. Len(Targets[e]) :
            sent[e][Targets[e][j]] \in {FirstN(Given(e)), FirstN(Given(e) + 1)}
      /\ \A k \in 1 .. Count(fifo[e]) : Cell(fifo[e], k) = Given(e) + k
      /\ \A k \in 1 .. DataAvailable(e) : InDevice(e, k) = Given(e) + Count(fifo[e]) + k
  BY <1>2 DEF Flow
<1>5. Given(e)' = Given(e)
  BY <1>2 DEF Given
<1>6. CASE e \in Usb
  <2>1. PICK m \in Nat : m = new[e]
    BY <1>6, Sizes
  <2>. DEFINE more == [k \in 1 .. m |-> arrived[e] + k]
  <2>2. usbRx'[e] = usbRx[e] \o more /\ arrived'[e] = arrived[e] + m
    BY <1>1, <1>6, <2>1
  <2>3. /\ more \in Seq(Nat) /\ Len(more) = m /\ usbRx[e] \in Seq(Nat)
        /\ \A k \in 1 .. m : more[k] = arrived[e] + k
    BY <1>3, <1>6, RingsAre DEF TypeInv
  <2>. HIDE DEF more
  <2>4. /\ Len(usbRx[e]) = DataAvailable(e) /\ Len(usbRx'[e]) = DataAvailable(e)'
        /\ \A k : InDevice(e, k) = usbRx[e][k] /\ InDevice(e, k)' = usbRx'[e][k]
    BY <1>6 DEF DataAvailable, InDevice
  <2>5. /\ Len(usbRx[e] \o more) = Len(usbRx[e]) + Len(more)
        /\ \A i \in 1 .. Len(usbRx[e]) + Len(more) : (usbRx[e] \o more)[i] =
                 IF i <= Len(usbRx[e]) THEN usbRx[e][i] ELSE more[i - Len(usbRx[e])]
    BY <2>3, ConcatProperties
  <2>6. DataAvailable(e)' = DataAvailable(e) + m
    BY <2>2, <2>3, <2>4, <2>5
  <2>7. Given(e)' + Count(fifo'[e]) + DataAvailable(e)' = arrived'[e]
    BY <1>2, <1>3, <1>4, <1>5, <2>2, <2>6
  <2>8. ASSUME NEW k \in 1 .. DataAvailable(e)'
        PROVE  InDevice(e, k)' = Given(e)' + Count(fifo'[e]) + k
    <3>1. k \in Nat /\ k >= 1 /\ k <= DataAvailable(e) + m
      BY <1>3, <2>6
    <3>2. InDevice(e, k)' = IF k <= DataAvailable(e) THEN InDevice(e, k)
                            ELSE more[k - DataAvailable(e)]
      BY <1>3, <2>2, <2>3, <2>4, <2>5, <3>1, ZenonT(60)
    <3>3. CASE k <= DataAvailable(e)
      <4>1. k \in 1 .. DataAvailable(e) /\ InDevice(e, k)' = InDevice(e, k)
        BY <1>3, <3>1, <3>2, <3>3
      <4>. QED  BY <1>2, <1>3, <1>4, <1>5, <4>1
    <3>4. CASE k > DataAvailable(e)
      <4>1. k - DataAvailable(e) \in 1 .. m
        BY <1>3, <3>1, <3>4
      <4>2. InDevice(e, k)' = arrived[e] + (k - DataAvailable(e))
        BY <1>3, <2>3, <3>1, <3>2, <3>4, <4>1
      <4>. QED  BY <1>2, <1>3, <1>4, <1>5, <3>1, <4>2
    <3>. QED  BY <1>3, <3>1, <3>3, <3>4
  <2>9. \A j \in 1 .. Len(Targets[e]) :
           sent'[e][Targets[e][j]] \in {FirstN(Given(e)'), FirstN(Given(e)' + 1)}
    BY <1>2, <1>4, <1>5
  <2>10. \A k \in 1 .. Count(fifo'[e]) : Cell(fifo'[e], k) = Given(e)' + k
    BY <1>2, <1>4, <1>5
  <2>. QED  BY <2>7, <2>8, <2>9, <2>10 DEF Flow
<1>7. CASE e \notin Usb
  <2>1. arrived'[e] = arrived[e]
    BY <1>1, <1>7
  <2>2. DataAvailable(e)' = DataAvailable(e) /\ \A k : InDevice(e, k)' = InDevice(e, k)
    BY <1>2, <1>7 DEF DataAvailable, InDevice
  <2>. QED  BY <1>2, <1>4, <1>5, <2>1, <2>2 DEF Flow
<1>. QED  BY <1>6, <1>7

LEMMA IRQFlow ==
    ASSUME TypeInv, FlowInv, NEW d \in Devices, HandleIRQ(d), NEW e \in Devices, e \notin overrun'
    PROVE  Flow(e)'
<1>1. /\ d \in Uarts /\ d \notin Usb /\ rxFifo[d] \in Ring(RxSize)
      /\ rxFifo' = [rxFifo EXCEPT ![d] = Push(@, arrived[d] + 1)]
      /\ arrived' = [arrived EXCEPT ![d] = @ + 1]
      /\ sent' = sent /\ fifo' = fifo /\ usbRx' = usbRx
  BY RingsAre DEF HandleIRQ, Uarts, TypeInv
<1>2. e \notin overrun
  BY DEF HandleIRQ
<1>3. Flow(e)
  BY <1>2 DEF FlowInv
<1>4. CASE e # d
  <2>1. arrived'[e] = arrived[e] /\ rxFifo'[e] = rxFifo[e]
    BY <1>1, <1>4 DEF TypeInv, TypeOK
  <2>. QED  BY <1>1, <1>3, <2>1, FlowKept
<1>5. CASE e = d
  <2>1. /\ Given(e) \in Nat /\ Count(fifo[e]) \in Nat /\ DataAvailable(e) \in Nat
        /\ arrived[e] \in Nat
    BY FlowTypes DEF TypeInv
  <2>2. /\ Given(e) + Count(fifo[e]) + DataAvailable(e) = arrived[e]
        /\ \A j \in 1 .. Len(Targets[e]) :
              sent[e][Targets[e][j]] \in {FirstN(Given(e)), FirstN(Given(e) + 1)}
        /\ \A k \in 1 .. Count(fifo[e]) : Cell(fifo[e], k) = Given(e) + k
        /\ \A k \in 1 .. DataAvailable(e) : InDevice(e, k) = Given(e) + Count(fifo[e]) + k
    BY <1>3 DEF Flow
  <2>3. Count(rxFifo[e]) \in Nat /\ Count(rxFifo[e]) < RxSize
    BY <1>1, <1>5, CountFits, Sizes
  <2>4. Count(rxFifo[e]) # RxSize - 1
    BY <1>5 DEF HandleIRQ
  <2>5. Count(rxFifo[e]) < RxSize - 1
    BY <2>3, <2>4, Sizes
  <2>6. rxFifo'[e] = Push(rxFifo[e], arrived[e] + 1) /\ arrived'[e] = arrived[e] + 1
    BY <1>1, <1>5 DEF TypeInv, TypeOK
  <2>7. /\ Count(rxFifo'[e]) = Count(rxFifo[e]) + 1
        /\ \A k \in 1 .. Count(rxFifo[e]) : Cell(rxFifo'[e], k) = Cell(rxFifo[e], k)
        /\ Cell(rxFifo'[e], Count(rxFifo[e]) + 1) = arrived[e] + 1
    <3>1. arrived[e] + 1 \in Nat
      BY <2>1
    <3>. QED  BY <1>1, <1>5, <2>5, <2>6, <3>1, PushCells, Sizes
  <2>8. /\ DataAvailable(e) = Count(rxFifo[e]) /\ DataAvailable(e)' = Count(rxFifo'[e])
        /\ \A k : InDevice(e, k) = Cell(rxFifo[e], k) /\ InDevice(e, k)' = Cell(rxFifo'[e], k)
    BY <1>1, <1>5 DEF DataAvailable, InDevice
  <2>9. Given(e)' = Given(e)
    BY <1>1 DEF Given
  <2>10. Given(e)' + Count(fifo'[e]) + DataAvailable(e)' = arrived'[e]
    BY <1>1, <2>1, <2>2, <2>6, <2>7, <2>8, <2>9
  <2>11. ASSUME NEW k \in 1 .. DataAvailable(e)'
         PROVE  InDevice(e, k)' = Given(e)' + Count(fifo'[e]) + k
    <3>1. k \in 1 .. Count(rxFifo[e]) \/ k = Count(rxFifo[e]) + 1
      BY <2>3, <2>7, <2>8
    <3>2. CASE k \in 1 .. Count(rxFifo[e])
      BY <1>1, <2>2, <2>7, <2>8, <2>9, <3>2
    <3>3. CASE k = Count(rxFifo[e]) + 1
      <4>1. InDevice(e, k)' = arrived[e] + 1
        BY <2>7, <2>8, <3>3
      <4>. QED  BY <1>1, <2>1, <2>2, <2>8, <2>9, <3>3, <4>1
    <3>. QED  BY <3>1, <3>2, <3>3
  <2>12. \A j \in 1 .. Len(Targets[e]) :
            sent'[e][Targets[e][j]] \in {FirstN(Given(e)'), FirstN(Given(e)' + 1)}
    BY <1>1, <2>2, <2>9
  <2>13. \A k \in 1 .. Count(fifo'[e]) : Cell(fifo'[e], k) = Given(e)' + k
    BY <1>1, <2>2, <2>9
  <2>. QED  BY <2>10, <2>11, <2>12, <2>13 DEF Flow
<1>. QED  BY <1>4, <1>5

LEMMA FlowStep ==
    ASSUME TypeInv, FlowInv, [Next]_vars
    PROVE  FlowInv'
<1>. SUFFICES ASSUME NEW e \in Devices, e \notin overrun' PROVE Flow(e)'
  BY DEF FlowInv
<1>1. CASE MoveJunk
  BY <1>1, MoveFlow
<1>2. CASE RouteJunk
  BY <1>2, RouteFlow
<1>3. CASE UsbWorker
  BY <1>3, WorkerFlow
<1>4. ASSUME NEW d \in Devices, HandleIRQ(d) PROVE Flow(e)'
  BY <1>4, IRQFlow
<1>5. ASSUME UNCHANGED <<sent, fifo, arrived, rxFifo, usbRx, overrun>> PROVE Flow(e)'
  <2>1. Flow(e)
    BY <1>5 DEF FlowInv
  <2>. QED  BY <1>5, <2>1, FlowKept
<1>6. CASE SkipUnflagged \/ StartSignalTask \/ ReturnSignalTask
  BY <1>5, <1>6 DEF SkipUnflagged, StartSignalTask, ReturnSignalTask
<1>7. CASE \E d \in Devices : Drain(d)
  BY <1>5, <1>7 DEF Drain
<1>8. CASE UNCHANGED vars
  BY <1>5, <1>8 DEF vars
<1>. QED  BY <1>1, <1>2, <1>3, <1>4, <1>6, <1>7, <1>8 DEF Next, Loop

LEMMA FlowAlways == Spec => [](TypeInv /\ FlowInv)
<1>1. Init => TypeInv /\ FlowInv
  BY TypesInit, FlowInit
<1>2. TypeInv /\ FlowInv /\ [Next]_vars => (TypeInv /\ FlowInv)'
  BY TypesStep, FlowStep
<1>. QED  BY <1>1, <1>2, PTL DEF Spec

LEMMA ContentsAre ==
    ASSUME NEW s \in Nat, s > 0, NEW f \in Ring(s)
    PROVE  /\ Contents(f) \in Seq(Nat) /\ Len(Contents(f)) = Count(f)
           /\ \A k \in 1 .. Count(f) : Contents(f)[k] = Cell(f, k)
<1>1. f.size = s /\ Count(f) \in Nat /\ Count(f) < s
  BY RingFields, CountFits
<1>2. Smaller(Count(f), s) = Count(f)
  BY <1>1, SmallerIs
<1>. QED  BY <1>1, <1>2, PeekCells DEF Contents

LEMMA FlowLosesNothing ==
    ASSUME TypeInv, FlowInv
    PROVE  NothingLost
<1>. SUFFICES ASSUME NEW d \in Devices, d \notin overrun
              PROVE  sent[d][LastTarget(d)] \o Contents(fifo[d]) \o Waiting(d) = FirstN(arrived[d])
  BY DEF NothingLost
<1>1. /\ Given(d) \in Nat /\ Count(fifo[d]) \in Nat /\ DataAvailable(d) \in Nat
  BY FlowTypes DEF TypeInv
<1>2. /\ Given(d) + Count(fifo[d]) + DataAvailable(d) = arrived[d]
      /\ \A j \in 1 .. Len(Targets[d]) :
            sent[d][Targets[d][j]] \in {FirstN(Given(d)), FirstN(Given(d) + 1)}
      /\ \A k \in 1 .. Count(fifo[d]) : Cell(fifo[d], k) = Given(d) + k
      /\ \A k \in 1 .. DataAvailable(d) : InDevice(d, k) = Given(d) + Count(fifo[d]) + k
  BY DEF FlowInv, Flow
<1>3. sent[d][LastTarget(d)] = FirstN(Given(d))
  <2>1. Len(Targets[d]) \in 1 .. Len(Targets[d])
    BY TargetsAre
  <2>2. sent[d][LastTarget(d)] \in {FirstN(Given(d)), FirstN(Given(d) + 1)}
    BY <1>2, <2>1 DEF LastTarget
  <2>3. Len(FirstN(Given(d) + 1)) = Given(d) + 1
    BY <1>1, FirstNType
  <2>4. Len(sent[d][LastTarget(d)]) = Given(d)
    BY DEF Given
  <2>. QED  BY <1>1, <2>2, <2>3, <2>4
<1>4. /\ Contents(fifo[d]) \in Seq(Nat) /\ Len(Contents(fifo[d])) = Count(fifo[d])
      /\ \A k \in 1 .. Count(fifo[d]) : Contents(fifo[d])[k] = Given(d) + k
  <2>1. fifo[d] \in Ring(Capacity)
    BY RingsAre DEF TypeInv
  <2>. QED  BY <1>2, <2>1, ContentsAre, Sizes
<1>5. /\ Waiting(d) \in Seq(Nat) /\ Len(Waiting(d)) = DataAvailable(d)
      /\ \A k \in 1 .. DataAvailable(d) : Waiting(d)[k] = InDevice(d, k)
  <2>1. CASE d \in Usb
    BY <2>1, RingsAre DEF Waiting, DataAvailable, InDevice, TypeInv
  <2>2. CASE d \notin Usb
    <3>1. rxFifo[d] \in Ring(RxSize)
      BY <2>2, RingsAre DEF Uarts, TypeInv
    <3>2. /\ Contents(rxFifo[d]) \in Seq(Nat) /\ Len(Contents(rxFifo[d])) = Count(rxFifo[d])
          /\ \A k \in 1 .. Count(rxFifo[d]) : Contents(rxFifo[d])[k] = Cell(rxFifo[d], k)
      BY <3>1, ContentsAre, Sizes
    <3>. QED  BY <2>2, <3>2 DEF Waiting, DataAvailable, InDevice
  <2>. QED  BY <2>1, <2>2
<1>6. \A k \in 1 .. DataAvailable(d) : Waiting(d)[k] = Given(d) + Count(fifo[d]) + k
  BY <1>2, <1>5
<1>7. FirstN(Given(d)) \o Contents(fifo[d]) = FirstN(Given(d) + Count(fifo[d]))
  BY <1>1, <1>4, RunContinued
<1>8. FirstN(Given(d) + Count(fifo[d])) \o Waiting(d)
         = FirstN(Given(d) + Count(fifo[d]) + DataAvailable(d))
  <2>1. Given(d) + Count(fifo[d]) \in Nat
    BY <1>1
  <2>. QED  BY <1>5, <1>6, <2>1, RunContinued
<1>. QED  BY <1>2, <1>3, <1>7, <1>8

(* Every byte a device has received is, once and in its place, with the last  *)
(* target, in the router's ring or in the device's, unless an interrupt found *)
(* the device's own ring full: for every number of devices and targets, every *)
(* order, and rings of every size.                                            *)
THEOREM NothingIsLost == Spec => []NothingLost
<1>1. TypeInv /\ FlowInv => NothingLost
  BY FlowLosesNothing
<1>. QED  BY <1>1, FlowAlways, PTL

(* Of the targets of a device one may be ahead of the last by one byte, never *)
(* more, and none misses a byte, however their transmit buffers drain.        *)
THEOREM TargetsStayTogether == Spec => []TargetsKeepStep
<1>1. FlowInv => TargetsKeepStep
  BY DEF FlowInv, Flow, Given, TargetsKeepStep
<1>. QED  BY <1>1, FlowAlways, PTL

(***************************************************************************)
(* The relays.                                                             *)
(***************************************************************************)

\* a byte pushed into the last free cell empties the ring
LEMMA PushOver ==
    ASSUME NEW s \in Nat, s > 0, NEW f \in Ring(s), NEW byte \in Nat, Count(f) = s - 1
    PROVE  Count(Push(f, byte)) = 0
<1>. DEFINE g == Push(f, byte)
<1>1. /\ f.size = s /\ f.head \in Nat /\ f.head < s /\ f.tail \in Nat /\ f.tail < s
  BY RingFields
<1>2. g.size = s /\ g.tail = f.tail /\ g.head = Step(f, f.head, 1)
  BY PushIs
<1>3. f.head = Step(f, f.tail, s - 1)
  BY HeadIs
<1>. HIDE DEF g
<1>4. Step(f, f.head, 1) = f.tail
  BY <1>1, <1>3 DEF Step
<1>. QED  BY <1>1, <1>2, <1>4 DEF Count, g

\* a write that fills the last free cell takes as many bytes as there are cells
\* for and drops the oldest byte
LEMMA WriteOverIs ==
    ASSUME NEW s \in Nat, s > 0, NEW f \in Ring(s), NEW bytes \in Seq(Nat),
           Len(bytes) > 0, Count(f) + Len(bytes) >= s
    PROVE  LET g == WriteAvailable(f, bytes)
               n == s - Count(f)
           IN  /\ g \in Ring(s)
               /\ g.head = f.tail /\ g.tail = Step(f, f.tail, 1)
               /\ \A i \in 0 .. s - 1 :
                     (\A k \in 1 .. n : Step(f, f.head, k - 1) # i) => g.buffer[i] = f.buffer[i]
               /\ \A k \in 1 .. n : g.buffer[Step(f, f.head, k - 1)] = bytes[k]
<1>. DEFINE n == s - Count(f)
            cell == [k \in 1 .. n |-> Step(f, f.head, k - 1)]
            buffer == [i \in 0 .. s - 1 |-> IF \E k \in 1 .. n : cell[k] = i
                                            THEN bytes[CHOOSE k \in 1 .. n : cell[k] = i]
                                            ELSE f.buffer[i]]
            g == [buffer |-> buffer, size |-> s,
                  head |-> f.tail, tail |-> Step(f, f.tail, 1)]
<1>1. /\ f.size = s /\ f.head \in Nat /\ f.head < s /\ f.tail \in Nat /\ f.tail < s
      /\ f.buffer \in [0 .. s - 1 -> Nat] /\ Count(f) \in Nat /\ Count(f) < s
      /\ f = [buffer |-> f.buffer, size |-> s, head |-> f.head, tail |-> f.tail]
      /\ f.head = Step(f, f.tail, Count(f)) /\ Len(bytes) \in Nat
  BY RingFields, CountFits, HeadIs, LenProperties
<1>2. n \in Nat /\ n > 0 /\ n <= s /\ n <= Len(bytes)
  BY <1>1
<1>3. Smaller(f.size - Count(f), Len(bytes)) = n
  BY <1>1, <1>2 DEF Smaller
<1>4. n > 0 /\ Step(f, f.head, n) = f.tail
  BY <1>1, <1>2 DEF Step
<1>5. DOMAIN f.buffer = 0 .. s - 1
  BY <1>1
<1>6. WriteAvailable(f, bytes) = g
  <2>. HIDE DEF n
  <2>1. WriteAvailable(f, bytes) =
           [f EXCEPT !.buffer = buffer, !.head = f.tail, !.tail = Step(f, f.tail, 1)]
    <3>1. WriteAvailable(f, bytes) =
            [f EXCEPT !.buffer = [i \in DOMAIN @ |-> IF \E k \in 1 .. n : cell[k] = i
                                           THEN bytes[CHOOSE k \in 1 .. n : cell[k] = i]
                                           ELSE @[i]],
                      !.head = Step(f, f.head, n),
                      !.tail = IF n > 0 /\ Step(f, f.head, n) = @ THEN Step(f, @, 1) ELSE @]
      BY <1>3 DEF WriteAvailable, n
    <3>. QED  BY <1>4, <1>5, <3>1
  <2>. HIDE DEF buffer
  <2>. QED  BY <1>1, <2>1
<1>7. \A k \in 1 .. n : Step(f, f.head, k - 1) \in 0 .. s - 1
  <2>. SUFFICES ASSUME NEW k \in 1 .. n PROVE Step(f, f.head, k - 1) \in 0 .. s - 1
    OBVIOUS
  <2>1. k - 1 \in Nat /\ k - 1 <= s
    BY <1>2
  <2>. HIDE DEF n
  <2>2. Step(f, f.head, k - 1) \in Nat /\ Step(f, f.head, k - 1) < s
    BY <1>1, <2>1, StepFits
  <2>. QED  BY <2>2
<1>8. \A k \in 1 .. n, l \in 1 .. n : cell[k] = cell[l] => k = l
  <2>. SUFFICES ASSUME NEW k \in 1 .. n, NEW l \in 1 .. n, k # l PROVE cell[k] # cell[l]
    OBVIOUS
  <2>1. k - 1 \in Nat /\ k - 1 < s /\ l - 1 \in Nat /\ l - 1 < s /\ k - 1 # l - 1
    BY <1>2
  <2>. HIDE DEF n
  <2>2. Step(f, f.head, k - 1) # Step(f, f.head, l - 1)
    BY <1>1, <2>1, StepsDiffer
  <2>. QED  BY <2>2
<1>9. \A k \in 1 .. n : buffer[Step(f, f.head, k - 1)] = bytes[k]
  <2>. SUFFICES ASSUME NEW k \in 1 .. n PROVE buffer[Step(f, f.head, k - 1)] = bytes[k]
    OBVIOUS
  <2>1. cell[k] = Step(f, f.head, k - 1) /\ cell[k] \in 0 .. s - 1
    BY <1>7
  <2>. HIDE DEF cell, n
  <2>2. buffer[cell[k]] = bytes[CHOOSE l \in 1 .. n : cell[l] = cell[k]]
    BY <2>1
  <2>3. (CHOOSE l \in 1 .. n : cell[l] = cell[k]) = k
    BY <1>8
  <2>. QED  BY <2>1, <2>2, <2>3
<1>10. \A i \in 0 .. s - 1 :
         (\A k \in 1 .. n : Step(f, f.head, k - 1) # i) => buffer[i] = f.buffer[i]
  <2>. HIDE DEF n
  <2>. QED  OBVIOUS
<1>11. buffer \in [0 .. s - 1 -> Nat]
  <2>1. \A k \in 1 .. n : bytes[k] \in Nat
    <3>1. \A k \in 1 .. Len(bytes) : bytes[k] \in Nat
      BY ElementOfSeq
    <3>. HIDE DEF n
    <3>. QED  BY <1>1, <1>2, <3>1
  <2>2. \A i \in 0 .. s - 1 : f.buffer[i] \in Nat
    BY <1>1
  <2>. HIDE DEF n, cell
  <2>. QED  BY <2>1, <2>2
<1>12. g \in Ring(s)
  <2>. HIDE DEF n, buffer
  <2>0. 1 \in Nat /\ 1 <= s
    OBVIOUS
  <2>1. Step(f, f.tail, 1) \in Nat /\ Step(f, f.tail, 1) < s
    BY <1>1, <2>0, StepFits
  <2>2. Step(f, f.tail, 1) \in 0 .. s - 1 /\ f.tail \in 0 .. s - 1
    BY <1>1, <2>1
  <2>. QED  BY <1>11, <2>2 DEF Ring
<1>. HIDE DEF buffer
<1>. QED  BY <1>6, <1>9, <1>10, <1>12

LEMMA WriteOverCells ==
    ASSUME NEW s \in Nat, s > 0, NEW f \in Ring(s), NEW bytes \in Seq(Nat),
           Len(bytes) > 0, Count(f) + Len(bytes) >= s
    PROVE  LET g == WriteAvailable(f, bytes)
           IN  /\ g \in Ring(s) /\ Count(g) = s - 1
               /\ \A k \in 1 .. s - 1 :
                     /\ k < Count(f) => Cell(g, k) = Cell(f, k + 1)
                     /\ k >= Count(f) => Cell(g, k) = bytes[k + 1 - Count(f)]
<1>. DEFINE g == WriteAvailable(f, bytes)
            c == Count(f)
<1>1. /\ f.size = s /\ f.head \in Nat /\ f.head < s /\ f.tail \in Nat /\ f.tail < s
      /\ c \in Nat /\ c < s /\ f.head = Step(f, f.tail, c)
  BY RingFields, CountFits, HeadIs
<1>2. /\ g \in Ring(s)
      /\ g.head = f.tail /\ g.tail = Step(f, f.tail, 1)
      /\ \A i \in 0 .. s - 1 :
            (\A k \in 1 .. s - c : Step(f, f.head, k - 1) # i) => g.buffer[i] = f.buffer[i]
      /\ \A k \in 1 .. s - c : g.buffer[Step(f, f.head, k - 1)] = bytes[k]
  BY WriteOverIs
<1>. HIDE DEF g, c
<1>3. g.size = s
  BY <1>2, RingFields
<1>4. Count(g) = s - 1
  BY <1>1, <1>2, <1>3 DEF Count, Step
<1>5. \A k \in 1 .. s - 1 : Step(g, g.tail, k - 1) = Step(f, f.tail, k)
  BY <1>1, <1>2, <1>3 DEF Step
<1>6. ASSUME NEW k \in 1 .. s - c
      PROVE  Step(f, f.head, k - 1) = Step(f, f.tail, c + k - 1)
  BY <1>1 DEF Step
<1>7. ASSUME NEW k \in 1 .. s - 1, k < c PROVE Cell(g, k) = Cell(f, k + 1)
  <2>1. k \in Nat /\ k < s /\ k <= s /\ (k + 1) - 1 = k
    OBVIOUS
  <2>2. Step(f, f.tail, k) \in Nat /\ Step(f, f.tail, k) < s
    BY <1>1, <2>1, StepFits
  <2>3. ASSUME NEW l \in 1 .. s - c PROVE Step(f, f.head, l - 1) # Step(f, f.tail, k)
    <3>1. c + l - 1 \in Nat /\ c + l - 1 < s /\ c + l - 1 # k
      BY <1>1, <1>7
    <3>2. Step(f, f.tail, c + l - 1) # Step(f, f.tail, k)
      BY <1>1, <2>1, <3>1, StepsDiffer
    <3>. QED  BY <1>6, <3>2
  <2>4. Step(f, f.tail, k) \in 0 .. s - 1
    BY <2>2
  <2>. QED  BY <1>2, <1>5, <2>1, <2>3, <2>4 DEF Cell
<1>8. ASSUME NEW k \in 1 .. s - 1, k >= c PROVE Cell(g, k) = bytes[k + 1 - c]
  <2>1. k + 1 - c \in 1 .. s - c /\ c + (k + 1 - c) - 1 = k
    BY <1>1, <1>8
  <2>2. Step(f, f.head, (k + 1 - c) - 1) = Step(f, f.tail, k)
    BY <1>6, <2>1
  <2>. QED  BY <1>2, <1>5, <2>1, <2>2 DEF Cell
<1>. QED  BY <1>2, <1>4, <1>7, <1>8 DEF g, c

(***************************************************************************)
(* What is on the way through a relay: what was sent on, what its ring     *)
(* holds and what the UART's holds, one behind the other.                  *)
(***************************************************************************)
Rises(a) == \A i, j \in DOMAIN a : i < j => a[i] < a[j]
Below(a, b) == \A i \in DOMAIN a, j \in DOMAIN b : a[i] < b[j]
Among(a, n) == \A i \in DOMAIN a : a[i] > 0 /\ a[i] <= n

\* none twice, none out of its order, and none that did not come
InTurn(a, n) == Rises(a) /\ Among(a, n)

AllThere(a, n) == a = [k \in 1 .. n |-> k]

LEMMA Joined ==
    ASSUME NEW a \in Seq(Nat), NEW b \in Seq(Nat)
    PROVE  /\ a \o b \in Seq(Nat) /\ DOMAIN (a \o b) = 1 .. Len(a) + Len(b)
           /\ DOMAIN a = 1 .. Len(a) /\ DOMAIN b = 1 .. Len(b) /\ Len(a) \in Nat /\ Len(b) \in Nat
           /\ \A i \in DOMAIN a : a[i] \in Nat /\ i \in DOMAIN (a \o b) /\ (a \o b)[i] = a[i]
           /\ \A i \in DOMAIN b : b[i] \in Nat /\ Len(a) + i \in DOMAIN (a \o b)
                                  /\ (a \o b)[Len(a) + i] = b[i]
           /\ \A i \in DOMAIN (a \o b) : i \in DOMAIN a \/ \E h \in DOMAIN b : i = Len(a) + h
<1>1. /\ a \o b \in Seq(Nat) /\ DOMAIN (a \o b) = 1 .. Len(a) + Len(b)
      /\ DOMAIN a = 1 .. Len(a) /\ DOMAIN b = 1 .. Len(b) /\ Len(a) \in Nat /\ Len(b) \in Nat
      /\ \A i \in DOMAIN a : (a \o b)[i] = a[i]
      /\ \A i \in DOMAIN b : (a \o b)[Len(a) + i] = b[i]
  BY ConcatProperties, LenProperties
<1>2. \A i \in DOMAIN (a \o b) : i \in DOMAIN a \/ \E h \in DOMAIN b : i = Len(a) + h
  <2>1. SUFFICES ASSUME NEW i \in DOMAIN (a \o b), i \notin DOMAIN a
                 PROVE  \E h \in DOMAIN b : i = Len(a) + h
    OBVIOUS
  <2>2. i - Len(a) \in DOMAIN b /\ i = Len(a) + (i - Len(a))
    BY <1>1, <2>1
  <2>. QED  BY <2>2
<1>3. (\A i \in DOMAIN a : a[i] \in Nat) /\ \A i \in DOMAIN b : b[i] \in Nat
  BY <1>1, ElementOfSeq
<1>. QED  BY <1>1, <1>2, <1>3

LEMMA JoinedRises ==
    ASSUME NEW a \in Seq(Nat), NEW b \in Seq(Nat)
    PROVE  Rises(a \o b) <=> Rises(a) /\ Rises(b) /\ Below(a, b)
<1>. PICK c : c = a \o b
  OBVIOUS
<1>1. /\ c \in Seq(Nat) /\ DOMAIN c = 1 .. Len(a) + Len(b)
      /\ DOMAIN a = 1 .. Len(a) /\ DOMAIN b = 1 .. Len(b) /\ Len(a) \in Nat /\ Len(b) \in Nat
      /\ \A i \in DOMAIN a : a[i] \in Nat /\ i \in DOMAIN c /\ c[i] = a[i]
      /\ \A i \in DOMAIN b : b[i] \in Nat /\ Len(a) + i \in DOMAIN c /\ c[Len(a) + i] = b[i]
      /\ \A i \in DOMAIN c : i \in DOMAIN a \/ \E h \in DOMAIN b : i = Len(a) + h
  BY Joined
<1>2. ASSUME Rises(c) PROVE Rises(a) /\ Rises(b) /\ Below(a, b)
  <2>1. Rises(a)
    BY <1>1, <1>2 DEF Rises
  <2>2. ASSUME NEW i \in DOMAIN b, NEW j \in DOMAIN b, i < j PROVE b[i] < b[j]
    <3>1. Len(a) + i < Len(a) + j
      BY <1>1, <2>2
    <3>. QED  BY <1>1, <1>2, <3>1 DEF Rises
  <2>3. ASSUME NEW i \in DOMAIN a, NEW j \in DOMAIN b PROVE a[i] < b[j]
    <3>1. i < Len(a) + j
      BY <1>1
    <3>. QED  BY <1>1, <1>2, <3>1 DEF Rises
  <2>. QED  BY <2>1, <2>2, <2>3 DEF Rises, Below
<1>3. ASSUME Rises(a), Rises(b), Below(a, b), NEW i \in DOMAIN c, NEW j \in DOMAIN c, i < j
      PROVE  c[i] < c[j]
  <2>1. CASE i \in DOMAIN a /\ j \in DOMAIN a
    BY <1>1, <1>3, <2>1 DEF Rises
  <2>2. CASE i \in DOMAIN a /\ \E h \in DOMAIN b : j = Len(a) + h
    BY <1>1, <1>3, <2>2 DEF Below
  <2>3. CASE i \notin DOMAIN a
    <3>1. PICK g \in DOMAIN b : i = Len(a) + g
      BY <1>1, <2>3
    <3>2. j \notin DOMAIN a
      BY <1>1, <1>3, <2>3
    <3>3. PICK h \in DOMAIN b : j = Len(a) + h
      BY <1>1, <3>2
    <3>4. g < h /\ c[i] = b[g] /\ c[j] = b[h]
      BY <1>1, <1>3, <3>1, <3>3
    <3>. QED  BY <1>3, <3>4 DEF Rises
  <2>. QED  BY <1>1, <2>1, <2>2, <2>3
<1>. QED  BY <1>2, <1>3 DEF Rises

LEMMA JoinedBelow ==
    ASSUME NEW a \in Seq(Nat), NEW b \in Seq(Nat), NEW d \in Seq(Nat)
    PROVE  /\ Below(a \o b, d) <=> Below(a, d) /\ Below(b, d)
           /\ Below(d, a \o b) <=> Below(d, a) /\ Below(d, b)
<1>. PICK c : c = a \o b
  OBVIOUS
<1>1. /\ DOMAIN a = 1 .. Len(a) /\ DOMAIN b = 1 .. Len(b) /\ Len(a) \in Nat /\ Len(b) \in Nat
      /\ \A i \in DOMAIN a : i \in DOMAIN c /\ c[i] = a[i]
      /\ \A i \in DOMAIN b : Len(a) + i \in DOMAIN c /\ c[Len(a) + i] = b[i]
      /\ \A i \in DOMAIN c : i \in DOMAIN a \/ \E h \in DOMAIN b : i = Len(a) + h
  BY Joined
<1>2. \A i \in DOMAIN c : \/ \E h \in DOMAIN a : c[i] = a[h]
                          \/ \E h \in DOMAIN b : c[i] = b[h]
  BY <1>1
<1>3. /\ \A i \in DOMAIN a : \E h \in DOMAIN c : c[h] = a[i]
      /\ \A i \in DOMAIN b : \E h \in DOMAIN c : c[h] = b[i]
  BY <1>1
<1>4. Below(c, d) <=> Below(a, d) /\ Below(b, d)
  BY <1>2, <1>3, Zenon DEF Below
<1>5. Below(d, c) <=> Below(d, a) /\ Below(d, b)
  BY <1>2, <1>3, Zenon DEF Below
<1>. QED  BY <1>4, <1>5

LEMMA JoinedAmong ==
    ASSUME NEW a \in Seq(Nat), NEW b \in Seq(Nat), NEW n \in Nat
    PROVE  Among(a \o b, n) <=> Among(a, n) /\ Among(b, n)
<1>. PICK c : c = a \o b
  OBVIOUS
<1>1. /\ DOMAIN a = 1 .. Len(a) /\ DOMAIN b = 1 .. Len(b) /\ Len(a) \in Nat /\ Len(b) \in Nat
      /\ \A i \in DOMAIN a : i \in DOMAIN c /\ c[i] = a[i]
      /\ \A i \in DOMAIN b : Len(a) + i \in DOMAIN c /\ c[Len(a) + i] = b[i]
      /\ \A i \in DOMAIN c : i \in DOMAIN a \/ \E h \in DOMAIN b : i = Len(a) + h
  BY Joined
<1>2. \A i \in DOMAIN c : \/ \E h \in DOMAIN a : c[i] = a[h]
                          \/ \E h \in DOMAIN b : c[i] = b[h]
  BY <1>1
<1>3. /\ \A i \in DOMAIN a : \E h \in DOMAIN c : c[h] = a[i]
      /\ \A i \in DOMAIN b : \E h \in DOMAIN c : c[h] = b[i]
  BY <1>1
<1>. QED  BY <1>2, <1>3 DEF Among

\* what is left of bytes in turn is in turn
LEMMA InTurnParts ==
    ASSUME NEW a \in Seq(Nat), NEW b \in Seq(Nat), NEW n \in Nat
    PROVE  InTurn(a \o b, n) <=> InTurn(a, n) /\ InTurn(b, n) /\ Below(a, b)
BY JoinedRises, JoinedAmong DEF InTurn

LEMMA Dropped ==
    ASSUME NEW a \in Seq(Nat), NEW x \in Seq(Nat), NEW d \in Seq(Nat), NEW z \in Seq(Nat), NEW e \in Seq(Nat),
           NEW n \in Nat, InTurn((a \o (x \o (d \o z))) \o e, n)
    PROVE  InTurn((a \o d) \o e, n)
<1>1. /\ d \o z \in Seq(Nat) /\ x \o (d \o z) \in Seq(Nat) /\ a \o (x \o (d \o z)) \in Seq(Nat)
      /\ a \o d \in Seq(Nat)
  BY ConcatProperties
<1>2. InTurn(a \o (x \o (d \o z)), n) /\ InTurn(e, n) /\ Below(a \o (x \o (d \o z)), e)
  BY <1>1, InTurnParts
<1>3. InTurn(a, n) /\ InTurn(x \o (d \o z), n) /\ Below(a, x \o (d \o z))
  BY <1>1, <1>2, InTurnParts
<1>4. InTurn(d \o z, n) /\ Below(a, d \o z)
  BY <1>1, <1>3, InTurnParts, JoinedBelow
<1>5. InTurn(d, n) /\ Below(a, d)
  BY <1>1, <1>4, InTurnParts, JoinedBelow
<1>6. Below(a, e) /\ Below(d, e)
  <2>0. PICK y \in Seq(Nat) : y = x \o (d \o z)
    BY <1>1
  <2>3. Below(a \o y, e)
    BY <1>2, <2>0, Zenon
  <2>1. Below(a, e) /\ Below(y, e)
    <3>1. Below(a \o y, e) <=> Below(a, e) /\ Below(y, e)
      BY JoinedBelow
    <3>. QED  BY <2>3, <3>1
  <2>2. Below(d \o z, e)
    BY <1>1, <2>0, <2>1, JoinedBelow
  <2>. QED  BY <2>1, <2>2, JoinedBelow
<1>7. InTurn(a \o d, n) /\ Below(a \o d, e)
  BY <1>3, <1>5, <1>6, InTurnParts, JoinedBelow
<1>. QED  BY <1>1, <1>2, <1>7, InTurnParts

LEMMA Arrives ==
    ASSUME NEW a \in Seq(Nat), NEW n \in Nat
    PROVE  /\ InTurn(a, n) => InTurn(a \o <<n + 1>>, n + 1)
           /\ AllThere(a, n) => AllThere(a \o <<n + 1>>, n + 1)
<1>1. /\ <<n + 1>> \in Seq(Nat) /\ Len(<<n + 1>>) = 1 /\ <<n + 1>>[1] = n + 1
      /\ DOMAIN <<n + 1>> = 1 .. 1
  OBVIOUS
<1>2. ASSUME InTurn(a, n) PROVE InTurn(a \o <<n + 1>>, n + 1)
  <2>0. \A i \in DOMAIN a : a[i] \in Nat
    BY ElementOfSeq, LenProperties
  <2>1. InTurn(a, n + 1)
    BY <1>2, <2>0 DEF InTurn, Among
  <2>2. InTurn(<<n + 1>>, n + 1)
    BY <1>1 DEF InTurn, Among, Rises
  <2>3. Below(a, <<n + 1>>)
    <3>1. \A i \in DOMAIN a : a[i] < n + 1
      BY <1>2, <2>0 DEF InTurn, Among
    <3>2. \A j \in DOMAIN <<n + 1>> : <<n + 1>>[j] = n + 1
      BY <1>1
    <3>3. PICK w : w = <<n + 1>>
      OBVIOUS
    <3>4. \A i \in DOMAIN a, j \in DOMAIN w : a[i] < w[j]
      BY <3>1, <3>2, <3>3
    <3>. QED  BY <3>3, <3>4 DEF Below
  <2>4. PICK w \in Seq(Nat) : w = <<n + 1>>
    BY <1>1
  <2>5. n + 1 \in Nat /\ InTurn(w, n + 1) /\ Below(a, w)
    BY <2>2, <2>3, <2>4
  <2>6. InTurn(a \o w, n + 1)
    BY <2>1, <2>5, InTurnParts
  <2>. QED  BY <2>4, <2>6
<1>3. ASSUME AllThere(a, n) PROVE AllThere(a \o <<n + 1>>, n + 1)
  <2>1. Len(a) = n /\ \A i \in 1 .. n : a[i] = i
    BY <1>3, LenProperties DEF AllThere
  <2>2. /\ a \o <<n + 1>> \in Seq(Nat) /\ Len(a \o <<n + 1>>) = n + 1
        /\ \A i \in 1 .. n + 1 : (a \o <<n + 1>>)[i] = IF i <= n THEN a[i] ELSE <<n + 1>>[i - n]
    BY <1>1, <2>1, ConcatProperties
  <2>3. \A i \in 1 .. n + 1 : (a \o <<n + 1>>)[i] = i
    <3>1. SUFFICES ASSUME NEW i \in 1 .. n + 1 PROVE (a \o <<n + 1>>)[i] = i
      OBVIOUS
    <3>2. CASE i <= n
      BY <2>1, <2>2, <3>2
    <3>3. CASE i > n
      <4>1. i = n + 1 /\ i - n = 1
        BY <3>3
      <4>2. (a \o <<n + 1>>)[i] = <<n + 1>>[i - n]
        BY <2>2, <3>3
      <4>3. <<n + 1>>[i - n] = <<n + 1>>[1]
        BY <4>1
      <4>4. <<n + 1>>[1] = n + 1
        BY <1>1
      <4>5. (a \o <<n + 1>>)[i] = n + 1
        BY <4>2, <4>3, <4>4, Zenon
      <4>. QED  BY <4>1, <4>5
    <3>4. i <= n \/ i > n
      OBVIOUS
    <3>. QED  BY <3>2, <3>3, <3>4, Zenon
  <2>4. DOMAIN (a \o <<n + 1>>) = 1 .. n + 1
    BY <2>2, LenProperties
  <2>5. PICK c : c = a \o <<n + 1>>
    OBVIOUS
  <2>6. c = [i \in 1 .. n + 1 |-> c[i]]
    BY <2>2, <2>4, <2>5
  <2>. QED  BY <2>3, <2>5, <2>6 DEF AllThere
<1>. QED  BY <1>2, <1>3

LEMMA SameSeq ==
    ASSUME NEW u \in Seq(Nat), NEW a \in Seq(Nat), NEW b \in Seq(Nat),
           Len(u) = Len(a) + Len(b), \A i \in 1 .. Len(a) : u[i] = a[i],
           \A i \in 1 .. Len(b) : u[Len(a) + i] = b[i]
    PROVE  u = a \o b
<1>1. /\ DOMAIN a = 1 .. Len(a) /\ DOMAIN b = 1 .. Len(b) /\ DOMAIN (a \o b) = 1 .. Len(a) + Len(b)
      /\ Len(a) \in Nat /\ Len(b) \in Nat
      /\ a \o b \in Seq(Nat) /\ Len(a \o b) = Len(a) + Len(b)
  BY Joined, ConcatProperties, LenProperties
<1>2. ASSUME NEW i \in 1 .. Len(u) PROVE u[i] = (a \o b)[i]
  <2>1. i \in DOMAIN (a \o b)
    BY <1>1
  <2>2. CASE i \in DOMAIN a
    BY <1>1, <2>2, Joined
  <2>3. CASE \E h \in DOMAIN b : i = Len(a) + h
    <3>1. PICK h \in DOMAIN b : i = Len(a) + h
      BY <2>3
    <3>2. (a \o b)[Len(a) + h] = b[h]
      BY Joined
    <3>. QED  BY <1>1, <3>1, <3>2
  <2>. QED  BY <2>1, <2>2, <2>3, Joined
<1>. QED  BY <1>1, <1>2, SeqEqual

LEMMA HeldPushed ==
    ASSUME NEW s \in Nat, s > 0, NEW f \in Ring(s), NEW byte \in Nat
    PROVE  /\ Count(f) < s - 1 => Contents(Push(f, byte)) = Contents(f) \o <<byte>>
           /\ Count(f) = s - 1 => Contents(Push(f, byte)) = <<>>
<1>. PICK g : g = Push(f, byte)
  OBVIOUS
<1>1. g \in Ring(s)
  BY PushIs
<1>2. /\ Contents(f) \in Seq(Nat) /\ Len(Contents(f)) = Count(f) /\ Count(f) \in Nat
      /\ \A k \in 1 .. Count(f) : Contents(f)[k] = Cell(f, k)
      /\ Contents(g) \in Seq(Nat) /\ Len(Contents(g)) = Count(g)
      /\ \A k \in 1 .. Count(g) : Contents(g)[k] = Cell(g, k)
  BY <1>1, ContentsAre, CountFits
<1>3. ASSUME Count(f) < s - 1 PROVE Contents(g) = Contents(f) \o <<byte>>
  <2>1. /\ Count(g) = Count(f) + 1
        /\ \A k \in 1 .. Count(f) : Cell(g, k) = Cell(f, k)
        /\ Cell(g, Count(f) + 1) = byte
    BY <1>3, PushCells
  <2>0. <<byte>> \in Seq(Nat) /\ Len(<<byte>>) = 1 /\ <<byte>>[1] = byte
    OBVIOUS
  <2>2. PICK w \in Seq(Nat) : w = <<byte>> /\ Len(w) = 1 /\ w[1] = byte
    BY <2>0
  <2>3. \A i \in 1 .. Len(w) : i = 1
    BY <2>2
  <2>4. /\ \A k \in 1 .. Count(f) : Contents(g)[k] = Contents(f)[k]
        /\ \A k \in 1 .. Len(w) : Contents(g)[Count(f) + k] = w[k]
    BY <1>2, <2>1, <2>2, <2>3
  <2>5. Contents(g) = Contents(f) \o w
    BY <1>2, <2>1, <2>2, <2>4, SameSeq
  <2>. QED  BY <2>2, <2>5
<1>4. ASSUME Count(f) = s - 1 PROVE Contents(g) = <<>>
  <2>1. Count(g) = 0
    BY <1>4, PushOver
  <2>. QED  BY <1>2, <2>1, EmptySeq
<1>. QED  BY <1>3, <1>4

LEMMA HeldRemoved ==
    ASSUME NEW s \in Nat, s > 0, NEW f \in Ring(s), NEW n \in Nat
    PROVE  LET bytes == PeekAvailable(f, n)
           IN  /\ bytes \in Seq(Nat) /\ Len(bytes) \in Nat
               /\ Len(bytes) <= n /\ Len(bytes) <= Count(f)
               /\ Remove(f, Len(bytes)) \in Ring(s) /\ Remove(f, n) = Remove(f, Len(bytes))
               /\ Contents(f) = bytes \o Contents(Remove(f, Len(bytes)))
<1>. PICK m : m = Smaller(Count(f), n)
  OBVIOUS
<1>. PICK bytes : bytes = PeekAvailable(f, n)
  OBVIOUS
<1>1. /\ m \in Nat /\ m <= Count(f) /\ m <= n /\ Count(f) \in Nat
      /\ bytes \in Seq(Nat) /\ Len(bytes) = m
      /\ \A k \in 1 .. m : bytes[k] = Cell(f, k)
  BY PeekCells, CountFits
<1>2. Smaller(Count(f), m) = m
  BY <1>1, SmallerIs
<1>. PICK g : g = Remove(f, m)
  OBVIOUS
<1>3. /\ g \in Ring(s) /\ Count(g) = Count(f) - m
      /\ \A k \in 1 .. Count(f) - m : Cell(g, k) = Cell(f, k + m)
  BY <1>1, <1>2, RemoveIs, RemoveCells
<1>4. Remove(f, n) = g
  BY <1>2 DEF Remove
<1>5. /\ Contents(f) \in Seq(Nat) /\ Len(Contents(f)) = Count(f)
      /\ \A k \in 1 .. Count(f) : Contents(f)[k] = Cell(f, k)
      /\ Contents(g) \in Seq(Nat) /\ Len(Contents(g)) = Count(g)
      /\ \A k \in 1 .. Count(g) : Contents(g)[k] = Cell(g, k)
  BY <1>3, ContentsAre, CountFits
<1>6. \A k \in 1 .. m : Contents(f)[k] = bytes[k]
  BY <1>1, <1>5
<1>7. \A k \in 1 .. Count(g) : Contents(f)[m + k] = Contents(g)[k]
  <2>1. SUFFICES ASSUME NEW k \in 1 .. Count(g) PROVE Contents(f)[m + k] = Contents(g)[k]
    OBVIOUS
  <2>2. m + k \in 1 .. Count(f) /\ m + k = k + m /\ k \in 1 .. Count(f) - m
    BY <1>1, <1>3
  <2>. QED  BY <1>3, <1>5, <2>2
<1>8. Contents(f) = bytes \o Contents(g)
  <2>1. /\ Len(Contents(f)) = Len(bytes) + Len(Contents(g))
        /\ \A k \in 1 .. Len(bytes) : Contents(f)[k] = bytes[k]
        /\ \A k \in 1 .. Len(Contents(g)) : Contents(f)[Len(bytes) + k] = Contents(g)[k]
    BY <1>1, <1>3, <1>5, <1>6, <1>7
  <2>. QED  BY <1>1, <1>5, <2>1, SameSeq
<1>. QED  BY <1>1, <1>3, <1>4, <1>8

LEMMA HeldWritten ==
    ASSUME NEW s \in Nat, s > 0, NEW f \in Ring(s), NEW bytes \in Seq(Nat),
           Count(f) + Len(bytes) < s
    PROVE  Contents(WriteAvailable(f, bytes)) = Contents(f) \o bytes
<1>. PICK g : g = WriteAvailable(f, bytes)
  OBVIOUS
<1>1. /\ g \in Ring(s) /\ Count(g) = Count(f) + Len(bytes)
      /\ \A k \in 1 .. Count(f) : Cell(g, k) = Cell(f, k)
      /\ \A k \in 1 .. Len(bytes) : Cell(g, Count(f) + k) = bytes[k]
  BY WriteCells
<1>2. /\ Contents(f) \in Seq(Nat) /\ Len(Contents(f)) = Count(f) /\ Count(f) \in Nat
      /\ \A k \in 1 .. Count(f) : Contents(f)[k] = Cell(f, k)
      /\ Contents(g) \in Seq(Nat) /\ Len(Contents(g)) = Count(g) /\ Len(bytes) \in Nat
      /\ \A k \in 1 .. Count(g) : Contents(g)[k] = Cell(g, k)
  BY <1>1, ContentsAre, CountFits, LenProperties
<1>3. \A k \in 1 .. Count(f) : Contents(g)[k] = Contents(f)[k]
  BY <1>1, <1>2
<1>4. \A k \in 1 .. Len(bytes) : Contents(g)[Count(f) + k] = bytes[k]
  <2>1. \A k \in 1 .. Len(bytes) : Count(f) + k \in 1 .. Count(g)
    BY <1>1, <1>2
  <2>. QED  BY <1>1, <1>2, <2>1
<1>5. Contents(g) = Contents(f) \o bytes
  <2>1. /\ Len(Contents(g)) = Len(Contents(f)) + Len(bytes)
        /\ \A k \in 1 .. Len(Contents(f)) : Contents(g)[k] = Contents(f)[k]
        /\ \A k \in 1 .. Len(bytes) : Contents(g)[Len(Contents(f)) + k] = bytes[k]
    BY <1>1, <1>2, <1>3, <1>4
  <2>. QED  BY <1>2, <2>1, SameSeq
<1>. QED  BY <1>5

LEMMA Inside ==
    ASSUME NEW u \in Seq(Nat), NEW d \in Seq(Nat), Len(d) + 1 <= Len(u),
           \A i \in 1 .. Len(d) : d[i] = u[i + 1]
    PROVE  \E x \in Seq(Nat), z \in Seq(Nat) : u = x \o (d \o z)
<1>1. Len(u) \in Nat /\ Len(d) \in Nat /\ \A i \in 1 .. Len(u) : u[i] \in Nat
  BY LenProperties, ElementOfSeq
<1>. PICK h : h = Len(u) - (Len(d) + 1)
  OBVIOUS
<1>2. h \in Nat /\ Len(u) = 1 + (Len(d) + h)
  BY <1>1
<1>3. PICK x : x = [i \in 1 .. 1 |-> u[i]]
  OBVIOUS
<1>4. PICK z : z = [i \in 1 .. h |-> u[(Len(d) + 1) + i]]
  OBVIOUS
<1>5. x \in Seq(Nat) /\ Len(x) = 1 /\ \A i \in 1 .. 1 : x[i] = u[i]
  BY <1>1, <1>3
<1>6. z \in Seq(Nat) /\ Len(z) = h /\ \A i \in 1 .. h : z[i] = u[(Len(d) + 1) + i]
  <2>1. \A i \in 1 .. h : u[(Len(d) + 1) + i] \in Nat
    BY <1>1, <1>2
  <2>. QED  BY <1>2, <1>4, <2>1
<1>7. PICK v : v = d \o z
  OBVIOUS
<1>8. /\ v \in Seq(Nat) /\ Len(v) = Len(d) + h
      /\ \A i \in 1 .. Len(v) : v[i] = IF i <= Len(d) THEN d[i] ELSE z[i - Len(d)]
  <2>1. /\ d \o z \in Seq(Nat) /\ Len(d \o z) = Len(d) + Len(z)
        /\ \A i \in 1 .. Len(d) + Len(z) : (d \o z)[i] = IF i <= Len(d) THEN d[i] ELSE z[i - Len(d)]
    BY <1>6, ConcatProperties
  <2>. QED  BY <1>6, <1>7, <2>1
<1>9. \A i \in 1 .. Len(v) : u[1 + i] = v[i]
  <2>1. SUFFICES ASSUME NEW i \in 1 .. Len(v) PROVE u[1 + i] = v[i]
    OBVIOUS
  <2>2. CASE i <= Len(d)
    <3>1. i \in 1 .. Len(d) /\ 1 + i = i + 1
      BY <2>2
    <3>. QED  BY <1>8, <2>2, <3>1
  <2>3. CASE i > Len(d)
    <3>1. i - Len(d) \in 1 .. h /\ (Len(d) + 1) + (i - Len(d)) = 1 + i
      BY <1>1, <1>2, <1>8, <2>3
    <3>2. v[i] = z[i - Len(d)]
      BY <1>1, <1>8, <2>3
    <3>. QED  BY <1>6, <3>1, <3>2
  <2>. QED  BY <1>1, <2>2, <2>3
<1>10. u = x \o v
  <2>1. /\ Len(u) = Len(x) + Len(v)
        /\ \A i \in 1 .. Len(x) : u[i] = x[i]
        /\ \A i \in 1 .. Len(v) : u[Len(x) + i] = v[i]
    BY <1>2, <1>5, <1>8, <1>9
  <2>. QED  BY <1>5, <1>8, <2>1, SameSeq
<1>. QED  BY <1>5, <1>6, <1>7, <1>10

\* a write that is too long takes the first byte away, and itself is cut short
LEMMA HeldOverwritten ==
    ASSUME NEW s \in Nat, s > 0, NEW f \in Ring(s), NEW bytes \in Seq(Nat),
           Len(bytes) > 0, Count(f) + Len(bytes) >= s
    PROVE  \E x \in Seq(Nat), z \in Seq(Nat) :
              Contents(f) \o bytes = x \o (Contents(WriteAvailable(f, bytes)) \o z)
<1>. PICK g : g = WriteAvailable(f, bytes)
  OBVIOUS
<1>1. /\ g \in Ring(s) /\ Count(g) = s - 1
      /\ \A k \in 1 .. s - 1 : /\ k < Count(f) => Cell(g, k) = Cell(f, k + 1)
                               /\ k >= Count(f) => Cell(g, k) = bytes[k + 1 - Count(f)]
  BY WriteOverCells
<1>2. /\ Contents(f) \in Seq(Nat) /\ Len(Contents(f)) = Count(f) /\ Count(f) \in Nat
      /\ \A k \in 1 .. Count(f) : Contents(f)[k] = Cell(f, k)
      /\ Contents(g) \in Seq(Nat) /\ Len(Contents(g)) = Count(g) /\ Len(bytes) \in Nat
      /\ \A k \in 1 .. Count(g) : Contents(g)[k] = Cell(g, k)
  BY <1>1, ContentsAre, CountFits, LenProperties
<1>3. PICK u : u = Contents(f) \o bytes
  OBVIOUS
<1>4. /\ u \in Seq(Nat) /\ Len(u) = Count(f) + Len(bytes)
      /\ \A i \in 1 .. Len(u) :
            u[i] = IF i <= Count(f) THEN Contents(f)[i] ELSE bytes[i - Count(f)]
  <2>1. /\ Contents(f) \o bytes \in Seq(Nat) /\ Len(Contents(f) \o bytes) = Len(Contents(f)) + Len(bytes)
        /\ \A i \in 1 .. Len(Contents(f)) + Len(bytes) :
              (Contents(f) \o bytes)[i] = IF i <= Len(Contents(f)) THEN Contents(f)[i]
                                          ELSE bytes[i - Len(Contents(f))]
    BY <1>2, ConcatProperties
  <2>. QED  BY <1>2, <1>3, <2>1
<1>5. \A i \in 1 .. Count(g) : Contents(g)[i] = u[i + 1]
  <2>1. SUFFICES ASSUME NEW i \in 1 .. Count(g) PROVE Contents(g)[i] = u[i + 1]
    OBVIOUS
  <2>2. i + 1 \in 1 .. Len(u) /\ i \in 1 .. s - 1
    BY <1>1, <1>2, <1>4
  <2>3. CASE i < Count(f)
    <3>1. i + 1 \in 1 .. Count(f)
      BY <1>2, <2>3
    <3>2. u[i + 1] = Contents(f)[i + 1]
      BY <1>4, <2>2, <3>1
    <3>. QED  BY <1>1, <1>2, <2>2, <2>3, <3>1, <3>2
  <2>4. CASE i >= Count(f)
    <3>1. ~(i + 1 <= Count(f))
      BY <1>2, <2>4
    <3>2. u[i + 1] = bytes[i + 1 - Count(f)]
      <4>1. PICK k : k = i + 1
        OBVIOUS
      <4>2. u[k] = bytes[k - Count(f)]
        BY <1>4, <2>2, <3>1, <4>1
      <4>3. k - Count(f) = i + 1 - Count(f)
        BY <1>2, <4>1
      <4>. QED  BY <4>1, <4>2, <4>3, Zenon
    <3>. QED  BY <1>1, <1>2, <2>2, <2>4, <3>2
  <2>. QED  BY <1>2, <2>3, <2>4
<1>6. Len(Contents(g)) + 1 <= Len(u)
  BY <1>1, <1>2, <1>4
<1>7. \E x \in Seq(Nat), z \in Seq(Nat) : u = x \o (Contents(g) \o z)
  <2>2. PICK d \in Seq(Nat) : d = Contents(g)
    BY <1>2
  <2>1. Len(d) + 1 <= Len(u) /\ \A i \in 1 .. Len(d) : d[i] = u[i + 1]
    BY <1>2, <1>5, <1>6, <2>2
  <2>3. \E x \in Seq(Nat), z \in Seq(Nat) : u = x \o (d \o z)
    BY <1>4, <2>1, Inside
  <2>. QED  BY <2>2, <2>3
<1>. QED  BY <1>3, <1>7

LEMMA Grouped ==
    \A a \in Seq(Nat), b \in Seq(Nat), c \in Seq(Nat) : a \o (b \o c) = (a \o b) \o c
BY ConcatAssociative

\* what was sent on, then what ring holds, then what port holds
Way(a, f, g) == (a \o Contents(f)) \o Contents(g)

IsOver(f, bytes) == Len(bytes) > 0 /\ Len(bytes) + Count(f) >= f.size

LEMMA Passed ==
    ASSUME NEW s \in Nat, s > 0, NEW f \in Ring(s), NEW r \in Nat, r > 0, NEW g \in Ring(r),
           NEW a \in Seq(Nat), NEW n \in Nat, NEW k \in Nat
    PROVE  LET bytes == PeekAvailable(g, k)
               filled == WriteAvailable(f, bytes)
               rest == Remove(g, Len(bytes))
           IN  /\ filled \in Ring(s) /\ rest \in Ring(r)
               /\ InTurn(Way(a, f, g), n) => InTurn(Way(a, filled, rest), n)
               /\ AllThere(Way(a, f, g), n) /\ ~IsOver(f, bytes) => AllThere(Way(a, filled, rest), n)
<1>1. PICK bytes : bytes = PeekAvailable(g, k)
  OBVIOUS
<1>2. PICK rest : rest = Remove(g, Len(bytes))
  OBVIOUS
<1>3. PICK filled : filled = WriteAvailable(f, bytes)
  OBVIOUS
<1>4. /\ bytes \in Seq(Nat) /\ Len(bytes) \in Nat /\ rest \in Ring(r)
      /\ Contents(g) = bytes \o Contents(rest)
  BY <1>1, <1>2, HeldRemoved
<1>5. bytes \in Seq(Nat)
  BY <1>4
<1>6. /\ Count(f) \in Nat /\ f.size = s /\ Contents(f) \in Seq(Nat) /\ Count(f) < s
      /\ Contents(rest) \in Seq(Nat)
  BY <1>4, CountFits, RingFields, ContentsAre
<1>7. PICK h : h \in Seq(Nat) /\ h = Contents(f)
  BY <1>6
<1>8. PICK e : e \in Seq(Nat) /\ e = Contents(rest)
  BY <1>6
<1>9. h \in Seq(Nat) /\ e \in Seq(Nat)
  BY <1>7, <1>8
<1>10. (a \o h) \o (bytes \o e) = (a \o (h \o bytes)) \o e
  <2>1. PICK u : u \in Seq(Nat) /\ u = a \o h
    BY <1>9, ConcatProperties
  <2>2. u \in Seq(Nat)
    BY <2>1
  <2>3. u \o (bytes \o e) = (u \o bytes) \o e
    BY <1>5, <1>9, <2>2, Grouped, Zenon
  <2>4. (a \o h) \o bytes = a \o (h \o bytes)
    BY <1>5, <1>9, Grouped, Zenon
  <2>. QED  BY <2>1, <2>3, <2>4, Zenon
<1>11. Way(a, f, g) = (a \o (h \o bytes)) \o e
  BY <1>4, <1>7, <1>8, <1>10, Zenon DEF Way
<1>12. CASE IsOver(f, bytes)
  <2>1. Len(bytes) > 0 /\ Count(f) + Len(bytes) >= s
    BY <1>4, <1>6, <1>12 DEF IsOver
  <2>2. PICK d : d \in Seq(Nat) /\ d = Contents(filled) /\ filled \in Ring(s)
    BY <1>3, <1>5, <2>1, WriteOverCells, ContentsAre
  <2>3. \E x \in Seq(Nat), z \in Seq(Nat) :
           Contents(f) \o bytes = x \o (Contents(WriteAvailable(f, bytes)) \o z)
    BY <1>5, <2>1, HeldOverwritten
  <2>4. PICK x, z : /\ x \in Seq(Nat) /\ z \in Seq(Nat)
                    /\ h \o bytes = x \o (d \o z)
    BY <1>3, <1>7, <2>2, <2>3, Zenon
  <2>5. d \in Seq(Nat) /\ x \in Seq(Nat) /\ z \in Seq(Nat)
    BY <2>2, <2>4
  <2>6. InTurn((a \o (x \o (d \o z))) \o e, n) => InTurn((a \o d) \o e, n)
    BY <1>9, <2>5, Dropped
  <2>7. Way(a, f, g) = (a \o (x \o (d \o z))) \o e
    BY <1>11, <2>4, Zenon
  <2>8. Way(a, filled, rest) = (a \o d) \o e
    BY <1>8, <2>2, Zenon DEF Way
  <2>. QED  BY <1>1, <1>2, <1>3, <1>4, <1>12, <2>2, <2>6, <2>7, <2>8
<1>13. CASE ~IsOver(f, bytes)
  <2>1. Count(f) + Len(bytes) < s
    BY <1>4, <1>6, <1>13 DEF IsOver
  <2>2. filled \in Ring(s) /\ Contents(filled) = Contents(f) \o bytes
    BY <1>3, <1>5, <2>1, HeldWritten, WriteCells
  <2>3. Way(a, filled, rest) = (a \o (h \o bytes)) \o e
    BY <1>7, <1>8, <2>2, Zenon DEF Way
  <2>. QED  BY <1>1, <1>2, <1>3, <1>4, <1>11, <2>2, <2>3, Zenon
<1>. QED  BY <1>12, <1>13

LEMMA WentOn ==
    ASSUME NEW s \in Nat, s > 0, NEW f \in Ring(s), NEW r \in Nat, r > 0, NEW g \in Ring(r),
           NEW a \in Seq(Nat), NEW k \in Nat
    PROVE  LET bytes == PeekAvailable(f, k)
           IN  /\ a \o bytes \in Seq(Nat) /\ Len(bytes) \in Nat /\ Len(bytes) <= k
               /\ Remove(f, Len(bytes)) \in Ring(s) /\ Remove(f, k) = Remove(f, Len(bytes))
               /\ Way(a \o bytes, Remove(f, Len(bytes)), g) = Way(a, f, g)
<1>b. PICK bytes \in Seq(Nat) : bytes = PeekAvailable(f, k)
  BY HeldRemoved
<1>r. PICK rest : rest = Remove(f, Len(bytes))
  OBVIOUS
<1>1. /\ bytes \in Seq(Nat) /\ Len(bytes) \in Nat /\ rest \in Ring(s) /\ Len(bytes) <= k
      /\ Remove(f, k) = rest
      /\ Contents(f) = bytes \o Contents(rest)
  BY <1>b, <1>r, HeldRemoved
<1>2. Contents(rest) \in Seq(Nat)
  BY <1>1, ContentsAre
<1>3. (a \o bytes) \o Contents(rest) = a \o (bytes \o Contents(rest))
  <2>1. PICK e \in Seq(Nat) : e = Contents(rest)
    BY <1>2
  <2>2. (a \o bytes) \o e = a \o (bytes \o e)
    BY ConcatAssociative
  <2>. QED  BY <2>1, <2>2
<1>4. Way(a \o bytes, rest, g) = Way(a, f, g)
  BY <1>1, <1>3, Zenon DEF Way
<1>5. a \o bytes \in Seq(Nat)
  BY <1>1, ConcatProperties
<1>. QED  BY <1>1, <1>4, <1>5, <1>b, <1>r

LEMMA PortTook ==
    ASSUME NEW s \in Nat, s > 0, NEW f \in Ring(s), NEW r \in Nat, r > 0, NEW g \in Ring(r),
           NEW a \in Seq(Nat), NEW n \in Nat
    PROVE  /\ Push(g, n + 1) \in Ring(r)
           /\ InTurn(Way(a, f, g), n) => InTurn(Way(a, f, Push(g, n + 1)), n + 1)
           /\ AllThere(Way(a, f, g), n) /\ Count(g) # r - 1
                 => AllThere(Way(a, f, Push(g, n + 1)), n + 1)
<1>1. n + 1 \in Nat
  OBVIOUS
<1>2. Push(g, n + 1) \in Ring(r) /\ Count(g) \in Nat /\ Count(g) < r
  BY <1>1, PushIs, CountFits
<1>3. PICK u : u \in Seq(Nat) /\ u = a \o Contents(f)
  BY ContentsAre, ConcatProperties
<1>4. PICK h : h \in Seq(Nat) /\ h = Contents(g)
  BY ContentsAre
<1>5. u \in Seq(Nat) /\ h \in Seq(Nat)
  BY <1>3, <1>4
<1>6. Way(a, f, g) = u \o h
  BY <1>3, <1>4, Zenon DEF Way
<1>7. PICK w : w \in Seq(Nat) /\ w = u \o h
  BY <1>5, ConcatProperties
<1>8. CASE Count(g) < r - 1
  <2>1. Contents(Push(g, n + 1)) = Contents(g) \o <<n + 1>>
    BY <1>1, <1>8, HeldPushed
  <2>0. <<n + 1>> \in Seq(Nat)
    OBVIOUS
  <2>2. PICK e : e \in Seq(Nat) /\ e = <<n + 1>>
    BY <2>0
  <2>3. e \in Seq(Nat) /\ u \o (h \o e) = (u \o h) \o e
    BY <1>5, <2>2, Grouped, Zenon
  <2>4. Way(a, f, Push(g, n + 1)) = w \o <<n + 1>>
    BY <1>3, <1>4, <1>7, <2>1, <2>2, <2>3, Zenon DEF Way
  <2>5. w \in Seq(Nat)
    BY <1>7
  <2>6. /\ InTurn(w, n) => InTurn(w \o <<n + 1>>, n + 1)
        /\ AllThere(w, n) => AllThere(w \o <<n + 1>>, n + 1)
    BY <2>5, Arrives
  <2>. QED  BY <1>2, <1>6, <1>7, <2>4, <2>6, Zenon
<1>9. CASE Count(g) = r - 1
  <2>1. Contents(Push(g, n + 1)) = <<>>
    BY <1>1, <1>9, HeldPushed
  <2>2. u \o <<>> = u
    BY <1>5, ConcatSimplifications
  <2>3. Way(a, f, Push(g, n + 1)) = u
    BY <1>3, <2>1, <2>2, Zenon DEF Way
  <2>4. ASSUME InTurn(w, n) PROVE InTurn(u, n + 1)
    <3>1. InTurn(u \o h, n)
      BY <1>7, <2>4, Zenon
    <3>2. InTurn(u, n)
      BY <1>5, <3>1, InTurnParts
    <3>3. \A i \in DOMAIN u : u[i] \in Nat
      BY <1>5, ElementOfSeq, LenProperties
    <3>. QED  BY <3>2, <3>3 DEF InTurn, Among
  <2>. QED  BY <1>2, <1>6, <1>7, <1>9, <2>3, <2>4, Zenon
<1>. QED  BY <1>2, <1>8, <1>9

\* Relays names the ring's operators through an instance
LEMMA RingsAgree ==
    \A f, x :
       /\ Fifo!New(f, x) = New(f, x)           /\ Fifo!Count(f) = Count(f)
       /\ Fifo!Smaller(f, x) = Smaller(f, x)   /\ Fifo!Push(f, x) = Push(f, x)
       /\ Fifo!WriteAvailable(f, x) = WriteAvailable(f, x)
       /\ Fifo!PeekAvailable(f, x) = PeekAvailable(f, x)
       /\ Fifo!Remove(f, x) = Remove(f, x)     /\ Fifo!AfterRead(f, x) = Remove(f, x)
       /\ Fifo!Contents(f) = Contents(f)
<1>. SUFFICES ASSUME NEW f, NEW x
              PROVE  /\ Fifo!New(f, x) = New(f, x)           /\ Fifo!Count(f) = Count(f)
                     /\ Fifo!Smaller(f, x) = Smaller(f, x)   /\ Fifo!Push(f, x) = Push(f, x)
                     /\ Fifo!WriteAvailable(f, x) = WriteAvailable(f, x)
                     /\ Fifo!PeekAvailable(f, x) = PeekAvailable(f, x)
                     /\ Fifo!Remove(f, x) = Remove(f, x)     /\ Fifo!AfterRead(f, x) = Remove(f, x)
                     /\ Fifo!Contents(f) = Contents(f)
  OBVIOUS
<1>1. Fifo!New(f, x) = New(f, x) /\ Fifo!Count(f) = Count(f) /\ Fifo!Smaller(f, x) = Smaller(f, x)
  BY Zenon DEF Fifo!New, New, Fifo!Count, Count, Fifo!Smaller, Smaller
<1>2. Fifo!Push(f, x) = Push(f, x)
  BY Zenon DEF Fifo!Push, Push, Fifo!IsFull, IsFull, Fifo!Step, Step, Fifo!Count, Count
<1>3. Fifo!WriteAvailable(f, x) = WriteAvailable(f, x)
  BY Zenon DEF Fifo!WriteAvailable, WriteAvailable, Fifo!Smaller, Smaller, Fifo!Count, Count,
               Fifo!Step, Step
<1>4. Fifo!PeekAvailable(f, x) = PeekAvailable(f, x) /\ Fifo!Contents(f) = Contents(f)
  BY Zenon DEF Fifo!PeekAvailable, PeekAvailable, Fifo!Contents, Contents, Fifo!Smaller, Smaller,
               Fifo!Count, Count, Fifo!Step, Step
<1>5. Fifo!Remove(f, x) = Remove(f, x) /\ Fifo!AfterRead(f, x) = Remove(f, x)
  BY Zenon DEF Fifo!Remove, Remove, Fifo!AfterRead, Fifo!Smaller, Smaller, Fifo!Count, Count,
               Fifo!Step, Step
<1>. QED  BY <1>1, <1>2, <1>3, <1>4, <1>5

RelayTypes ==
    /\ relay \in RelayKinds /\ came \in Nat /\ free \in Nat
    /\ port \in Ring(PortSize) /\ ring \in Ring(relay.capacity) /\ copy \in Ring(relay.capacity)
    /\ sentOn \in Seq(Nat) /\ seen \in Seq(Nat)

\* The inductive invariant: what was sent on, the relay's ring and the UART's are
\* in turn one behind the other, and so are what the monitor's reader has seen,
\* the monitor's ring and the UART's.
SentInTurn == InTurn(Way(sentOn, ring, port), came)
SeenInTurn == InTurn(Way(seen, copy, port), came)
AllSent    == AllThere(Way(sentOn, ring, port), came)
AllSeen    == AllThere(Way(seen, copy, port), came)

RelayInv ==
    /\ RelayTypes
    /\ SentInTurn /\ ("port" \notin lossy /\ "ring" \notin lossy => AllSent)
    /\ ~IsLoop => SeenInTurn
    /\ ~IsLoop /\ "port" \notin lossy /\ "copy" \notin lossy => AllSeen
    /\ "ring" \in lossy => IsLoop /\ relay.capacity < PortSize

LEMMA RelaySizes ==
    ASSUME RelayTypes
    PROVE  /\ relay.capacity \in Nat /\ relay.capacity > 0 /\ PortSize \in Nat /\ PortSize > 0
           /\ JunkSize \in Nat /\ JunkSize <= relay.capacity
           /\ ring.size = relay.capacity /\ copy.size = relay.capacity
           /\ Count(ring) \in Nat
<1>1. /\ relay.capacity \in Nat /\ relay.capacity > 0 /\ PortSize \in Nat /\ PortSize > 0
      /\ RelayJunks \in Nat /\ RelayJunks > 0
  BY RelayAssumption DEF RelayTypes
<1>2. JunkSize \in Nat /\ JunkSize <= relay.capacity
  <2>1. PICK q \in Nat : q = relay.capacity
    BY <1>1
  <2>2. q \div RelayJunks \in Nat /\ q \div RelayJunks <= q
    BY <1>1
  <2>. QED  BY <2>1, <2>2 DEF JunkSize
<1>3. ring.size = relay.capacity /\ copy.size = relay.capacity /\ Count(ring) \in Nat
  BY <1>1, RingFields, CountFits DEF RelayTypes
<1>. QED  BY <1>1, <1>2, <1>3

LEMMA RelayStarts ==
    ASSUME RInit
    PROVE  RelayInv
<1>1. /\ relay.capacity \in Nat /\ relay.capacity > 0 /\ PortSize \in Nat /\ PortSize > 0
      /\ PortRoom \in Nat
  BY RelayAssumption DEF RInit
<1>2. /\ relay \in RelayKinds /\ free = PortRoom /\ came = 0 /\ sentOn = <<>> /\ seen = <<>> /\ lossy = {}
      /\ port = New(PortSize, 0) /\ ring = New(relay.capacity, 0) /\ copy = New(relay.capacity, 0)
  BY RingsAgree, Zenon DEF RInit
<1>3. /\ port \in Ring(PortSize) /\ ring \in Ring(relay.capacity) /\ copy \in Ring(relay.capacity)
      /\ Count(port) = 0 /\ Count(ring) = 0 /\ Count(copy) = 0
  BY <1>1, <1>2, NewRing
<1>4. RelayTypes
  BY <1>1, <1>2, <1>3 DEF RelayTypes
<1>5. Contents(port) = <<>> /\ Contents(ring) = <<>> /\ Contents(copy) = <<>>
  BY <1>1, <1>3, ContentsAre, EmptySeq
<1>6. (<<>> \o <<>>) \o <<>> = <<>>
  OBVIOUS
<1>7. Way(sentOn, ring, port) = <<>> /\ Way(seen, copy, port) = <<>>
  BY <1>2, <1>5, <1>6, Zenon DEF Way
<1>8. InTurn(<<>>, 0) /\ AllThere(<<>>, 0)
  BY DEF InTurn, Rises, Among, AllThere
<1>. QED  BY <1>2, <1>4, <1>7, <1>8 DEF RelayInv, SentInTurn, SeenInTurn, AllSent, AllSeen

LEMMA ReceiveRelayed ==
    ASSUME RelayInv, PortReceives
    PROVE  RelayInv'
<1>1. /\ relay.capacity \in Nat /\ relay.capacity > 0 /\ PortSize \in Nat /\ PortSize > 0
      /\ RelayTypes
  BY RelaySizes DEF RelayInv
<1>2. /\ came \in Nat /\ port \in Ring(PortSize) /\ sentOn \in Seq(Nat) /\ seen \in Seq(Nat)
      /\ ring \in Ring(relay.capacity) /\ copy \in Ring(relay.capacity)
  BY <1>1 DEF RelayTypes
<1>4. /\ Push(port, came + 1) \in Ring(PortSize)
      /\ InTurn(Way(sentOn, ring, port), came)
            => InTurn(Way(sentOn, ring, Push(port, came + 1)), came + 1)
      /\ AllThere(Way(sentOn, ring, port), came) /\ Count(port) # PortSize - 1
            => AllThere(Way(sentOn, ring, Push(port, came + 1)), came + 1)
  BY <1>1, <1>2, PortTook
<1>5. /\ InTurn(Way(seen, copy, port), came)
            => InTurn(Way(seen, copy, Push(port, came + 1)), came + 1)
      /\ AllThere(Way(seen, copy, port), came) /\ Count(port) # PortSize - 1
            => AllThere(Way(seen, copy, Push(port, came + 1)), came + 1)
  BY <1>1, <1>2, PortTook
<1>6. /\ came' = came + 1 /\ port' = Push(port, came + 1)
      /\ lossy' = IF Count(port) = PortSize - 1 THEN lossy \cup {"port"} ELSE lossy
      /\ relay' = relay /\ ring' = ring /\ copy' = copy /\ free' = free
      /\ sentOn' = sentOn /\ seen' = seen
  <2>1. /\ came' = came + 1 /\ port' = Fifo!Push(port, came + 1)
        /\ lossy' = IF Fifo!Count(port) = PortSize - 1 THEN lossy \cup {"port"} ELSE lossy
    BY DEF PortReceives
  <2>2. Fifo!Push(port, came + 1) = Push(port, came + 1) /\ Fifo!Count(port) = Count(port)
    BY RingsAgree
  <2>3. /\ relay' = relay /\ ring' = ring /\ copy' = copy /\ free' = free
        /\ sentOn' = sentOn /\ seen' = seen
    BY DEF PortReceives
  <2>. QED  BY <2>1, <2>2, <2>3
<1>7. /\ "ring" \in lossy' <=> "ring" \in lossy
      /\ "copy" \in lossy' <=> "copy" \in lossy
      /\ "port" \notin lossy' <=> "port" \notin lossy /\ Count(port) # PortSize - 1
  BY <1>6
<1>8. RelayTypes'
  BY <1>1, <1>2, <1>4, <1>6 DEF RelayTypes
<1>9. IsLoop' <=> IsLoop
  BY <1>6, Zenon DEF IsLoop
<1>10. /\ SentInTurn' <=> InTurn(Way(sentOn, ring, Push(port, came + 1)), came + 1)
       /\ SeenInTurn' <=> InTurn(Way(seen, copy, Push(port, came + 1)), came + 1)
       /\ AllSent' <=> AllThere(Way(sentOn, ring, Push(port, came + 1)), came + 1)
       /\ AllSeen' <=> AllThere(Way(seen, copy, Push(port, came + 1)), came + 1)
  BY <1>6, Zenon DEF SentInTurn, SeenInTurn, AllSent, AllSeen, Way, InTurn, AllThere
<1>11. /\ SentInTurn /\ ("port" \notin lossy /\ "ring" \notin lossy => AllSent)
       /\ ~IsLoop => SeenInTurn
       /\ ~IsLoop /\ "port" \notin lossy /\ "copy" \notin lossy => AllSeen
       /\ "ring" \in lossy => IsLoop /\ relay.capacity < PortSize
  BY DEF RelayInv
<1>12. SentInTurn' /\ ("port" \notin lossy' /\ "ring" \notin lossy' => AllSent')
  BY <1>4, <1>7, <1>10, <1>11, Zenon DEF SentInTurn, AllSent
<1>13. /\ ~IsLoop' => SeenInTurn'
       /\ ~IsLoop' /\ "port" \notin lossy' /\ "copy" \notin lossy' => AllSeen'
  BY <1>5, <1>7, <1>9, <1>10, <1>11, Zenon DEF SeenInTurn, AllSeen
<1>14. "ring" \in lossy' => IsLoop' /\ relay'.capacity < PortSize
  BY <1>6, <1>7, <1>9, <1>11
<1>. QED  BY <1>8, <1>12, <1>13, <1>14 DEF RelayInv

\* what a signal task takes is what a peek of some length gives
LEMMA TakenIs ==
    ASSUME RelayTypes, NEW chunk \in Nat
    PROVE  \E k \in Nat :
             /\ k <= chunk /\ (k = 0 \/ HasRoom(chunk))
             /\ (IF Fifo!Count(port) > 0 /\ HasRoom(chunk) THEN Taken(chunk) ELSE <<>>)
                  = PeekAvailable(port, k)
<1>1. PortSize \in Nat /\ PortSize > 0 /\ port \in Ring(PortSize)
  BY RelaySizes DEF RelayTypes
<1>2. CASE Fifo!Count(port) > 0 /\ HasRoom(chunk)
  <2>1. Taken(chunk) = PeekAvailable(port, chunk)
    BY RingsAgree, Zenon DEF Taken
  <2>2. chunk <= chunk
    OBVIOUS
  <2>. QED  BY <1>2, <2>1, <2>2, Zenon
<1>3. CASE ~(Fifo!Count(port) > 0 /\ HasRoom(chunk))
  <2>1. 0 \in Nat /\ 0 <= chunk
    OBVIOUS
  <2>2. PICK e : e = PeekAvailable(port, 0)
    OBVIOUS
  <2>3. e \in Seq(Nat) /\ Len(e) \in Nat /\ Len(e) <= 0
    BY <1>1, <2>1, <2>2, HeldRemoved
  <2>4. e = <<>>
    BY <2>3, EmptySeq
  <2>. QED  BY <1>3, <2>1, <2>2, <2>4, Zenon
<1>. QED  BY <1>2, <1>3

LEMMA LoopRelayed ==
    ASSUME RelayInv, LoopbackTask
    PROVE  RelayInv'
<1>1. /\ relay.capacity \in Nat /\ relay.capacity > 0 /\ PortSize \in Nat /\ PortSize > 0
      /\ Count(ring) \in Nat /\ ring.size = relay.capacity /\ RelayTypes
  BY RelaySizes DEF RelayInv
<1>2. /\ came \in Nat /\ free \in Nat /\ port \in Ring(PortSize)
      /\ sentOn \in Seq(Nat) /\ ring \in Ring(relay.capacity)
  BY <1>1 DEF RelayTypes
<1>3. PICK k \in Nat :
        /\ k <= PortSize /\ (k = 0 \/ HasRoom(PortSize))
        /\ (IF Fifo!Count(port) > 0 /\ HasRoom(PortSize) THEN Taken(PortSize) ELSE <<>>)
             = PeekAvailable(port, k)
  BY <1>1, TakenIs
<1>4. PICK bytes : bytes = PeekAvailable(port, k)
  OBVIOUS
<1>5. PICK filled : filled = WriteAvailable(ring, bytes)
  OBVIOUS
<1>6. PICK rest : rest = Remove(port, Len(bytes))
  OBVIOUS
<1>7. PICK m \in Nat : m = Smaller(PortSize, free) /\ m <= free
  BY <1>1, <1>2, SmallerIs
<1>8. PICK sending : sending = PeekAvailable(filled, m)
  OBVIOUS
<1>9. /\ bytes \in Seq(Nat) /\ Len(bytes) \in Nat /\ Len(bytes) <= k
  BY <1>1, <1>2, <1>4, HeldRemoved
<1>10. /\ filled \in Ring(relay.capacity) /\ rest \in Ring(PortSize)
       /\ InTurn(Way(sentOn, ring, port), came) => InTurn(Way(sentOn, filled, rest), came)
       /\ AllThere(Way(sentOn, ring, port), came) /\ ~IsOver(ring, bytes)
             => AllThere(Way(sentOn, filled, rest), came)
  BY <1>1, <1>2, <1>4, <1>5, <1>6, Passed
<1>11. /\ sentOn \o sending \in Seq(Nat) /\ Len(sending) \in Nat /\ Len(sending) <= m
       /\ Remove(filled, Len(sending)) \in Ring(relay.capacity)
       /\ Way(sentOn \o sending, Remove(filled, Len(sending)), rest) = Way(sentOn, filled, rest)
  BY <1>1, <1>2, <1>8, <1>10, WentOn
<1>12. /\ port' = rest /\ ring' = Remove(filled, Len(sending))
       /\ sentOn' = sentOn \o sending /\ free' = free - Len(sending)
       /\ lossy' = IF IsOver(ring, bytes) THEN lossy \cup {"ring"} ELSE lossy
       /\ IsLoop
  <2>1. Fifo!WriteAvailable(ring, bytes) = filled
    BY <1>5, RingsAgree, Zenon
  <2>2. SendFrom(filled, PortSize) = sending
    BY <1>7, <1>8, RingsAgree, Zenon DEF SendFrom
  <2>3. Fifo!Remove(port, Len(bytes)) = rest
        /\ Fifo!Remove(filled, Len(sending)) = Remove(filled, Len(sending))
    BY <1>6, RingsAgree, Zenon
  <2>4. Overflows(ring, bytes) <=> IsOver(ring, bytes)
    <3>1. Fifo!Count(ring) = Count(ring)
      BY RingsAgree
    <3>. QED  BY <3>1, Zenon DEF Overflows, IsOver
  <2>. QED  BY <1>3, <1>4, <2>1, <2>2, <2>3, <2>4, Zenon DEF LoopbackTask
<1>13. relay' = relay /\ copy' = copy /\ came' = came /\ seen' = seen
  BY DEF LoopbackTask
<1>14. /\ "ring" \in lossy' <=> "ring" \in lossy \/ IsOver(ring, bytes)
       /\ "port" \in lossy' <=> "port" \in lossy
  BY <1>12
<1>15. RelayTypes'
  BY <1>1, <1>2, <1>7, <1>10, <1>11, <1>12, <1>13 DEF RelayTypes
<1>16. IsLoop' /\ IsLoop
  BY <1>12, <1>13, Zenon DEF IsLoop
<1>17. /\ SentInTurn' <=> InTurn(Way(sentOn, filled, rest), came)
       /\ AllSent' <=> AllThere(Way(sentOn, filled, rest), came)
  BY <1>11, <1>12, <1>13, Zenon DEF SentInTurn, AllSent, Way, InTurn, AllThere
<1>18. /\ SentInTurn /\ ("port" \notin lossy /\ "ring" \notin lossy => AllSent)
       /\ "ring" \in lossy => IsLoop /\ relay.capacity < PortSize
  BY DEF RelayInv
<1>19. SentInTurn' /\ ("port" \notin lossy' /\ "ring" \notin lossy' => AllSent')
  BY <1>10, <1>14, <1>17, <1>18, Zenon DEF SentInTurn, AllSent
<1>20. "ring" \in lossy' => IsLoop' /\ relay'.capacity < PortSize
  <2>1. IsOver(ring, bytes) => relay.capacity < PortSize
    <3>1. Fifo!Count(ring) = Count(ring)
      BY RingsAgree
    <3>2. ASSUME IsOver(ring, bytes) PROVE relay.capacity < PortSize
      <4>1. Len(bytes) > 0 /\ Len(bytes) + Count(ring) >= relay.capacity
        BY <1>1, <3>2 DEF IsOver
      <4>2. HasRoom(PortSize)
        BY <1>3, <1>9, <4>1
      <4>3. relay.capacity < PortSize \/ Count(ring) < relay.capacity - PortSize
        BY <3>1, <4>2 DEF HasRoom
      <4>. QED  BY <1>1, <1>3, <1>9, <4>1, <4>3
    <3>. QED  BY <3>2
  <2>. QED  BY <1>13, <1>14, <1>16, <1>18, <2>1
<1>. QED  BY <1>15, <1>16, <1>19, <1>20 DEF RelayInv

LEMMA MonitorRelayed ==
    ASSUME RelayInv, MonitorSignalTask
    PROVE  RelayInv'
<1>1. /\ relay.capacity \in Nat /\ relay.capacity > 0 /\ PortSize \in Nat /\ PortSize > 0
      /\ JunkSize \in Nat /\ JunkSize <= relay.capacity
      /\ Count(ring) \in Nat /\ ring.size = relay.capacity /\ RelayTypes
  BY RelaySizes DEF RelayInv
<1>2. /\ came \in Nat /\ port \in Ring(PortSize) /\ sentOn \in Seq(Nat) /\ seen \in Seq(Nat)
      /\ ring \in Ring(relay.capacity) /\ copy \in Ring(relay.capacity)
  BY <1>1 DEF RelayTypes
<1>3. PICK k \in Nat :
        /\ k <= JunkSize /\ (k = 0 \/ HasRoom(JunkSize))
        /\ (IF Fifo!Count(port) > 0 /\ HasRoom(JunkSize) THEN Taken(JunkSize) ELSE <<>>)
             = PeekAvailable(port, k)
  BY <1>1, TakenIs
<1>4. PICK bytes : bytes = PeekAvailable(port, k)
  OBVIOUS
<1>5. PICK filled : filled = WriteAvailable(ring, bytes)
  OBVIOUS
<1>6. PICK copied : copied = WriteAvailable(copy, bytes)
  OBVIOUS
<1>7. PICK rest : rest = Remove(port, Len(bytes))
  OBVIOUS
<1>8. /\ bytes \in Seq(Nat) /\ Len(bytes) \in Nat /\ Len(bytes) <= k
  BY <1>1, <1>2, <1>4, HeldRemoved
<1>9. /\ filled \in Ring(relay.capacity) /\ rest \in Ring(PortSize)
      /\ InTurn(Way(sentOn, ring, port), came) => InTurn(Way(sentOn, filled, rest), came)
      /\ AllThere(Way(sentOn, ring, port), came) /\ ~IsOver(ring, bytes)
            => AllThere(Way(sentOn, filled, rest), came)
  BY <1>1, <1>2, <1>4, <1>5, <1>7, Passed
<1>10. /\ copied \in Ring(relay.capacity)
       /\ InTurn(Way(seen, copy, port), came) => InTurn(Way(seen, copied, rest), came)
       /\ AllThere(Way(seen, copy, port), came) /\ ~IsOver(copy, bytes)
             => AllThere(Way(seen, copied, rest), came)
  BY <1>1, <1>2, <1>4, <1>6, <1>7, Passed
<1>11. ~IsOver(ring, bytes)
  <2>1. Fifo!Count(ring) = Count(ring)
    BY RingsAgree
  <2>2. ASSUME IsOver(ring, bytes) PROVE FALSE
    <3>1. Len(bytes) > 0 /\ Len(bytes) + Count(ring) >= relay.capacity
      BY <1>1, <2>2 DEF IsOver
    <3>2. HasRoom(JunkSize)
      BY <1>3, <1>8, <3>1
    <3>3. relay.capacity < JunkSize \/ Count(ring) < relay.capacity - JunkSize
      BY <2>1, <3>2 DEF HasRoom
    <3>. QED  BY <1>1, <1>3, <1>8, <3>1, <3>3
  <2>. QED  BY <2>2
<1>12. /\ port' = rest /\ ring' = filled /\ copy' = copied
       /\ lossy' = lossy \cup (IF IsOver(ring, bytes) THEN {"ring"} ELSE {})
                         \cup (IF IsOver(copy, bytes) THEN {"copy"} ELSE {})
       /\ ~IsLoop
  <2>1. Fifo!WriteAvailable(ring, bytes) = filled /\ Fifo!WriteAvailable(copy, bytes) = copied
    BY <1>5, <1>6, RingsAgree, Zenon
  <2>2. Fifo!Remove(port, Len(bytes)) = rest
    BY <1>7, RingsAgree, Zenon
  <2>3. /\ Overflows(ring, bytes) <=> IsOver(ring, bytes)
        /\ Overflows(copy, bytes) <=> IsOver(copy, bytes)
    <3>1. Fifo!Count(ring) = Count(ring) /\ Fifo!Count(copy) = Count(copy)
      BY RingsAgree
    <3>. QED  BY <3>1, Zenon DEF Overflows, IsOver
  <2>. QED  BY <1>3, <1>4, <2>1, <2>2, <2>3, Zenon DEF MonitorSignalTask
<1>13. relay' = relay /\ came' = came /\ sentOn' = sentOn /\ seen' = seen /\ free' = free
  BY DEF MonitorSignalTask
<1>14. /\ "ring" \in lossy' <=> "ring" \in lossy
       /\ "port" \in lossy' <=> "port" \in lossy
       /\ "copy" \in lossy' <=> "copy" \in lossy \/ IsOver(copy, bytes)
  BY <1>11, <1>12
<1>15. RelayTypes'
  BY <1>1, <1>2, <1>9, <1>10, <1>12, <1>13 DEF RelayTypes
<1>16. ~IsLoop' /\ ~IsLoop
  BY <1>12, <1>13, Zenon DEF IsLoop
<1>17. /\ SentInTurn' <=> InTurn(Way(sentOn, filled, rest), came)
       /\ AllSent' <=> AllThere(Way(sentOn, filled, rest), came)
       /\ SeenInTurn' <=> InTurn(Way(seen, copied, rest), came)
       /\ AllSeen' <=> AllThere(Way(seen, copied, rest), came)
  BY <1>12, <1>13, Zenon DEF SentInTurn, SeenInTurn, AllSent, AllSeen, Way, InTurn, AllThere
<1>18. /\ SentInTurn /\ ("port" \notin lossy /\ "ring" \notin lossy => AllSent)
       /\ SeenInTurn /\ ("port" \notin lossy /\ "copy" \notin lossy => AllSeen)
       /\ "ring" \notin lossy
  BY <1>16 DEF RelayInv
<1>19. SentInTurn' /\ ("port" \notin lossy' /\ "ring" \notin lossy' => AllSent')
  BY <1>9, <1>11, <1>14, <1>17, <1>18, Zenon DEF SentInTurn, AllSent
<1>20. SeenInTurn' /\ ("port" \notin lossy' /\ "copy" \notin lossy' => AllSeen')
  BY <1>10, <1>14, <1>17, <1>18, Zenon DEF SeenInTurn, AllSeen
<1>. QED  BY <1>14, <1>15, <1>16, <1>18, <1>19, <1>20 DEF RelayInv

LEMMA WorkerRelayed ==
    ASSUME RelayInv, MonitorWorker
    PROVE  RelayInv'
<1>1. /\ relay.capacity \in Nat /\ relay.capacity > 0 /\ PortSize \in Nat /\ PortSize > 0
      /\ JunkSize \in Nat /\ RelayTypes
  BY RelaySizes DEF RelayInv
<1>2. /\ free \in Nat /\ port \in Ring(PortSize)
      /\ sentOn \in Seq(Nat) /\ ring \in Ring(relay.capacity)
  BY <1>1 DEF RelayTypes
<1>3. PICK m \in Nat : m = Smaller(JunkSize, free) /\ m <= free
  BY <1>1, <1>2, SmallerIs
<1>4. PICK sending : sending = PeekAvailable(ring, m)
  OBVIOUS
<1>5. /\ sentOn \o sending \in Seq(Nat) /\ Len(sending) \in Nat /\ Len(sending) <= m
      /\ Remove(ring, Len(sending)) \in Ring(relay.capacity)
      /\ Way(sentOn \o sending, Remove(ring, Len(sending)), port) = Way(sentOn, ring, port)
  BY <1>1, <1>2, <1>4, WentOn
<1>6. /\ ring' = Remove(ring, Len(sending))
      /\ sentOn' = sentOn \o sending /\ free' = free - Len(sending)
  <2>1. SendFrom(ring, JunkSize) = sending
    BY <1>3, <1>4, RingsAgree, Zenon DEF SendFrom
  <2>2. Fifo!Remove(ring, Len(sending)) = Remove(ring, Len(sending))
    BY RingsAgree
  <2>. QED  BY <2>1, <2>2, Zenon DEF MonitorWorker
<1>7. /\ relay' = relay /\ port' = port /\ copy' = copy /\ came' = came /\ seen' = seen
      /\ lossy' = lossy
  BY DEF MonitorWorker
<1>8. RelayTypes'
  BY <1>1, <1>2, <1>3, <1>5, <1>6, <1>7 DEF RelayTypes
<1>9. /\ SentInTurn' <=> SentInTurn
      /\ AllSent' <=> AllSent
      /\ SeenInTurn' <=> SeenInTurn
      /\ AllSeen' <=> AllSeen
      /\ IsLoop' <=> IsLoop
  BY <1>5, <1>6, <1>7, Zenon DEF SentInTurn, SeenInTurn, AllSent, AllSeen, Way, InTurn, AllThere, IsLoop
<1>. QED  BY <1>7, <1>8, <1>9 DEF RelayInv

LEMMA ReaderRelayed ==
    ASSUME RelayInv, MonitorReader
    PROVE  RelayInv'
<1>1. /\ relay.capacity \in Nat /\ relay.capacity > 0 /\ PortSize \in Nat /\ PortSize > 0
      /\ RelayTypes
  BY RelaySizes DEF RelayInv
<1>2. /\ port \in Ring(PortSize) /\ seen \in Seq(Nat) /\ copy \in Ring(relay.capacity)
  BY <1>1 DEF RelayTypes
<1>3. Fifo!Count(copy) = Count(copy) /\ Count(copy) \in Nat
  BY <1>1, <1>2, RingsAgree, CountFits
<1>4. PICK n \in Nat : /\ seen' = seen \o Fifo!PeekAvailable(copy, n)
                       /\ copy' = Fifo!AfterRead(copy, n)
  BY <1>3 DEF MonitorReader
<1>5. PICK bytes : bytes = PeekAvailable(copy, n)
  OBVIOUS
<1>6. /\ seen \o bytes \in Seq(Nat) /\ Remove(copy, n) = Remove(copy, Len(bytes))
      /\ Remove(copy, Len(bytes)) \in Ring(relay.capacity)
      /\ Way(seen \o bytes, Remove(copy, Len(bytes)), port) = Way(seen, copy, port)
  BY <1>1, <1>2, <1>5, WentOn
<1>7. seen' = seen \o bytes /\ copy' = Remove(copy, n)
  <2>1. Fifo!PeekAvailable(copy, n) = bytes /\ Fifo!AfterRead(copy, n) = Remove(copy, n)
    BY <1>5, RingsAgree, Zenon
  <2>. QED  BY <1>4, <2>1, Zenon
<1>8. /\ relay' = relay /\ port' = port /\ ring' = ring /\ free' = free /\ came' = came
      /\ sentOn' = sentOn /\ lossy' = lossy
  BY DEF MonitorReader
<1>9. RelayTypes'
  BY <1>1, <1>2, <1>6, <1>7, <1>8 DEF RelayTypes
<1>10. /\ SentInTurn' <=> SentInTurn
       /\ AllSent' <=> AllSent
       /\ SeenInTurn' <=> SeenInTurn
       /\ AllSeen' <=> AllSeen
       /\ IsLoop' <=> IsLoop
  BY <1>6, <1>7, <1>8, Zenon DEF SentInTurn, SeenInTurn, AllSent, AllSeen, Way, InTurn, AllThere, IsLoop
<1>. QED  BY <1>8, <1>9, <1>10 DEF RelayInv

LEMMA RelayInvKept ==
    ASSUME RelayInv, [RNext]_relayVars
    PROVE  RelayInv'
<1>1. CASE PortReceives
  BY <1>1, ReceiveRelayed
<1>2. CASE LoopbackTask
  BY <1>2, LoopRelayed
<1>3. CASE MonitorSignalTask
  BY <1>3, MonitorRelayed
<1>4. CASE MonitorWorker
  BY <1>4, WorkerRelayed
<1>5. CASE MonitorReader
  BY <1>5, ReaderRelayed
<1>6. CASE PortDrains \/ MonitorSends \/ SignalTaskReturned \/ UNCHANGED relayVars
  <2>1. /\ relay' = relay /\ port' = port /\ ring' = ring /\ copy' = copy /\ came' = came
        /\ sentOn' = sentOn /\ seen' = seen /\ lossy' = lossy
    BY <1>6 DEF PortDrains, MonitorSends, SignalTaskReturned, relayVars
  <2>2. free' \in Nat
    BY <1>6 DEF PortDrains, MonitorSends, SignalTaskReturned, relayVars, RelayInv, RelayTypes
  <2>3. RelayTypes'
    BY <2>1, <2>2 DEF RelayInv, RelayTypes
  <2>4. /\ SentInTurn' <=> SentInTurn
        /\ AllSent' <=> AllSent
        /\ SeenInTurn' <=> SeenInTurn
        /\ AllSeen' <=> AllSeen
        /\ IsLoop' <=> IsLoop
    BY <2>1, Zenon DEF SentInTurn, SeenInTurn, AllSent, AllSeen, Way, InTurn, AllThere, IsLoop
  <2>. QED  BY <2>1, <2>3, <2>4 DEF RelayInv
<1>. QED  BY <1>1, <1>2, <1>3, <1>4, <1>5, <1>6 DEF RNext

LEMMA InTurnIsOrdered ==
    ASSUME NEW a \in Seq(Nat), NEW n \in Nat, InTurn(a, n)
    PROVE  Ordered(a)
<1>1. Len(a) \in Nat /\ DOMAIN a = 1 .. Len(a)
  BY LenProperties
<1>2. SUFFICES ASSUME NEW i \in 1 .. Len(a) - 1
               PROVE  a[i] < a[i + 1]
  BY DEF Ordered
<1>3. i \in DOMAIN a /\ i + 1 \in DOMAIN a /\ i < i + 1
  BY <1>1
<1>. QED  BY <1>3 DEF InTurn, Rises

LEMMA RelaysFollow ==
    ASSUME RelayInv
    PROVE  RelaysKeepOrder
<1>1. /\ relay.capacity \in Nat /\ relay.capacity > 0 /\ PortSize \in Nat /\ PortSize > 0
      /\ RelayTypes
  BY RelaySizes DEF RelayInv
<1>2. /\ came \in Nat /\ port \in Ring(PortSize) /\ sentOn \in Seq(Nat) /\ seen \in Seq(Nat)
      /\ ring \in Ring(relay.capacity) /\ copy \in Ring(relay.capacity)
  BY <1>1 DEF RelayTypes
<1>3. /\ Contents(port) \in Seq(Nat) /\ Contents(ring) \in Seq(Nat) /\ Contents(copy) \in Seq(Nat)
  BY <1>1, <1>2, ContentsAre
<1>4. PICK looped : looped = Way(sentOn, ring, port)
  OBVIOUS
<1>5. PICK monitored : monitored = Way(seen, copy, port)
  OBVIOUS
<1>6. looped \in Seq(Nat)
  <2>1. PICK u : u \in Seq(Nat) /\ u = sentOn \o Contents(ring)
    BY <1>2, <1>3, ConcatProperties
  <2>2. u \in Seq(Nat)
    BY <2>1
  <2>3. u \o Contents(port) \in Seq(Nat)
    BY <1>3, <2>2, ConcatProperties
  <2>. QED  BY <1>4, <2>1, <2>3, Zenon DEF Way
<1>7. monitored \in Seq(Nat)
  <2>1. PICK u : u \in Seq(Nat) /\ u = seen \o Contents(copy)
    BY <1>2, <1>3, ConcatProperties
  <2>2. u \in Seq(Nat)
    BY <2>1
  <2>3. u \o Contents(port) \in Seq(Nat)
    BY <1>3, <2>2, ConcatProperties
  <2>. QED  BY <1>5, <2>1, <2>3, Zenon DEF Way
<1>8. /\ OnTheWay(sentOn \o Fifo!Contents(ring)) = looped
      /\ OnTheWay(seen \o Fifo!Contents(copy)) = monitored
  <2>1. /\ Fifo!Contents(ring) = Contents(ring) /\ Fifo!Contents(copy) = Contents(copy)
        /\ Fifo!Contents(port) = Contents(port)
    BY RingsAgree
  <2>. QED  BY <1>4, <1>5, <2>1, Zenon DEF OnTheWay, Way
<1>9. /\ InTurn(looped, came)
      /\ "port" \notin lossy /\ "ring" \notin lossy => AllThere(looped, came)
      /\ ~IsLoop => InTurn(monitored, came)
      /\ ~IsLoop /\ "port" \notin lossy /\ "copy" \notin lossy => AllThere(monitored, came)
      /\ "ring" \in lossy => IsLoop /\ relay.capacity < PortSize
  BY <1>4, <1>5, Zenon DEF RelayInv, SentInTurn, SeenInTurn, AllSent, AllSeen
<1>10. Ordered(looped) /\ (~IsLoop => Ordered(monitored))
  BY <1>2, <1>6, <1>7, <1>9, InTurnIsOrdered
<1>11. /\ lossy \cap {"port", "ring"} = {} => "port" \notin lossy /\ "ring" \notin lossy
       /\ lossy \cap {"port", "copy"} = {} => "port" \notin lossy /\ "copy" \notin lossy
  OBVIOUS
<1>. QED  BY <1>8, <1>9, <1>10, <1>11, Zenon DEF RelaysKeepOrder, AllThere

\* RelaysKeepOrder holds for rings of every size and any number of bytes: what
\* Loopback.cpp sends back, and what a device opened on the monitor of
\* PassthroughMonitor.cpp receives, never has a byte twice or out of its order,
\* and has every byte unless a ring on its way was too small; the ring of a
\* PassthroughMonitor never is, and that of a Loopback only when it was opened
\* smaller than the UART's.
THEOREM RelaysInOrder == RSpec => []RelaysKeepOrder
<1>1. RInit => RelayInv
  BY RelayStarts
<1>2. RelayInv /\ [RNext]_relayVars => RelayInv'
  BY RelayInvKept
<1>3. RelayInv => RelaysKeepOrder
  BY RelaysFollow
<1>. QED  BY <1>1, <1>2, <1>3, PTL DEF RSpec
=============================================================================
