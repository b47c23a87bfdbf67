------------------------------- MODULE IRQFifo -------------------------------
(***************************************************************************)
(* The byte ring between interrupt handlers, signal tasks and workers      *)
(* (app/include/Utils/IRQFifo.h), as a record: the buffer and the offsets  *)
(* of _head, where the next byte goes, and _tail, the oldest byte.         *)
(* head = tail means empty, so the class has no representation of a full   *)
(* ring: count never reaches the capacity.                                 *)
(***************************************************************************)
EXTENDS Integers, Sequences

Smaller(a, b) == IF a < b THEN a ELSE b

\* "empty" is what a cell holds before its first write
New(capacity, empty) ==
    [buffer |-> [i \in 0 .. capacity - 1 |-> empty], size |-> capacity, head |-> 0, tail |-> 0]

Count(f) == IF f.head >= f.tail THEN f.head - f.tail ELSE f.size - (f.tail - f.head)

IsFull(f) == Count(f) = f.size

\* slip: the offset behind the last cell is not wrapped
StepPastEnd(f, i, n) == IF i + n > f.size THEN i + n - f.size ELSE i + n

\* the offset n places behind offset i, n at most the size
Step(f, i, n) == IF i + n >= f.size THEN i + n - f.size ELSE i + n

\* one byte, from the interrupt handler; a push that fills the last free cell
\* makes head = tail
Push(f, byte) ==
    IF IsFull(f) THEN f
    ELSE [f EXCEPT !.buffer[f.head] = byte, !.head = Step(f, f.head, 1)]

\* As many bytes as there are cells for; when the last one makes head catch up,
\* the oldest byte gives way.
WriteAvailable(f, bytes) ==
    LET n    == Smaller(f.size - Count(f), Len(bytes))
        head == Step(f, f.head, n)
        cell == [k \in 1 .. n |-> Step(f, f.head, k - 1)]
    IN  [f EXCEPT
            !.buffer = [i \in DOMAIN @ |-> IF \E k \in 1 .. n : cell[k] = i
                                           THEN bytes[CHOOSE k \in 1 .. n : cell[k] = i]
                                           ELSE @[i]],
            !.head = head,
            !.tail = IF n > 0 /\ head = @ THEN Step(f, @, 1) ELSE @]

PeekAvailable(f, n) ==
    [k \in 1 .. Smaller(Count(f), n) |-> f.buffer[Step(f, f.tail, k - 1)]]

Remove(f, n) == [f EXCEPT !.tail = Step(f, @, Smaller(Count(f), n))]

\* readAvailable returns PeekAvailable(f, n) and leaves this ring
AfterRead(f, n) == Remove(f, n)

\* the unread bytes, oldest first
Contents(f) == PeekAvailable(f, f.size)
=============================================================================
