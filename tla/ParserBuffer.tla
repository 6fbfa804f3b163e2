---------------------------- MODULE ParserBuffer ----------------------------
(***************************************************************************)
(* The memory under parser/parser.go: the bytes fed lie in one slice, are     *)
(* appended to it, are moved down over what was consumed, and are handed out  *)
(* without a copy.                                                          *)
(*                                                                         *)
(* A byte of the input is its absolute offset.  A view that was handed out    *)
(* shares the slice's memory until the slice is moved to a larger one.        *)
(***************************************************************************)
EXTENDS Integers

CONSTANTS
  TrimAt,      \* trimBuffer leaves what is consumed alone below this (4096)
  FirstCap,    \* the first capacity of the slice (4096)
  StartOffset, \* WithStartOffset
  Chunks,      \* bounds: the sizes of the chunks fed,
  HeaderLens,  \*   of the headers,
  Sizes,       \*   of the payloads,
  Spare,       \*   and what a larger slice has beyond what it must;
  LastOffset   \*   how far the input goes

ASSUME BufferAssumption ==
  /\ TrimAt \in Nat \ {0} /\ FirstCap \in Nat /\ StartOffset \in Nat /\ LastOffset \in Nat
  /\ Chunks \subseteq Nat \ {0} /\ HeaderLens \subseteq Nat \ {0}
  /\ Sizes \subseteq Nat /\ Spare \subseteq Nat

VARIABLES
  cells,      \* the memory of the slice, to its capacity
  capacity,
  length,        \* of the slice
  pos,        \* how much of it is consumed
  absOffset,  \* the offset of the byte at pos
  current,    \* the size of the payload whose header was consumed, or NoElement
  extent,     \* where the payload delivered is: the node's payloadStart, payloadLen
  view        \* the bytes the consumer was given: shared memory, or its own

bufVars == <<cells, capacity, length, pos, absOffset, current, extent, view>>

NoElement == -1

Junk == -1

\* No payload is out.
NoExtent == [start |-> 0, n |-> 0, offset |-> 0]

\* Bytes of the consumer's own, or in the slice's memory at the extent.
Own(bytes, n, offset) == [shared |-> FALSE, bytes |-> bytes, n |-> n, offset |-> offset]
Shared(n, offset) == [shared |-> TRUE, bytes |-> << >>, n |-> n, offset |-> offset]

NoView == Own(<< >>, 0, 0)

\* n cells of the memory from index start on.
CellsFrom(start, n) == [i \in 0..(n - 1) |-> cells[start + i]]

Viewed == IF view.shared THEN CellsFrom(extent.start, extent.n) ELSE view.bytes

Available == length - pos

-----------------------------------------------------------------------------

BufInit ==
  /\ cells = [i \in 0..(FirstCap - 1) |-> Junk] /\ capacity = FirstCap
  /\ length = 0 /\ pos = 0 /\ absOffset = StartOffset
  /\ current = NoElement /\ extent = NoExtent /\ view = NoView

\* The memory with n more bytes of the input after the first length.
Appended(n, room) ==
  [i \in 0..(room - 1) |->
     IF length <= i /\ i < length + n THEN absOffset + (i - pos)
     ELSE IF i < length \/ room = capacity THEN cells[i] ELSE Junk]

\* append moves the slice when it has no room, and a view stays where it was.
Feed(n, spare) ==
  /\ capacity' = IF length + n <= capacity THEN capacity ELSE length + n + spare
  /\ cells' = Appended(n, capacity')
  /\ length' = length + n
  /\ view' = IF length + n <= capacity \/ ~view.shared THEN view
             ELSE Own(Viewed, view.n, view.offset)
  /\ UNCHANGED <<pos, absOffset, current, extent>>

\* Mutant: the slice is shortened and not moved.
AdvanceUnmoved(n) ==
  /\ absOffset' = absOffset + n
  /\ IF pos + n < TrimAt
     THEN pos' = pos + n /\ UNCHANGED <<cells, length>>
     ELSE pos' = 0 /\ length' = length - (pos + n) /\ UNCHANGED cells
  /\ UNCHANGED capacity

\* Mutant: bytes are never moved.
AdvanceUntrimmed(n) ==
  /\ absOffset' = absOffset + n
  /\ pos' = pos + n /\ UNCHANGED <<cells, length, capacity>>

\* n bytes are consumed, and the rest is moved down if that is worth it.
Advance(n) ==
  LET consumed == pos + n
  IN /\ absOffset' = absOffset + n
     /\ IF consumed < TrimAt
        THEN pos' = consumed /\ UNCHANGED <<cells, length>>
        ELSE /\ pos' = 0 /\ length' = length - consumed
             /\ cells' = [i \in 0..(capacity - 1) |->
                            IF i < length - consumed THEN cells[i + consumed] ELSE cells[i]]
     /\ UNCHANGED capacity

\* Whatever the consumer was shown is out of date from here on.
Stale == extent' = NoExtent /\ view' = NoView

ConsumeHeader(headerLen, size) ==
  /\ current = NoElement /\ Available >= headerLen
  /\ Advance(headerLen)
  /\ current' = size
  /\ Stale

EnterMaster ==
  /\ current # NoElement
  /\ current' = NoElement
  /\ Stale
  /\ UNCHANGED <<cells, capacity, length, pos, absOffset>>

PayloadArrived == current # NoElement /\ Available >= current

\* SkipPayload and SkipCurrentPayload.
Skip ==
  /\ PayloadArrived
  /\ Advance(current)
  /\ current' = NoElement
  /\ Stale

\* Mutant: the bytes are copied once they have been consumed.
ReadPayloadLate ==
  /\ PayloadArrived
  /\ Advance(current)
  /\ view' = Own([i \in 0..(current - 1) |-> cells'[pos + i]], current, absOffset)
  /\ extent' = NoExtent
  /\ current' = NoElement

\* ReadPayload: a copy, taken before the bytes are moved.
ReadPayload ==
  /\ PayloadArrived
  /\ view' = Own(CellsFrom(pos, current), current, absOffset)
  /\ extent' = NoExtent
  /\ Advance(current)
  /\ current' = NoElement

\* consumePayload and view: the bytes where they are.
Payload ==
  /\ PayloadArrived
  /\ pos' = pos + current /\ absOffset' = absOffset + current
  /\ extent' = [start |-> pos, n |-> current, offset |-> absOffset]
  /\ view' = Shared(current, absOffset)
  /\ current' = NoElement
  /\ UNCHANGED <<cells, capacity, length>>

\* The same node is asked again, having perhaps been fed since.
PayloadAgain ==
  /\ extent # NoExtent
  /\ view' = Shared(extent.n, extent.offset)
  /\ UNCHANGED <<cells, capacity, length, pos, absOffset, current, extent>>

\* After a structural error a new parser is given what this one did not consume.
Restart ==
  /\ capacity' = IF Available <= FirstCap THEN FirstCap ELSE Available
  /\ cells' = [i \in 0..(capacity' - 1) |-> IF i < Available THEN cells[pos + i] ELSE Junk]
  /\ length' = Available /\ pos' = 0
  /\ current' = NoElement
  /\ Stale
  /\ UNCHANGED absOffset

BufNext ==
  \/ \E n \in Chunks, spare \in Spare :
       absOffset + Available + n <= LastOffset /\ Feed(n, spare)
  \/ \E headerLen \in HeaderLens, size \in Sizes : ConsumeHeader(headerLen, size)
  \/ EnterMaster
  \/ Skip
  \/ ReadPayload
  \/ Payload
  \/ PayloadAgain
  \/ Restart

BufSpec == BufInit /\ [][BufNext]_bufVars

-----------------------------------------------------------------------------
(* Properties.                                                             *)

\* The state's types: the slice lies in its memory, what is consumed in the slice.
BufTypeOK ==
  /\ capacity \in Nat /\ cells \in [0..(capacity - 1) -> Int]
  /\ length \in 0..capacity /\ pos \in 0..length /\ absOffset \in Nat
  /\ current \in Nat \cup {NoElement}
  /\ extent \in [start : Nat, n : Nat, offset : Nat]

\* However it was fed, moved, reallocated or handed over, the slice holds at pos
\* and after it the bytes of the input from absOffset on.
BufferIsTheInput ==
  \A i \in 0..(Available - 1) : cells[pos + i] = absOffset + i

\* A payload delivered without a copy can be read, as it was given and when it is
\* asked for again, until the next node: feeding does not disturb it
\* (cursor.go:352).  A copy is taken before its bytes are moved.
ViewHolds ==
  /\ \A i \in 0..(extent.n - 1) : cells[extent.start + i] = extent.offset + i
  /\ \A i \in 0..(view.n - 1) : Viewed[i] = view.offset + i

\* Memory is not kept for what was consumed: under a header there are fewer than
\* TrimAt consumed bytes, with a payload delivered at most as many more as it has.
GarbageIsBounded ==
  pos < TrimAt + (IF extent = NoExtent THEN 0 ELSE extent.n)

\* What the views rest on: the payload delivered lies in the slice, a view of the
\* slice's memory is of it, and it is gone when the next header is consumed.
ExtentInv ==
  /\ extent.start + extent.n <= length
  /\ view.n \in Nat
  /\ view.shared => view.n = extent.n /\ view.offset = extent.offset
  /\ current # NoElement => extent = NoExtent

\* The slice is the input from absOffset on at all times, with the views into it:
\* the parts together are inductive.
BufInv == BufTypeOK /\ BufferIsTheInput /\ ViewHolds /\ GarbageIsBounded /\ ExtentInv

=============================================================================
