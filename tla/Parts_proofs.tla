---------------------------- MODULE Parts_proofs ----------------------------
(***************************************************************************)
(* Three parts that share no state, each for every value of its constants.   *)
(* The parser's buffer holds the input, and a view of it its payload; the     *)
(* KVS Reader hands out what the stream states of each fragment, in maps that *)
(* nobody else holds, and ends where the stream does or with an error in it;  *)
(* the times of a Kinesis stream are those its ticks and its tags name,       *)
(* whatever the width of a word.                                            *)
(***************************************************************************)
EXTENDS ParserBuffer, KvsReader, Timeline, Facts_proofs, FiniteSetTheorems

-----------------------------------------------------------------------------
(* The parser's buffer.                                                    *)

\* The two properties of a state that a step changes in one place, of values.
Holds(memory, len, from, offset) == \A i \in 0..(len - from - 1) : memory[from + i] = offset + i

Bounded(from, n) == from < TrimAt + n

Fits(start, n, len) == start + n <= len

\* The two properties as statements about values, which are then cited instead of
\* the variables, before and after a step.
LEMMA OfValues ==
  /\ BufferIsTheInput <=> Holds(cells, length, pos, absOffset)
  /\ BufferIsTheInput' <=> Holds(cells', length', pos', absOffset')
  /\ GarbageIsBounded <=> Bounded(pos, IF extent = NoExtent THEN 0 ELSE extent.n)
  /\ GarbageIsBounded' <=> Bounded(pos', IF extent' = NoExtent THEN 0 ELSE extent'.n)
BY DEF BufferIsTheInput, GarbageIsBounded, Holds, Bounded, Available, NoExtent

\* When an operation consumes bytes the slice remains the input, and little of
\* what is consumed stays in it.
LEMMA AdvanceKeeps ==
  ASSUME BufTypeOK, BufferIsTheInput, NEW n \in Nat, n <= Available, Advance(n)
  PROVE  /\ capacity' \in Nat /\ cells' \in [0..(capacity' - 1) -> Int]
         /\ length' \in 0..capacity' /\ pos' \in 0..length' /\ absOffset' \in Nat
         /\ pos' \in 0..(TrimAt - 1)
         /\ BufferIsTheInput'
<1> USE BufferAssumption DEF BufTypeOK, Available, BufferIsTheInput
<1>1. CASE pos + n < TrimAt
  <2>1. pos' = pos + n /\ absOffset' = absOffset + n /\ UNCHANGED <<cells, length, capacity>>
    BY <1>1 DEF Advance
  <2>2. \A i \in 0..(length' - pos' - 1) : cells'[pos' + i] = absOffset' + i
    <3> TAKE i \in 0..(length' - pos' - 1)
    <3>1. n + i \in 0..(length - pos - 1) BY <2>1
    <3>2. cells[pos + (n + i)] = absOffset + (n + i) BY <3>1
    <3> QED BY <2>1, <3>2
  <2> QED BY <1>1, <2>1, <2>2
<1>2. CASE ~(pos + n < TrimAt)
  <2>1. /\ pos' = 0 /\ length' = length - (pos + n) /\ absOffset' = absOffset + n /\ capacity' = capacity
        /\ cells' = [i \in 0..(capacity - 1) |->
                       IF i < length - (pos + n) THEN cells[i + (pos + n)] ELSE cells[i]]
    BY <1>2 DEF Advance
  <2>2. cells' \in [0..(capacity' - 1) -> Int]
    <3>1. ASSUME NEW i \in 0..(capacity - 1)
          PROVE  (IF i < length - (pos + n) THEN cells[i + (pos + n)] ELSE cells[i]) \in Int
      <4>1. i < length - (pos + n) => i + (pos + n) \in 0..(capacity - 1) OBVIOUS
      <4> QED BY <4>1
    <3> QED BY <2>1, <3>1
  <2>3. \A i \in 0..(length' - pos' - 1) : cells'[pos' + i] = absOffset' + i
    <3> TAKE i \in 0..(length' - pos' - 1)
    <3>1. n + i \in 0..(length - pos - 1) /\ i \in 0..(capacity - 1) /\ i < length - (pos + n) BY <2>1
    <3>2. cells[pos + (n + i)] = absOffset + (n + i) BY <3>1
    <3>3. cells'[i] = cells[i + (pos + n)] BY <2>1, <3>1
    <3>4. i + (pos + n) = pos + (n + i) /\ pos' + i = i BY <2>1
    <3> QED BY <2>1, <3>2, <3>3, <3>4
  <2>4. BufferIsTheInput' BY <2>3
  <2>5. length' \in 0..capacity' /\ pos' \in 0..length' /\ absOffset' \in Nat /\ pos' \in 0..(TrimAt - 1)
    BY <2>1
  <2> QED BY <2>1, <2>2, <2>4, <2>5
<1> QED BY <1>1, <1>2

\* A new parser satisfies the invariant.
LEMMA InitBuf == BufInit => BufInv
<1> SUFFICES ASSUME BufInit PROVE BufInv OBVIOUS
<1> USE BufferAssumption DEF BufInit, NoExtent, NoView, Own, NoElement, Junk
<1>1. BufTypeOK BY DEF BufTypeOK
<1>2. BufferIsTheInput BY DEF BufferIsTheInput, Available
<1>3. ViewHolds BY DEF ViewHolds
<1>4. GarbageIsBounded BY DEF GarbageIsBounded
<1>5. ExtentInv BY DEF ExtentInv
<1> QED BY <1>1, <1>2, <1>3, <1>4, <1>5 DEF BufInv

\* Feeding adds the input's next bytes and leaves what was there.
LEMMA FeedKeeps ==
  ASSUME BufInv, NEW n \in Nat, NEW spare \in Nat, Feed(n, spare)
  PROVE  BufInv'
<1> USE DEF BufInv
<1>t. /\ capacity \in Nat /\ cells \in [0..(capacity - 1) -> Int]
      /\ length \in 0..capacity /\ pos \in 0..length /\ absOffset \in Nat
  BY DEF BufTypeOK
<1>u. PICK start \in Nat, m \in Nat :
        start = extent.start /\ m = extent.n /\ start + m <= length
  BY DEF BufTypeOK, ExtentInv
<1>1. PICK room \in Nat : /\ capacity' = room /\ capacity <= room /\ length + n <= room
                         /\ cells' = Appended(n, room) /\ length' = length + n
                         /\ UNCHANGED <<pos, absOffset, current, extent>>
  <2>1. CASE length + n <= capacity BY <2>1, <1>t DEF Feed
  <2>2. CASE ~(length + n <= capacity) BY <2>2, <1>t DEF Feed
  <2> QED BY <2>1, <2>2
<1>2. \A i \in 0..(room - 1) : cells'[i] = IF length <= i /\ i < length + n
                                 THEN absOffset + (i - pos)
                                 ELSE IF i < length \/ room = capacity THEN cells[i] ELSE Junk
  BY <1>1 DEF Appended
<1>3. \A i \in 0..(length - 1) : cells'[i] = cells[i]
  <2> TAKE i \in 0..(length - 1)
  <2>1. i \in 0..(room - 1) /\ i < length /\ ~(length <= i) BY <1>1, <1>t
  <2> QED BY <1>2, <2>1
<1>4. BufTypeOK'
  <2>1. ASSUME NEW i \in 0..(room - 1)
        PROVE  (IF length <= i /\ i < length + n THEN absOffset + (i - pos)
                ELSE IF i < length \/ room = capacity THEN cells[i] ELSE Junk) \in Int
    <3>1. i < length \/ room = capacity => cells[i] \in Int BY <1>1, <1>t
    <3>2. absOffset + (i - pos) \in Int BY <1>t, <1>1
    <3> QED BY <3>1, <3>2 DEF Junk
  <2>2. cells' \in [0..(capacity' - 1) -> Int] BY <1>1, <2>1 DEF Appended
  <2>3. length' \in 0..capacity' BY <1>1, <1>t
  <2>4. pos' \in 0..length' BY <1>1, <1>t
  <2> QED BY <1>1, <2>2, <2>3, <2>4 DEF BufTypeOK
<1>5. BufferIsTheInput'
  <2>s. BufferIsTheInput' <=> Holds(cells', length + n, pos, absOffset) BY <1>1, OfValues
  <2>q. SUFFICES Holds(cells', length + n, pos, absOffset) BY <2>s
  <2> SUFFICES ASSUME NEW i \in 0..(length + n - pos - 1)
               PROVE  cells'[pos + i] = absOffset + i
    BY <1>t DEF Holds
  <2>1. pos + i \in 0..(room - 1) BY <1>1, <1>t
  <2>2. CASE pos + i < length
    <3>1. i \in 0..(length - pos - 1) /\ pos + i \in 0..(length - 1) BY <2>2, <1>t
    <3> QED BY <3>1, <1>3 DEF BufferIsTheInput, Available
  <2>3. CASE length <= pos + i
    <3>1. pos + i < length + n BY <1>t
    <3>2. PICK j \in 0..(room - 1) : j = pos + i BY <2>1
    <3>3. cells'[j] = absOffset + (j - pos) BY <1>2, <2>3, <3>1, <3>2
    <3>4. j - pos = i BY <3>2, <1>t
    <3> QED BY <3>2, <3>3, <3>4
  <2> QED BY <2>2, <2>3, <1>t
<1>6. \A i \in 0..(extent.n - 1) : cells'[extent.start + i] = extent.offset + i
  <2>1. \A i \in 0..(m - 1) : cells'[start + i] = extent.offset + i
    <3> TAKE i \in 0..(m - 1)
    <3>0. start + m <= length BY <1>u
    <3>1. start + i \in 0..(length - 1) BY <1>t, <3>0
    <3>2. cells[start + i] = extent.offset + i BY <1>u DEF ViewHolds
    <3> QED BY <3>1, <3>2, <1>3
  <2> QED BY <2>1, <1>u
<1>f. Fits(extent'.start, extent'.n, length')
  <2>1. Fits(start, m, length + n) BY <1>t, <1>u DEF Fits
  <2> QED BY <2>1, <1>1, <1>u
<1>7. CASE view' = view
  <2>1. ViewHolds'
    <3>1. ASSUME NEW i \in 0..(view.n - 1) PROVE Viewed'[i] = view.offset + i
      <4>1. CASE view.shared
        <5>1. i \in 0..(extent.n - 1) BY <4>1 DEF ExtentInv
        <5>2. Viewed'[i] = cells'[extent.start + i]
          BY <1>1, <1>7, <4>1, <5>1 DEF Viewed, CellsFrom
        <5> QED BY <4>1, <5>1, <5>2, <1>6 DEF ExtentInv
      <4>2. CASE ~view.shared
        BY <1>7, <4>2 DEF Viewed, ViewHolds
      <4> QED BY <4>1, <4>2
    <3> QED BY <1>1, <1>6, <1>7, <3>1 DEF ViewHolds
  <2>2. ExtentInv' BY <1>1, <1>7, <1>f DEF ExtentInv, Fits
  <2>3. GarbageIsBounded' BY <1>1 DEF GarbageIsBounded
  <2> QED BY <1>4, <1>5, <2>1, <2>2, <2>3
<1>8. CASE view' = Own(Viewed, view.n, view.offset)
  <2>1. view'.shared = FALSE /\ view'.bytes = Viewed /\ view'.n = view.n /\ view'.offset = view.offset
    BY <1>8 DEF Own
  <2>2. ViewHolds'
    <3>1. Viewed' = Viewed BY <2>1 DEF Viewed
    <3> QED BY <1>1, <1>6, <2>1, <3>1 DEF ViewHolds
  <2>3. ExtentInv' BY <1>1, <2>1, <1>f DEF ExtentInv, Fits
  <2>4. GarbageIsBounded' BY <1>1 DEF GarbageIsBounded
  <2> QED BY <1>4, <1>5, <2>2, <2>3, <2>4
<1> QED BY <1>7, <1>8 DEF Feed

\* After an operation that consumes bytes and shows none.
LEMMA StaleKeeps ==
  ASSUME BufInv, NEW n \in Nat, n <= Available, Advance(n), Stale,
         current' \in Nat \cup {NoElement}
  PROVE  BufInv'
<1>1. /\ extent' = NoExtent /\ view' = NoView
      /\ extent'.start = 0 /\ extent'.n = 0 /\ extent'.offset = 0
      /\ view'.n = 0 /\ view'.shared = FALSE
  BY DEF Stale, NoExtent, NoView, Own
<1>2. BufTypeOK' /\ BufferIsTheInput' /\ pos' \in 0..(TrimAt - 1)
  BY AdvanceKeeps, <1>1 DEF BufInv, BufTypeOK, NoExtent
<1>3. ViewHolds' BY <1>1 DEF ViewHolds
<1>4. GarbageIsBounded'
  <2>1. PICK q \in 0..(TrimAt - 1) : pos' = q BY <1>2
  <2>2. Bounded(q, 0) BY <2>1, BufferAssumption DEF Bounded
  <2> QED BY <1>1, <2>1, <2>2, OfValues
<1>5. ExtentInv' BY <1>1, <1>2 DEF ExtentInv, BufTypeOK
<1> QED BY <1>2, <1>3, <1>4, <1>5 DEF BufInv

\* The invariant is inductive: one case for each operation.
LEMMA StepBuf == BufInv /\ [BufNext]_bufVars => BufInv'
<1> SUFFICES ASSUME BufInv, [BufNext]_bufVars PROVE BufInv'
  OBVIOUS
<1>t. /\ capacity \in Nat /\ cells \in [0..(capacity - 1) -> Int]
      /\ length \in 0..capacity /\ pos \in 0..length /\ absOffset \in Nat
      /\ current \in Nat \cup {NoElement}
  BY DEF BufInv, BufTypeOK
<1>1. ASSUME NEW n \in Chunks, NEW spare \in Spare, Feed(n, spare) PROVE BufInv'
  BY <1>1, FeedKeeps, BufferAssumption
<1>2. ASSUME NEW headerLen \in HeaderLens, NEW size \in Sizes, ConsumeHeader(headerLen, size)
      PROVE  BufInv'
  <2>1. headerLen \in Nat /\ size \in Nat BY BufferAssumption
  <2>2. headerLen <= Available BY <1>2, <2>1, <1>t DEF ConsumeHeader, Available
  <2> QED BY <1>2, <2>1, <2>2, StaleKeeps DEF ConsumeHeader
<1>3. CASE EnterMaster
  <2>1. /\ extent' = NoExtent /\ extent = NoExtent /\ view' = NoView
        /\ UNCHANGED <<cells, capacity, length, pos, absOffset>> /\ current' = NoElement
    BY <1>3 DEF EnterMaster, Stale, BufInv, ExtentInv
  <2>2. extent'.start = 0 /\ extent'.n = 0 /\ extent'.offset = 0 /\ view'.n = 0 /\ view'.shared = FALSE
    BY <2>1 DEF NoExtent, NoView, Own
  <2>3. BufTypeOK' BY <2>1, <1>t DEF BufTypeOK, NoExtent
  <2>4. BufferIsTheInput' BY <2>1 DEF BufferIsTheInput, Available, BufInv
  <2>5. ViewHolds' BY <2>2 DEF ViewHolds
  <2>6. GarbageIsBounded' BY <2>1 DEF GarbageIsBounded, BufInv
  <2>7. ExtentInv' BY <2>1, <2>2, <1>t DEF ExtentInv
  <2> QED BY <2>3, <2>4, <2>5, <2>6, <2>7 DEF BufInv
<1>4. CASE Skip
  <2>1. current \in Nat /\ current <= Available
    BY <1>4, <1>t DEF Skip, PayloadArrived, Available, NoElement
  <2> QED BY <1>4, <2>1, StaleKeeps DEF Skip
<1>5. CASE ReadPayload
  <2>1. current \in Nat /\ current <= Available /\ Advance(current) /\ current' = NoElement
    BY <1>5, <1>t DEF ReadPayload, PayloadArrived, Available, NoElement
  <2>2. /\ extent' = NoExtent /\ extent'.start = 0 /\ extent'.n = 0 /\ extent'.offset = 0
        /\ view'.shared = FALSE /\ view'.bytes = CellsFrom(pos, current)
        /\ view'.n = current /\ view'.offset = absOffset
    BY <1>5 DEF ReadPayload, Own, NoExtent
  <2>3. BufTypeOK' /\ BufferIsTheInput' /\ pos' \in 0..(TrimAt - 1)
    BY <2>1, <2>2, AdvanceKeeps DEF BufInv, BufTypeOK, NoExtent
  <2>4. ViewHolds'
    <3>1. ASSUME NEW i \in 0..(current - 1) PROVE Viewed'[i] = absOffset + i
      <4>1. i \in 0..(Available - 1) BY <2>1, <1>t DEF Available
      <4>2. Viewed'[i] = cells[pos + i] BY <2>2 DEF Viewed, CellsFrom
      <4> QED BY <4>1, <4>2 DEF BufInv, BufferIsTheInput
    <3> QED BY <2>2, <3>1 DEF ViewHolds
  <2>5. GarbageIsBounded'
    <3>1. PICK q \in 0..(TrimAt - 1) : pos' = q BY <2>3
    <3>2. Bounded(q, 0) BY <3>1, BufferAssumption DEF Bounded
    <3> QED BY <2>2, <3>1, <3>2, OfValues
  <2>6. ExtentInv' BY <2>1, <2>2, <2>3 DEF ExtentInv, BufTypeOK
  <2> QED BY <2>3, <2>4, <2>5, <2>6 DEF BufInv
<1>6. CASE Payload
  <2>1. /\ current \in Nat /\ pos + current <= length /\ extent = NoExtent
        /\ UNCHANGED <<cells, capacity, length>> /\ current' = NoElement
        /\ pos' = pos + current /\ absOffset' = absOffset + current
        /\ extent' = [start |-> pos, n |-> current, offset |-> absOffset]
        /\ view'.shared = TRUE /\ view'.n = current /\ view'.offset = absOffset
    BY <1>6, <1>t DEF Payload, PayloadArrived, Available, Shared, BufInv, ExtentInv, NoElement
  <2>2. BufTypeOK' BY <2>1, <1>t DEF BufTypeOK
  <2>3. BufferIsTheInput'
    <3> SUFFICES ASSUME NEW i \in 0..(length - (pos + current) - 1)
                 PROVE  cells[(pos + current) + i] = (absOffset + current) + i
      BY <2>1 DEF BufferIsTheInput, Available
    <3>1. current + i \in 0..(length - pos - 1) BY <2>1, <1>t
    <3>2. cells[pos + (current + i)] = absOffset + (current + i)
      BY <3>1 DEF BufInv, BufferIsTheInput, Available
    <3>3. /\ pos + (current + i) = (pos + current) + i
          /\ absOffset + (current + i) = (absOffset + current) + i
      BY <2>1, <1>t
    <3> QED BY <3>2, <3>3
  <2>4. ViewHolds'
    <3>1. ASSUME NEW i \in 0..(current - 1)
          PROVE  cells[pos + i] = absOffset + i /\ Viewed'[i] = cells[pos + i]
      <4>1. i \in 0..(length - pos - 1) BY <2>1, <1>t
      <4>2. Viewed'[i] = cells[pos + i] BY <2>1 DEF Viewed, CellsFrom
      <4> QED BY <4>1, <4>2 DEF BufInv, BufferIsTheInput, Available
    <3> QED BY <2>1, <3>1 DEF ViewHolds
  <2>5. GarbageIsBounded'
    <3>1. pos < TrimAt BY <2>1, <1>t, BufferAssumption DEF BufInv, GarbageIsBounded
    <3>2. pos + current < TrimAt + current BY <3>1, <2>1, <1>t, BufferAssumption
    <3>3. extent' = NoExtent => current = 0 BY <2>1 DEF NoExtent
    <3> QED BY <2>1, <3>2, <3>3, <3>1, <1>t, BufferAssumption DEF GarbageIsBounded
  <2>6. ExtentInv' BY <2>1, <1>t DEF ExtentInv
  <2> QED BY <2>2, <2>3, <2>4, <2>5, <2>6 DEF BufInv
<1>7. CASE PayloadAgain
  <2>1. /\ view'.shared = TRUE /\ view'.n = extent.n /\ view'.offset = extent.offset
        /\ UNCHANGED <<cells, capacity, length, pos, absOffset, current, extent>>
    BY <1>7 DEF PayloadAgain, Shared
  <2>2. BufTypeOK' /\ BufferIsTheInput' /\ GarbageIsBounded'
    BY <2>1 DEF BufInv, BufTypeOK, BufferIsTheInput, GarbageIsBounded, Available
  <2>3. ViewHolds' BY <2>1 DEF ViewHolds, Viewed, CellsFrom, BufInv
  <2>4. ExtentInv' BY <2>1 DEF ExtentInv, BufInv, BufTypeOK
  <2> QED BY <2>2, <2>3, <2>4 DEF BufInv
<1>8. CASE Restart
  <2>1. PICK room \in Nat :
        /\ capacity' = room /\ Available <= room /\ length' = Available /\ pos' = 0
        /\ current' = NoElement /\ absOffset' = absOffset
        /\ cells' = [i \in 0..(room - 1) |-> IF i < Available THEN cells[pos + i] ELSE Junk]
        /\ extent' = NoExtent /\ extent'.start = 0 /\ extent'.n = 0 /\ extent'.offset = 0
        /\ view'.n = 0 /\ view'.shared = FALSE
    <3>1. Available \in Nat BY <1>t DEF Available
    <3>2. CASE Available <= FirstCap
      BY <1>8, <3>1, <3>2, BufferAssumption DEF Restart, Stale, NoExtent, NoView, Own
    <3>3. CASE ~(Available <= FirstCap)
      BY <1>8, <3>1, <3>3, BufferAssumption DEF Restart, Stale, NoExtent, NoView, Own
    <3> QED BY <3>2, <3>3
  <2>2. BufTypeOK'
    <3>1. ASSUME NEW i \in 0..(room - 1)
          PROVE  (IF i < Available THEN cells[pos + i] ELSE Junk) \in Int
      <4>1. i < Available => pos + i \in 0..(capacity - 1) BY <1>t DEF Available
      <4> QED BY <4>1, <1>t DEF Junk
    <3>2. cells' \in [0..(room - 1) -> Int] BY <2>1, <3>1
    <3>3. Available \in 0..room /\ 0 \in 0..Available BY <2>1, <1>t DEF Available
    <3> QED BY <2>1, <3>2, <3>3, <1>t DEF BufTypeOK, NoExtent
  <2>3. BufferIsTheInput'
    <3>s. BufferIsTheInput' <=> Holds(cells', Available, 0, absOffset) BY <2>1, OfValues
    <3>a. Available \in Nat BY <1>t DEF Available
    <3> SUFFICES Holds(cells', Available, 0, absOffset) BY <3>s
    <3> SUFFICES ASSUME NEW i \in 0..(Available - 1) PROVE cells'[i] = absOffset + i
      BY <3>a DEF Holds
    <3>1. i \in 0..(room - 1) /\ i < Available BY <2>1, <1>t DEF Available
    <3>2. cells'[i] = cells[pos + i] BY <2>1, <3>1
    <3> QED BY <3>2 DEF BufInv, BufferIsTheInput
  <2>4. ViewHolds' BY <2>1 DEF ViewHolds
  <2>5. GarbageIsBounded' BY <2>1, BufferAssumption DEF GarbageIsBounded
  <2>6. ExtentInv' BY <2>1, <1>t DEF ExtentInv, Available
  <2> QED BY <2>2, <2>3, <2>4, <2>5, <2>6 DEF BufInv
<1>9. CASE UNCHANGED bufVars
  BY <1>9 DEF bufVars, BufInv, BufTypeOK, BufferIsTheInput, ViewHolds, GarbageIsBounded,
              ExtentInv, Available, Viewed, CellsFrom
<1> QED BY <1>1, <1>2, <1>3, <1>4, <1>5, <1>6, <1>7, <1>8, <1>9 DEF BufNext

\* Every operation of the parser leaves its buffer, and the views into it, as the
\* invariant says: what the three theorems below are read off.
THEOREM BufferCorrect == BufSpec => []BufInv
BY InitBuf, StepBuf, PTL DEF BufSpec

\* The parser's buffer is at all times the input from its offset on, for chunks,
\* headers and payloads of any size and any threshold of trimming.
THEOREM BufferHoldsTheInput == BufSpec => []BufferIsTheInput
<1>1. BufInv => BufferIsTheInput BY DEF BufInv
<1> QED BY <1>1, BufferCorrect, PTL

\* A payload that LeafNode.Payload gave without a copy reads as the payload, as
\* often as it is asked for, until the next header is consumed.
THEOREM ViewStaysValid == BufSpec => []ViewHolds
<1>1. BufInv => ViewHolds BY DEF BufInv
<1> QED BY <1>1, BufferCorrect, PTL

\* However long the input, less than the threshold of consumed bytes is kept, and
\* the payload delivered last.
THEOREM BufferStaysSmall == BufSpec => []GarbageIsBounded
<1>1. BufInv => GarbageIsBounded BY DEF BufInv
<1> QED BY <1>1, BufferCorrect, PTL

-----------------------------------------------------------------------------
(* The KVS Reader.                                                         *)

InBandError(k) == ErrorCode \in DOMAIN delivered[k].tags

\* An in-band error is latched by the Next that delivers it, and stays what a
\* Reader answers: nothing is asked of the layer below again.
ErrorLatched ==
  /\ IsSequence(delivered)
  /\ \A k \in DOMAIN delivered : InBandError(k) => sticky = "stream" /\ ~asking

\* Every step of the Reader but the hand-over of a fragment.
LEMMA LatchedStays ==
  ASSUME ErrorLatched, [KvsNext]_kvsVars, ~NextFragment
  PROVE  /\ ErrorLatched'
         /\ \A k \in DOMAIN delivered : InBandError(k) =>
              delivered' = delivered /\ (reported' = reported \/ reported' = "stream")
  <1>1. delivered' = delivered
    BY DEF KvsNext, Running, Next, Fill, NextFails, NextEnds, Close, CallerEdits, kvsVars
  <1>2. ASSUME NEW k \in DOMAIN delivered, InBandError(k)
        PROVE  /\ sticky' = "stream" /\ ~asking'
               /\ reported' = reported \/ reported' = "stream"
    <2>1. sticky = "stream" /\ ~asking
      BY <1>2 DEF ErrorLatched
    <2>2. Answer = "stream"
      BY <2>1 DEF Answer
    <2> QED BY <2>1, <2>2 DEF KvsNext, Running, Next, Fill, Filling, NextFails, NextEnds,
                             Close, CallerEdits, kvsVars, reader
  <1> QED BY <1>1, <1>2 DEF ErrorLatched, InBandError

\* A fragment is handed over only while none delivered carries an error.
LEMMA LatchingStep ==
  ASSUME ErrorLatched, NextFragment
  PROVE  /\ ErrorLatched'
         /\ \A k \in DOMAIN delivered : ~InBandError(k)
  <1>1. \A k \in DOMAIN delivered : ~InBandError(k)
    BY DEF NextFragment, ErrorLatched
  <1> DEFINE tags == EffectiveTags(segments[Head(queue).segment])
             new  == [segment |-> Head(queue).segment, truncated |-> Head(queue).truncated,
                      tags |-> tags]
  <1>2. /\ delivered' = Append(delivered, new) /\ asking' = FALSE
        /\ sticky' = IF ErrorCode \in DOMAIN tags THEN "stream" ELSE "none"
    BY DEF NextFragment
  <1>3. new.tags = tags
    OBVIOUS
  <1> HIDE DEF tags, new
  <1>4. /\ Len(delivered) \in Nat /\ DOMAIN delivered = 1..Len(delivered)
        /\ IsSequence(delivered') /\ DOMAIN delivered' = 1..(Len(delivered) + 1)
        /\ \A i \in 1..Len(delivered) : delivered'[i] = delivered[i]
        /\ delivered'[Len(delivered) + 1] = new
    BY <1>2, AppendToSequence DEF ErrorLatched
  <1>5. ASSUME NEW k \in DOMAIN delivered', ErrorCode \in DOMAIN delivered'[k].tags
        PROVE  sticky' = "stream" /\ ~asking'
    <2>1. CASE k = Len(delivered) + 1
      BY <1>2, <1>3, <1>4, <1>5, <2>1
    <2>2. CASE k # Len(delivered) + 1
      BY <1>1, <1>4, <1>5, <2>2 DEF InBandError
    <2> QED BY <2>1, <2>2
  <1> QED BY <1>1, <1>4, <1>5 DEF ErrorLatched, InBandError

LEMMA LatchedInit == KvsInit => ErrorLatched
  BY DEF KvsInit, ErrorLatched, IsSequence, Range

\* Whatever is called after a fragment that carries an in-band error - Next, Close, or
\* a write to its tags by the caller - no fragment follows it and no other error is
\* reported (integrations/kvs/reader.go, Next).
THEOREM ErrorIsTheLast == KvsSpec => StreamErrorIsFinal
  <1> DEFINE Step == \A k \in DOMAIN delivered : InBandError(k) =>
                       delivered' = delivered /\ (reported' = reported \/ reported' = "stream")
  <1>1. ErrorLatched /\ [KvsNext]_kvsVars => ErrorLatched' /\ Step
    BY LatchedStays, LatchingStep
  <1>2. KvsSpec => [][Step]_kvsVars
    BY <1>1, LatchedInit, PTL DEF KvsSpec
  <1>3. [Step]_kvsVars => [\A k \in DOMAIN delivered : ErrorCode \in DOMAIN delivered[k].tags =>
           /\ delivered' = delivered
           /\ reported' = reported \/ reported' = "stream"]_kvsVars
    BY DEF InBandError
  <1> QED BY <1>2, <1>3, PTL DEF StreamErrorIsFinal

\* The maps as a sequence, each of the fragments' its own, the history's in none.
MapsInv == IsSequence(maps) /\ history = [u \in UUIDs |-> history[u]] /\ NoMapIsShared

\* What a hand-over allocates is new: one map for the caller, and a clone for the
\* history of the Segment's UUID.
LEMMA RecordAllocates ==
  ASSUME MapsInv, NEW seg, NEW tags, Record(seg, tags)
  PROVE  MapsInv'
  <1> DEFINE n == Len(maps) + 1
  <1>1. /\ Len(maps) \in Nat /\ DOMAIN maps = 1..Len(maps)
        /\ IsSequence(Append(maps, tags)) /\ Len(Append(maps, tags)) = n
        /\ DOMAIN Append(maps, tags) = 1..n
    BY AppendToSequence DEF MapsInv
  <1>2. /\ IsSequence(Append(Append(maps, tags), tags))
        /\ DOMAIN Append(Append(maps, tags), tags) = 1..(n + 1)
    BY <1>1, AppendToSequence
  <1>3. maps \o <<tags, tags>> = Append(Append(maps, tags), tags)
    BY <1>1 DEF MapsInv, IsSequence
  <1>4. /\ IsSequence(maps') /\ 1..n \subseteq DOMAIN maps' /\ DOMAIN maps' \subseteq 1..(n + 1)
        /\ given' = Append(given, n)
        /\ \/ history' = history
           \/ history' = [history EXCEPT ![seg.uuid] = n + 1] /\ n + 1 \in DOMAIN maps'
    <2>1. CASE Inherits(seg.uuid)
      <3>1. /\ maps' = Append(Append(maps, tags), tags) /\ given' = Append(given, n)
            /\ history' = [history EXCEPT ![seg.uuid] = n + 1]
        BY <1>3, <2>1 DEF Record
      <3> QED BY <1>1, <1>2, <3>1
    <2>2. CASE ~Inherits(seg.uuid)
      <3>1. maps' = Append(maps, tags) /\ given' = Append(given, n) /\ history' = history
        BY <2>2 DEF Record
      <3> QED BY <1>1, <3>1
    <2> QED BY <2>1, <2>2
  <1>5. given \in Seq(1..Len(maps)) /\ IsInjective(given) /\ Len(given) \in Nat
        /\ DOMAIN given = 1..Len(given) /\ \A i \in DOMAIN given : given[i] \in 1..Len(maps)
    BY <1>1 DEF MapsInv, NoMapIsShared
  <1>6. given' \in Seq(1..n) /\ Len(given') = Len(given) + 1
    BY <1>1, <1>4, <1>5
  <1>7. \A i \in DOMAIN given' :
           \/ i \in DOMAIN given /\ given'[i] = given[i] /\ given[i] \in 1..Len(maps)
           \/ i = Len(given) + 1 /\ given'[i] = n
    <2>1. IsSequence(given)
      BY <1>5 DEF IsSequence, Range
    <2>2. /\ DOMAIN given' = 1..(Len(given) + 1) /\ given'[Len(given) + 1] = n
          /\ \A i \in 1..Len(given) : given'[i] = given[i]
      BY <1>4, <2>1, AppendToSequence
    <2> QED BY <1>5, <2>2
  <1>8. IsInjective(given')
    BY <1>1, <1>5, <1>7 DEF IsInjective
  <1>9. given' \in Seq(DOMAIN maps')
    <2>1. \A i \in 1..Len(given') : given'[i] \in DOMAIN maps'
      BY <1>1, <1>4, <1>6
    <2> QED BY <1>6, <2>1
  <1>10. ToSet(given') \subseteq ToSet(given) \cup {n}
    BY <1>7 DEF ToSet
  <1>11. ASSUME NEW u \in UUIDs
         PROVE  history'[u] \in {0} \cup (DOMAIN maps' \ ToSet(given'))
    <2>1. history[u] \in {0} \cup (1..Len(maps) \ ToSet(given))
      BY <1>1 DEF MapsInv, NoMapIsShared
    <2>2. history[u] \in {0} \cup (DOMAIN maps' \ ToSet(given'))
      BY <1>1, <1>4, <1>10, <2>1
    <2>3. n + 1 \notin ToSet(given')
      <3>1. \A i \in DOMAIN given' : given'[i] \in 1..n
        BY <1>1, <1>7
      <3> QED BY <1>1, <3>1 DEF ToSet
    <2>4. \/ history'[u] = history[u]
          \/ history'[u] = n + 1 /\ n + 1 \in DOMAIN maps'
      BY <1>4 DEF MapsInv
    <2> QED BY <2>2, <2>3, <2>4
  <1>12. history' = [u \in UUIDs |-> history'[u]]
    BY <1>4 DEF MapsInv
  <1> QED BY <1>4, <1>8, <1>9, <1>11, <1>12 DEF MapsInv, NoMapIsShared

\* The caller writes into a map: no map comes or goes.
LEMMA EditKeepsMaps ==
  ASSUME MapsInv, NEW i \in DOMAIN given, NEW name, CallerEdits(i, name)
  PROVE  MapsInv'
  <1>1. /\ Len(maps) \in Nat /\ DOMAIN maps = 1..Len(maps)
    BY DEF MapsInv, IsSequence
  <1>2. maps' \in [1..Len(maps) -> Range(maps')]
    BY <1>1 DEF CallerEdits, Range
  <1>3. IsSequence(maps') /\ DOMAIN maps' = DOMAIN maps
    BY <1>1, <1>2 DEF IsSequence
  <1> QED BY <1>3 DEF MapsInv, NoMapIsShared, CallerEdits, UUIDs

LEMMA MapsStep == MapsInv /\ [KvsNext]_kvsVars => MapsInv'
  <1> SUFFICES ASSUME MapsInv, [KvsNext]_kvsVars PROVE MapsInv'
    OBVIOUS
  <1>1. CASE NextFragment
    BY <1>1, RecordAllocates DEF NextFragment
  <1>2. CASE \E i \in DOMAIN given, name \in TagName : CallerEdits(i, name)
    BY <1>2, EditKeepsMaps
  <1>3. CASE UNCHANGED <<maps, history, given>>
    BY <1>3 DEF MapsInv, NoMapIsShared
  <1> QED BY <1>1, <1>2, <1>3 DEF KvsNext, Running, Next, Fill, NextFails, NextEnds, Close,
                                 reader, kvsVars

LEMMA MapsInit == KvsInit => MapsInv
  BY DEF KvsInit, MapsInv, NoMapIsShared, IsSequence, Range, IsInjective, ToSet

\* The caller owns the metadata it is handed: no two fragments, and no fragment and
\* the history that later ones inherit from, have a map in common
\* (integrations/kvs/reader.go, effectiveTags).
THEOREM MetadataIsPrivate == KvsSpec => []NoMapIsShared
  <1>1. MapsInv => NoMapIsShared
    BY DEF MapsInv
  <1> QED BY <1>1, MapsInit, MapsStep, PTL DEF KvsSpec

-----------------------------------------------------------------------------
(* Elements of a KVS stream, counted.                                      *)

\* The count goes up by one at each element of the kind.
LEMMA NumberStep ==
  ASSUME NEW el, NEW i \in Nat
  PROVE  /\ Number(el, 0) = 0 /\ Number(el, i) \in Nat
         /\ Number(el, i + 1) = Number(el, i) + IF Items[i + 1].el = el THEN 1 ELSE 0
  <1> DEFINE S(n) == {j \in 1..n : Items[j].el = el}
  <1>1. \A n \in Nat : IsFiniteSet(S(n))
    <2> TAKE n \in Nat
    <2>1. IsFiniteSet(1..n)
      BY FS_Interval
    <2>2. S(n) \subseteq 1..n
      OBVIOUS
    <2> HIDE DEF S
    <2> QED BY <2>1, <2>2, FS_Subset
  <1>2. \A n \in Nat : Number(el, n) = Cardinality(S(n))
    BY DEF Number
  <1>3. S(0) = {}
    OBVIOUS
  <1>4. S(i + 1) = S(i) \cup IF Items[i + 1].el = el THEN {i + 1} ELSE {}
    OBVIOUS
  <1>5. i + 1 \notin S(i) /\ i + 1 \in Nat
    OBVIOUS
  <1> HIDE DEF S
  <1>6. Number(el, 0) = 0
    BY <1>2, <1>3, FS_EmptySet
  <1>7. Number(el, i) \in Nat
    BY <1>1, <1>2, FS_CardinalityType
  <1>8. CASE Items[i + 1].el = el
    <2>1. S(i + 1) = S(i) \cup {i + 1}
      BY <1>4, <1>8
    <2>2. Cardinality(S(i + 1)) = Cardinality(S(i)) + 1
      BY <1>1, <1>5, <2>1, FS_AddElement
    <2> QED BY <1>2, <1>5, <1>6, <1>7, <1>8, <2>2
  <1>9. CASE Items[i + 1].el # el
    <2>1. S(i + 1) = S(i)
      BY <1>4, <1>9
    <2> QED BY <1>2, <1>5, <1>6, <1>7, <1>9, <2>1
  <1> QED BY <1>8, <1>9

\* It never falls, and no two elements of the kind have the same one.
LEMMA NumberRises ==
  ASSUME NEW el, NEW j \in Nat, NEW i \in 0..j
  PROVE  /\ Number(el, i) \in Nat /\ Number(el, j) \in Nat /\ Number(el, i) <= Number(el, j)
         /\ i < j /\ Items[j].el = el => Number(el, i) < Number(el, j)
  <1> DEFINE N(n) == Number(el, n)
             T == {n \in 0..(j - i) : N(i) <= N(i + n)}
  <1>1. \A n \in Nat : /\ N(n) \in Nat /\ N(n) <= N(n + 1)
                       /\ Items[n + 1].el = el => N(n + 1) = N(n) + 1
    BY NumberStep
  <1> HIDE DEF N
  <1>2. i \in Nat /\ j - i \in Nat
    OBVIOUS
  <1>3. 0 \in T
    BY <1>1, <1>2
  <1>4. ASSUME NEW n \in 1..(j - i), n - 1 \in T PROVE n \in T
    <2>1. i + (n - 1) \in Nat /\ (i + (n - 1)) + 1 = i + n /\ i + n \in Nat
      BY <1>2
    <2>2. N(i) <= N(i + (n - 1)) /\ N(i + (n - 1)) <= N(i + n)
      BY <1>1, <1>4, <2>1
    <2>3. N(i) <= N(i + n)
      BY <1>1, <1>2, <2>1, <2>2
    <2> QED BY <2>3
  <1> HIDE DEF T
  <1>5. 0..(j - i) \subseteq T
    BY <1>2, <1>3, <1>4, BoundedInduction
  <1>6. \A n \in 0..(j - i) : N(i) <= N(i + n)
    BY <1>5 DEF T
  <1>7. N(i) <= N(j)
    <2>1. j - i \in 0..(j - i) /\ i + (j - i) = j
      BY <1>2
    <2> QED BY <1>6, <2>1
  <1>8. ASSUME i < j, Items[j].el = el PROVE N(i) < N(j)
    <2>1. j - 1 \in Nat /\ (j - 1) + 1 = j /\ (j - 1) - i \in 0..(j - i) /\ i + ((j - 1) - i) = j - 1
      BY <1>2, <1>8
    <2>2. N(i) <= N(j - 1) /\ N(j) = N(j - 1) + 1
      BY <1>1, <1>6, <1>8, <2>1
    <2> QED BY <1>1, <1>2, <2>1, <2>2
  <1> QED BY <1>1, <1>2, <1>7, <1>8 DEF N

\* Every number up to the count is an element's.
LEMMA NumberReaches ==
  ASSUME NEW el, NEW n \in Nat, NEW k \in 1..Number(el, n)
  PROVE  \E i \in 1..n : Items[i].el = el /\ Number(el, i) = k
  <1> DEFINE N(m) == Number(el, m)
             T == {m \in 0..n : \A q \in 1..N(m) : \E i \in 1..m : Items[i].el = el /\ N(i) = q}
  <1>1. \A m \in Nat : /\ N(0) = 0 /\ N(m) \in Nat
                       /\ N(m + 1) = N(m) + IF Items[m + 1].el = el THEN 1 ELSE 0
    BY NumberStep
  <1> HIDE DEF N
  <1>2. 0 \in T
    BY <1>1
  <1>3. ASSUME NEW m \in 1..n, m - 1 \in T PROVE m \in T
    <2>1. m - 1 \in Nat /\ (m - 1) + 1 = m
      OBVIOUS
    <2>2. N(m) = N(m - 1) + IF Items[m].el = el THEN 1 ELSE 0
      BY <1>1, <2>1
    <2>3. ASSUME NEW q \in 1..N(m) PROVE \E i \in 1..m : Items[i].el = el /\ N(i) = q
      <3>1. CASE q \in 1..N(m - 1)
        <4>1. PICK i \in 1..(m - 1) : Items[i].el = el /\ N(i) = q
          BY <1>3, <3>1
        <4>2. i \in 1..m
          OBVIOUS
        <4> QED BY <4>1, <4>2
      <3>2. CASE q \notin 1..N(m - 1)
        <4>1. N(m - 1) \in Nat /\ N(m - 1) < q /\ q <= N(m)
          <5>1. N(m - 1) \in Nat /\ N(m) \in Nat
            BY <1>1, <2>1
          <5> QED BY <2>3, <3>2, <5>1
        <4>2. Items[m].el = el /\ N(m) = q
          <5>1. Items[m].el = el
            BY <2>2, <4>1
          <5> QED BY <2>2, <2>3, <4>1, <5>1
        <4> QED BY <4>2
      <3> QED BY <3>1, <3>2
    <2> QED BY <2>3
  <1> HIDE DEF T
  <1>4. 0..n \subseteq T
    BY <1>2, <1>3, BoundedInduction
  <1>5. n \in T
    BY <1>4
  <1> QED BY <1>5 DEF T, N

-----------------------------------------------------------------------------
(* What Tags elements state together.                                      *)

\* A set of positions has a last.
LEMMA LastOf ==
  ASSUME NEW n \in Nat, NEW S \in SUBSET (1..n), S # {}
  PROVE  Max(S) \in S /\ \A y \in S : y <= Max(S)
  <1> DEFINE D == {n - x : x \in S}
  <1>1. D \in SUBSET Nat /\ D # {}
    <2>1. \A x \in S : n - x \in Nat
      OBVIOUS
    <2>2. PICK x \in S : TRUE
      OBVIOUS
    <2>3. n - x \in D
      OBVIOUS
    <2>4. \A d \in D : d \in Nat
      BY <2>1
    <2> HIDE DEF D
    <2> QED BY <2>3, <2>4
  <1>2. PICK d \in D : \A y \in D : d <= y
    <2> HIDE DEF D
    <2> QED BY <1>1, LeastOf
  <1>3. PICK x \in S : d = n - x
    OBVIOUS
  <1>4. ASSUME NEW y \in S PROVE x >= y
    <2>1. n - y \in D
      OBVIOUS
    <2>2. d <= n - y
      BY <1>2, <2>1
    <2>3. x \in 1..n /\ y \in 1..n
      OBVIOUS
    <2> HIDE DEF D
    <2> QED BY <1>3, <2>2, <2>3
  <1>5. Max(S) \in S /\ \A y \in S : Max(S) >= y
    BY <1>4 DEF Max
  <1> QED BY <1>5

\* Later elements go before earlier ones.
LEMMA StatedOver ==
  ASSUME NEW n \in Nat, NEW S \in SUBSET (1..n), NEW T \in SUBSET (1..n),
         \A s \in S, t \in T : s < t
  PROVE  Stated(S \cup T) = Over(Stated(T), Stated(S))
  <1> DEFINE Names(E) == UNION {DOMAIN Items[j].tags : j \in E}
             With(E, name) == {j \in E : name \in DOMAIN Items[j].tags}
             Value(E, name) == Items[Max(With(E, name))].tags[name]
  <1>1. \A E : Stated(E) = [name \in Names(E) |-> Value(E, name)]
    BY DEF Stated
  <1>2. Names(S \cup T) = Names(T) \cup Names(S)
    OBVIOUS
  <1>3. \A E, name : name \in Names(E) <=> With(E, name) # {}
    OBVIOUS
  <1>4. ASSUME NEW name, name \in Names(T) PROVE Value(S \cup T, name) = Value(T, name)
    <2>1. /\ With(T, name) # {} /\ With(T, name) \in SUBSET (1..n)
          /\ With(S \cup T, name) # {} /\ With(S \cup T, name) \in SUBSET (1..n)
          /\ With(T, name) \subseteq With(S \cup T, name)
          /\ \A j \in With(S \cup T, name) : j \in S \/ j \in With(T, name)
          /\ With(T, name) \subseteq T
      BY <1>4
    <2> DEFINE a == With(T, name)
               b == With(S \cup T, name)
    <2> HIDE DEF With, Names
    <2>2. /\ Max(a) \in a /\ \A y \in a : y <= Max(a)
          /\ Max(b) \in b /\ \A y \in b : y <= Max(b)
      BY <2>1, LastOf
    <2>3. Max(a) <= Max(b) /\ Max(a) \in T
      BY <2>1, <2>2
    <2>4. Max(b) \notin S
      <3>1. Max(b) \in S => Max(b) < Max(a)
        BY <2>3
      <3>2. Max(a) \in Int /\ Max(b) \in Int
        BY <2>1, <2>2
      <3> QED BY <2>3, <3>1, <3>2
    <2>5. Max(b) \in a
      BY <2>1, <2>2, <2>4
    <2>6. Max(a) = Max(b)
      <3>1. Max(b) <= Max(a)
        BY <2>2, <2>5
      <3>2. Max(a) \in Int /\ Max(b) \in Int
        BY <2>1, <2>2
      <3> QED BY <2>3, <3>1, <3>2
    <2> QED BY <2>6
  <1>5. ASSUME NEW name, name \notin Names(T) PROVE Value(S \cup T, name) = Value(S, name)
    <2>1. With(T, name) = {}
      BY <1>3, <1>5
    <2>2. With(S \cup T, name) = With(S, name) \cup With(T, name)
      OBVIOUS
    <2>3. With(S \cup T, name) = With(S, name)
      BY <2>1, <2>2
    <2> HIDE DEF With
    <2> QED BY <2>3
  <1> HIDE DEF Names, Value, With
  <1> DEFINE f == Stated(T)
             g == Stated(S)
  <1>6. DOMAIN f = Names(T) /\ DOMAIN g = Names(S)
    BY <1>1
  <1>7. /\ \A name \in Names(T) : f[name] = Value(T, name)
        /\ \A name \in Names(S) : g[name] = Value(S, name)
    BY <1>1
  <1>8. Over(f, g) = [name \in (DOMAIN f) \cup (DOMAIN g) |-> IF name \in DOMAIN f THEN f[name] ELSE g[name]]
    BY DEF Over
  <1>9. Stated(S \cup T) = [name \in Names(T) \cup Names(S) |-> Value(S \cup T, name)]
    BY <1>1, <1>2
  <1> HIDE DEF f, g
  <1>10. \A name \in Names(T) \cup Names(S) :
           Value(S \cup T, name) = IF name \in DOMAIN f THEN f[name] ELSE g[name]
    BY <1>4, <1>5, <1>6, <1>7
  <1>11. Over(f, g) = Stated(S \cup T)
    BY <1>6, <1>8, <1>9, <1>10
  <1> QED BY <1>11 DEF f, g

\* What one states goes before what was stated.
LEMMA StatedMore ==
  ASSUME NEW n \in Nat, NEW S \in SUBSET (1..n)
  PROVE  Stated(S \cup {n + 1}) = Over(Items[n + 1].tags, Stated(S))
  <1> DEFINE f == Items[n + 1].tags
             o == {n + 1}
  <1>1. o \in SUBSET (1..(n + 1)) /\ S \in SUBSET (1..(n + 1)) /\ n + 1 \in Nat
        /\ \A s \in S, t \in o : s < t
    OBVIOUS
  <1>2. Stated(S \cup o) = Over(Stated(o), Stated(S))
    BY <1>1, StatedOver
  <1>3. Stated(o) = [name \in DOMAIN f |-> f[name]]
    <2>1. UNION {DOMAIN Items[j].tags : j \in o} = DOMAIN f
      OBVIOUS
    <2>2. ASSUME NEW name \in DOMAIN f
          PROVE  Items[Max({j \in o : name \in DOMAIN Items[j].tags})].tags[name] = f[name]
      <3>1. {j \in o : name \in DOMAIN Items[j].tags} = o
        OBVIOUS
      <3>2. Max(o) \in o
        <4> HIDE DEF o
        <4>1. o # {}
          BY DEF o
        <4> QED BY <1>1, <4>1, LastOf
      <3>3. Max(o) = n + 1
        BY <3>2
      <3> QED BY <3>1, <3>3
    <2> HIDE DEF f, o
    <2> QED BY <2>1, <2>2 DEF Stated
  <1> HIDE DEF f, o
  <1>4. DOMAIN Stated(o) = DOMAIN f /\ \A name \in DOMAIN f : Stated(o)[name] = f[name]
    BY <1>3
  <1> DEFINE g == Stated(S)
             e == Stated(o)
  <1>5. Over(e, g) = [name \in (DOMAIN e) \cup (DOMAIN g) |-> IF name \in DOMAIN e THEN e[name] ELSE g[name]]
    BY DEF Over
  <1>6. Over(f, g) = [name \in (DOMAIN f) \cup (DOMAIN g) |-> IF name \in DOMAIN f THEN f[name] ELSE g[name]]
    BY DEF Over
  <1>7. DOMAIN e = DOMAIN f /\ \A name \in DOMAIN f : e[name] = f[name]
    BY <1>4
  <1> HIDE DEF e, g
  <1>8. Over(e, g) = Over(f, g)
    BY <1>5, <1>6, <1>7
  <1> QED BY <1>2, <1>8 DEF e, g, f, o

\* No elements state nothing.
LEMMA StatedNothing == Stated({}) = << >>
  <1>1. UNION {DOMAIN Items[j].tags : j \in {}} = {}
    OBVIOUS
  <1> DEFINE f == Stated({})
  <1>2. f = [name \in {} |-> Items[Max({j \in {} : name \in DOMAIN Items[j].tags})].tags[name]]
    BY <1>1 DEF Stated
  <1>3. f = [name \in DOMAIN f |-> f[name]] /\ DOMAIN f = {}
    BY <1>2
  <1> HIDE DEF f
  <1>4. 1..0 = {}
    OBVIOUS
  <1>5. f \in [1..0 -> {}]
    BY <1>3, <1>4
  <1>6. f \in Seq({}) /\ Len(f) = 0
    BY <1>5
  <1>7. f = << >>
    BY <1>6
  <1> QED BY <1>7 DEF f

-----------------------------------------------------------------------------
(* Where elements stand.                                                   *)

\* What a stream is.
LEMMA NestedItems ==
  ASSUME stream \in Streams
  PROVE  /\ Len(Items) \in Nat /\ DOMAIN Items = 1..Len(Items) /\ stream.ending \in Ending
         /\ \A i \in 1..Len(Items) :
              /\ Items[i].el \in {"segment", "tags", "cluster", "end"}
              /\ Items[i].el = "end" <=> i > 1 /\ Items[i - 1].el = "cluster"
              /\ Items[i].el \in {"tags", "cluster"} => \E j \in 1..i : Items[j].el = "segment"
  <1>1. IsNested(Items) /\ stream.ending \in Ending
    BY StreamsAssumption DEF Items
  <1> HIDE DEF Items
  <1>2. Len(Items) \in Nat /\ DOMAIN Items = 1..Len(Items)
    BY <1>1 DEF IsNested
  <1> QED BY <1>1, <1>2 DEF IsNested

\* An element that is in a Segment is in one that began.
LEMMA SegmentBegan ==
  ASSUME stream \in Streams, NEW i \in 1..Len(Items), Items[i].el \in {"tags", "cluster"}
  PROVE  SegmentAt(i) \in Nat /\ SegmentAt(i) >= 1 /\ SegmentAt(i - 1) = SegmentAt(i)
  <1>1. PICK j \in 1..i : Items[j].el = "segment"
    BY NestedItems
  <1>2. i \in Nat /\ j \in Nat /\ j - 1 \in Nat /\ j \in 0..i /\ (j - 1) + 1 = j /\ i - 1 \in Nat
        /\ (i - 1) + 1 = i
    BY NestedItems
  <1>3. /\ Number("segment", j) = Number("segment", j - 1) + 1 /\ Number("segment", j - 1) \in Nat
        /\ Number("segment", i) = Number("segment", i - 1)
        /\ Number("segment", i - 1) \in Nat
    <2> DEFINE m == j - 1
               n == i - 1
    <2>1. m \in Nat /\ n \in Nat /\ m + 1 = j /\ n + 1 = i
      BY <1>2
    <2> HIDE DEF m, n
    <2>2. /\ Number("segment", m + 1) = Number("segment", m) + 1 /\ Number("segment", m) \in Nat
      BY <1>1, <2>1, NumberStep
    <2>3. /\ Number("segment", n + 1) = Number("segment", n) + 0 /\ Number("segment", n) \in Nat
      BY <2>1, NumberStep
    <2> QED BY <2>1, <2>2, <2>3 DEF m, n
  <1>4. Number("segment", j) <= Number("segment", i)
    BY <1>2, NumberRises
  <1> QED BY <1>3, <1>4 DEF SegmentAt

\* The UUID of a Segment is that of the element it begins with.
LEMMA UUIDIs ==
  ASSUME stream \in Streams, NEW i \in 1..Len(Items), Items[i].el = "segment"
  PROVE  UUIDOf(SegmentAt(i)) = Items[i].uuid
  <1> DEFINE n == SegmentAt(i)
             at1 == CHOOSE j \in DOMAIN Items : Items[j].el = "segment" /\ SegmentAt(j) = n
  <1>1. DOMAIN Items = 1..Len(Items) /\ Len(Items) \in Nat
    BY NestedItems
  <1>2. at1 \in 1..Len(Items) /\ Items[at1].el = "segment" /\ SegmentAt(at1) = n
    <2>1. \E j \in DOMAIN Items : Items[j].el = "segment" /\ SegmentAt(j) = n
      BY <1>1
    <2> HIDE DEF n
    <2> QED BY <1>1, <2>1
  <1>3. UUIDOf(n) = Items[at1].uuid
    BY DEF UUIDOf
  <1> HIDE DEF at1
  <1>4. i \in Nat /\ at1 \in Nat
    BY <1>1, <1>2
  <1>5. ~(at1 < i)
    <2> SUFFICES ASSUME at1 < i PROVE FALSE
      OBVIOUS
    <2>1. at1 \in 0..i
      BY <1>4
    <2>2. Number("segment", at1) < Number("segment", i)
          /\ Number("segment", at1) \in Nat /\ Number("segment", i) \in Nat
      BY <1>4, <2>1, NumberRises
    <2> QED BY <1>2, <2>2 DEF SegmentAt
  <1>6. ~(i < at1)
    <2> SUFFICES ASSUME i < at1 PROVE FALSE
      OBVIOUS
    <2>1. i \in 0..at1
      BY <1>4
    <2>2. Number("segment", i) < Number("segment", at1)
          /\ Number("segment", at1) \in Nat /\ Number("segment", i) \in Nat
      BY <1>2, <1>4, <2>1, NumberRises
    <2> QED BY <1>2, <2>2 DEF SegmentAt
  <1>7. at1 = i
    BY <1>4, <1>5, <1>6
  <1> QED BY <1>3, <1>7

\* The Tags elements of a Segment, when one more element is read.
LEMMA TagsStep ==
  ASSUME stream \in Streams, NEW a \in Nat, a < Len(Items), NEW n
  PROVE  TagsIn(n, a + 1) =
           IF Items[a + 1].el = "tags" /\ SegmentAt(a + 1) = n THEN TagsIn(n, a) \cup {a + 1}
           ELSE TagsIn(n, a)
  BY DEF TagsIn

\* Tags elements are among those read, and those of Segments in order.
LEMMA TagsAreRead ==
  ASSUME NEW a \in Nat, NEW n
  PROVE  TagsIn(n, a) \in SUBSET (1..a)
  BY DEF TagsIn

\* All that a Segment will state has been read.
Settled(n, a) == IsGetMedia(Items) => TagsIn(n, Len(Items)) = TagsIn(n, a)

\* It stays so.
LEMMA SettledStays ==
  ASSUME stream \in Streams, NEW a \in Nat, NEW b \in Nat, a <= b, b <= Len(Items), NEW n,
         Settled(n, a)
  PROVE  Settled(n, b)
  <1>1. Len(Items) \in Nat
    BY NestedItems
  <1>2. TagsIn(n, a) \subseteq TagsIn(n, b) /\ TagsIn(n, b) \subseteq TagsIn(n, Len(Items))
    BY <1>1 DEF TagsIn
  <1> QED BY <1>2 DEF Settled

\* A Segment is settled when the next begins,
LEMMA SettledByNext ==
  ASSUME stream \in Streams, NEW a \in Nat, a < Len(Items), Items[a + 1].el = "segment"
  PROVE  Settled(SegmentAt(a), a)
  <1>1. Len(Items) \in Nat
    BY NestedItems
  <1>2. SegmentAt(a + 1) = SegmentAt(a) + 1 /\ SegmentAt(a) \in Nat
    BY NumberStep DEF SegmentAt
  <1>3. ASSUME NEW j \in 1..Len(Items), SegmentAt(j) = SegmentAt(a) PROVE j \in 1..a
    <2> SUFFICES ASSUME ~(j <= a) PROVE FALSE
      BY <1>1
    <2>1. a + 1 \in 0..j /\ j \in Nat
      BY <1>1
    <2>2. Number("segment", a + 1) <= Number("segment", j)
      BY <2>1, NumberRises
    <2> QED BY <1>2, <1>3, <2>2 DEF SegmentAt
  <1>4. TagsIn(SegmentAt(a), Len(Items)) \subseteq TagsIn(SegmentAt(a), a)
    BY <1>3 DEF TagsIn
  <1>5. TagsIn(SegmentAt(a), a) \subseteq TagsIn(SegmentAt(a), Len(Items))
    BY <1>1 DEF TagsIn
  <1> QED BY <1>4, <1>5 DEF Settled

\* and when the token has been read.
LEMMA SettledByToken ==
  ASSUME stream \in Streams, NEW a \in 1..Len(Items), NEW n,
         Token \in DOMAIN Stated(TagsIn(n, a))
  PROVE  Settled(n, a)
  <1> SUFFICES ASSUME IsGetMedia(Items) PROVE TagsIn(n, Len(Items)) = TagsIn(n, a)
    BY DEF Settled
  <1>1. Len(Items) \in Nat /\ DOMAIN Items = 1..Len(Items) /\ a \in Nat
    BY NestedItems
  <1>2. PICK t \in TagsIn(n, a) : Token \in DOMAIN Items[t].tags
    BY DEF Stated
  <1>3. t \in 1..a /\ Items[t].el = "tags" /\ SegmentAt(t) = n /\ t \in 1..Len(Items)
    BY <1>1, <1>2 DEF TagsIn
  <1>4. ASSUME NEW j \in 1..Len(Items), Items[j].el = "tags", SegmentAt(j) = n PROVE j \in 1..a
    <2> SUFFICES ASSUME ~(j <= a) PROVE FALSE
      BY <1>1
    <2>1. t < j /\ t \in DOMAIN Items /\ j \in DOMAIN Items
      BY <1>1, <1>3
    <2>2. PICK q \in t..j : Items[q].el = "segment"
      BY <1>2, <1>3, <1>4, <2>1 DEF IsGetMedia
    <2>3. q \in Nat /\ t \in 0..q /\ t < q /\ q \in 0..j /\ j \in Nat
      BY <1>1, <1>3, <2>2
    <2>4. /\ Number("segment", t) < Number("segment", q)
          /\ Number("segment", q) <= Number("segment", j)
          /\ Number("segment", t) \in Nat /\ Number("segment", q) \in Nat
          /\ Number("segment", j) \in Nat
      BY <2>2, <2>3, NumberRises
    <2> QED BY <1>3, <1>4, <2>4 DEF SegmentAt
  <1>5. TagsIn(n, Len(Items)) \subseteq TagsIn(n, a)
    BY <1>4 DEF TagsIn
  <1>6. TagsIn(n, a) \subseteq TagsIn(n, Len(Items))
    BY <1>1 DEF TagsIn
  <1> QED BY <1>5, <1>6

\* In a stream of the KVS shape two Clusters are in two Segments.
LEMMA ClustersApart ==
  ASSUME stream \in Streams, IsGetMedia(Items), NEW j \in 1..Len(Items), NEW i \in 1..j, i # j,
         Items[i].el = "cluster", Items[j].el = "cluster"
  PROVE  /\ SegmentAt(i) \in Nat /\ SegmentAt(j) \in Nat /\ SegmentAt(i) < SegmentAt(j)
         /\ Number("cluster", i) \in Nat /\ Number("cluster", j) \in Nat
         /\ Number("cluster", i) < Number("cluster", j)
  <1>1. Len(Items) \in Nat /\ DOMAIN Items = 1..Len(Items)
    BY NestedItems
  <1>2. i \in DOMAIN Items /\ j \in DOMAIN Items /\ i < j /\ i \in 0..j /\ j \in Nat
    BY <1>1
  <1>3. PICK q \in i..j : Items[q].el = "segment"
    BY <1>2 DEF IsGetMedia
  <1>4. q \in Nat /\ i \in 0..q /\ i < q /\ q \in 0..j
    BY <1>2, <1>3
  <1>5. /\ Number("segment", i) < Number("segment", q)
        /\ Number("segment", q) <= Number("segment", j)
        /\ Number("segment", i) \in Nat /\ Number("segment", q) \in Nat
        /\ Number("segment", j) \in Nat
    BY <1>2, <1>3, <1>4, NumberRises
  <1>6. Number("cluster", i) < Number("cluster", j) /\ Number("cluster", i) \in Nat
        /\ Number("cluster", j) \in Nat
    BY <1>2, NumberRises
  <1> QED BY <1>5, <1>6 DEF SegmentAt

-----------------------------------------------------------------------------
(* The fragment layer, in front of d fragments delivered.                   *)

\* The parts of a layer.
IsLayer(b) ==
  /\ b = [segments |-> b.segments, cluster |-> b.cluster, pending |-> b.pending,
          queue |-> b.queue]
  /\ IsSequence(b.segments) /\ IsSequence(b.queue) /\ b.cluster \in BOOLEAN
  /\ \/ b.pending = << >>
     \/ b.pending = <<Fragment(b, FALSE)>> /\ ~b.cluster

\* The Segments are those read, with the tags read so far.
SegmentsOK(segs, a) ==
  /\ Len(segs) = SegmentAt(a)
  /\ \A n \in 1..Len(segs) : segs[n] = [uuid |-> UUIDOf(n), tags |-> Stated(TagsIn(n, a))]

\* A fragment that is that of the k-th Cluster, and of a Segment that is settled.
FragmentIs(f, k, a) ==
  \E i \in 1..a :
    /\ Items[i].el = "cluster" /\ Number("cluster", i) = k /\ Settled(SegmentAt(i), a)
    /\ f = [segment |-> SegmentAt(i), truncated |-> i = Len(Items) /\ stream.ending = "cut"]

QueueOK(Q, d, a) == \A q \in 1..Len(Q) : FragmentIs(Q[q], d + q, a)

\* The last Cluster, complete, is in the Segment being read.
HeldIs(a) ==
  \E i \in 1..a :
    /\ Items[i].el = "cluster" /\ Number("cluster", i) = Number("cluster", a)
    /\ SegmentAt(i) = SegmentAt(a) /\ (i < a \/ stream.ending = "clean")

Open(b) == IF b.cluster \/ b.pending # << >> THEN 1 ELSE 0

LayerOK(b, a, d) ==
  /\ IsLayer(b) /\ SegmentsOK(b.segments, a) /\ QueueOK(b.queue, d, a)
  /\ d + Len(b.queue) + Open(b) = Number("cluster", a)
  /\ b.cluster => a > 0 /\ Items[a].el = "cluster"
  /\ b.pending # << >> => HeldIs(a)

\* A layer that reads on knows that a Cluster is open.
ReadingOK(b, a, d) ==
  LayerOK(b, a, d) /\ (a > 0 /\ Items[a].el = "cluster" => b.cluster)

\* A sequence with one more element is one.
LEMMA OneMore ==
  ASSUME NEW s, IsSequence(s), NEW x
  PROVE  /\ s \o << >> = s /\ Append(s, x) = s \o <<x>>
         /\ IsSequence(Append(s, x)) /\ Len(Append(s, x)) = Len(s) + 1 /\ Len(s) \in Nat
         /\ DOMAIN s = 1..Len(s)
         /\ Append(s, x)[Len(s) + 1] = x /\ \A i \in 1..Len(s) : Append(s, x)[i] = s[i]
  <1>1. s \in Seq(Range(s) \cup {x})
    <2>1. Range(s) \subseteq Range(s) \cup {x}
      OBVIOUS
    <2> QED BY <2>1, SeqMonotonic DEF IsSequence
  <1> DEFINE S == Range(s) \cup {x}
  <1>2. s \in Seq(S) /\ x \in S
    BY <1>1
  <1> HIDE DEF S
  <1>3. s \o << >> = s /\ Append(s, x) = s \o <<x>>
    BY <1>2
  <1>4. /\ IsSequence(Append(s, x)) /\ Len(Append(s, x)) = Len(s) + 1 /\ Len(s) \in Nat
        /\ DOMAIN s = 1..Len(s)
        /\ Append(s, x)[Len(s) + 1] = x /\ \A i \in 1..Len(s) : Append(s, x)[i] = s[i]
    BY AppendToSequence
  <1> QED BY <1>3, <1>4

\* What was read of a layer stays true when the same is known of more.
LEMMA QueueStays ==
  ASSUME stream \in Streams, NEW a \in Nat, NEW b \in Nat, a <= b, b <= Len(Items),
         NEW Q, NEW d, QueueOK(Q, d, a)
  PROVE  QueueOK(Q, d, b)
  <1> SUFFICES ASSUME NEW q \in 1..Len(Q) PROVE FragmentIs(Q[q], d + q, b)
    BY DEF QueueOK
  <1>1. PICK i \in 1..a :
          /\ Items[i].el = "cluster" /\ Number("cluster", i) = d + q /\ Settled(SegmentAt(i), a)
          /\ Q[q] = [segment |-> SegmentAt(i), truncated |-> i = Len(Items) /\ stream.ending = "cut"]
    BY DEF QueueOK, FragmentIs
  <1>2. Settled(SegmentAt(i), b) /\ i \in 1..b
    BY <1>1, SettledStays
  <1> QED BY <1>1, <1>2 DEF FragmentIs

\* A fragment that is put behind the queue.
LEMMA QueueGrows ==
  ASSUME NEW Q, IsSequence(Q), NEW d \in Nat, NEW a, QueueOK(Q, d, a),
         NEW f, FragmentIs(f, d + Len(Q) + 1, a)
  PROVE  /\ QueueOK(Append(Q, f), d, a) /\ IsSequence(Append(Q, f))
         /\ Len(Append(Q, f)) = Len(Q) + 1 /\ Len(Q) \in Nat
  <1>1. /\ IsSequence(Append(Q, f)) /\ Len(Append(Q, f)) = Len(Q) + 1
        /\ Len(Q) \in Nat
        /\ Append(Q, f)[Len(Q) + 1] = f
        /\ \A i \in 1..Len(Q) : Append(Q, f)[i] = Q[i]
    BY OneMore
  <1>2. ASSUME NEW q \in 1..(Len(Q) + 1) PROVE FragmentIs(Append(Q, f)[q], d + q, a)
    <2>1. CASE q = Len(Q) + 1
      <3>1. d + q = d + Len(Q) + 1
        BY <1>1, <2>1
      <3> QED BY <1>1, <2>1, <3>1
    <2>2. CASE q # Len(Q) + 1
      <3>1. q \in 1..Len(Q)
        BY <1>1, <2>2
      <3> QED BY <1>1, <3>1 DEF QueueOK
    <2> QED BY <2>1, <2>2
  <1> QED BY <1>1, <1>2 DEF QueueOK

\* What Release leaves.
Released(b) ==
  [segments |-> b.segments, cluster |-> b.cluster, pending |-> << >>,
   queue |-> b.queue \o b.pending]

LEMMA ReleaseIs == ASSUME NEW b, IsLayer(b) PROVE Release(b) = Released(b)
  <1> DEFINE s == b.segments
             c == b.cluster
             e == b.pending
             q == b.queue
             r == [segments |-> s, cluster |-> c, pending |-> e, queue |-> q]
  <1>1. b = r
    BY DEF IsLayer
  <1>2. Release(b) = [b EXCEPT !.queue = q \o e, !.pending = << >>]
    BY DEF Release
  <1>3. Released(b) = [segments |-> s, cluster |-> c, pending |-> << >>, queue |-> q \o e]
    BY DEF Released
  <1> DEFINE n == << >>
             z == q \o e
  <1> HIDE DEF s, c, e, q, n, z
  <1>4. [r EXCEPT !.queue = z, !.pending = n]
          = [segments |-> s, cluster |-> c, pending |-> n, queue |-> z]
    <2> DEFINE t == [segments |-> s, cluster |-> c, pending |-> e, queue |-> z]
    <2>1. [r EXCEPT !.queue = z] = t
      OBVIOUS
    <2>2. [t EXCEPT !.pending = n] = [segments |-> s, cluster |-> c, pending |-> n, queue |-> z]
      OBVIOUS
    <2>3. [r EXCEPT !.queue = z, !.pending = n] = [[r EXCEPT !.queue = z] EXCEPT !.pending = n]
      OBVIOUS
    <2> QED BY <2>1, <2>2, <2>3
  <1> QED BY <1>1, <1>2, <1>3, <1>4 DEF n, z

\* The fragment held is released when its Segment is settled.
LEMMA ReleaseOK ==
  ASSUME stream \in Streams, NEW a \in 0..Len(Items), NEW d \in Nat, NEW b, LayerOK(b, a, d),
         b.pending # << >> => Settled(SegmentAt(a), a)
  PROVE  /\ LayerOK(Release(b), a, d) /\ Release(b).pending = << >>
         /\ Release(b).cluster = b.cluster /\ Release(b).segments = b.segments
         /\ Release(b).queue = Released(b).queue
  <1> DEFINE r == Released(b)
  <1>1. IsLayer(b) /\ Release(b) = r
    BY ReleaseIs DEF LayerOK
  <1>2. /\ r.segments = b.segments /\ r.cluster = b.cluster /\ r.pending = << >>
        /\ r.queue = b.queue \o b.pending
        /\ r = [segments |-> r.segments, cluster |-> r.cluster, pending |-> r.pending,
                queue |-> r.queue]
    BY DEF Released
  <1>3. Len(Items) \in Nat /\ a \in Nat
    BY NestedItems
  <1> HIDE DEF r
  <1>4. CASE b.pending = << >>
    <2>1. r.queue = b.queue
      BY <1>1, <1>2, <1>4, OneMore DEF IsLayer
    <2>2. IsLayer(r)
      BY <1>1, <1>2, <2>1 DEF IsLayer
    <2>3. Open(r) = Open(b)
      BY <1>2, <1>4 DEF Open
    <2>4. LayerOK(r, a, d)
      BY <1>2, <2>1, <2>2, <2>3 DEF LayerOK
    <2> QED BY <1>1, <1>2, <2>4 DEF r
  <1>5. CASE b.pending # << >>
    <2> DEFINE f == Fragment(b, FALSE)
    <2>1. b.pending = <<f>> /\ ~b.cluster
      BY <1>1, <1>5 DEF IsLayer
    <2>2. f = [segment |-> SegmentAt(a), truncated |-> FALSE]
      BY DEF Fragment, LayerOK, SegmentsOK
    <2> HIDE DEF f
    <2>3. r.queue = Append(b.queue, f)
      <3>1. IsSequence(b.queue) /\ r.queue = b.queue \o <<f>>
        BY <1>1, <1>2, <2>1 DEF IsLayer
      <3> QED BY <3>1, OneMore
    <2>4. PICK i \in 1..a :
            /\ Items[i].el = "cluster" /\ Number("cluster", i) = Number("cluster", a)
            /\ SegmentAt(i) = SegmentAt(a) /\ (i < a \/ stream.ending = "clean")
      BY <1>5 DEF LayerOK, HeldIs
    <2>5. d + Len(b.queue) + 1 = Number("cluster", a)
      BY <1>5 DEF LayerOK, Open
    <2>6. FragmentIs(f, d + Len(b.queue) + 1, a)
      <3>1. (i = Len(Items) /\ stream.ending = "cut") = FALSE
        BY <1>3, <2>4
      <3>2. Settled(SegmentAt(i), a)
        BY <1>5, <2>4
      <3>3. f = [segment |-> SegmentAt(i), truncated |-> i = Len(Items) /\ stream.ending = "cut"]
        BY <2>2, <2>4, <3>1
      <3> QED BY <2>4, <2>5, <3>2, <3>3 DEF FragmentIs
    <2>7. /\ QueueOK(r.queue, d, a) /\ IsSequence(r.queue) /\ Len(r.queue) = Len(b.queue) + 1
          /\ Len(b.queue) \in Nat
      BY <1>1, <2>3, <2>6, QueueGrows DEF LayerOK, IsLayer
    <2>8. IsLayer(r)
      BY <1>1, <1>2, <2>7 DEF IsLayer
    <2>9. Open(r) = 0
      BY <1>2, <2>1 DEF Open
    <2>10. d + Len(r.queue) + Open(r) = Number("cluster", a)
      BY <2>5, <2>7, <2>9
    <2>11. LayerOK(r, a, d)
      BY <1>2, <2>1, <2>7, <2>8, <2>10 DEF LayerOK
    <2> QED BY <1>1, <1>2, <2>11 DEF r
  <1> QED BY <1>4, <1>5

-----------------------------------------------------------------------------
(* One more element.                                                       *)

\* The Segments when something else than a Segment or tags is read,
LEMMA SegmentsStay ==
  ASSUME stream \in Streams, NEW a \in Nat, a < Len(Items), NEW segs, SegmentsOK(segs, a),
         Items[a + 1].el \in {"cluster", "end"}
  PROVE  SegmentsOK(segs, a + 1)
  <1>1. SegmentAt(a + 1) = SegmentAt(a)
    <2>1. Items[a + 1].el # "segment"
      OBVIOUS
    <2>2. Number("segment", a + 1) = Number("segment", a) + 0 /\ Number("segment", a) \in Nat
      BY <2>1, NumberStep
    <2> QED BY <2>2 DEF SegmentAt
  <1>2. \A n : TagsIn(n, a + 1) = TagsIn(n, a)
    BY TagsStep
  <1> QED BY <1>1, <1>2 DEF SegmentsOK

\* when one begins,
LEMMA SegmentsBegin ==
  ASSUME stream \in Streams, NEW a \in Nat, a < Len(Items), NEW segs, IsSequence(segs),
         SegmentsOK(segs, a), Items[a + 1].el = "segment"
  PROVE  /\ SegmentsOK(Append(segs, [uuid |-> Items[a + 1].uuid, tags |-> << >>]), a + 1)
         /\ IsSequence(Append(segs, [uuid |-> Items[a + 1].uuid, tags |-> << >>]))
  <1> DEFINE x == [uuid |-> Items[a + 1].uuid, tags |-> << >>]
             N == Append(segs, x)
  <1>1. /\ IsSequence(N) /\ Len(N) = Len(segs) + 1 /\ Len(segs) \in Nat
        /\ N[Len(segs) + 1] = x /\ \A i \in 1..Len(segs) : N[i] = segs[i]
    BY OneMore, ZenonT(60)
  <1>2. SegmentAt(a + 1) = SegmentAt(a) + 1 /\ SegmentAt(a) \in Nat
    BY NumberStep DEF SegmentAt
  <1>3. \A n : TagsIn(n, a + 1) = TagsIn(n, a)
    BY TagsStep
  <1>4. x = [uuid |-> UUIDOf(SegmentAt(a + 1)), tags |-> Stated(TagsIn(SegmentAt(a + 1), a + 1))]
    <2>1. a + 1 \in 1..Len(Items)
      BY NestedItems
    <2>2. UUIDOf(SegmentAt(a + 1)) = Items[a + 1].uuid
      BY <2>1, UUIDIs
    <2>3. TagsIn(SegmentAt(a + 1), a) = {}
      <3> SUFFICES ASSUME NEW j \in TagsIn(SegmentAt(a + 1), a) PROVE FALSE
        OBVIOUS
      <3>1. j \in 1..a /\ SegmentAt(j) = SegmentAt(a + 1)
        BY DEF TagsIn
      <3>2. Number("segment", j) <= Number("segment", a) /\ Number("segment", j) \in Nat
        BY <3>1, NumberRises
      <3> QED BY <1>2, <3>1, <3>2 DEF SegmentAt
    <2>4. Stated(TagsIn(SegmentAt(a + 1), a + 1)) = << >>
      BY <1>3, <2>3, StatedNothing
    <2> QED BY <2>2, <2>4
  <1> HIDE DEF N, x
  <1>5. ASSUME NEW n \in 1..Len(N)
        PROVE  N[n] = [uuid |-> UUIDOf(n), tags |-> Stated(TagsIn(n, a + 1))]
    <2>1. CASE n = Len(segs) + 1
      BY <1>1, <1>2, <1>4, <2>1 DEF SegmentsOK
    <2>2. CASE n # Len(segs) + 1
      <3>1. n \in 1..Len(segs)
        BY <1>1, <2>2
      <3> QED BY <1>1, <1>3, <3>1 DEF SegmentsOK
    <2> QED BY <2>1, <2>2
  <1>6. SegmentsOK(N, a + 1)
    BY <1>1, <1>2, <1>5 DEF SegmentsOK
  <1> QED BY <1>1, <1>6 DEF N, x

\* The Segments in which the last states what e does too.
Stating(segs, e) ==
  [segs EXCEPT ![Len(segs)] = [uuid |-> segs[Len(segs)].uuid,
                               tags |-> Over(e.tags, segs[Len(segs)].tags)]]

\* and when tags are read.
LEMMA SegmentsState ==
  ASSUME stream \in Streams, NEW a \in Nat, a < Len(Items), NEW segs, IsSequence(segs),
         SegmentsOK(segs, a), Items[a + 1].el = "tags"
  PROVE  /\ SegmentsOK(Stating(segs, Items[a + 1]), a + 1) /\ IsSequence(Stating(segs, Items[a + 1]))
         /\ Len(Stating(segs, Items[a + 1])) = Len(segs) /\ Len(segs) \in Nat /\ Len(segs) >= 1
         /\ segs[Len(segs)] = [uuid |-> segs[Len(segs)].uuid, tags |-> segs[Len(segs)].tags]
  <1> DEFINE m == Len(segs)
             x == [uuid |-> segs[m].uuid, tags |-> Over(Items[a + 1].tags, segs[m].tags)]
             N == [segs EXCEPT ![m] = x]
  <1>1. a + 1 \in 1..Len(Items)
    BY NestedItems
  <1>2. SegmentAt(a + 1) >= 1 /\ SegmentAt(a + 1) \in Nat /\ SegmentAt((a + 1) - 1) = SegmentAt(a + 1)
    BY <1>1, SegmentBegan
  <1>3. (a + 1) - 1 = a
    OBVIOUS
  <1>4. m = SegmentAt(a + 1) /\ m \in Nat /\ m >= 1 /\ SegmentAt(a) = m
    BY <1>2, <1>3 DEF SegmentsOK
  <1>5. segs[m] = [uuid |-> UUIDOf(m), tags |-> Stated(TagsIn(m, a))]
    BY <1>4 DEF SegmentsOK
  <1>6. x = [uuid |-> UUIDOf(m), tags |-> Stated(TagsIn(m, a + 1))]
    <2>1. TagsIn(m, a + 1) = TagsIn(m, a) \cup {a + 1}
      BY <1>4, TagsStep
    <2>2. Stated(TagsIn(m, a) \cup {a + 1}) = Over(Items[a + 1].tags, Stated(TagsIn(m, a)))
      <3> DEFINE S == TagsIn(m, a)
      <3>1. S \in SUBSET (1..a)
        BY TagsAreRead
      <3> HIDE DEF m, S
      <3>2. Stated(S \cup {a + 1}) = Over(Items[a + 1].tags, Stated(S))
        BY ONLY <3>1, a \in Nat, StatedMore
      <3> QED BY <3>2 DEF S
    <2>3. segs[m].uuid = UUIDOf(m) /\ segs[m].tags = Stated(TagsIn(m, a))
      <3> DEFINE u == UUIDOf(m)
                 t == Stated(TagsIn(m, a))
                 y == segs[m]
      <3>1. y = [uuid |-> u, tags |-> t]
        BY <1>5
      <3> HIDE DEF u, t, y
      <3>2. y.uuid = u /\ y.tags = t
        BY <3>1
      <3> QED BY <3>2 DEF u, t, y
    <2>4. Over(Items[a + 1].tags, segs[m].tags) = Stated(TagsIn(m, a + 1))
      BY <2>1, <2>2, <2>3
    <2> QED BY <2>3, <2>4
  <1> HIDE DEF x
  <1>7. IsSequence(N) /\ Len(N) = m
    <2>1. m \in DOMAIN segs
      BY <1>4 DEF IsSequence
    <2> HIDE DEF m
    <2>2. IsSequence(N) /\ Len(N) = Len(segs)
      BY <2>1, ExceptOfSequence
    <2> QED BY <2>2 DEF m
  <1>8. N[m] = x /\ \A n \in 1..m : n # m => N[n] = segs[n]
    BY <1>4 DEF IsSequence
  <1>9. ASSUME NEW n \in 1..m PROVE N[n] = [uuid |-> UUIDOf(n), tags |-> Stated(TagsIn(n, a + 1))]
    <2>1. CASE n = m
      BY <1>6, <1>8, <2>1
    <2>2. CASE n # m
      <3>1. TagsIn(n, a + 1) = TagsIn(n, a)
        BY <1>4, <2>2, TagsStep
      <3> QED BY <1>8, <2>2, <3>1 DEF SegmentsOK
    <2> QED BY <2>1, <2>2
  <1> HIDE DEF N
  <1>10. SegmentsOK(N, a + 1)
    BY <1>4, <1>7, <1>9 DEF SegmentsOK
  <1>11. N = Stating(segs, Items[a + 1])
    BY DEF N, x, Stating
  <1> QED BY <1>4, <1>5, <1>7, <1>10, <1>11

\* A layer in which only the Segments are others.
WithSegments(b, segs) ==
  [segments |-> segs, cluster |-> b.cluster, pending |-> b.pending, queue |-> b.queue]

\* What one more element makes of a layer.
LEMMA TakeIs ==
  ASSUME NEW b, IsLayer(b), NEW e
  PROVE  /\ e.el = "segment" =>
              Take(b, e) = WithSegments(Release(b), Append(b.segments, [uuid |-> e.uuid, tags |-> << >>]))
         /\ e.el = "tags" /\ Len(b.segments) \in DOMAIN b.segments
              /\ b.segments[Len(b.segments)]
                   = [uuid |-> b.segments[Len(b.segments)].uuid,
                      tags |-> b.segments[Len(b.segments)].tags] =>
              Take(b, e) = Settle(WithSegments(b, Stating(b.segments, e)), "tags")
         /\ e.el = "cluster" =>
              Take(b, e) = [segments |-> b.segments, cluster |-> TRUE, pending |-> << >>,
                            queue |-> b.queue \o b.pending]
         /\ e.el = "end" =>
              Take(b, e) = [segments |-> b.segments, cluster |-> FALSE,
                            pending |-> <<Fragment(b, FALSE)>>, queue |-> b.queue]
  <1> DEFINE s == b.segments
             c == b.cluster
             p == b.pending
             q == b.queue
             rec == [segments |-> s, cluster |-> c, pending |-> p, queue |-> q]
             z == q \o p
             n == << >>
             rel == [segments |-> s, cluster |-> c, pending |-> n, queue |-> z]
  <1>1. b = rec
    BY DEF IsLayer
  <1>2. Release(b) = rel
    BY ReleaseIs DEF Released
  <1>3. ASSUME e.el = "segment"
        PROVE  Take(b, e) = WithSegments(Release(b), Append(b.segments, [uuid |-> e.uuid, tags |-> << >>]))
    <2> DEFINE x == [uuid |-> e.uuid, tags |-> << >>]
    <2>1. Take(b, e) = [Release(b) EXCEPT !.segments = Append(@, x)]
      BY <1>3 DEF Take
    <2> HIDE DEF x, s, c, n, z
    <2>2. [rel EXCEPT !.segments = Append(@, x)]
            = [segments |-> Append(s, x), cluster |-> c, pending |-> n, queue |-> z]
      OBVIOUS
    <2>3. WithSegments(rel, Append(s, x))
            = [segments |-> Append(s, x), cluster |-> c, pending |-> n, queue |-> z]
      BY DEF WithSegments
    <2> QED BY <1>2, <2>1, <2>2, <2>3 DEF x, s
  <1>4. ASSUME e.el = "tags", Len(b.segments) \in DOMAIN b.segments,
               b.segments[Len(b.segments)] = [uuid |-> b.segments[Len(b.segments)].uuid,
                                              tags |-> b.segments[Len(b.segments)].tags]
        PROVE  Take(b, e) = Settle(WithSegments(b, Stating(b.segments, e)), "tags")
    <2> DEFINE m == Len(s)
               u == s[m].uuid
               t == s[m].tags
               o == Over(e.tags, t)
    <2>1. Take(b, e) = Settle([b EXCEPT !.segments[m].tags = Over(e.tags, @)], "tags")
      BY <1>4 DEF Take
    <2>2. [b EXCEPT !.segments[m].tags = Over(e.tags, @)]
            = [b EXCEPT !.segments = [s EXCEPT ![m] = [s[m] EXCEPT !.tags = o]]]
      OBVIOUS
    <2>3. [s[m] EXCEPT !.tags = o] = [uuid |-> u, tags |-> o]
      <3> DEFINE y == s[m]
                 r == [uuid |-> u, tags |-> t]
      <3>1. y = r
        BY <1>4
      <3> HIDE DEF y, u, t, o
      <3>2. [r EXCEPT !.tags = o] = [uuid |-> u, tags |-> o]
        OBVIOUS
      <3>3. [y EXCEPT !.tags = o] = [uuid |-> u, tags |-> o]
        BY <3>1, <3>2
      <3> QED BY <3>3 DEF y
    <2>4. [s EXCEPT ![m] = [s[m] EXCEPT !.tags = o]] = Stating(s, e)
      BY <2>3 DEF Stating
    <2> DEFINE S == [s EXCEPT ![m] = [s[m] EXCEPT !.tags = o]]
    <2>5. [b EXCEPT !.segments = S] = WithSegments(b, S)
      <3> HIDE DEF S, s, c, p, q
      <3>1. [rec EXCEPT !.segments = S] = [segments |-> S, cluster |-> c, pending |-> p, queue |-> q]
        OBVIOUS
      <3>2. WithSegments(b, S) = [segments |-> S, cluster |-> c, pending |-> p, queue |-> q]
        BY DEF WithSegments, c, p, q
      <3> QED BY <1>1, <3>1, <3>2
    <2> QED BY <2>1, <2>2, <2>4, <2>5
  <1>5. ASSUME e.el = "cluster"
        PROVE  Take(b, e) = [segments |-> b.segments, cluster |-> TRUE, pending |-> << >>,
                             queue |-> b.queue \o b.pending]
    <2>1. Take(b, e) = [Release(b) EXCEPT !.cluster = TRUE]
      BY <1>5 DEF Take
    <2> DEFINE y == TRUE
    <2> HIDE DEF s, c, n, z, y
    <2>2. [rel EXCEPT !.cluster = y] = [segments |-> s, cluster |-> y, pending |-> n, queue |-> z]
      OBVIOUS
    <2>3. Take(b, e) = [Release(b) EXCEPT !.cluster = y]
      BY <2>1 DEF y
    <2> QED BY <1>2, <2>3, <2>2 DEF s, n, z, y
  <1>6. ASSUME e.el = "end"
        PROVE  Take(b, e) = [segments |-> b.segments, cluster |-> FALSE,
                             pending |-> <<Fragment(b, FALSE)>>, queue |-> b.queue]
    <2> DEFINE f == <<Fragment(b, FALSE)>>
               v == FALSE
    <2>1. Take(b, e) = Settle([b EXCEPT !.cluster = v, !.pending = f], "end")
      BY <1>6 DEF Take, v
    <2> HIDE DEF f, v, s, c, p, q
    <2>2. [rec EXCEPT !.cluster = v, !.pending = f]
            = [segments |-> s, cluster |-> v, pending |-> f, queue |-> q]
      <3> DEFINE t == [segments |-> s, cluster |-> v, pending |-> p, queue |-> q]
      <3>1. [rec EXCEPT !.cluster = v] = t
        OBVIOUS
      <3>2. [t EXCEPT !.pending = f] = [segments |-> s, cluster |-> v, pending |-> f, queue |-> q]
        OBVIOUS
      <3>3. [rec EXCEPT !.cluster = v, !.pending = f] = [[rec EXCEPT !.cluster = v] EXCEPT !.pending = f]
        OBVIOUS
      <3> QED BY <3>1, <3>2, <3>3
    <2>3. \A y : Settle(y, "end") = y
      BY DEF Settle, MetadataComplete
    <2> QED BY <1>1, <2>1, <2>2, <2>3 DEF f, v, s, q
  <1> QED BY <1>3, <1>4, <1>5, <1>6

-----------------------------------------------------------------------------
(* A layer after one more element.                                         *)

\* The counts, one element on.
LEMMA CountsNext ==
  ASSUME stream \in Streams, NEW a \in Nat, a < Len(Items), NEW el
  PROVE  /\ a + 1 \in 1..Len(Items) /\ a + 1 \in Nat /\ a + 1 <= Len(Items) /\ a \in 0..Len(Items)
         /\ Items[a + 1].el \in {"segment", "tags", "cluster", "end"}
         /\ Items[a + 1].el = "end" <=> a > 0 /\ Items[a].el = "cluster"
         /\ Number(el, a) \in Nat /\ Number(el, a + 1) \in Nat
         /\ Items[a + 1].el # el => Number(el, a + 1) = Number(el, a)
         /\ Items[a + 1].el = el => Number(el, a + 1) = Number(el, a) + 1
  <1>1. a + 1 \in 1..Len(Items) /\ a + 1 \in Nat /\ a + 1 <= Len(Items) /\ (a + 1) - 1 = a
        /\ (a > 0 <=> a + 1 > 1) /\ a \in 0..Len(Items)
    BY NestedItems
  <1>2. Items[a + 1].el \in {"segment", "tags", "cluster", "end"}
        /\ (Items[a + 1].el = "end" <=> a + 1 > 1 /\ Items[(a + 1) - 1].el = "cluster")
    BY <1>1, NestedItems
  <1>3. Number(el, a) \in Nat /\ Number(el, a + 1) \in Nat
    BY <1>1, NumberStep
  <1>4. CASE Items[a + 1].el # el
    <2>1. Number(el, a + 1) = Number(el, a) + 0
      BY <1>4, NumberStep
    <2> QED BY <1>1, <1>2, <1>3, <1>4, <2>1
  <1>5. CASE Items[a + 1].el = el
    <2>1. Number(el, a + 1) = Number(el, a) + 1
      BY <1>5, NumberStep
    <2> QED BY <1>1, <1>2, <1>3, <1>5, <2>1
  <1> QED BY <1>4, <1>5

\* What is read of a layer in front of the element a + 1.
LEMMA LayerFacts ==
  ASSUME stream \in Streams, NEW a \in Nat, a < Len(Items), NEW d \in Nat, NEW b, ReadingOK(b, a, d)
  PROVE  /\ LayerOK(b, a, d) /\ IsLayer(b) /\ IsSequence(b.segments) /\ IsSequence(b.queue)
         /\ b.cluster \in BOOLEAN
         /\ SegmentsOK(b.segments, a) /\ QueueOK(b.queue, d, a + 1)
         /\ d + Len(b.queue) + Open(b) = Number("cluster", a)
         /\ Len(b.queue) \in Nat
         /\ b.cluster <=> Items[a + 1].el = "end"
         /\ b.pending # << >> => HeldIs(a) /\ b.pending = <<Fragment(b, FALSE)>> /\ ~b.cluster
  <1>1. LayerOK(b, a, d) /\ (a > 0 /\ Items[a].el = "cluster" => b.cluster)
    BY DEF ReadingOK
  <1>2. /\ IsLayer(b) /\ SegmentsOK(b.segments, a) /\ QueueOK(b.queue, d, a)
        /\ d + Len(b.queue) + Open(b) = Number("cluster", a)
        /\ b.cluster => a > 0 /\ Items[a].el = "cluster"
        /\ b.pending # << >> => HeldIs(a)
    BY <1>1 DEF LayerOK
  <1>3. /\ IsSequence(b.segments) /\ IsSequence(b.queue) /\ b.cluster \in BOOLEAN
        /\ b.pending # << >> => b.pending = <<Fragment(b, FALSE)>> /\ ~b.cluster
    BY <1>2 DEF IsLayer
  <1>4. QueueOK(b.queue, d, a + 1)
    <2>1. a + 1 \in Nat /\ a <= a + 1 /\ a + 1 <= Len(Items)
      BY CountsNext
    <2> QED BY <1>2, <2>1, QueueStays
  <1>5. Len(b.queue) \in Nat
    BY <1>3, OneMore
  <1>6. b.cluster <=> Items[a + 1].el = "end"
    BY <1>1, <1>2, CountsNext
  <1> QED BY <1>1, <1>2, <1>3, <1>4, <1>5, <1>6

\* What the four parts of a layer are enough for.
LEMMA LayerFrom ==
  ASSUME NEW a \in Nat, NEW d \in Nat, NEW segs, NEW c \in BOOLEAN, NEW p, NEW Q,
         IsSequence(segs), IsSequence(Q), SegmentsOK(segs, a), QueueOK(Q, d, a),
         p = << >> \/ (p = <<[segment |-> Len(segs), truncated |-> FALSE]>> /\ ~c /\ HeldIs(a)),
         d + Len(Q) + (IF c \/ p # << >> THEN 1 ELSE 0) = Number("cluster", a),
         c => a > 0 /\ Items[a].el = "cluster"
  PROVE  LayerOK([segments |-> segs, cluster |-> c, pending |-> p, queue |-> Q], a, d)
  <1> DEFINE b == [segments |-> segs, cluster |-> c, pending |-> p, queue |-> Q]
  <1>1. b.segments = segs /\ b.cluster = c /\ b.pending = p /\ b.queue = Q
        /\ b = [segments |-> b.segments, cluster |-> b.cluster, pending |-> b.pending,
                queue |-> b.queue]
    OBVIOUS
  <1> HIDE DEF b
  <1>2. Fragment(b, FALSE) = [segment |-> Len(segs), truncated |-> FALSE]
    BY <1>1 DEF Fragment
  <1>3. IsLayer(b)
    <2>1. p = << >> \/ (p = <<Fragment(b, FALSE)>> /\ ~c)
      BY <1>2
    <2> QED BY <1>1, <2>1 DEF IsLayer
  <1>4. Open(b) = IF c \/ p # << >> THEN 1 ELSE 0
    BY <1>1 DEF Open
  <1>5. p # << >> => HeldIs(a)
    OBVIOUS
  <1>6. LayerOK(b, a, d)
    BY <1>1, <1>3, <1>4, <1>5 DEF LayerOK
  <1> QED BY <1>6 DEF b

\* A Segment begins.
LEMMA TakeSegment ==
  ASSUME stream \in Streams, NEW a \in Nat, a < Len(Items), NEW d \in Nat, NEW b, ReadingOK(b, a, d),
         Items[a + 1].el = "segment"
  PROVE  ReadingOK(Take(b, Items[a + 1]), a + 1, d)
  <1> DEFINE r == Release(b)
             N == Append(b.segments, [uuid |-> Items[a + 1].uuid, tags |-> << >>])
  <1>1. /\ LayerOK(b, a, d) /\ IsLayer(b) /\ IsSequence(b.segments) /\ SegmentsOK(b.segments, a)
        /\ ~b.cluster
    BY LayerFacts
  <1>2. a \in 0..Len(Items) /\ a + 1 \in Nat /\ a <= a + 1 /\ a + 1 <= Len(Items)
        /\ Number("cluster", a + 1) = Number("cluster", a)
    BY CountsNext
  <1>3. Settled(SegmentAt(a), a)
    BY SettledByNext
  <1>4. LayerOK(r, a, d) /\ r.pending = << >> /\ r.cluster = b.cluster /\ r.segments = b.segments
    BY <1>1, <1>2, <1>3, ReleaseOK
  <1>5. Take(b, Items[a + 1]) = WithSegments(r, N)
    BY <1>1, TakeIs
  <1>6. SegmentsOK(N, a + 1) /\ IsSequence(N)
    BY <1>1, SegmentsBegin
  <1> HIDE DEF r, N
  <1>7. IsSequence(r.queue) /\ QueueOK(r.queue, d, a) /\ d + Len(r.queue) + Open(r) = Number("cluster", a)
    BY <1>4 DEF LayerOK, IsLayer
  <1>8. QueueOK(r.queue, d, a + 1)
    BY <1>2, <1>7, QueueStays
  <1>9. d + Len(r.queue) + 0 = Number("cluster", a + 1)
    <2>1. Open(r) = 0
      BY <1>1, <1>4 DEF Open
    <2> QED BY <1>2, <1>7, <2>1
  <1>10. LayerOK([segments |-> N, cluster |-> FALSE, pending |-> << >>, queue |-> r.queue], a + 1, d)
    <2> DEFINE c == FALSE
               p == << >>
    <2>1. c \in BOOLEAN /\ ~c /\ p = << >>
      OBVIOUS
    <2> HIDE DEF c, p
    <2>2. LayerOK([segments |-> N, cluster |-> c, pending |-> p, queue |-> r.queue], a + 1, d)
      BY <1>2, <1>6, <1>7, <1>8, <1>9, <2>1, LayerFrom
    <2> QED BY <2>2 DEF c, p
  <1>11. WithSegments(r, N) = [segments |-> N, cluster |-> FALSE, pending |-> << >>, queue |-> r.queue]
    <2>1. r.cluster = FALSE
      BY <1>1, <1>4
    <2> QED BY <1>4, <2>1 DEF WithSegments
  <1>12. LayerOK(Take(b, Items[a + 1]), a + 1, d)
    BY <1>5, <1>10, <1>11
  <1> QED BY <1>12 DEF ReadingOK

\* A Cluster begins.
LEMMA TakeCluster ==
  ASSUME stream \in Streams, NEW a \in Nat, a < Len(Items), NEW d \in Nat, NEW b, ReadingOK(b, a, d),
         Items[a + 1].el = "cluster"
  PROVE  ReadingOK(Take(b, Items[a + 1]), a + 1, d)
  <1> DEFINE r == Release(b)
             Q == b.queue \o b.pending
  <1>1. /\ LayerOK(b, a, d) /\ IsLayer(b) /\ IsSequence(b.segments) /\ SegmentsOK(b.segments, a)
        /\ ~b.cluster /\ (b.pending # << >> => HeldIs(a))
    BY LayerFacts
  <1>2. /\ a \in 0..Len(Items) /\ a + 1 \in Nat /\ a <= a + 1 /\ a + 1 <= Len(Items)
        /\ a + 1 \in 1..Len(Items) /\ a + 1 > 0
        /\ Number("cluster", a + 1) = Number("cluster", a) + 1 /\ Number("cluster", a) \in Nat
    BY CountsNext
  <1>3. ASSUME b.pending # << >> PROVE Settled(SegmentAt(a), a)
    <2> SUFFICES ASSUME IsGetMedia(Items) PROVE FALSE
      BY DEF Settled
    <2>1. PICK i \in 1..a : Items[i].el = "cluster" /\ SegmentAt(i) = SegmentAt(a)
      BY <1>1, <1>3 DEF HeldIs
    <2>2. i \in 1..(a + 1) /\ i # a + 1
      BY <2>1
    <2>3. SegmentAt(i) \in Nat /\ SegmentAt(a + 1) \in Nat /\ SegmentAt(i) < SegmentAt(a + 1)
      BY <1>2, <2>1, <2>2, ClustersApart
    <2>4. SegmentAt(a + 1) = SegmentAt(a)
      <3>1. Items[a + 1].el # "segment"
        OBVIOUS
      <3> QED BY <3>1, CountsNext DEF SegmentAt
    <2> QED BY <2>1, <2>3, <2>4
  <1>4. /\ LayerOK(r, a, d) /\ r.pending = << >> /\ r.cluster = b.cluster
        /\ r.segments = b.segments /\ r.queue = Q
    BY <1>1, <1>2, <1>3, ReleaseOK DEF Released
  <1> DEFINE t == [segments |-> b.segments, cluster |-> TRUE, pending |-> << >>, queue |-> Q]
  <1>5. Take(b, Items[a + 1]) = t
    BY <1>1, TakeIs
  <1>6. SegmentsOK(b.segments, a + 1)
    BY <1>1, SegmentsStay
  <1> HIDE DEF r, Q
  <1>7. IsSequence(Q) /\ QueueOK(Q, d, a) /\ d + Len(Q) + Open(r) = Number("cluster", a) /\ Len(Q) \in Nat
    <2>1. IsSequence(Q) /\ QueueOK(Q, d, a) /\ d + Len(Q) + Open(r) = Number("cluster", a)
      BY <1>4 DEF LayerOK, IsLayer
    <2> QED BY <2>1, OneMore
  <1>8. QueueOK(Q, d, a + 1)
    BY <1>2, <1>7, QueueStays
  <1>9. Open(r) = 0
    BY <1>1, <1>4 DEF Open
  <1>10. d + Len(Q) + 1 = Number("cluster", a + 1)
    BY <1>2, <1>7, <1>9
  <1>11. LayerOK(t, a + 1, d)
    <2> DEFINE c == TRUE
               p == << >>
    <2>1. c \in BOOLEAN /\ c /\ p = << >>
      OBVIOUS
    <2> HIDE DEF c, p
    <2>2. LayerOK([segments |-> b.segments, cluster |-> c, pending |-> p, queue |-> Q], a + 1, d)
      BY <1>1, <1>2, <1>6, <1>7, <1>8, <1>10, <2>1, LayerFrom
    <2> QED BY <2>2 DEF c, p
  <1>12. t.cluster
    OBVIOUS
  <1> QED BY <1>5, <1>11, <1>12 DEF ReadingOK

\* A Cluster ends.
LEMMA TakeEnd ==
  ASSUME stream \in Streams, NEW a \in Nat, a < Len(Items), NEW d \in Nat, NEW b, ReadingOK(b, a, d),
         Items[a + 1].el = "end"
  PROVE  ReadingOK(Take(b, Items[a + 1]), a + 1, d)
  <1> DEFINE p == <<[segment |-> Len(b.segments), truncated |-> FALSE]>>
             t == [segments |-> b.segments, cluster |-> FALSE, pending |-> p, queue |-> b.queue]
  <1>1. /\ LayerOK(b, a, d) /\ IsLayer(b) /\ IsSequence(b.segments) /\ SegmentsOK(b.segments, a)
        /\ IsSequence(b.queue) /\ QueueOK(b.queue, d, a + 1) /\ b.cluster
        /\ d + Len(b.queue) + Open(b) = Number("cluster", a) /\ Len(b.queue) \in Nat
    BY LayerFacts
  <1>2. /\ a + 1 \in Nat /\ a > 0 /\ Items[a].el = "cluster"
        /\ Number("cluster", a + 1) = Number("cluster", a) /\ Number("cluster", a) \in Nat
    BY CountsNext
  <1>3. Take(b, Items[a + 1]) = t
    BY <1>1, TakeIs DEF Fragment
  <1>4. SegmentsOK(b.segments, a + 1) /\ SegmentAt(a + 1) = SegmentAt(a)
    BY <1>1, SegmentsStay, CountsNext DEF SegmentAt
  <1>5. HeldIs(a + 1)
    <2>1. a \in 1..(a + 1) /\ a < a + 1
      BY <1>2
    <2> QED BY <1>2, <1>4, <2>1 DEF HeldIs
  <1>6. Open(b) = 1
    BY <1>1 DEF Open
  <1>7. p # << >>
    OBVIOUS
  <1> DEFINE f == FALSE
  <1>8. LayerOK([segments |-> b.segments, cluster |-> f, pending |-> p, queue |-> b.queue], a + 1, d)
    <2>1. ~f /\ f \in BOOLEAN
      OBVIOUS
    <2>2. p = <<[segment |-> Len(b.segments), truncated |-> FALSE]>>
      OBVIOUS
    <2> HIDE DEF f, p
    <2>3. d + Len(b.queue) + (IF f \/ p # << >> THEN 1 ELSE 0) = Number("cluster", a + 1)
      BY <1>1, <1>2, <1>6, <1>7
    <2> QED BY <1>1, <1>2, <1>4, <1>5, <2>1, <2>2, <2>3, LayerFrom
  <1>9. Items[a + 1].el # "cluster"
    OBVIOUS
  <1> QED BY <1>3, <1>8, <1>9 DEF ReadingOK

\* Tags are read.
LEMMA TakeTags ==
  ASSUME stream \in Streams, NEW a \in Nat, a < Len(Items), NEW d \in Nat, NEW b, ReadingOK(b, a, d),
         Items[a + 1].el = "tags"
  PROVE  ReadingOK(Take(b, Items[a + 1]), a + 1, d)
  <1> DEFINE m == Len(b.segments)
             N == Stating(b.segments, Items[a + 1])
             w == WithSegments(b, N)
  <1>1. /\ LayerOK(b, a, d) /\ IsLayer(b) /\ IsSequence(b.segments) /\ SegmentsOK(b.segments, a)
        /\ IsSequence(b.queue) /\ QueueOK(b.queue, d, a + 1) /\ ~b.cluster
        /\ d + Len(b.queue) + Open(b) = Number("cluster", a) /\ Len(b.queue) \in Nat
        /\ b.pending # << >> => HeldIs(a) /\ b.pending = <<Fragment(b, FALSE)>> /\ ~b.cluster
    BY LayerFacts
  <1>2. /\ a + 1 \in Nat /\ a + 1 \in 1..Len(Items) /\ a + 1 \in 0..Len(Items)
        /\ Number("cluster", a + 1) = Number("cluster", a) /\ Number("cluster", a) \in Nat
        /\ SegmentAt(a + 1) = SegmentAt(a)
    <2>1. a + 1 \in Nat /\ a + 1 \in 1..Len(Items)
        /\ Number("cluster", a + 1) = Number("cluster", a) /\ Number("cluster", a) \in Nat
        /\ SegmentAt(a + 1) = SegmentAt(a)
      BY CountsNext DEF SegmentAt
    <2> QED BY <2>1
  <1>3. /\ SegmentsOK(N, a + 1) /\ IsSequence(N) /\ Len(N) = m /\ m \in Nat /\ m >= 1
        /\ b.segments[m] = [uuid |-> b.segments[m].uuid, tags |-> b.segments[m].tags]
    BY <1>1, SegmentsState
  <1>4. Take(b, Items[a + 1]) = Settle(w, "tags")
    <2>1. m \in DOMAIN b.segments
      <3>1. DOMAIN b.segments = 1..m
        BY <1>1, OneMore
      <3> QED BY <1>3, <3>1
    <2> HIDE DEF w
    <2> QED BY <1>1, <1>3, <2>1, TakeIs DEF w
  <1>5. HeldIs(a) => HeldIs(a + 1)
    <2> SUFFICES ASSUME HeldIs(a) PROVE HeldIs(a + 1)
      OBVIOUS
    <2>1. PICK i \in 1..a : /\ Items[i].el = "cluster" /\ Number("cluster", i) = Number("cluster", a)
                            /\ SegmentAt(i) = SegmentAt(a)
      BY DEF HeldIs
    <2>2. i \in 1..(a + 1) /\ i < a + 1
      OBVIOUS
    <2> QED BY <1>2, <2>1, <2>2 DEF HeldIs
  <1> DEFINE p == b.pending
             c == b.cluster
             t == [segments |-> N, cluster |-> c, pending |-> p, queue |-> b.queue]
  <1>6. w = t
    BY DEF WithSegments
  <1> HIDE DEF N
  <1>7. LayerOK(t, a + 1, d)
    <2>1. p = << >> \/ (p = <<[segment |-> Len(N), truncated |-> FALSE]>> /\ ~c /\ HeldIs(a + 1))
      <3>1. Fragment(b, FALSE) = [segment |-> Len(N), truncated |-> FALSE]
        BY <1>3 DEF Fragment
      <3> QED BY <1>1, <1>5, <3>1
    <2>2. c \in BOOLEAN /\ ~c
      BY <1>1, LayerFacts
    <2>3. d + Len(b.queue) + (IF c \/ p # << >> THEN 1 ELSE 0) = Number("cluster", a + 1)
      BY <1>1, <1>2 DEF Open
    <2> HIDE DEF p, c
    <2> QED BY <1>1, <1>2, <1>3, <2>1, <2>2, <2>3, LayerFrom
  <1>8. t.segments = N /\ ~t.cluster
    BY <1>1
  <1> HIDE DEF w, t
  <1>9. ASSUME Token \in DOMAIN Last(N).tags PROVE Settled(SegmentAt(a + 1), a + 1)
    <2>1. m = SegmentAt(a + 1)
      BY <1>1, <1>2 DEF SegmentsOK
    <2>2. N[m] = [uuid |-> UUIDOf(m), tags |-> Stated(TagsIn(m, a + 1))]
      BY <1>3 DEF SegmentsOK
    <2>3. N[m].tags = Stated(TagsIn(m, a + 1))
      BY <2>2
    <2>4. Last(N) = N[m]
      BY <1>3 DEF Last
    <2>5. Token \in DOMAIN Stated(TagsIn(m, a + 1))
      BY <1>9, <2>3, <2>4
    <2> HIDE DEF m
    <2> QED BY <1>2, <2>1, <2>5, SettledByToken
  <1>10. CASE Token \in DOMAIN Last(N).tags
    <2>1. LayerOK(Release(t), a + 1, d)
      BY <1>2, <1>7, <1>9, <1>10, ReleaseOK
    <2>2. Settle(t, "tags") = Release(t)
      BY <1>8, <1>10 DEF Settle, MetadataComplete
    <2> QED BY <1>4, <1>6, <2>1, <2>2 DEF ReadingOK
  <1>11. CASE Token \notin DOMAIN Last(N).tags
    <2>1. Settle(t, "tags") = t
      BY <1>8, <1>11 DEF Settle, MetadataComplete
    <2> QED BY <1>4, <1>6, <1>7, <2>1 DEF ReadingOK
  <1> QED BY <1>10, <1>11

\* One more element.
LEMMA TakeOK ==
  ASSUME stream \in Streams, NEW a \in Nat, a < Len(Items), NEW d \in Nat, NEW b, ReadingOK(b, a, d)
  PROVE  ReadingOK(Take(b, Items[a + 1]), a + 1, d)
  <1>1. Items[a + 1].el \in {"segment", "tags", "cluster", "end"}
    BY CountsNext
  <1> QED BY <1>1, TakeSegment, TakeTags, TakeCluster, TakeEnd

-----------------------------------------------------------------------------
(* A layer after many elements, and at the end.                            *)

\* f goes from the layer as it is to that after n elements.
Reading(f, n) ==
  f = [i \in 0..n |-> IF i = 0 THEN Layer ELSE Take(f[i - 1], stream.items[at + i])]

\* There is such a function.
LEMMA ReadingFunction == ASSUME NEW n \in Nat PROVE \E f : Reading(f, n)
  <1> USE DEF Reading
  <1> DEFINE Upto(m) == \E f : Reading(f, m)
             T == {m \in 0..n : Upto(m)}
  <1>1. 0 \in T
    <2> DEFINE g == [i \in 0..0 |-> Layer]
               h == [i \in 0..0 |-> IF i = 0 THEN Layer ELSE Take(g[i - 1], stream.items[at + i])]
    <2>1. \A i \in 0..0 : i = 0
      OBVIOUS
    <2>2. g = [i \in 0..0 |-> g[i]]
      OBVIOUS
    <2>3. \A i \in 0..0 : g[i] = IF i = 0 THEN Layer ELSE Take(g[i - 1], stream.items[at + i])
      BY <2>1
    <2> HIDE DEF g
    <2>4. g = h
      BY <2>2, <2>3
    <2>5. Upto(0)
      BY <2>4
    <2> HIDE DEF Upto
    <2> QED BY <2>5
  <1>2. ASSUME NEW m \in 1..n, m - 1 \in T PROVE m \in T
    <2>1. PICK f : f = [i \in 0..(m - 1) |-> IF i = 0 THEN Layer
                                             ELSE Take(f[i - 1], stream.items[at + i])]
      BY <1>2
    <2> DEFINE h == [i \in 0..m |-> IF i < m THEN f[i] ELSE Take(f[i - 1], stream.items[at + i])]
               k == [i \in 0..m |-> IF i = 0 THEN Layer ELSE Take(h[i - 1], stream.items[at + i])]
    <2>2. \A i \in 0..(m - 1) : h[i] = f[i]
      OBVIOUS
    <2>3. ASSUME NEW i \in 0..m
          PROVE  h[i] = IF i = 0 THEN Layer ELSE Take(h[i - 1], stream.items[at + i])
      <3>1. i # 0 => i - 1 \in 0..(m - 1)
        OBVIOUS
      <3>2. i # 0 => h[i - 1] = f[i - 1]
        BY <2>2, <3>1
      <3>3. CASE i = m
        <4>1. h[i] = Take(f[i - 1], stream.items[at + i]) /\ i # 0
          BY <3>3
        <4> HIDE DEF h
        <4> QED BY <3>2, <4>1
      <3>4. CASE i # m
        <4>1. i \in 0..(m - 1)
          BY <3>4
        <4>2. h[i] = f[i] /\ f[i] = IF i = 0 THEN Layer ELSE Take(f[i - 1], stream.items[at + i])
          BY <2>1, <2>2, <4>1
        <4> HIDE DEF h
        <4> QED BY <3>2, <4>2
      <3> QED BY <3>3, <3>4
    <2>4. h = [i \in 0..m |-> h[i]]
      OBVIOUS
    <2> HIDE DEF h
    <2>5. h = k
      BY <2>3, <2>4
    <2>6. Upto(m)
      BY <2>5
    <2> HIDE DEF Upto
    <2> QED BY <2>6
  <1> HIDE DEF T
  <1>3. 0..n \subseteq T
    BY <1>1, <1>2, BoundedInduction
  <1>4. n \in T
    BY <1>3
  <1> QED BY <1>4 DEF T

\* Reading elements goes by it.
LEMMA AfterReads == ASSUME NEW n \in Nat PROVE \E f : Reading(f, n) /\ After(n) = f[n]
  <1> DEFINE By(f) == [i \in 0..n |-> IF i = 0 THEN Layer ELSE Take(f[i - 1], stream.items[at + i])]
             c == CHOOSE f : f = By(f)
  <1>1. PICK g : Reading(g, n)
    BY ReadingFunction
  <1>2. g = By(g)
    BY <1>1 DEF Reading
  <1>3. After(n) = c[n]
    BY DEF After
  <1> HIDE DEF By
  <1>4. c = By(c)
    BY <1>2
  <1> HIDE DEF c
  <1>5. Reading(c, n)
    BY <1>4 DEF By, Reading
  <1> QED BY <1>3, <1>5

\* A layer that reads on is as the elements read say.
LEMMA AfterOK ==
  ASSUME stream \in Streams, NEW d \in Nat, at \in Nat, NEW n \in Nat, at + n <= Len(Items),
         ReadingOK(Layer, at, d)
  PROVE  ReadingOK(After(n), at + n, d)
  <1>1. PICK f : Reading(f, n) /\ After(n) = f[n]
    BY AfterReads
  <1>2. \A i \in 0..n : f[i] = IF i = 0 THEN Layer ELSE Take(f[i - 1], Items[at + i])
    BY <1>1 DEF Reading, Items
  <1> DEFINE T == {i \in 0..n : ReadingOK(f[i], at + i, d)}
  <1>3. 0 \in T
    <2>1. f[0] = Layer /\ at + 0 = at /\ 0 \in 0..n
      BY <1>2
    <2> QED BY <2>1
  <1>4. ASSUME NEW i \in 1..n, i - 1 \in T PROVE i \in T
    <2> DEFINE a == at + (i - 1)
               b == f[i - 1]
    <2>1. a \in Nat /\ a + 1 = at + i /\ a < Len(Items) /\ i \in 0..n
      BY NestedItems
    <2>2. ReadingOK(b, a, d) /\ f[i] = Take(b, Items[at + i])
      BY <1>2, <1>4
    <2> HIDE DEF a, b
    <2>3. ReadingOK(Take(b, Items[a + 1]), a + 1, d)
      BY <2>1, <2>2, TakeOK
    <2> QED BY <2>1, <2>2, <2>3
  <1> HIDE DEF T
  <1>5. 0..n \subseteq T
    BY <1>3, <1>4, BoundedInduction
  <1>6. n \in T
    BY <1>5
  <1> QED BY <1>1, <1>6 DEF T

\* At the end nothing is left to settle, and nothing is held.
LEMMA FinalizedOK ==
  ASSUME stream \in Streams, NEW d \in Nat, NEW b, ReadingOK(b, Len(Items), d),
         stream.ending # "fails"
  PROVE  /\ LayerOK(Finalized(b), Len(Items), d)
         /\ Finalized(b).pending = << >> /\ ~Finalized(b).cluster
  <1> DEFINE a == Len(Items)
             clean == stream.ending = "clean"
             r == IF b.cluster /\ clean THEN Take(b, ClusterEnds) ELSE b
             h == Release(r)
  <1>1. a \in Nat /\ a \in 0..Len(Items) /\ stream.ending \in {"clean", "cut"}
    BY NestedItems DEF Ending
  <1>2. /\ LayerOK(b, a, d) /\ IsLayer(b) /\ SegmentsOK(b.segments, a) /\ QueueOK(b.queue, d, a)
        /\ d + Len(b.queue) + Open(b) = Number("cluster", a)
        /\ b.cluster => a > 0 /\ Items[a].el = "cluster"
    BY DEF ReadingOK, LayerOK
  <1>3. /\ IsSequence(b.segments) /\ IsSequence(b.queue) /\ b.cluster \in BOOLEAN
        /\ b.pending # << >> => ~b.cluster
    BY <1>2 DEF IsLayer
  <1>4. Settled(SegmentAt(a), a)
    BY DEF Settled
  <1>5. Finalized(b) = IF h.cluster
                       THEN [h EXCEPT !.queue = Append(@, Fragment(h, TRUE)), !.cluster = FALSE]
                       ELSE h
    BY DEF Finalized
  <1>6. CASE b.cluster /\ clean
    <2> DEFINE f == FALSE
               p == <<[segment |-> Len(b.segments), truncated |-> FALSE]>>
               t == [segments |-> b.segments, cluster |-> f, pending |-> p, queue |-> b.queue]
    <2>1. r = t
      <3>1. ClusterEnds.el = "end"
        BY DEF ClusterEnds
      <3>2. Take(b, ClusterEnds) = t
        BY <1>2, <3>1, TakeIs DEF Fragment
      <3> QED BY <1>6, <3>2
    <2>2. LayerOK(t, a, d)
      <3>1. HeldIs(a)
        <4>1. a \in 1..a /\ Items[a].el = "cluster"
          BY <1>1, <1>2, <1>6
        <4> HIDE DEF a
        <4> QED BY <1>6, <4>1 DEF HeldIs
      <3>2. ~f /\ f \in BOOLEAN /\ p # << >>
            /\ p = <<[segment |-> Len(b.segments), truncated |-> FALSE]>>
        OBVIOUS
      <3>3. Open(b) = 1
        BY <1>6 DEF Open
      <3> HIDE DEF f, p
      <3>4. d + Len(b.queue) + (IF f \/ p # << >> THEN 1 ELSE 0) = Number("cluster", a)
        BY <1>2, <3>2, <3>3
      <3> HIDE DEF a
      <3> QED BY <1>1, <1>2, <1>3, <3>1, <3>2, <3>4, LayerFrom
    <2>3. t.cluster = FALSE
      OBVIOUS
    <2> HIDE DEF t, a, r
    <2>4. LayerOK(Release(t), a, d) /\ Release(t).pending = << >> /\ Release(t).cluster = FALSE
      BY <1>1, <1>4, <2>2, <2>3, ReleaseOK
    <2>5. LayerOK(h, a, d) /\ h.pending = << >> /\ h.cluster = FALSE
      BY <2>1, <2>4
    <2> QED BY <1>5, <2>5 DEF a
  <1>7. CASE ~(b.cluster /\ clean)
    <2>1. r = b
      BY <1>7
    <2> HIDE DEF a, r
    <2>2. /\ LayerOK(h, a, d) /\ h.pending = << >> /\ h.cluster = b.cluster
          /\ h.segments = b.segments /\ h = Released(b)
      BY <1>1, <1>2, <1>4, <2>1, ReleaseOK, ReleaseIs
    <2> HIDE DEF h
    <2>3. CASE ~b.cluster
      BY <1>5, <2>2, <2>3 DEF a
    <2>4. CASE b.cluster
      <3> DEFINE s == b.segments
                 Q == h.queue
                 g == Fragment(h, TRUE)
                 f == FALSE
                 n == << >>
                 z == Append(Q, g)
      <3>1. /\ IsSequence(Q) /\ QueueOK(Q, d, a) /\ d + Len(Q) + Open(h) = Number("cluster", a)
            /\ IsLayer(h)
        BY <2>2 DEF LayerOK, IsLayer
      <3>2. stream.ending = "cut" /\ a \in 1..a /\ Items[a].el = "cluster"
        BY <1>1, <1>2, <1>7, <2>4
      <3>3. Open(h) = 1
        BY <2>2, <2>4 DEF Open
      <3>4. Len(Q) \in Nat
        BY <3>1, OneMore
      <3>5. g = [segment |-> SegmentAt(a), truncated |-> TRUE]
        BY <1>2, <2>2 DEF Fragment, SegmentsOK
      <3>6. FragmentIs(g, d + Len(Q) + 1, a)
        <4>1. (a = Len(Items) /\ stream.ending = "cut") = TRUE
          BY <3>2 DEF a
        <4>2. g = [segment |-> SegmentAt(a), truncated |-> a = Len(Items) /\ stream.ending = "cut"]
          BY <3>5, <4>1
        <4>3. Number("cluster", a) = d + Len(Q) + 1
          BY <3>1, <3>3
        <4> HIDE DEF g
        <4> QED BY <1>4, <3>2, <4>2, <4>3 DEF FragmentIs
      <3>7. QueueOK(z, d, a) /\ IsSequence(z) /\ Len(z) = Len(Q) + 1
        <4> HIDE DEF g
        <4> QED BY <3>1, <3>6, QueueGrows
      <3>8. ~f /\ f \in BOOLEAN /\ n = << >>
        OBVIOUS
      <3> DEFINE c == h.cluster
                 rec == [segments |-> s, cluster |-> c, pending |-> n, queue |-> Q]
                 t == [segments |-> s, cluster |-> f, pending |-> n, queue |-> z]
      <3>9. h = rec
        BY <2>2, <3>1 DEF IsLayer
      <3>10. Finalized(b) = [h EXCEPT !.queue = z, !.cluster = f]
        BY <1>5, <2>2, <2>4
      <3> HIDE DEF f, n, z, Q, s, c
      <3>11. [rec EXCEPT !.queue = z, !.cluster = f] = t
        <4> DEFINE y == [segments |-> s, cluster |-> c, pending |-> n, queue |-> z]
        <4>1. [rec EXCEPT !.queue = z] = y
          OBVIOUS
        <4>2. [y EXCEPT !.cluster = f] = t
          OBVIOUS
        <4>3. [rec EXCEPT !.queue = z, !.cluster = f] = [[rec EXCEPT !.queue = z] EXCEPT !.cluster = f]
          OBVIOUS
        <4> QED BY <4>1, <4>2, <4>3
      <3>12. LayerOK(t, a, d)
        <4>1. IsSequence(s) /\ SegmentsOK(s, a)
          BY <1>2, <1>3 DEF s
        <4>2. d + Len(z) + (IF f \/ n # << >> THEN 1 ELSE 0) = Number("cluster", a)
          BY <3>1, <3>3, <3>4, <3>7, <3>8
        <4> QED BY <1>1, <3>7, <3>8, <4>1, <4>2, LayerFrom
      <3>13. t.pending = << >> /\ t.cluster = f
        BY <3>8
      <3>14. Finalized(b) = t
        BY <3>9, <3>10, <3>11
      <3> HIDE DEF t
      <3> QED BY <3>8, <3>12, <3>13, <3>14 DEF a
    <2> QED BY <2>3, <2>4
  <1> QED BY <1>6, <1>7

-----------------------------------------------------------------------------
(* The stream stays what it is, and so does all that it says.               *)

LEMMA ItemsStay ==
  ASSUME stream' = stream
  PROVE  Items' = Items
  BY DEF Items

LEMMA CountsStay ==
  ASSUME stream' = stream
  PROVE  \A el, i : Number(el, i)' = Number(el, i)
  BY ItemsStay DEF Number

LEMMA PlacesStay ==
  ASSUME stream' = stream
  PROVE  /\ \A i : SegmentAt(i)' = SegmentAt(i)
         /\ \A n : UUIDOf(n)' = UUIDOf(n)
         /\ \A n, i : TagsIn(n, i)' = TagsIn(n, i)
         /\ \A E : Stated(E)' = Stated(E)
         /\ \A n, a : Settled(n, a)' <=> Settled(n, a)
         /\ IsGetMedia(Items)' <=> IsGetMedia(Items)
  <1>0. Items' = Items
    BY ItemsStay
  <1>1. \A i : SegmentAt(i)' = SegmentAt(i)
    BY CountsStay DEF SegmentAt
  <1>2. \A n : UUIDOf(n)' = UUIDOf(n)
    BY <1>0, <1>1 DEF UUIDOf
  <1>3. \A n, i : TagsIn(n, i)' = TagsIn(n, i)
    BY <1>0, <1>1 DEF TagsIn
  <1>4. \A E : Stated(E)' = Stated(E)
    BY <1>0 DEF Stated
  <1>5. IsGetMedia(Items)' <=> IsGetMedia(Items)
    BY <1>0
  <1>6. \A n, a : Settled(n, a)' <=> Settled(n, a)
    BY <1>0, <1>3, <1>5 DEF Settled
  <1> QED BY <1>1, <1>2, <1>3, <1>4, <1>5, <1>6

LEMMA LayersStay ==
  ASSUME stream' = stream
  PROVE  /\ \A b, a, d : LayerOK(b, a, d)' <=> LayerOK(b, a, d)
         /\ \A b, a, d : ReadingOK(b, a, d)' <=> ReadingOK(b, a, d)
  <1>0. Items' = Items
    BY ItemsStay
  <1>1. \A b : IsLayer(b)' <=> IsLayer(b)
    BY DEF IsLayer, Fragment
  <1>2. \A segs, a : SegmentsOK(segs, a)' <=> SegmentsOK(segs, a)
    BY PlacesStay DEF SegmentsOK
  <1>3. \A f, k, a : FragmentIs(f, k, a)' <=> FragmentIs(f, k, a)
    BY <1>0, CountsStay, PlacesStay DEF FragmentIs
  <1>4. \A Q, d, a : QueueOK(Q, d, a)' <=> QueueOK(Q, d, a)
    BY <1>3 DEF QueueOK
  <1>5. \A a : HeldIs(a)' <=> HeldIs(a)
    BY <1>0, CountsStay, PlacesStay DEF HeldIs
  <1>6. \A b, a, d : LayerOK(b, a, d)' <=> LayerOK(b, a, d)
    BY <1>0, <1>1, <1>2, <1>4, <1>5, CountsStay DEF LayerOK, Open
  <1> QED BY <1>0, <1>6 DEF ReadingOK

-----------------------------------------------------------------------------
(* The Reader, as far as the stream is read.                                *)

LEMMA LayerNext ==
  ASSUME stream' = stream, NEW b, NEW a, NEW d, Layer' = b, at' = a, Len(delivered)' = d
  PROVE  /\ LayerOK(b, a, d) => LayerOK(Layer, at, Len(delivered))'
         /\ ReadingOK(b, a, d) => ReadingOK(Layer, at, Len(delivered))'
  <1>1. /\ LayerOK(b, a, d) => LayerOK(b, a, d)'
        /\ ReadingOK(b, a, d) => ReadingOK(b, a, d)'
    BY LayersStay
  <1> QED BY <1>1

\* The layer is as the elements read say, those that were delivered in front of it, and
\* the end of the source ends what is held.
KvsRead ==
  /\ stream \in Streams /\ at \in 0..Len(Items) /\ IsSequence(delivered)
  /\ LayerOK(Layer, at, Len(delivered))
  /\ failure = "none" /\ ~sourceDone => ReadingOK(Layer, at, Len(delivered))
  /\ sourceDone => /\ at = Len(Items) /\ pending = << >> /\ ~inCluster
                   /\ failure = "none" => stream.ending = "clean"

LEMMA ReadInit == KvsInit => KvsRead
  <1> SUFFICES ASSUME KvsInit PROVE KvsRead
    OBVIOUS
  <1>1. stream \in Streams /\ at = 0 /\ delivered = << >> /\ sourceDone = FALSE /\ failure = "none"
    BY DEF KvsInit
  <1>2. Len(Items) \in Nat
    BY <1>1, NestedItems
  <1>3. Number("segment", 0) = 0 /\ Number("cluster", 0) = 0
    BY NumberStep
  <1>4. IsSequence(<< >>) /\ Len(<< >>) = 0
    BY DEF IsSequence, Range
  <1>5. SegmentsOK(<< >>, 0) /\ QueueOK(<< >>, 0, 0)
    BY <1>3, <1>4 DEF SegmentsOK, SegmentAt, QueueOK
  <1> DEFINE c == FALSE
             p == << >>
             s == << >>
             q == << >>
  <1>6. Layer = [segments |-> s, cluster |-> c, pending |-> p, queue |-> q]
    BY DEF KvsInit, Layer
  <1>7. c \in BOOLEAN /\ ~c /\ p = << >>
    OBVIOUS
  <1>8. IsSequence(s) /\ IsSequence(q) /\ SegmentsOK(s, 0) /\ QueueOK(q, 0, 0) /\ Len(q) = 0
    BY <1>4, <1>5
  <1> HIDE DEF c, p, s, q
  <1>9. LayerOK(Layer, 0, 0)
    <2>1. 0 + Len(q) + (IF c \/ p # << >> THEN 1 ELSE 0) = Number("cluster", 0) /\ 0 \in Nat
      BY <1>3, <1>7, <1>8
    <2> QED BY <1>6, <1>7, <1>8, <2>1, LayerFrom
  <1>10. ReadingOK(Layer, 0, 0)
    BY <1>9 DEF ReadingOK
  <1> QED BY <1>1, <1>2, <1>4, <1>9, <1>10 DEF KvsRead

\* Elements are read, or the source ends.
LEMMA FillReads ==
  ASSUME KvsRead, NEW n \in 0..Len(stream.items), NEW ends \in BOOLEAN, Fill(n, ends)
  PROVE  KvsRead'
  <1> DEFINE d == Len(delivered)
             final == ends /\ stream.ending # "fails"
             b == IF final THEN Finalized(After(n)) ELSE After(n)
  <1>1. /\ failure = "none" /\ ~sourceDone /\ at + n <= Len(stream.items)
        /\ ends => at + n = Len(stream.items)
        /\ at' = at + n /\ segments' = b.segments /\ inCluster' = b.cluster
        /\ pending' = b.pending /\ queue' = b.queue
        /\ sourceDone' = final /\ failure' = SourceFailure(ends)
        /\ stream' = stream /\ delivered' = delivered
    BY DEF Fill, Filling
  <1>2. /\ stream \in Streams /\ at \in 0..Len(Items) /\ ReadingOK(Layer, at, d)
        /\ IsSequence(delivered)
    BY <1>1 DEF KvsRead
  <1>3. Len(Items) \in Nat /\ at \in Nat /\ n \in Nat /\ at + n <= Len(Items) /\ at + n \in 0..Len(Items)
        /\ (ends => at + n = Len(Items))
    BY <1>1, <1>2, NestedItems DEF Items
  <1>4. d \in Nat
    BY <1>2, OneMore
  <1>5. ReadingOK(After(n), at + n, d)
    BY <1>2, <1>3, <1>4, AfterOK
  <1>6. LayerOK(b, at + n, d) /\ (final => b.pending = << >> /\ ~b.cluster)
        /\ (~final => ReadingOK(b, at + n, d))
    <2> DEFINE l == After(n)
    <2> HIDE DEF l
    <2>1. CASE final
      <3>1. at + n = Len(Items) /\ stream.ending # "fails"
        BY <1>3, <2>1
      <3>2. ReadingOK(l, Len(Items), d)
        BY <1>5, <3>1 DEF l
      <3>3. /\ LayerOK(Finalized(l), Len(Items), d)
            /\ Finalized(l).pending = << >> /\ ~Finalized(l).cluster
        BY <1>2, <1>4, <3>1, <3>2, FinalizedOK
      <3>4. b = Finalized(l)
        BY <2>1 DEF l
      <3> HIDE DEF b, d, final
      <3> QED BY <2>1, <3>1, <3>3, <3>4
    <2>2. CASE ~final
      <3>1. b = After(n)
        BY <2>2
      <3> HIDE DEF b, d, final
      <3> QED BY <1>5, <2>2, <3>1 DEF ReadingOK
    <2> QED BY <2>1, <2>2
  <1> HIDE DEF b, final
  <1>7. Layer' = b
    BY <1>1, <1>6 DEF Layer, LayerOK, IsLayer
  <1>8. Len(delivered)' = d /\ Items' = Items
    BY <1>1, ItemsStay
  <1> HIDE DEF d
  <1>9. LayerOK(Layer, at, Len(delivered))' /\ (~final => ReadingOK(Layer, at, Len(delivered))')
    BY <1>1, <1>6, <1>7, <1>8, LayerNext
  <1>10. final => /\ at' = Len(Items) /\ pending' = << >> /\ ~inCluster'
                  /\ failure' = "none" => stream.ending = "clean"
    <2>1. final => ends /\ at' = Len(Items)
      BY <1>1, <1>3 DEF final
    <2>2. final => pending' = << >> /\ ~inCluster'
      BY <1>1, <1>6
    <2>3. ends /\ failure' = "none" => stream.ending = "clean"
      <3>1. stream.ending \in Ending
        BY <1>2, NestedItems
      <3> QED BY <1>1, <3>1 DEF SourceFailure, Ending
    <2> QED BY <2>1, <2>2, <2>3
  <1> QED BY <1>1, <1>2, <1>3, <1>8, <1>9, <1>10 DEF KvsRead

\* The first of the queue goes to those delivered.
LEMMA QueueMoves ==
  ASSUME NEW Q, IsSequence(Q), Q # << >>, NEW d \in Nat, NEW a, QueueOK(Q, d, a)
  PROVE  /\ QueueOK(Tail(Q), d + 1, a) /\ IsSequence(Tail(Q)) /\ Len(Q) = Len(Tail(Q)) + 1
         /\ Len(Tail(Q)) \in Nat /\ FragmentIs(Head(Q), d + 1, a)
  <1>1. Q \in Seq(Range(Q))
    BY DEF IsSequence
  <1> DEFINE T == Tail(Q)
  <1>2. /\ T \in Seq(Range(Q)) /\ Len(T) = Len(Q) - 1 /\ \A i \in 1..Len(T) : T[i] = Q[i + 1]
        /\ Head(Q) = Q[1] /\ Len(Q) \in Nat /\ Len(Q) >= 1
    <2> DEFINE S == Range(Q)
    <2>1. Q \in Seq(S)
      BY <1>1
    <2> HIDE DEF S
    <2>2. /\ T \in Seq(S) /\ Len(T) = Len(Q) - 1 /\ \A i \in 1..Len(T) : T[i] = Q[i + 1]
          /\ Head(Q) = Q[1] /\ Len(Q) \in Nat /\ Len(Q) # 0
      BY <2>1, HeadTailProperties, LenProperties, EmptySeq
    <2> QED BY <2>2 DEF S
  <1> HIDE DEF T
  <1>3. Len(T) \in Nat /\ Len(Q) = Len(T) + 1
    BY <1>2
  <1>4. ASSUME NEW q \in 1..Len(T) PROVE FragmentIs(T[q], d + 1 + q, a)
    <2>1. q + 1 \in 1..Len(Q) /\ d + (q + 1) = d + 1 + q
      BY <1>3
    <2>2. FragmentIs(Q[q + 1], d + (q + 1), a)
      BY <2>1 DEF QueueOK
    <2> QED BY <1>2, <2>1, <2>2
  <1>5. FragmentIs(Head(Q), d + 1, a)
    <2>1. 1 \in 1..Len(Q)
      BY <1>2
    <2> QED BY <1>2, <2>1 DEF QueueOK
  <1>6. IsSequence(T)
    <2>1. /\ DOMAIN T = 1..Len(T)
          /\ T = [i \in 1..Len(T) |-> T[i]]
      BY <1>2
    <2>2. T \in [1..Len(T) -> Range(T)]
      BY <2>1 DEF Range
    <2> QED BY <1>3, <2>2 DEF IsSequence
  <1> QED BY <1>3, <1>4, <1>5, <1>6 DEF QueueOK, T

\* A fragment is handed over.
LEMMA HandOverReads ==
  ASSUME KvsRead, NextFragment
  PROVE  /\ KvsRead' /\ Len(delivered') = Len(delivered) + 1
         /\ FragmentIs(Head(queue), Len(delivered) + 1, at)
  <1> DEFINE d == Len(delivered)
             new == [segment |-> Head(queue).segment, truncated |-> Head(queue).truncated,
                     tags |-> EffectiveTags(segments[Head(queue).segment])]
             lay == [segments |-> segments, cluster |-> inCluster, pending |-> pending,
                     queue |-> Tail(queue)]
  <1>1. /\ queue # << >> /\ delivered' = Append(delivered, new) /\ queue' = Tail(queue)
        /\ UNCHANGED <<stream, at, segments, inCluster, pending, sourceDone, failure>>
    BY DEF NextFragment
  <1> HIDE DEF new
  <1>2. /\ stream \in Streams /\ at \in 0..Len(Items) /\ IsSequence(delivered)
        /\ LayerOK(Layer, at, d)
        /\ failure = "none" /\ ~sourceDone => ReadingOK(Layer, at, d)
        /\ sourceDone => /\ at = Len(Items) /\ pending = << >> /\ ~inCluster
                         /\ failure = "none" => stream.ending = "clean"
    BY DEF KvsRead
  <1>3. IsSequence(delivered') /\ Len(delivered') = d + 1 /\ d \in Nat
    BY <1>1, <1>2, OneMore
  <1>4. /\ Layer.segments = segments /\ Layer.cluster = inCluster /\ Layer.pending = pending
        /\ Layer.queue = queue
    BY DEF Layer
  <1>5. /\ IsSequence(segments) /\ IsSequence(queue) /\ inCluster \in BOOLEAN
        /\ SegmentsOK(segments, at) /\ QueueOK(queue, d, at)
        /\ d + Len(queue) + (IF inCluster \/ pending # << >> THEN 1 ELSE 0) = Number("cluster", at)
        /\ inCluster => at > 0 /\ Items[at].el = "cluster"
        /\ \/ pending = << >>
           \/ pending = <<[segment |-> Len(segments), truncated |-> FALSE]>> /\ ~inCluster /\ HeldIs(at)
    <2>1. Fragment(Layer, FALSE) = [segment |-> Len(segments), truncated |-> FALSE]
      BY <1>4 DEF Fragment
    <2>2. /\ IsLayer(Layer) /\ SegmentsOK(segments, at) /\ QueueOK(queue, d, at)
          /\ d + Len(queue) + Open(Layer) = Number("cluster", at)
          /\ inCluster => at > 0 /\ Items[at].el = "cluster"
          /\ pending # << >> => HeldIs(at)
      BY <1>2, <1>4 DEF LayerOK
    <2>3. /\ IsSequence(segments) /\ IsSequence(queue) /\ inCluster \in BOOLEAN
          /\ pending # << >> => pending = <<Fragment(Layer, FALSE)>> /\ ~inCluster
      BY <1>4, <2>2 DEF IsLayer
    <2>4. Open(Layer) = IF inCluster \/ pending # << >> THEN 1 ELSE 0
      BY <1>4 DEF Open
    <2> QED BY <2>1, <2>2, <2>3, <2>4
  <1>6. /\ QueueOK(Tail(queue), d + 1, at) /\ IsSequence(Tail(queue))
        /\ Len(queue) = Len(Tail(queue)) + 1
        /\ Len(Tail(queue)) \in Nat /\ FragmentIs(Head(queue), d + 1, at)
    BY <1>1, <1>3, <1>5, QueueMoves
  <1>7. LayerOK(lay, at, d + 1)
    <2> DEFINE T == Tail(queue)
               k == d + 1
    <2>1. k + Len(T) + (IF inCluster \/ pending # << >> THEN 1 ELSE 0) = Number("cluster", at)
          /\ k \in Nat
      <3> DEFINE o == IF inCluster \/ pending # << >> THEN 1 ELSE 0
                 z == Number("cluster", at)
                 q == Len(queue)
                 t == Len(T)
      <3>1. d \in Nat /\ t \in Nat /\ q = t + 1 /\ d + q + o = z /\ o \in {0, 1}
        BY <1>3, <1>5, <1>6
      <3> HIDE DEF o, z, q, t, d
      <3>2. k + t + o = z /\ k \in Nat
        BY <3>1
      <3> QED BY <3>2 DEF o, z, t
    <2>2. at \in Nat
      <3>1. Len(Items) \in Nat
        BY <1>2, NestedItems
      <3> QED BY <1>2, <3>1
    <2>3. QueueOK(T, k, at) /\ IsSequence(T)
      BY <1>6
    <2> HIDE DEF T, k
    <2>4. LayerOK([segments |-> segments, cluster |-> inCluster, pending |-> pending,
                   queue |-> T], at, k)
      BY <1>5, <2>1, <2>2, <2>3, LayerFrom
    <2> QED BY <2>4 DEF T, k
  <1>8. ASSUME failure = "none", ~sourceDone PROVE ReadingOK(lay, at, d + 1)
    <2>1. at > 0 /\ Items[at].el = "cluster" => inCluster
      BY <1>2, <1>4, <1>8 DEF ReadingOK
    <2>2. lay.cluster = inCluster
      OBVIOUS
    <2> HIDE DEF lay
    <2> QED BY <1>7, <2>1, <2>2 DEF ReadingOK
  <1>9. Layer' = lay
    BY <1>1 DEF Layer
  <1>10. Len(delivered)' = d + 1 /\ at' = at /\ Items' = Items /\ stream' = stream
    BY <1>1, <1>3, ItemsStay
  <1> HIDE DEF lay
  <1>11. /\ LayerOK(Layer, at, Len(delivered))'
         /\ failure = "none" /\ ~sourceDone => ReadingOK(Layer, at, Len(delivered))'
    <2> DEFINE k == d + 1
    <2> HIDE DEF k
    <2>1. Len(delivered)' = k /\ LayerOK(lay, at, k)
          /\ (failure = "none" /\ ~sourceDone => ReadingOK(lay, at, k))
      BY <1>7, <1>8, <1>10 DEF k
    <2> QED BY <1>9, <1>10, <2>1, LayerNext
  <1> QED BY <1>1, <1>2, <1>3, <1>6, <1>10, <1>11 DEF KvsRead

\* Nothing else touches the layer.
LEMMA OthersRead ==
  ASSUME KvsRead, UNCHANGED <<stream, source, delivered>>
  PROVE  KvsRead'
  <1> DEFINE l == Layer
             k == Len(delivered)
             a == at
  <1>1. Layer' = l /\ Len(delivered)' = k /\ Items' = Items /\ at' = a /\ stream' = stream
    BY ItemsStay DEF Layer, source
  <1> HIDE DEF l, k, a
  <1>2. /\ LayerOK(l, a, k) => LayerOK(Layer, at, Len(delivered))'
        /\ ReadingOK(l, a, k) => ReadingOK(Layer, at, Len(delivered))'
    BY <1>1, LayerNext
  <1>3. UNCHANGED <<stream, at, delivered, failure, sourceDone, pending, inCluster>>
    BY DEF source
  <1> QED BY <1>1, <1>2, <1>3 DEF KvsRead, l, k, a

LEMMA ReadStep == KvsRead /\ [KvsNext]_kvsVars => KvsRead'
  <1> SUFFICES ASSUME KvsRead, [KvsNext]_kvsVars PROVE KvsRead'
    OBVIOUS
  <1>1. ASSUME NEW n \in 0..Len(stream.items), NEW ends \in BOOLEAN, Fill(n, ends) PROVE KvsRead'
    BY <1>1, FillReads
  <1>2. CASE NextFragment
    BY <1>2, HandOverReads
  <1>3. CASE UNCHANGED <<stream, source, delivered>>
    BY <1>3, OthersRead
  <1> QED BY <1>1, <1>2, <1>3 DEF KvsNext, Running, Next, NextFails, NextEnds, Close, CallerEdits,
                                 kvsVars

-----------------------------------------------------------------------------
(* How a Reader ends.                                                      *)

\* What is reported, and that io.EOF is reported by a Reader that is exhausted.
Reports ==
  /\ failure \in {"none", "cut", "fails"}
  /\ sticky \in {"none", "stream", "cut", "fails"}
  /\ reported \in {"none", "EOF", "stream", "cut", "fails"}
  /\ reported = "EOF" => returnedEOF

LEMMA ReportsInit == KvsInit => Reports
  BY DEF KvsInit, Reports

LEMMA ReportsStep == KvsRead /\ Reports /\ [KvsNext]_kvsVars => Reports'
  <1> SUFFICES ASSUME KvsRead, Reports, [KvsNext]_kvsVars PROVE Reports'
    OBVIOUS
  <1> USE DEF Reports
  <1>1. stream.ending \in {"clean", "cut", "fails"}
    BY NestedItems DEF KvsRead, Ending
  <1>2. ASSUME NEW n \in 0..Len(stream.items), NEW ends \in BOOLEAN, Fill(n, ends) PROVE Reports'
    <2>1. failure' = SourceFailure(ends) /\ UNCHANGED <<sticky, returnedEOF, reported>>
      BY <1>2 DEF Fill, reader
    <2> QED BY <1>1, <2>1 DEF SourceFailure
  <1>3. CASE Next
    <2>1. /\ UNCHANGED <<failure, sticky, returnedEOF>>
          /\ reported' = reported \/ (reported' = Answer /\ Answer # "none")
      BY <1>3 DEF Next, source, reader
    <2> QED BY <2>1 DEF Answer
  <1>4. CASE NextFragment
    <2>1. UNCHANGED <<failure, returnedEOF, reported>> /\ sticky' \in {"stream", "none"}
      BY <1>4 DEF NextFragment
    <2> QED BY <2>1
  <1>5. CASE NextFails
    <2>1. /\ failure # "none" /\ sticky' = failure /\ reported' = failure
          /\ UNCHANGED <<failure, returnedEOF>>
      BY <1>5 DEF NextFails, source
    <2> QED BY <2>1
  <1>6. CASE NextEnds
    BY <1>6 DEF NextEnds, source
  <1>7. CASE Close
    BY <1>7 DEF Close, source
  <1>8. ASSUME NEW i \in DOMAIN given, NEW name \in TagName, CallerEdits(i, name) PROVE Reports'
    BY <1>8 DEF CallerEdits, source
  <1>9. CASE UNCHANGED kvsVars
    BY <1>9 DEF kvsVars, source, reader
  <1> QED BY <1>2, <1>3, <1>4, <1>5, <1>6, <1>7, <1>8, <1>9 DEF KvsNext, Running

\* With an empty queue, and the source at its end, all Clusters are delivered.
LEMMA AllDelivered ==
  ASSUME KvsRead, queue = << >>, sourceDone
  PROVE  Len(delivered) = Number("cluster", Len(Items))
  <1>1. /\ at = Len(Items) /\ pending = << >> /\ ~inCluster /\ IsSequence(delivered)
        /\ LayerOK(Layer, at, Len(delivered))
    BY DEF KvsRead
  <1>2. Layer.queue = << >> /\ Layer.pending = << >> /\ ~Layer.cluster
    BY <1>1 DEF Layer
  <1>3. Len(delivered) + Len(Layer.queue) + Open(Layer) = Number("cluster", at)
    BY <1>1 DEF LayerOK
  <1>4. Open(Layer) = 0 /\ Len(Layer.queue) = 0
    BY <1>2 DEF Open
  <1>5. Len(delivered) \in Nat
    BY <1>1, OneMore
  <1> QED BY <1>1, <1>3, <1>4, <1>5

\* A step after which a Reader that was not closed has reported io.EOF is its end.
LEMMA EndStep ==
  ASSUME KvsRead, Reports, [KvsNext]_kvsVars, ~returnedEOF, reported' = "EOF"
  PROVE  stream.ending = "clean" /\ Len(delivered) = Number("cluster", Len(Items))
  <1>1. NextEnds
    <2>1. reported # "EOF"
      BY DEF Reports
    <2>2. ~Next
      <3> SUFFICES ASSUME Next PROVE FALSE
        OBVIOUS
      <3>1. reported' = reported \/ reported' = Answer
        BY DEF Next
      <3>2. Answer # "EOF"
        BY DEF Answer, Reports
      <3> QED BY <2>1, <3>1, <3>2
    <2>3. ~NextFails
      BY DEF NextFails, Reports
    <2>4. UNCHANGED reported => FALSE
      BY <2>1
    <2> QED BY <2>2, <2>3, <2>4 DEF KvsNext, Running, Fill, NextFragment, Close, CallerEdits, kvsVars
  <1>2. queue = << >> /\ failure = "none" /\ sourceDone
    BY <1>1 DEF NextEnds
  <1>3. stream.ending = "clean"
    BY <1>2 DEF KvsRead
  <1> QED BY <1>2, <1>3, AllDelivered

\* io.EOF of a Reader that was not closed says that the source ended clean and that
\* the fragment of every Cluster of the stream was delivered, none still queued or held
\* for its metadata (integrations/kvs/reader.go, Next; ext/fragment/reader.go, Next).
THEOREM TheEndIsTheStreams == KvsSpec => EndIsClean
  <1> DEFINE Inv == KvsRead /\ Reports
             Step == ~returnedEOF /\ reported' = "EOF" =>
                       stream.ending = "clean" /\ Len(delivered) = Number("cluster", Len(Items))
  <1>1. KvsInit => Inv
    BY ReadInit, ReportsInit
  <1>2. Inv /\ [KvsNext]_kvsVars => Inv' /\ Step
    BY ReadStep, ReportsStep, EndStep
  <1>3. KvsSpec => [][Step]_kvsVars
    BY <1>1, <1>2, PTL DEF KvsSpec
  <1>4. [Step]_kvsVars => [~returnedEOF /\ reported' = "EOF" =>
           stream.ending = "clean" /\ Len(delivered) = Number("cluster", Len(Items))]_kvsVars
    OBVIOUS
  <1> QED BY <1>3, <1>4, PTL DEF EndIsClean

-----------------------------------------------------------------------------
(* The metadata of fragments.                                              *)

\* The Segments with the UUID u among those of the first d Clusters.
Kin(u, d) ==
  {SegmentAt(c) : c \in {c \in DOMAIN Items :
     /\ Items[c].el = "cluster" /\ UUIDOf(SegmentAt(c)) = u /\ Number("cluster", c) <= d}}

\* What Segments state, all together.
AllOf(segs) == Stated(UNION {TagsIn(n, Len(Items)) : n \in segs})

\* The UUIDs of Segments are among those there is a history for.
LEMMA UUIDAmong ==
  ASSUME stream \in Streams, NEW i \in 1..Len(Items), Items[i].el = "cluster"
  PROVE  UUIDOf(SegmentAt(i)) \in UUIDs
  <1>1. i \in Nat /\ DOMAIN Items = 1..Len(Items) /\ Len(Items) \in Nat
    BY NestedItems
  <1>2. SegmentAt(i) \in 1..Number("segment", i)
    BY SegmentBegan DEF SegmentAt
  <1>3. PICK j \in 1..i : Items[j].el = "segment" /\ Number("segment", j) = SegmentAt(i)
    BY <1>1, <1>2, NumberReaches
  <1>4. j \in 1..Len(Items)
    BY <1>1
  <1>5. UUIDOf(SegmentAt(i)) = Items[j].uuid
    BY <1>3, <1>4, UUIDIs DEF SegmentAt
  <1> QED BY <1>1, <1>4, <1>5 DEF UUIDs, Items

\* What a Segment inherits stands before it.
LEMMA InheritedIsBefore ==
  ASSUME stream \in Streams, NEW n \in Nat, NEW segs, \A m \in segs : m \in Nat /\ m < n
  PROVE  AllOf({n} \cup segs) = Over(Stated(TagsIn(n, Len(Items))), AllOf(segs))
  <1> DEFINE L == Len(Items)
             S == UNION {TagsIn(m, L) : m \in segs}
             T == TagsIn(n, L)
  <1>1. L \in Nat
    BY NestedItems
  <1>2. \A m : TagsIn(m, L) \in SUBSET (1..L)
    BY <1>1, TagsAreRead
  <1>3. S \in SUBSET (1..L) /\ T \in SUBSET (1..L)
    BY <1>2
  <1>4. ASSUME NEW s \in S, NEW t \in T PROVE s < t
    <2>1. s \in 1..L /\ t \in 1..L
      BY <1>3
    <2>2. PICK m \in segs : s \in TagsIn(m, L)
      OBVIOUS
    <2>3. SegmentAt(s) = m /\ SegmentAt(t) = n /\ m \in Nat /\ m < n
      BY <2>2 DEF TagsIn
    <2>4. ~(t <= s)
      <3> SUFFICES ASSUME t <= s PROVE FALSE
        OBVIOUS
      <3>1. t \in 0..s /\ s \in Nat
        BY <1>1, <2>1
      <3>2. Number("segment", t) <= Number("segment", s)
        BY <3>1, NumberRises
      <3> QED BY <2>3, <3>2 DEF SegmentAt
    <2> QED BY <1>1, <2>1, <2>4
  <1>5. UNION {TagsIn(m, L) : m \in {n} \cup segs} = S \cup T
    OBVIOUS
  <1> HIDE DEF S, T
  <1>6. Stated(S \cup T) = Over(Stated(T), Stated(S))
    BY <1>1, <1>3, <1>4, StatedOver
  <1> QED BY <1>5, <1>6 DEF AllOf, S, T

\* One Segment states what it does.
LEMMA OneOf == ASSUME NEW n PROVE AllOf({n}) = Stated(TagsIn(n, Len(Items)))
  <1>1. UNION {TagsIn(m, Len(Items)) : m \in {n}} = TagsIn(n, Len(Items))
    OBVIOUS
  <1> QED BY <1>1 DEF AllOf

\* The next Cluster of a stream of the KVS shape: what it inherits was delivered, and its
\* Segment joins its kin.
LEMMA KinStep ==
  ASSUME stream \in Streams, IsGetMedia(Items), NEW d \in Nat, NEW i \in 1..Len(Items),
         Items[i].el = "cluster", Number("cluster", i) = d + 1
  PROVE  /\ Ancestry(i) = Kin(UUIDOf(SegmentAt(i)), d)
         /\ \A n \in Ancestry(i) : n \in Nat /\ n < SegmentAt(i)
         /\ Kin(UUIDOf(SegmentAt(i)), d + 1) = {SegmentAt(i)} \cup Ancestry(i)
         /\ \A u : u # UUIDOf(SegmentAt(i)) => Kin(u, d + 1) = Kin(u, d)
  <1>1. DOMAIN Items = 1..Len(Items) /\ Len(Items) \in Nat
    BY NestedItems
  <1>2. ASSUME NEW c \in 1..Len(Items), Items[c].el = "cluster"
        PROVE  /\ SegmentAt(c) < SegmentAt(i) <=> Number("cluster", c) <= d
               /\ Number("cluster", c) <= d + 1 <=> Number("cluster", c) <= d \/ c = i
               /\ SegmentAt(c) \in Nat
    <2>1. CASE c < i
      <3>1. c \in 1..i /\ c # i
        BY <2>1
      <3>2. /\ SegmentAt(c) \in Nat /\ SegmentAt(i) \in Nat /\ SegmentAt(c) < SegmentAt(i)
            /\ Number("cluster", c) \in Nat /\ Number("cluster", c) < Number("cluster", i)
        BY <1>2, <3>1, ClustersApart
      <3> DEFINE x == Number("cluster", c)
      <3>3. x \in Nat /\ x < d + 1
        BY <3>2
      <3> HIDE DEF x
      <3>4. x <= d /\ x <= d + 1
        BY <3>3
      <3> QED BY <3>2, <3>4 DEF x
    <2>2. CASE c = i
      <3>1. SegmentAt(i) \in Nat
        BY SegmentBegan
      <3> QED BY <2>2, <3>1
    <2>3. CASE i < c
      <3>1. i \in 1..c /\ c # i
        BY <2>3
      <3>2. /\ SegmentAt(c) \in Nat /\ SegmentAt(i) \in Nat /\ SegmentAt(i) < SegmentAt(c)
            /\ Number("cluster", c) \in Nat /\ Number("cluster", i) < Number("cluster", c)
        BY <1>2, <3>1, ClustersApart
      <3> DEFINE x == Number("cluster", c)
                 s == SegmentAt(c)
                 t == SegmentAt(i)
      <3>3. x \in Nat /\ d + 1 < x /\ s \in Nat /\ t \in Nat /\ t < s
        BY <3>2
      <3> HIDE DEF x, s, t
      <3>4. ~(x <= d) /\ ~(x <= d + 1) /\ ~(s < t)
        BY <3>3
      <3> QED BY <3>1, <3>2, <3>4 DEF x, s, t
    <2>4. c \in Int /\ i \in Int
      BY <1>1
    <2> QED BY <2>1, <2>2, <2>3, <2>4
  <1>3. Ancestry(i) = Kin(UUIDOf(SegmentAt(i)), d)
    BY <1>1, <1>2 DEF Ancestry, Kin
  <1>4. \A n \in Ancestry(i) : n \in Nat /\ n < SegmentAt(i)
    BY <1>1, <1>2 DEF Ancestry
  <1>5. \A u : {c \in DOMAIN Items :
                  Items[c].el = "cluster" /\ UUIDOf(SegmentAt(c)) = u /\ Number("cluster", c) <= d + 1}
               = {c \in DOMAIN Items :
                    Items[c].el = "cluster" /\ UUIDOf(SegmentAt(c)) = u /\ Number("cluster", c) <= d}
                 \cup IF u = UUIDOf(SegmentAt(i)) THEN {i} ELSE {}
    BY <1>1, <1>2
  <1>6. Kin(UUIDOf(SegmentAt(i)), d + 1) = {SegmentAt(i)} \cup Kin(UUIDOf(SegmentAt(i)), d)
    <2> DEFINE u == UUIDOf(SegmentAt(i))
               A == {c \in DOMAIN Items :
                  Items[c].el = "cluster" /\ UUIDOf(SegmentAt(c)) = u /\ Number("cluster", c) <= d + 1}
               B == {c \in DOMAIN Items :
                    Items[c].el = "cluster" /\ UUIDOf(SegmentAt(c)) = u /\ Number("cluster", c) <= d}
    <2>1. A = B \cup {i}
      BY <1>5
    <2>2. Kin(u, d + 1) = {SegmentAt(c) : c \in A} /\ Kin(u, d) = {SegmentAt(c) : c \in B}
      BY DEF Kin
    <2> HIDE DEF A, B, u
    <2>3. {SegmentAt(c) : c \in A} = {SegmentAt(i)} \cup {SegmentAt(c) : c \in B}
      BY <2>1
    <2>4. Kin(u, d + 1) = {SegmentAt(i)} \cup Kin(u, d)
      BY <2>2, <2>3
    <2> QED BY <2>4 DEF u
  <1>7. ASSUME NEW u, u # UUIDOf(SegmentAt(i)) PROVE Kin(u, d + 1) = Kin(u, d)
    <2> DEFINE A == {c \in DOMAIN Items :
                  Items[c].el = "cluster" /\ UUIDOf(SegmentAt(c)) = u /\ Number("cluster", c) <= d + 1}
               B == {c \in DOMAIN Items :
                    Items[c].el = "cluster" /\ UUIDOf(SegmentAt(c)) = u /\ Number("cluster", c) <= d}
    <2>1. A = B
      BY <1>5, <1>7
    <2>2. Kin(u, d + 1) = {SegmentAt(c) : c \in A} /\ Kin(u, d) = {SegmentAt(c) : c \in B}
      BY DEF Kin
    <2> HIDE DEF A, B
    <2> QED BY <2>1, <2>2
  <1> QED BY <1>3, <1>4, <1>6, <1>7

\* Before anything is delivered there is no kin.
LEMMA NoKin == ASSUME stream \in Streams, NEW u PROVE AllOf(Kin(u, 0)) = << >>
  <1>1. Kin(u, 0) = {}
    <2> SUFFICES ASSUME NEW c \in DOMAIN Items, Items[c].el = "cluster", Number("cluster", c) <= 0
                 PROVE  FALSE
      BY DEF Kin
    <2>1. c - 1 \in Nat /\ (c - 1) + 1 = c
      BY NestedItems
    <2> DEFINE m == c - 1
    <2> HIDE DEF m
    <2>2. m \in Nat /\ m + 1 = c
      BY <2>1 DEF m
    <2>3. Number("cluster", m + 1) = Number("cluster", m) + 1 /\ Number("cluster", m) \in Nat
      BY <2>2, NumberStep
    <2> QED BY <2>2, <2>3
  <1>2. UNION {TagsIn(n, Len(Items)) : n \in {}} = {}
    OBVIOUS
  <1> QED BY <1>1, <1>2, StatedNothing DEF AllOf

\* What a fragment that is delivered says is what the stream does.
IsTheStreams(e, k) ==
  \E i \in DOMAIN Items :
    /\ Items[i].el = "cluster" /\ Number("cluster", i) = k
    /\ e.segment = SegmentAt(i)
    /\ e.truncated = (i = Len(Items) /\ stream.ending = "cut")
    /\ IsGetMedia(Items) => e.tags = TagsOf(i)

\* It goes on doing so.
LEMMA SayingsStay ==
  ASSUME stream' = stream, inheritTags' = inheritTags
  PROVE  /\ \A u : Inherits(u)' <=> Inherits(u)
         /\ \A e, k : IsTheStreams(e, k)' <=> IsTheStreams(e, k)
         /\ \A u, d : Kin(u, d)' = Kin(u, d)
         /\ \A segs : AllOf(segs)' = AllOf(segs)
  <1>0. Items' = Items
    BY ItemsStay
  <1>1. \A u : Inherits(u)' <=> Inherits(u)
    BY DEF Inherits
  <1>2. \A i : Ancestry(i)' = Ancestry(i)
    BY <1>0, PlacesStay DEF Ancestry
  <1>3. \A segs : AllOf(segs)' = AllOf(segs)
    BY <1>0, PlacesStay, ZenonT(60) DEF AllOf
  <1>4. \A u, d : Kin(u, d)' = Kin(u, d)
    BY <1>0, PlacesStay, CountsStay DEF Kin
  <1>5. \A i : TagsOf(i)' = TagsOf(i)
    <2> TAKE i
    <2> DEFINE S == {SegmentAt(i)} \cup (IF Inherits(UUIDOf(SegmentAt(i))) THEN Ancestry(i) ELSE {})
    <2>1. TagsOf(i) = AllOf(S) /\ TagsOf(i)' = AllOf(S)'
      BY DEF TagsOf, AllOf
    <2>2. S' = S
      BY <1>1, <1>2, PlacesStay
    <2> HIDE DEF S
    <2>3. AllOf(S)' = AllOf(S)
      BY <1>3, <2>2
    <2> QED BY <2>1, <2>3
  <1>6. \A e, k : IsTheStreams(e, k)' <=> IsTheStreams(e, k)
    BY <1>0, <1>5, PlacesStay, CountsStay DEF IsTheStreams
  <1> QED BY <1>1, <1>3, <1>4, <1>6

\* What was handed over is what the stream says, and so is what will be inherited.
Told ==
  /\ \A k \in DOMAIN delivered : IsTheStreams(delivered[k], k)
  /\ IsGetMedia(Items) =>
       \A u \in UUIDs : Inherits(u) => History(u) = AllOf(Kin(u, Len(delivered)))
  /\ Len(given) = Len(delivered)

LEMMA ToldInit == KvsInit => Told
  <1> SUFFICES ASSUME KvsInit PROVE Told
    OBVIOUS
  <1>1. stream \in Streams /\ delivered = << >> /\ given = << >> /\ history = [u \in UUIDs |-> 0]
    BY DEF KvsInit
  <1>2. \A u \in UUIDs : History(u) = << >>
    BY <1>1 DEF History
  <1>3. Len(delivered) = 0 /\ DOMAIN delivered = {} /\ Len(given) = 0
    BY <1>1
  <1> QED BY <1>1, <1>2, <1>3, NoKin DEF Told

\* The tags of the fragment of the next Cluster.
LEMMA TagsHanded ==
  ASSUME stream \in Streams, NEW d \in Nat, NEW i \in 1..Len(Items), Items[i].el = "cluster",
         Number("cluster", i) = d + 1, IsGetMedia(Items), NEW seg,
         seg = [uuid |-> UUIDOf(SegmentAt(i)), tags |-> Stated(TagsIn(SegmentAt(i), Len(Items)))],
         Inherits(seg.uuid) => History(seg.uuid) = AllOf(Kin(seg.uuid, d))
  PROVE  /\ EffectiveTags(seg) = TagsOf(i)
         /\ Inherits(seg.uuid) => TagsOf(i) = AllOf(Kin(seg.uuid, d + 1))
  <1> DEFINE n == SegmentAt(i)
             u == UUIDOf(n)
             own == Stated(TagsIn(n, Len(Items)))
  <1>1. seg.uuid = u /\ seg.tags = own
    <2> HIDE DEF u, own
    <2> QED BY DEF u, own
  <1>2. n \in Nat
    BY SegmentBegan
  <1>3. /\ Ancestry(i) = Kin(u, d) /\ \A m \in Ancestry(i) : m \in Nat /\ m < n
        /\ Kin(u, d + 1) = {n} \cup Ancestry(i)
    BY KinStep
  <1>4. AllOf({n} \cup Ancestry(i)) = Over(own, AllOf(Ancestry(i)))
    BY <1>2, <1>3, InheritedIsBefore
  <1>5. AllOf({n}) = own
    BY OneOf
  <1>6. TagsOf(i) = AllOf({n} \cup (IF Inherits(u) THEN Ancestry(i) ELSE {}))
    BY DEF TagsOf, AllOf
  <1>7. EffectiveTags(seg) = IF Inherits(u) THEN Over(own, History(u)) ELSE own
    BY <1>1 DEF EffectiveTags
  <1> HIDE DEF n, u, own
  <1>8. CASE Inherits(u)
    BY <1>1, <1>3, <1>4, <1>6, <1>7, <1>8
  <1>9. CASE ~Inherits(u)
    <2>1. {n} \cup {} = {n}
      OBVIOUS
    <2> QED BY <1>1, <1>5, <1>6, <1>7, <1>9, <2>1
  <1> QED BY <1>8, <1>9

\* What recording a fragment's tags leaves of the history.
LEMMA RecordTells ==
  ASSUME MapsInv, NEW seg, NEW tags, Record(seg, tags), seg.uuid \in UUIDs
  PROVE  /\ Len(given') = Len(given) + 1
         /\ Inherits(seg.uuid) => History(seg.uuid)' = tags
         /\ \A u \in UUIDs : u # seg.uuid \/ ~Inherits(seg.uuid) => History(u)' = History(u)
  <1> DEFINE n == Len(maps) + 1
             M == Append(maps, tags)
  <1>1. /\ IsSequence(maps) /\ given \in Seq(DOMAIN maps)
        /\ \A u \in UUIDs : history[u] \in {0} \cup DOMAIN maps
        /\ history = [u \in UUIDs |-> history[u]]
    BY DEF MapsInv, NoMapIsShared
  <1>2. /\ Len(maps) \in Nat /\ DOMAIN maps = 1..Len(maps) /\ IsSequence(M) /\ Len(M) = n
        /\ \A i \in 1..Len(maps) : M[i] = maps[i]
    BY <1>1, AppendToSequence
  <1>3. /\ \A i \in 1..n : Append(M, tags)[i] = M[i]
        /\ Append(M, tags)[n + 1] = tags
    BY <1>2, AppendToSequence
  <1>4. maps \o <<tags, tags>> = Append(M, tags)
    BY <1>1 DEF IsSequence
  <1>5. given' = Append(given, n)
    BY DEF Record
  <1>6. Len(given') = Len(given) + 1
    BY <1>1, <1>5
  <1> HIDE DEF M
  <1>7. \A u \in UUIDs : History(u)' = IF history'[u] = 0 THEN << >> ELSE maps'[history'[u]]
    BY DEF History
  <1>8. \A u \in UUIDs : History(u) = IF history[u] = 0 THEN << >> ELSE maps[history[u]]
    BY DEF History
  <1>9. CASE Inherits(seg.uuid)
    <2>1. maps' = Append(M, tags) /\ history' = [history EXCEPT ![seg.uuid] = n + 1]
      BY <1>4, <1>9 DEF Record
    <2>2. history'[seg.uuid] = n + 1 /\ \A u \in UUIDs : u # seg.uuid => history'[u] = history[u]
      BY <1>1, <2>1
    <2>3. n + 1 # 0 /\ \A i \in DOMAIN maps : maps'[i] = maps[i]
      BY <1>2, <1>3, <2>1
    <2>4. History(seg.uuid)' = tags
      BY <1>3, <1>7, <2>1, <2>2, <2>3
    <2>5. ASSUME NEW u \in UUIDs, u # seg.uuid PROVE History(u)' = History(u)
      BY <1>1, <1>7, <1>8, <2>2, <2>3, <2>5
    <2> QED BY <1>6, <1>9, <2>4, <2>5
  <1>10. CASE ~Inherits(seg.uuid)
    <2>1. maps' = M /\ history' = history
      BY <1>10 DEF Record, M
    <2>2. \A i \in DOMAIN maps : maps'[i] = maps[i]
      BY <1>2, <2>1
    <2>3. ASSUME NEW u \in UUIDs PROVE History(u)' = History(u)
      BY <1>1, <1>7, <1>8, <2>1, <2>2
    <2> QED BY <1>6, <1>10, <2>3
  <1> QED BY <1>9, <1>10

\* What is said of the next.
LEMMA SaidNext ==
  ASSUME stream' = stream, inheritTags' = inheritTags, NEW k, NEW e, delivered'[k] = e,
         IsTheStreams(e, k)
  PROVE  IsTheStreams(delivered[k], k)'
  <1>1. IsTheStreams(e, k)'
    BY SayingsStay
  <1> QED BY <1>1

LEMMA KinNext ==
  ASSUME stream' = stream, inheritTags' = inheritTags, NEW u, NEW d, Len(delivered)' = d
  PROVE  AllOf(Kin(u, Len(delivered)))' = AllOf(Kin(u, d))
  <1>1. Kin(u, d)' = Kin(u, d)
    BY SayingsStay
  <1>2. Kin(u, Len(delivered))' = Kin(u, d)
    BY <1>1
  <1> DEFINE K == Kin(u, d)
  <1>3. AllOf(K)' = AllOf(K)
    <2>1. \A segs : AllOf(segs)' = AllOf(segs)
      BY SayingsStay
    <2>2. K' = K
      BY <1>1
    <2> HIDE DEF K
    <2> QED BY <2>1, <2>2
  <1> QED BY <1>1, <1>2, <1>3

\* A fragment is handed over with the metadata that the stream states of it.
LEMMA FragmentTells ==
  ASSUME KvsRead, MapsInv, Told, NextFragment,
         NEW d, d = Len(delivered), NEW f, f = Head(queue), NEW seg, seg = segments[f.segment],
         NEW tags, tags = EffectiveTags(seg),
         NEW new, new = [segment |-> f.segment, truncated |-> f.truncated, tags |-> tags]
  PROVE  Told'
  <1>1. /\ delivered' = Append(delivered, new) /\ Record(seg, tags)
        /\ stream' = stream /\ inheritTags' = inheritTags
    BY DEF NextFragment
  <1>2. /\ stream \in Streams /\ at \in 0..Len(Items) /\ IsSequence(delivered)
        /\ SegmentsOK(segments, at)
    <2>1. Layer.segments = segments
      BY DEF Layer
    <2> QED BY <2>1 DEF KvsRead, LayerOK
  <1>3. Len(Items) \in Nat /\ DOMAIN Items = 1..Len(Items)
    BY <1>2, NestedItems
  <1>4. at \in Nat /\ at <= Len(Items)
    BY <1>2, <1>3
  <1>5. FragmentIs(f, d + 1, at) /\ Len(delivered') = d + 1
    BY HandOverReads
  <1>6. PICK i \in 1..at :
          /\ Items[i].el = "cluster" /\ Number("cluster", i) = d + 1 /\ Settled(SegmentAt(i), at)
          /\ f = [segment |-> SegmentAt(i), truncated |-> i = Len(Items) /\ stream.ending = "cut"]
    BY <1>5 DEF FragmentIs
  <1> DEFINE n == SegmentAt(i)
  <1>7. i \in 1..Len(Items) /\ i \in DOMAIN Items
    BY <1>3, <1>4
  <1>8. n \in 1..Len(segments)
    <2>1. n \in Nat /\ n >= 1
      BY <1>2, <1>6, <1>7, SegmentBegan
    <2>2. i \in 0..at
      BY <1>4
    <2>3. n <= SegmentAt(at) /\ SegmentAt(at) \in Nat
      BY <1>4, <2>2, NumberRises DEF SegmentAt
    <2> QED BY <1>2, <2>1, <2>3 DEF SegmentsOK
  <1>9. f.segment = n /\ f.truncated = (i = Len(Items) /\ stream.ending = "cut")
    <2> DEFINE t == i = Len(Items) /\ stream.ending = "cut"
    <2>1. f = [segment |-> n, truncated |-> t]
      BY <1>6
    <2> HIDE DEF n, t
    <2>2. f.segment = n /\ f.truncated = t
      BY <2>1
    <2> QED BY <2>2 DEF t
  <1>10. seg = [uuid |-> UUIDOf(n), tags |-> Stated(TagsIn(n, at))]
    BY <1>2, <1>8, <1>9 DEF SegmentsOK
  <1>11. seg.uuid = UUIDOf(n)
    BY <1>10
  <1>12. seg.uuid \in UUIDs
    BY <1>2, <1>6, <1>7, <1>11, UUIDAmong
  <1>13. d \in Nat /\ DOMAIN delivered = 1..d /\ DOMAIN delivered' = 1..(d + 1)
         /\ delivered'[d + 1] = new /\ \A k \in 1..d : delivered'[k] = delivered[k]
    BY <1>1, <1>2, AppendToSequence
  <1>14. ASSUME IsGetMedia(Items)
         PROVE  /\ tags = TagsOf(i)
                /\ Inherits(seg.uuid) => tags = AllOf(Kin(seg.uuid, d + 1))
    <2>1. seg = [uuid |-> UUIDOf(SegmentAt(i)), tags |-> Stated(TagsIn(SegmentAt(i), Len(Items)))]
      BY <1>6, <1>10, <1>14 DEF Settled
    <2>2. Inherits(seg.uuid) => History(seg.uuid) = AllOf(Kin(seg.uuid, d))
      BY <1>12, <1>14 DEF Told
    <2>3. d \in Nat
      BY <1>13
    <2>4. /\ EffectiveTags(seg) = TagsOf(i)
          /\ Inherits(seg.uuid) => TagsOf(i) = AllOf(Kin(seg.uuid, d + 1))
      BY <1>2, <1>6, <1>7, <1>14, <2>1, <2>2, <2>3, TagsHanded
    <2> QED BY <2>4
  <1>15. IsTheStreams(new, d + 1)
    <2>1. new.segment = n /\ new.truncated = (i = Len(Items) /\ stream.ending = "cut") /\ new.tags = tags
      <3>1. new.segment = f.segment /\ new.truncated = f.truncated /\ new.tags = tags
        OBVIOUS
      <3> QED BY <1>9, <3>1
    <2> QED BY <1>6, <1>7, <1>14, <2>1 DEF IsTheStreams
  <1>16. ASSUME NEW k \in DOMAIN delivered' PROVE IsTheStreams(delivered[k], k)'
    <2>1. IsTheStreams(delivered'[k], k)
      <3>1. CASE k = d + 1
        BY <1>13, <1>15, <3>1
      <3>2. CASE k # d + 1
        <4>1. k \in 1..d
          BY <1>13, <3>2
        <4> QED BY <1>13, <4>1 DEF Told
      <3> QED BY <3>1, <3>2
    <2> QED BY <1>1, <2>1, SaidNext
  <1>17. /\ Len(given') = Len(given) + 1
         /\ Inherits(seg.uuid) => History(seg.uuid)' = tags
         /\ \A u \in UUIDs : u # seg.uuid \/ ~Inherits(seg.uuid) => History(u)' = History(u)
    BY <1>1, <1>12, RecordTells
  <1>18. ASSUME IsGetMedia(Items), NEW u \in UUIDs, Inherits(u)
         PROVE  History(u)' = AllOf(Kin(u, d + 1))
    <2>1. CASE u = seg.uuid
      BY <1>14, <1>17, <1>18, <2>1
    <2>2. CASE u # seg.uuid
      <3>1. Kin(u, d + 1) = Kin(u, d)
        BY <1>2, <1>6, <1>7, <1>11, <1>13, <1>18, <2>2, KinStep
      <3>2. History(u) = AllOf(Kin(u, d))
        BY <1>18 DEF Told
      <3> QED BY <1>17, <2>2, <3>1, <3>2
    <2> QED BY <2>1, <2>2
  <1>19. IsGetMedia(Items)' =>
           \A u \in UUIDs : Inherits(u)' => History(u)' = AllOf(Kin(u, Len(delivered)))'
    <2> SUFFICES ASSUME IsGetMedia(Items)', NEW u \in UUIDs, Inherits(u)'
                 PROVE  History(u)' = AllOf(Kin(u, Len(delivered)))'
      OBVIOUS
    <2>1. IsGetMedia(Items) /\ Inherits(u)
      BY <1>1, PlacesStay, SayingsStay
    <2>2. AllOf(Kin(u, Len(delivered)))' = AllOf(Kin(u, d + 1))
      <3>1. Len(delivered)' = d + 1
        BY <1>5
      <3> QED BY <1>1, <3>1, KinNext
    <2> QED BY <1>18, <2>1, <2>2
  <1>20. Len(given') = Len(delivered')
    BY <1>5, <1>17 DEF Told
  <1> QED BY <1>16, <1>19, <1>20 DEF Told

LEMMA HandOverTells ==
  ASSUME KvsRead, MapsInv, Told, NextFragment
  PROVE  Told'
  BY FragmentTells

\* What the caller writes is in its own maps.
LEMMA EditTells ==
  ASSUME MapsInv, Told, NEW i \in DOMAIN given, NEW name, CallerEdits(i, name)
  PROVE  Told'
  <1>1. /\ UNCHANGED <<stream, inheritTags, history, given, delivered>>
        /\ \A j \in DOMAIN maps : j # given[i] => maps'[j] = maps[j]
    BY DEF CallerEdits
  <1>2. \A u \in UUIDs : history[u] \in {0} \cup (DOMAIN maps \ ToSet(given))
    BY DEF MapsInv, NoMapIsShared
  <1>3. given[i] \in ToSet(given)
    BY DEF ToSet
  <1>4. \A u \in UUIDs : History(u)' = History(u)
    BY <1>1, <1>2, <1>3 DEF History
  <1>5. /\ \A u : Inherits(u)' <=> Inherits(u)
        /\ \A e, k : IsTheStreams(e, k)' <=> IsTheStreams(e, k)
        /\ \A u, d : Kin(u, d)' = Kin(u, d)
        /\ \A segs : AllOf(segs)' = AllOf(segs)
        /\ IsGetMedia(Items)' <=> IsGetMedia(Items)
    BY <1>1, PlacesStay, SayingsStay
  <1> QED BY <1>1, <1>4, <1>5 DEF Told

\* Nothing else says anything.
LEMMA OthersTell ==
  ASSUME Told, UNCHANGED <<stream, inheritTags, history, given, delivered, maps>>
  PROVE  Told'
  <1>4. \A u \in UUIDs : History(u)' = History(u)
    BY DEF History
  <1>5. /\ \A u : Inherits(u)' <=> Inherits(u)
        /\ \A e, k : IsTheStreams(e, k)' <=> IsTheStreams(e, k)
        /\ \A u, d : Kin(u, d)' = Kin(u, d)
        /\ \A segs : AllOf(segs)' = AllOf(segs)
        /\ IsGetMedia(Items)' <=> IsGetMedia(Items)
    BY PlacesStay, SayingsStay
  <1> QED BY <1>4, <1>5 DEF Told

LEMMA ToldStep == KvsRead /\ MapsInv /\ Told /\ [KvsNext]_kvsVars => Told'
  <1> SUFFICES ASSUME KvsRead, MapsInv, Told, [KvsNext]_kvsVars PROVE Told'
    OBVIOUS
  <1>1. CASE NextFragment
    BY <1>1, HandOverTells
  <1>2. CASE \E i \in DOMAIN given, name \in TagName : CallerEdits(i, name)
    BY <1>2, EditTells
  <1>3. CASE UNCHANGED <<stream, inheritTags, history, given, delivered, maps>>
    BY <1>3, OthersTell
  <1> QED BY <1>1, <1>2, <1>3 DEF KvsNext, Running, Next, Fill, NextFails, NextEnds, Close,
                                 reader, kvsVars

\* The invariant that was missing: a Reader of the KVS shape hands over what the stream
\* states of each fragment.
LEMMA KvsIs == KvsRead /\ Reports /\ MapsInv /\ Told => KvsInv
  <1> SUFFICES ASSUME KvsRead, Reports, MapsInv, Told PROVE KvsInv
    OBVIOUS
  <1>1. MetadataIsTheStreams
    BY DEF Told, IsTheStreams, MetadataIsTheStreams
  <1>2. Len(pending) <= 1 /\ (inCluster => pending = << >>)
    <2>1. Layer.pending = pending /\ Layer.cluster = inCluster
      BY DEF Layer
    <2>2. IsLayer(Layer)
      BY DEF KvsRead, LayerOK
    <2>3. pending = << >> \/ (pending = <<Fragment(Layer, FALSE)>> /\ ~inCluster)
      BY <2>1, <2>2 DEF IsLayer
    <2> DEFINE x == Fragment(Layer, FALSE)
    <2> HIDE DEF x
    <2>4. pending = << >> \/ (pending = <<x>> /\ ~inCluster)
      BY <2>3 DEF x
    <2>5. Len(<< >>) = 0 /\ Len(<<x>>) = 1
      OBVIOUS
    <2>6. Len(pending) <= 1
      <3>1. CASE pending = << >>
        BY <2>5, <3>1
      <3>2. CASE pending = <<x>>
        BY <2>5, <3>2
      <3> QED BY <2>4, <3>1, <3>2
    <2>7. <<x>> # << >>
      OBVIOUS
    <2> QED BY <2>4, <2>6, <2>7
  <1>3. KvsTypeOK
    BY <1>2 DEF KvsTypeOK, Told, Reports
  <1> QED BY <1>1, <1>3 DEF KvsInv, MapsInv

\* Each fragment handed over is that of the next Cluster of the stream, truncated only
\* where the stream was cut inside it, and, of a stream of the KVS shape, with the tags
\* that its Segment and, inherited by UUID, the Segments delivered before state: however
\* the input was read and whatever the caller wrote to the metadata of others, as no map
\* is shared (integrations/kvs/reader.go, Next, effectiveTags).
THEOREM MetadataIsAsStated == KvsSpec => []KvsInv
  <1> DEFINE Inv == KvsRead /\ Reports /\ MapsInv /\ Told
  <1>1. KvsInit => Inv
    BY ReadInit, ReportsInit, MapsInit, ToldInit
  <1>2. Inv /\ [KvsNext]_kvsVars => Inv'
    BY ReadStep, ReportsStep, MapsStep, ToldStep
  <1>3. Inv => KvsInv
    BY KvsIs
  <1> QED BY <1>1, <1>2, <1>3, PTL DEF KvsSpec

-----------------------------------------------------------------------------
(* The times of a Kinesis stream: powers, and the numbers digits stand for.  *)

\* The function of a Power has the values its definition gives it.
LEMMA PowerIs ==
  ASSUME NEW b \in Nat, NEW n \in Nat
  PROVE  \E p : /\ Power(b, n) = p[n] /\ p[0] = 1
                /\ \A i \in 0..n : p[i] \in Nat
                /\ \A i \in 1..n : p[i] = b * p[i - 1]
  <1> DEFINE Value(p, i) == IF i = 0 THEN 1 ELSE b * p[i - 1]
             in == CHOOSE p : p = [i \in 0..n |-> Value(p, i)]
             steps == [i \in 1..n |-> [x \in Nat |-> b * x]]
  <1>1. PICK p : p = [i \in 0..n |-> p[i]] /\ Stepwise(p, n, 1, steps)
    <2> HIDE DEF steps
    <2> QED BY StepFunction
  <1>2. p[0] = 1 /\ \A i \in 1..n : p[i] = steps[i][p[i - 1]]
    BY <1>1 DEF Stepwise
  <1>3. \A i \in 0..n : p[i] \in Nat
    <2> DEFINE S == {i \in 0..n : p[i] \in Nat}
    <2>1. 0 \in S
      BY <1>2
    <2>2. ASSUME NEW i \in 1..n, i - 1 \in S PROVE i \in S
      <3>1. p[i - 1] \in Nat
        BY <2>2
      <3>2. p[i] = b * p[i - 1]
        BY <1>2, <3>1
      <3>3. b * p[i - 1] \in Nat
        BY <3>1
      <3> QED BY <3>2, <3>3
    <2>3. 0..n \subseteq S
      <3> HIDE DEF S
      <3> QED BY <2>1, <2>2, BoundedInduction
    <2> QED BY <2>3
  <1>4. \A i \in 1..n : p[i] = b * p[i - 1]
    <2> SUFFICES ASSUME NEW i \in 1..n PROVE p[i] = b * p[i - 1]
      OBVIOUS
    <2>1. p[i - 1] \in Nat
      BY <1>3
    <2> QED BY <1>2, <2>1
  <1>5. p = [i \in 0..n |-> Value(p, i)]
    <2>1. \A i \in 0..n : p[i] = Value(p, i)
      BY <1>2, <1>4
    <2>2. p = [i \in 0..n |-> p[i]]
      BY <1>1
    <2> HIDE DEF Value
    <2> QED BY <2>1, <2>2
  <1>6. in = [i \in 0..n |-> Value(in, i)]
    <2> HIDE DEF Value
    <2> QED BY <1>5, Zenon
  <1>7. Power(b, n) = in[n]
    BY Zenon DEF Power
  <1> HIDE DEF in, steps
  <1>8. in[0] = 1 /\ \A i \in 1..n : in[i] = b * in[i - 1]
    <2>1. \A i \in 0..n : in[i] = Value(in, i)
      <3> HIDE DEF Value
      <3> QED BY <1>6
    <2>2. 0 \in 0..n /\ \A i \in 1..n : i \in 0..n /\ i # 0
      OBVIOUS
    <2> QED BY <2>1, <2>2
  <1>9. \A i \in 0..n : in[i] \in Nat
    <2> DEFINE S == {i \in 0..n : in[i] \in Nat}
    <2>1. 0 \in S
      BY <1>8
    <2>2. ASSUME NEW i \in 1..n, i - 1 \in S PROVE i \in S
      BY <1>8, <2>2
    <2>3. 0..n \subseteq S
      <3> HIDE DEF S
      <3> QED BY <2>1, <2>2, BoundedInduction
    <2> QED BY <2>3
  <1> QED BY <1>7, <1>8, <1>9

LEMMA PowerOfZero == ASSUME NEW b \in Nat PROVE Power(b, 0) = 1
BY PowerIs

LEMMA PowerOfNext ==
  ASSUME NEW b \in Nat, NEW n \in Nat
  PROVE  Power(b, n) \in Nat /\ Power(b, n + 1) = b * Power(b, n)
  <1>1. PICK p : /\ Power(b, n) = p[n] /\ p[0] = 1
                 /\ \A i \in 0..n : p[i] \in Nat
                 /\ \A i \in 1..n : p[i] = b * p[i - 1]
    BY PowerIs
  <1>2. n + 1 \in Nat
    OBVIOUS
  <1>3. PICK q : /\ Power(b, n + 1) = q[n + 1] /\ q[0] = 1
                 /\ \A i \in 0..(n + 1) : q[i] \in Nat
                 /\ \A i \in 1..(n + 1) : q[i] = b * q[i - 1]
    BY <1>2, PowerIs
  <1> DEFINE S == {i \in 0..n : p[i] = q[i]}
  <1>4. 0 \in S
    BY <1>1, <1>3
  <1>5. ASSUME NEW i \in 1..n, i - 1 \in S PROVE i \in S
    <2>1. i \in 1..(n + 1) /\ p[i - 1] = q[i - 1]
      BY <1>5
    <2> QED BY <1>1, <1>3, <2>1
  <1>6. 0..n \subseteq S
    <2> HIDE DEF S
    <2> QED BY <1>4, <1>5, BoundedInduction
  <1>7. n \in 0..n /\ n + 1 \in 1..(n + 1) /\ (n + 1) - 1 = n
    OBVIOUS
  <1>8. p[n] = q[n] /\ q[n + 1] = b * q[n] /\ p[n] \in Nat
    BY <1>1, <1>3, <1>6, <1>7
  <1> QED BY <1>1, <1>3, <1>8

LEMMA PowerIsPositive ==
  ASSUME NEW b \in Nat \ {0}, NEW n \in Nat
  PROVE  Power(b, n) \in Nat \ {0}
  <1> DEFINE S == {k \in Nat : Power(b, k) \in Nat \ {0}}
  <1>1. 0 \in S
    BY PowerOfZero
  <1>2. ASSUME NEW k \in S PROVE k + 1 \in S
    <2>1. k \in Nat /\ k + 1 \in Nat /\ b \in Nat /\ Power(b, k) \in Nat \ {0}
      OBVIOUS
    <2>2. Power(b, k + 1) = b * Power(b, k)
      BY <2>1, PowerOfNext
    <2>3. \A x, y \in Nat \ {0} : x * y \in Nat \ {0}
      OBVIOUS
    <2>4. b * Power(b, k) \in Nat \ {0}
      BY <2>1, <2>3
    <2> QED BY <2>1, <2>2, <2>4
  <1>3. S = Nat
    <2> HIDE DEF S
    <2>1. S \in SUBSET Nat
      BY DEF S
    <2> QED BY <1>1, <1>2, <2>1, Induction
  <1> QED BY <1>3

LEMMA PowerOfSum ==
  ASSUME NEW b \in Nat, NEW m \in Nat, NEW n \in Nat
  PROVE  Power(b, m + n) = Power(b, m) * Power(b, n)
  <1> DEFINE S == {k \in Nat : Power(b, m + k) = Power(b, m) * Power(b, k)}
  <1>0. Power(b, m) \in Nat
    BY PowerOfNext
  <1>1. 0 \in S
    <2>1. m + 0 = m /\ Power(b, 0) = 1
      BY PowerOfZero
    <2> QED BY <1>0, <2>1
  <1>2. ASSUME NEW k \in S PROVE k + 1 \in S
    <2>1. k \in Nat /\ k + 1 \in Nat /\ m + k \in Nat /\ m + (k + 1) = (m + k) + 1
      OBVIOUS
    <2>2. /\ Power(b, k) \in Nat /\ Power(b, k + 1) = b * Power(b, k)
          /\ Power(b, (m + k) + 1) = b * Power(b, m + k)
      BY <2>1, PowerOfNext
    <2>3. Power(b, m + k) = Power(b, m) * Power(b, k)
      OBVIOUS
    <2>4. \A x, y \in Nat : b * (x * y) = x * (b * y)
      OBVIOUS
    <2>5. b * (Power(b, m) * Power(b, k)) = Power(b, m) * (b * Power(b, k))
      BY <1>0, <2>2, <2>4
    <2>6. Power(b, m + (k + 1)) = Power(b, m) * Power(b, k + 1)
      BY <2>1, <2>2, <2>3, <2>5
    <2> QED BY <2>1, <2>6
  <1>3. S = Nat
    <2> HIDE DEF S
    <2>1. S \in SUBSET Nat
      BY DEF S
    <2> QED BY <1>1, <1>2, <2>1, Induction
  <1> QED BY <1>3

\* The number of so many of the first digits.
LEMMA NumberIs ==
  ASSUME NEW s \in Seq(Nat)
  PROVE  \E n : /\ NumberOf(s) = n[Len(s)] /\ n[0] = 0
                /\ \A i \in 0..Len(s) : n[i] \in Nat
                /\ \A i \in 1..Len(s) : n[i] = n[i - 1] * Base + s[i]
  <1> DEFINE Value(n, i) == IF i = 0 THEN 0 ELSE n[i - 1] * Base + s[i]
             in == CHOOSE n : n = [i \in 0..Len(s) |-> Value(n, i)]
             steps == [i \in 1..Len(s) |-> [x \in Nat |-> x * Base + s[i]]]
  <1>0. Base \in Nat /\ Len(s) \in Nat /\ \A i \in 1..Len(s) : s[i] \in Nat
    BY TimelineAssumption
  <1>0a. \A x, y \in Nat : x * Base + y \in Nat
    <2>1. \A x, y, b \in Nat : x * b \in Nat /\ x * b + y \in Nat
      OBVIOUS
    <2> QED BY <1>0, <2>1
  <1>1. PICK n : n = [i \in 0..Len(s) |-> n[i]] /\ Stepwise(n, Len(s), 0, steps)
    <2> HIDE DEF steps
    <2> QED BY <1>0, StepFunction
  <1>2. n[0] = 0 /\ \A i \in 1..Len(s) : n[i] = steps[i][n[i - 1]]
    BY <1>1 DEF Stepwise
  <1>3. \A i \in 0..Len(s) : n[i] \in Nat
    <2> DEFINE S == {i \in 0..Len(s) : n[i] \in Nat}
    <2>1. 0 \in S
      BY <1>0, <1>2
    <2>2. ASSUME NEW i \in 1..Len(s), i - 1 \in S PROVE i \in S
      <3>1. n[i - 1] \in Nat /\ i \in 0..Len(s)
        BY <2>2, <1>0
      <3>2. n[i] = n[i - 1] * Base + s[i]
        BY <1>2, <3>1
      <3>3. s[i] \in Nat
        BY <1>0
      <3>4. n[i - 1] * Base + s[i] \in Nat
        BY <1>0a, <3>1, <3>3
      <3> QED BY <3>1, <3>2, <3>4
    <2>3. 0..Len(s) \subseteq S
      <3> HIDE DEF S
      <3> QED BY <1>0, <2>1, <2>2, BoundedInduction
    <2> QED BY <2>3
  <1>4. \A i \in 1..Len(s) : n[i] = n[i - 1] * Base + s[i]
    <2> SUFFICES ASSUME NEW i \in 1..Len(s) PROVE n[i] = n[i - 1] * Base + s[i]
      OBVIOUS
    <2>1. n[i - 1] \in Nat
      BY <1>3, <1>0
    <2> QED BY <1>2, <2>1
  <1>5. n = [i \in 0..Len(s) |-> Value(n, i)]
    <2>1. \A i \in 0..Len(s) : n[i] = Value(n, i)
      BY <1>0, <1>2, <1>4
    <2>2. n = [i \in 0..Len(s) |-> n[i]]
      BY <1>1
    <2> HIDE DEF Value
    <2> QED BY <2>1, <2>2
  <1>6. in = [i \in 0..Len(s) |-> Value(in, i)]
    <2> HIDE DEF Value
    <2> QED BY <1>5, Zenon
  <1>7. NumberOf(s) = in[Len(s)]
    BY Zenon DEF NumberOf
  <1> HIDE DEF in, steps
  <1>8. in[0] = 0 /\ \A i \in 1..Len(s) : in[i] = in[i - 1] * Base + s[i]
    <2>1. \A i \in 0..Len(s) : in[i] = Value(in, i)
      <3> HIDE DEF Value
      <3> QED BY <1>6
    <2>2. 0 \in 0..Len(s) /\ \A i \in 1..Len(s) : i \in 0..Len(s) /\ i # 0
      BY <1>0
    <2> QED BY <2>1, <2>2
  <1>9. \A i \in 0..Len(s) : in[i] \in Nat
    <2> DEFINE S == {i \in 0..Len(s) : in[i] \in Nat}
    <2>1. 0 \in S
      BY <1>0, <1>8
    <2>2. ASSUME NEW i \in 1..Len(s), i - 1 \in S PROVE i \in S
      <3>1. in[i - 1] \in Nat /\ i \in 0..Len(s) /\ s[i] \in Nat
        BY <2>2, <1>0
      <3>2. in[i] = in[i - 1] * Base + s[i]
        BY <1>8
      <3>3. in[i - 1] * Base + s[i] \in Nat
        BY <1>0a, <3>1
      <3> QED BY <3>1, <3>2, <3>3
    <2>3. 0..Len(s) \subseteq S
      <3> HIDE DEF S
      <3> QED BY <1>0, <2>1, <2>2, BoundedInduction
    <2> QED BY <2>3
  <1> QED BY <1>7, <1>8, <1>9

\* What the first k of the digits stand for, and what is left for the others.
LEMMA NumberOfFirst ==
  ASSUME NEW s \in Seq(0..(Base - 1)), NEW k \in 0..Len(s)
  PROVE  /\ SubSeq(s, 1, k) \in Seq(Nat) /\ Len(SubSeq(s, 1, k)) = k
         /\ NumberOf(SubSeq(s, 1, k)) \in Nat
         /\ NumberOf(SubSeq(s, 1, k)) * Power(Base, Len(s) - k) <= NumberOf(s)
         /\ NumberOf(s) < (NumberOf(SubSeq(s, 1, k)) + 1) * Power(Base, Len(s) - k)
  <1> DEFINE L == Len(s)
             first == SubSeq(s, 1, k)
  <1>1. /\ Base \in Nat \ {0} /\ L \in Nat /\ k \in Nat /\ k <= L
        /\ \A i \in 1..L : s[i] \in Nat /\ s[i] <= Base - 1
    BY TimelineAssumption
  <1>2. s \in Seq(Nat)
    <2>1. s \in [1..L -> 0..(Base - 1)] /\ \A i \in 1..L : s[i] \in Nat
      BY <1>1
    <2>2. s \in [1..L -> Nat]
      BY <2>1
    <2> HIDE DEF L
    <2> QED BY <1>1, <2>2, SeqDef
  <1>3. first \in Seq(Nat) /\ Len(first) = k /\ \A i \in 1..k : first[i] = s[i]
    BY <1>1, <1>2
  <1>4. PICK n : /\ NumberOf(s) = n[L] /\ n[0] = 0
                 /\ \A i \in 0..L : n[i] \in Nat
                 /\ \A i \in 1..L : n[i] = n[i - 1] * Base + s[i]
    BY <1>2, NumberIs
  <1>5. PICK m : /\ NumberOf(first) = m[Len(first)] /\ m[0] = 0
                 /\ \A i \in 0..Len(first) : m[i] \in Nat
                 /\ \A i \in 1..Len(first) : m[i] = m[i - 1] * Base + first[i]
    <2> HIDE DEF first
    <2> QED BY <1>3, NumberIs
  <1> HIDE DEF L, first
  <1>6. NumberOf(first) = n[k]
    <2> DEFINE S == {i \in 0..k : m[i] = n[i]}
    <2>1. 0 \in S
      BY <1>1, <1>4, <1>5
    <2>2. ASSUME NEW i \in 1..k, i - 1 \in S PROVE i \in S
      <3>1. m[i - 1] = n[i - 1] /\ i \in 1..L /\ i \in 0..k
        BY <2>2, <1>1
      <3>2. m[i] = m[i - 1] * Base + first[i] /\ n[i] = n[i - 1] * Base + s[i] /\ first[i] = s[i]
        BY <1>3, <1>4, <1>5, <3>1
      <3> QED BY <3>1, <3>2
    <2>3. 0..k \subseteq S
      <3> HIDE DEF S
      <3> QED BY <1>1, <2>1, <2>2, BoundedInduction
    <2>4. k \in 0..k
      BY <1>1
    <2>5. m[k] = n[k]
      BY <2>3, <2>4
    <2> QED BY <1>3, <1>5, <2>5
  <1> DEFINE P(j) == Power(Base, j)
             N == n[k]
             T == {j \in 0..(L - k) : N * P(j) <= n[k + j] /\ n[k + j] < (N + 1) * P(j)}
  <1>7. N \in Nat
    BY <1>1, <1>4
  <1>8. \A j \in 0..(L - k) : P(j) \in Nat /\ P(j + 1) = Base * P(j) /\ n[k + j] \in Nat
    <2> SUFFICES ASSUME NEW j \in 0..(L - k)
                 PROVE  P(j) \in Nat /\ P(j + 1) = Base * P(j) /\ n[k + j] \in Nat
      OBVIOUS
    <2>1. j \in Nat /\ k + j \in 0..L
      BY <1>1
    <2>2. P(j) \in Nat /\ P(j + 1) = Base * P(j)
      BY <1>1, <2>1, PowerOfNext
    <2> QED BY <1>4, <2>1, <2>2
  <1>9. 0 \in T
    <2>1. P(0) = 1 /\ 0 \in 0..(L - k) /\ k + 0 = k
      BY <1>1, PowerOfZero
    <2> HIDE DEF P, N
    <2>2. N * 1 <= N /\ N < (N + 1) * 1
      BY <1>7
    <2> QED BY <2>1, <2>2 DEF N
  <1>10. ASSUME NEW j \in 1..(L - k), j - 1 \in T PROVE j \in T
    <2> DEFINE before == n[k + (j - 1)]
               p == P(j - 1)
    <2>1. j - 1 \in 0..(L - k) /\ (j - 1) + 1 = j /\ k + j \in 1..L /\ (k + j) - 1 = k + (j - 1)
      BY <1>1
    <2>2. N * p <= before /\ before < (N + 1) * p
      BY <1>10
    <2>3. p \in Nat /\ P(j) = Base * p /\ before \in Nat
      BY <1>8, <2>1
    <2>4. n[k + j] = before * Base + s[k + j] /\ s[k + j] \in Nat /\ s[k + j] <= Base - 1
      BY <1>1, <1>4, <2>1
    <2> HIDE DEF before, p, P, N, T
    <2>5. N * p \in Nat /\ (N + 1) * p \in Nat
      BY <1>7, <2>3
    <2>6. \A x, y \in Nat : x <= y => x * Base <= y * Base
      BY <1>1
    <2>7. (N * p) * Base <= before * Base /\ (before + 1) * Base <= ((N + 1) * p) * Base
      BY <2>2, <2>3, <2>5, <2>6
    <2>8. (N * p) * Base = N * (Base * p) /\ ((N + 1) * p) * Base = (N + 1) * (Base * p)
      BY <1>1, <1>7, <2>3
    <2>9. (before + 1) * Base = before * Base + Base /\ before * Base \in Nat
      BY <1>1, <2>3
    <2>10. N * P(j) <= before * Base /\ before * Base + Base <= (N + 1) * P(j)
      BY <2>3, <2>7, <2>8, <2>9
    <2>11. N * P(j) \in Int /\ (N + 1) * P(j) \in Int
      <3>1. P(j) \in Int
        BY <1>1, <2>3
      <3> QED BY <1>7, <3>1
    <2>12. N * P(j) <= n[k + j] /\ n[k + j] < (N + 1) * P(j)
      <3> DEFINE x == before * Base
                 y == N * P(j)
                 z == (N + 1) * P(j)
                 c == s[k + j]
      <3>1. x \in Nat /\ y \in Int /\ z \in Int /\ c \in Nat /\ c <= Base - 1 /\ Base \in Nat
        BY <1>1, <2>4, <2>9, <2>11
      <3>2. y <= x /\ x + Base <= z /\ n[k + j] = x + c
        BY <2>4, <2>10
      <3> HIDE DEF x, y, z, c
      <3>3. y <= n[k + j] /\ n[k + j] < z
        BY <3>1, <3>2
      <3> QED BY <3>3 DEF y, z
    <2> QED BY <2>12, <1>1 DEF T
  <1>11. L - k \in Nat
    BY <1>1
  <1>12. 0..(L - k) \subseteq T
    <2> HIDE DEF T
    <2> QED BY <1>9, <1>10, <1>11, BoundedInduction
  <1>13. N * P(L - k) <= n[L] /\ n[L] < (N + 1) * P(L - k)
    <2>1. L - k \in 0..(L - k) /\ k + (L - k) = L
      BY <1>11, <1>1
    <2>2. L - k \in T
      BY <1>12, <2>1
    <2>3. N * P(L - k) <= n[k + (L - k)] /\ n[k + (L - k)] < (N + 1) * P(L - k)
      BY <2>2
    <2> QED BY <2>1, <2>3
  <1> QED BY <1>3, <1>4, <1>6, <1>7, <1>13 DEF L, first

\* Digits are less than the power of their number.
LEMMA NumberIsBounded ==
  ASSUME NEW s \in Seq(0..(Base - 1))
  PROVE  NumberOf(s) \in Nat /\ NumberOf(s) < Power(Base, Len(s))
  <1> DEFINE none == SubSeq(s, 1, 0)
             full == SubSeq(s, 1, Len(s))
  <1>1. Len(s) \in Nat /\ 0 \in 0..Len(s) /\ Len(s) \in 0..Len(s) /\ Len(s) - 0 = Len(s)
    OBVIOUS
  <1>2. Base \in Nat
    BY TimelineAssumption
  <1>3. /\ none \in Seq(Nat) /\ Len(none) = 0
        /\ NumberOf(s) < (NumberOf(none) + 1) * Power(Base, Len(s) - 0)
    BY <1>1, NumberOfFirst
  <1>4. NumberOf(none) = 0
    <2> HIDE DEF none
    <2>1. PICK n : NumberOf(none) = n[Len(none)] /\ n[0] = 0
      BY <1>3, NumberIs
    <2> QED BY <1>3, <2>1
  <1>5. full = s /\ NumberOf(full) \in Nat
    BY <1>1, NumberOfFirst
  <1>6. Power(Base, Len(s)) \in Nat
    BY <1>1, <1>2, PowerOfNext
  <1>7. (0 + 1) * Power(Base, Len(s)) = Power(Base, Len(s))
    BY <1>6
  <1>8. NumberOf(s) < (0 + 1) * Power(Base, Len(s))
    BY <1>1, <1>3, <1>4
  <1>9. NumberOf(s) \in Nat
    BY <1>5
  <1> QED BY <1>7, <1>8, <1>9

-----------------------------------------------------------------------------
(* Words: what an operation on them leaves of a result that does not fit.    *)

LEMMA WordFacts ==
  /\ HalfWord \in Nat /\ HalfWord > 2
  /\ WordSize = 2 * HalfWord /\ WordSize \in Nat \ {0}
  /\ MinWord = -HalfWord /\ MaxWord = HalfWord - 1
  /\ Second \in Nat /\ Second >= 2 /\ Second <= MaxWord
  <1>1. WordBits - 1 \in Nat
    BY WordAssumption
  <1>2. 2 ^ (WordBits - 1) \in Int
    BY <1>1
  <1>3. HalfWord \in Int /\ Second \in 2..(HalfWord - 1)
    BY <1>2, WordAssumption DEF HalfWord
  <1> QED BY <1>3 DEF WordSize, MinWord, MaxWord

\* Numbers of which a word keeps the same.
Same(x, y) == \E k \in Int : x = y + k * WordSize

LEMMA SameIsEqual == ASSUME NEW x \in Int PROVE Same(x, x)
  <1>1. WordSize \in Int
    BY WordFacts
  <1>2. 0 \in Int /\ x = x + 0 * WordSize
    BY <1>1
  <1> QED BY <1>2 DEF Same

LEMMA SameIsMutual ==
  ASSUME NEW x \in Int, NEW y \in Int, Same(x, y)
  PROVE  Same(y, x)
  <1>1. WordSize \in Int
    BY WordFacts
  <1>2. PICK k \in Int : x = y + k * WordSize
    BY DEF Same
  <1>3. -k \in Int /\ (-k) * WordSize = -(k * WordSize) /\ k * WordSize \in Int
    BY <1>1
  <1>4. y = x + (-k) * WordSize
    BY <1>2, <1>3
  <1> QED BY <1>3, <1>4 DEF Same

LEMMA SameOfSame ==
  ASSUME NEW x \in Int, NEW y \in Int, NEW z \in Int, Same(x, y), Same(y, z)
  PROVE  Same(x, z)
  <1>1. WordSize \in Int
    BY WordFacts
  <1>2. PICK k \in Int : x = y + k * WordSize
    BY DEF Same
  <1>3. PICK j \in Int : y = z + j * WordSize
    BY DEF Same
  <1>4. /\ j + k \in Int /\ (j + k) * WordSize = j * WordSize + k * WordSize
        /\ j * WordSize \in Int /\ k * WordSize \in Int
    BY <1>1
  <1>5. x = z + (j + k) * WordSize
    BY <1>2, <1>3, <1>4
  <1> QED BY <1>4, <1>5 DEF Same

LEMMA SameSum ==
  ASSUME NEW x \in Int, NEW y \in Int, NEW a \in Int, NEW b \in Int, Same(x, y), Same(a, b)
  PROVE  Same(x + a, y + b)
  <1>1. WordSize \in Int
    BY WordFacts
  <1>2. PICK k \in Int : x = y + k * WordSize
    BY DEF Same
  <1>3. PICK j \in Int : a = b + j * WordSize
    BY DEF Same
  <1>4. /\ k + j \in Int /\ (k + j) * WordSize = k * WordSize + j * WordSize
        /\ j * WordSize \in Int /\ k * WordSize \in Int
    BY <1>1
  <1>5. x + a = (y + b) + (k + j) * WordSize
    BY <1>2, <1>3, <1>4
  <1> QED BY <1>4, <1>5 DEF Same

LEMMA SameDifference ==
  ASSUME NEW x \in Int, NEW y \in Int, NEW a \in Int, NEW b \in Int, Same(x, y), Same(a, b)
  PROVE  Same(x - a, y - b)
  <1>1. WordSize \in Int
    BY WordFacts
  <1>2. PICK k \in Int : x = y + k * WordSize
    BY DEF Same
  <1>3. PICK j \in Int : a = b + j * WordSize
    BY DEF Same
  <1>4. /\ k - j \in Int /\ (k - j) * WordSize = k * WordSize - j * WordSize
        /\ j * WordSize \in Int /\ k * WordSize \in Int
    BY <1>1
  <1>5. x - a = (y - b) + (k - j) * WordSize
    BY <1>2, <1>3, <1>4
  <1> QED BY <1>4, <1>5 DEF Same

LEMMA SameProduct ==
  ASSUME NEW x \in Int, NEW y \in Int, NEW s \in Int, Same(x, y)
  PROVE  Same(x * s, y * s)
  <1>1. WordSize \in Int
    BY WordFacts
  <1>2. PICK k \in Int : x = y + k * WordSize
    BY DEF Same
  <1>3. k * s \in Int /\ (k * s) * WordSize = (k * WordSize) * s /\ k * WordSize \in Int
    BY <1>1
  <1>4. \A u, v \in Int : (u + v) * s = u * s + v * s
    OBVIOUS
  <1>5. x * s = y * s + (k * WordSize) * s
    BY <1>2, <1>3, <1>4
  <1>6. x * s = y * s + (k * s) * WordSize
    BY <1>3, <1>5
  <1> QED BY <1>3, <1>6 DEF Same

LEMMA SignedIsSame ==
  ASSUME NEW x \in Int
  PROVE  Signed(x) \in Words /\ Same(Signed(x), x)
  <1> DEFINE r == (x - MinWord) % WordSize
             q == (x - MinWord) \div WordSize
  <1>1. WordSize \in Nat \ {0} /\ x - MinWord \in Int /\ MinWord \in Int
    BY WordFacts
  <1>2. r \in 0..(WordSize - 1) /\ q \in Int /\ x - MinWord = WordSize * q + r
    BY <1>1
  <1>3. Signed(x) = r + MinWord
    BY DEF Signed
  <1> HIDE DEF r, q
  <1>4. Signed(x) \in Words
    BY <1>2, <1>3, WordFacts DEF Words
  <1>5. -q \in Int /\ (-q) * WordSize = -(WordSize * q) /\ WordSize * q \in Int
    BY <1>1, <1>2
  <1>6. Signed(x) = x + (-q) * WordSize
    BY <1>1, <1>2, <1>3, <1>5
  <1> QED BY <1>4, <1>5, <1>6 DEF Same

\* Words of which a word keeps the same are the same.
LEMMA SameWords ==
  ASSUME NEW x \in Words, NEW y \in Words, Same(x, y)
  PROVE  x = y
  <1>1. PICK k \in Int : x = y + k * WordSize
    BY DEF Same
  <1> DEFINE W == WordSize
  <1>2. W \in Nat \ {0} /\ x \in Int /\ y \in Int /\ x - y < W /\ y - x < W
    BY WordFacts DEF Words
  <1>3. k * W = x - y
    BY <1>1, <1>2
  <1> HIDE DEF W
  <1>4. k * W < W /\ -W < k * W
    BY <1>2, <1>3
  <1>5. k = 0
    BY <1>2, <1>4
  <1> QED BY <1>2, <1>3, <1>5

\* What is left of a number like a word is that word.
LEMMA SignedOfSame ==
  ASSUME NEW x \in Int, NEW y \in Words, Same(x, y)
  PROVE  Signed(x) = y
  <1>1. y \in Int /\ Signed(x) \in Words /\ Signed(x) \in Int /\ Same(Signed(x), x)
    BY SignedIsSame DEF Words
  <1>2. Same(Signed(x), y)
    BY <1>1, SameOfSame
  <1> QED BY <1>1, <1>2, SameWords

LEMMA SignedOfWord == ASSUME NEW x \in Words PROVE x \in Int /\ Signed(x) = x
  <1>1. x \in Int
    BY DEF Words
  <1> QED BY <1>1, SameIsEqual, SignedOfSame

\* The nanoseconds of a time made of them.
LEMMA NanosOfUnixTime ==
  ASSUME NEW x \in Int
  PROVE  NanosOf(UnixTime(x)) = x
  <1>1. Second \in Nat \ {0}
    BY WordFacts
  <1>2. (x \div Second) * Second + (x % Second) = x
    BY <1>1
  <1> QED BY <1>2 DEF NanosOf, UnixTime

\* Digits are what is less than the base.
LEMMA DigitsOf ==
  ASSUME NEW s \in Seq(0..Point), DigitsOnly(s)
  PROVE  s \in Seq(0..(Base - 1))
  <1>1. Base \in Nat /\ Len(s) \in Nat /\ s \in [1..Len(s) -> 0..Point] /\ DOMAIN s = 1..Len(s)
    <2>1. Base \in Nat
      BY TimelineAssumption
    <2> QED BY <2>1, LenProperties
  <1>2. \A i \in 1..Len(s) : s[i] \in 0..Point /\ s[i] < Base
    BY <1>1 DEF DigitsOnly
  <1>3. \A i \in 1..Len(s) : s[i] \in 0..(Base - 1)
    BY <1>1, <1>2 DEF Point
  <1>4. s \in [1..Len(s) -> 0..(Base - 1)]
    BY <1>1, <1>3
  <1> QED BY <1>1, <1>4, SeqDef

\* No more of a fraction is honored than the digits of a nanosecond.
LEMMA HonoredIs ==
  ASSUME NEW s \in Seq(0..Point)
  PROVE  \E k \in 0..Len(s) :
           /\ k = (IF Len(s) > FracDigits THEN FracDigits ELSE Len(s))
           /\ Honored(s) = SubSeq(s, 1, k) /\ Len(Honored(s)) = k
           /\ Honored(s) \in Seq(0..Point)
           /\ DigitsOnly(s) => DigitsOnly(Honored(s))
  <1> DEFINE k == IF Len(s) > FracDigits THEN FracDigits ELSE Len(s)
  <1>1. k \in 0..Len(s) /\ k \in Nat
    BY TimelineAssumption
  <1>2. Honored(s) = SubSeq(s, 1, k)
    BY DEF Honored
  <1> HIDE DEF k
  <1>3. Honored(s) \in Seq(0..Point) /\ Len(Honored(s)) = k
    <2> DEFINE S == 0..Point
    <2>1. s \in Seq(S)
      OBVIOUS
    <2> HIDE DEF S
    <2>2. SubSeq(s, 1, k) \in Seq(S) /\ Len(SubSeq(s, 1, k)) = k
      BY <1>1, <2>1
    <2> QED BY <1>2, <2>2 DEF S
  <1>4. \A i \in 1..k : Honored(s)[i] = s[i] /\ i \in 1..Len(s)
    BY <1>1, <1>2
  <1>5. DOMAIN s = 1..Len(s) /\ DOMAIN Honored(s) = 1..k
    BY <1>3
  <1>6. DigitsOnly(s) => DigitsOnly(Honored(s))
    BY <1>4, <1>5 DEF DigitsOnly
  <1> QED BY <1>1, <1>2, <1>3, <1>6 DEF k

\* The fraction of a second that the digits honored stand for.
LEMMA FractionIsOfSecond ==
  ASSUME NEW s \in Seq(0..(Base - 1)), Len(s) <= FracDigits
  PROVE  /\ NumberOf(s) * Power(Base, FracDigits - Len(s)) \in 0..(Second - 1)
         /\ Second = Power(Base, Len(s)) * Power(Base, FracDigits - Len(s))
  <1> DEFINE n == NumberOf(s)
             p == Power(Base, Len(s))
             q == Power(Base, FracDigits - Len(s))
  <1>1. /\ Base \in Nat \ {0} /\ Base \in Nat /\ FracDigits \in Nat /\ Len(s) \in Nat
        /\ FracDigits - Len(s) \in Nat /\ Len(s) + (FracDigits - Len(s)) = FracDigits
        /\ Second = Power(Base, FracDigits)
    BY TimelineAssumption
  <1>2. Second = p * q
    BY <1>1, PowerOfSum
  <1>3. p \in Nat \ {0} /\ q \in Nat \ {0}
    BY <1>1, PowerIsPositive
  <1>4. n \in Nat /\ n < p
    BY NumberIsBounded
  <1> HIDE DEF n, p, q
  <1>5. n * q \in Nat /\ p * q \in Nat /\ n * q < p * q
    BY <1>3, <1>4
  <1>6. n * q \in 0..(Second - 1)
    BY <1>2, <1>5
  <1> QED BY <1>2, <1>6 DEF n, p, q

\* What a tag is parsed to is a time, of its digits.
ParsesAs(g, t) ==
  /\ t \in Times
  /\ t[1] = NumberOf(g.int)
  /\ t[2] = IF Honored(g.frac) = << >> THEN 0
            ELSE NumberOf(Honored(g.frac)) * Power(Base, FracDigits - Len(Honored(g.frac)))

Tag == [int : Seq(0..Point), point : BOOLEAN, frac : Seq(0..Point)]

LEMMA TagIsParsed ==
  ASSUME NEW g \in Tag, ParseTimestamp(g) # NoTime
  PROVE  ParsesAs(g, ParseTimestamp(g))
  <1> DEFINE f == Honored(g.frac)
             n == NumberOf(g.int)
             part == NumberOf(f) * Power(Base, FracDigits - Len(f))
  <1>0. g.int \in Seq(0..Point) /\ g.frac \in Seq(0..Point)
    BY DEF Tag
  <1>1. ParsesUint(g.int, WordBits - 1)
    BY DEF ParseTimestamp
  <1>2. n \in Words
    <2>1. g.int \in Seq(0..(Base - 1)) /\ n < HalfWord
      BY <1>0, <1>1, DigitsOf DEF ParsesUint, HalfWord
    <2>2. n \in Nat
      BY <2>1, NumberIsBounded
    <2> HIDE DEF n
    <2> QED BY <2>1, <2>2, WordFacts DEF Words
  <1>3. CASE f = << >>
    <2>1. ParseTimestamp(g) = <<n, 0>>
      BY <1>1, <1>3 DEF ParseTimestamp
    <2>2. 0 \in 0..(Second - 1)
      BY WordFacts
    <2> HIDE DEF n
    <2>3. <<n, 0>> \in Times
      BY <1>2, <2>2 DEF Times
    <2> QED BY <1>3, <2>1, <2>3 DEF ParsesAs, n
  <1>4. CASE f # << >>
    <2>1. ParsesUint(f, WordBits) /\ ParseTimestamp(g) = <<n, part>>
      BY <1>1, <1>4 DEF ParseTimestamp
    <2>2. f \in Seq(0..Point) /\ Len(f) <= FracDigits
      BY <1>0, HonoredIs, TimelineAssumption
    <2>3. f \in Seq(0..(Base - 1))
      <3>1. DigitsOnly(f)
        BY <2>1 DEF ParsesUint
      <3> HIDE DEF f
      <3> QED BY <2>2, <3>1, DigitsOf
    <2>4. part \in 0..(Second - 1)
      <3> HIDE DEF f
      <3> QED BY <2>2, <2>3, FractionIsOfSecond
    <2>5. ParseTimestamp(g)[1] = n /\ ParseTimestamp(g)[2] = part
      <3> HIDE DEF n, part
      <3> QED BY <2>1
    <2>6. ParseTimestamp(g) \in Times
      <3> HIDE DEF n, part
      <3> QED BY <1>2, <2>1, <2>4 DEF Times
    <2> QED BY <1>4, <2>5, <2>6 DEF ParsesAs
  <1> QED BY <1>3, <1>4

\* The nanoseconds of a tag are the last not after the fraction it names.
LEMMA FractionIsTheNames ==
  ASSUME NEW g \in Tag, NEW t, ParsesAs(g, t), DigitsOnly(g.frac)
  PROVE  /\ t[2] * Power(Base, Len(g.frac)) <= NumberOf(g.frac) * Second
         /\ NumberOf(g.frac) * Second < (t[2] + 1) * Power(Base, Len(g.frac))
  <1> DEFINE s == g.frac
             f == Honored(s)
             L == Len(s)
             N == NumberOf(s)
             H == NumberOf(f)
  <1>1. s \in Seq(0..Point) /\ s \in Seq(0..(Base - 1)) /\ L \in Nat
    BY DigitsOf DEF Tag
  <1>2. PICK k \in 0..L : /\ k = (IF L > FracDigits THEN FracDigits ELSE L)
                          /\ f = SubSeq(s, 1, k) /\ Len(f) = k
                          /\ f \in Seq(0..Point) /\ DigitsOnly(f)
    BY <1>1, HonoredIs
  <1>3. f \in Seq(0..(Base - 1)) /\ k <= FracDigits /\ k \in Nat /\ L - k \in Nat
    <2>1. k <= FracDigits /\ k \in Nat /\ L - k \in Nat
      BY <1>1, <1>2, TimelineAssumption
    <2> HIDE DEF f
    <2> QED BY <1>2, <2>1, DigitsOf
  <1> DEFINE P == Power(Base, k)
             Q == Power(Base, FracDigits - k)
             R == Power(Base, L - k)
             U == Power(Base, L)
  <1>4. H \in Nat /\ H * R <= N /\ N < (H + 1) * R /\ N \in Nat
    <2>1. H \in Nat /\ H * R <= N /\ N < (H + 1) * R
      <3> HIDE DEF f, R
      <3> USE DEF R
      <3> QED BY <1>1, <1>2, NumberOfFirst
    <2> QED BY <1>1, <2>1, NumberIsBounded
  <1>5. Base \in Nat \ {0} /\ Base \in Nat /\ FracDigits \in Nat /\ FracDigits - k \in Nat
    BY <1>3, TimelineAssumption
  <1>6. P \in Nat \ {0} /\ Q \in Nat \ {0} /\ R \in Nat \ {0} /\ U \in Nat \ {0}
    BY <1>1, <1>3, <1>5, PowerIsPositive
  <1>7. U = P * R
    <2>1. L = k + (L - k)
      BY <1>1, <1>3
    <2>2. Power(Base, k + (L - k)) = Power(Base, k) * Power(Base, L - k)
      BY <1>3, <1>5, PowerOfSum
    <2> QED BY <2>1, <2>2
  <1>8. Second = P * Q
    <2> HIDE DEF f
    <2> QED BY <1>2, <1>3, FractionIsOfSecond
  <1>9. t[2] = H * Q
    <2>1. CASE f = << >>
      <3>1. k = 0 /\ t[2] = 0
        BY <1>2, <2>1 DEF ParsesAs
      <3>2. H = 0
        <4>1. NumberOf(<< >>) < Power(Base, Len(<< >>)) /\ NumberOf(<< >>) \in Nat
          BY <1>3, <2>1, NumberIsBounded
        <4>2. Power(Base, Len(<< >>)) = 1
          BY <1>5, PowerOfZero
        <4> QED BY <2>1, <4>1, <4>2
      <3> HIDE DEF H, Q
      <3> QED BY <1>6, <3>1, <3>2
    <2>2. CASE f # << >>
      BY <1>2, <2>2 DEF ParsesAs
    <2> QED BY <2>1, <2>2
  <1> HIDE DEF s, f, L, N, H, P, Q, R, U
  \* Either the fraction is honored whole, or it is the honored part that has the second's digits.
  <1>10. (H * Q) * U <= N * Second
    <2>1. (H * Q) * (P * R) = (H * R) * (P * Q)
      BY <1>4, <1>6
    <2>2. (H * R) * (P * Q) <= N * (P * Q)
      <3>1. H * R \in Nat /\ P * Q \in Nat
        BY <1>4, <1>6
      <3>2. \A x, y, z \in Nat : x <= y => x * z <= y * z
        OBVIOUS
      <3> QED BY <1>4, <3>1, <3>2
    <2> QED BY <1>7, <1>8, <2>1, <2>2
  <1>11. N * Second < (H * Q + 1) * U
    <2>1. CASE k = FracDigits
      <3>1. Q = 1
        <4>1. FracDigits - k = 0
          BY <1>5, <2>1
        <4> QED BY <1>5, <4>1, PowerOfZero DEF Q
      <3>2. N * P < ((H + 1) * R) * P
        <4>1. (H + 1) * R \in Nat
          BY <1>4, <1>6
        <4>2. \A x, y \in Nat, z \in Nat \ {0} : x < y => x * z < y * z
          OBVIOUS
        <4> QED BY <1>4, <1>6, <4>1, <4>2
      <3>3. ((H + 1) * R) * P = (H + 1) * (P * R)
        BY <1>4, <1>6
      <3> QED BY <1>4, <1>6, <1>7, <1>8, <3>1, <3>2, <3>3
    <2>2. CASE k # FracDigits
      <3>1. L - k = 0 /\ R = 1
        <4>1. L - k = 0
          BY <1>1, <1>2, <1>3, <2>2 DEF L
        <4> QED BY <1>5, <4>1, PowerOfZero DEF R
      <3>2. N = H
        BY <1>4, <3>1
      <3>3. (H * Q + 1) * P = H * (P * Q) + P
        <4>1. H * Q \in Nat /\ (H * Q) * P = H * (P * Q)
          BY <1>4, <1>6
        <4>2. \A x \in Nat : (x + 1) * P = x * P + P
          BY <1>6
        <4> QED BY <4>1, <4>2
      <3>4. U = P /\ H * (P * Q) \in Nat
        BY <1>4, <1>6, <1>7, <3>1
      <3> QED BY <1>6, <1>8, <3>2, <3>3, <3>4
    <2> QED BY <2>1, <2>2
  <1> QED BY <1>9, <1>10, <1>11 DEF s, L, N, U

-----------------------------------------------------------------------------
(* The times of a Kinesis stream: the invariant.                            *)

\* What makes the times true is inductive with what the last call was given.
TimeStrong ==
  /\ TimelineTypeOK
  /\ blocks \in Seq(Timecodes)
  /\ tag \in Tag
  /\ result = "ok" =>
       /\ clock \in Times /\ scale # 0
       /\ UnixNano(clock) >= 0 /\ cluster = UnixNano(clock) \div scale
  /\ result = "parsed" => ParsesAs(tag, parsed)

\* A whole time is of integers.
LEMMA TimesAreOfIntegers ==
  ASSUME NEW t \in Times
  PROVE  NanosOf(t) \in Int /\ UnixNano(t) \in Words /\ UnixNano(t) \in Int
  <1>1. t[1] \in Int /\ t[2] \in Int /\ Second \in Int
    BY WordFacts DEF Times, Words
  <1>2. NanosOf(t) \in Int
    BY <1>1 DEF NanosOf
  <1> QED BY <1>2, SignedIsSame DEF UnixNano, Words

LEMMA UnsignedAreNumbers == \A x \in UnsignedWords : x \in Nat
BY WordFacts DEF UnsignedWords

\* The whole part of a word no less than 0 is one.
LEMMA TicksAreUnsigned ==
  ASSUME NEW n \in Words, n >= 0, NEW s \in UnsignedWords, s # 0
  PROVE  /\ n \div s \in Nat /\ n \div s <= n /\ n \div s \in UnsignedWords
         /\ n - (n \div s) * s \in 0..(s - 1)
  <1>1. n \in Nat /\ s \in Nat \ {0} /\ n < WordSize
    BY UnsignedAreNumbers, WordFacts DEF Words
  <1> DEFINE q == n \div s
  <1>2. q \in Nat /\ n - q * s \in 0..(s - 1) /\ q * s <= n
    BY <1>1
  <1> HIDE DEF q
  <1>3. q <= q * s
    BY <1>1, <1>2
  <1>4. q <= n
    <2>1. q * s \in Nat
      BY <1>1, <1>2
    <2> QED BY <1>1, <1>2, <1>3, <2>1
  <1>5. q \in UnsignedWords
    BY <1>1, <1>2, <1>4, WordFacts DEF UnsignedWords
  <1> QED BY <1>2, <1>4, <1>5 DEF q

LEMMA StampIs ==
  ASSUME NEW t \in Times, NEW s \in UnsignedWords
  PROVE  LET r == ClusterTimestamp(t, s)
         IN /\ r.ticks \in UnsignedWords
            /\ r.result \in {"ZeroScale", "BeforeEpoch"} => r.ticks = 0
            /\ r.result \in {"ZeroScale", "BeforeEpoch", "ok"}
            /\ r.result = "ok" => s # 0 /\ UnixNano(t) >= 0 /\ r.ticks = UnixNano(t) \div s
  <1> DEFINE r == ClusterTimestamp(t, s)
             n == UnixNano(t)
  <1>1. n \in Words /\ n \in Int /\ 0 \in UnsignedWords
    BY TimesAreOfIntegers, WordFacts DEF UnsignedWords
  <1> HIDE DEF n
  <1>2. CASE s = 0
    <2>1. r.result = "ZeroScale" /\ r.ticks = 0
      BY <1>2 DEF ClusterTimestamp
    <2> QED BY <1>1, <2>1
  <1>3. CASE s # 0 /\ n < 0
    <2>1. r.result = "BeforeEpoch" /\ r.ticks = 0
      BY <1>3 DEF ClusterTimestamp, n
    <2> QED BY <1>1, <2>1
  <1>4. CASE s # 0 /\ ~(n < 0)
    <2>1. r.result = "ok" /\ r.ticks = n \div s
      BY <1>4 DEF ClusterTimestamp, n
    <2>2. n >= 0 /\ n \div s \in UnsignedWords
      BY <1>1, <1>4, TicksAreUnsigned
    <2> HIDE DEF r
    <2> QED BY <1>4, <2>1, <2>2 DEF n, r
  <1> QED BY <1>2, <1>3, <1>4

LEMMA TimeStrongInit == TimeInit => TimeStrong
  <1> SUFFICES ASSUME TimeInit PROVE TimeStrong
    OBVIOUS
  <1>1. 0 \in UnsignedWords
    BY WordFacts DEF UnsignedWords
  <1>2. blocks \in Seq(Timecodes)
    BY EmptySeq DEF TimeInit
  <1>3. tag \in Tag
    BY EmptySeq DEF TimeInit, NoTag, Tag
  <1>4. TimelineTypeOK
    BY <1>1 DEF TimeInit, TimelineTypeOK
  <1> QED BY <1>2, <1>3, <1>4 DEF TimeInit, TimeStrong

LEMMA TimeStrongStep == TimeStrong /\ [TimeNext]_timeVars => TimeStrong'
  <1> SUFFICES ASSUME TimeStrong, [TimeNext]_timeVars PROVE TimeStrong'
    OBVIOUS
  <1> USE DEF TimeStrong
  <1>1. ASSUME NEW t \in Instants, NEW s \in Scales, Stamp(t, s) PROVE TimeStrong'
    <2>1. t \in Times /\ s \in UnsignedWords
      BY TimelineAssumption
    <2> DEFINE r == ClusterTimestamp(t, s)
    <2>2. /\ r.ticks \in UnsignedWords
          /\ r.result \in {"ZeroScale", "BeforeEpoch"} => r.ticks = 0
          /\ r.result \in {"ZeroScale", "BeforeEpoch", "ok"}
          /\ r.result = "ok" => s # 0 /\ UnixNano(t) >= 0 /\ r.ticks = UnixNano(t) \div s
      BY <2>1, StampIs
    <2>3. /\ result' = r.result /\ cluster' = r.ticks /\ clock' = t /\ scale' = s
          /\ blocks' = blocks /\ tag' = tag /\ parsed' = parsed
      BY <1>1 DEF Stamp
    <2> HIDE DEF r
    <2>4. TimelineTypeOK'
      BY <2>1, <2>2, <2>3 DEF TimelineTypeOK
    <2>5. result' # "parsed"
      BY <2>2, <2>3
    <2>6. result' = "ok" =>
            /\ clock' \in Times /\ scale' # 0
            /\ UnixNano(clock') >= 0 /\ cluster' = UnixNano(clock') \div scale'
      BY <2>1, <2>2, <2>3
    <2> QED BY <2>3, <2>4, <2>5, <2>6
  <1>2. ASSUME NEW ticks \in Ticks, NEW s \in Scales, Arrive(ticks, s) PROVE TimeStrong'
    <2>1. ticks \in UnsignedWords /\ s \in UnsignedWords
      BY TimelineAssumption
    <2>2. /\ result' = "arrived" /\ cluster' = ticks /\ scale' = s
          /\ clock' = clock /\ blocks' = blocks /\ tag' = tag /\ parsed' = parsed
      BY <1>2 DEF Arrive
    <2>3. TimelineTypeOK'
      BY <2>1, <2>2 DEF TimelineTypeOK
    <2> QED BY <2>2, <2>3
  <1>3. ASSUME NEW timecode \in Timecodes, Block(timecode) PROVE TimeStrong'
    <2>1. /\ blocks' = Append(blocks, timecode)
          /\ clock' = clock /\ scale' = scale /\ cluster' = cluster
          /\ result' = result /\ tag' = tag /\ parsed' = parsed
      BY <1>3 DEF Block
    <2>2. blocks' \in Seq(Timecodes)
      BY <2>1
    <2>3. TimelineTypeOK'
      BY <2>1 DEF TimelineTypeOK
    <2> QED BY <2>1, <2>2, <2>3
  <1>4. ASSUME NEW c \in 0..Point, Character(c) PROVE TimeStrong'
    <2>1. /\ result = "none"
          /\ clock' = clock /\ scale' = scale /\ cluster' = cluster
          /\ result' = result /\ blocks' = blocks /\ parsed' = parsed
      BY <1>4 DEF Character
    <2>2. tag' \in Tag
      <3> DEFINE S == Seq(0..Point)
      <3>1. Append(tag.frac, c) \in S /\ Append(tag.int, c) \in S
        BY DEF Tag
      <3>2. tag \in [int : S, point : BOOLEAN, frac : S]
        BY DEF Tag
      <3>3. \/ tag' = [tag EXCEPT !.point = TRUE]
            \/ tag' = [tag EXCEPT !.frac = Append(tag.frac, c)]
            \/ tag' = [tag EXCEPT !.int = Append(tag.int, c)]
        BY <1>4 DEF Character
      <3> HIDE DEF S
      <3>4. tag' \in [int : S, point : BOOLEAN, frac : S]
        BY <3>1, <3>2, <3>3
      <3> QED BY <3>4 DEF S, Tag
    <2>3. TimelineTypeOK'
      BY <2>1 DEF TimelineTypeOK
    <2> QED BY <2>1, <2>2, <2>3
  <1>5. CASE Parse
    <2>1. /\ parsed' = ParseTimestamp(tag)
          /\ result' = (IF parsed' = NoTime THEN "BadTimestamp" ELSE "parsed")
          /\ clock' = clock /\ scale' = scale /\ cluster' = cluster
          /\ blocks' = blocks /\ tag' = tag
      BY <1>5 DEF Parse
    <2>2. parsed' # NoTime => ParsesAs(tag, parsed')
      BY <2>1, TagIsParsed
    <2>3. TimelineTypeOK'
      BY <2>1, <2>2 DEF TimelineTypeOK, ParsesAs
    <2>4. result' = "parsed" => parsed' # NoTime
      BY <2>1
    <2>5. result' # "ok"
      BY <2>1
    <2>6. ParsesAs(tag, parsed') => ParsesAs(tag, parsed)'
      BY <2>1 DEF ParsesAs
    <2> QED BY <2>1, <2>2, <2>3, <2>4, <2>5, <2>6
  <1>6. CASE UNCHANGED timeVars
    <2>1. TimelineTypeOK' /\ (ParsesAs(tag, parsed) => ParsesAs(tag, parsed)')
      BY <1>6 DEF timeVars, TimelineTypeOK, ParsesAs
    <2> QED BY <1>6, <2>1 DEF timeVars
  <1> QED BY <1>1, <1>2, <1>3, <1>4, <1>5, <1>6 DEF TimeNext

\* The ticks in a scale of the Segment's are words, or what a word keeps of them.
LEMMA ScaleIs ==
  ASSUME TimelineTypeOK
  PROVE  /\ TimestampScale \in UnsignedWords \ {0} /\ TimestampScale \in Int
         /\ Signed(TimestampScale) \in Words /\ Signed(TimestampScale) \in Int
         /\ cluster \in Nat /\ Signed(cluster) \in Int /\ Same(Signed(cluster), cluster)
         /\ scale \in Nat
  <1>1. TimestampScale \in UnsignedWords \ {0}
    BY TimelineAssumption DEF TimestampScale, TimelineTypeOK
  <1>2. TimestampScale \in Int /\ cluster \in Nat /\ scale \in Nat
    BY <1>1, UnsignedAreNumbers DEF TimelineTypeOK
  <1> HIDE DEF TimestampScale
  <1>3. Signed(TimestampScale) \in Words /\ Signed(cluster) \in Words /\ Same(Signed(cluster), cluster)
    BY <1>2, SignedIsSame
  <1> QED BY <1>1, <1>2, <1>3 DEF Words

\* What is left of a block's time, and of its Cluster's.
LEMMA BlockTimeIs ==
  ASSUME TimelineTypeOK, NEW b \in Int
  PROVE  /\ BlockTime(b) \in Words /\ BlockTime(b) \in Int
         /\ Same(BlockTime(b), (cluster + b) * Signed(TimestampScale))
  <1> DEFINE s == Signed(TimestampScale)
             c == Signed(cluster)
             tick == Signed(c + b)
  <1>1. s \in Int /\ c \in Int /\ cluster \in Int /\ Same(c, cluster)
    BY ScaleIs
  <1> HIDE DEF s, c
  <1>2. c + b \in Int /\ cluster + b \in Int /\ Same(c + b, cluster + b)
    <2>1. c + b \in Int /\ cluster + b \in Int
      BY <1>1
    <2>2. Same(b, b)
      BY SameIsEqual
    <2> QED BY <1>1, <2>1, <2>2, SameSum
  <1>3. tick \in Int /\ Same(tick, c + b)
    BY <1>2, SignedIsSame DEF Words
  <1> HIDE DEF tick
  <1>4. Same(tick, cluster + b)
    BY <1>2, <1>3, SameOfSame
  <1>5. tick * s \in Int /\ (cluster + b) * s \in Int /\ Same(tick * s, (cluster + b) * s)
    <2>1. tick * s \in Int /\ (cluster + b) * s \in Int
      BY <1>1, <1>2, <1>3
    <2> DEFINE place == cluster + b
    <2>2. place \in Int /\ Same(tick, place)
      BY <1>2, <1>4
    <2> HIDE DEF place
    <2>3. Same(tick * s, place * s)
      BY <1>1, <1>3, <2>2, SameProduct
    <2> QED BY <2>1, <2>3 DEF place
  <1>6. Signed(tick * s) \in Words /\ Signed(tick * s) \in Int /\ Same(Signed(tick * s), tick * s)
    BY <1>5, SignedIsSame DEF Words
  <1>7. Same(Signed(tick * s), (cluster + b) * s)
    BY <1>5, <1>6, SameOfSame
  <1>8. BlockTime(b) = Signed(tick * s)
    BY DEF BlockTime, tick, c, s
  <1> QED BY <1>6, <1>7, <1>8 DEF s

LEMMA ClusterTimeIs ==
  ASSUME TimelineTypeOK
  PROVE  \E x \in Words : /\ NanosOf(ClusterTime) = x
                          /\ Same(x, cluster * Signed(TimestampScale))
                          /\ x = Signed(Signed(cluster) * Signed(TimestampScale))
  <1> DEFINE s == Signed(TimestampScale)
             c == Signed(cluster)
             x == Signed(c * s)
  <1>1. s \in Int /\ c \in Int /\ cluster \in Int /\ Same(c, cluster)
    BY ScaleIs
  <1> HIDE DEF s, c
  <1>2. c * s \in Int /\ cluster * s \in Int /\ Same(c * s, cluster * s)
    <2>1. c * s \in Int /\ cluster * s \in Int
      BY <1>1
    <2>2. Same(c * s, cluster * s)
      BY <1>1, SameProduct
    <2> QED BY <2>1, <2>2
  <1>3. x \in Words /\ x \in Int /\ Same(x, c * s)
    BY <1>2, SignedIsSame DEF Words
  <1> HIDE DEF x
  <1>4. Same(x, cluster * s)
    BY <1>2, <1>3, SameOfSame
  <1>5. ClusterTime = UnixTime(x)
    BY DEF ClusterTime, x, c, s
  <1>6. NanosOf(ClusterTime) = x
    BY <1>3, <1>5, NanosOfUnixTime
  <1> QED BY <1>3, <1>4, <1>6 DEF s, c, x

\* A scale that no word holds leaves no ticks of a word; another leaves their product.
LEMMA ClusterTimeInvertsTrue == TimeStrong => ClusterTimeInverts
  <1> SUFFICES ASSUME TimeStrong, result = "ok", NanosOf(clock) \in Words
               PROVE  NanosOf(clock) - NanosOf(ClusterTime) \in 0..(scale - 1)
    BY DEF ClusterTimeInverts
  <1> DEFINE n == NanosOf(clock)
  <1>1. /\ TimelineTypeOK /\ n \in Words /\ clock \in Times /\ scale # 0
        /\ scale \in UnsignedWords /\ n >= 0 /\ cluster = n \div scale
    <2>1. UnixNano(clock) = n
      BY SignedOfWord DEF UnixNano
    <2> HIDE DEF n
    <2> QED BY <2>1 DEF TimeStrong, TimelineTypeOK, n
  <1> HIDE DEF n
  <1>2. /\ cluster \in Nat /\ cluster <= n /\ n - cluster * scale \in 0..(scale - 1)
        /\ n \in Int /\ scale \in Nat \ {0}
    BY <1>1, TicksAreUnsigned, UnsignedAreNumbers DEF Words
  <1>3. cluster \in Words /\ Signed(cluster) = cluster
    <2>1. cluster \in Words
      BY <1>1, <1>2, WordFacts DEF Words
    <2> QED BY <2>1, SignedOfWord
  <1>4. TimestampScale = scale
    BY <1>1 DEF TimestampScale
  <1>5. PICK x \in Words : NanosOf(ClusterTime) = x /\ x = Signed(cluster * Signed(scale))
    BY <1>1, <1>3, <1>4, ClusterTimeIs
  <1>6. CASE scale <= MaxWord
    <2>1. scale \in Words
      BY <1>2, <1>6, WordFacts DEF Words
    <2>2. Signed(scale) = scale
      BY <2>1, SignedOfWord
    <2>3. cluster * scale \in Nat /\ cluster * scale <= n
      <3>1. cluster * scale \in Nat
        BY <1>2
      <3> QED BY <1>2, <3>1
    <2>4. cluster * scale \in Words
      BY <1>1, <2>3, WordFacts DEF Words
    <2>5. x = cluster * scale
      BY <1>5, <2>2, <2>4, SignedOfWord
    <2> QED BY <1>2, <1>5, <2>5 DEF n
  <1>7. CASE ~(scale <= MaxWord)
    <2>1. n < scale
      BY <1>1, <1>2, <1>7, WordFacts DEF Words
    <2>2. cluster = 0
      <3>1. cluster = n \div scale /\ n \in Nat
        BY <1>1, <1>2
      <3> QED BY <1>2, <2>1, <3>1
    <2>3. Signed(scale) \in Int
      BY <1>2, SignedIsSame DEF Words
    <2>4. cluster * Signed(scale) = 0
      BY <2>2, <2>3
    <2>5. 0 \in Words
      BY WordFacts DEF Words
    <2>6. x = 0
      BY <1>5, <2>4, <2>5, SignedOfWord
    <2> QED BY <1>1, <1>2, <1>5, <2>1, <2>6 DEF n
  <1> QED BY <1>6, <1>7

\* A block's timecode is an integer.
LEMMA TimecodesAreIntegers ==
  ASSUME TimeStrong, NEW i \in DOMAIN blocks
  PROVE  blocks[i] \in Int
  <1>1. blocks \in Seq(Timecodes) /\ DOMAIN blocks = 1..Len(blocks)
    BY LenProperties DEF TimeStrong
  <1>2. blocks[i] \in Timecodes
    BY <1>1, ElementOfSeq
  <1> DEFINE h == 2 ^ (TimecodeBits - 1)
  <1>3. h \in Int
    <2>1. TimecodeBits - 1 \in Nat
      BY TimelineAssumption
    <2> QED BY <2>1
  <1>4. Timecodes \subseteq -h .. h - 1
    BY TimelineAssumption
  <1> HIDE DEF h
  <1>5. blocks[i] \in -h .. h - 1
    BY <1>2, <1>4
  <1> QED BY <1>3, <1>5

LEMMA BlocksAreWhereTheySayTrue == TimeStrong => BlocksAreWhereTheySay
  <1> SUFFICES ASSUME TimeStrong, NEW i \in DOMAIN blocks,
                      cluster * Signed(TimestampScale) \in Words,
                      (cluster + blocks[i]) * Signed(TimestampScale) \in Words
               PROVE  NanosOf(WallTime(blocks[i])) - NanosOf(ClusterTime)
                        = blocks[i] * Signed(TimestampScale)
    BY DEF BlocksAreWhereTheySay
  <1> DEFINE s == Signed(TimestampScale)
             b == blocks[i]
             t == BlockTime(b)
  <1>1. TimelineTypeOK /\ b \in Int /\ s \in Int /\ cluster \in Int
    BY TimecodesAreIntegers, ScaleIs DEF TimeStrong
  <1>2. t \in Words /\ t \in Int /\ Same(t, (cluster + b) * s)
    <2> HIDE DEF b
    <2> QED BY <1>1, BlockTimeIs
  <1>3. NanosOf(WallTime(b)) = t
    <2>1. WallTime(b) = UnixTime(t)
      BY DEF WallTime
    <2> HIDE DEF t
    <2> QED BY <1>2, <2>1, NanosOfUnixTime
  <1>4. PICK x \in Words : NanosOf(ClusterTime) = x /\ Same(x, cluster * s)
    BY <1>1, ClusterTimeIs
  <1>5. cluster * s \in Words /\ (cluster + b) * s \in Words
    OBVIOUS
  <1> HIDE DEF t, b, s
  <1>6. t = (cluster + b) * s /\ x = cluster * s
    BY <1>2, <1>4, <1>5, SameWords
  <1>7. (cluster + b) * s = cluster * s + b * s /\ cluster * s \in Int /\ b * s \in Int
    BY <1>1
  <1>8. NanosOf(WallTime(b)) - NanosOf(ClusterTime) = b * s
    BY <1>3, <1>4, <1>6, <1>7
  <1> QED BY <1>8 DEF b, s

LEMMA SpanIsTrueTrue == TimeStrong => SpanIsTrue
  <1> SUFFICES ASSUME TimeStrong, blocks # << >>,
                      (Last(blocks) - Head(blocks)) * Signed(TimestampScale) \in Words
               PROVE  Signed(EndTime - StartTime)
                        = (Last(blocks) - Head(blocks)) * Signed(TimestampScale)
    BY DEF SpanIsTrue
  <1> DEFINE s == Signed(TimestampScale)
             f == Head(blocks)
             l == Last(blocks)
             x == BlockTime(l)
             y == BlockTime(f)
  <1>1. f \in Int /\ l \in Int
    <2>1. blocks \in Seq(Timecodes) /\ DOMAIN blocks = 1..Len(blocks) /\ Len(blocks) \in Nat \ {0}
      BY LenProperties, EmptySeq DEF TimeStrong
    <2>2. Len(blocks) \in DOMAIN blocks /\ 1 \in DOMAIN blocks
      BY <2>1
    <2>3. f = blocks[1] /\ l = blocks[Len(blocks)]
      BY <2>1 DEF Last
    <2> QED BY <2>2, <2>3, TimecodesAreIntegers
  <1>2. TimelineTypeOK /\ s \in Int /\ cluster \in Int
    BY ScaleIs DEF TimeStrong
  <1>3. x \in Int /\ Same(x, (cluster + l) * s)
    <2> HIDE DEF l
    <2> QED BY <1>1, <1>2, BlockTimeIs
  <1>4. y \in Int /\ Same(y, (cluster + f) * s)
    <2> HIDE DEF f
    <2> QED BY <1>1, <1>2, BlockTimeIs
  <1>5. EndTime = x /\ StartTime = y
    BY DEF EndTime, StartTime
  <1>6. (l - f) * s \in Words
    OBVIOUS
  <1> HIDE DEF x, y, l, f, s
  <1>7. (cluster + l) * s \in Int /\ (cluster + f) * s \in Int
    BY <1>1, <1>2
  <1>8. Same(x - y, (cluster + l) * s - (cluster + f) * s)
    BY <1>3, <1>4, <1>7, SameDifference
  <1>9. (cluster + l) * s - (cluster + f) * s = (l - f) * s
    <2>1. \A u, v \in Int : (u + v) * s = u * s + v * s /\ (u - v) * s = u * s - v * s
      BY <1>2
    <2>2. /\ (cluster + l) * s = cluster * s + l * s /\ (cluster + f) * s = cluster * s + f * s
          /\ (l - f) * s = l * s - f * s
      BY <1>1, <1>2, <2>1
    <2>3. cluster * s \in Int /\ l * s \in Int /\ f * s \in Int
      BY <1>1, <1>2
    <2> QED BY <2>2, <2>3
  <1>10. x - y \in Int
    BY <1>3, <1>4
  <1>11. Signed(x - y) = (l - f) * s
    BY <1>6, <1>8, <1>9, <1>10, SignedOfSame
  <1> QED BY <1>5, <1>11 DEF l, f, s

LEMMA ParsedIsWhatItSaysTrue == TimeStrong => ParsedIsWhatItSays
  <1> SUFFICES ASSUME TimeStrong, result = "parsed", DigitsOnly(tag.frac)
               PROVE  LET unit == Power(Base, Len(tag.frac))
                          named == NumberOf(tag.frac) * Second
                      IN /\ parsed[1] = NumberOf(tag.int)
                         /\ parsed[2] * unit <= named /\ named < (parsed[2] + 1) * unit
    BY DEF ParsedIsWhatItSays
  <1>1. tag \in Tag /\ ParsesAs(tag, parsed)
    BY DEF TimeStrong
  <1>2. parsed[1] = NumberOf(tag.int)
    BY <1>1 DEF ParsesAs
  <1> QED BY <1>1, <1>2, FractionIsTheNames

\* The times of Clusters, blocks and tags are those the timecodes and the digits
\* name, as far as a word holds them, whatever the width of a word, of a timecode
\* and of a fraction.
THEOREM TimesAreTrue == TimeSpec => []TimeInv
  <1>1. TimeStrong => TimeInv
    BY ClusterTimeInvertsTrue, BlocksAreWhereTheySayTrue, SpanIsTrueTrue,
       ParsedIsWhatItSaysTrue DEF TimeInv, TimeStrong
  <1> QED BY <1>1, TimeStrongInit, TimeStrongStep, PTL DEF TimeSpec

=============================================================================
