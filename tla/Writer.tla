------------------------------- MODULE Writer -------------------------------
(***************************************************************************)
(* writer/writer.go: elements are started, ended and written, and bytes go  *)
(* to a sink that may fail, or to the buffer of a master whose size is not   *)
(* known before it ends.                                                   *)
(*                                                                         *)
(* Bytes are abstracted to what a reader takes them for: an ID, a part of a  *)
(* size VINT, payload, a checksum of given bytes.  Positions are counted in  *)
(* them as the code counts bytes.                                          *)
(***************************************************************************)
EXTENDS Encode

CONSTANTS
  ElementID,     \* the IDs the caller uses,
  IllFormedID,   \* of which these are not ValidID
  PayloadSizes,  \* the sizes of the payloads written
  StartOffsets,  \* what the sink already holds: WithStartOffset
  MaxDepth,      \* bound: masters open at once
  MaxElements    \* bound: elements written

\* strategy.go: how the size of an element is given.
Buffered == [kind |-> "buffered", width |-> 0]
UnknownSize == [kind |-> "unknown", width |-> 0]
Reserved(width) == [kind |-> "reserved", width |-> width]

ASSUME WriterAssumption ==
  /\ IllFormedID \subseteq ElementID
  /\ IDWidth \in [ElementID -> Nat \ {0}]
  /\ SizeBits \in Nat \ {0} /\ MaxSizeWidth \in Nat \ {0}
  /\ 4 <= 2 ^ (SizeBits * MaxSizeWidth) - 2  \* a CRC-32 has a size
  /\ PayloadSizes \subseteq Nat /\ StartOffsets \subseteq Nat
  /\ MaxDepth \in Nat /\ MaxElements \in Nat

VARIABLES
  sink,       \* the bytes in the sink
  patchable,  \* the sink is an io.WriterAt (fixed)
  start,      \* the bytes it held before (fixed)
  off,        \* w.off: where the next byte of the sink goes
  cur,        \* which open master's buffer is written to: 0 is the sink
  open,       \* the open masters' frames
  failure,    \* w.err: the terminal failure
  closed,
  \* History.
  said,       \* what the caller said: the document, then the masters open in it,
              \* each with the elements completed in it
  made        \* how many elements were begun

vars == <<sink, patchable, start, off, cur, open, failure, closed, said, made>>

-----------------------------------------------------------------------------
(* Targets and positions.                                                  *)

Top(s) == s[Len(s)]

Pop(s) == SubSeq(s, 1, Len(s) - 1)

\* Mutant: a position in a buffer is taken for one in the sink.
PosInSink == off

\* pos: the position of the next byte in the current target.
Pos == IF cur = 0 THEN off ELSE Len(open[cur].buf)

\* Bytes written over others in a sequence, from position at on.
Overwritten(bytes, at, new) ==
  [i \in DOMAIN bytes |-> IF i - at \in DOMAIN new THEN new[i - at] ELSE bytes[i]]

\* writeAll into the target t, leaving the given frames open: a buffer takes
\* everything, the sink may fail after any number of bytes.
WriteAll(t, bytes, frames, framesOnFailure) ==
  IF t # 0
  THEN /\ open' = [frames EXCEPT ![t].buf = @ \o bytes]
       /\ UNCHANGED <<sink, off, failure>>
  ELSE \E n \in 0..Len(bytes) :
         /\ sink' = sink \o SubSeq(bytes, 1, n)
         /\ off' = off + n
         /\ failure' \in IF n < Len(bytes) THEN {"Write"} ELSE {"none", "Write"}
         /\ open' = IF failure' = "none" THEN frames ELSE framesOnFailure

-----------------------------------------------------------------------------
(* Calls.                                                                  *)

Usable == failure = "none" /\ ~closed

\* A method called after a failure returns it, one called after Close returns
\* ErrClosed (a second Close, nothing).
CallAfterEnd ==
  /\ ~Usable
  /\ UNCHANGED vars

StartResult(id, size, crcID) ==
  IF id \in IllFormedID \/ crcID \in IllFormedID THEN "InvalidID"
  ELSE IF crcID # "none" /\ size.kind # "buffered" THEN "ChecksumStrategy"
  ELSE IF size.kind = "reserved" /\ size.width \notin 1..MaxSizeWidth THEN "SizeWidth"
  ELSE IF size.kind = "reserved" /\ cur = 0 /\ ~patchable THEN "NotPatchable"
  ELSE "ok"

NewFrame(id, size, crcID) ==
  [id |-> id, kind |-> size.kind, buf |-> << >>, prev |-> cur, crcID |-> crcID,
   target |-> cur, width |-> size.width,
   sizeAt |-> Pos + Len(EncodeID(id)), payloadAt |-> Pos + Len(EncodeID(id)) + size.width]

StartRefused(id, size, crcID) ==
  /\ Usable
  /\ StartResult(id, size, crcID) # "ok"
  /\ UNCHANGED vars

StartMaster(id, size, crcID) ==
  /\ Usable /\ Len(open) < MaxDepth /\ made < MaxElements
  /\ StartResult(id, size, crcID) = "ok"
  /\ LET frames == Append(open, NewFrame(id, size, crcID))
     IN IF size.kind = "buffered"
        THEN /\ open' = frames /\ cur' = Len(frames)
             /\ UNCHANGED <<sink, off, failure>>
        ELSE /\ WriteAll(cur, EncodeID(id) \o (IF size.kind = "reserved" THEN SizeBytes(0, size.width)
                                               ELSE UnknownSizeVINT), frames, open)
             /\ UNCHANGED cur
  /\ said' = Append(said, [id |-> id, size |-> size, crcID |-> crcID, payload |-> 0,
                            children |-> << >>])
  /\ made' = made + 1
  /\ UNCHANGED <<patchable, start, closed>>

LeafResult(id, n, size) ==
  IF id \in IllFormedID THEN "InvalidID"
  ELSE IF size.kind = "unknown" THEN "UnknownSizeLeaf"
  ELSE IF size.kind = "reserved" THEN SizeWidthResult(n, size.width)
  ELSE IF n > MaxKnownSize THEN "SizeRange"
  ELSE "ok"

LeafRefused(id, n, size) ==
  /\ Usable
  /\ LeafResult(id, n, size) # "ok"
  /\ UNCHANGED vars

\* The element e is complete inside the innermost master.
Complete(levels, e) == [levels EXCEPT ![Len(levels)].children = Append(@, e)]

LeafWith(id, n, size) ==
  /\ Usable /\ made < MaxElements
  /\ LeafResult(id, n, size) = "ok"
  /\ LET width == IF size.kind = "reserved" THEN size.width ELSE SizeWidth(n)
     IN WriteAll(cur, EncodeID(id) \o SizeBytes(n, width) \o Payload(n), open, open)
  /\ said' = Complete(said, [id |-> id, size |-> size, crcID |-> "none", payload |-> n,
                             children |-> << >>])
  /\ made' = made + 1
  /\ UNCHANGED <<patchable, start, cur, closed>>

EndRefused ==
  /\ Usable /\ open = << >>
  /\ UNCHANGED vars

\* The innermost master is complete: it is a child of the one around it.
SaidMaster == Complete(Pop(said), Top(said))

\* A failing patch may have written some of its bytes.
Patch(f, new) ==
  IF f.target # 0
  THEN /\ open' = [Pop(open) EXCEPT ![f.target].buf = Overwritten(@, f.sizeAt, new)]
       /\ UNCHANGED <<sink, failure>>
  ELSE \E n \in 0..Len(new) :
         /\ sink' = Overwritten(sink, f.sizeAt, SubSeq(new, 1, n))
         /\ failure' \in IF n < Len(new) THEN {"Patch"} ELSE {"none", "Patch"}
         /\ open' = Pop(open)

\* Mutant: the size is looked at when it has been written.
EndReservedUnchecked ==
  /\ Usable /\ open # << >> /\ Top(open).kind = "reserved"
  /\ LET f == Top(open)
         n == Pos - f.payloadAt
     IN IF SizeWidthResult(n, f.width) = "ok"
        THEN Patch(f, SizeBytes(n, f.width))
        ELSE /\ failure' = "SizeOverflow" /\ open' = Pop(open)
             /\ sink' = IF f.target # 0 THEN sink
                        ELSE Overwritten(sink, f.sizeAt, SizeBytes(n, f.width))
  /\ said' = SaidMaster
  /\ UNCHANGED <<patchable, start, off, cur, closed, made>>

\* A Reserved master's size takes the place kept for it.
EndReserved ==
  /\ Usable /\ open # << >> /\ Top(open).kind = "reserved"
  /\ LET f == Top(open)
         n == Pos - f.payloadAt
     IN IF SizeWidthResult(n, f.width) = "ok"
        THEN Patch(f, SizeBytes(n, f.width))
        ELSE /\ failure' = "SizeOverflow" /\ open' = Pop(open)
             /\ UNCHANGED sink
  /\ said' = SaidMaster
  /\ UNCHANGED <<patchable, start, off, cur, closed, made>>

EndUnknown ==
  /\ Usable /\ open # << >> /\ Top(open).kind = "unknown"
  /\ open' = Pop(open)
  /\ said' = SaidMaster
  /\ UNCHANGED <<sink, patchable, start, off, cur, failure, closed, made>>

\* Mutant: the checksum stands behind what it covers.
BodyChecksumLast(f) ==
  IF f.crcID = "none" THEN f.buf ELSE f.buf \o ChecksumElement(f.crcID, f.buf)

\* A Buffered master's checksum is taken before it is put in front.
Body(f) == IF f.crcID = "none" THEN f.buf ELSE ChecksumElement(f.crcID, f.buf) \o f.buf

\* A Buffered master goes, in one piece, to where its header would have gone.
EndBuffered ==
  /\ Usable /\ open # << >> /\ Top(open).kind = "buffered"
  /\ cur' = Top(open).prev
  /\ LET f       == Top(open)
         payload == Body(f)
     IN IF Len(payload) > MaxKnownSize
        THEN /\ failure' = "SizeRange" /\ open' = Pop(open)
             /\ UNCHANGED <<sink, off>>
        ELSE WriteAll(f.prev, EncodeID(f.id) \o EncodeSize(Len(payload)) \o payload,
                      Pop(open), Pop(open))
  /\ said' = SaidMaster
  /\ UNCHANGED <<patchable, start, closed, made>>

\* Flush: refused inside a master; the sink's own Flush may fail.
FlushRefused ==
  /\ Usable /\ open # << >>
  /\ UNCHANGED vars

Flush ==
  /\ Usable /\ open = << >>
  /\ failure' \in {"none", "Flush"}
  /\ UNCHANGED <<sink, patchable, start, off, cur, open, closed, said, made>>

\* Close flushes, and closes even if that is refused.
Close ==
  /\ Usable
  /\ failure' \in IF open = << >> THEN {"none", "Flush"} ELSE {"none"}
  /\ closed' = TRUE
  /\ UNCHANGED <<sink, patchable, start, off, cur, open, said, made>>

-----------------------------------------------------------------------------

Init ==
  /\ start \in StartOffsets
  /\ patchable \in BOOLEAN
  /\ sink = Payload(start)
  /\ off = start
  /\ cur = 0 /\ open = << >> /\ failure = "none" /\ closed = FALSE
  /\ said = <<[id |-> "document", size |-> Buffered, crcID |-> "none", payload |-> 0,
               children |-> << >>]>>
  /\ made = 0

Sizes == {Buffered, UnknownSize} \cup {Reserved(w) : w \in 0..(MaxSizeWidth + 1)}

Next ==
  \/ CallAfterEnd
  \/ \E id \in ElementID, size \in Sizes, crcID \in ElementID \cup {"none"} :
       StartMaster(id, size, crcID) \/ StartRefused(id, size, crcID)
  \/ \E id \in ElementID, n \in PayloadSizes, size \in Sizes :
       LeafWith(id, n, size) \/ LeafRefused(id, n, size)
  \/ EndReserved \/ EndUnknown \/ EndBuffered \/ EndRefused
  \/ Flush \/ FlushRefused \/ Close

Spec == Init /\ [][Next]_vars

-----------------------------------------------------------------------------
(* Properties.                                                             *)

\* The target written to with k masters open: the buffer of the last Buffered one.
IsTargetAt(t, k) ==
  /\ t \in 0..k
  /\ t # 0 => open[t].kind = "buffered"
  /\ \A j \in (t + 1)..k : open[j].kind # "buffered"

\* The frames of writer.go: each remembers the target that was current when it
\* began; positions in the sink count from what it held before.
WTypeOK ==
  /\ patchable \in BOOLEAN /\ closed \in BOOLEAN
  /\ start \in StartOffsets /\ off = Len(sink)
  /\ Len(open) <= MaxDepth /\ made \in 0..MaxElements
  /\ failure \in {"none", "Write", "Patch", "SizeOverflow", "SizeRange", "Flush"}
  /\ failure = "none" => Len(said) = Len(open) + 1 /\ IsTargetAt(cur, Len(open))

Bytes(t) == IF t = 0 THEN sink ELSE open[t].buf

\* Every open Reserved master's frame points at its placeholder: in the target it
\* was written to, the zero size is still there, whole, whatever was written,
\* ended and patched around it since, and the master's payload begins behind it.
\* EndMaster patches those bytes and measures from there without looking.
OpenPlaceholders ==
  failure = "none" =>
    \A k \in DOMAIN open : open[k].kind = "reserved" =>
      /\ IsTargetAt(open[k].target, k - 1)
      /\ open[k].payloadAt = open[k].sizeAt + open[k].width
      /\ open[k].payloadAt <= Len(Bytes(open[k].target))
      /\ \A i \in 1..open[k].width :
           Bytes(open[k].target)[open[k].sizeAt + i] = SizeBytes(0, open[k].width)[i]

\* No call takes back or shifts a byte that is in the sink; the only bytes ever
\* changed are the zero size of a Reserved master, into a size of that width.
AppendOnly ==
  [][/\ Len(sink') >= Len(sink)
     /\ \A i \in DOMAIN sink : sink'[i] # sink[i] =>
          \E width \in 1..MaxSizeWidth : \E part \in 1..width :
            /\ sink[i] = SizeBytes(0, width)[part]
            /\ \E n \in 1..MaxSizeForWidth(width) : sink'[i] = SizeBytes(n, width)[part]]_vars

=============================================================================
