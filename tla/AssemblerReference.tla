------------------------- MODULE AssemblerReference -------------------------
(***************************************************************************)
(* The fragments a whole input holds, said of the list of its events: which *)
(* Clusters are fragments, which blocks are theirs and which of the          *)
(* Segment's metadata comes before they have to go.  No stack, no fragment  *)
(* in waiting and no chunk occurs here; a recovery is a second reading that  *)
(* starts further on.                                                      *)
(***************************************************************************)
EXTENDS Assembler, CursorReference

\* Where the master reported at i ends: one past the list if it does not.
EndIn(evs, i) ==
  Min({j \in DOMAIN evs : evs[j].ev = "end" /\ evs[j].offset = evs[i].offset}
        \cup {Len(evs) + 1})

Inside(evs, i, s) == s < i /\ i < EndIn(evs, s)

Masters(evs, id) == {i \in DOMAIN evs : evs[i].ev = "master" /\ evs[i].id = id}

\* The Segments that are not inside another.
SegmentsOf(evs) ==
  LET all == Masters(evs, "Segment") IN {s \in all : \A t \in all : ~Inside(evs, s, t)}

ChildOf(evs, i, s) == Inside(evs, i, s) /\ evs[i].depth = evs[s].depth + 1

ClustersOf(evs, s) == {c \in Masters(evs, "Cluster") : ChildOf(evs, c, s)}

\* Leaves whose payload the input was cut in come last, before that failure.
Arrived(evs, i) == i = Len(evs) \/ evs[i + 1].why # "TruncatedPayload"

BlocksOf(evs, c) ==
  {b \in DOMAIN evs : evs[b].ev = "leaf" /\ evs[b].id = "SimpleBlock" /\ Inside(evs, b, c)
                      /\ Arrived(evs, b)}

\* The event by which fragment c has to go: its own end, if that or a later child
\* of the Segment settles its metadata, or else the next Cluster or whatever ends
\* the Segment.
GoesAt(evs, c, s, done) ==
  LET settles(i) == evs[i].ev \in {"leaf", "end"} /\ evs[i].id \in done /\ ChildOf(evs, i, s)
      ends(i)    == i \in ClustersOf(evs, s) \/ i = EndIn(evs, s)
  IN Min({i \in EndIn(evs, c)..Len(evs) : settles(i) \/ ends(i)} \cup {Len(evs) + 1})

\* The Segment's own elements before event i or at it, its Clusters apart.
Metadata(evs, s, i) ==
  {evs[j].offset : j \in {k \in DOMAIN evs : /\ k <= i /\ ChildOf(evs, k, s)
                                            /\ evs[k].ev \in {"master", "leaf"}
                                            /\ k \notin ClustersOf(evs, s)}}

Offsets(evs, is) == LET sorted == SetToSortSeq(is, <)
                    IN [n \in DOMAIN sorted |-> evs[sorted[n]].offset]

Undecodables(d, evs, bs) == {b \in bs : <<d, evs[b].offset>> \in Undecodable}

FragmentOf(d, evs, c, s, done) ==
  [segment   |-> evs[s].offset,
   cluster   |-> evs[c].offset,
   blocks    |-> Offsets(evs, BlocksOf(evs, c) \ Undecodables(d, evs, BlocksOf(evs, c))),
   truncated |-> EndIn(evs, c) > Len(evs),
   view      |-> Metadata(evs, s, GoesAt(evs, c, s, done))]

-----------------------------------------------------------------------------
(* One reading, and those that recoveries start after it.                  *)

\* Masters outside a Segment have no use to anyone, if their end is known.
Useless(evs) ==
  {i \in DOMAIN evs : /\ evs[i].ev = "master" /\ evs[i].id # "Segment"
                      /\ evs[i].size # UnknownSize
                      /\ \A s \in SegmentsOf(evs) : ~Inside(evs, i, s)}

\* The next such master to skip is only known when those before it are skipped:
\* r is the reading that skips those known so far.
RECURSIVE SkippingMore(_, _, _, _, _)
SkippingMore(d, start, skips, eoi, r) ==
  LET more == {Said(r)[i].offset : i \in Useless(Said(r))} \ skips
  IN IF more = {} THEN r
     ELSE SkippingMore(d, start, skips \cup {Min(more)}, eoi,
                       ReadFrom(d, start, skips \cup {Min(more)}, eoi))

Reading(d, start, eoi) == SkippingMore(d, start, {}, eoi, ReadFrom(d, start, {}, eoi))

\* The fragments among the events, with their Segments.
Pairs(evs) == UNION {{<<c, s>> : c \in ClustersOf(evs, s)} : s \in SegmentsOf(evs)}

Blocks(evs) == UNION {BlocksOf(evs, cs[1]) : cs \in Pairs(evs)}

\* Unless such blocks are dropped, the reading ends at the first that will not decode.
UpToContent(d, o, evs) ==
  LET bad == Undecodables(d, evs, Blocks(evs))
  IN IF o.skipContent \/ bad = {} THEN evs
     ELSE Append(SubSeq(evs, 1, Min(bad)), Outcome("fail", "Content"))

\* What the events of one reading hold for the options o.  A Cluster the input
\* ends in is a fragment too, one that a failure ends is not.
HeldBy(d, o, evs) ==
  LET whole == {cs \in Pairs(evs) : EndIn(evs, cs[1]) <= Len(evs) \/ Top(evs).why \in Incomplete}
      order == SetToSortSeq(whole, LAMBDA a, b : a[1] < b[1])
  IN [fragments |-> [n \in DOMAIN order |-> FragmentOf(d, evs, order[n][1], order[n][2], o.done)],
      dropped   |-> IF o.skipContent THEN Offsets(evs, Undecodables(d, evs, Blocks(evs))) ELSE << >>,
      notified  |-> << >>,
      why       |-> Top(evs).why]

\* Where a reading that failed at pos may be resumed, after the last such place.
Resumptions(d, pos, last, eoi) ==
  {b \in DOMAIN Documents[d].at : /\ Documents[d].at[b].id \in {"EBML", "Segment"}
                                  /\ b >= pos /\ b > last /\ b + IDBytes <= eoi}

\* What two readings hold, told of the recovery between them.
Joined(first, told, second) ==
  [fragments |-> first.fragments \o second.fragments,
   dropped   |-> first.dropped \o second.dropped,
   notified  |-> <<told>> \o second.notified,
   why       |-> second.why]

\* What the reading r, which began after last, holds, and those that recover from it.
RECURSIVE Holds(_, _, _, _, _)
Holds(d, o, r, last, eoi) ==
  LET here == HeldBy(d, o, UpToContent(d, o, Said(r)))
      next == Resumptions(d, r.pos, last, eoi)
      told == [at |-> Min(next), skipped |-> Min(next) - r.pos, cause |-> Top(Said(r)).why]
  IN IF ~o.resync \/ next = {} \/ here.why \notin Malformed THEN here
     ELSE Joined(here, told, Holds(d, o, Reading(d, Min(next), eoi), Min(next), eoi))

\* For every input TLC can meet.
Held == [d \in DOMAIN Documents |->
          [o \in OptionSets |->
            [eoi \in Documents[d].start..(Documents[d].start + Documents[d].len) |->
               Holds(d, o, Reading(d, Documents[d].start, eoi), -1, eoi)]]]

-----------------------------------------------------------------------------

\* The fragments handed over are those the input holds, each once, in its order,
\* with the blocks that are its own and the metadata it waited for; so are the
\* blocks dropped and the recoveries told of.  An assembler that is done has
\* handed over all of them, and a failure it reports is the input's
\* (assembler.go, "The result is split-invariant").
FragmentsAreTheInput ==
  LET input == Held[doc][opts][IF closed THEN p.fed ELSE InputEnd]
      told  == IF call = "idle" THEN delivered ELSE delivered \o emitted
      done  == call = "idle" /\ (closed \/ failure # "none")
  IN /\ IsPrefix(told, input.fragments)
     /\ IsPrefix(dropped, input.dropped)
     /\ IsPrefix(notified, input.notified)
     /\ done => /\ delivered = input.fragments
                /\ dropped = input.dropped
                /\ notified = input.notified
     /\ failure \in {"none", input.why}

=============================================================================
