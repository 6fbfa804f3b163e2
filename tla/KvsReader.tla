----------------------------- MODULE KvsReader -----------------------------
(***************************************************************************)
(* integrations/kvs: the Reader of a GetMedia stream, which hands over each  *)
(* fragment with its metadata: the tags of its Segment, over those that      *)
(* earlier fragments of the same SegmentUUID had.                           *)
(*                                                                         *)
(* The fragment layer below it (modules Assembler and FragmentReader) is     *)
(* modelled here by what it does to complete elements: a read brings some of *)
(* them, a fragment is held until its Segment's metadata settles, and the    *)
(* Segment's element, whose tags are read at the hand-over, is one that      *)
(* every fragment of the Segment shares.                                    *)
(***************************************************************************)
EXTENDS Naturals, Sequences, SequencesExt, FiniteSetsExt, TLC

CONSTANTS
  TagName,     \* the names of tags
  Token,       \* TagContinuationToken
  ErrorCode,   \* TagErrorCode
  Streams,     \* the streams read: elements in order and how the source ends
  MaxEdits     \* bound: how often the caller writes to a map it was given

Ending == {"clean", "cut", "fails"}

\* Elements in the order in which they complete, Clusters also where they begin: tags and
\* Clusters are in a Segment, and nothing but its end follows the beginning of a Cluster.
IsNested(items) ==
  /\ DOMAIN items = 1..Len(items) /\ Len(items) \in Nat
  /\ \A i \in DOMAIN items :
       /\ items[i].el \in {"segment", "tags", "cluster", "end"}
       /\ items[i].el = "end" <=> i > 1 /\ items[i - 1].el = "cluster"
       /\ items[i].el \in {"tags", "cluster"} => \E j \in 1..i : items[j].el = "segment"

ASSUME StreamsAssumption ==
  /\ {Token, ErrorCode} \subseteq TagName
  /\ \A s \in Streams : IsNested(s.items) /\ s.ending \in Ending
  /\ MaxEdits \in Nat

\* What g says of the names that f does not speak of.
Over(f, g) ==
  [name \in DOMAIN f \cup DOMAIN g |-> IF name \in DOMAIN f THEN f[name] ELSE g[name]]

NoUUID == "none"   \* a Segment without a SegmentUUID
Edited == "edited" \* what the caller writes

\* The elements of a stream, as the fragment layer sees them complete.
Segment(uuid) == [el |-> "segment", uuid |-> uuid, tags |-> << >>]
Tags(map)     == [el |-> "tags", uuid |-> NoUUID, tags |-> map]
ClusterBegins == [el |-> "cluster", uuid |-> NoUUID, tags |-> << >>]
ClusterEnds   == [el |-> "end", uuid |-> NoUUID, tags |-> << >>]

VARIABLES
  stream,      \* what is read (fixed)
  inheritTags, \* the option (fixed)
  at,          \* elements read
  segments,    \* the Segment trees, each with the tags in it so far
  inCluster,   \* a Cluster is open
  pending,     \* the fragment held for its metadata, a sequence of at most one
  queue,       \* fragments released, not taken
  sourceDone,  \* the source has ended
  failure,     \* what the fragment layer reports once its queue is empty
  asking,      \* Next is running
  maps,        \* the maps allocated: the caller's and the history's
  history,     \* of each SegmentUUID, its map in maps, 0 when there is none
  given,       \* the map given to the caller with each fragment
  sticky, returnedEOF,
  \* History.
  edits,       \* how often the caller wrote to a map
  delivered,   \* the fragments delivered, with their tags as they then were
  reported     \* the last error Next returned

source == <<at, segments, inCluster, pending, queue, sourceDone, failure>>
reader == <<maps, history, given, sticky, returnedEOF>>
kvsVars == <<stream, inheritTags, source, asking, reader, edits, delivered, reported>>

UUIDs == UNION {{s.items[i].uuid : i \in DOMAIN s.items} : s \in Streams}

KvsInit ==
  /\ stream \in Streams /\ inheritTags \in BOOLEAN
  /\ at = 0 /\ segments = << >> /\ inCluster = FALSE /\ pending = << >> /\ queue = << >>
  /\ sourceDone = FALSE /\ failure = "none"
  /\ asking = FALSE
  /\ maps = << >> /\ history = [u \in UUIDs |-> 0] /\ given = << >>
  /\ sticky = "none" /\ returnedEOF = FALSE
  /\ edits = 0 /\ delivered = << >> /\ reported = "none"

-----------------------------------------------------------------------------
(* The fragment layer.                                                     *)

\* MetadataComplete: the Segment's tags have the token when a Tags completes.
MetadataComplete(tags, completed) == completed = "tags" /\ Token \in DOMAIN tags

Fragment(b, truncated) == [segment |-> Len(b.segments), truncated |-> truncated]

Release(b) == [b EXCEPT !.queue = b.queue \o b.pending, !.pending = << >>]

Settle(b, completed) ==
  IF MetadataComplete(Last(b.segments).tags, completed) THEN Release(b) ELSE b

\* An element completes, a Segment or a Cluster begins.  A later value of a name
\* goes before an earlier one (tags.Set.All).
Take(b, item) ==
  CASE item.el = "segment" -> LET r == Release(b)
                              IN [r EXCEPT !.segments = Append(@, [uuid |-> item.uuid,
                                                                  tags |-> << >>])]
    [] item.el = "tags"    -> LET n == Len(b.segments)
                              IN Settle([b EXCEPT !.segments[n].tags = Over(item.tags, @)], "tags")
    [] item.el = "cluster" -> [Release(b) EXCEPT !.cluster = TRUE]
    [] item.el = "end"     -> Settle([b EXCEPT !.cluster = FALSE,
                                              !.pending = <<Fragment(b, FALSE)>>], "end")

Layer == [segments |-> segments, cluster |-> inCluster, pending |-> pending, queue |-> queue]

\* The source ends: what is held is released and, of an input cut inside an
\* element, the open Cluster too.
Finalized(b) ==
  LET r == IF b.cluster /\ stream.ending = "clean" THEN Take(b, ClusterEnds) ELSE b
      h == Release(r)
  IN IF h.cluster THEN [h EXCEPT !.queue = Append(@, Fragment(h, TRUE)), !.cluster = FALSE] ELSE h

\* Mutant: an input cut inside an element ends like a complete one.
SourceFailureUncut(ends) == IF ends /\ stream.ending = "fails" THEN "fails" ELSE "none"

SourceFailure(ends) == IF ends /\ stream.ending # "clean" THEN stream.ending ELSE "none"

Filling == asking /\ queue = << >> /\ failure = "none" /\ ~sourceDone

\* The layer after the next n elements.
After(n) ==
  LET read[i \in 0..n] == IF i = 0 THEN Layer ELSE Take(read[i - 1], stream.items[at + i])
  IN read[n]

\* A Read brings the next n elements, the end of the source possibly with the last
\* of them, or the source's failure.
Fill(n, ends) ==
  LET b == IF ends /\ stream.ending # "fails" THEN Finalized(After(n)) ELSE After(n)
  IN /\ Filling
     /\ at + n <= Len(stream.items)
     /\ ends => at + n = Len(stream.items)
     /\ n > 0 \/ ends
     /\ at' = at + n
     /\ segments' = b.segments /\ inCluster' = b.cluster
     /\ pending' = b.pending /\ queue' = b.queue
     /\ sourceDone' = (ends /\ stream.ending # "fails")
     /\ failure' = SourceFailure(ends)
     /\ UNCHANGED <<stream, inheritTags, asking, reader, edits, delivered, reported>>

-----------------------------------------------------------------------------
(* Metadata.                                                               *)

History(uuid) == IF history[uuid] = 0 THEN << >> ELSE maps[history[uuid]]

Inherits(uuid) == inheritTags /\ uuid # NoUUID

\* metadata and effectiveTags: the Segment's own tags go before inherited ones.
EffectiveTags(seg) ==
  IF Inherits(seg.uuid) THEN Over(seg.tags, History(seg.uuid)) ELSE seg.tags

\* Mutant: the history keeps the very map the caller is given.
RecordShared(seg, tags) ==
  LET n == Len(maps) + 1
  IN /\ maps' = Append(maps, tags)
     /\ given' = Append(given, n)
     /\ history' = IF Inherits(seg.uuid) THEN [history EXCEPT ![seg.uuid] = n] ELSE history

\* The caller owns the map it is handed, and the history keeps a clone.
Record(seg, tags) ==
  LET n == Len(maps) + 1
  IN /\ given' = Append(given, n)
     /\ IF Inherits(seg.uuid)
        THEN /\ maps' = maps \o <<tags, tags>>
             /\ history' = [history EXCEPT ![seg.uuid] = n + 1]
        ELSE maps' = Append(maps, tags) /\ UNCHANGED history

-----------------------------------------------------------------------------
(* Next, Close and the caller.                                             *)

\* Mutant: a Reader that was closed reports io.EOF whatever it had latched.
AnswerAfterClose == IF returnedEOF THEN "EOF" ELSE sticky

\* A latched failure first: Close also exhausts the Reader.
Answer == IF sticky # "none" THEN sticky ELSE IF returnedEOF THEN "EOF" ELSE "none"

Next ==
  /\ ~asking
  /\ IF Answer # "none" THEN reported' = Answer /\ UNCHANGED asking
     ELSE asking' = TRUE /\ UNCHANGED reported
  /\ UNCHANGED <<stream, inheritTags, source, reader, edits, delivered>>

\* A fragment is handed over; if it carries an in-band error, that is latched and
\* the pull is stopped.
NextFragment ==
  LET f == Head(queue)
      tags == EffectiveTags(segments[f.segment])
  IN /\ asking /\ queue # << >>
     /\ asking' = FALSE
     /\ delivered' = Append(delivered, [segment |-> f.segment, truncated |-> f.truncated,
                                        tags |-> tags])
     /\ Record(segments[f.segment], tags)
     /\ queue' = Tail(queue)
     /\ sticky' = IF ErrorCode \in DOMAIN tags THEN "stream" ELSE "none"
     /\ UNCHANGED <<stream, inheritTags, at, segments, inCluster, pending, sourceDone, failure,
                    returnedEOF, edits, reported>>

NextFails ==
  /\ asking /\ queue = << >> /\ failure # "none"
  /\ asking' = FALSE
  /\ sticky' = failure /\ reported' = failure
  /\ UNCHANGED <<stream, inheritTags, source, maps, history, given, returnedEOF, edits, delivered>>

NextEnds ==
  /\ asking /\ queue = << >> /\ failure = "none" /\ sourceDone
  /\ asking' = FALSE
  /\ returnedEOF' = TRUE /\ reported' = "EOF"
  /\ UNCHANGED <<stream, inheritTags, source, maps, history, given, sticky, edits, delivered>>

\* Close, between calls of Next.
Close ==
  /\ ~asking
  /\ returnedEOF' = TRUE
  /\ UNCHANGED <<stream, inheritTags, source, asking, maps, history, given, sticky, edits,
                 delivered, reported>>

CallerEdits(i, name) ==
  /\ ~asking /\ edits < MaxEdits
  /\ maps' = [maps EXCEPT ![given[i]] = name :> Edited @@ @]
  /\ edits' = edits + 1
  /\ UNCHANGED <<stream, inheritTags, source, asking, history, given, sticky, returnedEOF,
                 delivered, reported>>

-----------------------------------------------------------------------------

Running ==
  \/ \E n \in 0..Len(stream.items), ends \in BOOLEAN : Fill(n, ends)
  \/ NextFragment \/ NextFails \/ NextEnds

KvsNext ==
  \/ Next \/ Running \/ Close
  \/ \E i \in DOMAIN given, name \in TagName : CallerEdits(i, name)

KvsSpec == KvsInit /\ [][KvsNext]_kvsVars

-----------------------------------------------------------------------------

\* No map is owned twice: neither two fragments nor a fragment and the history
\* share one, so that what a caller writes to its metadata reaches no other.
NoMapIsShared ==
  /\ given \in Seq(DOMAIN maps) /\ IsInjective(given)
  /\ \A u \in UUIDs : history[u] \in {0} \cup (DOMAIN maps \ ToSet(given))

\* The variables have their types, and at most one fragment is held for its metadata.
KvsTypeOK ==
  /\ Len(given) = Len(delivered)
  /\ Len(pending) <= 1 /\ (inCluster => pending = << >>)
  /\ sticky \in {"none", "stream", "cut", "fails"}
  /\ reported \in {"none", "EOF", "stream", "cut", "fails"}

-----------------------------------------------------------------------------
(* What the stream says.                                                   *)

Items == stream.items

\* How many of the first i elements are el's.
Number(el, i) == Cardinality({j \in 1..i : Items[j].el = el})

\* The Segment that the element i stands in, by its number.
SegmentAt(i) == Number("segment", i)

UUIDOf(n) ==
  Items[CHOOSE i \in DOMAIN Items : Items[i].el = "segment" /\ SegmentAt(i) = n].uuid

\* The Tags elements in Segment n, as far as the element i.
TagsIn(n, i) == {j \in 1..i : Items[j].el = "tags" /\ SegmentAt(j) = n}

\* What Tags elements state together: of each name, the last value.
Stated(elements) ==
  [name \in UNION {DOMAIN Items[j].tags : j \in elements} |->
     Items[Max({j \in elements : name \in DOMAIN Items[j].tags})].tags[name]]

\* The Segments whose tags the Cluster i inherits: those before its own that have the
\* same UUID, and a Cluster.
Ancestry(i) ==
  {SegmentAt(c) : c \in {c \in DOMAIN Items :
     /\ Items[c].el = "cluster" /\ SegmentAt(c) < SegmentAt(i)
     /\ UUIDOf(SegmentAt(c)) = UUIDOf(SegmentAt(i))}}

\* The tags of the fragment of Cluster i: its Segment's, all of them, over the inherited.
TagsOf(i) ==
  LET segmentsOf == {SegmentAt(i)} \cup
                    (IF Inherits(UUIDOf(SegmentAt(i))) THEN Ancestry(i) ELSE {})
  IN Stated(UNION {TagsIn(n, Len(Items)) : n \in segmentsOf})

\* A stream of the KVS shape: one Cluster in each Segment, the token its last tag.
IsGetMedia(items) ==
  \A i, j \in DOMAIN items :
    /\ i < j
    /\ \/ items[i].el = "cluster" /\ items[j].el = "cluster"
       \/ items[i].el = "tags" /\ Token \in DOMAIN items[i].tags /\ items[j].el = "tags"
    => \E n \in i..j : items[n].el = "segment"

\* The fragments handed over are those of the Clusters, in order and each once, cut short
\* only where the stream is, and of a stream of the KVS shape the metadata handed over
\* with a fragment is what the stream states, however it was read and whatever the caller
\* did to the metadata of fragments before.
MetadataIsTheStreams ==
  \A k \in DOMAIN delivered :
    \E i \in DOMAIN Items :
      /\ Items[i].el = "cluster" /\ Number("cluster", i) = k
      /\ delivered[k].segment = SegmentAt(i)
      /\ delivered[k].truncated = (i = Len(Items) /\ stream.ending = "cut")
      /\ IsGetMedia(Items) => delivered[k].tags = TagsOf(i)

\* Once a fragment with an in-band error is delivered nothing else is, and the
\* error is all that Next reports, closed or not.
StreamErrorIsFinal ==
  [][\A k \in DOMAIN delivered : ErrorCode \in DOMAIN delivered[k].tags =>
       /\ delivered' = delivered
       /\ reported' = reported \/ reported' = "stream"]_kvsVars

\* A Reader that was not closed reports io.EOF only of a source that ended clean,
\* with every fragment delivered.
EndIsClean ==
  [][~returnedEOF /\ reported' = "EOF" =>
       stream.ending = "clean" /\ Len(delivered) = Number("cluster", Len(Items))]_kvsVars

\* What the doc comment of WithBufferSize says, and its package's tests of the read
\* size: a fragment is the same however the stream was read.  So its Segment's own
\* tags, as it is delivered, are those stated before the next Cluster at the latest.
ReadSizeChangesNothing ==
  \A i \in DOMAIN Items :
    Items[i].el = "cluster" /\ Number("cluster", i) \in DOMAIN delivered =>
      LET next == Min({Len(Items) + 1} \cup {j \in DOMAIN Items : j > i /\ Items[j].el = "cluster"})
      IN ~inheritTags => DOMAIN delivered[Number("cluster", i)].tags
                           \subseteq DOMAIN Stated(TagsIn(SegmentAt(i), next - 1))

\* What the doc comment of MetadataComplete says: it delays a fragment's release,
\* never lets one go without metadata that is still to come.
\* The model refutes it (README, section 7).
NeverMissingMetadata ==
  \A i \in DOMAIN Items :
    Items[i].el = "cluster" /\ Number("cluster", i) \in DOMAIN delivered =>
      DOMAIN Stated(TagsIn(SegmentAt(i), Len(Items)))
        \subseteq DOMAIN delivered[Number("cluster", i)].tags

\* Metadata is private to its fragment, and the fragment's own: no map is shared
\* between fragments, and each says what the stream states of its fragment.
KvsInv == KvsTypeOK /\ NoMapIsShared /\ MetadataIsTheStreams

\* What the doc comment of Next says: a failure discards no fragment that stood
\* before it in the stream.
\* The model refutes it (README, section 7).
FailureDiscardsNothing ==
  reported = "stream" =>
    \A i, j \in DOMAIN Items :
      Items[i].el = "cluster" /\ i < j /\ ErrorCode \in DOMAIN Items[j].tags
      => Number("cluster", i) \in DOMAIN delivered

=============================================================================
