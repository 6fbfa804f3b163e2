------------------------------ MODULE Timeline ------------------------------
(***************************************************************************)
(* The times a Kinesis stream carries: the ticks of a Cluster and of its      *)
(* blocks (ext/fragment's TimestampScale and BlockTime, StartTime and EndTime),*)
(* the wall clock they stand for (integrations/kvs/time.go), the ticks a      *)
(* producer makes of the clock (putmedia.go), and the timestamps in its tags  *)
(* (ParseTimestamp).  The arithmetic is that of the code's integers.         *)
(***************************************************************************)
EXTENDS Word, SequencesExt

CONSTANTS
  TimecodeBits,   \* 16: a block's timecode, signed
  DefaultScale,   \* nanoseconds in a tick when the Segment does not say
  Base,           \* 10: what the digits of a tag are of; Base is another character
  FracDigits,     \* 9
  Instants,       \* bounds: what the clock may say,
  Ticks,          \*   the Cluster Timestamps another producer may write,
  Scales,         \*   the scales declared, 0 for none,
  Timecodes,      \*   the timecodes,
  MaxBlocks,      \*   and how many blocks have one;
  MaxDigits       \*   the longest tag

\* b to the n-th, as a function the prover can reason about.
Power(b, n) ==
  LET power[i \in 0..n] == IF i = 0 THEN 1 ELSE b * power[i - 1]
  IN power[n]

ASSUME TimelineAssumption ==
  /\ Base \in Nat \ {0} /\ FracDigits \in Nat /\ Second = Power(Base, FracDigits)
  /\ Instants \subseteq Times /\ Ticks \subseteq UnsignedWords
  /\ Scales \subseteq UnsignedWords /\ DefaultScale \in UnsignedWords \ {0}
  /\ TimecodeBits \in Nat \ {0}
  /\ Timecodes \subseteq -(2 ^ (TimecodeBits - 1)) .. (2 ^ (TimecodeBits - 1)) - 1

VARIABLES
  clock,     \* the instant the producer stamped, or NoTime
  scale,     \* Info.TimestampScale, 0 when absent
  cluster,   \* the Cluster's Timestamp in ticks
  blocks,    \* the timecodes of the fragment's blocks
  result,    \* of the last call
  tag,       \* a timestamp tag: its integer part, its fraction, has it a point
  parsed     \* what the tag was parsed to, or NoTime

timeVars == <<clock, scale, cluster, blocks, result, tag, parsed>>

NoTime == << >>

NoTag == [int |-> << >>, point |-> FALSE, frac |-> << >>]

Point == Base + 1

-----------------------------------------------------------------------------
(* Ticks.                                                                  *)

TimestampScale == IF scale = 0 THEN DefaultScale ELSE scale

\* A block's time within its Segment, in nanoseconds.
BlockTime(timecode) ==
  Signed(Signed(Signed(cluster) + timecode) * Signed(TimestampScale))

StartTime == IF blocks = << >> THEN 0 ELSE BlockTime(Head(blocks))

\* Mutant: no span is negative.
EndTimeClamped ==
  IF blocks = << >> \/ BlockTime(Last(blocks)) < StartTime THEN StartTime
  ELSE BlockTime(Last(blocks))

EndTime == IF blocks = << >> THEN 0 ELSE BlockTime(Last(blocks))

\* kvs.ClusterTime and kvs.BlockTime: the same on the wall clock.
ClusterTime == UnixTime(Signed(Signed(cluster) * Signed(TimestampScale)))

WallTime(timecode) == UnixTime(BlockTime(timecode))

\* The ticks of an instant.
ClusterTimestamp(t, s) ==
  LET nanos == UnixNano(t)
  IN IF s = 0 THEN [result |-> "ZeroScale", ticks |-> 0]
     ELSE IF nanos < 0 THEN [result |-> "BeforeEpoch", ticks |-> 0]
     ELSE [result |-> "ok", ticks |-> nanos \div s]

-----------------------------------------------------------------------------
(* Tags.                                                                   *)

DigitsOnly(s) == \A i \in DOMAIN s : s[i] < Base

NumberOf(s) ==
  LET number[i \in 0..Len(s)] == IF i = 0 THEN 0 ELSE number[i - 1] * Base + s[i]
  IN number[Len(s)]

\* strconv.ParseUint for so many bits.
ParsesUint(s, bits) == s # << >> /\ DigitsOnly(s) /\ NumberOf(s) < 2 ^ bits

Honored(frac) == SubSeq(frac, 1, IF Len(frac) > FracDigits THEN FracDigits ELSE Len(frac))

\* Mutant: the fraction's digits are nanoseconds, however many they are.
ParseTimestampUnscaled(g) ==
  IF ~ParsesUint(g.int, WordBits - 1) THEN NoTime
  ELSE IF g.frac = << >> THEN <<NumberOf(g.int), 0>>
  ELSE IF ~ParsesUint(Honored(g.frac), WordBits) THEN NoTime
  ELSE <<NumberOf(g.int), NumberOf(Honored(g.frac))>>

\* A time, or NoTime for an error.
ParseTimestamp(g) ==
  LET frac == Honored(g.frac)
  IN IF ~ParsesUint(g.int, WordBits - 1) THEN NoTime
     ELSE IF frac = << >> THEN <<NumberOf(g.int), 0>>
     ELSE IF ~ParsesUint(frac, WordBits) THEN NoTime
     ELSE <<NumberOf(g.int), NumberOf(frac) * Power(Base, FracDigits - Len(frac))>>

-----------------------------------------------------------------------------
(* A producer stamps a Cluster, or another did; a consumer reads the times.  *)

TimeInit ==
  /\ clock = NoTime /\ scale = 0 /\ cluster = 0 /\ blocks = << >>
  /\ result = "none"
  /\ tag = NoTag /\ parsed = NoTime

Stamp(t, s) ==
  /\ result = "none" /\ tag = NoTag
  /\ LET r == ClusterTimestamp(t, s)
     IN result' = r.result /\ cluster' = r.ticks
  /\ clock' = t /\ scale' = s
  /\ UNCHANGED <<blocks, tag, parsed>>

\* A Cluster with no Timestamp reads as one of 0.
Arrive(ticks, s) ==
  /\ result = "none" /\ tag = NoTag
  /\ cluster' = ticks /\ scale' = s /\ result' = "arrived"
  /\ UNCHANGED <<clock, blocks, tag, parsed>>

Block(timecode) ==
  /\ result \in {"ok", "arrived"}
  /\ blocks' = Append(blocks, timecode)
  /\ UNCHANGED <<clock, scale, cluster, result, tag, parsed>>

\* The first point ends the integer part; a second is not a digit.
Character(c) ==
  /\ result = "none"
  /\ tag' = IF c = Point /\ ~tag.point THEN [tag EXCEPT !.point = TRUE]
            ELSE IF tag.point THEN [tag EXCEPT !.frac = Append(@, c)]
            ELSE [tag EXCEPT !.int = Append(@, c)]
  /\ UNCHANGED <<clock, scale, cluster, blocks, result, parsed>>

Parse ==
  /\ result = "none"
  /\ parsed' = ParseTimestamp(tag)
  /\ result' = IF parsed' = NoTime THEN "BadTimestamp" ELSE "parsed"
  /\ UNCHANGED <<clock, scale, cluster, blocks, tag>>

TimeNext ==
  \/ \E t \in Instants, s \in Scales : Stamp(t, s)
  \/ \E ticks \in Ticks, s \in Scales : Arrive(ticks, s)
  \/ /\ Len(blocks) < MaxBlocks
     /\ \E timecode \in Timecodes : Block(timecode)
  \/ /\ Len(tag.int) + Len(tag.frac) < MaxDigits
     /\ \E c \in 0..Point : Character(c)
  \/ Parse

TimeSpec == TimeInit /\ [][TimeNext]_timeVars

-----------------------------------------------------------------------------
(* Properties.                                                             *)

\* The state's types; a refused stamp leaves no ticks.
TimelineTypeOK ==
  /\ clock \in Times \cup {NoTime} /\ scale \in UnsignedWords
  /\ cluster \in UnsignedWords
  /\ result \in {"ZeroScale", "BeforeEpoch"} => cluster = 0
  /\ parsed \in Times \cup {NoTime}

\* ClusterTimestamp is the inverse of ClusterTime (putmedia.go:71): an instant
\* the nanoseconds of which fit a word is read back as the start of the
\* tick it is in.
ClusterTimeInverts ==
  result = "ok" /\ NanosOf(clock) \in Words =>
    NanosOf(clock) - NanosOf(ClusterTime) \in 0..(scale - 1)

\* A block is as far from its Cluster as its timecode says, before it or after,
\* whenever both their times fit a word.
BlocksAreWhereTheySay ==
  \A i \in DOMAIN blocks :
    LET s == Signed(TimestampScale)
    IN cluster * s \in Words /\ (cluster + blocks[i]) * s \in Words =>
         NanosOf(WallTime(blocks[i])) - NanosOf(ClusterTime) = blocks[i] * s

\* The difference of EndTime and StartTime is a true duration whatever the
\* origin of the Segment's timeline (fragment.go:319): even for one so far that
\* neither fits a word, if the duration does.
SpanIsTrue ==
  LET span == (Last(blocks) - Head(blocks)) * Signed(TimestampScale)
  IN blocks # << >> /\ span \in Words => Signed(EndTime - StartTime) = span

\* A tag of digits is parsed to the last nanosecond not after the time it names.
ParsedIsWhatItSays ==
  result = "parsed" /\ DigitsOnly(tag.frac) =>
    LET unit == Power(Base, Len(tag.frac))
        named == NumberOf(tag.frac) * Second
    IN /\ parsed[1] = NumberOf(tag.int)
       /\ parsed[2] * unit <= named /\ named < (parsed[2] + 1) * unit

\* The times of Clusters, blocks and tags are those the timecodes and the digits
\* name, as far as a word holds them, and a refused stamp leaves none.
TimeInv ==
  /\ TimelineTypeOK
  /\ ClusterTimeInverts /\ BlocksAreWhereTheySay /\ SpanIsTrue
  /\ ParsedIsWhatItSays

\* "A time before the Unix epoch is rejected" (putmedia.go:85).
\* The model refutes it (README, section 7).
BeforeTheEpochIsRejected == result = "ok" => NanosOf(clock) >= 0

\* "Both halves must be unsigned decimal digits" (kvs.go:145).
\* The model refutes it (README, section 7).
BothHalvesAreDigits == result = "parsed" => DigitsOnly(tag.int) /\ DigitsOnly(tag.frac)

=============================================================================
