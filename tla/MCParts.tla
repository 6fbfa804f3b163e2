------------------------------ MODULE MCParts ------------------------------
(***************************************************************************)
(* Components that share no state, each at work alone: a behaviour            *)
(* chooses one of them and the others stay in their initial states.          *)
(***************************************************************************)
EXTENDS SimpleBlock, Values, Timeline, ParserBuffer, MCTags, MCKvsReader

VARIABLE part  \* the component at work

partsVars == <<part, blockVars, valVars, timeVars, bufVars, tagsVars, kvsVars>>

PartsInit ==
  /\ part \in {"block", "value", "time", "buffer", "tags", "kvs"}
  /\ BlockInit /\ ValInit /\ TimeInit /\ BufInit /\ TagsInit /\ KvsInit
  \* A component that is not at work has one initial state.
  /\ part # "tags" => tagDoc = CHOOSE d \in TagDocs : TRUE
  /\ part # "kvs" => inheritTags /\ stream = CHOOSE s \in Streams : TRUE

PartsNext ==
  \/ /\ part = "block" /\ BlockNext
     /\ UNCHANGED <<part, valVars, timeVars, bufVars, tagsVars, kvsVars>>
  \/ /\ part = "value" /\ ValNext
     /\ UNCHANGED <<part, blockVars, timeVars, bufVars, tagsVars, kvsVars>>
  \/ /\ part = "time" /\ TimeNext
     /\ UNCHANGED <<part, blockVars, valVars, bufVars, tagsVars, kvsVars>>
  \/ /\ part = "buffer" /\ BufNext
     /\ UNCHANGED <<part, blockVars, valVars, timeVars, tagsVars, kvsVars>>
  \/ /\ part = "tags" /\ TagsNext
     /\ UNCHANGED <<part, blockVars, valVars, timeVars, bufVars, kvsVars>>
  \/ /\ part = "kvs" /\ KvsNext
     /\ UNCHANGED <<part, blockVars, valVars, timeVars, bufVars, tagsVars>>

PartsSpec == PartsInit /\ [][PartsNext]_partsVars

-----------------------------------------------------------------------------
(* SimpleBlock.  Bytes of six bits: five value bits in each byte of a VINT and *)
(* one reserved flag.                                                       *)

\* Frames in a buffer hold no information: one byte is as good as another.
Frame(n) == [i \in 1..n |-> 7]

\* Sizes around the limits of each encoding: a one-byte delta (15), a one-byte
\* VINT (30), 0xff (63) and a two-byte delta (511).
FrameSizes == {0, 1, 15, 16, 17, 30, 31, 62, 63, 64, 126}
FewFrameSizes == {0, 1, 16, 17, 31, 63}

OwnBlock(track, timecode, lacing, sizes) ==
  [NoBlock EXCEPT !.track = track, !.timecode = timecode, !.lacing = lacing,
                  !.keyframe = TRUE, !.frames = [i \in DOMAIN sizes |-> Frame(sizes[i])]]

MCOwnBlocks ==
     {OwnBlock(1, -3, l, s) : l \in Lacing, s \in UNION {[1..n -> FrameSizes] : n \in 0..2}}
  \cup {OwnBlock(1, 0, l, s) : l \in Lacing, s \in [1..3 -> FewFrameSizes]}
  \cup {OwnBlock(1, 0, "ebml", s) : s \in {<<0, 1, 530, 17, 0>>, <<0, 530, 0>>, <<530, 19, 0>>}}
  \cup {OwnBlock(t, -2048, "none", <<1>>) :
          t \in {0, 30, 31, 32, 1022, 1023, 2 ^ 30 - 2, 2 ^ 30 - 1}}
  \cup {OwnBlock(1, 2047, l, [i \in 1..n |-> 1]) : l \in Lacing, n \in {64, 65}}

\* One-byte VINTs of 0, 1, 2, 15, 16, 30 and all ones are 32, 33, 34, 47, 48, 62
\* and 63; 16 begins a two-byte one, 0 none; of the flags 22 and 41 have the reserved bit
\* or all others.
LastBytes == {0, 16, 33, 34, 47, 48, 63}
MCBytes == << {16, 62, 63}, {0, 40}, {33}, {0, 2, 4, 6, 22, 41}, {0, 1, 2, 63},
              LastBytes, LastBytes, {33, 63} >>

MCHeld == <<5, 6>>

-----------------------------------------------------------------------------
(* Values.  Two-bit bytes, words of four of them, seconds of nine nanoseconds, *)
(* and 2001 three seconds after 1970.  The last word is 14 seconds and one     *)
(* nanosecond, the first 15 seconds less 7 before 2001.                      *)

Of(k, values) == {[kind |-> k, v |-> v] : v \in values}

MCOwnValues ==
       Of("uint", {<<n>> : n \in UnsignedWords}) \cup Of("int", {<<n>> : n \in Words})
  \cup Of("string", UNION {[1..n -> Byte] : n \in 0..2})
  \cup Of("date", Words \X {0, 1, 2, 7, 8})

-----------------------------------------------------------------------------
(* Timeline.  The same words and seconds, and timecodes of four bits: a word   *)
(* holds the nanoseconds of 14 seconds and of a part of the 15th.             *)

MCInstants ==
  ({MinWord, -43, -29, -28, -15, -14, -1, 0, 1, 2, 13, 14, 15, 28, 29, 100, MaxWord}
     \X {0, 1, 8})

MCTicks == {0, 1, 5, 14, 25, 40, 100, 127, 128, 200, 255}

MCScales == {0, 1, 3, 5, 127, 255}

MCTimecodes == {-8, -1, 0, 3, 7}

-----------------------------------------------------------------------------
(* ParserBuffer.  A slice of three cells that moves its bytes once three are   *)
(* consumed.                                                                *)

MCChunks == {1, 2, 4}
MCHeaderLens == {2, 3}
MCSizes == {0, 1, 2, 4}
MCSpare == {0, 2}

=============================================================================
