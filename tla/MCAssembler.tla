---------------------------- MODULE MCAssembler ----------------------------
(* Streams and options on which TLC checks Assembler.  As in a stream, the    *)
(* IDs that a recovery looks for take four bytes, and the others fewer.       *)
EXTENDS AssemblerReference, TLC

IDs == {"EBML", "Segment", "Cluster", "Tags", "Tag", "SimpleBlock"}

Kinds == [id \in IDs |-> IF id \in {"Tag", "SimpleBlock"} THEN "leaf" ELSE "master"]

\* A new document ends whatever is open; a Cluster ends at what cannot be in it.
Boundaries == {<<open_, next>> \in IDs \X IDs :
                 \/ next \in {"EBML", "Segment"}
                 \/ open_ = "Cluster" /\ next \in {"Cluster", "Tags"}}

H(id, size) == [id |-> id, idLen |-> 1, sizeLen |-> 1, size |-> size]
T(id, size) == [id |-> id, idLen |-> 4, sizeLen |-> 1, size |-> size]

\* An ID of a top-level element where none begins: what follows is no size.
Fake(id) == [id |-> id, idLen |-> 4, sizeLen |-> 0, size |-> 0]

Doc(len, at) == [start |-> 0, len |-> len, at |-> at]

Docs ==
  [ \* A live stream: Tags follow the Cluster they belong to, one block is bad.
    live     |-> Doc(21, 0 :> T("Segment", -1) @@ 5 :> H("Cluster", -1)
                        @@ 7 :> H("SimpleBlock", 0) @@ 9 :> H("SimpleBlock", 0)
                        @@ 11 :> H("Tags", 3) @@ 13 :> H("Tag", 1)
                        @@ 16 :> H("Cluster", -1) @@ 18 :> H("SimpleBlock", 1)),
    \* Everything declared, with a header and metadata before the Clusters.
    declared |-> Doc(22, 0 :> T("EBML", 2) @@ 5 :> H("Tag", 0) @@ 7 :> T("Segment", 10)
                        @@ 12 :> H("Tag", 0) @@ 14 :> H("Cluster", 2) @@ 16 :> H("SimpleBlock", 0)
                        @@ 18 :> H("Tag", 0) @@ 20 :> H("Cluster", 0)),
    \* Two Segments, the second with metadata of its own.
    two      |-> Doc(20, 0 :> T("Segment", -1) @@ 5 :> H("Tag", 0) @@ 7 :> H("Cluster", 2)
                        @@ 9 :> H("SimpleBlock", 0) @@ 11 :> T("Segment", -1)
                        @@ 16 :> H("Tag", 0) @@ 18 :> H("Cluster", 0)),
    \* What is outside a Segment, in an unknown-size master too, and Clusters and
    \* Segments where they do not belong.
    outside  |-> Doc(29, 0 :> H("Cluster", 2) @@ 2 :> H("SimpleBlock", 0) @@ 4 :> T("EBML", -1)
                        @@ 9 :> H("Tag", 0) @@ 11 :> T("Segment", 15) @@ 16 :> H("Tags", 4)
                        @@ 18 :> H("Cluster", 2) @@ 20 :> H("Tag", 0) @@ 22 :> T("Segment", 0)
                        @@ 27 :> H("SimpleBlock", 0)),
    \* A payload over the cap, and a failure while a fragment is held.
    failing  |-> Doc(16, 0 :> T("Segment", -1) @@ 5 :> H("Tag", 2) @@ 9 :> H("Cluster", 2)
                        @@ 11 :> H("SimpleBlock", 0) @@ 13 :> H("Tag", -1)),
    \* A Cluster is held and the next one open when the Segment fails; another follows.
    damaged  |-> Doc(22, 0 :> T("Segment", -1) @@ 5 :> H("Cluster", 0) @@ 7 :> H("Cluster", 4)
                        @@ 9 :> H("Tag", -1) @@ 13 :> T("Segment", -1) @@ 18 :> H("Cluster", 2)
                        @@ 20 :> H("SimpleBlock", 0)),
    \* A fragment is held at the failure; what recovery finds first fails on the
    \* spot, then again; the third is real, and overrun.
    fakes    |-> Doc(25, 0 :> T("Segment", -1) @@ 5 :> H("Cluster", 0) @@ 7 :> H("Tag", -1)
                        @@ 10 :> Fake("Segment") @@ 14 :> Fake("EBML")
                        @@ 18 :> T("Segment", 2) @@ 23 :> H("Cluster", 3)),
    \* The bytes run out while a recovery is pending.
    lost     |-> Doc(14, 0 :> T("Segment", -1) @@ 5 :> H("Cluster", 0) @@ 7 :> H("Tag", -1)),
    \* After the recovery, a block that will not decode.
    content  |-> Doc(20, 2 :> T("EBML", 1) @@ 8 :> T("Segment", -1) @@ 13 :> H("Cluster", 4)
                        @@ 15 :> H("SimpleBlock", 0) @@ 17 :> H("SimpleBlock", 0)) ]

Bads == {<<"live", 9>>, <<"declared", 16>>, <<"content", 15>>}

Option(resync, skip, max, done) ==
  [resync |-> resync, skipContent |-> skip, maxPayload |-> max, done |-> done]

Options == {Option(FALSE, FALSE, -1, {}), Option(FALSE, TRUE, 1, {"Tags", "Tag"}),
            Option(FALSE, TRUE, 0, {"Cluster"}), Option(TRUE, FALSE, -1, {}),
            Option(TRUE, TRUE, 1, {})}

=============================================================================
