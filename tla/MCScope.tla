------------------------------ MODULE MCScope ------------------------------
(* Documents on which TLC checks Scope: a tracked master that nests, repeats, *)
(* is skipped, or is left open by the end of the input.                      *)
EXTENDS Scope

IDs == {"EBML", "Segment", "Tags", "Block"}

Kinds == [id \in IDs |-> IF id = "Block" THEN "leaf" ELSE "master"]

Boundaries == {<<open_, next>> \in IDs \X IDs : next = "Segment" \/ (open_ = "Tags" /\ next = "Tags")}

H(id, size) == [id |-> id, idLen |-> 1, sizeLen |-> 1, size |-> size]

Doc(len, at) == [start |-> 0, len |-> len, at |-> at]

Docs ==
  [ \* Two tracked masters of declared size; the second holds one more, and that
    \* a master.
    declared |-> Doc(15, 0 :> H("Segment", 11) @@ 2 :> H("Tags", 3) @@ 4 :> H("Block", 1)
                        @@ 7 :> H("Tags", 4) @@ 9 :> H("Tags", 2) @@ 11 :> H("EBML", 0)
                        @@ 13 :> H("EBML", 0)),
    \* The tracked master at the top, of unknown size, twice.
    live     |-> Doc(13, 0 :> H("Tags", -1) @@ 2 :> H("EBML", 2) @@ 4 :> H("Block", 0)
                        @@ 6 :> H("Block", 1) @@ 9 :> H("Tags", -1) @@ 11 :> H("Block", 0)),
    \* A tracked master whose last child, of unknown size, holds an element past its end.
    past     |-> Doc(11, 0 :> H("Tags", 4) @@ 2 :> H("EBML", -1) @@ 4 :> H("Block", 3)
                        @@ 9 :> H("Segment", -1)) ]

=============================================================================
