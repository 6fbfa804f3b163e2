------------------------------- MODULE MCTags -------------------------------
(* The Segments on which TLC checks Tags.                                   *)
EXTENDS Tags

At(depth, id, value) == [depth |-> depth, id |-> id, value |-> value]

\* What a Tag of depth 2 is about, and what it may say.
About(field, uid) == <<At(3, "Targets", Master), At(4, field, uid)>>
Said(name, value) == <<At(3, "SimpleTag", Master), At(4, "TagName", name), At(4, "TagString", value)>>
Nameless(value) == <<At(3, "SimpleTag", Master), At(4, "TagString", value)>>
Valueless(name) == <<At(3, "SimpleTag", Master), At(4, "TagName", name)>>
Within(name, value) == <<At(4, "SimpleTag", Master), At(5, "TagName", name), At(5, "TagString", value)>>

Saying ==
  { Said("a", "x"), Said("a", "y"), Said("a", ""), Said("a", Elided), Said("b", "x"),
    Nameless("x"), Valueless("a") \o Within("a", "y"), Said("a", "x") \o Within("a", "z") \o Said("a", "y"),
    Said("b", "x") \o <<At(4, "TagString", "y")>> }

Target == { << >>, <<At(3, "Targets", Master)>>, About("TagTrackUID", "1"), About("TagTrackUID", TooLong) }

\* With every target something is said, and everything is said of one.
Tag ==
  {<<At(2, "Tag", Master)>> \o target \o what : <<target, what>> \in
     (Target \X {Said("a", "y")}) \cup ({About("TagTrackUID", "1")} \X Saying)}

FewTags ==
  {<<At(2, "Tag", Master)>> \o target \o Said("a", "x") : target \in { << >>, About("TagTrackUID", "1") }}

\* Two Tags in one or two of the Segment's Tags elements; Targets named last; and a
\* name and value said after what is nested.
MCTagDocs ==
     {<<At(0, "Segment", Master), At(1, "Tags", Master)>> \o t \o u : t \in Tag, u \in FewTags}
  \cup {<<At(0, "Segment", Master), At(1, "Tags", Master)>> \o t
          \o <<At(1, "Info", Master), At(2, "TagName", "a"), At(1, "Tags", Master)>> \o u :
          t, u \in {<<At(2, "Tag", Master)>> \o what : what \in {Said("a", "x"), Valueless("a") \o Within("a", "y")}}}
  \cup {<<At(0, "Segment", Master), At(1, "Tags", Master), At(2, "Tag", Master)>> \o what
          \o About("TagTrackUID", "1") : what \in Saying}
  \cup {<<At(0, "Segment", Master), At(1, "Tags", Master), At(2, "Tag", Master),
          At(3, "SimpleTag", Master)>> \o Within("a", "y")
          \o <<At(4, "TagName", "a"), At(4, "TagString", "x")>>}

TagsSpec == TagsInit /\ [][TagsNext]_tagsVars

=============================================================================
