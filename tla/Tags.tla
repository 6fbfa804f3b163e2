-------------------------------- MODULE Tags --------------------------------
(***************************************************************************)
(* ext/tags/tags.go, and the navigation of tree/element.go it is built on:    *)
(* tags are read out of a retained tree that a producer goes on filling.      *)
(* An assembler links an element into the tree when its header is read       *)
(* (ext/fragment/assembler.go, leafHeader and master) and gives it its        *)
(* payload when that has arrived, so that a tree may be looked at with the     *)
(* payload of its last element outstanding.                                 *)
(***************************************************************************)
EXTENDS Naturals, Sequences, SequencesExt, FiniteSets, FiniteSetsExt, TLC

CONSTANTS
  TagDocs   \* the elements of a Segment in stream order: [depth, id, value]

\* What stands for a payload besides the text itself.
Master == "master"     \* there is none
Elided == "elided"     \* over the retention cap
TooLong == "too long"  \* no integer is that wide
NilElement == 0        \* no element

TargetField == {"TargetTypeValue", "TagTrackUID", "TagEditionUID", "TagChapterUID", "TagAttachmentUID"}

-----------------------------------------------------------------------------
(* A tree t is its elements in stream order, the root the first; an element is  *)
(* its number.  Every operation is safe on NilElement.                              *)

ID(t, e) == t[e].id

Parent(t, e) ==
  IF e \in {NilElement, 1} THEN NilElement
  ELSE Max({p \in 1..(e - 1) : t[p].depth = t[e].depth - 1})

Children(t, e) == SelectSeq([i \in 1..Len(t) |-> i], LAMBDA i : e # NilElement /\ Parent(t, i) = e)

ChildrenByID(t, e, id) == SelectSeq(Children(t, e), LAMBDA c : ID(t, c) = id)

FirstChild(t, e, id) ==
  IF ChildrenByID(t, e, id) = << >> THEN NilElement ELSE Head(ChildrenByID(t, e, id))

Find(t, e, path) == FoldLeft(LAMBDA at, id : FirstChild(t, at, id), e, path)

FindAll(t, e, path) ==
  LET step(level, id) == FlattenSeq([i \in DOMAIN level |-> ChildrenByID(t, level[i], id)])
  IN FoldLeft(step, IF e = NilElement THEN << >> ELSE <<e>>, path)

\* Outermost first.
Ancestors(t, e) ==
  LET above[n \in 1..Len(t)] ==
        IF Parent(t, n) = NilElement THEN << >> ELSE Append(above[Parent(t, n)], Parent(t, n))
  IN above[e]

\* Mutant: the levels of the tree one after the other.
WalkLevels(t, e, stops) ==
  LET under == SelectSeq([i \in 1..Len(t) |-> i], LAMBDA n : n = e \/ e \in ToSet(Ancestors(t, n)))
      level(k) == SelectSeq(under, LAMBDA n : t[n].depth = t[e].depth + k)
  IN [visited |-> FlattenSeq([k \in 1..Len(t) |-> level(k - 1)]), goes |-> TRUE]

\* walk: e, then its children in order, until one is met where the callback says no.
Walk(t, e, stops) ==
  LET then(so, more) == [visited |-> so.visited \o more.visited, goes |-> more.goes]
      under[n \in 1..Len(t)] ==
        LET visit(so, child) == IF so.goes THEN then(so, under[child]) ELSE so
        IN IF n \notin stops THEN FoldLeft(visit, [visited |-> <<n>>, goes |-> TRUE], Children(t, n))
           ELSE [visited |-> <<n>>, goes |-> FALSE]
  IN under[e]

Descendants(t, e, id) ==
  IF e = NilElement THEN << >>
  ELSE SelectSeq(Walk(t, e, {}).visited, LAMBDA n : n # e /\ ID(t, n) = id)

Root(t, e) == IF Ancestors(t, e) = << >> THEN e ELSE Head(Ancestors(t, e))

Depth(t, e) == Len(Ancestors(t, e))

\* The place among the parent's children, from 0.
Index(t, e) ==
  IF Parent(t, e) = NilElement THEN -1 ELSE SelectInSeq(Children(t, Parent(t, e)), LAMBDA c : c = e) - 1

Path(t, e) == LET line == Append(Ancestors(t, e), e) IN [i \in DOMAIN line |-> ID(t, line[i])]

\* The nearest element around e with the ID.
Ancestor(t, e, id) ==
  LET with == {a \in ToSet(Ancestors(t, e)) : ID(t, a) = id}
  IN IF with = {} THEN NilElement ELSE Max(with)

\* AsString
TextOf(t, e) == IF e = NilElement THEN "" ELSE IF t[e].value \in {Elided, Master} THEN "" ELSE t[e].value

\* uintValue: AsUint, and 0 for what is no integer.
UintValue(t, e) ==
  IF e = NilElement THEN "0" ELSE IF t[e].value \in {Elided, TooLong, Master, ""} THEN "0" ELSE t[e].value

-----------------------------------------------------------------------------
(* The view                                                                *)

DecodeTarget(t, e) == [field \in TargetField |-> UintValue(t, Find(t, e, <<field>>))]

NoTags == [values |-> << >>, targets |-> << >>]

Key(target, name) == <<target, name>>

ValuesFor(view, key) == IF key \in DOMAIN view.values THEN view.values[key] ELSE << >>

\* One SimpleTag of a Tag with what the tree says of it.
Add(view, target, name, value) ==
  [values |-> (Key(target, name) :> Append(ValuesFor(view, Key(target, name)), value)) @@ view.values,
   targets |-> IF target \in ToSet(view.targets) THEN view.targets ELSE Append(view.targets, target)]

\* Mutant: a SimpleTag without a TagString states the empty string.
ContributeAlways(t, view, tag, simple) ==
  LET name == TextOf(t, Find(t, simple, <<"TagName">>))
  IN IF name = "" THEN view
     ELSE Add(view, DecodeTarget(t, Find(t, tag, <<"Targets">>)), name,
              TextOf(t, Find(t, simple, <<"TagString">>)))

\* A SimpleTag without a name, or without a TagString, states nothing; one with an
\* empty TagString states the empty string.
Contribute(t, view, tag, simple) ==
  LET name == TextOf(t, Find(t, simple, <<"TagName">>))
      value == Find(t, simple, <<"TagString">>)
  IN IF name = "" \/ value = NilElement THEN view
     ELSE Add(view, DecodeTarget(t, Find(t, tag, <<"Targets">>)), name, TextOf(t, value))

\* read
ReadTags(t, roots) ==
  LET simples(view, tag) ==
        FoldLeft(LAMBDA v, simple : Contribute(t, v, tag, simple), view, Descendants(t, tag, "SimpleTag"))
      under(view, root) == FoldLeft(simples, view, Descendants(t, root, "Tag"))
  IN FoldLeft(under, NoTags, roots)

\* ReadFrom, over the Tags elements a producer retained.
ReadFrom(t) == ReadTags(t, ChildrenByID(t, 1, "Tags"))

Get(view, target, name) ==
  LET values == ValuesFor(view, Key(target, name))
  IN IF values = << >> THEN [value |-> "", ok |-> FALSE] ELSE [value |-> Last(values), ok |-> TRUE]

\* Every name of a target with its last value.
All(view, target) ==
  [name \in {key[2] : key \in {k \in DOMAIN view.values : k[1] = target}} |->
     Last(view.values[Key(target, name)])]

-----------------------------------------------------------------------------
(* The producer                                                            *)

\* The view of the whole Segment.
View(t) == ReadTags(t, <<1>>)

VARIABLES
  tagDoc,    \* the Segment (fixed)
  tree,      \* what of it is linked into the tree
  waiting,   \* the payload of the last element there has not arrived
  settled    \* History: the view when last no payload was outstanding

tagsVars == <<tagDoc, tree, waiting, settled>>

TagsInit ==
  /\ tagDoc \in TagDocs
  /\ tree = <<Head(tagDoc)>> /\ waiting = FALSE /\ settled = NoTags

\* A header is read: its element joins the tree, without its payload.  One over the cap
\* is declined, and an empty one is there at once.
Attach ==
  /\ ~waiting /\ Len(tree) < Len(tagDoc)
  /\ LET el == tagDoc[Len(tree) + 1]
         there == el.value \in {Master, Elided, ""}
         t == Append(tree, IF there THEN el ELSE [el EXCEPT !.value = ""])
     IN /\ tree' = t /\ waiting' = ~there
        /\ settled' = IF there THEN View(t) ELSE settled
  /\ UNCHANGED tagDoc

PayloadArrives ==
  /\ waiting /\ waiting' = FALSE
  /\ LET t == SubSeq(tagDoc, 1, Len(tree))
     IN tree' = t /\ settled' = View(t)
  /\ UNCHANGED tagDoc

TagsNext == Attach \/ PayloadArrives

-----------------------------------------------------------------------------

Linked == DOMAIN tree

\* The variables have their types.
TagsTypeOK ==
  /\ tagDoc \in TagDocs /\ waiting \in BOOLEAN
  /\ LET shown == IF waiting THEN Front(tree) ELSE tree IN IsPrefix(shown, tagDoc)

\* The IDs from below e down to d.
Below(e, d) == SubSeq(Path(tree, d), Depth(tree, e) + 2, Depth(tree, d) + 1)

\* Strict and loose access, downwards and upwards, compose (element.go:438): the
\* descendants of an element that stand at a path are what FindAll finds at it, in
\* stream order; Find, which takes the first branch at every level and never turns back,
\* finds the first of them or nothing; Path and Index lead back; a Walk visits in stream
\* order and stops where it was told.
NavigationAgrees ==
  \A d \in Linked :
    /\ Root(tree, d) = 1 /\ Len(Path(tree, d)) = Depth(tree, d) + 1
    /\ Parent(tree, d) # NilElement => Children(tree, Parent(tree, d))[Index(tree, d) + 1] = d
    /\ \A id \in {ID(tree, e) : e \in Linked} :
         LET near == SelectLastInSeq(Ancestors(tree, d), LAMBDA a : ID(tree, a) = id)
         IN Ancestor(tree, d, id) = IF near = 0 THEN NilElement ELSE Ancestors(tree, d)[near]
    /\ Walk(tree, 1, {d}) = [visited |-> [i \in 1..d |-> i], goes |-> FALSE]
    /\ \A e \in ToSet(Ancestors(tree, d)) :
         LET path == Below(e, d)
             there == SelectSeq(Descendants(tree, e, ID(tree, d)), LAMBDA x : Below(e, x) = path)
             first == Find(tree, e, path)
         IN /\ FindAll(tree, e, path) = there
            /\ first = Head(there) \/ (first = NilElement /\ Len(path) > 1)

\* The SimpleTags that state a value for the name under the target.
Stating(target, name) ==
  {s \in Linked :
     /\ ID(tree, s) = "SimpleTag" /\ Ancestor(tree, s, "Tag") # NilElement
     /\ DecodeTarget(tree, Find(tree, Ancestor(tree, s, "Tag"), <<"Targets">>)) = target
     /\ name # "" /\ TextOf(tree, Find(tree, s, <<"TagName">>)) = name
     /\ \E c \in Linked : Parent(tree, c) = s /\ ID(tree, c) = "TagString"}

\* The view is what the tree states (tags.go:38): for each target and name the
\* TagStrings of the SimpleTags, nested ones too, in stream order, none twice; the
\* targets in the order first named; and reading the Segment or its Tags is the same.
ViewIsStated ==
  LET view == View(tree)
      nameOf(s) == TextOf(tree, Find(tree, s, <<"TagName">>))
      targetOf(s) == DecodeTarget(tree, Find(tree, Ancestor(tree, s, "Tag"), <<"Targets">>))
      simple == {s \in Linked : ID(tree, s) = "SimpleTag"}
      stating == {s \in simple : s \in Stating(targetOf(s), nameOf(s))}
      first(t) == Min({s \in stating : targetOf(s) = t})
  IN /\ view = ReadFrom(tree)
     /\ DOMAIN view.values = {Key(targetOf(s), nameOf(s)) : s \in stating}
     /\ \A key \in DOMAIN view.values :
          LET line == SetToSortSeq(Stating(key[1], key[2]), <)
          IN /\ view.values[key] =
                  [i \in DOMAIN line |-> TextOf(tree, Find(tree, line[i], <<"TagString">>))]
             /\ Get(view, key[1], key[2]) = [value |-> All(view, key[1])[key[2]], ok |-> TRUE]
     /\ view.targets = SetToSortSeq({targetOf(s) : s \in stating}, LAMBDA t, u : first(t) < first(u))

\* A view is coherent, and its navigation (tags.go:38, element.go:438).
TagsInv == TagsTypeOK /\ NavigationAgrees /\ ViewIsStated

\* What a Tag is about comes before what it says, and a SimpleTag's own name and
\* value before those nested in it.
InUsualOrder ==
  \A i, j \in DOMAIN tagDoc :
    i < j /\ tagDoc[i].id = "SimpleTag" =>
      \/ tagDoc[j].id \in {"Tag", "Tags", "SimpleTag"}
      \/ tagDoc[j].depth = tagDoc[i].depth + 1 /\ tagDoc[j].id \in {"TagName", "TagString"}
         /\ \A k \in (i + 1)..(j - 1) : tagDoc[k].id # "SimpleTag"
      \/ \E k \in (i + 1)..(j - 1) : tagDoc[k].id \in {"Tag", "SimpleTag"}

\* In a Segment written in that order, a value once stated stays: as the tree grows
\* the values of a target and name, and the targets, are only added to at their ends
\* (tags.go:74, RFC 9559 tags are cumulative), every payload that was begun arrived.
StatedStays ==
  [][settled' # settled /\ ~waiting' /\ InUsualOrder =>
       /\ IsPrefix(settled.targets, settled'.targets)
       /\ \A key \in DOMAIN settled.values : IsPrefix(settled.values[key], ValuesFor(settled', key))]_tagsVars

\* What the doc comment of Set says (tags.go:46): a TagString that is not empty is never
\* reported as the empty string, which would erase a value stated before it.
\* The model refutes it (README, section 7).
ValuesAreNotErased ==
  \A key \in DOMAIN settled.values :
    LET before == Get(settled, key[1], key[2]).value
        now == Get(View(tree), key[1], key[2]).value
    IN before # "" /\ now = "" =>
         \E c \in Linked : ID(tree, c) = "TagString" /\ tagDoc[c].value \in {"", Elided}

=============================================================================
