---------------------------- MODULE Scope_proofs ----------------------------
(***************************************************************************)
(* The scope tracker, whatever nodes of whatever document it is shown: its  *)
(* stack and its scope agree, they are what the nodes shown make of them,    *)
(* and nothing it holds open ends after what it reports next.  The second    *)
(* rests on the trees that the nodes seen so far nest into, the third on     *)
(* where the cursor stands, step by step, to what it has reported.           *)
(***************************************************************************)
EXTENDS Scope, Cursor_proofs, FiniteSetTheorems

-----------------------------------------------------------------------------
(* The scope tracker, for whatever nodes its caller shows it.               *)

\* Elements nest, and have no set of all their values.
IsElementOf(el) ==
  el = [id |-> el.id, offset |-> el.offset, children |-> el.children]

IsScope(sc) ==
  /\ sc = [start |-> sc.start, end |-> sc.end, children |-> sc.children]
  /\ sc.start \in Nat

\* A stack of open masters, each deeper than those below it, and the scope that its
\* lowest one is followed in.
Agree(st, sc) ==
  /\ IsSequence(st)
  /\ \A i \in 1..Len(st) : /\ st[i] = [element |-> st[i].element, depth |-> st[i].depth]
                           /\ st[i].depth \in Nat /\ IsElementOf(st[i].element)
                           /\ \A j \in 1..(i - 1) : st[j].depth < st[i].depth
  /\ IF Len(st) = 0 THEN sc = NoScope
     ELSE /\ IsScope(sc)
          /\ st[1].element.id = Tracked
          /\ st[1].element.offset = sc.start
          /\ st[1].element.children = sc.children

TrackerInv ==
  /\ CursorInv
  /\ held # "none" => events # << >>
  /\ Agree(stack, current)
  /\ seen \subseteq DOMAIN events

\* A scope begins somewhere.
LEMMA ScopeIsSome == ASSUME NEW sc, IsScope(sc) PROVE sc # NoScope
  BY DEF IsScope, NoScope

LEMMA ElementsOfSequence ==
  ASSUME NEW s, IsSequence(s)
  PROVE  Len(s) \in Nat /\ DOMAIN s = 1..Len(s) /\ (Len(s) = 0 <=> s = << >>)
  BY EmptySeq, LenProperties DEF IsSequence

\* The masters that enclose a node are the lowest of the stack.
LEMMA EnclosingAreLowest ==
  ASSUME NEW st, NEW sc, Agree(st, sc), NEW d \in Nat
  PROVE  /\ Enclosing(st, d) \in 0..Len(st)
         /\ \A i \in 1..Len(st) : st[i].depth < d <=> i <= Enclosing(st, d)
  <1>1. Len(st) \in Nat /\ DOMAIN st = 1..Len(st)
    BY ElementsOfSequence DEF Agree
  <1> DEFINE In  == {i \in 1..Len(st) : st[i].depth < d}
             Out == (1..Len(st)) \ In
  <1>2. \E k \in 0..Len(st) : In = 1..k
    <2>1. CASE Out = {}
      <3>1. In = 1..Len(st)
        BY <2>1
      <3> QED BY <1>1, <3>1
    <2>2. CASE Out # {}
      <3>1. Out \in SUBSET Nat
        BY <1>1
      <3>2. PICK x \in Out : \A y \in Out : x <= y
        BY <2>2, <3>1, LeastOf
      <3>3. x \in 1..Len(st) /\ ~(st[x].depth < d)
        BY <3>2
      <3>4. ASSUME NEW i \in 1..Len(st)
            PROVE  i \in In <=> i < x
        <4>1. CASE i < x
          <5>1. i \notin Out
            BY <1>1, <3>2, <3>3, <4>1
          <5> QED BY <4>1, <5>1
        <4>2. CASE i = x
          BY <1>1, <3>3, <4>2
        <4>3. CASE i > x
          <5>1. st[x].depth < st[i].depth /\ st[x].depth \in Nat /\ st[i].depth \in Nat
            BY <1>1, <3>3, <4>3 DEF Agree
          <5> QED BY <1>1, <3>3, <4>3, <5>1
        <4> QED BY <1>1, <3>3, <4>1, <4>2, <4>3
      <3>5. In = 1..(x - 1) /\ x - 1 \in 0..Len(st)
        BY <1>1, <3>3, <3>4
      <3> QED BY <3>5
    <2> QED BY <2>1, <2>2
  <1>3. PICK k \in 0..Len(st) : In = 1..k
    BY <1>2
  <1>4. k \in Nat /\ k <= Len(st)
    BY <1>1, <1>3
  <1>5. Cardinality(1..k) = k
    BY <1>4, FS_Interval
  <1>6. Enclosing(st, d) = k
    BY <1>1, <1>3, <1>5 DEF Enclosing
  <1>7. \A i \in 1..Len(st) : i \in In <=> i <= k
    BY <1>1, <1>3, <1>4
  <1> QED BY <1>3, <1>6, <1>7

\* The lowest masters of a stack, the tracked one with them, are still in its scope.
LEMMA LowestAgree ==
  ASSUME NEW st, NEW sc, Agree(st, sc), NEW k \in 1..Len(st)
  PROVE  /\ Agree(SubSeq(st, 1, k), sc)
         /\ Len(SubSeq(st, 1, k)) = k
         /\ \A i \in 1..k : SubSeq(st, 1, k)[i] = st[i]
  <1>1. Len(st) \in Nat /\ DOMAIN st = 1..Len(st) /\ st \in Seq(Range(st))
    BY ElementsOfSequence DEF Agree, IsSequence
  <1> DEFINE low == SubSeq(st, 1, k)
  <1>2. /\ low \in Seq(Range(st)) /\ Len(low) = k
        /\ \A i \in 1..k : low[i] = st[i]
    BY <1>1, SubSeqProperties
  <1>3. IsSequence(low)
    BY <1>2, SeqOfRange DEF IsSequence
  <1> HIDE DEF low
  <1>4. Agree(low, sc)
    BY <1>1, <1>2, <1>3 DEF Agree
  <1> QED BY <1>2, <1>4 DEF low

\* The innermost master gains a child, and the scope does if that master is its own.
Grows(st, new, child) == new = [st EXCEPT ![Len(st)].element = AppendChild(@, child)]

ScopeGrows(st, sc, grown, child) ==
  /\ Len(st) = 1 => grown = [sc EXCEPT !.children = Append(@, child)]
  /\ Len(st) # 1 => grown = sc

\* An element that gains a child, and keeps the rest.
LEMMA ElementWithChild ==
  ASSUME NEW id, NEW offset, NEW children, NEW child
  PROVE  AppendChild([id |-> id, offset |-> offset, children |-> children], child) =
           [id |-> id, offset |-> offset, children |-> Append(children, child)]
  BY DEF AppendChild

\* A child that the innermost master gains is one of the scope's exactly if that
\* master is the tracked one.
LEMMA GrownAgree ==
  ASSUME NEW st, NEW sc, Agree(st, sc), Len(st) # 0, NEW child,
         NEW new, Grows(st, new, child), NEW grown, ScopeGrows(st, sc, grown, child)
  PROVE  /\ Agree(new, grown) /\ Len(new) = Len(st)
         /\ \A i \in 1..Len(st) : new[i].depth = st[i].depth
  <1> DEFINE n == Len(st)
  <1>1. n \in Nat \ {0} /\ DOMAIN st = 1..n
    BY ElementsOfSequence DEF Agree
  <1>2. /\ new = [st EXCEPT ![n] = [st[n] EXCEPT !.element = AppendChild(@, child)]]
        /\ DOMAIN new = 1..n
        /\ \A i \in 1..n : i # n => new[i] = st[i]
        /\ new[n] = [st[n] EXCEPT !.element = AppendChild(@, child)]
    BY <1>1 DEF Grows
  <1>3. st[n] = [element |-> st[n].element, depth |-> st[n].depth] /\ IsElementOf(st[n].element)
    BY <1>1 DEF Agree
  <1>4. new[n] = [element |-> AppendChild(st[n].element, child), depth |-> st[n].depth]
    BY <1>2, <1>3
  <1>5. AppendChild(st[n].element, child) =
          [id |-> st[n].element.id, offset |-> st[n].element.offset,
           children |-> Append(st[n].element.children, child)]
    BY <1>3, ElementWithChild DEF IsElementOf
  <1>6. new \in [1..n -> Range(new)]
    BY <1>2 DEF Range
  <1>7. IsSequence(new) /\ Len(new) = n
    BY <1>1, <1>6 DEF IsSequence
  <1>8. \A i \in 1..n : new[i].depth = st[i].depth
    BY <1>2, <1>4
  <1>9. ASSUME NEW i \in 1..n
        PROVE  /\ new[i] = [element |-> new[i].element, depth |-> new[i].depth]
               /\ new[i].depth \in Nat /\ IsElementOf(new[i].element)
               /\ \A j \in 1..(i - 1) : new[j].depth < new[i].depth
    <2>1. /\ st[i] = [element |-> st[i].element, depth |-> st[i].depth]
          /\ st[i].depth \in Nat /\ IsElementOf(st[i].element)
          /\ \A j \in 1..(i - 1) : st[j].depth < st[i].depth
      BY DEF Agree
    <2>2. \A j \in 1..(i - 1) : j \in 1..n
      BY <1>1
    <2>3. CASE i = n
      BY <1>4, <1>5, <1>8, <2>1, <2>2, <2>3 DEF IsElementOf
    <2>4. CASE i # n
      BY <1>2, <1>8, <2>1, <2>2, <2>4
    <2> QED BY <2>3, <2>4
  <1>10. /\ IsScope(grown)
         /\ new[1].element.id = Tracked
         /\ new[1].element.offset = grown.start
         /\ new[1].element.children = grown.children
    <2>1. /\ IsScope(sc) /\ st[1].element.id = Tracked
          /\ st[1].element.offset = sc.start /\ st[1].element.children = sc.children
      BY <1>1 DEF Agree
    <2>2. CASE n = 1
      <3>1. grown = [start |-> sc.start, end |-> sc.end, children |-> Append(sc.children, child)]
        BY <2>1, <2>2 DEF IsScope, ScopeGrows
      <3> QED BY <1>4, <1>5, <2>1, <2>2, <3>1 DEF IsScope
    <2>3. CASE n # 1
      BY <1>1, <1>2, <2>1, <2>3 DEF ScopeGrows
    <2> QED BY <2>2, <2>3
  <1>11. Agree(new, grown)
    BY <1>1, <1>7, <1>9, <1>10 DEF Agree
  <1> QED BY <1>7, <1>8, <1>11

\* What a node at depth d closes is gone, and what it leaves open still agrees: the
\* masters that enclose the node.
LEMMA UnwoundAgree ==
  ASSUME Agree(stack, current), NEW d \in Nat, NEW end
  PROVE  LET u == Unwound(d, end)
         IN /\ Agree(u.stack, u.scope)
            /\ \A i \in 1..Len(u.stack) : u.stack[i].depth < d
  <1> DEFINE k == Enclosing(stack, d)
             n == Len(stack)
  <1>1. /\ n \in Nat /\ (n = 0 <=> stack = << >>) /\ k \in 0..n
        /\ \A i \in 1..n : stack[i].depth < d <=> i <= k
    BY ElementsOfSequence, EnclosingAreLowest DEF Agree
  <1>2. Opened <=> n # 0
    BY ScopeIsSome DEF Agree, Opened
  <1>3. Agree(<< >>, NoScope) /\ Len(<< >>) = 0
    BY EmptySeq DEF Agree, IsSequence, Range
  <1>4. CASE Opened /\ k = 0
    BY <1>3, <1>4 DEF Unwound
  <1>5. CASE ~Opened
    <2>1. n = 0 /\ k = 0 /\ stack = << >> /\ current = NoScope
      BY <1>1, <1>2, <1>5 DEF Opened
    <2>2. UnwoundStack(stack, d) = << >> /\ UnwoundScope(stack, current, d) = NoScope
      BY <2>1 DEF UnwoundStack, UnwoundScope
    <2> QED BY <1>3, <1>5, <2>2 DEF Unwound
  <1>6. CASE Opened /\ k # 0
    <2> DEFINE low   == SubSeq(stack, 1, k)
               child == Closing(stack)[k + 1]
    <2>1. /\ Unwound(d, end).stack = UnwoundStack(stack, d)
          /\ Unwound(d, end).scope = UnwoundScope(stack, current, d)
      BY <1>6 DEF Unwound
    <2>2. k \in 1..n
      BY <1>1, <1>6
    <2>3. Agree(low, current) /\ Len(low) = k /\ \A i \in 1..k : low[i].depth < d
      BY <1>1, <2>2, LowestAgree
    <2>4. CASE k = n
      <3>1. UnwoundStack(stack, d) = low /\ UnwoundScope(stack, current, d) = current
        BY <1>1, <2>2, <2>4 DEF UnwoundStack, UnwoundScope
      <3> QED BY <2>1, <2>3, <3>1
    <2>5. CASE k # n
      <3> DEFINE new   == [low EXCEPT ![Len(low)].element = AppendChild(@, child)]
                 grown == UnwoundScope(stack, current, d)
      <3>1. UnwoundStack(stack, d) = new
        BY <1>6, <2>3, <2>5 DEF UnwoundStack
      <3>2. /\ k = 1 => grown = [current EXCEPT !.children = Append(@, child)]
            /\ k # 1 => grown = current
        BY <1>1, <2>2, <2>5 DEF UnwoundScope
      <3> HIDE DEF low, grown, child, k, n
      <3>3. Len(low) # 0 /\ Agree(low, current) /\ ScopeGrows(low, current, grown, child)
        BY <1>6, <2>3, <3>2 DEF ScopeGrows
      <3> HIDE DEF new
      <3>4. /\ Agree(new, grown) /\ Len(new) = Len(low)
            /\ \A i \in 1..Len(low) : new[i].depth = low[i].depth
        <4>1. Grows(low, new, child)
          BY DEF new, Grows
        <4> QED BY <3>3, <4>1, GrownAgree
      <3>5. \A i \in 1..Len(new) : new[i].depth < d
        BY <2>3, <3>4
      <3> QED BY <2>1, <3>1, <3>4, <3>5 DEF grown
    <2> QED BY <2>4, <2>5
  <1> QED BY <1>4, <1>5, <1>6

\* What a caller holds was reported: there is a last event.
LEMMA CursorReports ==
  ASSUME CursorInv, [Next]_vars, held # "none" => events # << >>
  PROVE  /\ held' # "none" => events' # << >>
         /\ DOMAIN events \subseteq DOMAIN events'
  <1>1. events \in Seq(Event) /\ Len(events) \in Nat /\ DOMAIN events = 1..Len(events)
    BY LenProperties DEF CursorInv, TypeOK
  <1>2. CursorInv'
    BY NextInv
  <1>3. events' \in Seq(Event)
    BY <1>2 DEF CursorInv, TypeOK
  <1>4. \/ events' = events /\ held' \in {held, "none"}
        \/ \E e : events' = Append(events, e)
    BY DEF Next, Consume, CursorNext, Descend, SkipSubtree, SkipLeaf, Payload, FeedChunk,
           FeedAfterFinalize, Finalize, NextAgain, NextResolveBlocked, NextResolveFails,
           NextDequeue, DequeueClose, IssueEnd, NextNeedsMore, NextRunsEOF, NextEOF, NextEnd,
           AdvanceEnd, NextHeader, AdvanceHeader, NextMalformed, Fail, vars
  <1>5. CASE \E e : events' = Append(events, e)
    <2>1. PICK e : events' = Append(events, e)
      BY <1>5
    <2>2. IsSequence(events)
      BY <1>1, SeqOfRange DEF IsSequence
    <2>3. Len(events') = Len(events) + 1
      BY <2>1, <2>2, AppendToSequence
    <2>4. DOMAIN events' = 1..(Len(events) + 1)
      BY <1>3, <2>3, LenProperties
    <2> QED BY <1>1, <1>3, <2>3, <2>4, EmptySeq
  <1> QED BY <1>4, <1>5

\* The node that is observed.
LEMMA NodeHeld ==
  ASSUME TrackerInv, held # "none"
  PROVE  Node \in Event /\ Node.depth \in Nat /\ Node.offset \in Nat /\ Len(events) \in DOMAIN events
  <1>1. events \in Seq(Event) /\ events # << >>
    BY DEF TrackerInv, CursorInv, TypeOK
  <1>2. Len(events) \in DOMAIN events
    BY <1>1, LenProperties, EmptySeq
  <1>3. Node \in Event
    BY <1>1, <1>2 DEF Node, Top
  <1> QED BY <1>2, <1>3 DEF Event

\* The cursor moves and the tracker does not.
LEMMA UnobservedStep ==
  ASSUME TrackerInv, [Next]_vars, UNCHANGED tracker
  PROVE  TrackerInv'
  BY CursorReports, NextInv DEF TrackerInv, tracker, Agree

LEMMA ObserveMasterStep == ASSUME TrackerInv, ObserveMaster PROVE TrackerInv'
  <1> DEFINE u     == Unwound(Node.depth, Node.offset)
             opens == [element |-> FromNode(Node), depth |-> Node.depth]
  <1>1. Node.depth \in Nat /\ Node.offset \in Nat /\ Len(events) \in DOMAIN events
    BY NodeHeld DEF ObserveMaster
  <1>2. Agree(u.stack, u.scope) /\ \A i \in 1..Len(u.stack) : u.stack[i].depth < Node.depth
    BY <1>1, UnwoundAgree DEF TrackerInv
  <1>3. UNCHANGED vars /\ seen' = seen \cup {Len(events)}
    BY DEF ObserveMaster, Seeing
  <1>4. /\ opens = [element |-> opens.element, depth |-> opens.depth]
        /\ opens.depth = Node.depth /\ IsElementOf(opens.element)
        /\ opens.element.id = Node.id /\ opens.element.offset = Node.offset
        /\ opens.element.children = << >>
    BY DEF FromNode, IsElementOf
  <1>5. \/ u.scope # NoScope /\ stack' = Append(u.stack, opens) /\ current' = u.scope
        \/ Node.id = Tracked /\ stack' = <<opens>> /\ current' = NewScope(Node)
        \/ stack' = << >> /\ current' = NoScope
    BY DEF ObserveMaster
  <1> HIDE DEF u, opens
  <1>6. Agree(stack', current')
    <2>1. CASE u.scope # NoScope /\ stack' = Append(u.stack, opens) /\ current' = u.scope
      <3>1. /\ IsSequence(stack') /\ Len(stack') = Len(u.stack) + 1 /\ Len(u.stack) \in Nat
            /\ \A i \in 1..Len(u.stack) : stack'[i] = u.stack[i]
            /\ stack'[Len(u.stack) + 1] = opens
        BY <1>2, <2>1, AppendToSequence, ElementsOfSequence DEF Agree
      <3>2. Len(u.stack) # 0
        BY <1>2, <2>1 DEF Agree
      <3>3. ASSUME NEW i \in 1..Len(stack')
            PROVE  /\ stack'[i] = [element |-> stack'[i].element, depth |-> stack'[i].depth]
                   /\ stack'[i].depth \in Nat /\ IsElementOf(stack'[i].element)
                   /\ \A j \in 1..(i - 1) : stack'[j].depth < stack'[i].depth
        <4>1. CASE i = Len(u.stack) + 1
          BY <1>1, <1>2, <1>4, <3>1, <4>1
        <4>2. CASE i # Len(u.stack) + 1
          <5>1. i \in 1..Len(u.stack) /\ \A j \in 1..(i - 1) : j \in 1..Len(u.stack)
            BY <3>1, <4>2
          <5> QED BY <1>2, <3>1, <5>1 DEF Agree
        <4> QED BY <4>1, <4>2
      <3>4. stack'[1] = u.stack[1]
        BY <3>1, <3>2
      <3>5. /\ IsScope(current') /\ stack'[1].element.id = Tracked
            /\ stack'[1].element.offset = current'.start
            /\ stack'[1].element.children = current'.children
        BY <1>2, <2>1, <3>2, <3>4 DEF Agree
      <3>6. Len(stack') # 0
        BY <3>1
      <3> QED BY <3>1, <3>3, <3>5, <3>6 DEF Agree
    <2>2. CASE Node.id = Tracked /\ stack' = <<opens>> /\ current' = NewScope(Node)
      <3>1. opens \in Range(<<opens>>)
        BY DEF Range
      <3>2. <<opens>> \in Seq(Range(<<opens>>)) /\ Len(<<opens>>) = 1
        BY <3>1
      <3>3. IsSequence(stack') /\ Len(stack') = 1 /\ stack'[1] = opens
        BY <2>2, <3>2 DEF IsSequence
      <3>4. current' = [start |-> Node.offset, end |-> -1, children |-> << >>]
        BY <2>2 DEF NewScope
      <3> QED BY <1>1, <1>4, <2>2, <3>3, <3>4 DEF Agree, IsScope
    <2>3. CASE stack' = << >> /\ current' = NoScope
      BY <2>3, EmptySeq DEF Agree, IsSequence, Range
    <2> QED BY <1>5, <2>1, <2>2, <2>3
  <1>7. UNCHANGED <<events, held>> /\ CursorInv'
    BY <1>3, NextInv DEF TrackerInv, vars
  <1> QED BY <1>1, <1>3, <1>6, <1>7 DEF TrackerInv

LEMMA ObserveLeafStep == ASSUME TrackerInv, ObserveLeaf PROVE TrackerInv'
  <1> DEFINE u   == Unwound(Node.depth, Node.offset)
             new == [u.stack EXCEPT ![Len(u.stack)].element = AppendChild(@, FromNode(Node))]
  <1>1. Node.depth \in Nat /\ Node.offset \in Nat /\ Len(events) \in DOMAIN events
    BY NodeHeld DEF ObserveLeaf
  <1>2. Agree(u.stack, u.scope)
    BY <1>1, UnwoundAgree DEF TrackerInv
  <1>3. Payload /\ seen' = seen \cup {Len(events)}
    BY DEF ObserveLeaf, Seeing
  <1>4. \/ u.scope = NoScope /\ stack' = << >> /\ current' = NoScope
        \/ /\ u.scope # NoScope /\ stack' = new
           /\ current' = IF Len(u.stack) = 1
                         THEN [u.scope EXCEPT !.children = Append(@, FromNode(Node))]
                         ELSE u.scope
    BY DEF ObserveLeaf
  <1> HIDE DEF u
  <1>5. Agree(stack', current')
    <2>1. CASE u.scope = NoScope /\ stack' = << >> /\ current' = NoScope
      BY <2>1, EmptySeq DEF Agree, IsSequence, Range
    <2>2. CASE u.scope # NoScope /\ stack' = new
      <3>1. Len(u.stack) # 0
        BY <1>2, <2>2 DEF Agree
      <3>2. ScopeGrows(u.stack, u.scope, current', FromNode(Node))
        BY <1>4, <2>2 DEF ScopeGrows
      <3>3. Grows(u.stack, new, FromNode(Node))
        BY DEF Grows
      <3> HIDE DEF new
      <3>4. Agree(new, current')
        BY <1>2, <3>1, <3>2, <3>3, GrownAgree
      <3> QED BY <2>2, <3>4
    <2> QED BY <1>4, <2>1, <2>2
  <1>6. Next /\ UNCHANGED <<events, held>>
    BY <1>3 DEF Next, Consume, Payload
  <1>7. CursorInv'
    BY <1>6, NextInv DEF TrackerInv
  <1> QED BY <1>1, <1>3, <1>5, <1>6, <1>7 DEF TrackerInv

\* An end, and the end of the input.
LEMMA ClosingStep ==
  ASSUME TrackerInv, ObserveEnd \/ Finish
  PROVE  TrackerInv'
  <1>1. UNCHANGED vars
    BY DEF ObserveEnd, Finish
  <1>2. \E d \in Nat : \E end : stack' = Unwound(d, end).stack /\ current' = Unwound(d, end).scope
    <2>1. CASE ObserveEnd
      BY <2>1, NodeHeld DEF ObserveEnd
    <2>2. CASE Finish
      BY <2>2 DEF Finish
    <2> QED BY <2>1, <2>2
  <1>3. Agree(stack', current')
    BY <1>2, UnwoundAgree DEF TrackerInv
  <1>4. seen' \subseteq DOMAIN events
    <2>1. CASE ObserveEnd
      BY <2>1, NodeHeld DEF ObserveEnd, Seeing, TrackerInv
    <2>2. CASE Finish
      BY <2>2 DEF Finish, TrackerInv
    <2> QED BY <2>1, <2>2
  <1>5. UNCHANGED <<events, held>> /\ CursorInv'
    BY <1>1, NextInv DEF TrackerInv, vars
  <1> QED BY <1>3, <1>4, <1>5 DEF TrackerInv

LEMMA TrackerInit == ScopeInit => TrackerInv
  <1> SUFFICES ASSUME ScopeInit PROVE TrackerInv
    OBVIOUS
  <1>1. Agree(<< >>, NoScope)
    BY EmptySeq DEF Agree, IsSequence, Range
  <1> QED BY <1>1, InitInv DEF ScopeInit, Init, TrackerInv

LEMMA TrackerNext == TrackerInv /\ [CarelessNext]_scopeVars => TrackerInv'
  <1> SUFFICES ASSUME TrackerInv, [CarelessNext]_scopeVars PROVE TrackerInv'
    OBVIOUS
  <1>1. CASE Next /\ UNCHANGED tracker
    BY <1>1, UnobservedStep
  <1>2. CASE ObserveLeafFails \/ UNCHANGED scopeVars
    BY <1>2, UnobservedStep DEF ObserveLeafFails, scopeVars, tracker
  <1> QED BY <1>1, <1>2, ObserveMasterStep, ObserveLeafStep, ClosingStep
          DEF CarelessNext, Observe

\* Whatever its caller shows it, in whatever order and however often, the tracker is in
\* a scope exactly while it has masters open, the tracked one lowest and each deeper than
\* the one it is in, and the scope's children are those of the tracked master's element
\* (ext/scope/scope.go, Observe and unwind).
THEOREM ScopeIsItsStacks == CarelessSpec => []ScopeTypeOK
  <1>1. TrackerInv => ScopeTypeOK
    <2> SUFFICES ASSUME TrackerInv PROVE ScopeTypeOK
      OBVIOUS
    <2>1. Len(stack) \in Nat /\ (Len(stack) = 0 <=> stack = << >>)
      BY ElementsOfSequence DEF TrackerInv, Agree
    <2>2. Opened <=> stack # << >>
      BY <2>1, ScopeIsSome DEF TrackerInv, Agree, Opened
    <2>3. ASSUME NEW i \in 1..(Len(stack) - 1)
          PROVE  stack[i].depth < stack[i + 1].depth
      <3>1. i + 1 \in 1..Len(stack) /\ i \in 1..((i + 1) - 1)
        BY <2>1
      <3> QED BY <3>1 DEF TrackerInv, Agree
    <2>4. Opened => /\ stack[1].element.id = Tracked
                    /\ stack[1].element.offset = current.start
                    /\ stack[1].element.children = current.children
      BY <2>1, <2>2 DEF TrackerInv, Agree
    <2> QED BY <2>2, <2>3, <2>4 DEF ScopeTypeOK, TrackerInv
  <1> QED BY <1>1, TrackerInit, TrackerNext, PTL DEF CarelessSpec

\* So it is for the caller that shows a node only with the master it stands in.
THEOREM ScopeIsOfItsMasters == ScopeSpec => []ScopeTypeOK
  <1>1. [ScopeNext]_scopeVars => [CarelessNext]_scopeVars
    BY DEF ScopeNext, CarelessNext
  <1> QED BY <1>1, ScopeIsItsStacks, PTL DEF ScopeSpec, CarelessSpec

-----------------------------------------------------------------------------
(* Sets of numbers in order.                                               *)

\* s lists the members of S from the least on.
Lists(s, S) ==
  /\ s \in Seq(S)
  /\ \A i, j \in 1..Len(s) : i < j => s[i] < s[j]
  /\ \A x \in S : \E i \in 1..Len(s) : s[i] = x

LEMMA ListsEmpty == Lists(<< >>, {})
  BY EmptySeq DEF Lists

\* Behind the others goes one that is greater.
LEMMA ListsOneMore ==
  ASSUME NEW S \in SUBSET Nat, NEW s, Lists(s, S), NEW x \in Nat, \A y \in S : y < x
  PROVE  Lists(Append(s, x), S \cup {x})
  <1> DEFINE t == Append(s, x)
  <1>1. s \in Seq(S \cup {x}) /\ Len(s) \in Nat
    BY LenProperties DEF Lists
  <1>2. /\ t \in Seq(S \cup {x}) /\ Len(t) = Len(s) + 1 /\ t[Len(s) + 1] = x
        /\ \A i \in 1..Len(s) : t[i] = s[i]
    BY <1>1, AppendProperties
  <1> HIDE DEF t
  <1>3. \A i \in 1..Len(s) : s[i] \in S
    BY <1>1, ElementOfSeq DEF Lists
  <1>4. ASSUME NEW i \in 1..Len(t), NEW j \in 1..Len(t), i < j PROVE t[i] < t[j]
    <2>1. i \in 1..Len(s)
      BY <1>1, <1>2, <1>4
    <2>2. CASE j = Len(s) + 1
      BY <1>2, <1>3, <2>1, <2>2
    <2>3. CASE j # Len(s) + 1
      <3>1. j \in 1..Len(s)
        BY <1>1, <1>2, <2>3
      <3> QED BY <1>2, <1>4, <2>1, <3>1 DEF Lists
    <2> QED BY <2>2, <2>3
  <1>5. ASSUME NEW y \in S \cup {x} PROVE \E i \in 1..Len(t) : t[i] = y
    <2>1. CASE y \in S
      <3>1. PICK i \in 1..Len(s) : s[i] = y
        BY <2>1 DEF Lists
      <3>2. i \in 1..Len(t)
        BY <1>1, <1>2
      <3> QED BY <1>2, <3>1, <3>2
    <2>2. CASE y = x
      <3>1. Len(s) + 1 \in 1..Len(t)
        BY <1>1, <1>2
      <3> QED BY <1>2, <2>2, <3>1
    <2> QED BY <2>1, <2>2
  <1>6. Lists(t, S \cup {x})
    BY <1>2, <1>4, <1>5 DEF Lists
  <1> QED BY <1>6 DEF t

\* Every set of numbers with a bound has a list.
LEMMA ListExists ==
  ASSUME NEW n \in Nat, NEW S \in SUBSET (1..n)
  PROVE  \E s : Lists(s, S)
  <1> DEFINE Low(m) == S \cap (1..m)
             T == {m \in 0..n : \E s : Lists(s, Low(m))}
  <1>1. 0 \in T
    <2>1. Low(0) = {}
      OBVIOUS
    <2> QED BY <2>1, ListsEmpty
  <1>2. ASSUME NEW m \in 1..n, m - 1 \in T PROVE m \in T
    <2>1. PICK s : Lists(s, Low(m - 1))
      BY <1>2
    <2>2. CASE m \in S
      <3>1. Low(m) = Low(m - 1) \cup {m}
        BY <2>2
      <3>2. Low(m - 1) \in SUBSET Nat /\ \A y \in Low(m - 1) : y < m
        OBVIOUS
      <3> HIDE DEF Low
      <3>3. Lists(Append(s, m), Low(m))
        BY <2>1, <3>1, <3>2, ListsOneMore
      <3> QED BY <3>3
    <2>3. CASE m \notin S
      <3>1. Low(m) = Low(m - 1)
        BY <2>3
      <3> HIDE DEF Low
      <3> QED BY <2>1, <3>1
    <2> QED BY <2>2, <2>3
  <1> HIDE DEF T
  <1>3. 0..n \subseteq T
    BY <1>1, <1>2, BoundedInduction
  <1>4. n \in T
    BY <1>3
  <1>5. Low(n) = S
    OBVIOUS
  <1> HIDE DEF Low
  <1> QED BY <1>4, <1>5 DEF T

\* A list is InOrder's.
LEMMA ListIsInOrder ==
  ASSUME NEW S \in SUBSET Nat, NEW s, Lists(s, S)
  PROVE  InOrder(S) = s
  <1> DEFINE n == Len(s)
             Upto(x) == {y \in S : y <= x}
  <1>1. n \in Nat /\ DOMAIN s = 1..n /\ s = [i \in 1..n |-> s[i]] /\ \A i \in 1..n : s[i] \in S
    BY LenProperties, ElementOfSeq DEF Lists
  <1>2. ASSUME NEW i \in 1..n, NEW j \in 1..n PROVE s[j] <= s[i] <=> j <= i
    <2>1. s[i] \in Nat /\ s[j] \in Nat
      BY <1>1
    <2>2. (i < j => s[i] < s[j]) /\ (j < i => s[j] < s[i])
      BY DEF Lists
    <2> QED BY <1>1, <2>1, <2>2
  <1>3. ASSUME NEW T, NEW k \in 0..n, T = {s[j] : j \in 1..k}
        PROVE  Cardinality(T) = k
    <2> DEFINE f == [j \in 1..k |-> s[j]]
    <2>0. \A j \in 1..k : j \in 1..n
      BY <1>1
    <2>1. f \in [1..k -> T]
      BY <1>3
    <2>2. ASSUME NEW a \in 1..k, NEW b \in 1..k, f[a] = f[b] PROVE a = b
      <3>1. s[a] = s[b] /\ s[a] \in Nat /\ a \in 1..n /\ b \in 1..n
        BY <1>1, <2>0, <2>2
      <3>2. a <= b /\ b <= a
        BY <1>2, <3>1
      <3> QED BY <3>2
    <2>3. f \in Injection(1..k, T)
      BY <2>1, <2>2, Zenon DEF Injection, IsInjective
    <2>4. \A t \in T : \E j \in 1..k : f[j] = t
      BY <1>3
    <2>5. f \in Surjection(1..k, T)
      BY <2>1, <2>4 DEF Surjection
    <2>6. ExistsBijection(1..k, T)
      BY <2>3, <2>5 DEF ExistsBijection, Bijection
    <2>7. IsFiniteSet(1..k) /\ Cardinality(1..k) = k
      BY <1>1, FS_Interval
    <2> QED BY <2>6, <2>7, FS_Bijection
  <1>4. ASSUME NEW i \in 1..n PROVE Cardinality(Upto(s[i])) = i
    <2>1. Upto(s[i]) = {s[j] : j \in 1..i}
      <3>1. ASSUME NEW y \in Upto(s[i]) PROVE y \in {s[j] : j \in 1..i}
        <4>1. PICK j \in 1..n : s[j] = y
          BY DEF Lists
        <4>2. j <= i
          BY <1>2, <4>1
        <4> QED BY <4>1, <4>2
      <3>2. ASSUME NEW j \in 1..i PROVE s[j] \in Upto(s[i])
        <4>1. j \in 1..n /\ j <= i
          BY <1>1
        <4> QED BY <1>1, <1>2, <4>1
      <3> QED BY <3>1, <3>2
    <2>2. i \in 0..n
      OBVIOUS
    <2> HIDE DEF Upto, n
    <2> QED BY <1>3, <2>1, <2>2
  <1>5. Cardinality(S) = n
    <2>1. S = {s[j] : j \in 1..n}
      BY <1>1 DEF Lists
    <2>2. n \in 0..n
      BY <1>1
    <2> HIDE DEF n
    <2> QED BY <1>3, <2>1, <2>2
  <1>6. ASSUME NEW i \in 1..n
        PROVE  (CHOOSE x \in S : Cardinality(Upto(x)) = i) = s[i]
    <2>1. s[i] \in S /\ Cardinality(Upto(s[i])) = i
      BY <1>1, <1>4
    <2>2. ASSUME NEW x \in S, Cardinality(Upto(x)) = i PROVE x = s[i]
      <3>1. PICK j \in 1..n : s[j] = x
        BY DEF Lists
      <3>2. Cardinality(Upto(s[j])) = j
        BY <1>4
      <3> HIDE DEF Upto
      <3> QED BY <2>2, <3>1, <3>2
    <2> HIDE DEF Upto
    <2> QED BY <2>1, <2>2
  <1>7. InOrder(S) = [i \in 1..n |-> CHOOSE x \in S : Cardinality(Upto(x)) = i]
    BY <1>5 DEF InOrder
  <1> HIDE DEF Upto
  <1> QED BY <1>1, <1>6, <1>7

LEMMA InOrderLists ==
  ASSUME NEW n \in Nat, NEW S \in SUBSET (1..n)
  PROVE  Lists(InOrder(S), S)
  <1>1. PICK s : Lists(s, S)
    BY ListExists
  <1>2. S \in SUBSET Nat
    OBVIOUS
  <1> QED BY <1>1, <1>2, ListIsInOrder

LEMMA InOrderOfNothing == InOrder({}) = << >>
  BY ListsEmpty, ListIsInOrder

LEMMA InOrderGrows ==
  ASSUME NEW n \in Nat, NEW S \in SUBSET (1..n), NEW x \in Nat, \A y \in S : y < x
  PROVE  InOrder(S \cup {x}) = Append(InOrder(S), x)
  <1>1. S \in SUBSET Nat /\ S \cup {x} \in SUBSET Nat
    OBVIOUS
  <1> QED BY <1>1, InOrderLists, ListsOneMore, ListIsInOrder

LEMMA SequenceIsFunction ==
  ASSUME NEW s, NEW S, s \in Seq(S) PROVE s = [i \in 1..Len(s) |-> s[i]]
  OBVIOUS

-----------------------------------------------------------------------------
(* What the nodes shown say.                                               *)

\* Every node below the top level stands in a master reported before it, and nothing
\* reported in between stands outside that master.
StandsIn(evs, j, i) ==
  /\ i \in 1..(j - 1) /\ evs[i].ev = "master" /\ evs[i].depth = evs[j].depth - 1
  /\ \A k \in (i + 1)..j : evs[k].depth >= evs[j].depth

WellNested(evs) ==
  /\ evs \in Seq(Event)
  /\ \A j \in 1..Len(evs) : evs[j].depth = 0 \/ \E i \in 1..(j - 1) : StandsIn(evs, j, i)

LEMMA EventFacts ==
  ASSUME NEW evs \in Seq(Event)
  PROVE  /\ Len(evs) \in Nat /\ DOMAIN evs = 1..Len(evs)
         /\ \A j \in 1..Len(evs) : evs[j] \in Event /\ evs[j].depth \in Nat
  <1>1. Len(evs) \in Nat /\ DOMAIN evs = 1..Len(evs)
    BY LenProperties
  <1>2. \A j \in 1..Len(evs) : evs[j] \in Event
    BY <1>1, ElementOfSeq
  <1> QED BY <1>1, <1>2 DEF Event

\* The master a node stands in is the one ParentOf finds.
LEMMA ParentFacts ==
  ASSUME NEW evs, WellNested(evs), NEW j \in 1..Len(evs)
  PROVE  \/ ParentOf(evs, j) = 0 /\ evs[j].depth = 0
         \/ StandsIn(evs, j, ParentOf(evs, j)) /\ evs[j].depth # 0
  <1> DEFINE K == {k \in 1..(j - 1) : evs[k].ev = "master" /\ evs[k].depth = evs[j].depth - 1}
  <1>1. /\ Len(evs) \in Nat
        /\ \A k \in 1..Len(evs) : evs[k].depth \in Nat
    BY EventFacts DEF WellNested
  <1>2. \A k \in 1..(j - 1) : k \in 1..Len(evs)
    BY <1>1
  <1>3. ParentOf(evs, j) = Max({0} \cup K)
    BY DEF ParentOf
  <1>4. CASE evs[j].depth = 0
    <2>1. K = {}
      BY <1>1, <1>2, <1>4
    <2> HIDE DEF K
    <2>2. Max({0}) = 0
      BY DEF Max
    <2>3. {0} \cup K = {0}
      BY <2>1
    <2> QED BY <1>3, <1>4, <2>2, <2>3
  <1>5. CASE evs[j].depth # 0
    <2>1. PICK i \in 1..(j - 1) : StandsIn(evs, j, i)
      BY <1>5 DEF WellNested
    <2>2. i \in K
      BY <2>1 DEF StandsIn
    <2>3. ASSUME NEW k \in K PROVE k <= i
      <3>1. k \in 1..(j - 1) /\ evs[k].depth = evs[j].depth - 1
        OBVIOUS
      <3>2. k > i => evs[k].depth >= evs[j].depth
        BY <2>1, <3>1 DEF StandsIn
      <3> HIDE DEF K
      <3> QED BY <1>1, <1>2, <2>1, <3>1, <3>2
    <2>4. i \in Nat /\ 0 <= i
      BY <2>1
    <2>5. \A k \in {0} \cup K : k \in Nat
      BY <2>4
    <2> HIDE DEF K
    <2>6. ASSUME NEW x \in {0} \cup K, \A y \in {0} \cup K : y <= x
          PROVE  x = i
      <3>1. i <= x /\ x <= i /\ x \in Nat
        BY <2>2, <2>3, <2>4, <2>5, <2>6
      <3> QED BY <2>4, <3>1
    <2>7. Max({0} \cup K) = i
      BY <2>2, <2>3, <2>4, <2>6 DEF Max
    <2> QED BY <1>3, <1>5, <2>1, <2>7
  <1> QED BY <1>4, <1>5

\* The elements of f at the members of S, in order.
ElementsAt(f, S) == [c \in DOMAIN InOrder(S) |-> f[InOrder(S)[c]]]

LEMMA ElementsAgree ==
  ASSUME NEW n \in Nat, NEW S \in SUBSET (1..n), NEW f, NEW g, \A x \in S : f[x] = g[x]
  PROVE  ElementsAt(f, S) = ElementsAt(g, S)
  <1>1. InOrder(S) \in Seq(S)
    BY InOrderLists DEF Lists
  <1>2. \A c \in DOMAIN InOrder(S) : InOrder(S)[c] \in S
    BY <1>1, ElementOfSeq, LenProperties
  <1> QED BY <1>2 DEF ElementsAt

LEMMA ElementsGrow ==
  ASSUME NEW n \in Nat, NEW S \in SUBSET (1..n), NEW x \in Nat, \A y \in S : y < x, NEW f
  PROVE  ElementsAt(f, S \cup {x}) = Append(ElementsAt(f, S), f[x])
  <1> DEFINE s == InOrder(S)
             t == InOrder(S \cup {x})
             es == ElementsAt(f, S)
  <1>1. s \in Seq(S) /\ Len(s) \in Nat /\ DOMAIN s = 1..Len(s)
    BY InOrderLists, LenProperties DEF Lists
  <1>2. t = Append(s, x)
    BY InOrderGrows
  <1> HIDE DEF s, t
  <1>3. /\ Len(t) = Len(s) + 1 /\ DOMAIN t = 1..(Len(s) + 1) /\ t[Len(s) + 1] = x
        /\ \A i \in 1..Len(s) : t[i] = s[i]
    <2>1. s \in Seq(S \cup {x})
      BY <1>1
    <2>2. /\ Append(s, x) \in Seq(S \cup {x}) /\ Len(Append(s, x)) = Len(s) + 1
          /\ Append(s, x)[Len(s) + 1] = x /\ \A i \in 1..Len(s) : Append(s, x)[i] = s[i]
      BY <2>1, AppendProperties
    <2> QED BY <1>1, <1>2, <2>2, LenProperties
  <1>4. es = [c \in 1..Len(s) |-> f[s[c]]]
    BY <1>1 DEF ElementsAt, s
  <1>5. IsSequence(es) /\ Len(es) = Len(s) /\ \A c \in 1..Len(s) : es[c] = f[s[c]]
    <2>1. es \in [1..Len(s) -> Range(es)]
      BY <1>4 DEF Range
    <2> HIDE DEF es
    <2>2. es \in Seq(Range(es)) /\ Len(es) = Len(s)
      BY <1>1, <2>1
    <2> QED BY <1>4, <2>2 DEF IsSequence, es
  <1> HIDE DEF es
  <1>6. /\ IsSequence(Append(es, f[x])) /\ Len(Append(es, f[x])) = Len(s) + 1
        /\ DOMAIN Append(es, f[x]) = 1..(Len(s) + 1)
        /\ \A c \in 1..Len(s) : Append(es, f[x])[c] = es[c]
        /\ Append(es, f[x])[Len(s) + 1] = f[x]
    BY <1>5, AppendToSequence
  <1> DEFINE new == Append(es, f[x])
  <1>7. new = [c \in 1..(Len(s) + 1) |-> new[c]]
    BY <1>6, SequenceIsFunction DEF IsSequence
  <1>8. ASSUME NEW c \in 1..(Len(s) + 1) PROVE new[c] = f[t[c]]
    <2>1. CASE c = Len(s) + 1
      BY <1>3, <1>6, <2>1
    <2>2. CASE c # Len(s) + 1
      <3>1. c \in 1..Len(s)
        BY <1>1, <2>2
      <3> QED BY <1>3, <1>5, <1>6, <3>1
    <2> QED BY <2>1, <2>2
  <1> HIDE DEF new
  <1>9. ElementsAt(f, S \cup {x}) = [c \in 1..(Len(s) + 1) |-> f[t[c]]]
    BY <1>3 DEF ElementsAt, t
  <1>10. ElementsAt(f, S \cup {x}) = new
    BY <1>7, <1>8, <1>9
  <1> QED BY <1>10 DEF new, es

LEMMA NoElements == ASSUME NEW f PROVE ElementsAt(f, {}) = << >>
  <1>1. DOMAIN << >> = {}
    OBVIOUS
  <1>2. ElementsAt(f, {}) = [c \in {} |-> f[InOrder({})[c]]]
    BY <1>1, InOrderOfNothing DEF ElementsAt
  <1> QED BY <1>2

\* A tree of the elements i with those at kids[i], all of them further on, inside.
Tree(f, n, id, offset, kids) ==
  \A i \in 1..n : f[i] = [id |-> id[i], offset |-> offset[i], children |-> ElementsAt(f, kids[i])]

LEMMA TreeExists ==
  ASSUME NEW n \in Nat, NEW id, NEW offset, NEW kids, \A i \in 1..n : kids[i] \in SUBSET ((i + 1)..n)
  PROVE  \E f : f = [i \in 1..n |-> f[i]] /\ Tree(f, n, id, offset, kids)
  <1> DEFINE Made(f, i) == [id |-> id[i], offset |-> offset[i], children |-> ElementsAt(f, kids[i])]
             From(m) == \E f : \A i \in (n - m + 1)..n : f[i] = Made(f, i)
             T == {m \in 0..n : From(m)}
  <1>1. 0 \in T
    <2>1. (n - 0 + 1)..n = {}
      OBVIOUS
    <2>2. From(0)
      BY <2>1
    <2> HIDE DEF From
    <2> QED BY <2>2
  <1>2. ASSUME NEW m \in 1..n, m - 1 \in T PROVE m \in T
    <2> DEFINE a == n - m + 1
    <2>1. a \in 1..n /\ n - (m - 1) + 1 = a + 1
      OBVIOUS
    <2>2. PICK f : \A i \in (a + 1)..n : f[i] = Made(f, i)
      BY <1>2, <2>1
    <2> DEFINE h == [i \in a..n |-> IF i = a THEN Made(f, a) ELSE f[i]]
    <2> HIDE DEF a
    <2>3. \A i \in (a + 1)..n : h[i] = f[i]
      BY <2>1
    <2>4. h[a] = Made(f, a)
      BY <2>1
    <2>5. ASSUME NEW i \in a..n PROVE h[i] = Made(h, i)
      <3>1. i \in 1..n
        BY <2>1
      <3>2. kids[i] \in SUBSET (1..n) /\ \A x \in kids[i] : x \in (a + 1)..n
        BY <2>1, <3>1
      <3>3. \A x \in kids[i] : h[x] = f[x]
        BY <2>3, <3>2
      <3> HIDE DEF h
      <3>4. ElementsAt(h, kids[i]) = ElementsAt(f, kids[i])
        BY <3>2, <3>3, ElementsAgree
      <3>5. CASE i = a
        BY <2>4, <3>4, <3>5
      <3>6. CASE i # a
        <4>1. i \in (a + 1)..n
          BY <2>1, <3>6
        <4> QED BY <2>2, <2>3, <3>4, <4>1
      <3> QED BY <3>5, <3>6
    <2> HIDE DEF h, Made
    <2>6. From(m)
      BY <2>5 DEF a
    <2> HIDE DEF From
    <2> QED BY <2>6
  <1> HIDE DEF T
  <1>3. 0..n \subseteq T
    BY <1>1, <1>2, BoundedInduction
  <1>4. n \in T
    BY <1>3
  <1>5. n - n + 1 = 1
    OBVIOUS
  <1>6. PICK g : \A i \in 1..n : g[i] = Made(g, i)
    BY <1>4, <1>5 DEF T
  <1> DEFINE f == [i \in 1..n |-> g[i]]
  <1>7. ASSUME NEW i \in 1..n PROVE f[i] = Made(f, i)
    <2>1. kids[i] \in SUBSET (1..n) /\ \A x \in kids[i] : f[x] = g[x]
      OBVIOUS
    <2>2. f[i] = g[i]
      OBVIOUS
    <2> HIDE DEF f
    <2>3. ElementsAt(f, kids[i]) = ElementsAt(g, kids[i])
      BY <2>1, ElementsAgree
    <2> QED BY <1>6, <2>2, <2>3
  <1>8. f = [i \in 1..n |-> f[i]]
    OBVIOUS
  <1> HIDE DEF f
  <1> QED BY <1>7, <1>8 DEF Tree

\* Two are one on a set: they are if both say on it, which kids does not leave, what an
\* element holds.
AreOne(C, f, g) == \A i \in C : f[i] = g[i]

BothOn(C, n, f, g, id, offset, kids) ==
  /\ n \in Nat /\ C \in SUBSET (1..n)
  /\ \A i \in C :
       /\ kids[i] \in SUBSET (C \cap ((i + 1)..n))
       /\ f[i] = [id |-> id[i], offset |-> offset[i], children |-> ElementsAt(f, kids[i])]
       /\ g[i] = [id |-> id[i], offset |-> offset[i], children |-> ElementsAt(g, kids[i])]

LEMMA TreesAgree ==
  ASSUME NEW n, NEW C, NEW f, NEW g, NEW id, NEW offset, NEW kids,
         BothOn(C, n, f, g, id, offset, kids)
  PROVE  AreOne(C, f, g)
  <1> n \in Nat /\ C \in SUBSET (1..n)
    BY DEF BothOn
  <1> DEFINE S == {m \in 0..n : n - m \in C => f[n - m] = g[n - m]}
  <1>1. ASSUME NEW m \in 0..n, \A k \in 0..(m - 1) : k \in S PROVE m \in S
    <2> SUFFICES ASSUME n - m \in C PROVE f[n - m] = g[n - m]
      OBVIOUS
    <2> DEFINE i == n - m
    <2>1. i \in C /\ i \in 0..n
      OBVIOUS
    <2>2. ASSUME NEW x \in kids[i] PROVE f[x] = g[x]
      <3>1. x \in C /\ x \in (i + 1)..n
        BY <2>1 DEF BothOn
      <3>2. n - x \in 0..(m - 1) /\ n - (n - x) = x
        BY <2>1, <3>1
      <3>3. n - x \in S
        BY <1>1, <3>2
      <3> QED BY <3>1, <3>2, <3>3
    <2>3. kids[i] \in SUBSET (1..n)
      BY <2>1 DEF BothOn
    <2> HIDE DEF i, S
    <2>4. ElementsAt(f, kids[i]) = ElementsAt(g, kids[i])
      BY <2>2, <2>3, ElementsAgree
    <2>5. f[i] = g[i]
      BY <2>1, <2>4 DEF BothOn
    <2> QED BY <2>5 DEF i
  <1> HIDE DEF S
  <1>2. 0..n \subseteq S
    BY <1>1, StrongInduction
  <1>3. ASSUME NEW i \in C PROVE f[i] = g[i]
    <2>1. n - i \in 0..n /\ n - (n - i) = i
      OBVIOUS
    <2>2. n - i \in S
      BY <1>2, <2>1
    <2> QED BY <2>1, <2>2 DEF S
  <1> QED BY <1>3 DEF AreOne

-----------------------------------------------------------------------------

\* A list of events and those of them that were shown.
Record(evs, shown) == WellNested(evs) /\ shown \subseteq 1..Len(evs)

LEMMA MembersAre ==
  ASSUME NEW evs, NEW shown, Record(evs, shown), NEW i \in 1..Len(evs)
  PROVE  /\ Members(evs, shown, i) \in SUBSET ((i + 1)..Len(evs))
         /\ \A j \in Members(evs, shown, i) :
              /\ j \in shown /\ IsElement(evs[j]) /\ ParentOf(evs, j) = i
              /\ StandsIn(evs, j, i)
  <1>1. Len(evs) \in Nat /\ shown \subseteq 1..Len(evs)
    BY EventFacts DEF Record, WellNested
  <1>2. ASSUME NEW j \in Members(evs, shown, i)
        PROVE  /\ j \in shown /\ IsElement(evs[j]) /\ ParentOf(evs, j) = i
               /\ j \in (i + 1)..Len(evs) /\ StandsIn(evs, j, i)
    <2>1. j \in shown /\ j > i /\ IsElement(evs[j]) /\ ParentOf(evs, j) = i
      BY DEF Members
    <2>2. j \in 1..Len(evs) /\ i # 0
      BY <1>1, <2>1
    <2>3. StandsIn(evs, j, i)
      BY <2>1, <2>2, ParentFacts DEF Record
    <2> QED BY <1>1, <2>1, <2>2, <2>3
  <1> QED BY <1>2

\* ShownElement is what it is defined to be: the members of an element come behind it.
LEMMA ShownElementIs ==
  ASSUME NEW evs, NEW shown, Record(evs, shown), NEW i \in 1..Len(evs)
  PROVE  ShownElement(evs, shown)[i] =
           [id |-> evs[i].id, offset |-> evs[i].offset,
            children |-> ElementsAt(ShownElement(evs, shown), Members(evs, shown, i))]
  <1> DEFINE n == Len(evs)
             kids == [k \in 1..n |-> Members(evs, shown, k)]
             id == [k \in 1..n |-> evs[k].id]
             offset == [k \in 1..n |-> evs[k].offset]
             Whole(f) == f = [k \in DOMAIN evs |->
                           [id |-> evs[k].id, offset |-> evs[k].offset,
                            children |-> ElementsAt(f, Members(evs, shown, k))]]
  <1>1. n \in Nat /\ DOMAIN evs = 1..n
    BY EventFacts DEF Record, WellNested
  <1>2. \A k \in 1..n : kids[k] \in SUBSET ((k + 1)..n)
    BY MembersAre
  <1>3. \A k \in 1..n : kids[k] = Members(evs, shown, k) /\ id[k] = evs[k].id /\ offset[k] = evs[k].offset
    OBVIOUS
  <1> HIDE DEF n, kids, id, offset
  <1>4. PICK f : f = [k \in 1..n |-> f[k]] /\ Tree(f, n, id, offset, kids)
    BY <1>1, <1>2, TreeExists
  <1>5. \A k \in 1..n : f[k] = [id |-> evs[k].id, offset |-> evs[k].offset,
                                children |-> ElementsAt(f, Members(evs, shown, k))]
    BY <1>3, <1>4 DEF Tree
  <1>6. Whole(f)
    BY <1>1, <1>4, <1>5
  <1>7. ShownElement(evs, shown) = CHOOSE g : Whole(g)
    BY DEF ShownElement, ElementsAt
  <1> HIDE DEF Whole
  <1>8. Whole(ShownElement(evs, shown))
    BY <1>6, <1>7
  <1> QED BY <1>1, <1>8 DEF Whole, n

\* The members of a master that are over.
CompleteMembers(evs, shown, over, i) ==
  {j \in Members(evs, shown, i) : over \/ evs[j].ev = "leaf" \/ Closers(evs, shown, j) # {}}

LEMMA CompleteChildrenAre ==
  ASSUME NEW evs, NEW shown, NEW over, NEW i
  PROVE  CompleteChildren(evs, shown, over, i) =
           ElementsAt(ShownElement(evs, shown), CompleteMembers(evs, shown, over, i))
  BY DEF CompleteChildren, ElementsAt, CompleteMembers

-----------------------------------------------------------------------------
(* What more reports, and a node more that is shown, change.               *)

\* What is said of the elements is said of them in the longer list.
SaysTheSame(evs, evs2, shown) ==
  /\ \A i \in 1..Len(evs) :
       /\ evs2[i] = evs[i]
       /\ ParentOf(evs2, i) = ParentOf(evs, i)
       /\ Closers(evs2, shown, i) = Closers(evs, shown, i)
       /\ \A over \in BOOLEAN :
            CompleteChildren(evs2, shown, over, i) = CompleteChildren(evs, shown, over, i)
  /\ Openings(evs2, shown) = Openings(evs, shown)

LEMMA ReportsSayNothingNew ==
  ASSUME NEW evs, NEW shown, Record(evs, shown), NEW evs2, WellNested(evs2), Extends(evs, evs2)
  PROVE  Record(evs2, shown) /\ SaysTheSame(evs, evs2, shown)
  <1> DEFINE n == Len(evs)
             f == ShownElement(evs, shown)
             g == ShownElement(evs2, shown)
  <1>1. /\ n \in Nat /\ Len(evs2) \in Nat /\ n <= Len(evs2) /\ shown \subseteq 1..n
        /\ \A i \in 1..n : evs2[i] = evs[i]
    BY EventFacts DEF Record, WellNested, Extends
  <1>2. Record(evs2, shown) /\ \A i \in 1..n : i \in 1..Len(evs2)
    BY <1>1 DEF Record
  <1>3. ASSUME NEW i \in 1..n PROVE ParentOf(evs2, i) = ParentOf(evs, i)
    <2>1. \A k \in 1..(i - 1) : evs2[k] = evs[k]
      BY <1>1
    <2>2. evs2[i] = evs[i]
      BY <1>1
    <2>3. {k \in 1..(i - 1) : evs2[k].ev = "master" /\ evs2[k].depth = evs2[i].depth - 1} =
            {k \in 1..(i - 1) : evs[k].ev = "master" /\ evs[k].depth = evs[i].depth - 1}
      BY <2>1, <2>2
    <2> QED BY <2>3 DEF ParentOf
  <1>4. ASSUME NEW i \in 1..n PROVE Closers(evs2, shown, i) = Closers(evs, shown, i)
    BY <1>1 DEF Closers
  <1>5. ASSUME NEW i \in 1..n PROVE Members(evs2, shown, i) = Members(evs, shown, i)
    <2>1. \A j \in shown : evs2[j] = evs[j] /\ ParentOf(evs2, j) = ParentOf(evs, j)
      BY <1>1, <1>3
    <2> QED BY <1>4, <2>1 DEF Members
  <1>6. ASSUME NEW i \in 1..n
        PROVE  /\ Members(evs, shown, i) \in SUBSET (1..n \cap ((i + 1)..n))
               /\ f[i] = [id |-> evs[i].id, offset |-> evs[i].offset,
                          children |-> ElementsAt(f, Members(evs, shown, i))]
               /\ g[i] = [id |-> evs[i].id, offset |-> evs[i].offset,
                          children |-> ElementsAt(g, Members(evs, shown, i))]
    <2>1. Members(evs, shown, i) \in SUBSET ((i + 1)..n)
      BY MembersAre
    <2>2. f[i] = [id |-> evs[i].id, offset |-> evs[i].offset,
                  children |-> ElementsAt(f, Members(evs, shown, i))]
      BY ShownElementIs
    <2>3. i \in 1..Len(evs2) /\ Record(evs2, shown)
      BY <1>2
    <2>4. g[i] = [id |-> evs2[i].id, offset |-> evs2[i].offset,
                  children |-> ElementsAt(g, Members(evs2, shown, i))]
      BY <2>3, ShownElementIs
    <2>5. (i + 1)..n \subseteq 1..n
      BY <1>1
    <2> HIDE DEF f, g
    <2> QED BY <1>1, <1>5, <2>1, <2>2, <2>4, <2>5
  <1> DEFINE kids == [i \in 1..n |-> Members(evs, shown, i)]
             id == [i \in 1..n |-> evs[i].id]
             offset == [i \in 1..n |-> evs[i].offset]
  <1>7. \A i \in 1..n : kids[i] = Members(evs, shown, i) /\ id[i] = evs[i].id /\ offset[i] = evs[i].offset
    OBVIOUS
  <1> HIDE DEF f, g, kids, id, offset, n
  <1>8. \A i \in 1..n : f[i] = g[i]
    <2>1. \A i \in 1..n :
            /\ kids[i] \in SUBSET (1..n \cap ((i + 1)..n))
            /\ f[i] = [id |-> id[i], offset |-> offset[i], children |-> ElementsAt(f, kids[i])]
            /\ g[i] = [id |-> id[i], offset |-> offset[i], children |-> ElementsAt(g, kids[i])]
      BY <1>6, <1>7
    <2> DEFINE C == 1..n
    <2>2. C \in SUBSET (1..n)
      OBVIOUS
    <2> HIDE DEF C
    <2>3. n \in Nat
      BY <1>1
    <2>4. BothOn(C, n, f, g, id, offset, kids)
      BY <2>1, <2>2, <2>3 DEF C, BothOn
    <2>5. AreOne(C, f, g)
      BY <2>4, TreesAgree
    <2> QED BY <2>5 DEF AreOne, C
  <1>9. ASSUME NEW i \in 1..n, NEW over \in BOOLEAN
        PROVE  CompleteChildren(evs2, shown, over, i) = CompleteChildren(evs, shown, over, i)
    <2>1. \A j \in Members(evs, shown, i) : j \in 1..n
      BY <1>6
    <2>2. CompleteMembers(evs2, shown, over, i) = CompleteMembers(evs, shown, over, i)
      BY <1>1, <1>4, <1>5, <2>1 DEF CompleteMembers
    <2>3. CompleteMembers(evs, shown, over, i) \in SUBSET (1..n)
      BY <2>1 DEF CompleteMembers
    <2>4. ElementsAt(f, CompleteMembers(evs, shown, over, i)) =
            ElementsAt(g, CompleteMembers(evs, shown, over, i))
      BY <1>1, <1>8, <2>3, ElementsAgree
    <2> QED BY <2>2, <2>4, CompleteChildrenAre DEF f, g
  <1>10. Openings(evs2, shown) = Openings(evs, shown)
    <2> DEFINE T(x) == {i \in shown : x[i].ev = "master" /\ x[i].id = Tracked}
               O(x) == {i \in T(x) : \A k \in T(x) : k < i => \E c \in Closers(x, shown, k) : c <= i}
    <2>1. T(evs2) = T(evs)
      BY <1>1
    <2>2. \A k \in T(evs) : Closers(evs2, shown, k) = Closers(evs, shown, k)
      BY <1>1, <1>4
    <2> HIDE DEF T
    <2>3. O(evs2) = O(evs)
      BY <2>1, <2>2
    <2>4. Openings(evs, shown) = InOrder(O(evs)) /\ Openings(evs2, shown) = InOrder(O(evs2))
      BY DEF Openings, T
    <2> QED BY <2>3, <2>4
  <1> QED BY <1>1, <1>2, <1>3, <1>4, <1>9, <1>10 DEF SaysTheSame, n

-----------------------------------------------------------------------------
(* A node more is shown, the last reported.                                *)

ShowsLast(evs, shown, shown2) ==
  /\ Record(evs, shown) /\ Len(evs) # 0
  /\ Len(evs) \notin shown /\ shown2 = shown \cup {Len(evs)}

\* Whether an element is seen to be over.
Over(evs, shown, i) == evs[i].ev = "leaf" \/ Closers(evs, shown, i) # {}

LEMMA LastFacts ==
  ASSUME NEW evs, NEW shown, NEW shown2, ShowsLast(evs, shown, shown2)
  PROVE  /\ Len(evs) \in Nat \ {0} /\ Len(evs) \in 1..Len(evs)
         /\ Record(evs, shown) /\ Record(evs, shown2)
         /\ shown \subseteq 1..Len(evs) /\ \A j \in shown : j < Len(evs) /\ j # Len(evs)
         /\ \A i \in 1..Len(evs) : evs[i].depth \in Nat /\ evs[i] \in Event
  <1>1. WellNested(evs) /\ shown \subseteq 1..Len(evs) /\ Len(evs) # 0 /\ Len(evs) \notin shown
    BY DEF ShowsLast, Record
  <1>2. Len(evs) \in Nat /\ \A i \in 1..Len(evs) : evs[i].depth \in Nat /\ evs[i] \in Event
    BY <1>1, EventFacts DEF WellNested
  <1>3. Len(evs) \in 1..Len(evs) /\ shown2 \subseteq 1..Len(evs)
    <2>1. shown2 = shown \cup {Len(evs)}
      BY DEF ShowsLast
    <2>2. Len(evs) \in 1..Len(evs)
      BY <1>1, <1>2
    <2> QED BY <1>1, <2>1, <2>2
  <1>4. \A j \in shown : j < Len(evs) /\ j # Len(evs)
    BY <1>1, <1>2
  <1> QED BY <1>1, <1>2, <1>3, <1>4 DEF Record

LEMMA ClosersGrow ==
  ASSUME NEW evs, NEW shown, NEW shown2, ShowsLast(evs, shown, shown2), NEW i \in 1..Len(evs)
  PROVE  /\ i < Len(evs) /\ evs[Len(evs)].depth <= evs[i].depth =>
              Closers(evs, shown2, i) = Closers(evs, shown, i) \cup {Len(evs)}
         /\ ~(i < Len(evs) /\ evs[Len(evs)].depth <= evs[i].depth) =>
              Closers(evs, shown2, i) = Closers(evs, shown, i)
         /\ \A c \in Closers(evs, shown, i) : c < Len(evs) /\ c \in Nat
         /\ Closers(evs, shown2, Len(evs)) = {}
  <1>1. Len(evs) \in Nat \ {0} /\ shown \subseteq 1..Len(evs) /\ \A j \in shown : j < Len(evs)
    BY LastFacts
  <1>2. shown2 = shown \cup {Len(evs)} /\ i \in Nat
    BY DEF ShowsLast
  <1>3. \A c \in Closers(evs, shown, i) : c < Len(evs) /\ c \in Nat
    BY <1>1 DEF Closers
  <1>4. \A c : c \in Closers(evs, shown2, i) <=>
                c \in Closers(evs, shown, i)
                \/ (c = Len(evs) /\ i < Len(evs) /\ evs[Len(evs)].depth <= evs[i].depth)
    BY <1>1, <1>2 DEF Closers
  <1>5. Closers(evs, shown2, Len(evs)) = {}
    <2>1. ASSUME NEW j \in shown2 PROVE ~(j > Len(evs))
      BY <1>1, <1>2
    <2> QED BY <2>1 DEF Closers
  <1> DEFINE isCloser == i < Len(evs) /\ evs[Len(evs)].depth <= evs[i].depth
  <1>6. \A c : c \in Closers(evs, shown2, i) <=> c \in Closers(evs, shown, i) \/ (c = Len(evs) /\ isCloser)
    BY <1>4
  <1> HIDE DEF isCloser
  <1>7. isCloser => Closers(evs, shown2, i) = Closers(evs, shown, i) \cup {Len(evs)}
    BY <1>6
  <1>8. ~isCloser => Closers(evs, shown2, i) = Closers(evs, shown, i)
    BY <1>6
  <1> QED BY <1>3, <1>5, <1>7, <1>8 DEF isCloser

LEMMA MembersGrow ==
  ASSUME NEW evs, NEW shown, NEW shown2, ShowsLast(evs, shown, shown2), NEW i \in 1..Len(evs)
  PROVE  /\ Members(evs, shown2, i) \ {Len(evs)} = Members(evs, shown, i)
         /\ Len(evs) \notin Members(evs, shown, i)
         /\ Len(evs) \in Members(evs, shown2, i) <=>
              i < Len(evs) /\ IsElement(evs[Len(evs)]) /\ ParentOf(evs, Len(evs)) = i
              /\ Closers(evs, shown2, i) = {}
         /\ Members(evs, shown2, Len(evs)) = {}
         /\ evs[i].ev = "leaf" => Members(evs, shown2, i) = {}
  <1> DEFINE n == Len(evs)
  <1>1. /\ n \in Nat \ {0} /\ shown \subseteq 1..n /\ \A j \in shown : j < n /\ j # n
        /\ Record(evs, shown) /\ Record(evs, shown2) /\ n \in 1..n
    BY LastFacts
  <1>2. shown2 = shown \cup {n}
    BY DEF ShowsLast
  <1>3. /\ Closers(evs, shown2, i) \ {n} = Closers(evs, shown, i)
        /\ \A c \in Closers(evs, shown2, i) : c <= n
    <2>1. \A c \in Closers(evs, shown, i) : c < n /\ c \in Nat
      BY ClosersGrow
    <2>2. Closers(evs, shown2, i) \in {Closers(evs, shown, i), Closers(evs, shown, i) \cup {n}}
      BY ClosersGrow
    <2> QED BY <1>1, <2>1, <2>2
  <1>4. ASSUME NEW j \in shown
        PROVE  (\A k \in Closers(evs, shown2, i) : k > j) <=> (\A k \in Closers(evs, shown, i) : k > j)
    <2>1. j \in Nat /\ j < n
      BY <1>1
    <2> QED BY <1>1, <1>3, <2>1
  <1> HIDE DEF n
  <1>5. Members(evs, shown2, i) \ {n} = Members(evs, shown, i)
    BY <1>1, <1>2, <1>4 DEF Members
  <1>6. n \notin Members(evs, shown, i)
    BY <1>1 DEF Members
  <1>7. n \in Members(evs, shown2, i) <=>
          i < n /\ IsElement(evs[n]) /\ ParentOf(evs, n) = i /\ Closers(evs, shown2, i) = {}
    <2>1. i \in Nat
      OBVIOUS
    <2>2. (\A k \in Closers(evs, shown2, i) : k > n) <=> Closers(evs, shown2, i) = {}
      <3>1. \A k \in Closers(evs, shown2, i) : k \in Nat /\ ~(k > n)
        <4>1. shown2 \subseteq Nat
          BY <1>1, <1>2
        <4>2. Closers(evs, shown2, i) \subseteq shown2
          BY DEF Closers
        <4>3. \A k \in Closers(evs, shown2, i) : k \in Nat /\ k <= n
          BY <1>3, <4>1, <4>2
        <4>4. n \in Nat
          BY <1>1
        <4> QED BY <4>3, <4>4
      <3> QED BY <3>1
    <2>3. n \in shown2
      BY <1>2
    <2> QED BY <1>1, <2>1, <2>2, <2>3 DEF Members
  <1>8. Members(evs, shown2, n) = {}
    <2>1. Members(evs, shown2, n) \in SUBSET ((n + 1)..n)
      BY <1>1, MembersAre DEF n
    <2> QED BY <1>1, <2>1
  <1>9. ASSUME evs[i].ev = "leaf" PROVE Members(evs, shown2, i) = {}
    <2>1. \A j \in Members(evs, shown2, i) : StandsIn(evs, j, i)
      BY <1>1, MembersAre DEF n
    <2> QED BY <1>9, <2>1 DEF StandsIn
  <1> QED BY <1>5, <1>6, <1>7, <1>8, <1>9 DEF n

\* What is over holds what it held.
LEMMA OverIsClosed ==
  ASSUME NEW evs, NEW shown, NEW shown2, ShowsLast(evs, shown, shown2),
         NEW i \in 1..Len(evs), Over(evs, shown2, i)
  PROVE  /\ Members(evs, shown2, i) = Members(evs, shown, i)
         /\ \A j \in Members(evs, shown, i) : Over(evs, shown2, j)
  <1>1. /\ Len(evs) \in Nat \ {0} /\ Record(evs, shown) /\ Record(evs, shown2)
        /\ \A k \in 1..Len(evs) : evs[k].depth \in Nat
    BY LastFacts
  <1>2. Members(evs, shown2, i) \ {Len(evs)} = Members(evs, shown, i)
    BY MembersGrow
  <1>3. Len(evs) \notin Members(evs, shown2, i)
    <2>1. CASE evs[i].ev = "leaf"
      BY <2>1, MembersGrow
    <2>2. CASE Closers(evs, shown2, i) # {}
      BY <2>2, MembersGrow
    <2> QED BY <2>1, <2>2 DEF Over
  <1>4. ASSUME NEW j \in Members(evs, shown2, i) PROVE Over(evs, shown2, j)
    <2>1. Closers(evs, shown2, i) # {}
      <3>1. evs[i].ev # "leaf"
        BY <1>4, MembersGrow
      <3> QED BY <3>1 DEF Over
    <2>2. PICK k \in Closers(evs, shown2, i) : TRUE
      BY <2>1
    <2>3. k \in shown2 /\ k > j /\ evs[k].depth <= evs[i].depth
      BY DEF Closers, Members
    <2>4. j \in (i + 1)..Len(evs) /\ StandsIn(evs, j, i)
      BY <1>1, MembersAre
    <2>5. evs[i].depth = evs[j].depth - 1 /\ j \in 1..Len(evs) /\ k \in 1..Len(evs)
      BY <1>1, <2>3, <2>4 DEF StandsIn, Record
    <2>6. evs[k].depth <= evs[j].depth
      BY <1>1, <2>3, <2>5
    <2>7. k \in Closers(evs, shown2, j)
      BY <2>3, <2>6 DEF Closers
    <2> QED BY <2>7 DEF Over
  <1> QED BY <1>2, <1>3, <1>4

LEMMA OverStays ==
  ASSUME NEW evs, NEW shown, NEW shown2, ShowsLast(evs, shown, shown2),
         NEW i \in 1..Len(evs), Over(evs, shown2, i)
  PROVE  ShownElement(evs, shown2)[i] = ShownElement(evs, shown)[i]
  <1> DEFINE n == Len(evs)
             f == ShownElement(evs, shown)
             g == ShownElement(evs, shown2)
             C == {k \in 1..n : Over(evs, shown2, k)}
             kids == [k \in 1..n |-> Members(evs, shown, k)]
             id == [k \in 1..n |-> evs[k].id]
             offset == [k \in 1..n |-> evs[k].offset]
  <1>1. n \in Nat /\ Record(evs, shown) /\ Record(evs, shown2)
    BY LastFacts
  <1>2. ASSUME NEW k \in C
        PROVE  /\ Members(evs, shown, k) \in SUBSET (C \cap ((k + 1)..n))
               /\ f[k] = [id |-> evs[k].id, offset |-> evs[k].offset,
                          children |-> ElementsAt(f, Members(evs, shown, k))]
               /\ g[k] = [id |-> evs[k].id, offset |-> evs[k].offset,
                          children |-> ElementsAt(g, Members(evs, shown, k))]
    <2>1. k \in 1..Len(evs) /\ Over(evs, shown2, k)
      OBVIOUS
    <2>2. /\ Members(evs, shown2, k) = Members(evs, shown, k)
          /\ \A j \in Members(evs, shown, k) : Over(evs, shown2, j)
      BY <2>1, OverIsClosed
    <2>3. Members(evs, shown, k) \in SUBSET ((k + 1)..n)
      BY <1>1, <2>1, MembersAre
    <2>4. Members(evs, shown, k) \in SUBSET (C \cap ((k + 1)..n))
      BY <1>1, <2>1, <2>2, <2>3
    <2> QED BY <1>1, <2>1, <2>2, <2>4, ShownElementIs
  <1>3. \A k \in C : kids[k] = Members(evs, shown, k) /\ id[k] = evs[k].id /\ offset[k] = evs[k].offset
    OBVIOUS
  <1>4. C \in SUBSET (1..n) /\ i \in C
    OBVIOUS
  <1> HIDE DEF f, g, C, n, kids, id, offset
  <1>5. BothOn(C, n, f, g, id, offset, kids)
    BY <1>1, <1>2, <1>3, <1>4 DEF BothOn
  <1>6. AreOne(C, f, g)
    BY <1>5, TreesAgree
  <1> QED BY <1>4, <1>6 DEF AreOne, f, g

\* The openings: the node opens one if it is a tracked master that nothing tracked is
\* still open around.
TrackedIn(evs, shown) == {i \in shown : evs[i].ev = "master" /\ evs[i].id = Tracked}

OpeningSet(evs, shown) ==
  {i \in TrackedIn(evs, shown) : \A k \in TrackedIn(evs, shown) :
     k < i => \E c \in Closers(evs, shown, k) : c <= i}

LEMMA OpeningsAre ==
  ASSUME NEW evs, NEW shown, Record(evs, shown)
  PROVE  /\ Openings(evs, shown) = InOrder(OpeningSet(evs, shown))
         /\ Lists(Openings(evs, shown), OpeningSet(evs, shown))
         /\ OpeningSet(evs, shown) \in SUBSET (1..Len(evs))
  <1>1. Len(evs) \in Nat
    BY EventFacts DEF Record, WellNested
  <1>2. OpeningSet(evs, shown) \in SUBSET (1..Len(evs))
    BY DEF Record, OpeningSet, TrackedIn
  <1>3. Openings(evs, shown) = InOrder(OpeningSet(evs, shown))
    BY DEF Openings, OpeningSet, TrackedIn
  <1> QED BY <1>1, <1>2, <1>3, InOrderLists

OpensAnother(evs, shown2) ==
  /\ evs[Len(evs)].ev = "master" /\ evs[Len(evs)].id = Tracked
  /\ \A k \in TrackedIn(evs, shown2) : k # Len(evs) => Closers(evs, shown2, k) # {}

LEMMA OpeningsGrow ==
  ASSUME NEW evs, NEW shown, NEW shown2, ShowsLast(evs, shown, shown2)
  PROVE  Openings(evs, shown2) = IF OpensAnother(evs, shown2)
                                 THEN Append(Openings(evs, shown), Len(evs))
                                 ELSE Openings(evs, shown)
  <1> DEFINE n == Len(evs)
             T == TrackedIn(evs, shown)
             T2 == TrackedIn(evs, shown2)
  <1>1. /\ n \in Nat \ {0} /\ shown \subseteq 1..n /\ \A j \in shown : j < n /\ j # n
        /\ Record(evs, shown) /\ Record(evs, shown2) /\ n \in 1..n
    BY LastFacts
  <1>2. shown2 = shown \cup {n}
    BY DEF ShowsLast
  <1>3. /\ T2 \ {n} = T /\ T \subseteq 1..n /\ n \notin T
        /\ n \in T2 <=> evs[n].ev = "master" /\ evs[n].id = Tracked
    BY <1>1, <1>2 DEF TrackedIn
  <1>4. ASSUME NEW k \in T
        PROVE  /\ Closers(evs, shown2, k) \ {n} = Closers(evs, shown, k)
               /\ \A c \in Closers(evs, shown2, k) : c <= n /\ c \in Nat
    <2>0. k \in 1..Len(evs)
      BY <1>3
    <2>1. \A c \in Closers(evs, shown, k) : c < n /\ c \in Nat
      BY <2>0, ClosersGrow
    <2>2. Closers(evs, shown2, k) \in {Closers(evs, shown, k), Closers(evs, shown, k) \cup {n}}
      BY <2>0, ClosersGrow
    <2> QED BY <1>1, <2>1, <2>2
  <1>5. ASSUME NEW i \in T
        PROVE  i \in OpeningSet(evs, shown2) <=> i \in OpeningSet(evs, shown)
    <2>1. i \in Nat /\ i < n
      BY <1>1, <1>3 DEF TrackedIn
    <2>2. ASSUME NEW k \in T
          PROVE  (\E c \in Closers(evs, shown2, k) : c <= i) <=> (\E c \in Closers(evs, shown, k) : c <= i)
      BY <1>1, <1>4, <2>1
    <2>3. ~(n < i)
      BY <1>1, <2>1
    <2> HIDE DEF n
    <2>4. i \in T2
      BY <1>3
    <2>5. (\A k \in T2 : k < i => \E c \in Closers(evs, shown2, k) : c <= i)
            <=> (\A k \in T : k < i => \E c \in Closers(evs, shown, k) : c <= i)
      BY <1>3, <2>2, <2>3
    <2> QED BY <2>4, <2>5 DEF OpeningSet
  <1>6. n \in OpeningSet(evs, shown2) <=> OpensAnother(evs, shown2)
    <2>1. ASSUME NEW k \in T2, k # n
          PROVE  k < n /\ ((\E c \in Closers(evs, shown2, k) : c <= n) <=> Closers(evs, shown2, k) # {})
      <3>1. k \in T
        BY <1>3, <2>1
      <3>2. k < n
        BY <1>1, <3>1 DEF TrackedIn
      <3> QED BY <1>4, <3>1, <3>2
    <2>2. ~(n < n)
      BY <1>1
    <2> HIDE DEF T, n
    <2>3. (\A k \in T2 : k < n => \E c \in Closers(evs, shown2, k) : c <= n)
            <=> (\A k \in T2 : k # n => Closers(evs, shown2, k) # {})
      BY <2>1, <2>2
    <2> QED BY <1>3, <2>3 DEF OpeningSet, OpensAnother, n
  <1>7. OpeningSet(evs, shown) \subseteq T /\ OpeningSet(evs, shown2) \subseteq T2
    BY DEF OpeningSet
  <1>8. OpeningSet(evs, shown2) = IF OpensAnother(evs, shown2) THEN OpeningSet(evs, shown) \cup {n}
                                  ELSE OpeningSet(evs, shown)
    <2> HIDE DEF T, T2, n
    <2>1. \A i : i \in OpeningSet(evs, shown2) <=>
                  i \in OpeningSet(evs, shown) \/ (i = n /\ OpensAnother(evs, shown2))
      <3> SUFFICES ASSUME NEW i
                   PROVE  i \in OpeningSet(evs, shown2) <=>
                            i \in OpeningSet(evs, shown) \/ (i = n /\ OpensAnother(evs, shown2))
        OBVIOUS
      <3>1. CASE i \in T
        BY <1>3, <1>5, <3>1
      <3>2. CASE i = n
        BY <1>3, <1>6, <1>7, <3>2
      <3>3. CASE i \notin T /\ i # n
        BY <1>3, <1>7, <3>3
      <3> QED BY <3>1, <3>2, <3>3
    <2> QED BY <2>1
  <1>9. OpeningSet(evs, shown) \in SUBSET (1..n) /\ \A y \in OpeningSet(evs, shown) : y < n
    BY <1>1, <1>7 DEF TrackedIn
  <1>10. InOrder(OpeningSet(evs, shown) \cup {n}) = Append(InOrder(OpeningSet(evs, shown)), n)
    BY <1>1, <1>9, InOrderGrows
  <1> QED BY <1>1, <1>8, <1>10, OpeningsAre

-----------------------------------------------------------------------------
(* The stack, as the nodes shown tell it.                                  *)

\* The members of a master that is still open, so far: those that are over.
MembersSoFar(evs, shown, i) == {j \in Members(evs, shown, i) : Over(evs, shown, j)}

ChildrenSoFar(evs, shown, i) == CompleteChildren(evs, shown, FALSE, i)

LEMMA SoFarIs ==
  ASSUME NEW evs, NEW shown, NEW i
  PROVE  ChildrenSoFar(evs, shown, i) = ElementsAt(ShownElement(evs, shown), MembersSoFar(evs, shown, i))
  <1>1. CompleteMembers(evs, shown, FALSE, i) = MembersSoFar(evs, shown, i)
    BY DEF CompleteMembers, MembersSoFar, Over
  <1> QED BY <1>1, CompleteChildrenAre DEF ChildrenSoFar

\* What the tracker has of the master x, open.
Entry(evs, shown, x) ==
  [element |-> [id |-> evs[x].id, offset |-> evs[x].offset,
                children |-> ChildrenSoFar(evs, shown, x)],
   depth |-> evs[x].depth]

\* The masters of the stack are c: each in the one below, and from the lowest on all
\* those shown that are not over.
OpenAre(evs, shown, c) ==
  /\ c \in Seq(shown) /\ Len(c) # 0
  /\ \A i, j \in 1..Len(c) : i < j => c[i] < c[j] /\ evs[c[i]].depth < evs[c[j]].depth
  /\ \A i \in 1..Len(c) :
       /\ evs[c[i]].ev = "master" /\ Closers(evs, shown, c[i]) = {}
       /\ i > 1 => ParentOf(evs, c[i]) = c[i - 1]
  /\ \A x \in shown : evs[x].ev = "master" /\ Closers(evs, shown, x) = {} /\ c[1] <= x =>
       \E i \in 1..Len(c) : c[i] = x

Stacked(evs, shown, c, st) ==
  /\ OpenAre(evs, shown, c)
  /\ Len(st) = Len(c) /\ \A i \in 1..Len(c) : st[i] = Entry(evs, shown, c[i])

LEMMA OpenFacts ==
  ASSUME NEW evs, NEW shown, Record(evs, shown), NEW c, OpenAre(evs, shown, c), NEW i \in 1..Len(c)
  PROVE  /\ Len(c) \in Nat \ {0} /\ DOMAIN c = 1..Len(c) /\ Len(evs) \in Nat
         /\ c[i] \in shown /\ c[i] \in 1..Len(evs) /\ evs[c[i]].depth \in Nat
         /\ i + 1 \in 1..Len(c) => /\ StandsIn(evs, c[i + 1], c[i])
                                   /\ evs[c[i + 1]].depth = evs[c[i]].depth + 1
  <1>1. /\ Len(c) \in Nat \ {0} /\ DOMAIN c = 1..Len(c)
        /\ \A k \in 1..Len(c) : c[k] \in shown
    BY LenProperties, ElementOfSeq DEF OpenAre
  <1>2. /\ Len(evs) \in Nat /\ shown \subseteq 1..Len(evs)
        /\ \A j \in 1..Len(evs) : evs[j].depth \in Nat
    BY EventFacts DEF Record, WellNested
  <1>3. ASSUME i + 1 \in 1..Len(c)
        PROVE  StandsIn(evs, c[i + 1], c[i]) /\ evs[c[i + 1]].depth = evs[c[i]].depth + 1
    <2> DEFINE k == i + 1
    <2>0. k \in 1..Len(c) /\ k > 1 /\ k - 1 = i
      BY <1>1, <1>3
    <2> HIDE DEF k
    <2>1. c[k] \in 1..Len(evs) /\ c[i] \in 1..Len(evs)
      BY <1>1, <1>2, <2>0
    <2>2. ParentOf(evs, c[k]) = c[i]
      BY <2>0 DEF OpenAre
    <2>3. c[i] # 0
      BY <1>2, <2>1
    <2>4. StandsIn(evs, c[k], c[i])
      BY <2>1, <2>2, <2>3, ParentFacts DEF Record
    <2>5. evs[c[k]].depth = evs[c[i]].depth + 1
      BY <1>2, <2>1, <2>4 DEF StandsIn
    <2> QED BY <2>4, <2>5 DEF k
  <1> QED BY <1>1, <1>2, <1>3

\* The only member of an open master that is not over is the next open one.
LEMMA OpenMember ==
  ASSUME NEW evs, NEW shown, Record(evs, shown), NEW c, OpenAre(evs, shown, c), NEW i \in 1..Len(c),
         NEW j \in Members(evs, shown, c[i]), ~Over(evs, shown, j)
  PROVE  i < Len(c) /\ j = c[i + 1]
  <1>1. /\ Len(c) \in Nat \ {0} /\ c[i] \in 1..Len(evs) /\ Len(evs) \in Nat
        /\ \A k \in 1..Len(c) : c[k] \in Nat /\ evs[c[k]].depth \in Nat
    BY OpenFacts
  <1>2. /\ j \in shown /\ IsElement(evs[j]) /\ StandsIn(evs, j, c[i]) /\ j \in (c[i] + 1)..Len(evs)
    BY <1>1, MembersAre
  <1>3. evs[j].ev = "master" /\ Closers(evs, shown, j) = {}
    BY <1>2 DEF Over, IsElement
  <1>4. c[1] <= c[i]
    <2>1. 1 \in 1..Len(c) /\ (1 < i \/ i = 1)
      BY <1>1
    <2>2. 1 < i => c[1] < c[i]
      BY <2>1 DEF OpenAre
    <2> QED BY <1>1, <2>1, <2>2
  <1>5. c[1] <= j
    <2>1. c[1] \in Nat
      BY <1>1
    <2> QED BY <1>1, <1>2, <1>4, <2>1
  <1>6. PICK m \in 1..Len(c) : c[m] = j
    BY <1>2, <1>3, <1>5 DEF OpenAre
  <1>7. evs[c[m]].depth = evs[c[i]].depth + 1
    BY <1>1, <1>2, <1>6 DEF StandsIn
  <1>8. i < m
    <2>1. m < i => c[m] < c[i]
      BY DEF OpenAre
    <2> QED BY <1>1, <1>2, <1>6, <2>1
  <1>9. i + 1 \in 1..Len(c) /\ i < Len(c)
    BY <1>1, <1>8
  <1>10. ~(i + 1 < m)
    <2>1. i + 1 < m => evs[c[i + 1]].depth < evs[c[m]].depth
      BY <1>9 DEF OpenAre
    <2>2. evs[c[i]].depth < evs[c[i + 1]].depth
      BY <1>9 DEF OpenAre
    <2> QED BY <1>1, <1>7, <1>9, <2>1, <2>2, SMTT(30)
  <1>11. m = i + 1
    BY <1>1, <1>8, <1>10
  <1> QED BY <1>6, <1>9, <1>11

\* ... and it is the last of them.
LEMMA NextIsMember ==
  ASSUME NEW evs, NEW shown, Record(evs, shown), NEW c, OpenAre(evs, shown, c), NEW i \in 1..Len(c),
         i < Len(c)
  PROVE  /\ i + 1 \in 1..Len(c) /\ c[i + 1] \in Members(evs, shown, c[i]) /\ c[i + 1] \in Nat
         /\ ~Over(evs, shown, c[i + 1])
         /\ \A y \in Members(evs, shown, c[i]) : y # c[i + 1] => y < c[i + 1]
  <1>1. /\ Len(c) \in Nat \ {0} /\ c[i] \in 1..Len(evs) /\ Len(evs) \in Nat
        /\ \A k \in 1..Len(c) : c[k] \in Nat /\ evs[c[k]].depth \in Nat
    BY OpenFacts
  <1>2. i + 1 \in 1..Len(c) /\ i + 1 > 1 /\ (i + 1) - 1 = i
    BY <1>1
  <1>3. /\ c[i + 1] \in shown /\ StandsIn(evs, c[i + 1], c[i])
        /\ evs[c[i + 1]].depth = evs[c[i]].depth + 1
    BY <1>2, OpenFacts
  <1>4. /\ evs[c[i + 1]].ev = "master" /\ Closers(evs, shown, c[i + 1]) = {}
        /\ ParentOf(evs, c[i + 1]) = c[i] /\ Closers(evs, shown, c[i]) = {}
        /\ c[i] < c[i + 1]
    <2> DEFINE k == i + 1
    <2>1. k \in 1..Len(c) /\ k > 1 /\ k - 1 = i /\ i < k
      BY <1>2
    <2> HIDE DEF k
    <2>2. /\ evs[c[k]].ev = "master" /\ Closers(evs, shown, c[k]) = {}
          /\ ParentOf(evs, c[k]) = c[i] /\ Closers(evs, shown, c[i]) = {}
          /\ c[i] < c[k]
      BY <2>1 DEF OpenAre
    <2> QED BY <2>2 DEF k
  <1>5. ~Over(evs, shown, c[i + 1])
    BY <1>4 DEF Over
  <1>6. c[i + 1] \in Members(evs, shown, c[i])
    <2>1. c[i + 1] > c[i] /\ IsElement(evs[c[i + 1]])
      BY <1>1, <1>2, <1>4 DEF IsElement
    <2> QED BY <1>3, <1>4, <2>1 DEF Members
  <1>7. ASSUME NEW y \in Members(evs, shown, c[i]), y # c[i + 1] PROVE y < c[i + 1]
    <2>1. y \in shown /\ StandsIn(evs, y, c[i]) /\ y \in (c[i] + 1)..Len(evs)
      BY <1>1, MembersAre
    <2>2. evs[y].depth = evs[c[i]].depth + 1
      <3>1. evs[y].depth \in Nat
        <4>1. y \in 1..Len(evs)
          BY <1>1, <2>1
        <4> QED BY <4>1, EventFacts DEF Record, WellNested
      <3> QED BY <1>1, <2>1, <3>1 DEF StandsIn
    <2>3. y > c[i + 1] => y \in Closers(evs, shown, c[i + 1])
      BY <1>1, <1>3, <2>1, <2>2 DEF Closers
    <2> QED BY <1>1, <1>2, <1>4, <1>7, <2>1, <2>3
  <1> QED BY <1>1, <1>2, <1>5, <1>6, <1>7

LEMMA MembersOfOpen ==
  ASSUME NEW evs, NEW shown, Record(evs, shown), NEW c, OpenAre(evs, shown, c), NEW i \in 1..Len(c)
  PROVE  LET all == Members(evs, shown, c[i])
             complete == MembersSoFar(evs, shown, c[i])
         IN /\ complete \in SUBSET (1..Len(evs)) /\ complete \subseteq all
            /\ i = Len(c) => complete = all
            /\ i < Len(c) => all = complete \cup {c[i + 1]} /\ \A y \in complete : y < c[i + 1]
  <1> DEFINE all == Members(evs, shown, c[i])
             complete == MembersSoFar(evs, shown, c[i])
  <1>1. c[i] \in 1..Len(evs) /\ Len(evs) \in Nat
    BY OpenFacts
  <1>2. all \in SUBSET (1..Len(evs))
    <2>1. all \in SUBSET ((c[i] + 1)..Len(evs))
      BY <1>1, MembersAre
    <2> QED BY <1>1, <2>1
  <1>3. complete = {j \in all : Over(evs, shown, j)}
    BY DEF MembersSoFar
  <1>4. i = Len(c) => complete = all
    <2>1. ~(Len(c) < Len(c))
      BY OpenFacts
    <2>2. i = Len(c) => \A j \in all : Over(evs, shown, j)
      BY <2>1, OpenMember
    <2> HIDE DEF all, complete
    <2> QED BY <1>3, <2>2
  <1>5. ASSUME i < Len(c)
        PROVE  all = complete \cup {c[i + 1]} /\ \A y \in complete : y < c[i + 1]
    <2>1. /\ c[i + 1] \in all /\ ~Over(evs, shown, c[i + 1])
          /\ \A y \in all : y # c[i + 1] => y < c[i + 1]
      BY <1>5, NextIsMember
    <2>2. \A j \in all : ~Over(evs, shown, j) => j = c[i + 1]
      BY OpenMember
    <2> HIDE DEF all, complete
    <2> QED BY <1>3, <2>1, <2>2
  <1> HIDE DEF all, complete
  <1>6. complete \in SUBSET (1..Len(evs)) /\ complete \subseteq all
    BY <1>2, <1>3
  <1> QED BY <1>4, <1>5, <1>6 DEF all, complete

\* What the i-th of the stack is.
StackElement(evs, shown, c, st, i) ==
  st[i].element = [id |-> evs[c[i]].id, offset |-> evs[c[i]].offset,
                   children |-> ElementsAt(ShownElement(evs, shown),
                                           MembersSoFar(evs, shown, c[i]))]

LEMMA StackElementIs ==
  ASSUME NEW evs, NEW shown, NEW c, NEW st, Stacked(evs, shown, c, st), NEW i \in 1..Len(c)
  PROVE  StackElement(evs, shown, c, st, i) /\ st[i].depth = evs[c[i]].depth
  <1> DEFINE s == st[i]
             x == c[i]
             kids == ChildrenSoFar(evs, shown, x)
  <1>1. s = Entry(evs, shown, x)
    BY DEF Stacked
  <1>2. kids = ElementsAt(ShownElement(evs, shown), MembersSoFar(evs, shown, x))
    BY SoFarIs
  <1> HIDE DEF s, x, kids
  <1>3. Entry(evs, shown, x) = [element |-> [id |-> evs[x].id, offset |-> evs[x].offset,
                                             children |-> kids], depth |-> evs[x].depth]
    BY DEF Entry, kids
  <1>4. s.element = [id |-> evs[x].id, offset |-> evs[x].offset, children |-> kids]
        /\ s.depth = evs[x].depth
    BY ONLY <1>1, <1>3
  <1> QED BY <1>2, <1>4 DEF s, x, StackElement

\* Closing the stack from the innermost on makes of each master what it was shown to hold.
LEMMA ClosingShows ==
  ASSUME NEW evs, NEW shown, Record(evs, shown), NEW c, NEW st, Stacked(evs, shown, c, st)
  PROVE  \A i \in 1..Len(c) : Closing(st)[i] = ShownElement(evs, shown)[c[i]]
  <1> DEFINE m == Len(c)
             el == ShownElement(evs, shown)
             Step(f, i) == IF i = Len(st) THEN st[i].element ELSE AppendChild(st[i].element, f[i + 1])
             Whole(f) == f = [i \in 1..Len(st) |-> Step(f, i)]
             F == [i \in 1..m |-> el[c[i]]]
  <1>0. \A i \in 1..Len(c) : StackElement(evs, shown, c, st, i)
    BY StackElementIs
  <1>1. OpenAre(evs, shown, c) /\ Len(st) = m
    BY DEF Stacked
  <1>2. m \in Nat \ {0} /\ Len(evs) \in Nat
    <2>1. m \in Nat \ {0}
      BY <1>1, LenProperties DEF OpenAre
    <2> QED BY <2>1, EventFacts DEF Record, WellNested
  <1>3. ASSUME NEW i \in 1..m
        PROVE  /\ i = m => el[c[i]] = st[i].element
               /\ i # m => el[c[i]] = AppendChild(st[i].element, el[c[i + 1]])
    <2> DEFINE all == Members(evs, shown, c[i])
               complete == MembersSoFar(evs, shown, c[i])
    <2>1. c[i] \in 1..Len(evs)
      BY <1>1, OpenFacts
    <2>2. el[c[i]] = [id |-> evs[c[i]].id, offset |-> evs[c[i]].offset, children |-> ElementsAt(el, all)]
      BY <2>1, ShownElementIs
    <2>3. st[i].element = [id |-> evs[c[i]].id, offset |-> evs[c[i]].offset,
                           children |-> ElementsAt(el, complete)]
      BY <1>0 DEF StackElement
    <2>4. /\ complete \in SUBSET (1..Len(evs))
          /\ i = Len(c) => complete = all
          /\ i < Len(c) => all = complete \cup {c[i + 1]} /\ \A y \in complete : y < c[i + 1]
      BY <1>1, MembersOfOpen
    <2> HIDE DEF all, complete, el
    <2>5. CASE i = m
      BY <2>2, <2>3, <2>4, <2>5
    <2>6. CASE i # m
      <3>1. i < Len(c) /\ i + 1 \in 1..Len(c)
        BY <1>2, <2>6
      <3>2. c[i + 1] \in Nat
        <4>1. c[i + 1] \in 1..Len(evs)
          BY <1>1, <3>1, OpenFacts
        <4> QED BY <1>2, <4>1
      <3>3. ElementsAt(el, all) = Append(ElementsAt(el, complete), el[c[i + 1]])
        BY <1>2, <2>4, <3>1, <3>2, ElementsGrow
      <3>4. AppendChild(st[i].element, el[c[i + 1]]) =
              [id |-> evs[c[i]].id, offset |-> evs[c[i]].offset,
               children |-> Append(ElementsAt(el, complete), el[c[i + 1]])]
        BY <2>3, ElementWithChild
      <3> QED BY <2>2, <2>6, <3>3, <3>4
    <2> QED BY <2>5, <2>6
  <1>4. Whole(F)
    <2>1. ASSUME NEW i \in 1..m PROVE F[i] = Step(F, i)
      <3>1. i # m => i + 1 \in 1..m
        BY <1>2
      <3>2. F[i] = el[c[i]] /\ (i # m => F[i + 1] = el[c[i + 1]])
        BY <3>1
      <3> HIDE DEF F
      <3> QED BY <1>1, <1>3, <3>2
    <2>2. F = [i \in 1..m |-> F[i]]
      OBVIOUS
    <2> HIDE DEF F, m, Step
    <2> QED BY <1>1, <2>1, <2>2
  <1>5. ASSUME NEW g, Whole(g), NEW i \in 1..m PROVE g[i] = F[i]
    <2> DEFINE S == {k \in 0..m : k = 0 \/ g[k] = F[k]}
    <2>1. \A k \in 1..m : g[k] = Step(g, k) /\ F[k] = Step(F, k)
      <3>1. \A k \in 1..m : g[k] = Step(g, k)
        <4> HIDE DEF Step
        <4> QED BY <1>1, <1>5
      <3>2. \A k \in 1..m : F[k] = Step(F, k)
        <4> HIDE DEF Step, F
        <4> QED BY <1>1, <1>4
      <3> QED BY <3>1, <3>2
    <2> HIDE DEF F, Whole
    <2>2. m \in S
      BY <1>1, <1>2, <2>1
    <2>3. ASSUME NEW k \in 0..(m - 1), k + 1 \in S PROVE k \in S
      <3>1. k = 0 \/ (k \in 1..m /\ k # m)
        BY <1>2
      <3>2. k + 1 # 0 /\ k \in 0..m
        BY <1>2
      <3>3. g[k + 1] = F[k + 1]
        BY <2>3, <3>2
      <3> QED BY <1>1, <2>1, <3>1, <3>2, <3>3
    <2> HIDE DEF S, m
    <2>4. 0..m \subseteq S
      BY <1>2, <2>2, <2>3, DownwardInduction
    <2>5. i \in S /\ i # 0
      BY <1>2, <2>4
    <2> QED BY <2>5 DEF S
  <1>6. Closing(st) = CHOOSE f : Whole(f)
    BY DEF Closing
  <1> HIDE DEF Whole
  <1>7. Whole(Closing(st))
    BY <1>4, <1>6
  <1>8. \A i \in 1..m : Closing(st)[i] = F[i]
    BY <1>5, <1>7
  <1>9. \A i \in 1..m : F[i] = el[c[i]]
    OBVIOUS
  <1> HIDE DEF F, el, m
  <1>10. \A i \in 1..m : Closing(st)[i] = el[c[i]]
    BY <1>8, <1>9
  <1> QED BY <1>10 DEF m, el

-----------------------------------------------------------------------------
(* What the last node, when it is shown, makes of the open masters.        *)

\* The masters it stands in are the lowest k.
Around(evs, c, k) ==
  /\ k \in 0..Len(c)
  /\ \A i \in 1..Len(c) : evs[c[i]].depth < evs[Len(evs)].depth <=> i <= k

\* It closes the others.
LEMMA StaysOpen ==
  ASSUME NEW evs, NEW shown, NEW shown2, ShowsLast(evs, shown, shown2),
         NEW c, OpenAre(evs, shown, c), NEW k, Around(evs, c, k), NEW i \in 1..Len(c)
  PROVE  /\ i <= k => Closers(evs, shown2, c[i]) = {}
         /\ ~(i <= k) => Closers(evs, shown2, c[i]) # {}
  <1>1. /\ c[i] \in shown /\ c[i] \in 1..Len(evs) /\ c[i] < Len(evs)
        /\ Closers(evs, shown, c[i]) = {}
        /\ evs[c[i]].depth \in Nat /\ evs[Len(evs)].depth \in Nat
    <2>1. Record(evs, shown) /\ \A j \in shown : j < Len(evs)
      BY LastFacts
    <2>2. c[i] \in shown /\ c[i] \in 1..Len(evs) /\ evs[c[i]].depth \in Nat
      BY <2>1, OpenFacts
    <2>3. Closers(evs, shown, c[i]) = {}
      BY DEF OpenAre
    <2>4. evs[Len(evs)].depth \in Nat
      BY LastFacts
    <2> QED BY <2>1, <2>2, <2>3, <2>4
  <1>2. i <= k <=> ~(evs[Len(evs)].depth <= evs[c[i]].depth)
    BY <1>1 DEF Around
  <1>3. i <= k => Closers(evs, shown2, c[i]) = Closers(evs, shown, c[i])
    BY <1>1, <1>2, ClosersGrow
  <1>4. ~(i <= k) => Closers(evs, shown2, c[i]) = Closers(evs, shown, c[i]) \cup {Len(evs)}
    BY <1>1, <1>2, ClosersGrow
  <1> QED BY <1>1, <1>3, <1>4

\* What is open afterwards, the node aside, was open before.
LEMMA WasOpen ==
  ASSUME NEW evs, NEW shown, NEW shown2, ShowsLast(evs, shown, shown2),
         NEW c, OpenAre(evs, shown, c), NEW k, Around(evs, c, k),
         NEW x \in shown, evs[x].ev = "master", Closers(evs, shown2, x) = {}, c[1] <= x
  PROVE  \E i \in 1..k : c[i] = x
  <1>1. x \in 1..Len(evs)
    BY LastFacts
  <1>2. Closers(evs, shown, x) = {}
    BY <1>1, ClosersGrow
  <1>3. PICK i \in 1..Len(c) : c[i] = x
    BY <1>2 DEF OpenAre
  <1>4. i <= k
    BY <1>3, StaysOpen
  <1>5. Len(c) \in Nat /\ k \in Nat
    BY OpenFacts DEF Around
  <1> QED BY <1>3, <1>4, <1>5

\* A node that is shown with the master it stands in stands in the innermost one left.
LEMMA StandsInInnermost ==
  ASSUME NEW evs, NEW shown, NEW shown2, ShowsLast(evs, shown, shown2),
         NEW c, OpenAre(evs, shown, c), NEW k, Around(evs, c, k), k # 0,
         ParentOf(evs, Len(evs)) \in shown
  PROVE  ParentOf(evs, Len(evs)) = c[k]
  <1> DEFINE n == Len(evs)
             i == ParentOf(evs, n)
             d == evs[n].depth
  <1>1. /\ n \in Nat \ {0} /\ n \in 1..Len(evs) /\ WellNested(evs)
        /\ \A j \in shown : j < n /\ j \in 1..Len(evs)
        /\ \A j \in 1..Len(evs) : evs[j].depth \in Nat
    BY LastFacts DEF Record
  <1>2. /\ Len(c) \in Nat \ {0} /\ 1 \in 1..Len(c) /\ k \in 1..Len(c) /\ 1 <= k
        /\ \A m \in 1..Len(c) : c[m] \in shown
    <2>1. OpenAre(evs, shown, c) /\ Len(c) # 0 /\ Len(c) \in Nat
      BY LenProperties DEF OpenAre
    <2>2. k \in 0..Len(c)
      BY DEF Around
    <2>3. \A m \in 1..Len(c) : c[m] \in shown
      BY <2>1, ElementOfSeq DEF OpenAre
    <2> QED BY <2>1, <2>2, <2>3
  <1>3. i # 0
    BY <1>1
  <1>4. StandsIn(evs, n, i)
    BY <1>1, <1>3, ParentFacts
  <1> HIDE DEF i
  <1>5. /\ i \in 1..(n - 1) /\ evs[i].ev = "master" /\ evs[i].depth = d - 1
        /\ \A m \in (i + 1)..n : evs[m].depth >= d
    BY <1>4 DEF StandsIn
  <1>6. Closers(evs, shown, i) = {}
    <2> SUFFICES ASSUME NEW j \in Closers(evs, shown, i) PROVE FALSE
      OBVIOUS
    <2>1. j \in shown /\ j > i /\ evs[j].depth <= evs[i].depth
      BY DEF Closers
    <2>2. j \in (i + 1)..n /\ evs[j].depth \in Nat /\ d \in Nat
      BY <1>1, <1>5, <2>1
    <2> HIDE DEF n, d
    <2> QED BY <1>5, <2>1, <2>2
  <1>7. c[1] <= i
    <2>1. evs[c[1]].depth < d
      BY <1>2 DEF Around
    <2>2. c[1] \in Nat /\ c[1] < n /\ i \in Nat /\ n \in Nat /\ evs[c[1]].depth \in Nat /\ d \in Nat
      BY <1>1, <1>2, <1>5
    <2> HIDE DEF n, d
    <2>3. ~(c[1] \in (i + 1)..n)
      BY <1>5, <2>1, <2>2
    <2> QED BY <2>2, <2>3
  <1>8. i \in shown
    BY DEF i
  <1>9. PICK m \in 1..Len(c) : c[m] = i
    BY <1>5, <1>6, <1>7, <1>8 DEF OpenAre
  <1>10. d \in Nat /\ evs[c[m]].depth = d - 1 /\ evs[c[m]].depth < d /\ evs[c[k]].depth < d
         /\ evs[c[k]].depth \in Nat /\ evs[c[m]].depth \in Nat
    <2>1. evs[c[k]].depth < d
      BY <1>2 DEF Around
    <2>2. d \in Nat /\ evs[c[k]].depth \in Nat /\ evs[c[m]].depth \in Nat
      BY <1>1, <1>2
    <2> HIDE DEF d
    <2> QED BY <1>5, <1>9, <2>1, <2>2
  <1>11. m <= k
    BY <1>10 DEF Around
  <1>12. ~(m < k)
    <2>1. m < k => evs[c[m]].depth < evs[c[k]].depth
      BY <1>2 DEF OpenAre
    <2> HIDE DEF d
    <2> QED BY <1>10, <2>1
  <1>13. m = k
    BY <1>2, <1>11, <1>12
  <1> QED BY <1>9, <1>13 DEF i, n

-----------------------------------------------------------------------------
(* ... and of what they hold.                                              *)

\* A master that is not the innermost one left holds what it held.
LEMMA KidsBelow ==
  ASSUME NEW evs, NEW shown, NEW shown2, ShowsLast(evs, shown, shown2),
         NEW c, OpenAre(evs, shown, c), NEW k, Around(evs, c, k),
         IsElement(evs[Len(evs)]) => ParentOf(evs, Len(evs)) = c[k],
         NEW i \in 1..Len(c), i < k
  PROVE  ChildrenSoFar(evs, shown2, c[i]) = ChildrenSoFar(evs, shown, c[i])
  <1> DEFINE f  == ShownElement(evs, shown)
             f2 == ShownElement(evs, shown2)
             m  == MembersSoFar(evs, shown, c[i])
             m2 == MembersSoFar(evs, shown2, c[i])
  <1>1. /\ Len(evs) \in Nat \ {0} /\ c[i] \in 1..Len(evs) /\ Record(evs, shown) /\ Record(evs, shown2)
        /\ shown \subseteq 1..Len(evs)
    BY OpenFacts, LastFacts
  <1>2. k \in 1..Len(c) /\ i < Len(c) /\ i <= k /\ i + 1 <= k /\ i + 1 \in 1..Len(c)
    BY OpenFacts DEF Around
  <1>3. Members(evs, shown2, c[i]) = Members(evs, shown, c[i])
    <2>1. c[i] # c[k]
      <3>1. c[i] < c[k]
        BY <1>2 DEF OpenAre
      <3>2. c[i] \in Nat /\ c[k] \in Nat
        BY <1>1, <1>2, OpenFacts
      <3> QED BY <3>1, <3>2
    <2>2. Len(evs) \notin Members(evs, shown2, c[i])
      BY <1>1, <2>1, MembersGrow
    <2>3. Members(evs, shown2, c[i]) \ {Len(evs)} = Members(evs, shown, c[i])
      BY <1>1, MembersGrow
    <2> QED BY <2>2, <2>3
  <1>4. ASSUME NEW j \in Members(evs, shown, c[i])
        PROVE  Over(evs, shown2, j) <=> Over(evs, shown, j)
    <2>1. j \in 1..Len(evs)
      <3>1. j \in shown
        BY DEF Members
      <3> QED BY <1>1, <3>1
    <2>2. CASE Over(evs, shown, j)
      BY <2>1, <2>2, ClosersGrow DEF Over
    <2>3. CASE ~Over(evs, shown, j)
      <3>1. j = c[i + 1]
        BY <1>1, <2>3, OpenMember
      <3>2. Closers(evs, shown2, j) = {}
        BY <1>2, <3>1, StaysOpen
      <3> QED BY <2>3, <3>2 DEF Over
    <2> QED BY <2>2, <2>3
  <1>5. m2 = m
    <2>1. m = {j \in Members(evs, shown, c[i]) : Over(evs, shown, j)}
      BY DEF MembersSoFar
    <2>2. m2 = {j \in Members(evs, shown2, c[i]) : Over(evs, shown2, j)}
      BY DEF MembersSoFar
    <2> HIDE DEF m, m2
    <2> QED BY <1>3, <1>4, <2>1, <2>2
  <1>6. m \in SUBSET (1..Len(evs))
    BY <1>1, MembersOfOpen
  <1>7. ASSUME NEW j \in m PROVE f2[j] = f[j]
    <2>1. j \in 1..Len(evs)
      BY <1>6
    <2>2. Over(evs, shown2, j)
      BY <1>4, <1>7 DEF MembersSoFar
    <2> QED BY <2>1, <2>2, OverStays
  <1> HIDE DEF f, f2, m, m2
  <1>8. ElementsAt(f2, m2) = ElementsAt(f, m)
    BY <1>1, <1>5, <1>6, <1>7, ElementsAgree
  <1> QED BY <1>8, SoFarIs DEF f, f2, m, m2

\* The innermost one left holds complete all that it held, and the node if it is a leaf.
LEMMA KidsInnermost ==
  ASSUME NEW evs, NEW shown, NEW shown2, ShowsLast(evs, shown, shown2),
         NEW c, OpenAre(evs, shown, c), NEW k, Around(evs, c, k), k # 0,
         IsElement(evs[Len(evs)]) => ParentOf(evs, Len(evs)) = c[k]
  PROVE  LET held2 == MembersSoFar(evs, shown2, c[k])
             all   == Members(evs, shown, c[k])
         IN /\ evs[Len(evs)].ev = "leaf" => held2 = all \cup {Len(evs)}
            /\ evs[Len(evs)].ev # "leaf" => held2 = all
            /\ all \in SUBSET (1..Len(evs))
            /\ \A j \in all : j < Len(evs)
                              /\ ShownElement(evs, shown2)[j] = ShownElement(evs, shown)[j]
  <1> DEFINE n == Len(evs)
             held2 == MembersSoFar(evs, shown2, c[k])
             all == Members(evs, shown, c[k])
  <1>1. /\ Len(evs) \in Nat \ {0} /\ Record(evs, shown) /\ Record(evs, shown2)
        /\ n \in 1..Len(evs) /\ \A j \in shown : j < n /\ j \in 1..Len(evs)
    BY LastFacts
  <1>2. k \in 1..Len(c) /\ Len(c) \in Nat \ {0} /\ k <= k
    <2>1. Len(c) \in Nat \ {0}
      BY LenProperties DEF OpenAre
    <2> QED BY <2>1 DEF Around
  <1>3. c[k] \in 1..Len(evs) /\ c[k] < n
    BY <1>1, <1>2, OpenFacts
  <1>4. \A j \in all : j \in shown /\ j < n /\ j \in 1..Len(evs)
    BY <1>1 DEF Members
  <1>5. ASSUME NEW j \in all PROVE Over(evs, shown2, j)
    <2>1. CASE Over(evs, shown, j)
      BY <1>4, <2>1, ClosersGrow DEF Over
    <2>2. CASE ~Over(evs, shown, j)
      <3>1. k < Len(c) /\ j = c[k + 1]
        BY <1>1, <1>2, <2>2, OpenMember
      <3>2. k + 1 \in 1..Len(c) /\ ~(k + 1 <= k)
        BY <1>2, <3>1
      <3>3. Closers(evs, shown2, j) # {}
        <4> DEFINE l == k + 1
        <4>1. l \in 1..Len(c) /\ ~(l <= k)
          BY <3>2
        <4> HIDE DEF l
        <4>2. Closers(evs, shown2, c[l]) # {}
          BY <4>1, StaysOpen
        <4> QED BY <3>1, <4>2 DEF l
      <3> QED BY <3>3 DEF Over
    <2> QED BY <2>1, <2>2
  <1>6. Closers(evs, shown2, c[k]) = {} /\ Closers(evs, shown2, n) = {}
    BY <1>1, <1>2, StaysOpen, ClosersGrow
  <1>7. /\ Members(evs, shown2, c[k]) \ {n} = all /\ n \notin all
        /\ n \in Members(evs, shown2, c[k]) <=> IsElement(evs[n])
    BY <1>3, <1>6, MembersGrow
  <1>8. held2 = {j \in Members(evs, shown2, c[k]) : Over(evs, shown2, j)}
    BY DEF MembersSoFar
  <1>9. n \in held2 <=> evs[n].ev = "leaf"
    BY <1>6, <1>7, <1>8 DEF Over, IsElement
  <1>10. \A j : j # n => (j \in held2 <=> j \in all)
    BY <1>5, <1>7, <1>8
  <1>11. held2 = IF evs[n].ev = "leaf" THEN all \cup {n} ELSE all
    <2>1. n \notin all
      BY <1>7
    <2> HIDE DEF held2, all, n
    <2>2. \A j : j \in held2 <=> j \in (IF evs[n].ev = "leaf" THEN all \cup {n} ELSE all)
      BY <1>9, <1>10, <2>1
    <2> QED BY <2>2
  <1>12. all \in SUBSET (1..Len(evs))
    BY <1>4
  <1>13. \A j \in all : ShownElement(evs, shown2)[j] = ShownElement(evs, shown)[j]
    BY <1>4, <1>5, OverStays
  <1> QED BY <1>4, <1>11, <1>12, <1>13

\* What is in a node that was shown just now.
LEMMA FreshElement ==
  ASSUME NEW evs, NEW shown, NEW shown2, ShowsLast(evs, shown, shown2)
  PROVE  /\ ShownElement(evs, shown2)[Len(evs)] = FromNode(evs[Len(evs)])
         /\ ChildrenSoFar(evs, shown2, Len(evs)) = << >>
  <1> DEFINE n == Len(evs)
             f == ShownElement(evs, shown2)
  <1>1. n \in 1..Len(evs) /\ Record(evs, shown2)
    BY LastFacts
  <1>2. Members(evs, shown2, n) = {}
    BY <1>1, MembersGrow
  <1>3. MembersSoFar(evs, shown2, n) = {}
    BY <1>2 DEF MembersSoFar
  <1>4. ElementsAt(f, {}) = << >>
    BY NoElements
  <1>5. ChildrenSoFar(evs, shown2, n) = ElementsAt(f, MembersSoFar(evs, shown2, n))
    BY SoFarIs
  <1>6. f[n] = [id |-> evs[n].id, offset |-> evs[n].offset, children |-> ElementsAt(f, Members(evs, shown2, n))]
    BY <1>1, ShownElementIs
  <1> HIDE DEF f, n
  <1> QED BY <1>2, <1>3, <1>4, <1>5, <1>6 DEF FromNode, f, n

-----------------------------------------------------------------------------
(* The stack once it is unwound.                                           *)

\* The innermost master left, complete but for the node itself.
Innermost(evs, shown, shown2, x) ==
  [element |-> [id |-> evs[x].id, offset |-> evs[x].offset,
                children |-> ElementsAt(ShownElement(evs, shown2), Members(evs, shown, x))],
   depth |-> evs[x].depth]

\* The node stands in the k-th master of the stack, and it was shown that master.
Inside(evs, c, k) ==
  /\ Around(evs, c, k) /\ k # 0
  /\ IsElement(evs[Len(evs)]) => ParentOf(evs, Len(evs)) = c[k]

LEMMA InnermostGains ==
  ASSUME NEW evs, NEW shown, NEW shown2, ShowsLast(evs, shown, shown2),
         NEW c, OpenAre(evs, shown, c), NEW k, Inside(evs, c, k)
  PROVE  LET f        == ShownElement(evs, shown)
             complete == MembersSoFar(evs, shown, c[k])
         IN ElementsAt(ShownElement(evs, shown2), Members(evs, shown, c[k])) =
              IF k = Len(c) THEN ElementsAt(f, complete)
              ELSE Append(ElementsAt(f, complete), f[c[k + 1]])
  <1> DEFINE f == ShownElement(evs, shown)
             f2 == ShownElement(evs, shown2)
             complete == MembersSoFar(evs, shown, c[k])
             all == Members(evs, shown, c[k])
             l == k + 1
  <1>1. /\ Len(evs) \in Nat \ {0} /\ Record(evs, shown)
    BY LastFacts
  <1>2. k \in 1..Len(c) /\ Len(c) \in Nat \ {0}
    <2>1. Len(c) \in Nat \ {0}
      BY LenProperties DEF OpenAre
    <2> QED BY <2>1 DEF Around, Inside
  <1>3. all \in SUBSET (1..Len(evs)) /\ \A j \in all : f2[j] = f[j]
    <2>1. Around(evs, c, k) /\ k # 0 /\ (IsElement(evs[Len(evs)]) => ParentOf(evs, Len(evs)) = c[k])
      BY DEF Inside
    <2>2. ShowsLast(evs, shown, shown2) /\ OpenAre(evs, shown, c)
      OBVIOUS
    <2> QED BY ONLY <2>1, <2>2, KidsInnermost
  <1>4. /\ complete \in SUBSET (1..Len(evs))
        /\ k = Len(c) => complete = all
        /\ k < Len(c) => all = complete \cup {c[l]} /\ \A y \in complete : y < c[l]
    BY <1>1, <1>2, MembersOfOpen
  <1>5. k # Len(c) => l \in 1..Len(c) /\ k < Len(c)
    BY <1>2
  <1> HIDE DEF l
  <1>6. k # Len(c) => c[l] \in Nat
    <2>1. ASSUME k # Len(c) PROVE c[l] \in 1..Len(evs)
      BY <1>1, <1>5, <2>1, OpenFacts
    <2> QED BY <1>1, <2>1
  <1> HIDE DEF f, f2, complete, all
  <1>7. ElementsAt(f2, all) = ElementsAt(f, all)
    BY <1>1, <1>3, ElementsAgree
  <1>8. k = Len(c) => ElementsAt(f, all) = ElementsAt(f, complete)
    BY <1>4
  <1>9. ASSUME k # Len(c)
        PROVE  ElementsAt(f, all) = Append(ElementsAt(f, complete), f[c[l]])
    <2>1. all = complete \cup {c[l]} /\ \A y \in complete : y < c[l]
      BY <1>4, <1>5, <1>9
    <2>2. ElementsAt(f, complete \cup {c[l]}) = Append(ElementsAt(f, complete), f[c[l]])
      BY <1>1, <1>4, <1>6, <1>9, <2>1, ElementsGrow
    <2> QED BY <2>1, <2>2
  <1> QED BY <1>7, <1>8, <1>9 DEF f, f2, complete, all, l

\* What unwinding leaves.
Unwinds(evs, shown, shown2, c, k, u) ==
  /\ Len(u) = k
  /\ \A i \in 1..k : i < k => u[i] = Entry(evs, shown2, c[i])
  /\ u[k] = Innermost(evs, shown, shown2, c[k])

LEMMA UnwoundIs ==
  ASSUME NEW evs, NEW shown, NEW shown2, ShowsLast(evs, shown, shown2),
         NEW c, NEW st, Stacked(evs, shown, c, st), NEW sc, Agree(st, sc),
         NEW k, Inside(evs, c, k), k = Enclosing(st, evs[Len(evs)].depth)
  PROVE  /\ Unwinds(evs, shown, shown2, c, k, UnwoundStack(st, evs[Len(evs)].depth))
         /\ k = 1 /\ Len(st) > 1 => Closing(st)[2] = ShownElement(evs, shown)[c[2]]
  <1> DEFINE d == evs[Len(evs)].depth
             u == UnwoundStack(st, d)
             low == SubSeq(st, 1, k)
             f == ShownElement(evs, shown)
             kids == ElementsAt(f, MembersSoFar(evs, shown, c[k]))
             kids2 == ElementsAt(ShownElement(evs, shown2), Members(evs, shown, c[k]))
             x == c[k]
             l == k + 1
  <1>1. OpenAre(evs, shown, c) /\ Len(st) = Len(c) /\ Record(evs, shown)
    BY LastFacts DEF Stacked
  <1>2. k \in 1..Len(st) /\ Len(c) \in Nat \ {0} /\ Around(evs, c, k) /\ k # 0
    <2>1. Len(c) \in Nat \ {0}
      BY <1>1, LenProperties DEF OpenAre
    <2>2. Around(evs, c, k) /\ k # 0
      BY DEF Inside
    <2>3. k \in 0..Len(c)
      BY <2>2 DEF Around
    <2> QED BY <1>1, <2>1, <2>2, <2>3
  <1>3. Len(low) = k /\ \A i \in 1..k : low[i] = st[i]
    BY <1>2, LowestAgree
  <1>4. st[k].element = [id |-> evs[x].id, offset |-> evs[x].offset, children |-> kids]
        /\ st[k].depth = evs[x].depth
    <2>1. StackElement(evs, shown, c, st, k) /\ st[k].depth = evs[c[k]].depth
      BY <1>1, <1>2, StackElementIs
    <2> QED BY <2>1 DEF StackElement
  <1>5. kids2 = IF k = Len(c) THEN kids ELSE Append(kids, f[c[l]])
    <2>1. ShowsLast(evs, shown, shown2) /\ OpenAre(evs, shown, c) /\ Inside(evs, c, k)
      BY <1>1
    <2> QED BY ONLY <2>1, InnermostGains
  <1>6. \A i \in 1..Len(c) : Closing(st)[i] = f[c[i]]
    BY <1>1, ClosingShows
  <1>7. ASSUME NEW i \in 1..k, i < k PROVE st[i] = Entry(evs, shown2, c[i])
    <2>1. i \in 1..Len(c)
      BY <1>1, <1>2
    <2>2. IsElement(evs[Len(evs)]) => ParentOf(evs, Len(evs)) = c[k]
      BY DEF Inside
    <2>0. ShowsLast(evs, shown, shown2) /\ OpenAre(evs, shown, c) /\ Around(evs, c, k)
      BY <1>1, <1>2
    <2>3. ChildrenSoFar(evs, shown2, c[i]) = ChildrenSoFar(evs, shown, c[i])
      BY ONLY <1>7, <2>0, <2>1, <2>2, KidsBelow
    <2>4. st[i] = Entry(evs, shown, c[i])
      BY <2>1 DEF Stacked
    <2> QED BY <2>3, <2>4 DEF Entry
  <1>8. st[k] = [element |-> st[k].element, depth |-> st[k].depth]
    BY <1>2 DEF Agree
  <1>9. CASE k = Len(c)
    <2>1. u = low
      BY <1>1, <1>2, <1>9 DEF UnwoundStack
    <2>2. kids2 = kids
      BY <1>5, <1>9
    <2>3. u[k] = st[k]
      BY <1>2, <1>3, <2>1
    <2> HIDE DEF u, low, kids, kids2
    <2>4. u[k] = Innermost(evs, shown, shown2, x)
      BY <1>4, <1>8, <2>2, <2>3 DEF Innermost, kids2
    <2>5. \A i \in 1..k : i < k => u[i] = Entry(evs, shown2, c[i])
      BY <1>3, <1>7, <2>1
    <2>6. Len(u) = k
      BY <1>3, <2>1
    <2>7. ~(k = 1 /\ Len(st) > 1)
      BY <1>1, <1>9, <1>2
    <2> HIDE DEF x
    <2> QED BY <2>4, <2>5, <2>6, <2>7 DEF Unwinds, u, x
  <1>10. CASE k # Len(c)
    <2> DEFINE child == Closing(st)[l]
    <2>1. k # Len(st) /\ l \in 1..Len(c)
      BY <1>1, <1>2, <1>10
    <2>2. u = [low EXCEPT ![k].element = AppendChild(@, child)]
      <3> HIDE DEF low, child
      <3> QED BY <1>2, <2>1 DEF UnwoundStack, low, child
    <2>3. child = f[c[l]]
      BY <1>6, <2>1
    <2>4. AppendChild(st[k].element, child) = [id |-> evs[x].id, offset |-> evs[x].offset, children |-> kids2]
      <3> HIDE DEF l, kids, kids2, x, f, child
      <3> QED BY <1>4, <1>5, <1>10, <2>3, ElementWithChild
    <2>5. DOMAIN low = 1..k
      <3>1. Agree(low, sc)
        BY <1>2, LowestAgree
      <3> QED BY <1>3, <3>1, ElementsOfSequence DEF Agree
    <2>6. low[k] = [element |-> st[k].element, depth |-> st[k].depth]
      BY <1>2, <1>3, <1>8
    <2> HIDE DEF low, child, kids2, u, l, f
    <2>7. /\ \A i \in 1..k : i # k => u[i] = low[i]
          /\ u[k] = [low[k] EXCEPT !.element = AppendChild(@, child)]
          /\ DOMAIN u = 1..k
      BY <1>2, <2>2, <2>5
    <2>8. u[k] = [element |-> AppendChild(st[k].element, child), depth |-> st[k].depth]
      BY <2>6, <2>7
    <2>9. u[k] = Innermost(evs, shown, shown2, x)
      BY <1>4, <2>4, <2>8 DEF Innermost, kids2
    <2>10. \A i \in 1..k : i < k => u[i] = Entry(evs, shown2, c[i])
      BY <1>2, <1>3, <1>7, <2>7
    <2>11. Len(u) = k
      <3>1. k \in Nat
        BY <1>1, <1>2
      <3> QED BY <2>7, <3>1
    <2>12. k = 1 /\ Len(st) > 1 => Closing(st)[2] = f[c[2]]
      <3>1. Len(st) > 1 => 2 \in 1..Len(c)
        BY <1>1, <1>2
      <3> QED BY <1>6, <3>1
    <2> HIDE DEF x
    <2> QED BY <2>9, <2>10, <2>11, <2>12 DEF Unwinds, u, x, f
  <1> QED BY <1>9, <1>10

-----------------------------------------------------------------------------
(* The masters open once the node is shown, and the stack of them.         *)

\* The masters the node does not close.
Lowest(evs, shown, shown2, c, k, low) ==
  /\ low \in Seq(shown) /\ Len(low) = k /\ k \in Nat \ {0} /\ k <= Len(c)
  /\ \A i \in 1..k : low[i] = c[i] /\ c[i] \in shown /\ c[i] < Len(evs) /\ c[i] \in Nat
  /\ \A i \in 1..k : /\ evs[low[i]].ev = "master" /\ Closers(evs, shown2, low[i]) = {}
                     /\ evs[low[i]].depth < evs[Len(evs)].depth
                     /\ i > 1 => ParentOf(evs, low[i]) = low[i - 1]
  /\ \A i, j \in 1..k : i < j => low[i] < low[j] /\ evs[low[i]].depth < evs[low[j]].depth
  /\ \A x \in shown : evs[x].ev = "master" /\ Closers(evs, shown2, x) = {} /\ low[1] <= x =>
       \E i \in 1..k : low[i] = x

LEMMA LowestOpen ==
  ASSUME NEW evs, NEW shown, NEW shown2, ShowsLast(evs, shown, shown2),
         NEW c, OpenAre(evs, shown, c), NEW k, Around(evs, c, k), k # 0
  PROVE  Lowest(evs, shown, shown2, c, k, SubSeq(c, 1, k))
  <1> DEFINE low == SubSeq(c, 1, k)
  <1>1. c \in Seq(shown) /\ Len(c) \in Nat \ {0} /\ k \in 1..Len(c)
    <2>1. c \in Seq(shown) /\ Len(c) \in Nat \ {0}
      BY LenProperties DEF OpenAre
    <2> QED BY <2>1 DEF Around
  <1>2. low \in Seq(shown) /\ Len(low) = k /\ \A i \in 1..k : low[i] = c[i]
    BY <1>1, SubSeqProperties
  <1> HIDE DEF low
  <1>3. \A i \in 1..k : i \in 1..Len(c) /\ i <= k
    BY <1>1
  <1>4. \A i \in 1..k : c[i] \in shown /\ c[i] < Len(evs) /\ c[i] \in Nat
    <2>1. \A x \in shown : x < Len(evs) /\ x \in Nat
      BY LastFacts
    <2>2. \A i \in 1..k : c[i] \in shown
      BY <1>1, <1>3, ElementOfSeq
    <2> QED BY <2>1, <2>2
  <1>5. ASSUME NEW i \in 1..k
        PROVE  /\ evs[low[i]].ev = "master" /\ Closers(evs, shown2, low[i]) = {}
               /\ evs[low[i]].depth < evs[Len(evs)].depth
               /\ i > 1 => ParentOf(evs, low[i]) = low[i - 1]
    <2>1. i \in 1..Len(c) /\ i <= k
      BY <1>3
    <2>2. Closers(evs, shown2, c[i]) = {}
      BY <2>1, StaysOpen
    <2>3. evs[c[i]].ev = "master" /\ (i > 1 => ParentOf(evs, c[i]) = c[i - 1])
      BY <2>1 DEF OpenAre
    <2>4. evs[c[i]].depth < evs[Len(evs)].depth
      BY <2>1 DEF Around
    <2>5. low[i] = c[i] /\ (i > 1 => low[i - 1] = c[i - 1])
      <3>1. i > 1 => i - 1 \in 1..k
        BY <1>1
      <3> QED BY <1>2, <3>1
    <2> QED BY <2>2, <2>3, <2>4, <2>5
  <1>6. \A i, j \in 1..k : i < j => low[i] < low[j] /\ evs[low[i]].depth < evs[low[j]].depth
    BY <1>2, <1>3 DEF OpenAre
  <1>7. ASSUME NEW x \in shown, evs[x].ev = "master", Closers(evs, shown2, x) = {}, low[1] <= x
        PROVE  \E i \in 1..k : low[i] = x
    <2>1. c[1] <= x
      BY <1>1, <1>2, <1>7
    <2>2. \E i \in 1..k : c[i] = x
      BY <1>7, <2>1, WasOpen
    <2> QED BY <1>2, <2>2
  <1>8. k \in Nat \ {0} /\ k <= Len(c)
    BY <1>1
  <1>9. Lowest(evs, shown, shown2, c, k, low)
    BY <1>2, <1>4, <1>5, <1>6, <1>7, <1>8 DEF Lowest
  <1> QED BY <1>9 DEF low

LEMMA OpenWithout ==
  ASSUME NEW evs, NEW shown, NEW shown2, ShowsLast(evs, shown, shown2),
         NEW c, OpenAre(evs, shown, c), NEW k, Around(evs, c, k), k # 0,
         evs[Len(evs)].ev # "master"
  PROVE  OpenAre(evs, shown2, SubSeq(c, 1, k))
  <1> DEFINE low == SubSeq(c, 1, k)
  <1>1. /\ low \in Seq(shown) /\ Len(low) = k /\ k \in Nat \ {0}
        /\ \A i \in 1..k : /\ evs[low[i]].ev = "master" /\ Closers(evs, shown2, low[i]) = {}
                           /\ i > 1 => ParentOf(evs, low[i]) = low[i - 1]
        /\ \A i, j \in 1..k : i < j => low[i] < low[j] /\ evs[low[i]].depth < evs[low[j]].depth
        /\ \A x \in shown : evs[x].ev = "master" /\ Closers(evs, shown2, x) = {} /\ low[1] <= x =>
             \E i \in 1..k : low[i] = x
    <2>1. Lowest(evs, shown, shown2, c, k, low)
      BY LowestOpen
    <2> HIDE DEF low
    <2> QED BY <2>1 DEF Lowest
  <1> HIDE DEF low
  <1>2. shown2 = shown \cup {Len(evs)}
    BY DEF ShowsLast
  <1>3. low \in Seq(shown2)
    BY <1>1, <1>2
  <1>4. \A x \in shown2 : evs[x].ev = "master" => x \in shown
    BY <1>2
  <1> QED BY <1>1, <1>3, <1>4 DEF OpenAre, low

LEMMA OpenWith ==
  ASSUME NEW evs, NEW shown, NEW shown2, ShowsLast(evs, shown, shown2),
         NEW c, OpenAre(evs, shown, c), NEW k, Around(evs, c, k), k # 0,
         evs[Len(evs)].ev = "master", ParentOf(evs, Len(evs)) = c[k]
  PROVE  OpenAre(evs, shown2, Append(SubSeq(c, 1, k), Len(evs)))
  <1> DEFINE low == SubSeq(c, 1, k)
             n == Len(evs)
             new == Append(low, n)
  <1>1. /\ low \in Seq(shown) /\ Len(low) = k /\ k \in Nat \ {0}
        /\ \A i \in 1..k : low[i] = c[i] /\ c[i] < n
        /\ \A i \in 1..k : /\ evs[low[i]].ev = "master" /\ Closers(evs, shown2, low[i]) = {}
                           /\ evs[low[i]].depth < evs[n].depth
                           /\ i > 1 => ParentOf(evs, low[i]) = low[i - 1]
        /\ \A i, j \in 1..k : i < j => low[i] < low[j] /\ evs[low[i]].depth < evs[low[j]].depth
        /\ \A x \in shown : evs[x].ev = "master" /\ Closers(evs, shown2, x) = {} /\ low[1] <= x =>
             \E i \in 1..k : low[i] = x
    <2>1. Lowest(evs, shown, shown2, c, k, low)
      BY LowestOpen
    <2> HIDE DEF low
    <2> QED BY <2>1 DEF Lowest
  <1>2. shown2 = shown \cup {n} /\ Closers(evs, shown2, n) = {}
    <2>1. Len(evs) \in 1..Len(evs)
      BY LastFacts
    <2> QED BY <2>1, ClosersGrow DEF ShowsLast
  <1> HIDE DEF low, n
  <1>3. low \in Seq(shown2) /\ n \in shown2
    BY <1>1, <1>2
  <1>4. /\ new \in Seq(shown2) /\ Len(new) = k + 1
        /\ \A i \in 1..k : new[i] = low[i]
        /\ new[k + 1] = n
    BY <1>1, <1>3, AppendProperties
  <1> HIDE DEF new
  <1>5. ASSUME NEW i \in 1..(k + 1)
        PROVE  /\ evs[new[i]].ev = "master" /\ Closers(evs, shown2, new[i]) = {}
               /\ i > 1 => ParentOf(evs, new[i]) = new[i - 1]
    <2>1. CASE i = k + 1
      <3>1. new[i] = n /\ new[i - 1] = c[k]
        <4>1. i - 1 = k /\ k \in 1..k
          BY <1>1, <2>1
        <4> QED BY <1>1, <1>4, <2>1, <4>1
      <3> QED BY <1>2, <3>1 DEF n
    <2>2. CASE i # k + 1
      <3>1. i \in 1..k /\ (i > 1 => i - 1 \in 1..k)
        BY <1>1, <2>2
      <3>2. new[i] = low[i] /\ (i > 1 => new[i - 1] = low[i - 1])
        BY <1>4, <3>1
      <3> QED BY <1>1, <3>1, <3>2
    <2> QED BY <2>1, <2>2
  <1>6. ASSUME NEW i \in 1..(k + 1), NEW j \in 1..(k + 1), i < j
        PROVE  new[i] < new[j] /\ evs[new[i]].depth < evs[new[j]].depth
    <2>1. i \in 1..k /\ new[i] = low[i] /\ (j = k + 1 \/ j \in 1..k)
      BY <1>1, <1>4, <1>6
    <2>2. CASE j = k + 1
      BY <1>1, <1>4, <2>1, <2>2
    <2>3. CASE j \in 1..k
      BY <1>1, <1>4, <1>6, <2>1, <2>3
    <2> QED BY <2>1, <2>2, <2>3
  <1>7. ASSUME NEW x \in shown2, evs[x].ev = "master", Closers(evs, shown2, x) = {}, new[1] <= x
        PROVE  \E i \in 1..(k + 1) : new[i] = x
    <2>1. k + 1 \in 1..(k + 1) /\ 1 \in 1..k /\ \A i \in 1..k : i \in 1..(k + 1)
      BY <1>1
    <2>2. CASE x = n
      BY <1>4, <2>1, <2>2
    <2>3. CASE x \in shown
      <3>1. low[1] <= x
        BY <1>4, <1>7, <2>1
      <3>2. PICK i \in 1..k : low[i] = x
        BY <1>1, <1>7, <2>3, <3>1
      <3> QED BY <1>4, <2>1, <3>2
    <2> QED BY <1>2, <2>2, <2>3
  <1>8. Len(new) # 0
    BY <1>1, <1>4
  <1> QED BY <1>4, <1>5, <1>6, <1>7, <1>8 DEF OpenAre, new, n, low

LEMMA OpenAlone ==
  ASSUME NEW evs, NEW shown, NEW shown2, ShowsLast(evs, shown, shown2),
         evs[Len(evs)].ev = "master"
  PROVE  OpenAre(evs, shown2, <<Len(evs)>>)
  <1> DEFINE n == Len(evs)
             c == <<n>>
  <1>1. /\ n \in Nat /\ n \in shown2 /\ shown2 = shown \cup {n} /\ Closers(evs, shown2, n) = {}
        /\ \A x \in shown : x \in Nat /\ x < n
    <2>1. Len(evs) \in 1..Len(evs) /\ Len(evs) \in Nat /\ shown \subseteq 1..Len(evs)
          /\ \A j \in shown : j < Len(evs)
      BY LastFacts
    <2> QED BY <2>1, ClosersGrow DEF ShowsLast
  <1>2. evs[n].ev = "master"
    OBVIOUS
  <1> HIDE DEF n
  <1>3. c \in Seq(shown2) /\ Len(c) = 1 /\ c[1] = n
    BY <1>1
  <1> HIDE DEF c
  <1>4. \A x \in shown2 : c[1] <= x => x = n
    BY <1>1, <1>3
  <1>5. \A i \in 1..Len(c) : i = 1
    BY <1>3
  <1>6. OpenAre(evs, shown2, c)
    <2>1. 1 \in 1..Len(c) /\ Len(c) # 0
      BY <1>3
    <2>2. \A i, j \in 1..Len(c) : ~(i < j)
      BY <1>5
    <2>3. \A i \in 1..Len(c) : c[i] = n /\ ~(i > 1)
      BY <1>3, <1>5
    <2>4. \A x \in shown2 : c[1] <= x => \E i \in 1..Len(c) : c[i] = x
      BY <1>3, <1>4, <2>1
    <2> QED BY <1>1, <1>2, <1>3, <2>1, <2>2, <2>3, <2>4 DEF OpenAre
  <1> QED BY <1>6 DEF c, n

\* The innermost master is complete with the node: a leaf is one child more of it.
WithLeaf(last, leaf) ==
  [element |-> AppendChild(last.element, FromNode(leaf)), depth |-> last.depth]

IsComplete(evs, shown2, x, last) ==
  /\ evs[Len(evs)].ev # "leaf" => last = Entry(evs, shown2, x)
  /\ evs[Len(evs)].ev = "leaf" => WithLeaf(last, evs[Len(evs)]) = Entry(evs, shown2, x)

LEMMA InnermostIs ==
  ASSUME NEW evs, NEW shown, NEW shown2, ShowsLast(evs, shown, shown2),
         NEW c, OpenAre(evs, shown, c), NEW k, Inside(evs, c, k)
  PROVE  IsComplete(evs, shown2, c[k], Innermost(evs, shown, shown2, c[k]))
  <1> DEFINE n == Len(evs)
             x == c[k]
             last == Innermost(evs, shown, shown2, x)
             f2 == ShownElement(evs, shown2)
             all == Members(evs, shown, x)
             so == MembersSoFar(evs, shown2, x)
             kids == ElementsAt(f2, all)
             kids2 == ElementsAt(f2, so)
  <1>0. n \in Nat
    BY LastFacts
  <1>1. /\ evs[n].ev = "leaf" => so = all \cup {n}
        /\ evs[n].ev # "leaf" => so = all
        /\ all \in SUBSET (1..Len(evs)) /\ \A j \in all : j < n
    <2>1. Around(evs, c, k) /\ k # 0 /\ (IsElement(evs[Len(evs)]) => ParentOf(evs, Len(evs)) = c[k])
      BY DEF Inside
    <2>2. ShowsLast(evs, shown, shown2) /\ OpenAre(evs, shown, c)
      OBVIOUS
    <2> QED BY ONLY <2>1, <2>2, KidsInnermost
  <1>2. f2[n] = FromNode(evs[n])
    BY FreshElement
  <1>3. ChildrenSoFar(evs, shown2, x) = kids2
    BY SoFarIs
  <1>4. last = [element |-> [id |-> evs[x].id, offset |-> evs[x].offset, children |-> kids],
                depth |-> evs[x].depth]
    BY DEF Innermost
  <1>5. Entry(evs, shown2, x) = [element |-> [id |-> evs[x].id, offset |-> evs[x].offset,
                                              children |-> kids2], depth |-> evs[x].depth]
    BY <1>3 DEF Entry
  <1>6. ASSUME evs[n].ev = "leaf" PROVE kids2 = Append(kids, FromNode(evs[n]))
    <2>1. so = all \cup {n}
      BY <1>1, <1>6
    <2> HIDE DEF f2, all, so, n
    <2>2. ElementsAt(f2, all \cup {n}) = Append(ElementsAt(f2, all), f2[n])
      <3>1. all \in SUBSET (1..n) /\ \A j \in all : j < n
        BY <1>1 DEF n
      <3> QED BY <1>0, <3>1, ElementsGrow
    <2> QED BY <1>2, <2>1, <2>2
  <1>7. evs[n].ev # "leaf" => kids2 = kids
    BY <1>1
  <1>8. AppendChild(last.element, FromNode(evs[n])) =
          [id |-> evs[x].id, offset |-> evs[x].offset, children |-> Append(kids, FromNode(evs[n]))]
    <2> HIDE DEF last, kids, n, x
    <2> QED BY <1>4, ElementWithChild
  <1> HIDE DEF last, kids, kids2, n, x
  <1>9. evs[n].ev # "leaf" => last = Entry(evs, shown2, x)
    BY <1>4, <1>5, <1>7
  <1>10. evs[n].ev = "leaf" =>
           WithLeaf(last, evs[n]) = Entry(evs, shown2, x)
    BY <1>4, <1>5, <1>6, <1>8 DEF WithLeaf
  <1>11. IsComplete(evs, shown2, x, last)
    BY <1>9, <1>10 DEF IsComplete, n
  <1> QED BY <1>11 DEF last, x

\* An end leaves the masters around it, each with what it holds.
LEMMA StackedClosed ==
  ASSUME NEW evs, NEW shown, NEW shown2, ShowsLast(evs, shown, shown2),
         NEW c, OpenAre(evs, shown, c), NEW k, Inside(evs, c, k),
         NEW u, Unwinds(evs, shown, shown2, c, k, u), evs[Len(evs)].ev = "end"
  PROVE  Stacked(evs, shown2, SubSeq(c, 1, k), u)
  <1>1. Around(evs, c, k) /\ k # 0
    BY DEF Inside
  <1>2. OpenAre(evs, shown2, SubSeq(c, 1, k))
    BY <1>1, OpenWithout
  <1> DEFINE low == SubSeq(c, 1, k)
  <1>3. Len(low) = k /\ k \in Nat \ {0} /\ \A i \in 1..k : low[i] = c[i]
    <2>1. Lowest(evs, shown, shown2, c, k, low)
      BY <1>1, LowestOpen
    <2> HIDE DEF low
    <2> QED BY <2>1 DEF Lowest
  <1>4. Innermost(evs, shown, shown2, c[k]) = Entry(evs, shown2, c[k])
    <2>1. IsComplete(evs, shown2, c[k], Innermost(evs, shown, shown2, c[k]))
      BY InnermostIs
    <2> QED BY <2>1 DEF IsComplete
  <1> HIDE DEF low
  <1>5. \A i \in 1..k : u[i] = Entry(evs, shown2, c[i])
    <2>1. \A i \in 1..k : i < k \/ i = k
      BY <1>3
    <2> QED BY <1>4, <2>1 DEF Unwinds
  <1>6. Len(u) = k
    BY DEF Unwinds
  <1>7. Stacked(evs, shown2, low, u)
    <2>1. OpenAre(evs, shown2, low)
      BY <1>2 DEF low
    <2>2. \A i \in 1..Len(low) : u[i] = Entry(evs, shown2, low[i])
      BY <1>3, <1>5
    <2> QED BY <1>3, <1>6, <2>1, <2>2 DEF Stacked
  <1> QED BY <1>7 DEF low

\* A leaf adds itself to the innermost.
LEMMA StackedLeaf ==
  ASSUME NEW evs, NEW shown, NEW shown2, ShowsLast(evs, shown, shown2),
         NEW c, OpenAre(evs, shown, c), NEW k, Inside(evs, c, k),
         NEW u, Unwinds(evs, shown, shown2, c, k, u), evs[Len(evs)].ev = "leaf",
         NEW new, Len(new) = k, \A i \in 1..k : i < k => new[i] = u[i],
         new[k] = WithLeaf(u[k], evs[Len(evs)])
  PROVE  Stacked(evs, shown2, SubSeq(c, 1, k), new)
  <1>1. Around(evs, c, k) /\ k # 0
    BY DEF Inside
  <1>2. OpenAre(evs, shown2, SubSeq(c, 1, k))
    BY <1>1, OpenWithout
  <1> DEFINE low == SubSeq(c, 1, k)
  <1>3. Len(low) = k /\ k \in Nat \ {0} /\ \A i \in 1..k : low[i] = c[i]
    <2>1. Lowest(evs, shown, shown2, c, k, low)
      BY <1>1, LowestOpen
    <2> HIDE DEF low
    <2> QED BY <2>1 DEF Lowest
  <1>4. WithLeaf(Innermost(evs, shown, shown2, c[k]), evs[Len(evs)]) = Entry(evs, shown2, c[k])
    <2>1. IsComplete(evs, shown2, c[k], Innermost(evs, shown, shown2, c[k]))
      BY InnermostIs
    <2> QED BY <2>1 DEF IsComplete
  <1> HIDE DEF low
  <1>5. \A i \in 1..k : new[i] = Entry(evs, shown2, c[i])
    <2>1. \A i \in 1..k : i < k \/ i = k
      BY <1>3
    <2>2. \A i \in 1..k : i < k => new[i] = Entry(evs, shown2, c[i])
      BY DEF Unwinds
    <2>3. new[k] = Entry(evs, shown2, c[k])
      BY <1>4 DEF Unwinds
    <2> QED BY <2>1, <2>2, <2>3
  <1>7. Stacked(evs, shown2, low, new)
    <2>1. OpenAre(evs, shown2, low)
      BY <1>2 DEF low
    <2>2. \A i \in 1..Len(low) : new[i] = Entry(evs, shown2, low[i])
      BY <1>3, <1>5
    <2> QED BY <1>3, <2>1, <2>2 DEF Stacked
  <1> QED BY <1>7 DEF low

\* A master goes on the stack, with nothing in it.
Opens(node) == [element |-> FromNode(node), depth |-> node.depth]

LEMMA OpensIsEntry ==
  ASSUME NEW evs, NEW shown, NEW shown2, ShowsLast(evs, shown, shown2)
  PROVE  Opens(evs[Len(evs)]) = Entry(evs, shown2, Len(evs))
  <1>1. ChildrenSoFar(evs, shown2, Len(evs)) = << >>
    BY FreshElement
  <1> QED BY <1>1 DEF Opens, Entry, FromNode

LEMMA StackedMaster ==
  ASSUME NEW evs, NEW shown, NEW shown2, ShowsLast(evs, shown, shown2),
         NEW c, OpenAre(evs, shown, c), NEW k, Inside(evs, c, k),
         NEW u, Unwinds(evs, shown, shown2, c, k, u), evs[Len(evs)].ev = "master",
         NEW new, Len(new) = k + 1, \A i \in 1..k : new[i] = u[i],
         new[k + 1] = Opens(evs[Len(evs)])
  PROVE  Stacked(evs, shown2, Append(SubSeq(c, 1, k), Len(evs)), new)
  <1>1. Around(evs, c, k) /\ k # 0 /\ ParentOf(evs, Len(evs)) = c[k]
    BY DEF Inside, IsElement
  <1> DEFINE low == SubSeq(c, 1, k)
             c2 == Append(low, Len(evs))
  <1>2. OpenAre(evs, shown2, c2)
    BY <1>1, OpenWith
  <1>3. low \in Seq(shown) /\ Len(low) = k /\ k \in Nat \ {0} /\ \A i \in 1..k : low[i] = c[i]
    <2>1. Lowest(evs, shown, shown2, c, k, low)
      BY <1>1, LowestOpen
    <2> HIDE DEF low
    <2> QED BY <2>1 DEF Lowest
  <1>4. Innermost(evs, shown, shown2, c[k]) = Entry(evs, shown2, c[k])
    <2>1. IsComplete(evs, shown2, c[k], Innermost(evs, shown, shown2, c[k]))
      BY InnermostIs
    <2> QED BY <2>1 DEF IsComplete
  <1>5. Opens(evs[Len(evs)]) = Entry(evs, shown2, Len(evs))
    BY OpensIsEntry
  <1> HIDE DEF low
  <1>6. Len(c2) = k + 1 /\ c2[k + 1] = Len(evs) /\ \A i \in 1..k : c2[i] = c[i]
    <2>1. low \in Seq(shown \cup {Len(evs)}) /\ Len(evs) \in shown \cup {Len(evs)}
      BY <1>3
    <2> QED BY <1>3, <2>1, AppendProperties
  <1> HIDE DEF c2
  <1>7. \A i \in 1..k : new[i] = Entry(evs, shown2, c[i])
    <2>1. \A i \in 1..k : i < k \/ i = k
      BY <1>3
    <2> QED BY <1>4, <2>1 DEF Unwinds
  <1>8. \A i \in 1..(k + 1) : new[i] = Entry(evs, shown2, c2[i])
    <2>1. \A i \in 1..(k + 1) : i \in 1..k \/ i = k + 1
      BY <1>3
    <2>2. new[k + 1] = Entry(evs, shown2, c2[k + 1])
      BY <1>5, <1>6
    <2> QED BY <1>6, <1>7, <2>1, <2>2
  <1>9. Stacked(evs, shown2, c2, new)
    BY <1>2, <1>6, <1>8 DEF Stacked
  <1> QED BY <1>9 DEF c2, low

\* ... or on an empty one.
LEMMA StackedAlone ==
  ASSUME NEW evs, NEW shown, NEW shown2, ShowsLast(evs, shown, shown2),
         evs[Len(evs)].ev = "master"
  PROVE  Stacked(evs, shown2, <<Len(evs)>>, <<Opens(evs[Len(evs)])>>)
  <1>1. OpenAre(evs, shown2, <<Len(evs)>>)
    BY OpenAlone
  <1>2. Opens(evs[Len(evs)]) = Entry(evs, shown2, Len(evs))
    BY OpensIsEntry
  <1> DEFINE n == Len(evs)
             s == Opens(evs[n])
  <1> HIDE DEF n, s
  <1>3. Len(<<n>>) = 1 /\ Len(<<s>>) = 1 /\ <<n>>[1] = n /\ <<s>>[1] = s /\ 1..1 = {1}
    OBVIOUS
  <1>4. Stacked(evs, shown2, <<n>>, <<s>>)
    BY <1>1, <1>2, <1>3 DEF Stacked, n, s
  <1> QED BY <1>4 DEF n, s

-----------------------------------------------------------------------------
(* The scopes that are returned.                                           *)

LEMMA MinStays ==
  ASSUME NEW S \in SUBSET Nat, S # {}, NEW n \in Nat, \A y \in S : y < n
  PROVE  Min(S \cup {n}) = Min(S)
  <1>1. PICK x \in S : \A y \in S : x <= y
    BY LeastOf
  <1>2. \A z \in S : (\A y \in S : z <= y) => z = x
    BY <1>1
  <1>3. Min(S) = x
    BY <1>1, <1>2 DEF Min
  <1>4. x \in S \cup {n} /\ \A y \in S \cup {n} : x <= y
    BY <1>1
  <1>5. \A z \in S \cup {n} : (\A y \in S \cup {n} : z <= y) => z = x
    BY <1>1
  <1>6. Min(S \cup {n}) = x
    BY <1>4, <1>5 DEF Min
  <1> QED BY <1>3, <1>6

LEMMA MinAlone == ASSUME NEW n \in Nat PROVE Min({n}) = n
  BY DEF Min

\* All the children of a master.
ChildrenAll(evs, shown, i) == CompleteChildren(evs, shown, TRUE, i)

LEMMA AllAre ==
  ASSUME NEW evs, NEW shown, NEW i
  PROVE  ChildrenAll(evs, shown, i) = ElementsAt(ShownElement(evs, shown), Members(evs, shown, i))
  <1>1. CompleteMembers(evs, shown, TRUE, i) = Members(evs, shown, i)
    BY DEF CompleteMembers
  <1> QED BY <1>1, CompleteChildrenAre DEF ChildrenAll

\* Where a node says what it closes is over: an end says where, another where it begins.
PosOf(e) == IF e.ev = "end" THEN e.end ELSE e.offset

\* The scope of the tracked master x as it is returned: it has no end only if nothing
\* closed it.
Returned(evs, shown, x, s) ==
  /\ s.start = evs[x].offset
  /\ s.children = ChildrenAll(evs, shown, x)
  /\ Closers(evs, shown, x) = {} => s.end = -1
  /\ Closers(evs, shown, x) # {} => s.end = PosOf(evs[Min(Closers(evs, shown, x))])

\* A scope that was closed stays what it was.
LEMMA ReturnedStays ==
  ASSUME NEW evs, NEW shown, NEW shown2, ShowsLast(evs, shown, shown2),
         NEW x \in 1..Len(evs), NEW s, Returned(evs, shown, x, s),
         Closers(evs, shown, x) # {}
  PROVE  Returned(evs, shown2, x, s)
  <1> DEFINE cl == Closers(evs, shown, x)
             cl2 == Closers(evs, shown2, x)
             all == Members(evs, shown, x)
             f == ShownElement(evs, shown)
             f2 == ShownElement(evs, shown2)
  <1>1. Len(evs) \in Nat /\ \A j \in shown : j \in 1..Len(evs)
    BY LastFacts
  <1>2. cl # {} /\ s.start = evs[x].offset /\ s.children = ChildrenAll(evs, shown, x)
        /\ s.end = PosOf(evs[Min(cl)])
    BY DEF Returned
  <1>3. cl \in SUBSET Nat /\ \A c \in cl : c < Len(evs)
    BY ClosersGrow
  <1>4. cl2 = cl \/ cl2 = cl \cup {Len(evs)}
    BY ClosersGrow
  <1>5. cl2 # {} /\ Min(cl2) = Min(cl)
    <2> HIDE DEF cl, cl2
    <2> QED BY <1>1, <1>2, <1>3, <1>4, MinStays
  <1>6. Over(evs, shown2, x)
    BY <1>5 DEF Over
  <1>7. Members(evs, shown2, x) = all /\ \A j \in all : Over(evs, shown2, j)
    BY <1>6, OverIsClosed
  <1>8. \A j \in all : f2[j] = f[j]
    <2>1. \A j \in all : j \in 1..Len(evs)
      BY <1>1 DEF Members
    <2> QED BY <1>7, <2>1, OverStays
  <1>9. all \in SUBSET (1..Len(evs))
    BY <1>1 DEF Members
  <1>10. ChildrenAll(evs, shown2, x) = ChildrenAll(evs, shown, x)
    <2>1. /\ ChildrenAll(evs, shown, x) = ElementsAt(f, all)
          /\ ChildrenAll(evs, shown2, x) = ElementsAt(f2, Members(evs, shown2, x))
      BY AllAre
    <2> HIDE DEF f, f2, all
    <2>2. ElementsAt(f2, all) = ElementsAt(f, all)
      BY <1>1, <1>8, <1>9, ElementsAgree
    <2> QED BY <1>7, <2>1, <2>2
  <1> QED BY <1>2, <1>5, <1>10 DEF Returned

EndsAt(sc, end) == [sc EXCEPT !.end = end]

ScopeWithChild(sc, child) == [sc EXCEPT !.children = Append(@, child)]

LEMMA EndsAtIs ==
  ASSUME NEW a, NEW b, NEW k, NEW end
  PROVE  EndsAt([start |-> a, end |-> b, children |-> k], end) = [start |-> a, end |-> end, children |-> k]
  BY DEF EndsAt

LEMMA ScopeWithChildIs ==
  ASSUME NEW a, NEW b, NEW k, NEW child
  PROVE  ScopeWithChild([start |-> a, end |-> b, children |-> k], child) =
           [start |-> a, end |-> b, children |-> Append(k, child)]
  BY DEF ScopeWithChild

\* What the tracked master holds when it closes, all that is open inside with it.
LEMMA ScopeClosed ==
  ASSUME NEW evs, NEW shown, Record(evs, shown), NEW c, NEW st, Stacked(evs, shown, c, st),
         NEW sc, Agree(st, sc), NEW d, Enclosing(st, d) = 0, NEW end
  PROVE  EndsAt(UnwoundScope(st, sc, d), end) =
           [start |-> evs[c[1]].offset, end |-> end, children |-> ChildrenAll(evs, shown, c[1])]
  <1> DEFINE x == c[1]
             f == ShownElement(evs, shown)
             so == MembersSoFar(evs, shown, x)
             all == Members(evs, shown, x)
             kids == ElementsAt(f, so)
             u == UnwoundScope(st, sc, d)
  <1>1. OpenAre(evs, shown, c) /\ Len(st) = Len(c) /\ Len(c) \in Nat \ {0} /\ 1 \in 1..Len(c)
    <2>1. OpenAre(evs, shown, c) /\ Len(st) = Len(c)
      BY DEF Stacked
    <2>2. Len(c) \in Nat \ {0}
      BY <2>1, LenProperties DEF OpenAre
    <2>3. 1 \in 1..Len(c)
      BY <2>2
    <2> QED BY <2>1, <2>2, <2>3
  <1>2. /\ sc = [start |-> sc.start, end |-> sc.end, children |-> sc.children]
        /\ st[1].element.offset = sc.start /\ st[1].element.children = sc.children
    BY <1>1 DEF Agree, IsScope
  <1>3. st[1].element = [id |-> evs[x].id, offset |-> evs[x].offset, children |-> kids]
    <2>1. StackElement(evs, shown, c, st, 1)
      BY <1>1, StackElementIs
    <2> QED BY <2>1 DEF StackElement
  <1>4. /\ so \in SUBSET (1..Len(evs))
        /\ 1 = Len(c) => so = all
        /\ 1 < Len(c) => all = so \cup {c[2]} /\ \A y \in so : y < c[2]
    <2>1. 1 + 1 = 2
      OBVIOUS
    <2>2. 1 < Len(c) => all = so \cup {c[1 + 1]} /\ \A y \in so : y < c[1 + 1]
      BY <1>1, MembersOfOpen
    <2>3. so \in SUBSET (1..Len(evs)) /\ (1 = Len(c) => so = all)
      BY <1>1, MembersOfOpen
    <2> HIDE DEF so, all
    <2> QED BY <2>1, <2>2, <2>3
  <1>5. ChildrenAll(evs, shown, x) = ElementsAt(f, all)
    BY AllAre
  <1>6. 1 < Len(c) => 2 \in 1..Len(c) /\ c[2] \in Nat
    <2>1. 1 < Len(c) => 2 \in 1..Len(c)
      BY <1>1
    <2>2. 1 < Len(c) => c[2] \in 1..Len(evs) /\ Len(evs) \in Nat
      BY <1>1, <2>1, OpenFacts
    <2> QED BY <2>1, <2>2
  <1>7. 1 < Len(c) => Closing(st)[2] = f[c[2]]
    BY <1>6, ClosingShows
  <1>8. CASE Len(c) = 1
    <2>1. u = sc
      <3>1. ~(Len(st) > 1)
        BY <1>1, <1>8
      <3> QED BY <3>1 DEF UnwoundScope
    <2>2. so = all
      BY <1>4, <1>8
    <2> HIDE DEF u, kids, all, so, x, f
    <2>3. EndsAt(u, end) = [start |-> sc.start, end |-> end, children |-> sc.children]
      <3>1. sc = [start |-> sc.start, end |-> sc.end, children |-> sc.children]
        BY <1>2
      <3>2. u = [start |-> sc.start, end |-> sc.end, children |-> sc.children]
        BY ONLY <2>1, <3>1
      <3> QED BY ONLY <3>2, EndsAtIs
    <2>4. sc.start = evs[x].offset /\ sc.children = kids
      BY <1>2, <1>3
    <2>5. kids = ElementsAt(f, all)
      BY <2>2 DEF kids
    <2> QED BY <1>5, <2>3, <2>4, <2>5 DEF u, x
  <1>9. CASE Len(c) # 1
    <2>1. 1 < Len(c) /\ Len(st) > 1
      BY <1>1, <1>9
    <2>2. Enclosing(st, d) <= 1
      OBVIOUS
    <2>3. u = ScopeWithChild(sc, f[c[2]])
      BY <1>7, <2>1, <2>2 DEF UnwoundScope, ScopeWithChild
    <2> HIDE DEF u, f, all, so, x, kids
    <2>4. ElementsAt(f, all) = Append(ElementsAt(f, so), f[c[2]])
      <3>1. Len(evs) \in Nat
        BY EventFacts DEF Record, WellNested
      <3>2. all = so \cup {c[2]} /\ c[2] \in Nat /\ so \in SUBSET (1..Len(evs)) /\ \A y \in so : y < c[2]
        BY <1>4, <1>6, <2>1
      <3>3. ElementsAt(f, so \cup {c[2]}) = Append(ElementsAt(f, so), f[c[2]])
        BY <3>1, <3>2, ElementsGrow, ZenonT(60)
      <3> QED BY <3>2, <3>3
    <2>5. sc.start = evs[x].offset /\ sc.children = kids
      BY <1>2, <1>3
    <2>6. EndsAt(u, end) = [start |-> sc.start, end |-> end,
                                    children |-> Append(sc.children, f[c[2]])]
      <3>1. sc = [start |-> sc.start, end |-> sc.end, children |-> sc.children]
        BY <1>2
      <3>2. u = [start |-> sc.start, end |-> sc.end, children |-> Append(sc.children, f[c[2]])]
        BY ONLY <2>3, <3>1, ScopeWithChildIs
      <3> QED BY ONLY <3>2, EndsAtIs
    <2>7. kids = ElementsAt(f, so)
      BY DEF kids
    <2>8. EndsAt(u, end) = [start |-> evs[x].offset, end |-> end,
                                    children |-> ChildrenAll(evs, shown, x)]
      BY ONLY <1>5, <2>4, <2>5, <2>6, <2>7
    <2> QED BY <2>8 DEF u, x
  <1> QED BY <1>8, <1>9

-----------------------------------------------------------------------------
(* The tracker follows what it is shown.                                   *)

\* The tracked masters that nothing shown has closed.
Unclosed(evs, shown) == {t \in TrackedIn(evs, shown) : Closers(evs, shown, t) = {}}

\* The open scope is that of the lowest master of the stack, and no other is open.
InScope(evs, shown, c, st, dn) ==
  /\ Stacked(evs, shown, c, st)
  /\ Len(Openings(evs, shown)) = Len(dn) + 1 /\ Openings(evs, shown)[Len(dn) + 1] = c[1]
  /\ \A t \in Unclosed(evs, shown) : c[1] <= t

Returns(evs, shown, ops, dn) == \A s \in 1..Len(dn) : Returned(evs, shown, ops[s], dn[s])

Tracks(evs, shown, st, dn) ==
  /\ IsSequence(dn)
  /\ Returns(evs, shown, Openings(evs, shown), dn)
  /\ st = << >> => Len(Openings(evs, shown)) = Len(dn)
  /\ st # << >> => \E c : InScope(evs, shown, c, st, dn)

LEMMA OpeningFacts ==
  ASSUME NEW evs, NEW shown, Record(evs, shown)
  PROVE  LET ops == Openings(evs, shown)
         IN /\ IsSequence(ops) /\ Len(ops) \in Nat
            /\ \A s \in 1..Len(ops) : ops[s] \in TrackedIn(evs, shown) /\ ops[s] \in 1..Len(evs)
            /\ \A s, r \in 1..Len(ops) : s < r => ops[s] < ops[r]
  <1> DEFINE ops == Openings(evs, shown)
             S == OpeningSet(evs, shown)
  <1>1. Lists(ops, S) /\ S \in SUBSET (1..Len(evs))
    BY OpeningsAre
  <1>2. \A x \in S : x \in TrackedIn(evs, shown)
    BY DEF OpeningSet
  <1> HIDE DEF ops, S
  <1>3. ops \in Seq(S) /\ \A s, r \in 1..Len(ops) : s < r => ops[s] < ops[r]
    BY <1>1 DEF Lists
  <1>4. IsSequence(ops) /\ Len(ops) \in Nat /\ \A s \in 1..Len(ops) : ops[s] \in S
    BY <1>3, SeqOfRange, LenProperties, ElementOfSeq DEF IsSequence
  <1>5. \A x \in S : x \in 1..Len(evs)
    BY <1>1
  <1> QED BY <1>2, <1>3, <1>4, <1>5 DEF ops

\* The scopes returned before the open one were closed.
LEMMA EarlierAreClosed ==
  ASSUME NEW evs, NEW shown, Record(evs, shown), NEW c, NEW st, NEW dn, IsSequence(dn),
         InScope(evs, shown, c, st, dn), NEW s \in 1..Len(dn)
  PROVE  Closers(evs, shown, Openings(evs, shown)[s]) # {}
  <1> DEFINE ops == Openings(evs, shown)
             m == Len(dn) + 1
  <1>1. /\ \A r \in 1..Len(ops) : ops[r] \in TrackedIn(evs, shown) /\ ops[r] \in 1..Len(evs)
        /\ \A q, r \in 1..Len(ops) : q < r => ops[q] < ops[r]
    BY OpeningFacts
  <1>2. Len(evs) \in Nat
    BY EventFacts DEF Record, WellNested
  <1>3. Len(dn) \in Nat
    BY LenProperties DEF IsSequence
  <1>4. Len(ops) = m /\ ops[m] = c[1] /\ \A t \in Unclosed(evs, shown) : c[1] <= t
    BY DEF InScope
  <1> HIDE DEF ops
  <1>5. s \in 1..Len(ops) /\ m \in 1..Len(ops) /\ s < m
    BY <1>3, <1>4
  <1> HIDE DEF m
  <1>6. ops[s] < ops[m] /\ ops[s] \in Nat /\ ops[m] \in Nat
    BY <1>1, <1>2, <1>5
  <1>7. ops[s] \notin Unclosed(evs, shown)
    BY <1>4, <1>6
  <1> QED BY <1>1, <1>5, <1>7 DEF Unclosed, ops

\* What was returned is not changed by the node that is shown.
LEMMA ReturnsStay ==
  ASSUME NEW evs, NEW shown, NEW shown2, ShowsLast(evs, shown, shown2), NEW dn,
         Returns(evs, shown, Openings(evs, shown), dn), Len(dn) <= Len(Openings(evs, shown)),
         Len(dn) \in Nat,
         \A s \in 1..Len(dn) : Closers(evs, shown, Openings(evs, shown)[s]) # {}
  PROVE  Returns(evs, shown2, Openings(evs, shown), dn)
  <1> DEFINE ops == Openings(evs, shown)
  <1> SUFFICES ASSUME NEW s \in 1..Len(dn) PROVE Returned(evs, shown2, ops[s], dn[s])
    BY DEF Returns
  <1>1. Record(evs, shown)
    BY LastFacts
  <1>2. ops[s] \in 1..Len(evs)
    <2>1. Len(ops) \in Nat /\ \A r \in 1..Len(ops) : ops[r] \in 1..Len(evs)
      BY <1>1, OpeningFacts
    <2> HIDE DEF ops
    <2>2. s \in 1..Len(ops)
      BY <2>1 DEF ops
    <2> QED BY <2>1, <2>2
  <1>3. Returned(evs, shown, ops[s], dn[s]) /\ Closers(evs, shown, ops[s]) # {}
    BY DEF Returns
  <1> HIDE DEF ops
  <1> QED BY <1>2, <1>3, ReturnedStays

\* With every scope closed, the node opens one or nothing is followed.
AllClosed(evs, shown, shown2, dn) ==
  /\ IsSequence(dn) /\ Len(Openings(evs, shown)) = Len(dn)
  /\ Returns(evs, shown2, Openings(evs, shown), dn)
  /\ \A t \in TrackedIn(evs, shown) : Closers(evs, shown2, t) # {}

LEMMA OpensScope ==
  ASSUME NEW evs, NEW shown, NEW shown2, ShowsLast(evs, shown, shown2), NEW dn,
         AllClosed(evs, shown, shown2, dn),
         evs[Len(evs)].ev = "master", evs[Len(evs)].id = Tracked
  PROVE  Tracks(evs, shown2, <<Opens(evs[Len(evs)])>>, dn)
  <1> DEFINE n == Len(evs)
             ops == Openings(evs, shown)
             ops2 == Openings(evs, shown2)
             m == Len(dn) + 1
  <1>1. shown2 = shown \cup {n} /\ n \notin shown /\ Record(evs, shown) /\ n \in Nat
    BY LastFacts DEF ShowsLast
  <1>2. TrackedIn(evs, shown2) \subseteq TrackedIn(evs, shown) \cup {n}
    BY <1>1 DEF TrackedIn
  <1>3. OpensAnother(evs, shown2)
    BY <1>2 DEF OpensAnother, AllClosed
  <1>4. ops2 = Append(ops, n)
    BY <1>3, OpeningsGrow
  <1>5. IsSequence(ops) /\ Len(ops) = Len(dn) /\ Len(dn) \in Nat
    <2>1. IsSequence(ops) /\ Len(ops) \in Nat
      BY <1>1, OpeningFacts
    <2> QED BY <2>1 DEF AllClosed
  <1> HIDE DEF ops, ops2
  <1>6. Len(ops2) = m /\ ops2[m] = n /\ \A s \in 1..Len(dn) : ops2[s] = ops[s]
    BY <1>4, <1>5, AppendToSequence
  <1>7. Returns(evs, shown2, ops2, dn)
    BY <1>6 DEF Returns, AllClosed, ops
  <1>8. Stacked(evs, shown2, <<n>>, <<Opens(evs[n])>>)
    BY StackedAlone
  <1>9. \A t \in Unclosed(evs, shown2) : n <= t
    <2>1. \A t \in Unclosed(evs, shown2) : t = n
      BY <1>2 DEF Unclosed, AllClosed
    <2>2. n \in Nat
      BY <1>1
    <2> HIDE DEF n
    <2>3. n <= n
      BY <2>2
    <2> QED BY <2>1, <2>3
  <1> DEFINE one == <<n>>
  <1>10. one[1] = n
    OBVIOUS
  <1> HIDE DEF one
  <1>11. InScope(evs, shown2, one, <<Opens(evs[n])>>, dn)
    BY <1>6, <1>8, <1>9, <1>10 DEF InScope, one, ops2
  <1>12. <<Opens(evs[n])>> # << >>
    OBVIOUS
  <1>13. IsSequence(dn)
    BY DEF AllClosed
  <1> QED BY <1>7, <1>11, <1>12, <1>13 DEF Tracks, ops2

LEMMA OpensNone ==
  ASSUME NEW evs, NEW shown, NEW shown2, ShowsLast(evs, shown, shown2), NEW dn,
         AllClosed(evs, shown, shown2, dn),
         ~(evs[Len(evs)].ev = "master" /\ evs[Len(evs)].id = Tracked)
  PROVE  Tracks(evs, shown2, << >>, dn) /\ Unclosed(evs, shown2) = {}
  <1>1. shown2 = shown \cup {Len(evs)}
    BY DEF ShowsLast
  <1>2. TrackedIn(evs, shown2) = TrackedIn(evs, shown)
    BY <1>1 DEF TrackedIn
  <1>3. ~OpensAnother(evs, shown2)
    BY DEF OpensAnother
  <1>4. Openings(evs, shown2) = Openings(evs, shown)
    BY <1>3, OpeningsGrow
  <1>5. Unclosed(evs, shown2) = {}
    BY <1>2 DEF Unclosed, AllClosed
  <1>6. Tracks(evs, shown2, << >>, dn)
    BY <1>4 DEF Tracks, AllClosed
  <1> QED BY <1>5, <1>6

\* The masters of the stack that enclose the node are those it stands in.
LEMMA EnclosingAround ==
  ASSUME NEW evs, NEW shown, Record(evs, shown), Len(evs) \in 1..Len(evs),
         NEW c, NEW st, Stacked(evs, shown, c, st), NEW sc, Agree(st, sc)
  PROVE  Around(evs, c, Enclosing(st, evs[Len(evs)].depth))
  <1> DEFINE d == evs[Len(evs)].depth
             k == Enclosing(st, d)
  <1>1. d \in Nat
    BY EventFacts DEF Record, WellNested
  <1>2. k \in 0..Len(st) /\ \A i \in 1..Len(st) : st[i].depth < d <=> i <= k
    BY <1>1, EnclosingAreLowest
  <1>3. Len(st) = Len(c) /\ \A i \in 1..Len(c) : st[i].depth = evs[c[i]].depth
    BY StackElementIs DEF Stacked
  <1> HIDE DEF k
  <1> QED BY <1>2, <1>3 DEF Around, k

\* The scope that closes is returned, and no scope is left.
LEMMA ScopeCloses ==
  ASSUME NEW evs, NEW shown, NEW shown2, ShowsLast(evs, shown, shown2),
         NEW c, NEW st, NEW dn, InScope(evs, shown, c, st, dn), IsSequence(dn),
         Returns(evs, shown, Openings(evs, shown), dn), NEW sc, Agree(st, sc),
         Enclosing(st, evs[Len(evs)].depth) = 0
  PROVE  AllClosed(evs, shown, shown2,
           Append(dn, EndsAt(UnwoundScope(st, sc, evs[Len(evs)].depth), PosOf(evs[Len(evs)]))))
  <1> DEFINE n == Len(evs)
             d == evs[n].depth
             x == c[1]
             s == EndsAt(UnwoundScope(st, sc, d), PosOf(evs[n]))
             dn2 == Append(dn, s)
             ops == Openings(evs, shown)
             m == Len(dn) + 1
             f == ShownElement(evs, shown)
             f2 == ShownElement(evs, shown2)
             all == Members(evs, shown, x)
  <1>1. /\ n \in Nat \ {0} /\ n \in 1..Len(evs) /\ Record(evs, shown)
        /\ \A j \in shown : j < n /\ j \in 1..Len(evs)
    BY LastFacts
  <1>2. Stacked(evs, shown, c, st) /\ OpenAre(evs, shown, c) /\ Len(ops) = m /\ ops[m] = x
    BY DEF InScope, Stacked
  <1>3. Around(evs, c, 0)
    BY <1>1, <1>2, EnclosingAround
  <1>4. \A i \in 1..Len(c) : Closers(evs, shown2, c[i]) # {}
    <2>1. \A i \in 1..Len(c) : ~(i <= 0)
      OBVIOUS
    <2> QED BY <1>2, <1>3, <2>1, StaysOpen
  <1>5. 1 \in 1..Len(c) /\ x \in shown /\ x \in 1..Len(evs) /\ x < n
    <2>1. Len(c) \in Nat \ {0}
      BY <1>2, LenProperties DEF OpenAre
    <2>2. 1 \in 1..Len(c)
      BY <2>1
    <2>3. x \in shown
      BY <1>1, <1>2, <2>2, OpenFacts
    <2> QED BY <1>1, <2>2, <2>3
  <1>6. Closers(evs, shown2, x) = {n}
    <2>1. Closers(evs, shown, x) = {}
      BY <1>2, <1>5 DEF OpenAre
    <2>2. Closers(evs, shown2, x) # {}
      BY <1>4, <1>5
    <2>3. Closers(evs, shown2, x) = Closers(evs, shown, x) \/
          Closers(evs, shown2, x) = Closers(evs, shown, x) \cup {Len(evs)}
      BY <1>5, ClosersGrow
    <2> QED BY <2>1, <2>2, <2>3
  <1>7. ChildrenAll(evs, shown2, x) = ChildrenAll(evs, shown, x)
    <2>1. Over(evs, shown2, x)
      BY <1>6 DEF Over
    <2>2. Members(evs, shown2, x) = all /\ \A j \in all : Over(evs, shown2, j)
      BY <1>5, <2>1, OverIsClosed
    <2>3. all \in SUBSET (1..Len(evs))
      BY <1>1 DEF Members
    <2>4. \A j \in all : f2[j] = f[j]
      BY <2>2, <2>3, OverStays
    <2>5. /\ ChildrenAll(evs, shown, x) = ElementsAt(f, all)
          /\ ChildrenAll(evs, shown2, x) = ElementsAt(f2, Members(evs, shown2, x))
      BY AllAre
    <2> HIDE DEF f, f2, all
    <2>6. ElementsAt(f2, all) = ElementsAt(f, all)
      BY <1>1, <2>3, <2>4, ElementsAgree
    <2> QED BY <2>2, <2>5, <2>6
  <1>8. s = [start |-> evs[x].offset, end |-> PosOf(evs[n]), children |-> ChildrenAll(evs, shown, x)]
    BY <1>1, <1>2, ScopeClosed
  <1>9. Returned(evs, shown2, x, s)
    <2>1. Min(Closers(evs, shown2, x)) = n
      BY <1>1, <1>6, MinAlone
    <2> HIDE DEF s, x, n
    <2> QED BY <1>6, <1>7, <1>8, <2>1 DEF Returned
  <1>10. IsSequence(ops) /\ Len(ops) \in Nat /\ \A r \in 1..Len(ops) : ops[r] \in TrackedIn(evs, shown)
    BY <1>1, OpeningFacts
  <1>11. Len(dn) \in Nat
    BY LenProperties DEF IsSequence
  <1>12. Returns(evs, shown2, ops, dn)
    <2>1. \A r \in 1..Len(dn) : Closers(evs, shown, ops[r]) # {}
      BY <1>1, EarlierAreClosed
    <2>2. Len(dn) <= Len(ops)
      BY <1>2, <1>11
    <2> QED BY <1>11, <2>1, <2>2, ReturnsStay
  <1> HIDE DEF s
  <1>13. IsSequence(dn2) /\ Len(dn2) = m /\ dn2[m] = s /\ \A r \in 1..Len(dn) : dn2[r] = dn[r]
    BY AppendToSequence
  <1> HIDE DEF dn2, ops
  <1>14. Returns(evs, shown2, ops, dn2)
    <2> SUFFICES ASSUME NEW r \in 1..m PROVE Returned(evs, shown2, ops[r], dn2[r])
      BY <1>13 DEF Returns
    <2>1. r \in 1..Len(dn) \/ r = m
      BY <1>11
    <2> HIDE DEF m
    <2> QED BY <1>2, <1>9, <1>12, <1>13, <2>1 DEF Returns
  <1>15. ASSUME NEW t \in TrackedIn(evs, shown) PROVE Closers(evs, shown2, t) # {}
    <2>0. t \in shown /\ t \in 1..Len(evs) /\ evs[t].ev = "master"
      BY <1>1 DEF TrackedIn
    <2>1. CASE Closers(evs, shown, t) # {}
      BY <2>0, <2>1, ClosersGrow
    <2>2. CASE Closers(evs, shown, t) = {}
      <3>1. x <= t
        BY <2>2 DEF InScope, Unclosed
      <3>2. \E i \in 1..Len(c) : c[i] = t
        BY <1>2, <2>0, <2>2, <3>1 DEF OpenAre
      <3> QED BY <1>4, <3>2
    <2> QED BY <2>1, <2>2
  <1>16. AllClosed(evs, shown, shown2, dn2)
    BY <1>2, <1>13, <1>14, <1>15 DEF AllClosed, ops
  <1> QED BY <1>16 DEF dn2, s

StartsWith(s, x) == s[1] = x

\* A scope that does not close goes on, with the stack that is left.
LEMMA ScopeGoesOn ==
  ASSUME NEW evs, NEW shown, NEW shown2, ShowsLast(evs, shown, shown2),
         NEW c, NEW st, NEW dn, InScope(evs, shown, c, st, dn), IsSequence(dn),
         Returns(evs, shown, Openings(evs, shown), dn),
         NEW k, Inside(evs, c, k),
         NEW c2, NEW st2, Stacked(evs, shown2, c2, st2), StartsWith(c2, c[1]), st2 # << >>
  PROVE  Tracks(evs, shown2, st2, dn)
  <1> DEFINE n == Len(evs)
             x == c[1]
             ops == Openings(evs, shown)
             m == Len(dn) + 1
  <1>1. /\ n \in Nat \ {0} /\ Record(evs, shown) /\ shown2 = shown \cup {n}
        /\ \A j \in shown : j < n /\ j \in 1..Len(evs) /\ j # n
    BY LastFacts DEF ShowsLast
  <1>2. OpenAre(evs, shown, c) /\ Len(ops) = m /\ ops[m] = x /\ \A t \in Unclosed(evs, shown) : x <= t
    BY DEF InScope, Stacked
  <1>3. 1 \in 1..Len(c) /\ 1 <= k /\ x \in shown /\ x < n /\ x # n /\ Around(evs, c, k)
    <2>1. Len(c) \in Nat \ {0}
      BY <1>2, LenProperties DEF OpenAre
    <2>2. 1 \in 1..Len(c)
      BY <2>1
    <2>3. x \in shown
      BY <1>1, <1>2, <2>2, OpenFacts
    <2>4. Around(evs, c, k) /\ k # 0 /\ k \in 0..Len(c)
      BY DEF Inside, Around
    <2>5. 1 <= k
      BY <2>1, <2>4
    <2> QED BY <1>1, <2>2, <2>3, <2>4, <2>5
  <1>4. Closers(evs, shown2, x) = {}
    BY <1>2, <1>3, StaysOpen
  <1>5. IsSequence(ops) /\ Len(ops) \in Nat /\ \A r \in 1..Len(ops) : ops[r] \in TrackedIn(evs, shown)
    BY <1>1, OpeningFacts
  <1>6. Len(dn) \in Nat
    BY LenProperties DEF IsSequence
  <1> HIDE DEF ops
  <1>7. x \in TrackedIn(evs, shown2)
    <2>1. m \in 1..Len(ops)
      BY <1>2, <1>6
    <2> HIDE DEF m
    <2>2. x \in TrackedIn(evs, shown)
      BY <1>2, <1>5, <2>1
    <2> QED BY <1>1, <2>2 DEF TrackedIn
  <1>8. ~OpensAnother(evs, shown2)
    BY <1>3, <1>4, <1>7 DEF OpensAnother
  <1>9. Openings(evs, shown2) = ops
    BY <1>8, OpeningsGrow DEF ops
  <1>10. Returns(evs, shown2, ops, dn)
    <2>1. \A r \in 1..Len(dn) : Closers(evs, shown, ops[r]) # {}
      BY <1>1, EarlierAreClosed DEF ops
    <2>2. Len(dn) <= Len(ops)
      BY <1>2, <1>6
    <2> QED BY <1>6, <2>1, <2>2, ReturnsStay DEF ops
  <1>11. ASSUME NEW t \in Unclosed(evs, shown2) PROVE x <= t
    <2>1. t \in shown2 /\ Closers(evs, shown2, t) = {} /\ t \in TrackedIn(evs, shown2)
      BY DEF Unclosed, TrackedIn
    <2>2. CASE t = n
      <3>1. x \in Nat
        BY <1>1, <1>3
      <3> HIDE DEF x, n
      <3> QED BY <1>1, <1>3, <2>2, <3>1
    <2>3. CASE t \in shown
      <3>1. Closers(evs, shown, t) = {}
        <4>1. t \in 1..Len(evs)
          BY <1>1, <2>3
        <4> QED BY <2>1, <4>1, ClosersGrow
      <3>2. t \in Unclosed(evs, shown)
        BY <2>1, <2>3, <3>1 DEF Unclosed, TrackedIn
      <3> QED BY <1>2, <3>2
    <2> QED BY <1>1, <2>1, <2>2, <2>3
  <1>12. InScope(evs, shown2, c2, st2, dn)
    BY <1>2, <1>9, <1>11 DEF InScope, StartsWith
  <1>13. Returns(evs, shown2, Openings(evs, shown2), dn)
    BY <1>9, <1>10
  <1> QED BY <1>12, <1>13 DEF Tracks

\* Unwinding at the node that is shown, for a caller that showed its master: the scope
\* is closed and returned, or the stack is left with the masters the node stands in.
StillIn(evs, shown, shown2, u) ==
  /\ u.scope # NoScope /\ u.done = done /\ stack # << >>
  /\ \E c, k : /\ InScope(evs, shown, c, stack, done) /\ Inside(evs, c, k)
               /\ Unwinds(evs, shown, shown2, c, k, u.stack)

OutOfScope(evs, shown, shown2, u) ==
  u.scope = NoScope /\ u.stack = << >> /\ AllClosed(evs, shown, shown2, u.done)

LEMMA UnwoundTracks ==
  ASSUME NEW evs, NEW shown, NEW shown2, ShowsLast(evs, shown, shown2),
         Agree(stack, current), Tracks(evs, shown, stack, done),
         stack = << >> => Unclosed(evs, shown) = {},
         stack # << >> /\ evs[Len(evs)].depth > stack[1].depth => ParentOf(evs, Len(evs)) \in shown
  PROVE  LET u == Unwound(evs[Len(evs)].depth, PosOf(evs[Len(evs)]))
         IN OutOfScope(evs, shown, shown2, u) \/ StillIn(evs, shown, shown2, u)
  <1> DEFINE n == Len(evs)
             d == evs[n].depth
             end == PosOf(evs[n])
             u == Unwound(d, end)
             k == Enclosing(stack, d)
  <1>1. d \in Nat /\ Record(evs, shown) /\ Len(evs) \in 1..Len(evs)
    BY LastFacts
  <1>2. /\ Len(stack) \in Nat /\ (Len(stack) = 0 <=> stack = << >>) /\ k \in 0..Len(stack)
        /\ \A i \in 1..Len(stack) : stack[i].depth < d <=> i <= k
    BY <1>1, ElementsOfSequence, EnclosingAreLowest DEF Agree
  <1>3. Opened <=> stack # << >>
    BY <1>2, ScopeIsSome DEF Agree, Opened
  <1>4. IsSequence(done) /\ Returns(evs, shown, Openings(evs, shown), done)
    BY DEF Tracks
  <1>5. CASE stack = << >>
    <2>1. k = 0 /\ Len(stack) = 0 /\ current = NoScope
      BY <1>2, <1>3, <1>5 DEF Opened
    <2>2. UnwoundStack(stack, d) = << >> /\ UnwoundScope(stack, current, d) = NoScope
      BY <1>5, <2>1 DEF UnwoundStack, UnwoundScope
    <2>3. u.stack = << >> /\ u.scope = NoScope /\ u.done = done
      BY <1>3, <1>5, <2>2 DEF Unwound
    <2>4. \A t \in TrackedIn(evs, shown) : Closers(evs, shown, t) # {}
      BY <1>5 DEF Unclosed
    <2>5. Len(Openings(evs, shown)) = Len(done) /\ Len(done) \in Nat
      <3>1. Len(done) \in Nat
        BY <1>4, LenProperties DEF IsSequence
      <3> QED BY <1>5, <3>1 DEF Tracks
    <2>6. \A s \in 1..Len(done) : Openings(evs, shown)[s] \in TrackedIn(evs, shown)
      <3>1. \A s \in 1..Len(Openings(evs, shown)) : Openings(evs, shown)[s] \in TrackedIn(evs, shown)
        BY <1>1, OpeningFacts
      <3> QED BY <2>5, <3>1
    <2>7. Returns(evs, shown2, Openings(evs, shown), done)
      <3>1. \A s \in 1..Len(done) : Closers(evs, shown, Openings(evs, shown)[s]) # {}
        BY <2>4, <2>6
      <3>2. Len(done) <= Len(Openings(evs, shown))
        BY <2>5
      <3> QED BY <1>4, <2>5, <3>1, <3>2, ReturnsStay
    <2>8. \A t \in TrackedIn(evs, shown) : Closers(evs, shown2, t) # {}
      <3>1. \A t \in TrackedIn(evs, shown) : t \in 1..Len(evs)
        BY <1>1 DEF TrackedIn, Record
      <3> QED BY <2>4, <3>1, ClosersGrow
    <2>9. AllClosed(evs, shown, shown2, done)
      BY <1>4, <2>5, <2>7, <2>8 DEF AllClosed
    <2> HIDE DEF u
    <2> QED BY <2>3, <2>9 DEF OutOfScope, u
  <1>6. CASE stack # << >>
    <2>1. PICK c : InScope(evs, shown, c, stack, done)
      BY <1>6 DEF Tracks
    <2>2. Stacked(evs, shown, c, stack) /\ OpenAre(evs, shown, c)
      BY <2>1 DEF InScope, Stacked
    <2>3. Around(evs, c, k)
      BY <1>1, <2>2, EnclosingAround
    <2>4. CASE k = 0
      <3> DEFINE s == EndsAt(UnwoundScope(stack, current, d), end)
      <3>1. AllClosed(evs, shown, shown2, Append(done, s))
        BY <1>4, <2>1, <2>4, ScopeCloses
      <3>2. u.stack = << >> /\ u.scope = NoScope /\ u.done = Append(done, s)
        BY <1>3, <1>6, <2>4 DEF Unwound, EndsAt
      <3> HIDE DEF u, s
      <3> QED BY <3>1, <3>2 DEF OutOfScope, u
    <2>5. CASE k # 0
      <3>1. 1 \in 1..Len(stack) /\ 1 <= k
        BY <1>2, <1>6, <2>5
      <3>2. stack[1].depth < d
        BY <1>2, <3>1
      <3>3. ParentOf(evs, n) \in shown
        <4>1. stack[1].depth \in Nat
          BY <3>1 DEF Agree
        <4> QED BY <1>1, <1>6, <3>2, <4>1
      <3>4. ParentOf(evs, n) = c[k]
        BY <2>2, <2>3, <2>5, <3>3, StandsInInnermost
      <3>5. Inside(evs, c, k)
        BY <2>3, <2>5, <3>4 DEF Inside
      <3>6. Unwinds(evs, shown, shown2, c, k, UnwoundStack(stack, d))
        BY <2>2, <3>5, UnwoundIs
      <3>7. /\ u.stack = UnwoundStack(stack, d) /\ u.scope = UnwoundScope(stack, current, d)
            /\ u.done = done
        BY <2>5 DEF Unwound
      <3>8. u.scope # NoScope
        <4>1. Agree(u.stack, u.scope)
          BY <1>1, UnwoundAgree
        <4>2. Len(u.stack) = k
          BY <3>6, <3>7 DEF Unwinds
        <4> HIDE DEF u
        <4>3. Len(u.stack) # 0
          BY <2>5, <4>2
        <4> QED BY <4>1, <4>3, ScopeIsSome DEF Agree
      <3> HIDE DEF u, k
      <3> QED BY <1>6, <2>1, <3>5, <3>6, <3>7, <3>8 DEF StillIn, u
    <2> QED BY <2>4, <2>5
  <1> QED BY <1>5, <1>6

-----------------------------------------------------------------------------
(* The steps of the tracker.                                               *)

\* A caller that may show the last node: the cursor holds it, and the tracker follows
\* what was shown before.
MayShow ==
  /\ TrackerInv /\ WellNested(events) /\ held # "none" /\ Node.ev = held
  /\ Tracks(events, seen, stack, done)
  /\ stack = << >> => Unclosed(events, seen) = {}
  /\ ParentSeen /\ Len(events) \notin seen

\* What is true of the tracker once it was shown the node.
HasShown(st, dn) ==
  LET shown2 == seen \cup {Len(events)}
  IN Tracks(events, shown2, st, dn) /\ (st = << >> => Unclosed(events, shown2) = {})

LEMMA ShowFacts ==
  ASSUME MayShow
  PROVE  LET shown2 == seen \cup {Len(events)}
             u      == Unwound(Node.depth, PosOf(Node))
         IN /\ ShowsLast(events, seen, shown2) /\ Node = events[Len(events)]
            /\ OutOfScope(events, seen, shown2, u) \/ StillIn(events, seen, shown2, u)
            /\ Agree(u.stack, u.scope)
  <1> DEFINE shown2 == seen \cup {Len(events)}
             u == Unwound(Node.depth, PosOf(Node))
  <1>1. Node = events[Len(events)]
    BY DEF Node, Top
  <1>2. Node.depth \in Nat /\ Len(events) \in DOMAIN events
    BY NodeHeld DEF MayShow
  <1>3. Len(events) \in Nat /\ DOMAIN events = 1..Len(events)
    BY EventFacts DEF MayShow, WellNested
  <1>4. ShowsLast(events, seen, shown2)
    <2>1. Record(events, seen)
      BY <1>3 DEF MayShow, TrackerInv, Record
    <2> QED BY <1>2, <1>3, <2>1 DEF ShowsLast, MayShow
  <1>5. Agree(stack, current) /\ Agree(u.stack, u.scope)
    BY <1>2, UnwoundAgree DEF MayShow, TrackerInv
  <1>6. Opened <=> stack # << >>
    BY <1>5, ScopeIsSome, ElementsOfSequence DEF Agree, Opened
  <1>7. stack # << >> /\ Node.depth > stack[1].depth => ParentOf(events, Len(events)) \in seen
    BY <1>6 DEF MayShow, ParentSeen
  <1>8. Tracks(events, seen, stack, done) /\ (stack = << >> => Unclosed(events, seen) = {})
    BY DEF MayShow
  <1>9. OutOfScope(events, seen, shown2, u) \/ StillIn(events, seen, shown2, u)
    <2> DEFINE e == events[Len(events)]
               v == Unwound(e.depth, PosOf(e))
    <2>1. stack # << >> /\ e.depth > stack[1].depth => ParentOf(events, Len(events)) \in seen
      BY <1>1, <1>7
    <2>2. OutOfScope(events, seen, shown2, v) \/ StillIn(events, seen, shown2, v)
      <3> HIDE DEF shown2
      <3> QED BY <1>4, <1>5, <1>8, <2>1, UnwoundTracks
    <2>3. v = u
      BY <1>1
    <2> HIDE DEF u, v
    <2> QED BY <2>2, <2>3
  <1> QED BY <1>1, <1>4, <1>5, <1>9

\* The lowest of the masters left is the lowest there was.
LEMMA SameLowest ==
  ASSUME NEW evs, NEW shown, NEW shown2, ShowsLast(evs, shown, shown2),
         NEW c, OpenAre(evs, shown, c), NEW k, Inside(evs, c, k)
  PROVE  StartsWith(SubSeq(c, 1, k), c[1])
  <1> DEFINE low == SubSeq(c, 1, k)
  <1>1. Around(evs, c, k) /\ k # 0
    BY DEF Inside
  <1>2. Lowest(evs, shown, shown2, c, k, low)
    BY <1>1, LowestOpen
  <1> HIDE DEF low
  <1>3. 1 \in 1..k /\ low[1] = c[1]
    BY <1>2 DEF Lowest
  <1>4. StartsWith(low, c[1])
    BY <1>3 DEF StartsWith
  <1> QED BY <1>4 DEF low

LEMMA SameLowestBelow ==
  ASSUME NEW evs, NEW shown, NEW shown2, ShowsLast(evs, shown, shown2),
         NEW c, OpenAre(evs, shown, c), NEW k, Inside(evs, c, k), NEW e
  PROVE  StartsWith(Append(SubSeq(c, 1, k), e), c[1])
  <1> DEFINE low == SubSeq(c, 1, k)
  <1>1. Around(evs, c, k) /\ k # 0
    BY DEF Inside
  <1>2. Lowest(evs, shown, shown2, c, k, low)
    BY <1>1, LowestOpen
  <1> HIDE DEF low
  <1>3. low \in Seq(shown) /\ Len(low) = k /\ 1 \in 1..k /\ low[1] = c[1]
    BY <1>2 DEF Lowest
  <1>4. IsSequence(low)
    BY <1>3, SeqOfRange DEF IsSequence
  <1>5. Append(low, e)[1] = low[1]
    BY <1>3, <1>4, AppendToSequence
  <1>6. StartsWith(Append(low, e), c[1])
    BY <1>3, <1>5 DEF StartsWith
  <1> QED BY <1>6 DEF low

LEMMA ObserveMasterTracks ==
  ASSUME MayShow, ObserveMaster PROVE HasShown(stack', done')
  <1> DEFINE shown2 == seen \cup {Len(events)}
             u == Unwound(Node.depth, PosOf(Node))
             v == Unwound(Node.depth, Node.offset)
             n == Len(events)
             opens == [element |-> FromNode(Node), depth |-> Node.depth]
  <1>1. /\ ShowsLast(events, seen, shown2) /\ Node = events[n]
        /\ OutOfScope(events, seen, shown2, u) \/ StillIn(events, seen, shown2, u)
        /\ Agree(u.stack, u.scope)
    BY ShowFacts
  <1>2. Node.ev = "master"
    BY DEF MayShow, ObserveMaster
  <1>3. PosOf(Node) = Node.offset
    BY <1>2 DEF PosOf
  <1>4. u = v
    BY <1>3
  <1>5. /\ done' = u.done
        /\ u.scope # NoScope => stack' = Append(u.stack, opens)
        /\ u.scope = NoScope /\ Node.id = Tracked => stack' = <<opens>>
        /\ u.scope = NoScope /\ Node.id # Tracked => stack' = << >>
    <2>1. /\ done' = v.done
          /\ v.scope # NoScope => stack' = Append(v.stack, opens)
          /\ v.scope = NoScope /\ Node.id = Tracked => stack' = <<opens>>
          /\ v.scope = NoScope /\ Node.id # Tracked => stack' = << >>
      <3> HIDE DEF opens
      <3> QED BY DEF ObserveMaster, opens
    <2> HIDE DEF u, v, opens
    <2> QED BY <1>4, <2>1
  <1>6. opens = Opens(events[n])
    BY <1>1 DEF Opens
  <1>7. events[n].ev = "master" /\ (events[n].id = Tracked <=> Node.id = Tracked)
    BY <1>1, <1>2
  <1> HIDE DEF shown2, u, v, opens
  <1>8. CASE OutOfScope(events, seen, shown2, u)
    <2>1. u.scope = NoScope /\ AllClosed(events, seen, shown2, u.done)
      BY <1>8 DEF OutOfScope
    <2>2. CASE Node.id = Tracked
      <3>1. Tracks(events, shown2, <<Opens(events[n])>>, u.done)
        BY <1>1, <1>7, <2>1, <2>2, OpensScope
      <3>2. <<Opens(events[n])>> # << >>
        OBVIOUS
      <3> QED BY <1>5, <1>6, <2>1, <2>2, <3>1, <3>2 DEF HasShown, shown2
    <2>3. CASE Node.id # Tracked
      <3>1. Tracks(events, shown2, << >>, u.done) /\ Unclosed(events, shown2) = {}
        BY <1>1, <1>7, <2>1, <2>3, OpensNone
      <3> QED BY <1>5, <2>1, <2>3, <3>1 DEF HasShown, shown2
    <2> QED BY <2>2, <2>3
  <1>9. CASE StillIn(events, seen, shown2, u)
    <2>1. u.scope # NoScope /\ u.done = done
      BY <1>9 DEF StillIn
    <2>2. PICK c, k : /\ InScope(events, seen, c, stack, done) /\ Inside(events, c, k)
                      /\ Unwinds(events, seen, shown2, c, k, u.stack)
      BY <1>9 DEF StillIn
    <2>3. OpenAre(events, seen, c)
      BY <2>2 DEF InScope, Stacked
    <2> DEFINE new == Append(u.stack, opens)
               c2 == Append(SubSeq(c, 1, k), n)
    <2>4. Len(u.stack) = k
      BY <2>2 DEF Unwinds
    <2>5. /\ Len(new) = k + 1 /\ (\A i \in 1..k : new[i] = u.stack[i])
          /\ new[k + 1] = opens
      <3>1. IsSequence(u.stack)
        BY <1>1 DEF Agree
      <3> QED BY <2>4, <3>1, AppendToSequence
    <2> HIDE DEF new
    <2>6. Stacked(events, shown2, c2, new)
      BY <1>1, <1>6, <1>7, <2>2, <2>3, <2>5, StackedMaster
    <2>7. StartsWith(c2, c[1])
      BY <1>1, <2>2, <2>3, SameLowestBelow
    <2>8. new # << >>
      <3>1. k \in Nat
        BY <1>1, <2>4, ElementsOfSequence DEF Agree
      <3>2. Len(new) # 0
        BY <2>5, <3>1
      <3> QED BY <3>2, EmptySeq
    <2>9. IsSequence(done) /\ Returns(events, seen, Openings(events, seen), done)
      BY DEF MayShow, Tracks
    <2> HIDE DEF c2
    <2>10. Tracks(events, shown2, new, done)
      BY <1>1, <2>2, <2>6, <2>7, <2>8, <2>9, ScopeGoesOn
    <2> QED BY <1>5, <2>1, <2>8, <2>10 DEF HasShown, shown2, new
  <1> QED BY <1>1, <1>8, <1>9

LEMMA ObserveLeafTracks ==
  ASSUME MayShow, ObserveLeaf PROVE HasShown(stack', done')
  <1> DEFINE shown2 == seen \cup {Len(events)}
             u == Unwound(Node.depth, PosOf(Node))
             v == Unwound(Node.depth, Node.offset)
             n == Len(events)
             new == [u.stack EXCEPT ![Len(u.stack)].element = AppendChild(@, FromNode(Node))]
  <1>1. /\ ShowsLast(events, seen, shown2) /\ Node = events[n]
        /\ OutOfScope(events, seen, shown2, u) \/ StillIn(events, seen, shown2, u)
        /\ Agree(u.stack, u.scope)
    BY ShowFacts
  <1>2. Node.ev = "leaf"
    BY DEF MayShow, ObserveLeaf
  <1>3. PosOf(Node) = Node.offset
    BY <1>2 DEF PosOf
  <1>4. u = v
    BY <1>3
  <1>5. /\ done' = u.done
        /\ u.scope # NoScope => stack' = new
        /\ u.scope = NoScope => stack' = << >>
    <2> DEFINE new2 == [v.stack EXCEPT ![Len(v.stack)].element = AppendChild(@, FromNode(Node))]
    <2>1. /\ done' = v.done
          /\ v.scope # NoScope => stack' = new2
          /\ v.scope = NoScope => stack' = << >>
      <3> HIDE DEF new2
      <3> QED BY DEF ObserveLeaf, new2
    <2>2. new2 = new
      BY <1>4
    <2> HIDE DEF u, v, new, new2
    <2> QED BY <1>4, <2>1, <2>2
  <1>6. events[n].ev = "leaf"
    BY <1>1, <1>2
  <1> HIDE DEF shown2, u, v
  <1>7. CASE OutOfScope(events, seen, shown2, u)
    <2>1. u.scope = NoScope /\ AllClosed(events, seen, shown2, u.done)
      BY <1>7 DEF OutOfScope
    <2>2. Tracks(events, shown2, << >>, u.done) /\ Unclosed(events, shown2) = {}
      BY <1>1, <1>6, <2>1, OpensNone
    <2> HIDE DEF new
    <2> QED BY <1>5, <2>1, <2>2 DEF HasShown, shown2
  <1>8. CASE StillIn(events, seen, shown2, u)
    <2>1. u.scope # NoScope /\ u.done = done
      BY <1>8 DEF StillIn
    <2>2. PICK c, k : /\ InScope(events, seen, c, stack, done) /\ Inside(events, c, k)
                      /\ Unwinds(events, seen, shown2, c, k, u.stack)
      BY <1>8 DEF StillIn
    <2>3. OpenAre(events, seen, c)
      BY <2>2 DEF InScope, Stacked
    <2>4. Len(u.stack) = k /\ k # 0 /\ IsSequence(u.stack)
      BY <1>1, <2>2 DEF Unwinds, Inside, Agree
    <2>5. k \in 1..Len(u.stack) /\ DOMAIN u.stack = 1..k /\ k \in Nat
      BY <2>4, ElementsOfSequence
    <2>6. u.stack[k] = [element |-> u.stack[k].element, depth |-> u.stack[k].depth]
      BY <1>1, <2>5 DEF Agree
    <2>7. /\ DOMAIN new = 1..k /\ (\A i \in 1..k : i # k => new[i] = u.stack[i])
          /\ new[k] = [u.stack[k] EXCEPT !.element = AppendChild(@, FromNode(Node))]
      BY <2>4, <2>5
    <2> HIDE DEF new
    <2>8. new[k] = WithLeaf(u.stack[k], events[n])
      <3>1. new[k] = [element |-> AppendChild(u.stack[k].element, FromNode(Node)),
                      depth |-> u.stack[k].depth]
        BY <2>6, <2>7
      <3> QED BY <1>1, <3>1 DEF WithLeaf
    <2>9. Len(new) = k /\ \A i \in 1..k : i < k => new[i] = u.stack[i]
      BY <2>5, <2>7
    <2>10. Stacked(events, shown2, SubSeq(c, 1, k), new)
      BY <1>1, <1>6, <2>2, <2>3, <2>8, <2>9, StackedLeaf
    <2>11. StartsWith(SubSeq(c, 1, k), c[1])
      BY <1>1, <2>2, <2>3, SameLowest
    <2>12. new # << >>
      BY <2>4, <2>9, EmptySeq
    <2>13. IsSequence(done) /\ Returns(events, seen, Openings(events, seen), done)
      BY DEF MayShow, Tracks
    <2>14. Tracks(events, shown2, new, done)
      BY <1>1, <2>2, <2>10, <2>11, <2>12, <2>13, ScopeGoesOn
    <2> QED BY <1>5, <2>1, <2>12, <2>14 DEF HasShown, shown2
  <1> QED BY <1>1, <1>7, <1>8

LEMMA ObserveEndTracks ==
  ASSUME MayShow, ObserveEnd PROVE HasShown(stack', done')
  <1> DEFINE shown2 == seen \cup {Len(events)}
             u == Unwound(Node.depth, PosOf(Node))
             n == Len(events)
  <1>1. /\ ShowsLast(events, seen, shown2) /\ Node = events[n]
        /\ OutOfScope(events, seen, shown2, u) \/ StillIn(events, seen, shown2, u)
        /\ Agree(u.stack, u.scope)
    BY ShowFacts
  <1>2. Node.ev = "end"
    BY DEF MayShow, ObserveEnd
  <1>3. PosOf(Node) = Node.end
    BY <1>2 DEF PosOf
  <1>4. done' = u.done /\ stack' = u.stack
    BY <1>3 DEF ObserveEnd
  <1>5. events[n].ev = "end"
    BY <1>1, <1>2
  <1> HIDE DEF shown2, u
  <1>6. CASE OutOfScope(events, seen, shown2, u)
    <2>1. u.stack = << >> /\ AllClosed(events, seen, shown2, u.done)
      BY <1>6 DEF OutOfScope
    <2>2. Tracks(events, shown2, << >>, u.done) /\ Unclosed(events, shown2) = {}
      BY <1>1, <1>5, <2>1, OpensNone
    <2> QED BY <1>4, <2>1, <2>2 DEF HasShown, shown2
  <1>7. CASE StillIn(events, seen, shown2, u)
    <2>1. u.done = done
      BY <1>7 DEF StillIn
    <2>2. PICK c, k : /\ InScope(events, seen, c, stack, done) /\ Inside(events, c, k)
                      /\ Unwinds(events, seen, shown2, c, k, u.stack)
      BY <1>7 DEF StillIn
    <2>3. OpenAre(events, seen, c)
      BY <2>2 DEF InScope, Stacked
    <2>4. Len(u.stack) = k /\ k # 0
      BY <2>2 DEF Unwinds, Inside
    <2>5. Stacked(events, shown2, SubSeq(c, 1, k), u.stack)
      BY <1>1, <1>5, <2>2, <2>3, StackedClosed
    <2>6. StartsWith(SubSeq(c, 1, k), c[1])
      BY <1>1, <2>2, <2>3, SameLowest
    <2>7. u.stack # << >>
      BY <2>4, EmptySeq
    <2>8. IsSequence(done) /\ Returns(events, seen, Openings(events, seen), done)
      BY DEF MayShow, Tracks
    <2>9. Tracks(events, shown2, u.stack, done)
      BY <1>1, <2>2, <2>5, <2>6, <2>7, <2>8, ScopeGoesOn
    <2> QED BY <1>4, <2>1, <2>7, <2>9 DEF HasShown, shown2
  <1> QED BY <1>1, <1>6, <1>7

-----------------------------------------------------------------------------
(* What the tracker follows, through the steps that show it nothing.       *)

LEMMA ChildrenTheSame ==
  ASSUME NEW evs, NEW evs2, NEW shown, SaysTheSame(evs, evs2, shown), NEW i \in 1..Len(evs)
  PROVE  /\ ChildrenSoFar(evs2, shown, i) = ChildrenSoFar(evs, shown, i)
         /\ ChildrenAll(evs2, shown, i) = ChildrenAll(evs, shown, i)
  <1> DEFINE yes == TRUE
             no == FALSE
  <1>1. yes \in BOOLEAN /\ no \in BOOLEAN
    OBVIOUS
  <1> HIDE DEF yes, no
  <1>2. /\ CompleteChildren(evs2, shown, yes, i) = CompleteChildren(evs, shown, yes, i)
        /\ CompleteChildren(evs2, shown, no, i) = CompleteChildren(evs, shown, no, i)
    BY <1>1 DEF SaysTheSame
  <1> QED BY <1>2 DEF ChildrenSoFar, ChildrenAll, yes, no

LEMMA StackedTheSame ==
  ASSUME NEW evs, NEW shown, Record(evs, shown), NEW evs2, SaysTheSame(evs, evs2, shown),
         NEW c, NEW st, Stacked(evs, shown, c, st)
  PROVE  Stacked(evs2, shown, c, st)
  <1>1. OpenAre(evs, shown, c) /\ Len(st) = Len(c)
        /\ \A i \in 1..Len(c) : st[i] = Entry(evs, shown, c[i])
    BY DEF Stacked
  <1>2. \A i \in 1..Len(c) : c[i] \in 1..Len(evs)
    BY <1>1, OpenFacts
  <1>3. shown \subseteq 1..Len(evs)
    BY DEF Record
  <1>4. \A x \in 1..Len(evs) : /\ evs2[x] = evs[x] /\ ParentOf(evs2, x) = ParentOf(evs, x)
                               /\ Closers(evs2, shown, x) = Closers(evs, shown, x)
    BY DEF SaysTheSame
  <1>5. OpenAre(evs2, shown, c)
    <2>1. c \in Seq(shown) /\ Len(c) # 0
      BY <1>1 DEF OpenAre
    <2>2. \A i, j \in 1..Len(c) : i < j => c[i] < c[j] /\ evs2[c[i]].depth < evs2[c[j]].depth
      BY <1>1, <1>2, <1>4 DEF OpenAre
    <2>3. \A i \in 1..Len(c) : /\ evs2[c[i]].ev = "master" /\ Closers(evs2, shown, c[i]) = {}
                               /\ i > 1 => ParentOf(evs2, c[i]) = c[i - 1]
      BY <1>1, <1>2, <1>4 DEF OpenAre
    <2>4. \A x \in shown : evs2[x].ev = "master" /\ Closers(evs2, shown, x) = {} /\ c[1] <= x =>
            \E i \in 1..Len(c) : c[i] = x
      BY <1>1, <1>3, <1>4 DEF OpenAre
    <2> QED BY <2>1, <2>2, <2>3, <2>4 DEF OpenAre
  <1>6. ASSUME NEW i \in 1..Len(c) PROVE st[i] = Entry(evs2, shown, c[i])
    <2>1. ChildrenSoFar(evs2, shown, c[i]) = ChildrenSoFar(evs, shown, c[i])
      BY <1>2, ChildrenTheSame
    <2>2. evs2[c[i]] = evs[c[i]]
      BY <1>2, <1>4
    <2> QED BY <1>1, <2>1, <2>2 DEF Entry
  <1> QED BY <1>1, <1>5, <1>6 DEF Stacked

LEMMA UnclosedTheSame ==
  ASSUME NEW evs, NEW shown, Record(evs, shown), NEW evs2, SaysTheSame(evs, evs2, shown)
  PROVE  Unclosed(evs2, shown) = Unclosed(evs, shown)
  <1>1. \A x \in shown : evs2[x] = evs[x] /\ Closers(evs2, shown, x) = Closers(evs, shown, x)
    BY DEF SaysTheSame, Record
  <1> QED BY <1>1 DEF Unclosed, TrackedIn

LEMMA ReturnedTheSame ==
  ASSUME NEW evs, NEW shown, Record(evs, shown), NEW evs2, SaysTheSame(evs, evs2, shown),
         NEW x \in 1..Len(evs), NEW s, Returned(evs, shown, x, s)
  PROVE  Returned(evs2, shown, x, s)
  <1> DEFINE cl == Closers(evs, shown, x)
  <1>1. evs2[x] = evs[x] /\ Closers(evs2, shown, x) = cl
    BY DEF SaysTheSame
  <1>2. ChildrenAll(evs2, shown, x) = ChildrenAll(evs, shown, x)
    BY ChildrenTheSame
  <1>3. cl # {} => evs2[Min(cl)] = evs[Min(cl)]
    <2>1. Len(evs) \in Nat /\ cl \subseteq 1..Len(evs)
      BY EventFacts DEF Record, WellNested, Closers
    <2> HIDE DEF cl
    <2>2. cl \in SUBSET Nat
      BY <2>1
    <2>3. ASSUME cl # {} PROVE Min(cl) \in cl
      <3>1. PICK m \in cl : \A y \in cl : m <= y
        BY <2>2, <2>3, LeastOf
      <3> QED BY <3>1 DEF Min
    <2>4. cl # {} => Min(cl) \in 1..Len(evs)
      BY <2>1, <2>3
    <2> QED BY <2>4 DEF SaysTheSame
  <1> HIDE DEF cl
  <1> QED BY <1>1, <1>2, <1>3 DEF Returned, cl

\* More reports, not shown yet, leave everything as it was.
LEMMA TracksOverReports ==
  ASSUME NEW evs, NEW shown, Record(evs, shown), NEW evs2, WellNested(evs2), Extends(evs, evs2),
         NEW st, NEW dn, Tracks(evs, shown, st, dn)
  PROVE  /\ Tracks(evs2, shown, st, dn)
         /\ Unclosed(evs2, shown) = Unclosed(evs, shown)
  <1> DEFINE ops == Openings(evs, shown)
  <1>1. SaysTheSame(evs, evs2, shown)
    BY ReportsSayNothingNew
  <1>2. Unclosed(evs2, shown) = Unclosed(evs, shown) /\ Openings(evs2, shown) = ops
    BY <1>1, UnclosedTheSame DEF SaysTheSame
  <1>3. Len(ops) \in Nat /\ \A s \in 1..Len(ops) : ops[s] \in 1..Len(evs)
    BY OpeningFacts
  <1>4. IsSequence(dn) /\ Len(dn) \in Nat /\ Returns(evs, shown, ops, dn)
        /\ (st = << >> => Len(ops) = Len(dn)) /\ (st # << >> => \E c : InScope(evs, shown, c, st, dn))
    BY LenProperties DEF Tracks, IsSequence
  <1>5. Len(dn) <= Len(ops)
    BY <1>3, <1>4 DEF InScope
  <1>6. Returns(evs2, shown, ops, dn)
    <2> SUFFICES ASSUME NEW s \in 1..Len(dn) PROVE Returned(evs2, shown, ops[s], dn[s])
      BY DEF Returns
    <2> HIDE DEF ops
    <2>1. s \in 1..Len(ops)
      BY <1>3, <1>4, <1>5
    <2>2. ops[s] \in 1..Len(evs) /\ Returned(evs, shown, ops[s], dn[s])
      BY <1>3, <1>4, <2>1 DEF Returns
    <2> QED BY <1>1, <2>2, ReturnedTheSame
  <1>7. ASSUME st # << >> PROVE \E c : InScope(evs2, shown, c, st, dn)
    <2>1. PICK c : InScope(evs, shown, c, st, dn)
      BY <1>4, <1>7
    <2>2. Stacked(evs2, shown, c, st)
      BY <1>1, <2>1, StackedTheSame DEF InScope
    <2> QED BY <1>2, <2>1, <2>2 DEF InScope
  <1> HIDE DEF ops
  <1> QED BY <1>2, <1>4, <1>6, <1>7 DEF Tracks

\* Finish returns the scope that is open, with no end.
LEMMA FinishTracks ==
  ASSUME TrackerInv, WellNested(events), Tracks(events, seen, stack, done), Finish
  PROVE  Tracks(events, seen, stack', done') /\ stack' = << >>
  <1> DEFINE s == EndsAt(UnwoundScope(stack, current, 0), -1)
             dn2 == Append(done, s)
             ops == Openings(events, seen)
             m == Len(done) + 1
  <1>1. Agree(stack, current) /\ Record(events, seen)
    BY EventFacts DEF TrackerInv, WellNested, Record
  <1>2. stack # << >>
    BY <1>1, ScopeIsSome, ElementsOfSequence DEF Agree, Opened, Finish
  <1>3. PICK c : InScope(events, seen, c, stack, done)
    BY <1>2 DEF Tracks
  <1>4. Enclosing(stack, 0) = 0
    <2> DEFINE k == Enclosing(stack, 0)
               zero == 0
    <2>1. zero \in Nat
      OBVIOUS
    <2> HIDE DEF zero
    <2>2. Enclosing(stack, zero) \in 0..Len(stack)
          /\ \A i \in 1..Len(stack) : stack[i].depth < zero <=> i <= Enclosing(stack, zero)
      BY <1>1, <2>1, EnclosingAreLowest
    <2>3. k \in 0..Len(stack) /\ \A i \in 1..Len(stack) : stack[i].depth < 0 <=> i <= k
      BY <2>2 DEF zero
    <2>4. Len(stack) \in Nat /\ \A i \in 1..Len(stack) : stack[i].depth \in Nat
      BY <1>1, ElementsOfSequence DEF Agree
    <2> HIDE DEF k
    <2>5. k # 0 => 1 \in 1..Len(stack) /\ 1 <= k
      BY <2>3, <2>4
    <2>6. k = 0
      BY <2>3, <2>4, <2>5
    <2> QED BY <2>6 DEF k
  <1>5. stack' = << >> /\ done' = dn2
    BY <1>4 DEF Finish, Unwound, EndsAt
  <1>6. /\ Stacked(events, seen, c, stack) /\ OpenAre(events, seen, c)
        /\ Len(ops) = m /\ ops[m] = c[1]
    BY <1>3 DEF InScope, Stacked
  <1>7. s = [start |-> events[c[1]].offset, end |-> -1, children |-> ChildrenAll(events, seen, c[1])]
    <2> DEFINE d == 0
               e == -1
    <2>1. Enclosing(stack, d) = 0
      BY <1>4
    <2> HIDE DEF d, e
    <2>2. EndsAt(UnwoundScope(stack, current, d), e) =
            [start |-> events[c[1]].offset, end |-> e, children |-> ChildrenAll(events, seen, c[1])]
      BY <1>1, <1>6, <2>1, ScopeClosed
    <2> QED BY <2>2 DEF d, e
  <1>8. Closers(events, seen, c[1]) = {}
    <2>1. Len(c) \in Nat \ {0}
      BY <1>6, LenProperties DEF OpenAre
    <2>2. 1 \in 1..Len(c)
      BY <2>1
    <2> QED BY <1>6, <2>2 DEF OpenAre
  <1> HIDE DEF s
  <1>9. Returned(events, seen, c[1], s)
    BY <1>7, <1>8 DEF Returned
  <1>10. IsSequence(done) /\ Len(done) \in Nat /\ Returns(events, seen, ops, done)
    BY LenProperties DEF Tracks, IsSequence
  <1>11. IsSequence(dn2) /\ Len(dn2) = m /\ dn2[m] = s /\ \A r \in 1..Len(done) : dn2[r] = done[r]
    BY <1>10, AppendToSequence
  <1> HIDE DEF dn2, ops
  <1>12. Returns(events, seen, ops, dn2)
    <2> SUFFICES ASSUME NEW r \in 1..m PROVE Returned(events, seen, ops[r], dn2[r])
      BY <1>11 DEF Returns
    <2>1. r \in 1..Len(done) \/ r = m
      BY <1>10
    <2> HIDE DEF m
    <2> QED BY <1>6, <1>9, <1>10, <1>11, <2>1 DEF Returns
  <1>13. Tracks(events, seen, << >>, dn2)
    BY <1>6, <1>11, <1>12 DEF Tracks, ops
  <1> QED BY <1>5, <1>13

-----------------------------------------------------------------------------
(* What the cursor reports is well nested.                                 *)

\* The i-th node is a master whose end was not reported yet.
Unended(evs, i) ==
  evs[i].ev = "master" /\ \A j \in (i + 1)..Len(evs) : evs[j].depth > evs[i].depth

\* A node may be reported at the depth n: a master is open at each depth above it.
RoomAt(evs, n) ==
  \A d \in 0..(n - 1) : \E i \in 1..Len(evs) : Unended(evs, i) /\ evs[i].depth = d

LEMMA RoomAbove ==
  ASSUME NEW evs, NEW n \in Nat, RoomAt(evs, n), NEW k \in Nat, k <= n
  PROVE  RoomAt(evs, k)
  BY DEF RoomAt

LEMMA EventAdded ==
  ASSUME NEW evs, WellNested(evs), NEW e \in Event, RoomAt(evs, e.depth)
  PROVE  LET more == Append(evs, e)
         IN /\ WellNested(more) /\ RoomAt(more, e.depth)
            /\ e.ev = "master" => RoomAt(more, e.depth + 1)
  <1> DEFINE more == Append(evs, e)
             L == Len(evs)
             n == e.depth
  <1>1. /\ more \in Seq(Event) /\ Len(more) = L + 1 /\ L \in Nat
        /\ \A i \in 1..L : more[i] = evs[i] /\ evs[i].depth \in Nat
        /\ more[L + 1] = e
    BY AppendProperties, EventFacts DEF WellNested
  <1>2. n \in Nat
    BY DEF Event
  <1> HIDE DEF more, L, n
  <1>3. ASSUME NEW d \in 0..(n - 1)
        PROVE  \E i \in 1..L : Unended(more, i) /\ more[i].depth = d
    <2>1. PICK i \in 1..L : Unended(evs, i) /\ evs[i].depth = d
      BY DEF RoomAt, L, n
    <2>2. ASSUME NEW j \in (i + 1)..(L + 1) PROVE more[j].depth > d
      <3>1. CASE j = L + 1
        BY <1>1, <1>2, <3>1 DEF n
      <3>2. CASE j # L + 1
        <4>1. j \in (i + 1)..L /\ j \in 1..L
          BY <1>1, <3>2
        <4> QED BY <1>1, <2>1, <4>1 DEF Unended, L
      <3> QED BY <3>1, <3>2
    <2>3. more[i] = evs[i]
      BY <1>1
    <2> QED BY <1>1, <2>1, <2>2, <2>3 DEF Unended
  <1>4. RoomAt(more, n)
    <2>1. 1..L \subseteq 1..Len(more)
      BY <1>1
    <2> QED BY <1>3, <2>1 DEF RoomAt
  <1>5. e.ev = "master" => RoomAt(more, n + 1)
    <2> SUFFICES ASSUME e.ev = "master", NEW d \in 0..n
                 PROVE  \E i \in 1..(L + 1) : Unended(more, i) /\ more[i].depth = d
      BY <1>1, <1>2 DEF RoomAt
    <2>1. CASE d = n
      <3>1. L + 1 \in 1..(L + 1) /\ \A j \in (L + 1 + 1)..(L + 1) : FALSE
        BY <1>1
      <3>2. Unended(more, L + 1) /\ more[L + 1].depth = d
        BY <1>1, <2>1, <3>1 DEF Unended, n
      <3> QED BY <3>1, <3>2
    <2>2. CASE d # n
      <3>1. d \in 0..(n - 1) /\ 1..L \subseteq 1..(L + 1)
        BY <1>1, <1>2, <2>2
      <3> QED BY <1>3, <3>1
    <2> QED BY <2>1, <2>2
  <1>6. ASSUME NEW j \in 1..(L + 1), more[j].depth # 0
        PROVE  \E i \in 1..(j - 1) : StandsIn(more, j, i)
    <2>1. CASE j = L + 1
      <3>1. n - 1 \in 0..(n - 1) /\ more[j].depth = n
        BY <1>1, <1>2, <1>6, <2>1 DEF n
      <3>2. PICK i \in 1..L : Unended(more, i) /\ more[i].depth = n - 1
        BY <1>3, <3>1
      <3>3. i \in 1..(j - 1) /\ \A k \in (i + 1)..j : k \in (i + 1)..Len(more) /\ k \in 1..(L + 1)
        BY <1>1, <2>1
      <3>4. \A k \in 1..(L + 1) : more[k].depth \in Nat
        <4> SUFFICES ASSUME NEW k \in 1..(L + 1) PROVE more[k].depth \in Nat
          OBVIOUS
        <4>1. k = L + 1 \/ k \in 1..L
          BY <1>1
        <4> QED BY <1>1, <1>2, <4>1 DEF n
      <3>5. \A k \in (i + 1)..j : more[k].depth >= more[j].depth
        BY <1>2, <3>1, <3>2, <3>3, <3>4 DEF Unended
      <3> QED BY <3>1, <3>2, <3>3, <3>5 DEF StandsIn, Unended
    <2>2. CASE j # L + 1
      <3>1. j \in 1..L /\ more[j] = evs[j]
        BY <1>1, <2>2
      <3>2. PICK i \in 1..(j - 1) : StandsIn(evs, j, i)
        BY <1>6, <3>1 DEF WellNested, L
      <3>3. i \in 1..L /\ more[i] = evs[i] /\ \A k \in (i + 1)..j : k \in 1..L /\ more[k] = evs[k]
        BY <1>1, <3>1
      <3> QED BY <3>1, <3>2, <3>3 DEF StandsIn
    <2> QED BY <2>1, <2>2
  <1>7. WellNested(more)
    BY <1>1, <1>6 DEF WellNested
  <1> QED BY <1>4, <1>5, <1>7 DEF more, n

\* At how many depths a master is open, for the caller.
Rooms == IF pending = "master" THEN Len(open) + 1 ELSE Len(open)

\* A node of the masters o, an end of the innermost of them, the last report, or none.
ReportsNode(o) ==
  /\ err = "none" /\ open' = o /\ held' \in {"master", "leaf"} /\ pending' = held'
  /\ \E e : events' = Append(events, e) /\ e.depth = Len(o) /\ e.ev = held'

ReportsEnd(o) ==
  /\ err = "none" /\ o # << >> /\ open' = Pop(o) /\ held' = "end" /\ pending' = "none"
  /\ \E e : events' = Append(events, e) /\ e.depth = Len(o) - 1 /\ e.ev = "end"

ReportsLast ==
  /\ held' = "none"
  /\ \E e : /\ events' = Append(events, e) /\ e.depth = 0 /\ e.ev \in {"eof", "fail"}
            /\ err' # "none" \/ e.ev = "eof"

ReportsNone ==
  /\ events' = events /\ held' \in {held, "none"}
  /\ err' = "none" => err = "none" /\ Rooms' <= Rooms

LEMMA FailureIsLast ==
  ASSUME NEW why, Fail(why), why # "none"
  PROVE  ReportsLast
  BY DEF Fail, Outcome, ReportsLast

LEMMA EndOrLast ==
  ASSUME NEW q, NEW o, NEW end, NEW reason, IssueEnd(q, o, end, reason), Settled, err = "none"
  PROVE  ReportsLast \/ ReportsEnd(o)
  <1>1. CASE o = << >>
    BY <1>1, FailureIsLast DEF IssueEnd
  <1>2. CASE o # << >>
    BY <1>2 DEF IssueEnd, EndNode, Settled, ReportsEnd
  <1> QED BY <1>1, <1>2

LEMMA DequeuedOrLast ==
  ASSUME NEW q, NEW o, NEW cs, DequeueClose(q, o, cs), Settled, err = "none"
  PROVE  ReportsLast \/ ReportsEnd(o)
  <1>1. CASE o = << >> \/ Top(o).id # Head(cs).id
    BY <1>1, FailureIsLast DEF DequeueClose
  <1>2. CASE o # << >> /\ Top(o).id = Head(cs).id
    BY <1>2, EndOrLast DEF DequeueClose
  <1> QED BY <1>1, <1>2

\* A decision carried out leaves a master open only where there was one to enter.
LEMMA ResolvedRooms ==
  ASSUME CursorInv
  PROVE  /\ Rooms \in Nat /\ Len(open) \in Nat /\ Len(open) <= Rooms
         /\ ResolvedOpen \in Seq(OpenMaster) /\ Len(ResolvedOpen) \in Nat
         /\ Len(ResolvedOpen) <= Rooms
  <1>1. open \in Seq(OpenMaster) /\ Len(open) \in Nat /\ (pending = "master" => pendOpen \in OpenMaster)
    BY LenProperties DEF CursorInv, TypeOK
  <1>2. pending = "master" => /\ Append(open, pendOpen) \in Seq(OpenMaster)
                              /\ Len(Append(open, pendOpen)) = Len(open) + 1
    BY <1>1, AppendProperties
  <1> QED BY <1>1, <1>2 DEF Rooms, ResolvedOpen

\* One call of Next.
LEMMA WhatNextReports ==
  ASSUME CursorInv, CursorNext
  PROVE  ReportsNone \/ ReportsLast \/ ReportsEnd(ResolvedOpen) \/ ReportsNode(ResolvedOpen)
  <1>1. /\ Rooms \in Nat /\ Len(open) \in Nat /\ Len(open) <= Rooms
        /\ Len(ResolvedOpen) \in Nat /\ Len(ResolvedOpen) <= Rooms
    BY ResolvedRooms
  <1>2. CASE NextAgain \/ NextResolveBlocked
    <2>1. events' = events /\ held' = "none" /\ UNCHANGED <<err, open, pending>>
      BY <1>2 DEF NextAgain, NextResolveBlocked
    <2>2. Rooms' = Rooms
      BY <2>1 DEF Rooms
    <2> QED BY <1>1, <2>1, <2>2 DEF ReportsNone
  <1>3. CASE NextResolveFails
    BY <1>3, ResolvingHasReasons, FailureIsLast DEF NextResolveFails
  <1>4. CASE NextDequeue
    BY <1>4, DequeuedOrLast DEF NextDequeue
  <1>5. CASE NextNeedsMore
    <2>1. /\ events' = events /\ held' = "none" /\ err' = err
          /\ open' = ResolvedOpen /\ pending' = "none"
      BY <1>5 DEF NextNeedsMore, Settled
    <2>2. Rooms' = Len(ResolvedOpen)
      BY <2>1 DEF Rooms
    <2> QED BY <1>1, <2>1, <2>2 DEF ReportsNone
  <1>6. CASE NextRunsEOF
    <2>1. Settled /\ err = "none"
      BY <1>6 DEF NextRunsEOF
    <2>2. ReportsLast \/ DequeueClose(FinalizeEOF(ResolvedParser), ResolvedOpen,
                                      ClosedMasters(ResolvedParser))
      <3>1. CASE FinalizeEOFResult(doc, ResolvedParser) # "ok"
        BY <1>6, <3>1, ReasonsAreGiven, FailureIsLast DEF NextRunsEOF
      <3>2. CASE FinalizeEOFResult(doc, ResolvedParser) = "ok"
        BY <1>6, <3>2 DEF NextRunsEOF, Outcome, ReportsLast
      <3> QED BY <3>1, <3>2
    <2> QED BY <2>1, <2>2, DequeuedOrLast
  <1>7. CASE NextEOF
    BY <1>7 DEF NextEOF, Outcome, ReportsLast
  <1>8. CASE NextEnd
    <2>1. Settled /\ err = "none"
      BY <1>8 DEF NextEnd, AdvanceEnd
    <2>2. ReportsLast \/ \E q, end : IssueEnd(q, ResolvedOpen, end, "DeclaredEnd")
      BY <1>8, ReasonsAreGiven, FailureIsLast DEF NextEnd, AdvanceEnd
    <2> QED BY <2>1, <2>2, EndOrLast
  <1>9. CASE NextHeader
    <2> DEFINE q == ResolvedParser
               o == ResolvedOpen
               h == HeaderAt(doc, q.pos)
    <2>1. AdvanceHeader(q, o) /\ err = "none"
      BY <1>9 DEF NextHeader
    <2>2. KindOf[h.id] \in Kind
      <3>1. err = "none" /\ ResolveResult = "ok" /\ PeekResult(doc, q) = "ok"
        BY <1>9 DEF NextHeader
      <3>2. Quiet(q) /\ doc \in DOMAIN Documents
        BY <3>1, Resolving DEF CursorInv, TypeOK
      <3>3. h \in Header
        BY <3>1, <3>2, PeekAnswers
      <3> QED BY <3>3, Assumption DEF DocumentsAssumption, Header
    <2> HIDE DEF q, o, h
    <2>3. CASE KindOf[h.id] = "endmaster"
      BY <2>1, <2>3, FailureIsLast DEF AdvanceHeader, h
    <2>4. CASE KindOf[h.id] # "endmaster" /\ CrossesBoundary(q, o, h)
      <3>1. Settled
        BY <2>1, <2>4 DEF AdvanceHeader, h
      <3>2. ReportsLast \/ IssueEnd(PopMaster(q), o, q.pos, "Boundary")
        BY <2>1, <2>4, ReasonsAreGiven, FailureIsLast DEF AdvanceHeader, h
      <3> QED BY <2>1, <3>1, <3>2, EndOrLast DEF o
    <2>5. CASE KindOf[h.id] # "endmaster" /\ ~CrossesBoundary(q, o, h)
      <3> DEFINE kind == KindOf[h.id]
                 e == ElementNode(kind, h, q.pos, Len(o))
      <3>1. open' = o /\ pending' = kind /\ held' = kind /\ events' = Append(events, e)
        BY <2>1, <2>5 DEF AdvanceHeader, h
      <3>2. kind \in {"master", "leaf"}
        BY <2>2, <2>5 DEF Kind
      <3>3. e.ev = kind /\ e.depth = Len(o)
        BY DEF ElementNode
      <3> HIDE DEF e
      <3>4. ReportsNode(o)
        BY <2>1, <3>1, <3>2, <3>3 DEF ReportsNode
      <3> QED BY <3>4 DEF o
    <2> QED BY <2>2, <2>3, <2>4, <2>5
  <1>10. CASE NextMalformed
    BY <1>10, ReasonsAreGiven, FailureIsLast DEF NextMalformed
  <1> QED BY <1>2, <1>3, <1>4, <1>5, <1>6, <1>7, <1>8, <1>9, <1>10 DEF CursorNext

\* Finalize reports nothing, or why the input is not complete.
LEMMA WhatFinalizeReports ==
  ASSUME CursorInv, Finalize
  PROVE  ReportsNone \/ ReportsLast
  <1>1. /\ Rooms \in Nat /\ Len(open) \in Nat /\ Len(open) <= Rooms
        /\ Len(ResolvedOpen) \in Nat /\ Len(ResolvedOpen) <= Rooms
    BY ResolvedRooms
  <1>2. CASE ResolveResult \notin {"ok", "NeedMoreData"}
    BY <1>2, ResolvingHasReasons, FailureIsLast DEF Finalize
  <1>3. CASE ResolveResult \in {"ok", "NeedMoreData"}
    <2> DEFINE blocked == ResolveResult = "NeedMoreData"
               q == IF blocked THEN p ELSE ResolvedParser
               peek == PeekResult(doc, q)
               r == FinalizeEOFResult(doc, q)
    <2>1. /\ held' = "none"
          /\ IF blocked THEN UNCHANGED <<open, pending, decision, pendOpen>>
                        ELSE open' = ResolvedOpen /\ Settled
          /\ UNCHANGED <<err, events>> \/ Fail(peek) \/ Fail(r)
      BY <1>3 DEF Finalize
    <2>2. peek # "none" /\ r # "none"
      BY ReasonsAreGiven
    <2> HIDE DEF peek, r, q
    <2>3. CASE Fail(peek) \/ Fail(r)
      BY <2>2, <2>3, FailureIsLast
    <2>4. CASE UNCHANGED <<err, events>>
      <3>1. Rooms' = Rooms \/ Rooms' = Len(ResolvedOpen)
        BY <2>1 DEF Rooms, Settled
      <3> QED BY <1>1, <2>1, <2>4, <3>1 DEF ReportsNone
    <2> QED BY <2>1, <2>3, <2>4
  <1> QED BY <1>2, <1>3

LEMMA WhatIsReported ==
  ASSUME CursorInv, [Next]_vars
  PROVE  ReportsNone \/ ReportsLast \/ ReportsEnd(ResolvedOpen) \/ ReportsNode(ResolvedOpen)
  <1>1. Rooms \in Nat
    BY ResolvedRooms
  <1>2. CASE Descend \/ SkipSubtree \/ SkipLeaf \/ Payload \/ (\E n \in 1..Documents[doc].len : FeedChunk(n))
             \/ UNCHANGED vars
    <2>1. events' = events /\ held' = held /\ UNCHANGED <<err, open, pending>>
      BY <1>2 DEF Descend, SkipSubtree, SkipLeaf, Payload, FeedChunk, vars
    <2>2. Rooms' = Rooms
      BY <2>1 DEF Rooms
    <2> QED BY <1>1, <2>1, <2>2 DEF ReportsNone
  <1>3. CASE FeedAfterFinalize
    BY <1>3 DEF FeedAfterFinalize, ReportsNone
  <1>4. CASE CursorNext
    BY <1>4, WhatNextReports
  <1>5. CASE Finalize
    BY <1>5, WhatFinalizeReports
  <1> QED BY <1>2, <1>3, <1>4, <1>5 DEF Next, Consume

\* What the cursor reported nests, there is room for what it reports next, and the
\* node it holds is the last.
ReportsNest ==
  /\ WellNested(events)
  /\ err = "none" => RoomAt(events, Rooms)
  /\ held # "none" => events # << >> /\ Node.ev = held

LEMMA ReportsNestInit == Init => ReportsNest
  <1> SUFFICES ASSUME Init PROVE ReportsNest
    OBVIOUS
  <1>1. events = << >> /\ open = << >> /\ pending = "none" /\ held = "none"
    BY DEF Init
  <1>2. Len(<< >>) = 0 /\ << >> \in Seq(Event)
    BY EmptySeq
  <1>3. Rooms = 0
    BY <1>1, <1>2 DEF Rooms
  <1>4. RoomAt(events, 0)
    BY DEF RoomAt
  <1>5. WellNested(events)
    BY <1>1, <1>2 DEF WellNested
  <1> QED BY <1>1, <1>3, <1>4, <1>5 DEF ReportsNest

LEMMA ReportsNestNext ==
  ASSUME CursorInv, ReportsNest, [Next]_vars
  PROVE  ReportsNest' /\ (events' = events \/ \E e \in Event : events' = Append(events, e))
  <1>1. /\ CursorInv' /\ events \in Seq(Event) /\ events' \in Seq(Event) /\ Len(events) \in Nat
    BY NextInv, LenProperties DEF CursorInv, TypeOK
  <1>2. ReportsNone \/ ReportsLast \/ ReportsEnd(ResolvedOpen) \/ ReportsNode(ResolvedOpen)
    BY WhatIsReported
  <1>3. /\ Rooms \in Nat /\ ResolvedOpen \in Seq(OpenMaster) /\ Len(ResolvedOpen) \in Nat
        /\ Len(ResolvedOpen) <= Rooms
    BY ResolvedRooms
  <1>4. ASSUME NEW e, events' = Append(events, e)
        PROVE  /\ e \in Event /\ e.depth \in Nat /\ events' # << >> /\ Node' = e
               /\ Len(events') \in 1..Len(events') /\ events'[Len(events')] = e
    <2>1. IsSequence(events)
      BY <1>1, SeqOfRange DEF IsSequence
    <2>2. Len(events') = Len(events) + 1 /\ events'[Len(events) + 1] = e
      BY <1>4, <2>1, AppendToSequence
    <2>3. Len(events) + 1 \in 1..(Len(events) + 1)
      BY <1>1
    <2>4. e \in Event
      BY <1>1, <2>2, <2>3, ElementOfSeq
    <2>5. events' # << >>
      BY <1>1, <2>2, EmptySeq
    <2> QED BY <2>2, <2>3, <2>4, <2>5 DEF Event, Node, Top
  <1>5. CASE ReportsNone
    <2>1. WellNested(events')
      BY <1>5 DEF ReportsNone, ReportsNest
    <2>2. ASSUME err' = "none" PROVE RoomAt(events', Rooms')
      <3>1. err = "none" /\ Rooms' <= Rooms /\ events' = events
        BY <1>5, <2>2 DEF ReportsNone
      <3>2. RoomAt(events, Rooms)
        BY <3>1 DEF ReportsNest
      <3>3. Rooms' \in Nat
        <4>1. open' \in Seq(OpenMaster)
          BY <1>1 DEF CursorInv, TypeOK
        <4>2. Len(open') \in Nat
          BY <4>1, LenProperties
        <4> QED BY <4>2 DEF Rooms
      <3> QED BY <1>3, <3>1, <3>2, <3>3, RoomAbove
    <2>3. held' # "none" => events' # << >> /\ Node'.ev = held'
      BY <1>5 DEF ReportsNone, ReportsNest, Node
    <2> QED BY <1>5, <2>1, <2>2, <2>3 DEF ReportsNest, ReportsNone
  <1>6. CASE ReportsLast
    <2>1. PICK e : events' = Append(events, e) /\ e.depth = 0 /\ (err' # "none" \/ e.ev = "eof")
      BY <1>6 DEF ReportsLast
    <2>2. RoomAt(events, e.depth)
      BY <2>1 DEF RoomAt
    <2>3. WellNested(events')
      BY <1>4, <2>1, <2>2, EventAdded DEF ReportsNest
    <2>4. ASSUME err' = "none" PROVE RoomAt(events', Rooms')
      <3>1. EOFReported'
        <4>1. events'[Len(events')].ev = "eof" /\ Len(events') \in 1..Len(events')
          BY <1>4, <2>1, <2>4
        <4> QED BY <4>1 DEF EOFReported
      <3>2. open' = << >> /\ eofRun'
        BY <1>1, <3>1 DEF CursorInv, CleanEOF
      <3>3. pending' = "none"
        BY <1>1, <2>4, <3>2 DEF CursorInv, EOFRunDrained
      <3>4. Rooms' = 0
        BY <3>2, <3>3, EmptySeq DEF Rooms
      <3> QED BY <3>4 DEF RoomAt
    <2>5. held' = "none"
      BY <1>6 DEF ReportsLast
    <2> QED BY <1>4, <2>1, <2>3, <2>4, <2>5 DEF ReportsNest
  <1>7. CASE ReportsEnd(ResolvedOpen)
    <2> DEFINE o == ResolvedOpen
    <2>1. PICK e : events' = Append(events, e) /\ e.depth = Len(o) - 1 /\ e.ev = "end"
      BY <1>7 DEF ReportsEnd
    <2>2. err = "none" /\ o # << >> /\ open' = Pop(o) /\ held' = "end" /\ pending' = "none"
      BY <1>7 DEF ReportsEnd
    <2>3. Len(open') = Len(o) - 1
      BY <1>3, <2>2, PopFacts
    <2>4. Rooms' = e.depth
      BY <2>1, <2>2, <2>3 DEF Rooms
    <2>5. e \in Event /\ e.depth \in Nat /\ events' # << >> /\ Node' = e
      BY <1>4, <2>1
    <2> HIDE DEF o
    <2>6. RoomAt(events, e.depth)
      <3>1. RoomAt(events, Rooms) /\ e.depth <= Rooms
        BY <1>3, <2>1, <2>2 DEF ReportsNest, o
      <3> QED BY <1>3, <2>5, <3>1, RoomAbove
    <2>7. WellNested(events') /\ RoomAt(events', e.depth)
      BY <2>1, <2>5, <2>6, EventAdded DEF ReportsNest
    <2> QED BY <2>1, <2>2, <2>4, <2>5, <2>7 DEF ReportsNest
  <1>8. CASE ReportsNode(ResolvedOpen)
    <2> DEFINE o == ResolvedOpen
    <2>1. PICK e : events' = Append(events, e) /\ e.depth = Len(o) /\ e.ev = held'
      BY <1>8 DEF ReportsNode
    <2>2. err = "none" /\ open' = o /\ held' \in {"master", "leaf"} /\ pending' = held'
      BY <1>8 DEF ReportsNode
    <2>3. Rooms' = IF e.ev = "master" THEN e.depth + 1 ELSE e.depth
      BY <2>1, <2>2 DEF Rooms
    <2>4. e \in Event /\ e.depth \in Nat /\ events' # << >> /\ Node' = e
      BY <1>4, <2>1
    <2> HIDE DEF o
    <2>5. RoomAt(events, e.depth)
      <3>1. RoomAt(events, Rooms) /\ e.depth <= Rooms
        BY <1>3, <2>1, <2>2 DEF ReportsNest, o
      <3> QED BY <1>3, <2>4, <3>1, RoomAbove
    <2>6. /\ WellNested(events') /\ RoomAt(events', e.depth)
          /\ e.ev = "master" => RoomAt(events', e.depth + 1)
      BY <2>1, <2>4, <2>5, EventAdded DEF ReportsNest
    <2>7. RoomAt(events', Rooms')
      BY <2>3, <2>6
    <2> QED BY <2>1, <2>2, <2>4, <2>6, <2>7 DEF ReportsNest
  <1> QED BY <1>2, <1>5, <1>6, <1>7, <1>8

-----------------------------------------------------------------------------
(* The scopes are what was seen.                                           *)

\* The input is over and nothing is in the caller's hands.
Silent == Ended /\ held = "none"

\* Once the input is over nothing more is reported.
LEMMA EndedStays ==
  ASSUME CursorInv, Ended, [Next]_vars
  PROVE  Ended' /\ events' = events /\ (held = "none" => held' = "none")
  <1>1. CASE UNCHANGED vars
    BY <1>1 DEF vars, Ended, Top
  <1>2. CASE err # "none" /\ Next
    <2>1. err' # "none" /\ events' = events /\ (held = "none" => held' = "none")
      BY <1>2
         DEF Next, Consume, CursorNext, Descend, SkipSubtree, SkipLeaf, Payload, FeedChunk,
             FeedAfterFinalize, Finalize, NextAgain, NextResolveBlocked, NextResolveFails,
             NextDequeue, NextNeedsMore, NextRunsEOF, NextEOF, NextEnd, NextHeader,
             NextMalformed
    <2> QED BY <2>1 DEF Ended
  <1>3. CASE err = "none" /\ Next
    <2>1. events # << >> /\ Top(events).ev = "eof"
      BY <1>3 DEF Ended
    <2>2. EOFReported
      <3>1. Len(events) \in 1..Len(events)
        BY <2>1, EmptySeq, LenProperties DEF CursorInv, TypeOK
      <3> QED BY <2>1, <3>1 DEF EOFReported, Top
    <2>3. /\ eofRun /\ finalized /\ closes = << >>
          /\ ResolveResult = "ok" /\ ResolvedParser = p /\ PeekResult(doc, p) = "NeedMoreData"
      BY <1>3, <2>2, AfterEOF
    <2>4. held \notin {"master", "leaf"}
      BY <1>3, <2>3 DEF CursorInv, EOFRunDrained, HeldIsPending
    <2>5. NextAgain \/ FeedAfterFinalize
      BY <1>3, <2>3, <2>4
         DEF Next, Consume, CursorNext, Descend, SkipSubtree, SkipLeaf, Payload, FeedChunk,
             Finalize, NextResolveBlocked, NextResolveFails, NextDequeue, NextNeedsMore,
             NextRunsEOF, NextEOF, NextEnd, NextHeader, NextMalformed, Malformed, Misuse, Ended
    <2>6. events' = events /\ (held = "none" => held' = "none")
      BY <2>5 DEF NextAgain, FeedAfterFinalize
    <2> QED BY <2>1, <2>6 DEF Ended, Top
  <1> QED BY <1>1, <1>2, <1>3

LEMMA SilentStays ==
  ASSUME CursorInv, Silent, [Next]_vars
  PROVE  Silent'
  BY EndedStays DEF Silent

\* The tracker has of each scope what it was shown, and leaves a tracked master open
\* without a scope only once the input is over and the scope was returned.
FollowInv ==
  /\ TrackerInv /\ ReportsNest
  /\ Tracks(events, seen, stack, done)
  /\ stack = << >> => Unclosed(events, seen) = {} \/ Silent

LEMMA FollowInit == ScopeInit => FollowInv
  <1> SUFFICES ASSUME ScopeInit PROVE FollowInv
    OBVIOUS
  <1>1. events = << >> /\ seen = {} /\ stack = << >> /\ done = << >> /\ Init
    BY DEF ScopeInit, Init
  <1>2. TrackerInv /\ ReportsNest
    BY <1>1, TrackerInit, ReportsNestInit
  <1>3. Openings(events, seen) = << >>
    <2> DEFINE T == {i \in seen : events[i].ev = "master" /\ events[i].id = Tracked}
               S == {i \in T : \A k \in T : k < i => \E c \in Closers(events, seen, k) : c <= i}
    <2>1. S = {}
      BY <1>1
    <2>2. Openings(events, seen) = InOrder(S)
      BY DEF Openings
    <2> HIDE DEF S
    <2> QED BY <2>1, <2>2, InOrderOfNothing
  <1>4. Unclosed(events, seen) = {}
    BY <1>1 DEF Unclosed, TrackedIn
  <1>5. IsSequence(<< >>) /\ Len(<< >>) = 0
    BY EmptySeq DEF IsSequence
  <1>6. Tracks(events, seen, stack, done)
    BY <1>1, <1>3, <1>5 DEF Tracks, Returns
  <1> QED BY <1>2, <1>4, <1>6 DEF FollowInv

LEMMA FollowNext == FollowInv /\ [ScopeNext]_scopeVars => FollowInv'
  <1> SUFFICES ASSUME FollowInv, [ScopeNext]_scopeVars PROVE FollowInv'
    OBVIOUS
  <1>1. TrackerInv /\ ReportsNest /\ CursorInv /\ Tracks(events, seen, stack, done)
        /\ (stack = << >> => Unclosed(events, seen) = {} \/ Silent)
    BY DEF FollowInv, TrackerInv
  <1>2. TrackerInv'
    <2>1. [CarelessNext]_scopeVars
      BY DEF ScopeNext, CarelessNext
    <2> QED BY <1>1, <2>1, TrackerNext
  <1>3. [Next]_vars
    BY DEF ScopeNext, Observe, ObserveMaster, ObserveLeaf, ObserveLeafFails, ObserveEnd, Finish,
           Next, Consume, scopeVars, vars
  <1>4. ReportsNest' /\ (events' = events \/ \E e \in Event : events' = Append(events, e))
    BY <1>1, <1>3, ReportsNestNext
  <1>5. Record(events, seen) /\ WellNested(events) /\ WellNested(events')
    <2>1. WellNested(events) /\ WellNested(events')
      BY <1>1, <1>4 DEF ReportsNest
    <2>2. seen \subseteq 1..Len(events)
      BY <1>1, <2>1, EventFacts DEF TrackerInv, WellNested
    <2> QED BY <2>1, <2>2 DEF Record
  <1>6. CASE (Next /\ UNCHANGED tracker) \/ ObserveLeafFails \/ UNCHANGED scopeVars
    <2>1. UNCHANGED <<seen, stack, done>>
      BY <1>6 DEF tracker, ObserveLeafFails, scopeVars
    <2>2. Extends(events, events')
      <3>1. events \in Seq(Event) /\ Len(events) \in Nat
        BY <1>5, EventFacts DEF WellNested
      <3>2. CASE events' = events
        BY <3>1, <3>2, ExtendsItself
      <3>3. CASE \E e \in Event : events' = Append(events, e)
        BY <3>1, <3>3, ExtendsItself
      <3> QED BY <1>4, <3>2, <3>3
    <2>3. Tracks(events', seen, stack, done) /\ Unclosed(events', seen) = Unclosed(events, seen)
      BY <1>1, <1>5, <2>2, TracksOverReports
    <2>4. Silent => Silent'
      BY <1>1, <1>3, SilentStays
    <2> QED BY <1>1, <1>2, <1>4, <2>1, <2>3, <2>4 DEF FollowInv
  <1>7. CASE ParentSeen /\ (ObserveMaster \/ ObserveLeaf \/ ObserveEnd)
    <2>1. held # "none" /\ Len(events) \notin seen /\ seen' = seen \cup {Len(events)}
          /\ events' = events
      BY <1>7 DEF ObserveMaster, ObserveLeaf, ObserveEnd, Seeing, Payload, vars
    <2>2. MayShow
      <3>1. ~Silent
        BY <2>1 DEF Silent
      <3> QED BY <1>1, <1>5, <1>7, <2>1, <3>1 DEF MayShow, ReportsNest
    <2>3. HasShown(stack', done')
      BY <1>7, <2>2, ObserveMasterTracks, ObserveLeafTracks, ObserveEndTracks
    <2>4. Tracks(events', seen', stack', done') /\ (stack' = << >> => Unclosed(events', seen') = {})
      BY <2>1, <2>3 DEF HasShown
    <2> QED BY <1>2, <1>4, <2>4 DEF FollowInv
  <1>8. CASE Finish
    <2>1. Tracks(events, seen, stack', done') /\ stack' = << >>
      BY <1>1, <1>5, <1>8, FinishTracks
    <2>2. UNCHANGED <<vars, seen>> /\ Silent
      BY <1>8 DEF Finish, Silent
    <2>3. events' = events /\ seen' = seen /\ Silent'
      BY <2>2 DEF vars, Silent, Ended
    <2> QED BY <1>2, <1>4, <2>1, <2>3 DEF FollowInv
  <1> QED BY <1>6, <1>7, <1>8 DEF ScopeNext, Observe

\* Whether the input is taken to be over matters only for a master that nothing closed.
LEMMA ChildrenWhenOver ==
  ASSUME NEW evs, NEW shown, NEW i, NEW over, over
  PROVE  CompleteChildren(evs, shown, over, i) = ChildrenAll(evs, shown, i)
  <1>1. CompleteMembers(evs, shown, over, i) = Members(evs, shown, i)
    BY DEF CompleteMembers
  <1> QED BY <1>1, CompleteChildrenAre, AllAre

LEMMA ChildrenWhenOpen ==
  ASSUME NEW evs, NEW shown, NEW i, NEW over, ~over
  PROVE  CompleteChildren(evs, shown, over, i) = ChildrenSoFar(evs, shown, i)
  <1>1. CompleteMembers(evs, shown, over, i) = MembersSoFar(evs, shown, i)
    BY DEF CompleteMembers, MembersSoFar, Over
  <1> QED BY <1>1, CompleteChildrenAre, SoFarIs

LEMMA ChildrenWhenClosed ==
  ASSUME NEW evs, NEW shown, Record(evs, shown), NEW i \in 1..Len(evs), NEW over,
         Closers(evs, shown, i) # {}
  PROVE  CompleteChildren(evs, shown, over, i) = ChildrenAll(evs, shown, i)
  <1>1. /\ Len(evs) \in Nat /\ shown \subseteq 1..Len(evs)
        /\ \A j \in 1..Len(evs) : evs[j].depth \in Nat
    BY EventFacts DEF Record, WellNested
  <1>2. ASSUME NEW j \in Members(evs, shown, i) PROVE Closers(evs, shown, j) # {}
    <2>1. PICK k : k \in Closers(evs, shown, i)
      OBVIOUS
    <2>2. k \in shown /\ k > i /\ evs[k].depth <= evs[i].depth /\ k > j
      BY <2>1 DEF Closers, Members
    <2>3. StandsIn(evs, j, i) /\ j \in shown
      BY MembersAre
    <2>4. evs[i].depth = evs[j].depth - 1
      BY <2>3 DEF StandsIn
    <2>5. evs[k].depth <= evs[j].depth
      <3>1. evs[k].depth \in Nat /\ evs[i].depth \in Nat /\ evs[j].depth \in Nat
        BY <1>1, <2>2, <2>3
      <3> QED BY <2>2, <2>4, <3>1
    <2>6. k \in Closers(evs, shown, j)
      BY <2>2, <2>5 DEF Closers
    <2> QED BY <2>6
  <1>3. CompleteMembers(evs, shown, over, i) = Members(evs, shown, i)
    BY <1>2 DEF CompleteMembers
  <1> QED BY <1>3, CompleteChildrenAre, AllAre

LEMMA FollowIsSeen == FollowInv => ScopesAreWhatWasSeen
  <1> SUFFICES ASSUME FollowInv PROVE ScopesAreWhatWasSeen
    OBVIOUS
  <1> DEFINE all == IF Opened THEN Append(done, current) ELSE done
             ops == Openings(events, seen)
             over == Ended /\ ~Opened
             m == Len(done) + 1
  <1>1. /\ Agree(stack, current) /\ WellNested(events)
        /\ IsSequence(done) /\ Len(done) \in Nat /\ Returns(events, seen, ops, done)
        /\ stack = << >> => Len(ops) = Len(done)
        /\ stack # << >> => \E c : InScope(events, seen, c, stack, done)
        /\ stack = << >> => Unclosed(events, seen) = {} \/ Silent
    BY LenProperties DEF FollowInv, TrackerInv, ReportsNest, Tracks, IsSequence
  <1>2. Record(events, seen)
    <2>1. seen \subseteq 1..Len(events)
      BY <1>1, EventFacts DEF FollowInv, TrackerInv, WellNested
    <2> QED BY <1>1, <2>1 DEF Record
  <1>3. Opened <=> stack # << >>
    BY <1>1, ScopeIsSome, ElementsOfSequence DEF Agree, Opened
  <1>4. /\ IsSequence(ops) /\ Len(ops) \in Nat
        /\ \A s \in 1..Len(ops) : ops[s] \in TrackedIn(events, seen) /\ ops[s] \in 1..Len(events)
    BY <1>2, OpeningFacts
  <1>5. /\ Len(ops) = IF Opened THEN m ELSE Len(done)
        /\ Len(done) <= Len(ops)
    BY <1>1, <1>3 DEF InScope
  <1>6. /\ Len(all) = Len(ops) /\ DOMAIN all = 1..Len(ops)
        /\ \A s \in 1..Len(done) : all[s] = done[s]
        /\ Opened => all[m] = current
    <2>1. CASE Opened
      BY <1>1, <1>5, <2>1, AppendToSequence
    <2>2. CASE ~Opened
      BY <1>1, <1>5, <2>2, ElementsOfSequence
    <2> QED BY <2>1, <2>2
  <1> HIDE DEF all, ops, over
  <1>7. ASSUME NEW s \in 1..Len(done)
        PROVE  /\ all[s].start = events[ops[s]].offset
               /\ all[s].children = CompleteChildren(events, seen, over, ops[s])
    <2> DEFINE x == ops[s]
    <2>1. s \in 1..Len(ops)
      BY <1>1, <1>4, <1>5
    <2>2. x \in 1..Len(events) /\ x \in TrackedIn(events, seen) /\ Returned(events, seen, x, done[s])
      BY <1>1, <1>4, <2>1 DEF Returns
    <2> HIDE DEF x
    <2>3. CompleteChildren(events, seen, over, x) = ChildrenAll(events, seen, x)
      <3>1. CASE Closers(events, seen, x) # {}
        BY <1>2, <2>2, <3>1, ChildrenWhenClosed
      <3>2. CASE Closers(events, seen, x) = {}
        <4>1. stack = << >>
          <5> SUFFICES ASSUME stack # << >> PROVE FALSE
            OBVIOUS
          <5>1. PICK c : InScope(events, seen, c, stack, done)
            BY <1>1
          <5>2. Closers(events, seen, ops[s]) # {}
            BY <1>1, <1>2, <5>1, EarlierAreClosed DEF ops
          <5> QED BY <3>2, <5>2 DEF x
        <4>2. x \in Unclosed(events, seen)
          BY <2>2, <3>2 DEF Unclosed
        <4>3. Silent
          BY <1>1, <4>1, <4>2
        <4>4. over
          BY <1>3, <4>1, <4>3 DEF Silent, over
        <4> QED BY <4>4, ChildrenWhenOver
      <3> QED BY <3>1, <3>2
    <2> QED BY <1>6, <2>2, <2>3 DEF Returned, x
  <1>8. ASSUME Opened
        PROVE  /\ all[m].start = events[ops[m]].offset
               /\ all[m].children = CompleteChildren(events, seen, over, ops[m])
    <2>1. PICK c : InScope(events, seen, c, stack, done)
      BY <1>1, <1>3, <1>8
    <2> DEFINE x == c[1]
    <2>2. ops[m] = x /\ Stacked(events, seen, c, stack)
      BY <2>1 DEF InScope, ops
    <2>3. Len(c) \in Nat \ {0} /\ Len(stack) = Len(c) /\ 1 \in 1..Len(c)
      <3>1. Len(c) \in Nat \ {0} /\ Len(stack) = Len(c)
        BY <2>2, LenProperties DEF Stacked, OpenAre
      <3>2. 1 \in 1..Len(c)
        BY <3>1
      <3> QED BY <3>1, <3>2
    <2>4. StackElement(events, seen, c, stack, 1)
      BY <2>2, <2>3, StackElementIs
    <2>5. /\ stack[1].element.offset = events[x].offset
          /\ stack[1].element.children = ChildrenSoFar(events, seen, x)
      BY <2>4, SoFarIs DEF StackElement
    <2>6. stack[1].element.offset = current.start /\ stack[1].element.children = current.children
      BY <1>1, <2>3 DEF Agree
    <2>7. CompleteChildren(events, seen, over, x) = ChildrenSoFar(events, seen, x)
      <3>1. ~over
        BY <1>8 DEF over
      <3> QED BY <3>1, ChildrenWhenOpen
    <2> HIDE DEF x, m
    <2> QED BY <1>6, <1>8, <2>2, <2>5, <2>6, <2>7
  <1>9. \A s \in 1..Len(ops) : s \in 1..Len(done) \/ (Opened /\ s = m)
    BY <1>1, <1>5
  <1> HIDE DEF m
  <1>10. \A s \in DOMAIN all : /\ all[s].start = events[ops[s]].offset
                               /\ all[s].children = CompleteChildren(events, seen, over, ops[s])
    BY <1>6, <1>7, <1>8, <1>9
  <1> QED BY <1>6, <1>10 DEF ScopesAreWhatWasSeen, all, ops, over

\* Every tracked master shown becomes one scope, returned once and in the order of the
\* stream, with the children shown inside it, each with what was shown inside it.
THEOREM ScopesHoldWhatWasShown == ScopeSpec => []ScopesAreWhatWasSeen
  <1>1. ScopeInit => FollowInv
    BY FollowInit
  <1>2. FollowInv /\ [ScopeNext]_scopeVars => FollowInv'
    BY FollowNext
  <1>3. FollowInv => ScopesAreWhatWasSeen
    BY FollowIsSeen
  <1> QED BY <1>1, <1>2, <1>3, PTL DEF ScopeSpec

-----------------------------------------------------------------------------
(* Where the elements end, from what the nodes say.                        *)

IsNode(e) == e.ev \in {"master", "leaf", "end"}

\* The node f is the first outside the master i.
ClosedBy(evs, i, f) ==
  /\ evs[i].ev = "master" /\ i < f /\ IsNode(evs[f]) /\ evs[f].depth <= evs[i].depth
  /\ \A k \in (i + 1)..(f - 1) : evs[k].depth > evs[i].depth

\* pos is where the element i ends, as far as what is inside it up to m says: nothing
\* reaches past it, and it is the end declared unless something reaches past that.
EndsHere(evs, i, m, pos) ==
  /\ \A j \in (i + 1)..m : evs[j].end <= pos
  /\ evs[i].end # UnknownSize /\ (\A j \in (i + 1)..m : evs[j].end <= evs[i].end) =>
       pos = evs[i].end

EndsSay(evs) ==
  \A i, f \in 1..Len(evs) : ClosedBy(evs, i, f) => EndsHere(evs, i, f - 1, PosOf(evs[f]))

\* What is reported ends at pos or before it, or is a master open above the depth b.
Before(evs, b, pos) ==
  \A j \in 1..Len(evs) : evs[j].end <= pos \/ (Unended(evs, j) /\ evs[j].depth < b)

\* The end declared of the master i was not passed, or an element inside passes it, or one
\* with no end of its own is open inside, above the depth n.
NotPassed(evs, n, pos, i) ==
  \/ pos <= evs[i].end
  \/ \E j \in (i + 1)..Len(evs) : evs[j].end > evs[i].end
  \/ \E k \in (i + 1)..Len(evs) :
       Unended(evs, k) /\ evs[k].end = UnknownSize /\ evs[k].depth < n

\* Every master whose end was not reported is open, above the depth n, or was skipped last.
Reached(evs, n, pos) ==
  \A i \in 1..Len(evs) : Unended(evs, i) =>
    \/ i = Len(evs) /\ evs[i].depth = n /\ evs[i].end = pos
    \/ evs[i].depth < n /\ (evs[i].end # UnknownSize => NotPassed(evs, n, pos, i))

\* The frames of the open masters end where their headers declared.
Framed(evs, st) ==
  \A i \in 1..Len(evs) : Unended(evs, i) /\ evs[i].depth + 1 \in 1..Len(st) =>
    st[evs[i].depth + 1].end = evs[i].end

LEMMA OneMore ==
  ASSUME NEW evs \in Seq(Event), NEW e \in Event
  PROVE  LET more == Append(evs, e)
         IN /\ Len(evs) \in Nat /\ Len(more) = Len(evs) + 1 /\ more[Len(evs) + 1] = e
            /\ \A i \in 1..Len(evs) :
                 /\ more[i] = evs[i] /\ evs[i].depth \in Nat /\ evs[i].end \in Int
                 /\ evs[i].end = UnknownSize \/ evs[i].end \in Nat
            /\ e.depth \in Nat /\ e.end \in Int /\ e.offset \in Nat
  <1>1. /\ Len(evs) \in Nat /\ Len(Append(evs, e)) = Len(evs) + 1
        /\ Append(evs, e)[Len(evs) + 1] = e
        /\ \A i \in 1..Len(evs) : Append(evs, e)[i] = evs[i] /\ evs[i] \in Event
    BY AppendProperties, EventFacts
  <1>2. \A x \in Event : /\ x.depth \in Nat /\ x.end \in Int /\ x.offset \in Nat
                         /\ x.end = UnknownSize \/ x.end \in Nat
    BY DEF Event, Extent, UnknownSize
  <1> QED BY <1>1, <1>2

LEMMA UnendedGrows ==
  ASSUME NEW evs \in Seq(Event), NEW e \in Event
  PROVE  LET more == Append(evs, e)
         IN /\ \A i \in 1..Len(evs) :
                 Unended(more, i) <=> Unended(evs, i) /\ e.depth > evs[i].depth
            /\ Unended(more, Len(evs) + 1) <=> e.ev = "master"
  <1> DEFINE more == Append(evs, e)
             L == Len(evs)
  <1>1. /\ L \in Nat /\ Len(more) = L + 1 /\ more[L + 1] = e
        /\ \A i \in 1..L : more[i] = evs[i]
    BY OneMore
  <1> HIDE DEF more, L
  <1>2. ASSUME NEW i \in 1..L
        PROVE  Unended(more, i) <=> Unended(evs, i) /\ e.depth > evs[i].depth
    <2>1. more[i] = evs[i] /\ L + 1 \in (i + 1)..(L + 1) /\ (i + 1)..L \subseteq (i + 1)..(L + 1)
      BY <1>1
    <2>2. \A j \in (i + 1)..(L + 1) : j = L + 1 \/ j \in (i + 1)..L
      BY <1>1
    <2>3. \A j \in (i + 1)..L : more[j] = evs[j]
      BY <1>1
    <2> QED BY <1>1, <2>1, <2>2, <2>3 DEF Unended, L
  <1>3. Unended(more, L + 1) <=> e.ev = "master"
    <2>1. \A j \in (L + 1 + 1)..(L + 1) : FALSE
      BY <1>1
    <2> QED BY <1>1, <2>1 DEF Unended
  <1> QED BY <1>2, <1>3 DEF more, L

\* A node more says where the masters it is the first outside of end.
LEMMA EndsSayMore ==
  ASSUME NEW evs \in Seq(Event), EndsSay(evs), NEW e \in Event,
         IsNode(e) => \A i \in 1..Len(evs) : Unended(evs, i) /\ e.depth <= evs[i].depth =>
                                               EndsHere(evs, i, Len(evs), PosOf(e))
  PROVE  EndsSay(Append(evs, e))
  <1> DEFINE more == Append(evs, e)
             L == Len(evs)
  <1>1. /\ L \in Nat /\ Len(more) = L + 1 /\ more[L + 1] = e
        /\ \A i \in 1..L : more[i] = evs[i]
    BY OneMore
  <1> HIDE DEF more, L
  <1> SUFFICES ASSUME NEW i \in 1..(L + 1), NEW f \in 1..(L + 1), ClosedBy(more, i, f)
               PROVE  EndsHere(more, i, f - 1, PosOf(more[f]))
    BY <1>1 DEF EndsSay, more
  <1>2. i < f /\ i \in 1..L /\ more[i] = evs[i] /\ \A k \in (i + 1)..(f - 1) : k \in 1..L /\ more[k] = evs[k]
    BY <1>1 DEF ClosedBy
  <1>3. CASE f = L + 1
    <2>1. f - 1 = L /\ more[f] = e
      BY <1>1, <1>3
    <2>2. Unended(evs, i) /\ e.depth <= evs[i].depth /\ IsNode(e)
      BY <1>2, <2>1 DEF ClosedBy, Unended, L
    <2>3. EndsHere(evs, i, L, PosOf(e))
      BY <1>2, <2>2 DEF L
    <2> QED BY <1>2, <2>1, <2>3 DEF EndsHere
  <1>4. CASE f # L + 1
    <2>1. f \in 1..L /\ more[f] = evs[f]
      BY <1>1, <1>4
    <2>2. ClosedBy(evs, i, f)
      BY <1>2, <2>1 DEF ClosedBy
    <2>3. EndsHere(evs, i, f - 1, PosOf(evs[f]))
      BY <1>2, <2>1, <2>2 DEF EndsSay, L
    <2> QED BY <1>2, <2>1, <2>3 DEF EndsHere
  <1> QED BY <1>3, <1>4

\* An element is reported at pos, among n masters, and the next thing comes at pos2.
LEMMA ElementReached ==
  ASSUME NEW evs \in Seq(Event), NEW n \in Nat, NEW pos \in Nat, Reached(evs, n, pos),
         NEW e \in Event, e.depth = n, e.ev \in {"master", "leaf"}, NEW pos2 \in Nat, pos <= pos2,
         NEW n2 \in Nat,
         e.ev = "master" => n2 = n + 1 /\ (e.end = UnknownSize \/ pos2 <= e.end),
         e.ev = "leaf" => n2 = n /\ e.end = pos2
  PROVE  Reached(Append(evs, e), n2, pos2)
  <1> DEFINE more == Append(evs, e)
             L == Len(evs)
  <1>1. /\ L \in Nat /\ Len(more) = L + 1 /\ more[L + 1] = e
        /\ \A i \in 1..L : more[i] = evs[i] /\ evs[i].depth \in Nat /\ evs[i].end \in Int
        /\ e.end \in Int
    BY OneMore
  <1>2. /\ \A i \in 1..L : Unended(more, i) <=> Unended(evs, i) /\ e.depth > evs[i].depth
        /\ Unended(more, L + 1) <=> e.ev = "master"
    BY UnendedGrows
  <1> HIDE DEF more, L
  <1>3. ASSUME NEW i \in 1..L, Unended(more, i)
        PROVE  more[i].depth < n2 /\ (more[i].end # UnknownSize => NotPassed(more, n2, pos2, i))
    <2>1. Unended(evs, i) /\ evs[i].depth < n /\ more[i] = evs[i]
      BY <1>1, <1>2, <1>3
    <2>2. evs[i].depth < n2
      BY <1>1, <2>1
    <2>3. ASSUME evs[i].end # UnknownSize PROVE NotPassed(more, n2, pos2, i)
      <3>1. NotPassed(evs, n, pos, i)
        BY <1>1, <2>1, <2>3 DEF Reached, L
      <3>2. L + 1 \in (i + 1)..Len(more)
        BY <1>1
      <3>3. CASE pos <= evs[i].end
        <4>1. CASE pos2 <= evs[i].end
          BY <2>1, <4>1 DEF NotPassed
        <4>2. CASE pos2 > evs[i].end /\ (e.ev = "leaf" \/ pos2 <= e.end)
          <5>1. e.end > evs[i].end
            BY <1>1, <4>2
          <5> QED BY <1>1, <2>1, <3>2, <5>1 DEF NotPassed
        <4>3. CASE e.ev = "master" /\ e.end = UnknownSize
          <5>1. Unended(more, L + 1) /\ more[L + 1].end = UnknownSize /\ more[L + 1].depth < n2
            BY <1>1, <1>2, <4>3
          <5> QED BY <3>2, <5>1 DEF NotPassed
        <4> QED BY <1>1, <4>1, <4>2, <4>3
      <3>4. CASE \E j \in (i + 1)..L : evs[j].end > evs[i].end
        <4>1. PICK j \in (i + 1)..L : evs[j].end > evs[i].end
          BY <3>4
        <4>2. j \in (i + 1)..Len(more) /\ more[j] = evs[j]
          BY <1>1, <4>1
        <4> QED BY <2>1, <4>1, <4>2 DEF NotPassed
      <3>5. CASE \E k \in (i + 1)..L : Unended(evs, k) /\ evs[k].end = UnknownSize /\ evs[k].depth < n
        <4>1. PICK k \in (i + 1)..L : Unended(evs, k) /\ evs[k].end = UnknownSize /\ evs[k].depth < n
          BY <3>5
        <4>2. k \in (i + 1)..Len(more) /\ k \in 1..L /\ more[k] = evs[k]
          BY <1>1, <4>1
        <4>3. Unended(more, k) /\ more[k].end = UnknownSize /\ more[k].depth < n2
          BY <1>1, <1>2, <4>1, <4>2
        <4> QED BY <4>2, <4>3 DEF NotPassed
      <3> QED BY <3>1, <3>3, <3>4, <3>5 DEF NotPassed, L
    <2> QED BY <2>1, <2>2, <2>3
  <1>4. ASSUME Unended(more, L + 1)
        PROVE  /\ more[L + 1].depth < n2
               /\ more[L + 1].end # UnknownSize => NotPassed(more, n2, pos2, L + 1)
    BY <1>1, <1>2, <1>4 DEF NotPassed
  <1>5. \A i \in 1..Len(more) : i \in 1..L \/ i = L + 1
    BY <1>1
  <1>6. Reached(more, n2, pos2)
    BY <1>3, <1>4, <1>5 DEF Reached
  <1> QED BY <1>6 DEF more

LEMMA ElementBefore ==
  ASSUME NEW evs \in Seq(Event), NEW n \in Nat, NEW pos \in Nat, Before(evs, n, pos),
         NEW e \in Event, e.depth = n, NEW pos2 \in Nat, pos <= pos2, NEW n2 \in Nat,
         e.ev = "master" => n2 = n + 1, e.ev # "master" => n2 = n /\ e.end = pos2
  PROVE  Before(Append(evs, e), n2, pos2)
  <1> DEFINE more == Append(evs, e)
             L == Len(evs)
  <1>1. /\ L \in Nat /\ Len(more) = L + 1 /\ more[L + 1] = e
        /\ \A i \in 1..L : more[i] = evs[i] /\ evs[i].depth \in Nat /\ evs[i].end \in Int
        /\ e.end \in Int
    BY OneMore
  <1>2. /\ \A i \in 1..L : Unended(more, i) <=> Unended(evs, i) /\ e.depth > evs[i].depth
        /\ Unended(more, L + 1) <=> e.ev = "master"
    BY UnendedGrows
  <1> HIDE DEF more, L
  <1>3. ASSUME NEW j \in 1..L
        PROVE  more[j].end <= pos2 \/ (Unended(more, j) /\ more[j].depth < n2)
    <2>1. evs[j].end <= pos \/ (Unended(evs, j) /\ evs[j].depth < n)
      BY DEF Before, L
    <2> QED BY <1>1, <1>2, <2>1
  <1>4. more[L + 1].end <= pos2 \/ (Unended(more, L + 1) /\ more[L + 1].depth < n2)
    BY <1>1, <1>2
  <1>5. \A j \in 1..Len(more) : j \in 1..L \/ j = L + 1
    BY <1>1
  <1>6. Before(more, n2, pos2)
    BY <1>3, <1>4, <1>5 DEF Before
  <1> QED BY <1>6 DEF more

\* The only master an element is outside of is the one that was skipped just before.
LEMMA ElementEnds ==
  ASSUME NEW evs \in Seq(Event), NEW n \in Nat, NEW pos \in Nat, Reached(evs, n, pos),
         NEW i \in 1..Len(evs), Unended(evs, i), n <= evs[i].depth
  PROVE  EndsHere(evs, i, Len(evs), pos)
  <1>1. Len(evs) \in Nat /\ evs[i].depth \in Nat
    BY EventFacts
  <1>2. i = Len(evs) /\ evs[i].end = pos
    BY <1>1 DEF Reached
  <1>3. \A j \in (i + 1)..Len(evs) : FALSE
    BY <1>1, <1>2
  <1> QED BY <1>2, <1>3 DEF EndsHere

LEMMA ElementFramed ==
  ASSUME NEW evs \in Seq(Event), NEW st, IsSequence(st), Framed(evs, st), NEW e \in Event,
         e.depth = Len(st)
  PROVE  /\ Framed(Append(evs, e), st)
         /\ \A f : f.end = e.end => Framed(Append(evs, e), Append(st, f))
  <1> DEFINE more == Append(evs, e)
             L == Len(evs)
             n == Len(st)
  <1>1. /\ L \in Nat /\ Len(more) = L + 1 /\ more[L + 1] = e
        /\ \A i \in 1..L : more[i] = evs[i] /\ evs[i].depth \in Nat
    BY OneMore
  <1>2. \A i \in 1..L : Unended(more, i) => Unended(evs, i) /\ e.depth > evs[i].depth
    BY UnendedGrows
  <1>3. n \in Nat
    BY LenProperties DEF IsSequence
  <1> HIDE DEF more, L
  <1>4. \A i \in 1..Len(more) : i \in 1..L \/ i = L + 1
    BY <1>1
  <1>5. ASSUME NEW i \in 1..L, Unended(more, i)
        PROVE  /\ more[i].depth + 1 \in 1..n
               /\ more[i] = evs[i] /\ st[more[i].depth + 1].end = more[i].end
    <2>1. more[i] = evs[i] /\ evs[i].depth + 1 \in 1..n /\ Unended(evs, i)
      BY <1>1, <1>2, <1>3, <1>5
    <2> QED BY <2>1 DEF Framed, L
  <1>6. Framed(more, st)
    <2>1. ~(more[L + 1].depth + 1 \in 1..n)
      BY <1>1, <1>3
    <2> QED BY <1>4, <1>5, <2>1 DEF Framed
  <1>7. ASSUME NEW f, f.end = e.end PROVE Framed(more, Append(st, f))
    <2>1. /\ Len(Append(st, f)) = n + 1 /\ Append(st, f)[n + 1] = f
          /\ \A l \in 1..n : Append(st, f)[l] = st[l]
      BY AppendToSequence
    <2> DEFINE st2 == Append(st, f)
    <2> HIDE DEF st2
    <2>2. ASSUME NEW i \in 1..Len(more), Unended(more, i) PROVE st2[more[i].depth + 1].end = more[i].end
      <3>1. CASE i = L + 1
        BY <1>1, <1>7, <2>1, <3>1 DEF st2
      <3>2. CASE i \in 1..L
        <4>1. more[i].depth + 1 \in 1..n /\ st[more[i].depth + 1].end = more[i].end
          BY <1>5, <2>2, <3>2
        <4> QED BY <2>1, <4>1 DEF st2
      <3> QED BY <1>4, <3>1, <3>2
    <2> QED BY <2>2 DEF Framed, st2
  <1> QED BY <1>6, <1>7 DEF more

-----------------------------------------------------------------------------
(* Where the cursor stands, from what it reported.                         *)

\* All that was reported are nodes, among n masters open, of which those of depth b and
\* deeper are known to end at pos or before; and the frames of st are those of the masters.
StandsAt(evs, pos, st, n, b) ==
  /\ \A j \in 1..Len(evs) : IsNode(evs[j])
  /\ Before(evs, b, pos) /\ Reached(evs, n, pos) /\ Framed(evs, st)

\* The masters of depth n that are still open end at pos or before it.
AreOver(evs, n, pos) == \A i \in 1..Len(evs) : Unended(evs, i) /\ evs[i].depth = n => evs[i].end <= pos

LEMMA NodesMore ==
  ASSUME NEW evs \in Seq(Event), NEW e \in Event, \A j \in 1..Len(evs) : IsNode(evs[j]), IsNode(e)
  PROVE  \A j \in 1..Len(Append(evs, e)) : IsNode(Append(evs, e)[j])
  <1>1. /\ Len(evs) \in Nat /\ Len(Append(evs, e)) = Len(evs) + 1
        /\ Append(evs, e)[Len(evs) + 1] = e
        /\ \A i \in 1..Len(evs) : Append(evs, e)[i] = evs[i]
    BY OneMore
  <1>2. \A j \in 1..(Len(evs) + 1) : j \in 1..Len(evs) \/ j = Len(evs) + 1
    BY <1>1
  <1> QED BY <1>1, <1>2

\* An element is reported.
LEMMA ElementStands ==
  ASSUME NEW evs \in Seq(Event), NEW n \in Nat, NEW pos \in Nat, NEW st, IsSequence(st), Len(st) = n,
         StandsAt(evs, pos, st, n, n), NEW e \in Event, e.depth = n, e.ev \in {"master", "leaf"},
         NEW pos2 \in Nat, pos <= pos2, NEW n2 \in Nat, NEW st2,
         e.ev = "master" => /\ n2 = n + 1 /\ (e.end = UnknownSize \/ pos2 <= e.end)
                            /\ \E f : f.end = e.end /\ st2 = Append(st, f),
         e.ev = "leaf" => n2 = n /\ e.end = pos2 /\ st2 = st
  PROVE  StandsAt(Append(evs, e), pos2, st2, n2, n2)
  <1> DEFINE more == Append(evs, e)
  <1>1. /\ \A j \in 1..Len(evs) : IsNode(evs[j])
        /\ Before(evs, n, pos) /\ Reached(evs, n, pos) /\ Framed(evs, st)
    BY DEF StandsAt
  <1>2. IsNode(e)
    BY DEF IsNode
  <1>3. \A j \in 1..Len(more) : IsNode(more[j])
    BY <1>1, <1>2, NodesMore
  <1>4. Reached(more, n2, pos2)
    BY <1>1, ElementReached
  <1>5. e.ev # "master" => n2 = n /\ e.end = pos2
    OBVIOUS
  <1>6. Before(more, n2, pos2)
    BY <1>1, <1>5, ElementBefore
  <1>7. Framed(more, st) /\ \A f : f.end = e.end => Framed(more, Append(st, f))
    BY <1>1, ElementFramed
  <1> HIDE DEF more
  <1>8. Framed(more, st2)
    BY <1>7
  <1> QED BY <1>3, <1>4, <1>6, <1>8 DEF StandsAt, more

\* The end of the innermost of n masters is reported at pos.
LEMMA EndBefore ==
  ASSUME NEW evs \in Seq(Event), NEW n \in Nat, n # 0, NEW pos \in Nat, NEW b \in Nat, b <= n,
         Before(evs, b, pos), AreOver(evs, n - 1, pos), NEW b2 \in Nat, b2 = b \/ (b = n /\ b2 = n - 1), b2 <= n - 1,
         NEW e \in Event, e.depth = n - 1, e.end = pos
  PROVE  Before(Append(evs, e), b2, pos)
  <1> DEFINE more == Append(evs, e)
             L == Len(evs)
  <1>1. /\ L \in Nat /\ Len(more) = L + 1 /\ more[L + 1] = e
        /\ \A i \in 1..L : more[i] = evs[i] /\ evs[i].depth \in Nat /\ evs[i].end \in Int
    BY OneMore
  <1>2. \A i \in 1..L : Unended(more, i) <=> Unended(evs, i) /\ e.depth > evs[i].depth
    BY UnendedGrows
  <1> HIDE DEF more, L
  <1>3. ASSUME NEW j \in 1..L
        PROVE  more[j].end <= pos \/ (Unended(more, j) /\ more[j].depth < b2)
    <2>1. evs[j].end <= pos \/ (Unended(evs, j) /\ evs[j].depth < b)
      BY DEF Before, L
    <2>2. CASE Unended(evs, j) /\ evs[j].depth < b
      <3>1. CASE evs[j].depth = n - 1
        BY <1>1, <2>2, <3>1 DEF AreOver, L
      <3>2. CASE evs[j].depth # n - 1
        <4>1. evs[j].depth \in Nat
          BY <1>1
        <4>2. evs[j].depth < n - 1 /\ evs[j].depth < b2
          <5> DEFINE d == evs[j].depth
          <5>1. d \in Nat /\ d < b /\ d # n - 1
            BY <2>2, <3>2, <4>1
          <5> HIDE DEF d
          <5>2. d < n - 1 /\ d < b2
            BY <5>1
          <5> QED BY <5>2 DEF d
        <4> QED BY <1>1, <1>2, <2>2, <4>2
      <3> QED BY <3>1, <3>2
    <2> QED BY <1>1, <2>1, <2>2
  <1>4. \A j \in 1..Len(more) : j \in 1..L \/ j = L + 1
    BY <1>1
  <1>5. more[L + 1].end <= pos
    BY <1>1
  <1>6. Before(more, b2, pos)
    BY <1>3, <1>4, <1>5 DEF Before
  <1> QED BY <1>6 DEF more

LEMMA EndReaches ==
  ASSUME NEW evs \in Seq(Event), NEW m \in Nat, NEW pos \in Nat,
         NEW e \in Event, e.depth = m, e.ev = "end", e.end = pos
  PROVE  Reached(Append(evs, e), m, pos)
  <1> DEFINE more == Append(evs, e)
             L == Len(evs)
  <1>1. /\ L \in Nat /\ Len(more) = L + 1 /\ more[L + 1] = e
        /\ \A i \in 1..L : more[i] = evs[i] /\ evs[i].depth \in Nat /\ evs[i].end \in Int
    BY OneMore
  <1>2. /\ \A i \in 1..L : Unended(more, i) <=> Unended(evs, i) /\ e.depth > evs[i].depth
        /\ ~Unended(more, L + 1)
    BY UnendedGrows
  <1> HIDE DEF more, L
  <1>3. ASSUME NEW i \in 1..L, Unended(more, i)
        PROVE  more[i].depth < m /\ NotPassed(more, m, pos, i)
    <2>1. evs[i].depth < m /\ more[i] = evs[i]
      BY <1>1, <1>2, <1>3
    <2>2. L + 1 \in (i + 1)..Len(more) /\ (pos <= evs[i].end \/ more[L + 1].end > evs[i].end)
      BY <1>1
    <2> QED BY <2>1, <2>2 DEF NotPassed
  <1>4. \A i \in 1..Len(more) : i \in 1..L \/ i = L + 1
    BY <1>1
  <1>5. Reached(more, m, pos)
    BY <1>2, <1>3, <1>4 DEF Reached
  <1> QED BY <1>5 DEF more

LEMMA EndFramed ==
  ASSUME NEW evs \in Seq(Event), NEW st, NEW st2, Framed(evs, st), Len(st) \in Nat, Len(st2) \in Nat,
         Len(st2) <= Len(st), \A l \in 1..Len(st2) : st2[l] = st[l], NEW e \in Event, e.ev = "end"
  PROVE  Framed(Append(evs, e), st2)
  <1> DEFINE more == Append(evs, e)
             L == Len(evs)
  <1>1. /\ L \in Nat /\ Len(more) = L + 1
        /\ \A i \in 1..L : more[i] = evs[i] /\ evs[i].depth \in Nat
    BY OneMore
  <1>2. /\ \A i \in 1..L : Unended(more, i) <=> Unended(evs, i) /\ e.depth > evs[i].depth
        /\ ~Unended(more, L + 1)
    BY UnendedGrows
  <1> HIDE DEF more, L
  <1>3. ASSUME NEW i \in 1..Len(more), Unended(more, i), more[i].depth + 1 \in 1..Len(st2)
        PROVE  st2[more[i].depth + 1].end = more[i].end
    <2>1. i \in 1..L
      BY <1>1, <1>2, <1>3
    <2>2. Unended(evs, i) /\ more[i] = evs[i] /\ evs[i].depth + 1 \in 1..Len(st)
      BY <1>1, <1>2, <1>3, <2>1
    <2>3. st[evs[i].depth + 1].end = evs[i].end
      BY <2>1, <2>2 DEF Framed, L
    <2> QED BY <1>3, <2>2, <2>3
  <1>4. Framed(more, st2)
    BY <1>3 DEF Framed
  <1> QED BY <1>4 DEF more

\* The masters an end is the first outside of end where it says.
LEMMA EndEnds ==
  ASSUME NEW evs \in Seq(Event), NEW n \in Nat, n # 0, NEW pos \in Nat, Reached(evs, n, pos),
         Before(evs, n, pos), AreOver(evs, n - 1, pos),
         NEW i \in 1..Len(evs), Unended(evs, i), n - 1 <= evs[i].depth
  PROVE  EndsHere(evs, i, Len(evs), pos)
  <1> DEFINE L == Len(evs)
  <1>1. /\ L \in Nat /\ \A j \in 1..L : evs[j].depth \in Nat /\ evs[j].end \in Int
        /\ i \in 1..L /\ \A j \in (i + 1)..L : j \in 1..L
    <2>1. L \in Nat /\ \A j \in 1..L : evs[j] \in Event
      BY EventFacts
    <2>2. \A x \in Event : x.depth \in Nat /\ x.end \in Int
      BY DEF Event, Extent, UnknownSize
    <2> QED BY <2>1, <2>2
  <1> HIDE DEF L
  <1>2. \A j \in (i + 1)..L : evs[j].depth > n - 1
    BY <1>1 DEF Unended, L
  <1>3. ASSUME NEW j \in (i + 1)..L PROVE evs[j].end <= pos
    BY <1>1, <1>2 DEF Before, L
  <1>4. ASSUME evs[i].end # UnknownSize, \A j \in (i + 1)..L : evs[j].end <= evs[i].end
        PROVE  pos = evs[i].end
    <2>1. CASE i = L /\ evs[i].depth = n /\ evs[i].end = pos
      BY <2>1
    <2>2. CASE evs[i].depth < n /\ NotPassed(evs, n, pos, i)
      <3>1. evs[i].depth = n - 1
        BY <1>1, <2>2
      <3>2. evs[i].end <= pos
        BY <3>1 DEF AreOver
      <3>3. pos <= evs[i].end
        BY <1>1, <1>2, <1>4, <2>2 DEF NotPassed, L
      <3> QED BY <1>1, <3>2, <3>3
    <2> QED BY <1>4, <2>1, <2>2 DEF Reached, L
  <1> QED BY <1>3, <1>4 DEF EndsHere, L

LEMMA BeforeBelow ==
  ASSUME NEW evs \in Seq(Event), NEW n \in Nat, NEW pos, NEW b \in Nat, b <= n, Before(evs, b, pos)
  PROVE  Before(evs, n, pos)
  <1>1. \A j \in 1..Len(evs) : evs[j].depth \in Nat
    BY EventFacts
  <1> QED BY <1>1 DEF Before

\* The end of the innermost of n masters is reported.
LEMMA EndStands ==
  ASSUME NEW evs \in Seq(Event), NEW n \in Nat, n # 0, NEW pos \in Nat, NEW b \in Nat, b <= n, NEW st,
         StandsAt(evs, pos, st, n, b), AreOver(evs, n - 1, pos),
         NEW b2 \in Nat, b2 = b \/ (b = n /\ b2 = n - 1), b2 <= n - 1,
         NEW st2, Len(st) \in Nat, Len(st2) \in Nat, Len(st2) <= Len(st), \A l \in 1..Len(st2) : st2[l] = st[l],
         NEW e \in Event, e.depth = n - 1, e.end = pos, e.ev = "end"
  PROVE  StandsAt(Append(evs, e), pos, st2, n - 1, b2) /\ (EndsSay(evs) => EndsSay(Append(evs, e)))
  <1> DEFINE more == Append(evs, e)
             m == n - 1
  <1>1. /\ \A j \in 1..Len(evs) : IsNode(evs[j])
        /\ Before(evs, b, pos) /\ Reached(evs, n, pos) /\ Framed(evs, st)
    BY DEF StandsAt
  <1>2. IsNode(e) /\ PosOf(e) = pos
    BY DEF IsNode, PosOf
  <1>3. \A j \in 1..Len(more) : IsNode(more[j])
    BY <1>1, <1>2, NodesMore
  <1>4. Before(more, b2, pos)
    BY <1>1, EndBefore
  <1>5. m \in Nat /\ e.depth = m
    OBVIOUS
  <1>6. Framed(more, st2)
    BY <1>1, EndFramed
  <1>7. Before(evs, n, pos)
    BY <1>1, BeforeBelow
  <1>8. \A i \in 1..Len(evs) : Unended(evs, i) /\ e.depth <= evs[i].depth =>
          EndsHere(evs, i, Len(evs), PosOf(e))
    BY <1>1, <1>2, <1>7, EndEnds
  <1>9. EndsSay(evs) => EndsSay(more)
    BY <1>8, EndsSayMore
  <1> HIDE DEF m
  <1>10. Reached(more, m, pos)
    BY <1>5, EndReaches
  <1> HIDE DEF more
  <1>11. StandsAt(more, pos, st2, m, b2)
    BY <1>3, <1>4, <1>6, <1>10 DEF StandsAt
  <1> QED BY <1>9, <1>11 DEF more, m

\* The last node was a master, and it was skipped.
LEMMA SkippedStands ==
  ASSUME NEW evs \in Seq(Event), evs # << >>, NEW n \in Nat, NEW pos \in Nat, NEW pos2 \in Nat, pos <= pos2,
         evs[Len(evs)].ev = "master", evs[Len(evs)].depth = n, evs[Len(evs)].end = pos2,
         NEW st, NEW st2, Len(st2) \in Nat, st = Append(st2, st[Len(st2) + 1]), IsSequence(st2),
         StandsAt(evs, pos, st, n + 1, n + 1)
  PROVE  StandsAt(evs, pos2, st2, n, n)
  <1> DEFINE L == Len(evs)
  <1>1. /\ L \in Nat /\ L \in 1..L
        /\ \A j \in 1..L : evs[j].depth \in Nat /\ evs[j].end \in Int
    <2>1. L \in Nat /\ \A j \in 1..L : evs[j] \in Event
      BY EventFacts
    <2>2. \A x \in Event : x.depth \in Nat /\ x.end \in Int
      BY DEF Event, Extent, UnknownSize
    <2>3. L # 0
      BY EmptySeq
    <2> QED BY <2>1, <2>2, <2>3
  <1> HIDE DEF L
  <1>2. ASSUME NEW j \in 1..L, Unended(evs, j) PROVE j = L \/ evs[j].depth < n
    <2>1. j # L => L \in (j + 1)..L
      BY <1>1
    <2> QED BY <1>1, <1>2, <2>1 DEF Unended, L
  <1>3. Before(evs, n, pos2)
    <2>1. Before(evs, n + 1, pos)
      BY DEF StandsAt
    <2>2. ASSUME NEW j \in 1..L PROVE evs[j].end <= pos2 \/ (Unended(evs, j) /\ evs[j].depth < n)
      <3>1. evs[j].end <= pos \/ Unended(evs, j)
        BY <2>1 DEF Before, L
      <3> QED BY <1>1, <1>2, <3>1 DEF L
    <2> QED BY <2>2 DEF Before, L
  <1>4. Reached(evs, n, pos2)
    <2> SUFFICES ASSUME NEW i \in 1..L, Unended(evs, i), i # L, evs[i].end # UnknownSize
                 PROVE  NotPassed(evs, n, pos2, i)
      BY <1>2 DEF Reached, L
    <2>1. NotPassed(evs, n + 1, pos, i)
      <3>1. Reached(evs, n + 1, pos)
        BY DEF StandsAt
      <3> QED BY <3>1 DEF Reached, L
    <2>2. L \in (i + 1)..L
      BY <1>1
    <2>3. pos2 <= evs[i].end \/ evs[L].end > evs[i].end
      BY <1>1 DEF L
    <2> QED BY <2>2, <2>3 DEF NotPassed, L
  <1>5. Framed(evs, st2)
    <2>1. /\ Len(st) = Len(st2) + 1
          /\ \A l \in 1..Len(st2) : st[l] = st2[l]
      BY AppendToSequence
    <2>2. Framed(evs, st)
      BY DEF StandsAt
    <2>3. ASSUME NEW i \in 1..L, Unended(evs, i), evs[i].depth + 1 \in 1..Len(st2)
          PROVE  st2[evs[i].depth + 1].end = evs[i].end
      <3>1. evs[i].depth + 1 \in 1..Len(st)
        BY <2>1, <2>3
      <3> QED BY <2>1, <2>2, <2>3, <3>1 DEF Framed, L
    <2> QED BY <2>3 DEF Framed, L
  <1> QED BY <1>3, <1>4, <1>5 DEF StandsAt

\* The input ends with no frame that ends later.
LEMMA EOFStands ==
  ASSUME NEW evs \in Seq(Event), NEW n \in Nat, NEW pos \in Nat, NEW st, Len(st) = n,
         StandsAt(evs, pos, st, n, n), \A l \in 1..n : st[l].end = UnknownSize \/ st[l].end <= pos,
         NEW none, none = 0, NEW st2, st2 = << >>
  PROVE  StandsAt(evs, pos, st2, n, none)
  <1>1. /\ \A j \in 1..Len(evs) : IsNode(evs[j])
        /\ Before(evs, n, pos) /\ Reached(evs, n, pos) /\ Framed(evs, st)
    BY DEF StandsAt
  <1>2. \A j \in 1..Len(evs) : evs[j].depth \in Nat
    BY EventFacts
  <1>3. ASSUME NEW j \in 1..Len(evs) PROVE evs[j].end <= pos
    <2>1. CASE Unended(evs, j) /\ evs[j].depth < n
      <3>1. evs[j].depth + 1 \in 1..n
        BY <1>2, <2>1
      <3>2. st[evs[j].depth + 1].end = evs[j].end
        BY <1>1, <2>1, <3>1 DEF Framed
      <3> QED BY <3>1, <3>2 DEF UnknownSize
    <2> QED BY <1>1, <2>1 DEF Before
  <1>4. Before(evs, none, pos)
    BY <1>3 DEF Before
  <1>5. Framed(evs, st2)
    <2>1. Len(st2) = 0
      BY EmptySeq
    <2>2. \A x \in 1..Len(st2) : FALSE
      BY <2>1
    <2> QED BY <2>2 DEF Framed
  <1> QED BY <1>1, <1>4, <1>5 DEF StandsAt

\* With no master open no frame is needed.
LEMMA FramedByNone ==
  ASSUME NEW evs, NEW st, st = << >>
  PROVE  Framed(evs, st)
  <1>1. Len(st) = 0
    BY EmptySeq
  <1>2. \A x \in 1..Len(st) : FALSE
    BY <1>1
  <1> QED BY <1>2 DEF Framed

-----------------------------------------------------------------------------
(* Where the cursor stands, step by step.                                  *)

\* The parser once the element it is on is entered, if it is a master, or passed.
Due ==
  IF pending = "master" THEN EnterMaster(p)
  ELSE IF pending = "leaf" /\ decision # "payloadDone" THEN StepOver(p)
  ELSE p

Depths == IF eofRun THEN 0 ELSE Rooms

\* The last node is the master that waits for its decision.
Waiting ==
  pending = "master" =>
    /\ events # << >> /\ Node.ev = "master" /\ Node.depth = Len(open)
    /\ Node.end = IF p.current.size = UnknownSize THEN UnknownSize ELSE p.pos + p.current.size

\* Where the cursor stands, as long as its input is not over.
StandsNow ==
  /\ StandsAt(events, Due.pos, Due.stack, Rooms, Depths)
  /\ \A c \in 1..Len(closes) : closes[c].end = p.pos
  /\ Waiting

\* A master whose size is known has an end.
SizesSay(evs) ==
  \A j \in 1..Len(evs) : evs[j].ev = "master" /\ evs[j].size # UnknownSize => evs[j].end # UnknownSize

PlacesInv ==
  /\ EndsSay(events) /\ SizesSay(events)
  /\ \A j \in 1..(Len(events) - 1) : IsNode(events[j])
  /\ ~Ended => StandsNow

LEMMA PlacesInit == Init => PlacesInv
  <1> SUFFICES ASSUME Init PROVE PlacesInv
    OBVIOUS
  <1>1. /\ events = << >> /\ open = << >> /\ closes = << >> /\ pending = "none" /\ eofRun = FALSE
        /\ Len(<< >>) = 0 /\ p.stack = << >>
    BY EmptySeq DEF Init, New
  <1>2. Rooms = 0 /\ Due = p /\ Depths = 0
    BY <1>1 DEF Rooms, Due, Depths
  <1>3. (\A j \in 1..0 : FALSE) /\ (\A j \in 1..(0 - 1) : FALSE)
    OBVIOUS
  <1>4. EndsSay(events) /\ SizesSay(events)
    BY <1>1, <1>3 DEF EndsSay, SizesSay
  <1>5. StandsAt(events, Due.pos, Due.stack, Rooms, Depths)
    BY <1>1, <1>3 DEF StandsAt, Before, Reached, Framed
  <1> QED BY <1>1, <1>3, <1>4, <1>5 DEF PlacesInv, StandsNow, Waiting

\* A step that reports one more.
LEMMA MorePlaces ==
  ASSUME CursorInv, PlacesInv, ~Ended, NEW e \in Event, events' = Append(events, e),
         EndsSay(events'), e.ev = "master" /\ e.size # UnknownSize => e.end # UnknownSize,
         Ended' \/ StandsNow'
  PROVE  PlacesInv'
  <1> DEFINE L == Len(events)
             more == Append(events, e)
  <1>1. events \in Seq(Event)
    BY DEF CursorInv, TypeOK
  <1>2. /\ L \in Nat /\ Len(more) = L + 1 /\ more[L + 1] = e
        /\ \A i \in 1..L : more[i] = events[i]
    BY <1>1, OneMore
  <1>3. \A j \in 1..L : IsNode(events[j])
    BY DEF PlacesInv, StandsNow, StandsAt
  <1>4. \A j \in 1..L : events[j].ev = "master" /\ events[j].size # UnknownSize => events[j].end # UnknownSize
    BY DEF PlacesInv, SizesSay
  <1> HIDE DEF L, more
  <1>5. (\A j \in 1..(L + 1) : j \in 1..L \/ j = L + 1) /\ L + 1 - 1 = L
    BY <1>2
  <1>6. SizesSay(more)
    BY <1>2, <1>4, <1>5 DEF SizesSay
  <1>7. \A j \in 1..(Len(more) - 1) : IsNode(more[j])
    BY <1>2, <1>3, <1>5
  <1>8. more = events'
    BY DEF more
  <1> QED BY <1>6, <1>7, <1>8 DEF PlacesInv

\* The last report.
LEMMA LastPlaces ==
  ASSUME CursorInv, [Next]_vars, PlacesInv, ~Ended, ReportsLast
  PROVE  PlacesInv'
  <1>1. PICK e : /\ events' = Append(events, e) /\ e.ev \in {"eof", "fail"}
                 /\ err' # "none" \/ e.ev = "eof"
    BY DEF ReportsLast
  <1>2. events \in Seq(Event) /\ events' \in Seq(Event)
    BY NextInv DEF CursorInv, TypeOK
  <1>3. /\ Len(events) \in Nat /\ Len(events') = Len(events) + 1 /\ events'[Len(events) + 1] = e
    <2>1. IsSequence(events) /\ Len(events) \in Nat
      BY <1>2, SeqOfRange, LenProperties DEF IsSequence
    <2> QED BY <1>1, <2>1, AppendToSequence
  <1>4. e \in Event
    <2>1. Len(events) + 1 \in 1..Len(events')
      BY <1>3
    <2> QED BY <1>2, <1>3, <2>1, ElementOfSeq
  <1>5. ~IsNode(e) /\ e.ev # "master"
    BY <1>1 DEF IsNode
  <1>6. EndsSay(Append(events, e))
    BY <1>2, <1>4, <1>5, EndsSayMore DEF PlacesInv
  <1>7. Ended'
    <2>1. events' # << >> /\ Top(events)' = e
      BY <1>3, EmptySeq DEF Top
    <2> QED BY <1>1, <2>1 DEF Ended
  <1> QED BY <1>1, <1>4, <1>5, <1>6, <1>7, MorePlaces

\* A step that reports nothing and leaves the cursor between elements.
LEMMA RestPlaces ==
  ASSUME PlacesInv, events' = events, pending' = "none",
         NEW pos, NEW st, NEW n, NEW b, p'.pos = pos, p'.stack = st, Len(open') = n,
         b = IF eofRun' THEN 0 ELSE n, StandsAt(events, pos, st, n, b),
         \A c \in 1..Len(closes') : closes'[c].end = pos
  PROVE  PlacesInv'
  <1>1. Rooms' = n /\ Due' = p' /\ Depths' = b
    BY DEF Rooms, Due, Depths
  <1>2. StandsNow'
    BY <1>1 DEF StandsNow, Waiting
  <1> QED BY <1>2 DEF PlacesInv

\* The end of the innermost of the masters o is reported.
LEMMA EndPlaces ==
  ASSUME CursorInv, [Next]_vars, PlacesInv, ~Ended, NEW q, NEW pos \in Nat, q.pos = pos,
         NEW o \in Seq(OpenMaster), o # << >>, NEW reason, IssueEnd(q, o, pos, reason), Settled,
         NEW st, NEW b, b = IF eofRun' THEN 0 ELSE Len(o), StandsAt(events, pos, st, Len(o), b),
         AreOver(events, Len(o) - 1, pos),
         Len(st) \in Nat, Len(q.stack) \in Nat, Len(q.stack) <= Len(st),
         \A l \in 1..Len(q.stack) : q.stack[l] = st[l],
         \A c \in 1..Len(closes') : closes'[c].end = pos
  PROVE  PlacesInv'
  <1> DEFINE n == Len(o)
             st2 == q.stack
             e == EndNode(Top(o), n - 1, pos, reason)
             b2 == IF eofRun' THEN 0 ELSE n - 1
  <1>1. n \in Nat /\ n # 0 /\ Len(Pop(o)) = n - 1
    BY PopFacts, EmptySeq, LenProperties
  <1>2. /\ p' = q /\ open' = Pop(o) /\ events' = Append(events, e) /\ pending' = "none"
    BY DEF IssueEnd, Settled
  <1>3. e.ev = "end" /\ e.depth = n - 1 /\ e.end = pos
    BY DEF EndNode
  <1>4. events \in Seq(Event) /\ events' \in Seq(Event)
    BY NextInv DEF CursorInv, TypeOK
  <1> HIDE DEF e
  <1>5. e \in Event
    <2>1. IsSequence(events) /\ Len(events) \in Nat
      BY <1>4, SeqOfRange, LenProperties DEF IsSequence
    <2>2. Len(events') = Len(events) + 1 /\ events'[Len(events) + 1] = e
      BY <1>2, <2>1, AppendToSequence
    <2>3. Len(events) + 1 \in 1..Len(events')
      BY <2>1, <2>2
    <2> QED BY <1>4, <2>2, <2>3, ElementOfSeq
  <1>6. b2 \in Nat /\ (b2 = b \/ (b = n /\ b2 = n - 1)) /\ b2 <= n - 1 /\ b \in Nat /\ b <= n
    BY <1>1
  <1> HIDE DEF b2, n, st2
  <1>7. StandsAt(events, pos, st, n, b) /\ AreOver(events, n - 1, pos) /\ e.depth = n - 1
    BY <1>3 DEF n
  <1>8. Len(st2) \in Nat /\ Len(st2) <= Len(st) /\ \A l \in 1..Len(st2) : st2[l] = st[l]
    BY DEF st2
  <1>9. /\ StandsAt(Append(events, e), pos, st2, n - 1, b2)
        /\ EndsSay(events) => EndsSay(Append(events, e))
    BY <1>1, <1>3, <1>4, <1>5, <1>6, <1>7, <1>8, EndStands, ZenonT(60)
  <1>10. Rooms' = n - 1 /\ Due' = q
    BY <1>1, <1>2 DEF Rooms, Due
  <1>11. Depths' = b2
    BY <1>10 DEF Depths, b2
  <1>12. StandsNow'
    <2>1. StandsAt(events', Due'.pos, Due'.stack, Rooms', Depths')
      BY <1>2, <1>9, <1>10, <1>11 DEF st2
    <2>2. \A c \in 1..Len(closes') : closes'[c].end = p'.pos
      BY <1>2
    <2> QED BY <1>2, <2>1, <2>2 DEF StandsNow, Waiting
  <1>13. EndsSay(events')
    BY <1>2, <1>9 DEF PlacesInv
  <1> QED BY <1>2, <1>3, <1>5, <1>12, <1>13, MorePlaces

\* The end of a master that the end of the input closes is reported.
LEMMA DequeuePlaces ==
  ASSUME CursorInv, [Next]_vars, PlacesInv, ~Ended, NEW q, NEW pos \in Nat, q.pos = pos, q.stack = << >>,
         NEW o \in Seq(OpenMaster), NEW cs \in Seq([id : ElementID, end : Nat]), cs # << >>,
         ClosesAll(cs, o), \A c \in 1..Len(cs) : cs[c].end = pos,
         DequeueClose(q, o, cs), Settled, eofRun',
         NEW st, NEW none, none = 0, StandsAt(events, pos, st, Len(o), none), Len(st) \in Nat
  PROVE  PlacesInv'
  <1>1. o # << >> /\ Top(o).id = Head(cs).id
    BY DequeueKeepsClosing
  <1>2. Len(cs) \in Nat /\ Len(cs) # 0 /\ Head(cs) = cs[1]
    BY EmptySeq, LenProperties
  <1>3. Head(cs).end = pos
    BY <1>2
  <1>4. IssueEnd(q, o, pos, "EndOfInput") /\ closes' = Tail(cs)
    BY <1>1, <1>3 DEF DequeueClose
  <1>5. \A c \in 1..Len(closes') : closes'[c].end = pos
    <2>1. Len(Tail(cs)) = Len(cs) - 1 /\ \A c \in 1..(Len(cs) - 1) : Tail(cs)[c] = cs[c + 1]
      BY HeadTailProperties
    <2> QED BY <1>2, <1>4, <2>1
  <1>6. AreOver(events, Len(o) - 1, pos)
    <2>1. \A j \in 1..Len(events) : events[j].depth \in Nat
      BY EventFacts DEF CursorInv, TypeOK
    <2>2. Before(events, none, pos)
      BY DEF StandsAt
    <2> QED BY <2>1, <2>2 DEF Before, AreOver
  <1>7. Len(q.stack) = 0
    BY EmptySeq
  <1>8. none = IF eofRun' THEN 0 ELSE Len(o)
    OBVIOUS
  <1>9. /\ Len(q.stack) \in Nat /\ Len(q.stack) <= Len(st)
        /\ \A l \in 1..Len(q.stack) : q.stack[l] = st[l]
    BY <1>7
  <1> QED BY <1>1, <1>4, <1>5, <1>6, <1>8, <1>9, EndPlaces

-----------------------------------------------------------------------------
(* The calls, one by one.                                                  *)

\* Where the decision left on the last node takes the cursor.
LEMMA ResolvedStands ==
  ASSUME CursorInv, PlacesInv, ~Ended, ResolveResult = "ok"
  PROVE  /\ ResolvedParser.pos \in Nat /\ events \in Seq(Event)
         /\ ResolvedOpen \in Seq(OpenMaster) /\ Len(ResolvedOpen) \in Nat
         /\ ~eofRun => StandsAt(events, ResolvedParser.pos, ResolvedParser.stack,
                                Len(ResolvedOpen), Len(ResolvedOpen))
         /\ eofRun => /\ \A b : b = 0 => StandsAt(events, p.pos, p.stack, Len(open), b)
                      /\ \A c \in 1..Len(closes) : closes[c].end = p.pos
  <1>1. err = "none" /\ StandsNow
    BY DEF Ended, PlacesInv
  <1>2. Quiet(ResolvedParser) /\ ResolvedOpen \in Seq(OpenMaster)
    BY <1>1, Resolving
  <1>3. ResolvedParser.pos \in Nat /\ events \in Seq(Event) /\ Len(ResolvedOpen) \in Nat
    BY <1>2, LenProperties DEF Quiet, ParserState, CursorInv, TypeOK
  <1>4. ASSUME eofRun
        PROVE  /\ \A b : b = 0 => StandsAt(events, p.pos, p.stack, Len(open), b)
               /\ \A c \in 1..Len(closes) : closes[c].end = p.pos
    <2>1. pending = "none"
      BY <1>1, <1>4 DEF CursorInv, EOFRunDrained
    <2>2. Due = p /\ Depths = 0 /\ Rooms = Len(open)
      BY <1>4, <2>1 DEF Due, Depths, Rooms
    <2> QED BY <1>1, <2>2 DEF StandsNow
  <1>5. ASSUME ~eofRun
        PROVE  StandsAt(events, ResolvedParser.pos, ResolvedParser.stack,
                        Len(ResolvedOpen), Len(ResolvedOpen))
    <2>1. StandsAt(events, Due.pos, Due.stack, Rooms, Rooms)
      BY <1>1, <1>5 DEF StandsNow, Depths
    <2>2. open \in Seq(OpenMaster) /\ Len(open) \in Nat
      BY LenProperties DEF CursorInv, TypeOK
    <2>3. CASE ~(pending = "master" /\ decision = "skipSubtree")
      <3>1. ResolvedParser = Due
        BY <2>3 DEF ResolvedParser, Due
      <3>2. Len(ResolvedOpen) = Rooms
        <4>1. pending = "master" => Len(Append(open, pendOpen)) = Len(open) + 1
          BY <2>2, AppendProperties DEF CursorInv, TypeOK
        <4> QED BY <2>3, <4>1 DEF ResolvedOpen, Rooms
      <3> QED BY <2>1, <3>1, <3>2
    <2>4. CASE pending = "master" /\ decision = "skipSubtree"
      <3> DEFINE n == Len(open)
                 pos == p.pos
                 pos2 == p.pos + p.current.size
                 st2 == p.stack
                 f == [id |-> p.current.id, start |-> p.current.offset, end |-> pos2]
                 st == Append(st2, f)
      <3>1. p.pos \in Nat /\ p.current.size \in Nat /\ p.stack \in Seq(Frame) /\ IsSequence(p.stack)
        <4>1. p.current.size # UnknownSize /\ p.current \in ElementCtx
          BY <1>1, <2>4 DEF ResolveResult, CursorInv, PendingMatches, TypeOK, ParserState
        <4> QED BY <4>1, SeqOfRange DEF CursorInv, TypeOK, ParserState, ElementCtx, Extent, IsSequence
      <3>2. /\ events # << >> /\ events[Len(events)].ev = "master" /\ events[Len(events)].depth = n
            /\ events[Len(events)].end = pos2
        BY <1>1, <2>4, <3>1 DEF StandsNow, Waiting, Node, Top, UnknownSize
      <3>3. Due.pos = pos /\ Due.stack = st /\ Rooms = n + 1
        BY <2>4, <3>1 DEF Due, EnterMaster, At, Rooms, UnknownSize
      <3>4. ResolvedParser.pos = pos2 /\ ResolvedParser.stack = st2 /\ ResolvedOpen = open
        BY <2>4 DEF ResolvedParser, ResolvedOpen, StepOver, At
      <3>5. n \in Nat /\ pos \in Nat /\ pos2 \in Nat /\ pos <= pos2
        BY <2>2, <3>1
      <3>6. Len(st2) \in Nat /\ st[Len(st2) + 1] = f /\ IsSequence(st2)
        BY <3>1, AppendToSequence
      <3>7. st = Append(st2, st[Len(st2) + 1])
        BY <3>6
      <3>8. StandsAt(events, pos, st, n + 1, n + 1)
        BY <2>1, <3>3
      <3> HIDE DEF st, pos2, n, pos, st2
      <3>9. StandsAt(events, pos2, st2, n, n)
        BY <1>3, <3>2, <3>5, <3>6, <3>7, <3>8, SkippedStands
      <3> QED BY <3>4, <3>9 DEF n
    <2> QED BY <2>3, <2>4
  <1> QED BY <1>2, <1>3, <1>4, <1>5

\* A decision, and a payload taken, change nothing of where the cursor will stand.
LEMMA DecidePlaces ==
  ASSUME CursorInv, PlacesInv, ~Ended,
         Descend \/ SkipSubtree \/ SkipLeaf \/ Payload \/ (\E n \in 1..Documents[doc].len : FeedChunk(n))
           \/ UNCHANGED vars
  PROVE  PlacesInv'
  <1>1. StandsNow /\ err = "none"
    BY DEF PlacesInv, Ended
  <1>2. events' = events /\ UNCHANGED <<open, pending, closes, eofRun>>
    BY DEF Descend, SkipSubtree, SkipLeaf, Payload, FeedChunk, vars
  <1>3. Rooms' = Rooms /\ Depths' = Depths
    BY <1>2 DEF Rooms, Depths
  <1>4. Due'.pos = Due.pos /\ Due'.stack = Due.stack
    <2>1. CASE Payload
      <3>1. pending = "leaf" /\ decision = "none" /\ p' = StepOver(p) /\ decision' = "payloadDone"
        BY <2>1 DEF Payload, CursorInv, HeldIsPending
      <3> QED BY <1>2, <3>1 DEF Due
    <2>2. CASE \E n \in 1..Documents[doc].len : FeedChunk(n)
      <3>1. PICK n \in 1..Documents[doc].len : FeedChunk(n)
        BY <2>2
      <3>2. p'.pos = p.pos /\ p'.stack = p.stack /\ p'.current = p.current /\ decision' = decision
        BY <3>1 DEF FeedChunk, Feed
      <3> QED BY <1>2, <3>2 DEF Due, EnterMaster, StepOver, At
    <2>3. CASE SkipLeaf
      <3>1. pending = "leaf" /\ decision = "none" /\ p' = p /\ decision' = "skipPayload"
        BY <2>3 DEF SkipLeaf, CursorInv, HeldIsPending
      <3> QED BY <1>2, <3>1 DEF Due
    <2>4. CASE Descend \/ SkipSubtree
      <3>1. pending = "master" /\ p' = p
        BY <2>4 DEF Descend, SkipSubtree, CursorInv, HeldIsPending
      <3> QED BY <1>2, <3>1 DEF Due
    <2>5. CASE UNCHANGED vars
      BY <2>5 DEF vars, Due
    <2> QED BY <2>1, <2>2, <2>3, <2>4, <2>5
  <1>5. \A c \in 1..Len(closes') : closes'[c].end = p'.pos
    <2>1. CASE Payload
      <3>1. pending = "leaf"
        BY <2>1 DEF Payload, CursorInv, HeldIsPending
      <3>2. closes = << >>
        BY <1>1, <3>1 DEF CursorInv, EOFRunDrained, StackMirror
      <3>3. Len(closes) = 0
        BY <3>2, EmptySeq
      <3>4. \A c \in 1..0 : FALSE
        OBVIOUS
      <3> QED BY <1>2, <3>3, <3>4
    <2>2. CASE ~Payload
      <3>1. p'.pos = p.pos
        BY <2>2 DEF Descend, SkipSubtree, SkipLeaf, FeedChunk, Feed, vars
      <3> QED BY <1>1, <1>2, <3>1 DEF StandsNow
    <2> QED BY <2>1, <2>2
  <1>6. Waiting'
    <2>1. CASE Payload
      BY <1>2, <2>1 DEF Payload, CursorInv, HeldIsPending, Waiting
    <2>2. CASE ~Payload
      <3>1. p'.pos = p.pos /\ p'.current = p.current
        BY <2>2 DEF Descend, SkipSubtree, SkipLeaf, FeedChunk, Feed, vars
      <3> QED BY <1>1, <1>2, <3>1 DEF StandsNow, Waiting, Node, Top
    <2> QED BY <2>1, <2>2
  <1>7. StandsNow'
    BY <1>1, <1>2, <1>3, <1>4, <1>5, <1>6 DEF StandsNow
  <1> QED BY <1>2, <1>7 DEF PlacesInv

\* The innermost of the masters o has reached its end, or may end anywhere.
LEMMA TopIsOver ==
  ASSUME NEW evs \in Seq(Event), NEW st, NEW n \in Nat, n # 0, Len(st) = n, NEW pos \in Nat, Framed(evs, st),
         Top(st).end = UnknownSize \/ Top(st).end <= pos
  PROVE  AreOver(evs, n - 1, pos)
  <1> SUFFICES ASSUME NEW i \in 1..Len(evs), Unended(evs, i), evs[i].depth = n - 1
               PROVE  evs[i].end <= pos
    BY DEF AreOver
  <1>1. evs[i].depth + 1 = n /\ n \in 1..Len(st)
    OBVIOUS
  <1>2. st[n].end = evs[i].end
    BY <1>1 DEF Framed
  <1> QED BY <1>2 DEF Top, UnknownSize

\* A master is left by popping the parser's stack.
LEMMA PopPlaces ==
  ASSUME CursorInv, [Next]_vars, PlacesInv, ~Ended, ResolveResult = "ok", ~eofRun, UNCHANGED <<eofRun, closes>>,
         ResolvedParser.stack # << >>, NEW reason,
         IssueEnd(PopMaster(ResolvedParser), ResolvedOpen, ResolvedParser.pos, reason), Settled,
         Top(ResolvedParser.stack).end = UnknownSize
           \/ Top(ResolvedParser.stack).end <= ResolvedParser.pos
  PROVE  PlacesInv'
  <1> DEFINE q == ResolvedParser
             o == ResolvedOpen
             st == q.stack
             pos == q.pos
             n == Len(o)
             q2 == PopMaster(q)
  <1>1. /\ Quiet(q) /\ SameMasters(o, st) /\ o \in Seq(OpenMaster) /\ closes = << >>
    BY Resolving DEF Ended
  <1>2. pos \in Nat /\ events \in Seq(Event) /\ n \in Nat /\ StandsAt(events, pos, st, n, n)
    BY ResolvedStands
  <1>3. /\ st \in Seq(Frame) /\ Len(st) = n /\ n # 0 /\ o # << >>
    <2>1. st \in Seq(Frame) /\ Len(o) = Len(st)
      BY <1>1 DEF Quiet, ParserState, SameMasters
    <2>2. Len(st) # 0
      BY <2>1, EmptySeq
    <2>3. Len(<< >>) = 0
      BY EmptySeq
    <2> QED BY <2>1, <2>2, <2>3
  <1>4. /\ q2.pos = pos /\ Len(q2.stack) = n - 1 /\ \A l \in 1..(n - 1) : q2.stack[l] = st[l]
    <2>1. q2.pos = pos /\ q2.stack = Pop(st)
      BY DEF PopMaster, At
    <2>2. Len(Pop(st)) = Len(st) - 1 /\ \A l \in 1..(Len(st) - 1) : Pop(st)[l] = st[l]
      BY <1>3, PopFacts
    <2> QED BY <1>3, <2>1, <2>2
  <1>5. AreOver(events, n - 1, pos)
    <2>1. Framed(events, st)
      BY <1>2 DEF StandsAt
    <2> QED BY <1>2, <1>3, <2>1, TopIsOver
  <1>6. Len(closes') = 0 /\ ~eofRun'
    BY <1>1, EmptySeq
  <1>7. \A c \in 1..Len(closes') : closes'[c].end = pos
    BY <1>6
  <1>8. Len(st) \in Nat /\ Len(q2.stack) \in Nat /\ Len(q2.stack) <= Len(st)
    BY <1>2, <1>3, <1>4
  <1>9. IssueEnd(q2, o, pos, reason)
    OBVIOUS
  <1>10. n = IF eofRun' THEN 0 ELSE n
    BY <1>6
  <1>11. \A l \in 1..Len(q2.stack) : q2.stack[l] = st[l]
    BY <1>4
  <1> HIDE DEF q, o, st, pos, q2
  <1> QED BY <1>1, <1>2, <1>3, <1>4, <1>5, <1>7, <1>8, <1>9, <1>10, <1>11, EndPlaces

LEMMA NextEndPlaces ==
  ASSUME CursorInv, [Next]_vars, PlacesInv, ~Ended, NextEnd
  PROVE  PlacesInv'
  <1> DEFINE q == ResolvedParser
  <1>1. /\ err = "none" /\ ResolveResult = "ok" /\ closes = << >> /\ PeekResult(doc, q) = "EndMaster"
        /\ AdvanceEnd(q, ResolvedOpen) /\ UNCHANGED <<eofRun, closes>>
    BY DEF NextEnd
  <1>2. ~eofRun
    BY <1>1, PeekedMore
  <1>3. CASE LeaveMasterResult(q) # "ok"
    BY <1>1, <1>3, ReasonsAreGiven, FailureIsLast, LastPlaces DEF AdvanceEnd
  <1>4. CASE LeaveMasterResult(q) = "ok"
    <2>1. IssueEnd(PopMaster(q), ResolvedOpen, q.pos, "DeclaredEnd") /\ Settled
      BY <1>1, <1>4 DEF AdvanceEnd
    <2>2. q.stack # << >> /\ Top(q.stack).end # UnknownSize /\ ~(q.pos < Top(q.stack).end)
      BY <1>4 DEF LeaveMasterResult
    <2>3. Top(q.stack).end <= q.pos
      <3>1. q.stack \in Seq(Frame) /\ q.pos \in Nat
        BY <1>1, Resolving DEF Quiet, ParserState
      <3>2. Top(q.stack) \in Frame
        BY <2>2, <3>1, PopFacts
      <3> QED BY <2>2, <3>1, <3>2 DEF Frame, Extent
    <2> QED BY <1>1, <1>2, <2>1, <2>2, <2>3, PopPlaces
  <1> QED BY <1>3, <1>4

LEMMA NextHeaderPlaces ==
  ASSUME CursorInv, [Next]_vars, PlacesInv, ~Ended, NextHeader
  PROVE  PlacesInv'
  <1> DEFINE q == ResolvedParser
             o == ResolvedOpen
             h == HeaderAt(doc, q.pos)
             kind == KindOf[h.id]
  <1>1. /\ err = "none" /\ ResolveResult = "ok" /\ closes = << >> /\ PeekResult(doc, q) = "ok"
        /\ AdvanceHeader(q, o) /\ UNCHANGED <<eofRun, closes>>
    BY DEF NextHeader
  <1>2. ~eofRun
    BY <1>1, PeekedMore
  <1>3. /\ Quiet(q) /\ SameMasters(o, q.stack) /\ o \in Seq(OpenMaster)
    BY <1>1, <1>2, Resolving
  <1>4. /\ h \in Header /\ HeaderLen(h) \in 1..(q.fed - q.pos)
        /\ h.size = UnknownSize => kind = "master"
    BY <1>1, <1>3, PeekAnswers DEF CursorInv, TypeOK
  <1>5. CASE kind = "endmaster"
    BY <1>1, <1>5, FailureIsLast, LastPlaces DEF AdvanceHeader
  <1>6. CASE kind # "endmaster" /\ CrossesBoundary(q, o, h)
    <2>1. CASE CloseMasterResult(q) # "ok"
      BY <1>1, <1>6, <2>1, ReasonsAreGiven, FailureIsLast, LastPlaces DEF AdvanceHeader
    <2>2. CASE CloseMasterResult(q) = "ok"
      <3>1. IssueEnd(PopMaster(q), o, q.pos, "Boundary") /\ Settled
        BY <1>1, <1>6, <2>2 DEF AdvanceHeader
      <3>2. q.stack # << >>
        BY <2>2 DEF CloseMasterResult
      <3>3. Top(q.stack).end = UnknownSize
        <4>1. q.stack \in Seq(Frame) /\ Len(q.stack) \in 1..Len(q.stack)
          BY <1>3, <3>2, PopFacts DEF Quiet, ParserState
        <4>2. Len(o) = Len(q.stack) /\ o[Len(o)].size = UnknownSize
          BY <1>3, <1>6 DEF SameMasters, CrossesBoundary, Top
        <4> QED BY <1>3, <4>1, <4>2 DEF SameMasters, Top
      <3> QED BY <1>1, <1>2, <3>1, <3>2, <3>3, PopPlaces
    <2> QED BY <2>1, <2>2
  <1>7. CASE kind # "endmaster" /\ ~CrossesBoundary(q, o, h)
    <2> DEFINE n == Len(o)
               st == q.stack
               pos == q.pos
               size == h.size
               e == ElementNode(kind, h, pos, n)
               after == pos + HeaderLen(h)
               pos2 == IF kind = "master" THEN after ELSE after + size
               n2 == IF kind = "master" THEN n + 1 ELSE n
               f == [id |-> h.id, start |-> pos, end |-> IF size = UnknownSize THEN UnknownSize ELSE after + size]
               st2 == IF kind = "master" THEN Append(st, f) ELSE st
               more == Append(events, e)
    <2>1. /\ p' = ConsumeHeader(doc, q) /\ open' = o /\ pending' = kind /\ decision' = "none"
          /\ events' = more
      BY <1>1, <1>7 DEF AdvanceHeader
    <2>2. kind \in {"master", "leaf"}
      BY <1>4, <1>7, Assumption DEF DocumentsAssumption, Header, Kind
    <2>3. pos \in Nat /\ events \in Seq(Event) /\ n \in Nat /\ StandsAt(events, pos, st, n, n)
      BY <1>1, <1>2, ResolvedStands
    <2>4. st \in Seq(Frame) /\ IsSequence(st) /\ Len(st) = n
      BY <1>3, SeqOfRange DEF Quiet, ParserState, SameMasters, IsSequence
    <2>5. /\ after \in Nat /\ pos <= after /\ size \in Extent /\ (kind = "leaf" => size \in Nat)
      <3>1. HeaderLen(h) \in Nat
        BY <1>3, <1>4 DEF Quiet, ParserState
      <3> QED BY <1>4, <2>2, <2>3, <3>1 DEF Header, Extent
    <2>6. /\ e.ev = kind /\ e.depth = n /\ e.offset = pos /\ e.size = size
          /\ e.end = IF size = UnknownSize THEN UnknownSize ELSE after + size
      BY DEF ElementNode, EndOf
    <2>7. e \in Event
      <3>1. events' \in Seq(Event)
        BY NextInv DEF CursorInv, TypeOK
      <3>2. IsSequence(events) /\ Len(events) \in Nat
        BY <2>3, SeqOfRange, LenProperties DEF IsSequence
      <3>3. Len(more) = Len(events) + 1 /\ more[Len(events) + 1] = e
        BY <3>2, AppendToSequence
      <3>4. Len(events) + 1 \in 1..Len(more)
        BY <3>2, <3>3
      <3> QED BY <2>1, <3>1, <3>3, <3>4, ElementOfSeq
    <2>8. /\ p'.pos = after /\ p'.stack = st /\ p'.current.kind = kind /\ p'.current.size = size
          /\ p'.current.id = h.id /\ p'.current.offset = pos
      BY <2>1 DEF ConsumeHeader, At
    <2>9. Due'.pos = pos2 /\ Due'.stack = st2
      BY <2>1, <2>2, <2>8 DEF Due, EnterMaster, StepOver, At
    <2>10. Rooms' = n2 /\ ~eofRun'
      BY <1>1, <1>2, <2>1 DEF Rooms
    <2>11. Depths' = n2
      BY <2>10 DEF Depths
    <2> HIDE DEF e
    <2>12. /\ e.ev = "master" => /\ n2 = n + 1 /\ (e.end = UnknownSize \/ pos2 <= e.end)
                                 /\ \E g : g.end = e.end /\ st2 = Append(st, g)
           /\ e.ev = "leaf" => n2 = n /\ e.end = pos2 /\ st2 = st
           /\ pos2 \in Nat /\ pos <= pos2 /\ n2 \in Nat
      <3>1. CASE kind = "master"
        <4>1. f.end = e.end /\ st2 = Append(st, f) /\ n2 = n + 1 /\ pos2 = after
          BY <2>6, <3>1
        <4>2. e.end = UnknownSize \/ pos2 <= e.end
          BY <2>5, <2>6, <4>1 DEF Extent
        <4> HIDE DEF f, st2, n2, pos2, after
        <4> QED BY <2>3, <2>5, <2>6, <3>1, <4>1, <4>2
      <3>2. CASE kind = "leaf"
        BY <2>3, <2>5, <2>6, <3>2 DEF UnknownSize
      <3> QED BY <2>2, <3>1, <3>2
    <2>13. e.ev \in {"master", "leaf"} /\ e.ev = kind /\ e.depth = n /\ PosOf(e) = pos
      BY <2>2, <2>6 DEF PosOf
    <2> HIDE DEF n, n2, pos, pos2, st, st2, kind, h, after, size
    <2>14. StandsAt(more, pos2, st2, n2, n2)
      BY <2>3, <2>4, <2>7, <2>12, <2>13, ElementStands
    <2>15. EndsSay(more)
      <3>1. Reached(events, n, pos)
        BY <2>3 DEF StandsAt
      <3>2. \A i \in 1..Len(events) : Unended(events, i) /\ e.depth <= events[i].depth =>
              EndsHere(events, i, Len(events), PosOf(e))
        BY <2>3, <2>13, <3>1, ElementEnds
      <3> QED BY <2>3, <2>7, <3>2, EndsSayMore DEF PlacesInv
    <2>16. e.ev = "master" /\ e.size # UnknownSize => e.end # UnknownSize
      BY <2>5, <2>6 DEF Extent, UnknownSize
    <2>17. Waiting'
      <3> SUFFICES ASSUME pending' = "master"
                   PROVE  /\ events' # << >> /\ Node'.ev = "master" /\ Node'.depth = Len(open')
                          /\ Node'.end = IF p'.current.size = UnknownSize THEN UnknownSize
                                         ELSE p'.pos + p'.current.size
        BY DEF Waiting
      <3>1. IsSequence(events) /\ Len(events) \in Nat
        BY <2>3, SeqOfRange, LenProperties DEF IsSequence
      <3>2. Len(more) = Len(events) + 1 /\ more[Len(events) + 1] = e
        BY <3>1, AppendToSequence
      <3>3. Node' = e
        BY <2>1, <3>2 DEF Node, Top
      <3>4. events' # << >>
        BY <2>1, <3>1, <3>2, EmptySeq
      <3> QED BY <2>1, <2>6, <2>8, <3>3, <3>4 DEF n
    <2>18. \A c \in 1..Len(closes') : closes'[c].end = p'.pos
      <3>1. Len(closes') = 0
        BY <1>1, EmptySeq
      <3>2. \A c \in 1..0 : FALSE
        OBVIOUS
      <3> QED BY <3>1, <3>2
    <2>19. StandsNow'
      BY <2>1, <2>9, <2>10, <2>11, <2>14, <2>17, <2>18 DEF StandsNow
    <2> QED BY <2>1, <2>7, <2>15, <2>16, <2>19, MorePlaces
  <1> QED BY <1>5, <1>6, <1>7

\* What the end of the input closes ends there.
LEMMA ClosedHere ==
  ASSUME NEW q, q.stack \in Seq(Frame), NEW pos, q.pos = pos
  PROVE  \A c \in 1..Len(ClosedMasters(q)) : ClosedMasters(q)[c].end = pos
  <1>1. Len(q.stack) \in Nat
    BY LenProperties
  <1>2. ClosedMasters(q) = [i \in 1..Len(q.stack) |-> [id |-> q.stack[Len(q.stack) + 1 - i].id, end |-> q.pos]]
    BY DEF ClosedMasters
  <1>3. Len(ClosedMasters(q)) = Len(q.stack)
    BY <1>1 DEF ClosedMasters
  <1> QED BY <1>2, <1>3

\* The input is over and no master declared more.
LEMMA OutOfInputStands ==
  ASSUME CursorInv, PlacesInv, ~Ended, ResolveResult = "ok", ~eofRun,
         PeekResult(doc, ResolvedParser) = "NeedMoreData",
         FinalizeEOFResult(doc, ResolvedParser) = "ok", NEW none, none = 0
  PROVE  LET q == ResolvedParser
             n == Len(ResolvedOpen)
         IN /\ q.pos \in Nat /\ q.stack \in Seq(Frame) /\ Len(q.stack) \in Nat
            /\ \A s : s = << >> => StandsAt(events, q.pos, s, n, none)
            /\ ClosedMasters(q) \in Seq([id : ElementID, end : Nat])
            /\ ClosesAll(ClosedMasters(q), ResolvedOpen)
            /\ ClosedMasters(q) = << >> => ResolvedOpen = << >>
            /\ \A c \in 1..Len(ClosedMasters(q)) : ClosedMasters(q)[c].end = q.pos
  <1> DEFINE q == ResolvedParser
             o == ResolvedOpen
             n == Len(o)
             pos == q.pos
             st == q.stack
  <1>1. /\ Quiet(q) /\ SameMasters(o, st) /\ o \in Seq(OpenMaster) /\ doc \in DOMAIN Documents
    BY Resolving DEF Ended, CursorInv, TypeOK
  <1>2. pos \in Nat /\ events \in Seq(Event) /\ n \in Nat /\ StandsAt(events, pos, st, n, n)
    BY ResolvedStands
  <1>3. st \in Seq(Frame) /\ Len(st) = n
    BY <1>1 DEF Quiet, ParserState, SameMasters
  <1>4. \A l \in 1..n : st[l].end = UnknownSize \/ st[l].end <= pos
    <2>1. ~ \E i \in 1..Len(st) : st[i].end # UnknownSize /\ pos < st[i].end
      BY <1>1, EndOfInputAnswers
    <2>2. \A l \in 1..Len(st) : st[l] \in Frame
      BY <1>2, <1>3, ElementOfSeq
    <2>3. \A x \in Frame : x.end = UnknownSize \/ x.end \in Nat
      BY DEF Frame, Extent
    <2> QED BY <1>2, <1>3, <2>1, <2>2, <2>3
  <1>5. /\ ClosedMasters(q) \in Seq([id : ElementID, end : Nat])
        /\ ClosesAll(ClosedMasters(q), o)
        /\ ClosedMasters(q) = << >> => o = << >>
    BY <1>1, ClosedMastersClose
  <1>6. \A c \in 1..Len(ClosedMasters(q)) : ClosedMasters(q)[c].end = pos
    BY <1>3, ClosedHere
  <1> HIDE DEF q, o, n, pos, st
  <1>7. \A s : s = << >> => StandsAt(events, pos, s, n, none)
    BY <1>2, <1>3, <1>4, EOFStands
  <1> QED BY <1>2, <1>3, <1>5, <1>6, <1>7 DEF q, o, n, pos, st

LEMMA NextDequeuePlaces ==
  ASSUME CursorInv, [Next]_vars, PlacesInv, ~Ended, NextDequeue
  PROVE  PlacesInv'
  <1>1. /\ err = "none" /\ ResolveResult = "ok" /\ closes # << >> /\ Settled
        /\ DequeueClose(ResolvedParser, ResolvedOpen, closes) /\ eofRun' = eofRun
    BY DEF NextDequeue
  <1>2. eofRun
    BY <1>1 DEF CursorInv, StackMirror
  <1>3. ResolvedParser = p /\ ResolvedOpen = open
    BY <1>1, <1>2, Resolving
  <1>4. /\ open \in Seq(OpenMaster) /\ closes \in Seq([id : ElementID, end : Nat]) /\ p.pos \in Nat
        /\ p.stack = << >> /\ ClosesAll(closes, open)
    BY <1>1, <1>2 DEF CursorInv, StackMirror, TypeOK, ParserState
  <1> DEFINE zero == 0
             pos == p.pos
             st == p.stack
  <1>5. /\ StandsAt(events, pos, st, Len(open), zero)
        /\ \A c \in 1..Len(closes) : closes[c].end = pos
    BY <1>1, <1>2, ResolvedStands
  <1>6. Len(st) \in Nat
    BY <1>4, EmptySeq
  <1>7. zero = 0
    OBVIOUS
  <1>8. p.pos = pos /\ pos \in Nat
    BY <1>4
  <1>9. DequeueClose(p, open, closes) /\ eofRun'
    BY <1>1, <1>2, <1>3
  <1> HIDE DEF zero, pos, st
  <1> QED BY <1>1, <1>4, <1>5, <1>6, <1>7, <1>8, <1>9, DequeuePlaces

LEMMA NextNeedsMorePlaces ==
  ASSUME CursorInv, [Next]_vars, PlacesInv, ~Ended, NextNeedsMore
  PROVE  PlacesInv'
  <1> DEFINE q == ResolvedParser
             pos == q.pos
             st == q.stack
             n == Len(ResolvedOpen)
  <1>1. /\ err = "none" /\ ResolveResult = "ok" /\ closes = << >> /\ ~finalized
        /\ p' = q /\ open' = ResolvedOpen /\ pending' = "none" /\ UNCHANGED <<closes, eofRun, events>>
    BY DEF NextNeedsMore, Settled
  <1>2. ~eofRun
    BY <1>1 DEF CursorInv, EOFRunDrained
  <1>3. StandsAt(events, pos, st, n, n)
    BY <1>1, <1>2, ResolvedStands
  <1>4. n = IF eofRun' THEN 0 ELSE n
    BY <1>1, <1>2
  <1>5. p'.pos = pos /\ p'.stack = st /\ Len(open') = n
    BY <1>1
  <1>6. Len(closes') = 0 /\ \A c \in 1..0 : FALSE
    BY <1>1, EmptySeq
  <1>7. \A c \in 1..Len(closes') : closes'[c].end = pos
    BY <1>6
  <1> HIDE DEF q, pos, st, n
  <1> QED BY <1>1, <1>3, <1>4, <1>5, <1>7, RestPlaces

\* The closing that Finalize or a Next does leaves nothing open, or a master to report.
LEMMA NextRunsEOFPlaces ==
  ASSUME CursorInv, [Next]_vars, PlacesInv, ~Ended, NextRunsEOF
  PROVE  PlacesInv'
  <1> DEFINE q == ResolvedParser
             r == FinalizeEOFResult(doc, q)
             cs == ClosedMasters(q)
  <1>1. /\ err = "none" /\ ResolveResult = "ok" /\ PeekResult(doc, q) = "NeedMoreData"
        /\ ~eofRun /\ eofRun' = TRUE /\ Settled
    BY DEF NextRunsEOF
  <1>2. CASE r # "ok"
    BY <1>2, ReasonsAreGiven, FailureIsLast, LastPlaces DEF NextRunsEOF
  <1>3. CASE r = "ok" /\ cs = << >>
    <2>1. ReportsLast
      BY <1>3 DEF NextRunsEOF, Outcome, ReportsLast
    <2> QED BY <2>1, LastPlaces
  <1>4. CASE r = "ok" /\ cs # << >>
    <2> DEFINE zero == 0
               pos == q.pos
               n == Len(ResolvedOpen)
               q2 == FinalizeEOF(q)
               st == q2.stack
    <2>1. q2.stack = << >> /\ q2.pos = pos /\ Len(st) \in Nat
      BY EmptySeq DEF FinalizeEOF, At
    <2>2. DequeueClose(q2, ResolvedOpen, cs)
      BY <1>4 DEF NextRunsEOF
    <2>3. zero = 0
      OBVIOUS
    <2> HIDE DEF zero
    <2>4. /\ pos \in Nat
          /\ \A s : s = << >> => StandsAt(events, pos, s, n, zero)
          /\ cs \in Seq([id : ElementID, end : Nat])
          /\ ClosesAll(cs, ResolvedOpen)
          /\ \A c \in 1..Len(cs) : cs[c].end = pos
      BY <1>1, <1>4, <2>3, OutOfInputStands
    <2>5. ResolvedOpen \in Seq(OpenMaster)
      BY <1>1, ResolvedStands
    <2>6. StandsAt(events, pos, st, n, zero)
      BY <2>1, <2>4
    <2> HIDE DEF pos, q2, st, cs
    <2> QED BY <1>1, <1>4, <2>1, <2>2, <2>3, <2>4, <2>5, <2>6, DequeuePlaces
  <1> QED BY <1>2, <1>3, <1>4

LEMMA FinalizePlaces ==
  ASSUME CursorInv, [Next]_vars, PlacesInv, ~Ended, Finalize
  PROVE  PlacesInv'
  <1> DEFINE blocked == ResolveResult = "NeedMoreData"
             q == IF blocked THEN p ELSE ResolvedParser
             peek == PeekResult(doc, q)
             r == FinalizeEOFResult(doc, q)
             n == Len(ResolvedOpen)
             pos == ResolvedParser.pos
  <1>1. err = "none" /\ ~finalized /\ ~eofRun /\ closes = << >>
    BY DEF Finalize, CursorInv, EOFRunDrained, StackMirror
  <1>2. peek # "none" /\ r # "none"
    BY ReasonsAreGiven
  <1>3. CASE ResolveResult \notin {"ok", "NeedMoreData"}
    BY <1>3, ResolvingHasReasons, FailureIsLast, LastPlaces DEF Finalize
  <1>4. CASE blocked
    <2>1. ShortPayload(p)
      BY <1>1, <1>4, Resolving
    <2>2. r # "ok"
      BY <1>4, <2>1 DEF FinalizeEOFResult
    <2>3. Fail(r)
      BY <1>4, <2>2 DEF Finalize
    <2> QED BY <1>2, <2>3, FailureIsLast, LastPlaces
  <1>5. CASE ResolveResult = "ok" /\ peek \notin {"ok", "EndMaster", "NeedMoreData"}
    <2>1. Fail(peek)
      BY <1>5 DEF Finalize
    <2> QED BY <1>2, <2>1, FailureIsLast, LastPlaces
  <1>6. CASE ResolveResult = "ok" /\ peek \in {"ok", "EndMaster"}
    <2> DEFINE st == ResolvedParser.stack
    <2>1. /\ p' = ResolvedParser /\ open' = ResolvedOpen /\ pending' = "none"
          /\ UNCHANGED <<closes, eofRun, err, events>>
      BY <1>6 DEF Finalize, Settled
    <2>2. StandsAt(events, pos, st, n, n)
      BY <1>1, <1>6, ResolvedStands
    <2>3. n = IF eofRun' THEN 0 ELSE n
      BY <1>1, <2>1
    <2>4. Len(closes') = 0 /\ \A c \in 1..0 : FALSE
      BY <1>1, <2>1, EmptySeq
    <2>5. \A c \in 1..Len(closes') : closes'[c].end = pos
      BY <2>4
    <2>6. p'.pos = pos /\ p'.stack = st /\ Len(open') = n
      BY <2>1
    <2> HIDE DEF pos, st, n
    <2> QED BY <2>1, <2>2, <2>3, <2>5, <2>6, RestPlaces
  <1>7. CASE ResolveResult = "ok" /\ peek = "NeedMoreData" /\ r # "ok"
    <2>1. Fail(r)
      BY <1>7 DEF Finalize
    <2> QED BY <1>2, <2>1, FailureIsLast, LastPlaces
  <1>8. CASE ResolveResult = "ok" /\ peek = "NeedMoreData" /\ r = "ok"
    <2> DEFINE zero == 0
               st == p'.stack
               m == Len(open')
    <2>1. /\ p' = FinalizeEOF(ResolvedParser) /\ open' = ResolvedOpen /\ pending' = "none"
          /\ closes' = ClosedMasters(ResolvedParser) /\ eofRun' = TRUE /\ events' = events
      BY <1>8 DEF Finalize, Settled
    <2>2. p'.pos = pos /\ st = << >>
      BY <2>1 DEF FinalizeEOF, At
    <2>3. zero = 0
      OBVIOUS
    <2> HIDE DEF zero
    <2>4. /\ \A s : s = << >> => StandsAt(events, pos, s, n, zero)
          /\ \A c \in 1..Len(ClosedMasters(ResolvedParser)) : ClosedMasters(ResolvedParser)[c].end = pos
      BY <1>1, <1>8, <2>3, OutOfInputStands
    <2>5. StandsAt(events, pos, st, n, zero)
      BY <2>2, <2>4
    <2>6. \A c \in 1..Len(closes') : closes'[c].end = pos
      BY <2>1, <2>4
    <2>7. zero = IF eofRun' THEN 0 ELSE n
      BY <2>1, <2>3
    <2>8. Len(open') = n /\ p'.stack = st
      BY <2>1
    <2> HIDE DEF pos, st, n
    <2> QED BY <2>1, <2>2, <2>5, <2>6, <2>7, <2>8, RestPlaces
  <1> QED BY <1>3, <1>4, <1>5, <1>6, <1>7, <1>8

LEMMA PlacesNext ==
  ASSUME CursorInv, [Next]_vars, PlacesInv
  PROVE  PlacesInv'
  <1>1. CASE Ended
    <2>1. Ended' /\ events' = events
      BY <1>1, EndedStays
    <2> QED BY <2>1 DEF PlacesInv
  <1>2. CASE ~Ended /\ (NextAgain \/ NextResolveBlocked)
    <2>1. UNCHANGED <<p, open, pending, decision, closes, eofRun, err, events>>
      BY <1>2 DEF NextAgain, NextResolveBlocked
    <2>2. Rooms' = Rooms /\ Due' = Due
      BY <2>1 DEF Rooms, Due
    <2>3. Depths' = Depths
      BY <2>1, <2>2 DEF Depths
    <2>4. Waiting' = Waiting
      BY <2>1 DEF Waiting, Node, Top
    <2>5. StandsNow'
      BY <1>2, <2>1, <2>2, <2>3, <2>4 DEF StandsNow, PlacesInv
    <2> QED BY <2>1, <2>5 DEF PlacesInv
  <1>3. CASE ~Ended /\ FeedAfterFinalize
    <2>1. Ended' /\ events' = events
      BY <1>3 DEF FeedAfterFinalize, Ended
    <2> QED BY <2>1 DEF PlacesInv
  <1>4. CASE ~Ended /\ (NextResolveFails \/ NextEOF \/ NextMalformed)
    <2>1. ReportsLast
      BY <1>4, ResolvingHasReasons, ReasonsAreGiven, FailureIsLast
         DEF NextResolveFails, NextEOF, NextMalformed, Outcome, ReportsLast
    <2> QED BY <1>4, <2>1, LastPlaces
  <1> QED BY <1>1, <1>2, <1>3, <1>4, DecidePlaces, NextDequeuePlaces, NextNeedsMorePlaces, NextRunsEOFPlaces,
             NextEndPlaces, NextHeaderPlaces, FinalizePlaces DEF Next, Consume, CursorNext

-----------------------------------------------------------------------------
(* A returned scope ends where its master does.                            *)

LEMMA MinIs ==
  ASSUME NEW S \in SUBSET Nat, S # {}
  PROVE  Min(S) \in S /\ \A y \in S : Min(S) <= y
  <1>1. \E x \in S : \A y \in S : x <= y
    BY LeastOf
  <1> QED BY <1>1 DEF Min

\* Only nodes were shown.
SeenAreNodes == \A j \in seen : IsNode(events[j])

EndingInv == FollowInv /\ PlacesInv /\ SeenAreNodes

LEMMA EndingInit == ScopeInit => EndingInv
  <1> SUFFICES ASSUME ScopeInit PROVE EndingInv
    OBVIOUS
  <1>1. Init /\ seen = {}
    BY DEF ScopeInit
  <1> QED BY <1>1, FollowInit, PlacesInit DEF EndingInv, SeenAreNodes

LEMMA EndingNext == EndingInv /\ [ScopeNext]_scopeVars => EndingInv'
  <1> SUFFICES ASSUME EndingInv, [ScopeNext]_scopeVars PROVE EndingInv'
    OBVIOUS
  <1>1. FollowInv /\ ReportsNest /\ CursorInv /\ PlacesInv /\ SeenAreNodes
    BY DEF EndingInv, FollowInv, TrackerInv
  <1>2. FollowInv'
    BY <1>1, FollowNext
  <1>3. [Next]_vars
    BY DEF ScopeNext, Observe, ObserveMaster, ObserveLeaf, ObserveLeafFails, ObserveEnd, Finish,
           Next, Consume, scopeVars, vars
  <1>4. PlacesInv'
    BY <1>1, <1>3, PlacesNext
  <1>5. events \in Seq(Event) /\ Len(events) \in Nat /\ seen \subseteq 1..Len(events)
    <2>1. events \in Seq(Event) /\ seen \subseteq DOMAIN events
      BY <1>1 DEF CursorInv, TypeOK, EndingInv, FollowInv, TrackerInv
    <2> QED BY <2>1, EventFacts
  <1>6. \A j \in 1..Len(events) : events'[j] = events[j]
    <2>1. events' = events \/ \E e \in Event : events' = Append(events, e)
      BY <1>1, <1>3, ReportsNestNext
    <2>2. ASSUME NEW e \in Event, events' = Append(events, e)
          PROVE  \A j \in 1..Len(events) : events'[j] = events[j]
      BY <1>5, <2>2, OneMore
    <2> QED BY <2>1, <2>2
  <1>7. SeenAreNodes'
    <2>1. CASE seen' = seen
      BY <1>1, <1>5, <1>6, <2>1 DEF SeenAreNodes
    <2>2. CASE ObserveMaster \/ ObserveLeaf \/ ObserveEnd
      <3>1. held \in {"master", "leaf", "end"} /\ seen' = seen \cup {Len(events)} /\ events' = events
        BY <2>2 DEF ObserveMaster, ObserveLeaf, ObserveEnd, Seeing, Payload, vars
      <3>2. IsNode(events[Len(events)])
        BY <1>1, <3>1 DEF ReportsNest, Node, Top, IsNode
      <3> QED BY <1>1, <3>1, <3>2 DEF SeenAreNodes
    <2> QED BY <2>1, <2>2 DEF ScopeNext, Observe, ObserveLeafFails, Finish, tracker, scopeVars
  <1> QED BY <1>2, <1>4, <1>7 DEF EndingInv

LEMMA EndsAreExact == EndingInv => EndIsExact
  <1> SUFFICES ASSUME EndingInv, NEW s \in DOMAIN done
               PROVE  LET i      == Openings(events, seen)[s]
                          first  == Min(Outside(events, i))
                          inside == (i + 1)..(first - 1)
                      IN IF Closers(events, seen, i) = {} THEN done[s].end = -1 /\ Ended
                         ELSE first \in seen =>
                                /\ \A j \in inside : events[j].end <= done[s].end
                                /\ events[i].size # UnknownSize
                                   /\ (\A j \in inside : events[j].end <= events[i].end) =>
                                     done[s].end = events[i].end
    BY DEF EndIsExact
  <1> DEFINE ops == Openings(events, seen)
             i == ops[s]
             cl == Closers(events, seen, i)
             outer == Outside(events, i)
             first == Min(outer)
             L == Len(events)
  <1>1. /\ WellNested(events) /\ IsSequence(done) /\ Returns(events, seen, ops, done)
        /\ stack = << >> => Len(ops) = Len(done)
        /\ stack # << >> => \E c : InScope(events, seen, c, stack, done)
        /\ stack = << >> => Unclosed(events, seen) = {} \/ Silent
        /\ PlacesInv /\ SeenAreNodes
    BY DEF EndingInv, FollowInv, TrackerInv, ReportsNest, Tracks
  <1>2. /\ Record(events, seen) /\ L \in Nat /\ DOMAIN events = 1..L /\ seen \subseteq 1..L
        /\ \A j \in 1..L : events[j].depth \in Nat
    <2>1. DOMAIN events = 1..L /\ L \in Nat /\ \A j \in 1..L : events[j].depth \in Nat
      BY <1>1, EventFacts DEF WellNested
    <2>2. seen \subseteq 1..L
      BY <2>1 DEF EndingInv, FollowInv, TrackerInv
    <2> QED BY <1>1, <2>1, <2>2 DEF Record
  <1>3. s \in 1..Len(done) /\ Len(done) \in Nat
    BY <1>1, ElementsOfSequence
  <1>4. s \in 1..Len(ops)
    <2>1. Len(ops) \in Nat
      BY <1>2, OpeningFacts
    <2> QED BY <1>1, <1>3, <2>1 DEF InScope
  <1>5. i \in 1..L /\ i \in TrackedIn(events, seen) /\ Returned(events, seen, i, done[s])
    BY <1>1, <1>2, <1>3, <1>4, OpeningFacts DEF Returns
  <1>6. events[i].ev = "master"
    BY <1>5 DEF TrackedIn
  <1>7. ASSUME cl = {} PROVE done[s].end = -1 /\ Ended
    <2>1. stack = << >>
      BY <1>1, <1>2, <1>3, <1>7, EarlierAreClosed
    <2>2. i \in Unclosed(events, seen)
      BY <1>5, <1>7 DEF Unclosed
    <2> QED BY <1>1, <1>5, <1>7, <2>1, <2>2 DEF Returned, Silent
  <1>8. ASSUME cl # {}, first \in seen
        PROVE  EndsHere(events, i, first - 1, done[s].end) /\ i < first
    <2>1. cl \subseteq outer /\ outer \in SUBSET Nat /\ cl \in SUBSET Nat
      <3>1. \A k \in seen : IsElement(events[k]) \/ events[k].ev = "end"
        BY <1>1 DEF SeenAreNodes, IsNode, IsElement
      <3>2. seen \subseteq DOMAIN events /\ DOMAIN events \subseteq Nat
        BY <1>2
      <3>3. cl \subseteq outer /\ outer \subseteq DOMAIN events
        BY <3>1, <3>2 DEF Closers, Outside
      <3> HIDE DEF cl, outer
      <3> QED BY <3>2, <3>3
    <2>2. first \in outer /\ \A k \in outer : first <= k
      BY <1>8, <2>1, MinIs
    <2>3. Min(cl) \in cl /\ \A k \in cl : Min(cl) <= k
      BY <1>8, <2>1, MinIs
    <2>4. first \in cl
      BY <1>8, <2>2 DEF Closers, Outside
    <2>5. Min(cl) = first
      <3>1. Min(cl) \in Nat /\ first \in Nat /\ Min(cl) <= first /\ first <= Min(cl)
        BY <2>1, <2>2, <2>3, <2>4
      <3> QED BY <3>1
    <2>6. done[s].end = PosOf(events[first])
      BY <1>5, <1>8, <2>5 DEF Returned
    <2>7. first \in 1..L /\ i < first /\ events[first].depth <= events[i].depth /\ IsNode(events[first])
      BY <1>2, <2>2 DEF Outside, IsNode, IsElement
    <2> HIDE DEF first, outer, cl
    <2>8. ASSUME NEW k \in (i + 1)..(first - 1) PROVE events[k].depth > events[i].depth
      <3> SUFFICES ASSUME events[k].depth <= events[i].depth PROVE FALSE
        BY <1>2, <1>5, <2>7
      <3>1. k \in 1..(L - 1) /\ k \in 1..L /\ k > i /\ k < first
        BY <1>2, <1>5, <2>7
      <3>2. IsNode(events[k])
        BY <1>1, <3>1 DEF PlacesInv
      <3>3. k \in outer
        BY <1>2, <3>1, <3>2 DEF outer, Outside, IsNode, IsElement
      <3> QED BY <2>2, <2>7, <3>1, <3>3
    <2>9. ClosedBy(events, i, first)
      BY <1>6, <2>7, <2>8 DEF ClosedBy
    <2>10. EndsHere(events, i, first - 1, PosOf(events[first]))
      BY <1>1, <1>5, <2>7, <2>9 DEF PlacesInv, EndsSay
    <2> QED BY <2>6, <2>7, <2>10
  <1>9. events[i].size # UnknownSize => events[i].end # UnknownSize
    BY <1>1, <1>5, <1>6 DEF PlacesInv, SizesSay
  <1> QED BY <1>7, <1>8, <1>9 DEF EndsHere

\* The tracker's stack describes the scope it is in, and a scope it returned ends where
\* its master does, if the first node outside the master was shown, and has no end only
\* if the input ran out.
THEOREM ScopesEndWhereTheirMastersDo == ScopeSpec => []ScopeInv
  <1>1. ScopeInit => EndingInv
    BY EndingInit
  <1>2. EndingInv /\ [ScopeNext]_scopeVars => EndingInv'
    BY EndingNext
  <1>3. EndingInv => EndIsExact
    BY EndsAreExact
  <1>4. ScopeSpec => []ScopeTypeOK
    BY ScopeIsOfItsMasters
  <1>5. EndIsExact /\ ScopeTypeOK => ScopeInv
    BY DEF ScopeInv
  <1> QED BY <1>1, <1>2, <1>3, <1>4, <1>5, PTL DEF ScopeSpec

=============================================================================
