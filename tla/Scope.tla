------------------------------- MODULE Scope -------------------------------
(***************************************************************************)
(* ext/scope/scope.go: a Tracker retains the children of one master as a    *)
(* caller shows it nodes.  The tracker drives nothing: the caller runs the  *)
(* cursor and chooses which of the nodes reported to it the tracker sees,   *)
(* so masters are closed by the depth of the next node seen, whichever it   *)
(* is.  The payload of a leaf is resolved through the cursor it came from.  *)
(***************************************************************************)
EXTENDS Cursor, Order, SequencesExt

CONSTANT Tracked     \* the ID of the master followed

ASSUME TrackedAssumption == Tracked \in ElementID

VARIABLES
  stack,      \* the masters open in the scope, the tracked one first: openElement
  current,    \* the open scope, NoScope when there is none
  \* History.
  done,       \* the scopes returned, in order
  seen        \* the indices in events of the nodes observed

tracker   == <<stack, current, done, seen>>
scopeVars == <<vars, stack, current, done, seen>>

NoScope == [start |-> -1, end |-> -1, children |-> << >>]

NewScope(node) == [start |-> node.offset, end |-> -1, children |-> << >>]

Opened == current # NoScope

ScopeInit == Init /\ stack = << >> /\ current = NoScope /\ done = << >> /\ seen = {}

-----------------------------------------------------------------------------
(* unwind and closeTop.                                                    *)

\* tree.FromNode: identity and extent, nothing linked yet.
FromNode(node) == [id |-> node.id, offset |-> node.offset, children |-> << >>]

AppendChild(el, child) == [el EXCEPT !.children = Append(@, child)]

\* The element of each open master once all that is open inside it has closed.
Closing(st) ==
  LET closing[i \in 1..Len(st)] ==
        IF i = Len(st) THEN st[i].element ELSE AppendChild(st[i].element, closing[i + 1])
  IN closing

\* How many of the open masters enclose a node at depth.
Enclosing(st, depth) == Cardinality({i \in DOMAIN st : st[i].depth < depth})

\* What stays open when a node at depth is seen, the innermost with its new child.
UnwoundStack(st, depth) ==
  LET k == Enclosing(st, depth)
  IN IF k = Len(st) \/ k = 0 THEN SubSeq(st, 1, k)
     ELSE [SubSeq(st, 1, k) EXCEPT ![k].element = AppendChild(@, Closing(st)[k + 1])]

\* The scope, which gains the child of the tracked master that closes, if one does.
UnwoundScope(st, scope, depth) ==
  IF Len(st) > 1 /\ Enclosing(st, depth) <= 1
  THEN [scope EXCEPT !.children = Append(@, Closing(st)[2])]
  ELSE scope

\* Mutant: a scope that closes with a child still open loses the child.
UnwoundDropsOpenChild(depth, end) ==
  IF Opened /\ Enclosing(stack, depth) = 0
  THEN [stack |-> << >>, scope |-> NoScope, done |-> Append(done, [current EXCEPT !.end = end])]
  ELSE [stack |-> UnwoundStack(stack, depth), scope |-> UnwoundScope(stack, current, depth),
        done |-> done]

\* Mutant: the scope ends where its last open master began.
UnwoundEndsEarly(depth, end) ==
  IF Opened /\ Enclosing(stack, depth) = 0
  THEN [stack |-> << >>, scope |-> NoScope,
        done  |-> Append(done, [UnwoundScope(stack, current, depth) EXCEPT
                                  !.end = IF end = -1 THEN -1 ELSE Top(stack).element.offset])]
  ELSE [stack |-> UnwoundStack(stack, depth), scope |-> UnwoundScope(stack, current, depth),
        done |-> done]

\* unwind: every open master at depth or deeper closes at the offset end, and the
\* tracked one takes the scope with it.
Unwound(depth, end) ==
  LET scope == UnwoundScope(stack, current, depth)
  IN IF Opened /\ Enclosing(stack, depth) = 0
     THEN [stack |-> << >>, scope |-> NoScope, done |-> Append(done, [scope EXCEPT !.end = end])]
     ELSE [stack |-> UnwoundStack(stack, depth), scope |-> scope, done |-> done]

-----------------------------------------------------------------------------
(* Observe, of the node the cursor reported last.                          *)

Node == Top(events)

\* The master that the i-th node reported stands in, 0 at the top level.
ParentOf(evs, i) ==
  Max({0} \cup {k \in 1..(i - 1) : evs[k].ev = "master" /\ evs[k].depth = evs[i].depth - 1})

\* A caller that shows the tracker a node inside the scope has shown it the
\* master the node stands in.
ParentSeen ==
  Opened /\ Node.depth > stack[1].depth => ParentOf(events, Len(events)) \in seen

Seeing == Len(events) \notin seen /\ seen' = seen \cup {Len(events)}

\* Outside a scope only the tracked master counts: it opens one.
ObserveMaster ==
  LET u == Unwound(Node.depth, Node.offset)
      opens == [element |-> FromNode(Node), depth |-> Node.depth]
  IN /\ held = "master" /\ Seeing
     /\ UNCHANGED vars
     /\ done' = u.done
     /\ IF u.scope # NoScope
        THEN stack' = Append(u.stack, opens) /\ current' = u.scope
        ELSE IF Node.id = Tracked
        THEN stack' = <<opens>> /\ current' = NewScope(Node)
        ELSE stack' = << >> /\ current' = NoScope

\* The leaf's payload is taken, and the leaf becomes a child of the innermost
\* open master.
ObserveLeaf ==
  LET u == Unwound(Node.depth, Node.offset)
  IN /\ held = "leaf" /\ Seeing
     /\ Payload
     /\ done' = u.done
     /\ IF u.scope = NoScope
        THEN stack' = << >> /\ current' = NoScope
        ELSE /\ stack' = [u.stack EXCEPT ![Len(u.stack)].element = AppendChild(@, FromNode(Node))]
             /\ current' = IF Len(u.stack) = 1
                           THEN [u.scope EXCEPT !.children = Append(@, FromNode(Node))]
                           ELSE u.scope

NoPayload == decision # "none" \/ PayloadResult(p) # "ok"

\* Mutant: the tracker has moved on before the payload turns out not to be there,
\* and the scope it would have returned goes with the error.
ObserveLeafFailsLate ==
  LET u == Unwound(Node.depth, Node.offset)
  IN /\ held = "leaf" /\ Len(events) \notin seen
     /\ NoPayload
     /\ stack' = u.stack /\ current' = u.scope
     /\ UNCHANGED <<vars, done, seen>>

\* The payload is not there yet, or the leaf was decided on: an error, and nothing
\* is recorded, so the leaf may be shown again.
ObserveLeafFails ==
  /\ held = "leaf" /\ Len(events) \notin seen
  /\ NoPayload
  /\ UNCHANGED scopeVars

\* The end of a master closes what is open inside it and then the master itself,
\* if it was shown.
ObserveEnd ==
  LET u == Unwound(Node.depth, Node.end)
  IN /\ held = "end" /\ Seeing
     /\ UNCHANGED vars
     /\ stack' = u.stack /\ current' = u.scope /\ done' = u.done

Observe == ObserveMaster \/ ObserveLeaf \/ ObserveLeafFails \/ ObserveEnd

\* Finish, at the end of the input: what is still open is returned without an end.
Finish ==
  LET u == Unwound(0, -1)
  IN /\ Ended /\ held = "none" /\ Opened
     /\ stack' = u.stack /\ current' = u.scope /\ done' = u.done
     /\ UNCHANGED <<vars, seen>>

-----------------------------------------------------------------------------

ScopeNext ==
  \/ Next /\ UNCHANGED tracker
  \/ ParentSeen /\ Observe
  \/ Finish

\* The caller that shows its tracker whatever it likes.
CarelessNext ==
  \/ Next /\ UNCHANGED tracker
  \/ Observe
  \/ Finish

ScopeSpec    == ScopeInit /\ [][ScopeNext]_scopeVars
CarelessSpec == ScopeInit /\ [][CarelessNext]_scopeVars

-----------------------------------------------------------------------------

\* A scope and its stack come and go together, the tracked master lowest and each
\* master deeper than the one that holds it; and the scope's children are the
\* children of the tracked master's element, which are recorded separately.
ScopeTypeOK ==
  /\ Opened <=> stack # << >>
  /\ \A i \in 1..(Len(stack) - 1) : stack[i].depth < stack[i + 1].depth
  /\ Opened => /\ stack[1].element.id = Tracked
               /\ stack[1].element.offset = current.start
               /\ stack[1].element.children = current.children
  /\ seen \subseteq DOMAIN events

-----------------------------------------------------------------------------
(* What the nodes shown, of those in the list evs, say of the elements.     *)

IsElement(e) == e.ev \in {"master", "leaf"}

\* The nodes after i that say its element is over, shown ones only.
Closers(evs, shown, i) == {j \in shown : j > i /\ evs[j].depth <= evs[i].depth}

\* The elements shown directly inside the master i.
Members(evs, shown, i) ==
  {j \in shown : /\ j > i /\ IsElement(evs[j]) /\ ParentOf(evs, j) = i
                 /\ \A k \in Closers(evs, shown, i) : k > j}

\* The element i with everything shown inside it.
ShownElement(evs, shown) ==
  LET element[i \in DOMAIN evs] ==
        LET inside == InOrder(Members(evs, shown, i))
        IN [id |-> evs[i].id, offset |-> evs[i].offset,
            children |-> [c \in DOMAIN inside |-> element[inside[c]]]]
  IN element

\* The tracked masters shown that open a scope: those shown inside no other.
Openings(evs, shown) ==
  LET tracked == {i \in shown : evs[i].ev = "master" /\ evs[i].id = Tracked}
  IN InOrder({i \in tracked : \A k \in tracked :
                k < i => \E c \in Closers(evs, shown, k) : c <= i})

\* A scope's children: the elements directly inside that are over, all of them
\* when the input is.
CompleteChildren(evs, shown, over, i) ==
  LET inside == InOrder({j \in Members(evs, shown, i) :
                           over \/ evs[j].ev = "leaf" \/ Closers(evs, shown, j) # {}})
  IN [c \in DOMAIN inside |-> ShownElement(evs, shown)[inside[c]]]

\* Every tracked master shown becomes one scope, returned once and in the order of
\* the stream, and its children are those of the nodes shown that stand directly
\* inside the master, each with what was shown inside it, however much was
\* skipped, left out, or shown again after an error.
ScopesAreWhatWasSeen ==
  LET all    == IF Opened THEN Append(done, current) ELSE done
      opened == Openings(events, seen)
  IN /\ Len(all) = Len(opened)
     /\ \A s \in DOMAIN all :
          /\ all[s].start = events[opened[s]].offset
          /\ all[s].children = CompleteChildren(events, seen, Ended /\ ~Opened, opened[s])

\* The nodes at which the master i is seen to be over, shown or not.
Outside(evs, i) ==
  {j \in DOMAIN evs : j > i /\ evs[j].depth <= evs[i].depth /\ (IsElement(evs[j]) \/ evs[j].ev = "end")}

\* A returned scope ends where its master does, when the first node outside the
\* master was shown: no element inside reaches past it, and if none reaches past the
\* end the header declared it is that end.  It has no end only if the input ran out.
EndIsExact ==
  \A s \in DOMAIN done :
    LET i      == Openings(events, seen)[s]
        first  == Min(Outside(events, i))
        inside == (i + 1)..(first - 1)
    IN IF Closers(events, seen, i) = {} THEN done[s].end = -1 /\ Ended
       ELSE first \in seen =>
              /\ \A j \in inside : events[j].end <= done[s].end
              /\ events[i].size # UnknownSize /\ (\A j \in inside : events[j].end <= events[i].end) =>
                   done[s].end = events[i].end

\* The tracker's stack describes the scope it is in, and the scopes it returned
\* end where their masters do.
ScopeInv == ScopeTypeOK /\ EndIsExact

\* What layer-boundaries.md says of every scope, whatever the caller shows the
\* tracker: a descendant of the master is never one of the scope's children.
\* The model refutes it (README, section 7).
NoDescendantAmongChildren ==
  \A s \in ToSet(done) \cup {current} : \A c \in ToSet(s.children) :
    \E i, j \in DOMAIN events : /\ events[i].ev = "master" /\ events[i].offset = s.start
                               /\ IsElement(events[j]) /\ events[j].offset = c.offset
                               /\ ParentOf(events, j) = i

=============================================================================
