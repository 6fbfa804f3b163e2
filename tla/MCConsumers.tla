---------------------------- MODULE MCConsumers ----------------------------
(* Two consumers of a cursor, one at work in each behaviour: the tracker of   *)
(* Scope, and the command line.                                            *)
EXTENDS MCScope, CommandLine

VARIABLE consumer   \* "scope" or "command"

consumersVars == <<consumer, cliVars, tracker>>

\* For the command line also streams that fail: an element that overruns its master,
\* and a leaf of unknown size.
ConsumersDocs ==
  Docs @@ [ overruns |-> Doc(7, 0 :> H("Segment", 4) @@ 2 :> H("Tags", 2) @@ 4 :> H("Block", 3)),
            endless  |-> Doc(6, 0 :> H("Segment", -1) @@ 2 :> H("Block", -1)) ]

ConsumersInit ==
  /\ consumer \in {"scope", "command"}
  /\ CliInit /\ ScopeInit
  \* The one that is not at work has one initial state.
  /\ consumer = "scope" =>
       doc \in DOMAIN Docs /\ sourceEnd = Documents[doc].len /\ command = "dump" /\ showsHex

ConsumersNext ==
  \/ /\ consumer = "scope" /\ ScopeNext
     /\ UNCHANGED <<consumer, call, starved, drained, sourceEnd, hiccups, commandVars>>
  \/ /\ consumer = "command" /\ CliNext
     /\ UNCHANGED <<consumer, tracker>>

ConsumersSpec == ConsumersInit /\ [][ConsumersNext]_consumersVars

=============================================================================
