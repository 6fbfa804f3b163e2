----------------------------- MODULE MCElements -----------------------------
(* What Tree does to elements, and the registries that name and type them;    *)
(* one of the two is at work in each behaviour.                              *)
EXTENDS MCTree, MCRegistry

VARIABLE side   \* "tree" or "registry"

elementsVars == <<side, vars, regVars>>

ElementsInit ==
  /\ side \in {"tree", "registry"}
  /\ Init /\ RegInit
  \* A tree that is not at work has one initial state.
  /\ side = "registry" =>
       doc = (CHOOSE d \in DOMAIN Documents : TRUE) /\ cap = -1

ElementsNext ==
  \/ /\ side = "tree" /\ Next
     /\ UNCHANGED <<side, regVars>>
  \/ /\ side = "registry" /\ RegNext
     /\ UNCHANGED <<side, vars>>

ElementsSpec == ElementsInit /\ [][ElementsNext]_elementsVars

=============================================================================
