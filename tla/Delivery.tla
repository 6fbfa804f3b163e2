------------------------------ MODULE Delivery ------------------------------
(***************************************************************************)
(* What a pull-style iteration over assembled fragments promises: its        *)
(* consumer asks, and is given the next of the items the layer below has     *)
(* made, in the order they were made, each of them once; the verdict comes   *)
(* only when nothing made is left to give, and it is the last word.          *)
(*                                                                         *)
(* Reader.Fragments (ext/fragment/reader.go) implements it: the refinement   *)
(* mapping is in FragmentReader, its proof in FragmentReader_proofs.         *)
(***************************************************************************)
EXTENDS Naturals, Sequences

CONSTANTS
  Verdict   \* how an iteration ends: "EOF" and the failures, NoVerdict not among them

NoVerdict == "none"

VARIABLES
  made,     \* every item made so far, in the order made
  given,    \* the items the consumer was given
  wanted,   \* the consumer has asked and has no answer yet
  verdict   \* how the iteration ended, NoVerdict while it has not

deliveryVars == <<made, given, wanted, verdict>>

Init == made = << >> /\ given = << >> /\ wanted = FALSE /\ verdict = NoVerdict

\* The consumer pulls.
Want ==
  /\ ~wanted /\ wanted' = TRUE
  /\ UNCHANGED <<made, given, verdict>>

\* The layer below makes more items.  It is driven by the pull: nothing is made
\* for a consumer that did not ask, nor after the verdict.
Make ==
  /\ wanted /\ verdict = NoVerdict
  /\ Len(made) < Len(made') /\ made = SubSeq(made', 1, Len(made))
  /\ UNCHANGED <<given, wanted, verdict>>

\* The next item is given.
Give ==
  /\ wanted /\ verdict = NoVerdict
  /\ Len(given) < Len(made)
  /\ given' = Append(given, made[Len(given) + 1])
  /\ wanted' = FALSE
  /\ UNCHANGED <<made, verdict>>

\* The verdict: the first one after everything made was given, and the same one
\* however often the consumer asks again.
End ==
  /\ wanted /\ given = made
  /\ verdict' \in Verdict
  /\ verdict # NoVerdict => verdict' = verdict
  /\ wanted' = FALSE
  /\ UNCHANGED <<made, given>>

Next == Want \/ Make \/ Give \/ End

Spec == Init /\ [][Next]_deliveryVars

-----------------------------------------------------------------------------

\* What the consumer has is the beginning of what was made, and all of it once the
\* iteration has ended.
InOrder ==
  /\ Len(given) <= Len(made) /\ given = SubSeq(made, 1, Len(given))
  /\ verdict # NoVerdict => given = made

=============================================================================
