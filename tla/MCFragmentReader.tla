-------------------------- MODULE MCFragmentReader --------------------------
(* The streams of MCAssembler read from a source that ends or fails anywhere. *)
EXTENDS FragmentReader, MCAssembler

ThreeOptions == {Option(FALSE, FALSE, -1, {}), Option(FALSE, TRUE, 1, {"Tags", "Tag"}),
                 Option(TRUE, TRUE, -1, {})}

\* What the consumer gets is what the source holds: a prefix of it while the
\* source has not ended, all of it, with the input's own end or failure, after.
ReaderDelivers ==
  LET input == Held[doc][opts][IF closed THEN p.fed ELSE InputEnd]
  IN /\ IsPrefix(got, input.fragments)
     /\ reported \notin {"none", "Read"} =>
          /\ got = input.fragments
          /\ reported = IF input.why = "none" THEN "EOF" ELSE input.why

=============================================================================
