------------------------------ MODULE MCStream ------------------------------
(* The streams TLC reads: the documents of MCCursor, cut anywhere.         *)
EXTENDS Stream, MCCursor

=============================================================================
