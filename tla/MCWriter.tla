----------------------------- MODULE MCWriter -----------------------------
(* Size VINTs of one and two bytes with two value bits in each hold sizes up to 2 and *)
(* up to 14: a small element outgrows a reserved width, or the largest size.          *)
EXTENDS WriterReference

MCElementID == {"a", "bad"}
MCIDWidth == [id \in MCElementID |-> 2]
=============================================================================
