----------------------------- MODULE MCExpected -----------------------------
(* Three variables, so that an assignment between two can be told from a   *)
(* third, one unexpected_type, and two contents.                           *)
EXTENDS Expected
=============================================================================
