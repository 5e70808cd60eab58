------------------------------- MODULE MCMedia -------------------------------
(* Instances of Media for TLC. *)
EXTENDS Media

CONSTANTS a, b1, m1, m2, t1, t2, w1
==============================================================================
