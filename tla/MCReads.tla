------------------------------- MODULE MCReads -------------------------------
(* An instance of Reads for TLC: two ponds, each on a farm of its own.     *)
EXTENDS Reads

CONSTANTS q1, q2, s1, s2
TheSites == [p \in {q1, q2} |-> IF p = q1 THEN s1 ELSE s2]
=============================================================================
