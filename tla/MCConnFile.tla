------------------------------ MODULE MCConnFile ------------------------------
(* Two goroutines of one process and one of a second process that shares the *)
(* file, two lists to save.                                                  *)
EXTENDS ConnFile, TLC

CONSTANTS t1, t2, t3, sA, sB

MCServerOf == t1 :> sA @@ t2 :> sA @@ t3 :> sB

MCOneServer == t1 :> sA @@ t2 :> sA

\* The two goroutines of one process are interchangeable.
MCSymmetry == Permutations({t1, t2})
=============================================================================
