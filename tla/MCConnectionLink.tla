--------------------------- MODULE MCConnectionLink ---------------------------
(***************************************************************************)
(* Values of the constants of ConnectionLink for TLC.                      *)
(***************************************************************************)
EXTENDS ConnectionLink

CONSTANTS n1, k1, x1, x2, x3, i1

MCIdOf == [n \in Server |-> i1]
===============================================================================
