----------------------------- MODULE MCCenterLink -----------------------------
(***************************************************************************)
(* Values of the constants of CenterLink for TLC.                          *)
(***************************************************************************)
EXTENDS CenterLink, TLC

CONSTANTS n1, n2, x1, x2, x3, i1

\* Two logic servers configured with the same ID.
MCIdOf == [n \in Server |-> i1]

\* Connections are interchangeable, and so are servers with one ID and one password.
\* Only the invariants are checked with this.
MCSymmetry == Permutations(Conn) \cup Permutations(Server)
===============================================================================
