--------------------------- MODULE MCNet2LogicQueue ---------------------------
(***************************************************************************)
(* Values of the constants of Net2LogicQueue for TLC.                      *)
(***************************************************************************)
EXTENDS Net2LogicQueue

CONSTANTS s1, s2, w1, w2

\* Two connections on two network threads.
MCWorkerOf == [s \in Session |-> IF s = s1 THEN w1 ELSE w2]

\* The first session sends two packets, the second none.
MCDataLimit == [s \in Session |-> IF s = s1 THEN 2 ELSE 0]
===============================================================================
