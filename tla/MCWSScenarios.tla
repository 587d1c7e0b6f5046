---------------------------- MODULE MCWSScenarios ----------------------------
(***************************************************************************)
(* Two scenarios of WSConnectionServer in one run of TLC, one for each     *)
(* behaviour: "traffic", in which each server logs in once, as what it is, *)
(* and clients and servers send; and "registry", in which the servers log  *)
(* in as anything and again, close, and nobody sends.                      *)
(***************************************************************************)
EXTENDS MCWSConnectionServer

VARIABLE scenario

MCInit == Init /\ scenario \in {"traffic", "registry"}

OwnLogin == \E l \in Link : logins[l] = 0 /\ LoginFind(l, MCKind(l), MCId(l))

Traffic == scenario = "traffic" /\ Next /\ (logins' = logins \/ OwnLogin)
Registry == scenario = "registry" /\ Next /\ UNCHANGED <<mRecvSerialID, orders>>

MCNext == (Traffic \/ Registry) /\ UNCHANGED scenario

MCSpec == MCInit /\ [][MCNext]_<<vars, scenario>>
===============================================================================
