------------------------ MODULE MCWSConnectionServer ------------------------
(* Instances of WSConnectionServer for TLC. *)
EXTENDS WSConnectionServer, TLC

CONSTANTS c1, p1, p2, s1

\* A primary with ID 1, another with ID 2, and a slave; the slave's ID is also that of
\* a primary, as the two maps are separate.
MCKind(l) == IF l = s1 THEN "slave" ELSE "primary"
MCId(l) == IF l = p2 THEN 2 ELSE 1
MCLoginAs == [l \in Link |-> {<<MCKind(l), MCId(l)>>}]

\* Both primaries log in under the same ID: a reconnected server, or a second one.
MCSameLogin == [l \in Link |-> {<<"primary", 1>>}]

\* Any login.
MCAnyLogin == [l \in Link |-> Kind \X Id]

MCOnce == [l \in Link |-> 1]
MCTwice == [l \in Link |-> 2]
MCNever == [l \in Link |-> 0]

\* Orders: two of one server and one of the other.
MCOrders == [l \in Link |-> IF l = p1 THEN 2 ELSE 1]

\* A loop for each session, or one for the client and the slave.
MCOwnLoop == [s \in Client \cup Link |-> s]
MCSharedLoop == [s \in Client \cup Link |-> IF s = s1 THEN c1 ELSE s]
===============================================================================
