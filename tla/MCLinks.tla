-------------------------------- MODULE MCLinks --------------------------------
(***************************************************************************)
(* Both kinds of links a logic server has, to the connection servers and   *)
(* to the center server, for TLC.  They share no state: each behaviour     *)
(* starts both and runs one of them, `part', which says of each what a run *)
(* of its own would say.                                                   *)
(***************************************************************************)
EXTENDS ConnectionLink

CONSTANTS
    n1, k1, x1, x2, x3, i1,
    Trusted, CallLimit      \* of CenterLink

MCIdOf == [n \in Server |-> i1]

VARIABLES
    part,
    \* The variables of CenterLink; those with a name of ConnectionLink's have another.
    centerUp, sAllLogicServer, sCenterServerSessionRpcFromer, asyncReplies, centerEnd,
    connecting, reconnectTimers, gLogicCenterServerClient, pendingCalls, calls, mSelfID,
    toCenter, centerID, centerRunning, centerLogicEnd, centerOwner, centerWireUp, centerToLogic

Center == INSTANCE CenterLink WITH
    mID <- centerID, running <- centerRunning, logicEnd <- centerLogicEnd,
    owner <- centerOwner, up <- centerWireUp, toLogic <- centerToLogic

centerSide ==
    <<centerUp, sAllLogicServer, sCenterServerSessionRpcFromer, asyncReplies, centerEnd,
      connecting, reconnectTimers, gLogicCenterServerClient, pendingCalls, calls, mSelfID,
      toCenter, centerID, centerRunning, centerLogicEnd, centerOwner, centerWireUp, centerToLogic>>

OnConnections == part = "connections"
OnCenter == part = "center"

MCInit == Init /\ Center!Init /\ part \in {"connections", "center"}

ConnectionsPart == OnConnections /\ Next /\ UNCHANGED <<centerSide, part>>
CenterPart == OnCenter /\ Center!Next /\ UNCHANGED <<vars, part>>

MCNext == ConnectionsPart \/ CenterPart

\* The fairness of the two modules, each while its part runs.
MCFairness ==
    /\ \A k \in Cs : WF_vars(OnConnections /\ Publish(k))
    /\ \A n \in Server :
         /\ \A k \in Cs : WF_vars(OnConnections /\ ConnectThread(n, k))
         /\ WF_vars(OnConnections /\ Poll(n)) /\ WF_vars(OnConnections /\ TryCompareConnect(n))
         /\ WF_vars(OnConnections /\ LogicThread(n))
         /\ WF_centerSide(OnCenter /\ Center!LogicStep(n))
         /\ WF_centerSide(OnCenter /\ Center!ConnectSome(n))
    /\ \A x \in Conn : WF_vars(OnConnections /\ CsLoop(x)) /\ WF_vars(OnConnections /\ BreakIdle(x))
    /\ WF_centerSide(OnCenter /\ Center!CenterStep)

MCSpec == MCInit /\ [][MCNext]_<<vars, centerSide, part>> /\ MCFairness

\* ServerIsConnected of ConnectionLink: a connection server that stays up is connected to
\* by every logic server that stays up, after crashes of either and with other connects
\* under way (ConnectionServerConnection.cpp:132-139, 56).
ConnectedAgain == OnConnections => ServerIsConnected

\* LinkComesBack of CenterLink: a logic server without a connection to the center gets one
\* again, unless it or the center is down (CenterServerConnection.cpp:31-43).
CenterComesBack == OnCenter => Center!LinkComesBack
===============================================================================
