------------------------------ MODULE CenterLink ------------------------------
(***************************************************************************)
(* The center server (CenterServer/CenterServerSession) and the logic      *)
(* servers that keep a connection to it (LogicServer/CenterServerConnection *)
(* and Common/AutoConnectionServer.h).                                     *)
(*                                                                         *)
(* Every process handles the events of its connections on one logic        *)
(* thread, each connection's in order (LogicQueue), so one step is one     *)
(* callback of one session.  Nothing orders the events of different        *)
(* connections, which come from different network threads.  A connection   *)
(* carries a sequence of messages each way; when it breaks, a suffix of    *)
(* each is lost, and each end learns of it after the messages that were    *)
(* not.  Pings only keep the 10 s idle limit of the network library from   *)
(* breaking the connection; they are left out, and it may break any time.  *)
(***************************************************************************)
EXTENDS Naturals, Sequences, FiniteSets

CONSTANTS
    Server,      \* the logic-server processes
    Conn,        \* the connections; one whose both ends are gone is made anew
    Id, NoId,    \* the IDs of logic servers, and -1
    Nil,         \* no session, no server
    IdOf,        \* IdOf[n]: logicServerConfig.id() of n
    Trusted,     \* the servers configured with the password the center expects
    CallLimit    \* bound: RPC calls one logic server makes

ASSUME ConstantsAssumption ==
    /\ NoId \notin Id /\ Nil \notin Conn /\ Nil \notin Server
    /\ IdOf \in [Server -> Id]
    /\ Trusted \subseteq Server
    /\ CallLimit \in Nat

VARIABLES
    centerUp,                    \* the center process runs
    sAllLogicServer,             \* [id]: the session registered under id, or Nil
    sCenterServerSessionRpcFromer,
    asyncReplies,                \* the calls whose handlers answer later
    centerEnd,                   \* [x]: the CenterServerSession of x
    mID,                         \* [x]: its mID
    running,                     \* [n]: the process runs
    connecting,                  \* [n]: number of threads in autoConnectServer
    reconnectTimers,             \* [n]: number of timers the destructor started
    gLogicCenterServerClient,    \* [n]
    pendingCalls,                \* [n]: calls whose callbacks wait in the RpcService
    calls,                       \* [n]: number of calls made, in all the lives of n
    logicEnd,                    \* [x]: the CenterServerConnection of x
    owner,                       \* [x]: the logic server x belongs to, Nil before its first use
    mSelfID,                     \* [x]: its mSelfID
    up,                          \* [x]: x is not broken
    toCenter, toLogic            \* [x]: the messages on their way

centerVars == <<centerUp, sAllLogicServer, sCenterServerSessionRpcFromer, asyncReplies, centerEnd, mID>>
logicVars == <<running, connecting, reconnectTimers, gLogicCenterServerClient, pendingCalls,
               calls, logicEnd, owner, mSelfID>>
vars == <<centerVars, logicVars, up, toCenter, toLogic>>

\* A message: n numbers the calls of a server.
Message == [op : {"login", "selfid", "call", "reply"}, id : Id \cup {NoId}, n : Nat]
Login(id) == [op |-> "login", id |-> id, n |-> 0]
SelfId(id) == [op |-> "selfid", id |-> id, n |-> 0]
Call(n) == [op |-> "call", id |-> NoId, n |-> n]
Reply(n) == [op |-> "reply", id |-> NoId, n |-> n]

\* A session that is "new" has not yet handled its onEnter; "closed" is after onClose
\* (only a CenterServerConnection is waited for after that), "none" is no session.
CenterEnd == {"none", "new", "open"}
LogicEnd == {"none", "new", "open", "closed"}

\* send(): what is sent on a broken connection is lost.
SendCenter(x, m) == toCenter' = [toCenter EXCEPT ![x] = IF up[x] THEN Append(@, m) ELSE @]
SendLogic(x, m) == toLogic' = [toLogic EXCEPT ![x] = IF up[x] THEN Append(@, m) ELSE @]

Prefixes(s) == {SubSeq(s, 1, k) : k \in 0..Len(s)}

-----------------------------------------------------------------------------
(* The connection *)

\* autoConnectServer succeeds: both ends are new.  (When it fails it sleeps 5 s and
\* starts another thread: connecting stays as it is.)
Connect(n, x) ==
    /\ centerUp /\ running[n] /\ connecting[n] > 0
    /\ centerEnd[x] = "none" /\ logicEnd[x] = "none"
    /\ sCenterServerSessionRpcFromer # x
    /\ \A r \in asyncReplies : r.caller # x
    /\ connecting' = [connecting EXCEPT ![n] = @ - 1]
    /\ owner' = [owner EXCEPT ![x] = n]
    /\ logicEnd' = [logicEnd EXCEPT ![x] = "new"]
    /\ centerEnd' = [centerEnd EXCEPT ![x] = "new"]
    /\ mID' = [mID EXCEPT ![x] = NoId]
    /\ up' = [up EXCEPT ![x] = TRUE]
    /\ toCenter' = [toCenter EXCEPT ![x] = <<>>]
    /\ toLogic' = [toLogic EXCEPT ![x] = <<>>]
    /\ UNCHANGED <<centerUp, sAllLogicServer, sCenterServerSessionRpcFromer, asyncReplies, running,
                   reconnectTimers, gLogicCenterServerClient, pendingCalls, calls, mSelfID>>

\* The network, the idle limit or the other end breaks the connection.
Break(x) ==
    /\ up[x]
    /\ up' = [up EXCEPT ![x] = FALSE]
    /\ \E s \in Prefixes(toCenter[x]) : toCenter' = [toCenter EXCEPT ![x] = s]
    /\ \E s \in Prefixes(toLogic[x]) : toLogic' = [toLogic EXCEPT ![x] = s]
    /\ UNCHANGED <<centerVars, logicVars>>

-----------------------------------------------------------------------------
(* A logic server *)

\* CenterServerConnection::onEnter.
LogicEnter(x) ==
    /\ logicEnd[x] = "new"
    /\ logicEnd' = [logicEnd EXCEPT ![x] = "open"]
    /\ SendCenter(x, Login(IdOf[owner[x]]))
    /\ gLogicCenterServerClient' = [gLogicCenterServerClient EXCEPT ![owner[x]] = x]
    /\ UNCHANGED <<centerVars, running, connecting, reconnectTimers, pendingCalls, calls, owner,
                   mSelfID, up, toLogic>>

\* Mutant: onMsg reads the wrong field of SELFID.
MutLogicMsg(x) ==
    /\ logicEnd[x] = "open" /\ toLogic[x] # <<>>
    /\ LET m == Head(toLogic[x]) IN
       /\ mSelfID' = IF m.op = "selfid" THEN [mSelfID EXCEPT ![x] = m.n] ELSE mSelfID
       /\ pendingCalls' = IF m.op = "reply"
                          THEN [pendingCalls EXCEPT ![owner[x]] = @ \ {m.n}] ELSE pendingCalls
    /\ toLogic' = [toLogic EXCEPT ![x] = Tail(@)]
    /\ UNCHANGED <<centerVars, running, connecting, reconnectTimers, gLogicCenterServerClient,
                   calls, logicEnd, owner, up, toCenter>>

\* CenterServerConnection::onMsg of SELFID and of an RPC reply, whose callback runs.
LogicMsg(x) ==
    /\ logicEnd[x] = "open" /\ toLogic[x] # <<>>
    /\ LET m == Head(toLogic[x]) IN
       /\ mSelfID' = IF m.op = "selfid" THEN [mSelfID EXCEPT ![x] = m.id] ELSE mSelfID
       /\ pendingCalls' = IF m.op = "reply"
                          THEN [pendingCalls EXCEPT ![owner[x]] = @ \ {m.n}] ELSE pendingCalls
    /\ toLogic' = [toLogic EXCEPT ![x] = Tail(@)]
    /\ UNCHANGED <<centerVars, running, connecting, reconnectTimers, gLogicCenterServerClient,
                   calls, logicEnd, owner, up, toCenter>>

\* A handler of the game calls the center with a callback (LogicServerExt.cpp); with
\* no connection it does not.
LogicCall(n) ==
    /\ running[n] /\ gLogicCenterServerClient[n] # Nil /\ calls[n] < CallLimit
    /\ calls' = [calls EXCEPT ![n] = @ + 1]
    /\ pendingCalls' = [pendingCalls EXCEPT ![n] = @ \cup {calls'[n]}]
    /\ SendCenter(gLogicCenterServerClient[n], Call(calls'[n]))
    /\ UNCHANGED <<centerVars, running, connecting, reconnectTimers, gLogicCenterServerClient,
                   logicEnd, owner, mSelfID, up, toLogic>>

\* Mutant: onClose starts the reconnection too.
MutLogicClose(x) ==
    /\ logicEnd[x] = "open" /\ ~up[x] /\ toLogic[x] = <<>>
    /\ logicEnd' = [logicEnd EXCEPT ![x] = "closed"]
    /\ gLogicCenterServerClient' = [gLogicCenterServerClient EXCEPT ![owner[x]] = Nil]
    /\ reconnectTimers' = [reconnectTimers EXCEPT ![owner[x]] = @ + 1]
    /\ UNCHANGED <<centerVars, running, connecting, pendingCalls, calls, owner, mSelfID, up,
                   toCenter, toLogic>>

\* Mutant: onClose leaves the pointer.
MutPointer(x) ==
    /\ logicEnd[x] = "open" /\ ~up[x] /\ toLogic[x] = <<>>
    /\ logicEnd' = [logicEnd EXCEPT ![x] = "closed"]
    /\ UNCHANGED <<centerVars, running, connecting, reconnectTimers, gLogicCenterServerClient,
                   pendingCalls, calls, owner, mSelfID, up, toCenter, toLogic>>

\* CenterServerConnection::onClose.
LogicClose(x) ==
    /\ logicEnd[x] = "open" /\ ~up[x] /\ toLogic[x] = <<>>
    /\ logicEnd' = [logicEnd EXCEPT ![x] = "closed"]
    /\ gLogicCenterServerClient' = [gLogicCenterServerClient EXCEPT ![owner[x]] = Nil]
    /\ UNCHANGED <<centerVars, running, connecting, reconnectTimers, pendingCalls, calls, owner,
                   mSelfID, up, toCenter, toLogic>>

\* Mutant: the destructor starts no timer.
MutDestroy(x) ==
    /\ logicEnd[x] = "closed"
    /\ logicEnd' = [logicEnd EXCEPT ![x] = "none"]
    /\ mSelfID' = [mSelfID EXCEPT ![x] = NoId]
    /\ UNCHANGED <<centerVars, running, connecting, reconnectTimers, gLogicCenterServerClient,
                   pendingCalls, calls, owner, up, toCenter, toLogic>>

\* The last shared_ptr goes (Net2LogicQueue): ~CenterServerConnection.
Destroy(x) ==
    /\ logicEnd[x] = "closed"
    /\ logicEnd' = [logicEnd EXCEPT ![x] = "none"]
    /\ mSelfID' = [mSelfID EXCEPT ![x] = NoId]
    /\ reconnectTimers' = [reconnectTimers EXCEPT ![owner[x]] = @ + 1]
    /\ UNCHANGED <<centerVars, running, connecting, gLogicCenterServerClient, pendingCalls, calls,
                   owner, up, toCenter, toLogic>>

\* startConnectThread, after AUTO_CONNECT_DELAY.
Reconnect(n) ==
    /\ reconnectTimers[n] > 0
    /\ reconnectTimers' = [reconnectTimers EXCEPT ![n] = @ - 1]
    /\ connecting' = [connecting EXCEPT ![n] = @ + 1]
    /\ UNCHANGED <<centerVars, running, gLogicCenterServerClient, pendingCalls, calls, logicEnd,
                   owner, mSelfID, up, toCenter, toLogic>>

-----------------------------------------------------------------------------
(* The center server *)

CenterEnter(x) ==
    /\ centerEnd[x] = "new"
    /\ centerEnd' = [centerEnd EXCEPT ![x] = "open"]
    /\ UNCHANGED <<centerUp, sAllLogicServer, sCenterServerSessionRpcFromer, asyncReplies, mID,
                   logicVars, up, toCenter, toLogic>>

CenterRecv(x, op) ==
    /\ centerEnd[x] = "open" /\ toCenter[x] # <<>> /\ Head(toCenter[x]).op = op
    /\ toCenter' = [toCenter EXCEPT ![x] = Tail(@)]

\* Mutant: the session takes the ID before it is looked up.
MutCenterLogin(x) ==
    /\ CenterRecv(x, "login")
    /\ LET id == Head(toCenter[x]).id IN
       IF mID[x] = NoId /\ owner[x] \in Trusted
       THEN /\ mID' = [mID EXCEPT ![x] = id]
            /\ IF sAllLogicServer[id] = Nil
               THEN /\ SendLogic(x, SelfId(id))
                    /\ sAllLogicServer' = [sAllLogicServer EXCEPT ![id] = x]
               ELSE UNCHANGED <<sAllLogicServer, toLogic>>
       ELSE UNCHANGED <<sAllLogicServer, mID, toLogic>>
    /\ UNCHANGED <<centerUp, sCenterServerSessionRpcFromer, asyncReplies, centerEnd, logicVars,
                   up>>

\* onLogicServerLogin: a wrong password and an ID in use are only logged.
CenterLogin(x) ==
    /\ CenterRecv(x, "login")
    /\ LET id == Head(toCenter[x]).id IN
       IF mID[x] = NoId /\ owner[x] \in Trusted /\ sAllLogicServer[id] = Nil
       THEN /\ mID' = [mID EXCEPT ![x] = id]
            /\ SendLogic(x, SelfId(id))
            /\ sAllLogicServer' = [sAllLogicServer EXCEPT ![id] = x]
       ELSE UNCHANGED <<sAllLogicServer, mID, toLogic>>
    /\ UNCHANGED <<centerUp, sCenterServerSessionRpcFromer, asyncReplies, centerEnd, logicVars,
                   up>>

\* onLogicServerRpc: the handler answers through the global "fromer" before it
\* returns, or keeps the caller (getRpcFromer) and answers later.  Nobody has to be
\* logged in to call.
CenterRpc(x) ==
    /\ CenterRecv(x, "call")
    /\ sCenterServerSessionRpcFromer' = x
    /\ LET n == Head(toCenter[x]).n IN
       \/ /\ SendLogic(sCenterServerSessionRpcFromer', Reply(n))
          /\ UNCHANGED asyncReplies
       \/ /\ asyncReplies' = asyncReplies \cup {[caller |-> sCenterServerSessionRpcFromer', n |-> n]}
          /\ UNCHANGED toLogic
    /\ UNCHANGED <<centerUp, sAllLogicServer, centerEnd, mID, logicVars, up>>

\* Mutant: the late answer goes to the "fromer" of the moment.
MutAsyncReply(r) ==
    /\ r \in asyncReplies
    /\ asyncReplies' = asyncReplies \ {r}
    /\ SendLogic(sCenterServerSessionRpcFromer, Reply(r.n))
    /\ UNCHANGED <<centerUp, sAllLogicServer, sCenterServerSessionRpcFromer, centerEnd, mID,
                   logicVars, up, toCenter>>

AsyncReply(r) ==
    /\ r \in asyncReplies
    /\ asyncReplies' = asyncReplies \ {r}
    /\ SendLogic(r.caller, Reply(r.n))
    /\ UNCHANGED <<centerUp, sAllLogicServer, sCenterServerSessionRpcFromer, centerEnd, mID,
                   logicVars, up, toCenter>>

\* CenterServerSession::onClose.
CenterClose(x) ==
    /\ centerEnd[x] = "open" /\ ~up[x] /\ toCenter[x] = <<>>
    /\ centerEnd' = [centerEnd EXCEPT ![x] = "none"]
    /\ sAllLogicServer' = IF mID[x] # NoId
                          THEN [sAllLogicServer EXCEPT ![mID[x]] = Nil] ELSE sAllLogicServer
    /\ UNCHANGED <<centerUp, sCenterServerSessionRpcFromer, asyncReplies, mID, logicVars, up,
                   toCenter, toLogic>>

-----------------------------------------------------------------------------
(* Crashes and restarts *)

\* All connections in lost break; their other ends may still get what was sent.
Lose(lost) == up' = [x \in Conn |-> up[x] /\ x \notin lost]

CenterCrash ==
    /\ centerUp
    /\ Lose(Conn)
    /\ centerUp' = FALSE
    /\ sAllLogicServer' = [id \in Id |-> Nil]
    /\ sCenterServerSessionRpcFromer' = Nil
    /\ asyncReplies' = {}
    /\ centerEnd' = [x \in Conn |-> "none"]
    /\ mID' = [x \in Conn |-> NoId]
    /\ toCenter' = [x \in Conn |-> <<>>]
    /\ UNCHANGED <<logicVars, toLogic>>

CenterStart ==
    /\ ~centerUp
    /\ centerUp' = TRUE
    /\ UNCHANGED <<sAllLogicServer, sCenterServerSessionRpcFromer, asyncReplies, centerEnd, mID,
                   logicVars, up, toCenter, toLogic>>

Own(n) == {x \in Conn : owner[x] = n /\ logicEnd[x] # "none"}

LogicCrash(n) ==
    /\ running[n]
    /\ Lose(Own(n))
    /\ running' = [running EXCEPT ![n] = FALSE]
    /\ connecting' = [connecting EXCEPT ![n] = 0]
    /\ reconnectTimers' = [reconnectTimers EXCEPT ![n] = 0]
    /\ gLogicCenterServerClient' = [gLogicCenterServerClient EXCEPT ![n] = Nil]
    /\ pendingCalls' = [pendingCalls EXCEPT ![n] = {}]
    /\ logicEnd' = [x \in Conn |-> IF x \in Own(n) THEN "none" ELSE logicEnd[x]]
    /\ mSelfID' = [x \in Conn |-> IF x \in Own(n) THEN NoId ELSE mSelfID[x]]
    /\ toLogic' = [x \in Conn |-> IF x \in Own(n) THEN <<>> ELSE toLogic[x]]
    /\ UNCHANGED <<centerVars, calls, owner, toCenter>>

\* main starts the first connect thread.
LogicStart(n) ==
    /\ ~running[n]
    /\ running' = [running EXCEPT ![n] = TRUE]
    /\ connecting' = [connecting EXCEPT ![n] = 1]
    /\ UNCHANGED <<centerVars, reconnectTimers, gLogicCenterServerClient, pendingCalls, calls,
                   logicEnd, owner, mSelfID, up, toCenter, toLogic>>

-----------------------------------------------------------------------------
(* The specification *)

Init ==
    /\ centerUp = TRUE
    /\ sAllLogicServer = [id \in Id |-> Nil]
    /\ sCenterServerSessionRpcFromer = Nil
    /\ asyncReplies = {}
    /\ centerEnd = [x \in Conn |-> "none"]
    /\ mID = [x \in Conn |-> NoId]
    /\ running = [n \in Server |-> TRUE]
    /\ connecting = [n \in Server |-> 1]
    /\ reconnectTimers = [n \in Server |-> 0]
    /\ gLogicCenterServerClient = [n \in Server |-> Nil]
    /\ pendingCalls = [n \in Server |-> {}]
    /\ calls = [n \in Server |-> 0]
    /\ logicEnd = [x \in Conn |-> "none"]
    /\ owner = [x \in Conn |-> Nil]
    /\ mSelfID = [x \in Conn |-> NoId]
    /\ up = [x \in Conn |-> FALSE]
    /\ toCenter = [x \in Conn |-> <<>>]
    /\ toLogic = [x \in Conn |-> <<>>]

\* What a process does by itself.
LogicStep(n) ==
    \/ Reconnect(n)
    \/ \E x \in Conn : owner[x] = n /\ (LogicEnter(x) \/ LogicMsg(x) \/ LogicClose(x) \/ Destroy(x))

CenterStep ==
    \/ \E x \in Conn : CenterEnter(x) \/ CenterLogin(x) \/ CenterRpc(x) \/ CenterClose(x)
    \/ \E r \in asyncReplies : AsyncReply(r)

ConnectSome(n) == \E x \in Conn : Connect(n, x)

Next ==
    \/ \E n \in Server : \/ LogicStep(n) \/ ConnectSome(n) \/ LogicCall(n)
                         \/ LogicCrash(n) \/ LogicStart(n)
    \/ CenterStep \/ CenterCrash \/ CenterStart
    \/ \E x \in Conn : Break(x)

\* The logic threads and the timers run; while the center runs, connecting works in the
\* end.  Nothing makes a crashed process start again or a connection break.
Fairness ==
    /\ \A n \in Server : WF_vars(LogicStep(n)) /\ WF_vars(ConnectSome(n))
    /\ WF_vars(CenterStep)

Spec == Init /\ [][Next]_vars /\ Fairness

-----------------------------------------------------------------------------
(* Properties *)

\* The types of all variables.
TypeOK ==
    /\ centerUp \in BOOLEAN
    /\ sAllLogicServer \in [Id -> Conn \cup {Nil}]
    /\ sCenterServerSessionRpcFromer \in Conn \cup {Nil}
    /\ asyncReplies \subseteq [caller : Conn, n : Nat]
    /\ centerEnd \in [Conn -> CenterEnd]
    /\ mID \in [Conn -> Id \cup {NoId}]
    /\ running \in [Server -> BOOLEAN]
    /\ connecting \in [Server -> Nat]
    /\ reconnectTimers \in [Server -> Nat]
    /\ gLogicCenterServerClient \in [Server -> Conn \cup {Nil}]
    /\ pendingCalls \in [Server -> SUBSET Nat]
    /\ calls \in [Server -> Nat]
    /\ logicEnd \in [Conn -> LogicEnd]
    /\ owner \in [Conn -> Server \cup {Nil}]
    /\ mSelfID \in [Conn -> Id \cup {NoId}]
    /\ up \in [Conn -> BOOLEAN]
    /\ toCenter \in [Conn -> Seq(Message)]
    /\ toLogic \in [Conn -> Seq(Message)]

\* A logic server the center told its ID is the one registered under that ID for as
\* long as neither end of the connection learns that it broke: no close, login or
\* restart of another session with the same ID takes the registration away.
SelfIdIsRegistered ==
    \A x \in Conn :
        (logicEnd[x] = "open" /\ centerEnd[x] = "open" /\ mSelfID[x] # NoId)
            => sAllLogicServer[mSelfID[x]] = x

\* A logic server always has one connection, timer or thread under way that will
\* give it its next connection to the center, and never two of them: the destructor
\* reconnects once for each connection there was.
OneLink ==
    \A n \in Server : running[n] =>
        connecting[n] + reconnectTimers[n] + Cardinality(Own(n)) = 1

\* The bare pointer of a logic server is its open connection and nothing else.
PointerIsOpen ==
    \A n \in Server, x \in Conn :
        gLogicCenterServerClient[n] = x <=> (owner[x] = n /\ logicEnd[x] = "open")

\* A reply on its way to a logic server answers a call of that server which waits for
\* it, whatever the global "fromer" was when it was sent, and whoever calls, breaks
\* or restarts in between.
RepliesMatchCalls ==
    \A x \in Conn : \A i \in DOMAIN toLogic[x] :
        (toLogic[x][i].op = "reply" /\ logicEnd[x] = "open")
            => toLogic[x][i].n \in pendingCalls[owner[x]]

\* A logic server without a connection gets one again, unless it or the center is down.
LinkComesBack ==
    \A n \in Server :
        (running[n] /\ gLogicCenterServerClient[n] = Nil)
            ~> (gLogicCenterServerClient[n] # Nil \/ ~running[n] \/ ~centerUp)
===============================================================================
