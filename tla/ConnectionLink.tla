---------------------------- MODULE ConnectionLink ----------------------------
(***************************************************************************)
(* How the logic servers find the connection servers and log in to them:   *)
(* the etcd loop and LogicServerSession of ConnectionServer/, the etcd      *)
(* thread of LogicServer/LogicServer.cpp and LogicServer/                  *)
(* ConnectionServerConnection.                                             *)
(*                                                                         *)
(* A logic server runs the etcd thread, one thread per attempt to connect  *)
(* and the logic thread, which handles the events of every connection in   *)
(* order (LogicQueue).  A connection server runs each session on the loop  *)
(* it is pinned to; its registry has a lock.  One step is one callback on  *)
(* the logic thread, one critical section, or what a thread does between   *)
(* two of them.  A connection carries messages each way; when it breaks, a *)
(* suffix of them is lost, and each end learns of it after the rest.       *)
(* Pings are left out: a connection may break any time.                    *)
(*                                                                         *)
(* A connection server is named by its ID, which is also its key in etcd.  *)
(***************************************************************************)
EXTENDS Naturals, Sequences

CONSTANTS
    Server,       \* the logic-server processes
    Cs,           \* the connection servers
    Conn,         \* the connections; one whose both ends are gone is made anew
    Id, NoId,     \* the IDs of logic servers, and -1
    Nil,          \* no session, no server
    IdOf,         \* IdOf[n]: logicServerConfig.id() of n
    ThreadLimit   \* bound: threads of n that try to connect to one server

ASSUME ConstantsAssumption ==
    /\ NoId \notin Id /\ Nil \notin Conn \cup Server \cup Cs
    /\ IdOf \in [Server -> Id]
    /\ ThreadLimit \in Nat

VARIABLES
    etcd,                             \* the keys of ConnectionServerList
    csUp,                             \* [k]: the process runs
    registry,                         \* [k][id]: the session LogicServerSessionMgr has under id, or Nil
    csEnd,                            \* [x]: the LogicServerSession of x, and where its loop is
    mID,                              \* [x]: its mID
    running,                          \* [n]: the process runs
    currentServer,                    \* [n]: what the etcd thread of n got, Nil while it sleeps
    alreadyConnectingServers,         \* [n]
    threads,                          \* [n][k]: number of threads of n connecting to k
    gAllLogicConnectionServerClient,  \* [n][k]
    logicEnd,                         \* [x]: the ConnectionServerConnection of x
    mIsSuccess,                       \* [x]
    mConnectionServerID,              \* [x]
    owner, target,                    \* [x]: the logic server and the connection server of x
    up,                               \* [x]: x is not broken
    toCs, toLogic                     \* [x]: the messages on their way

csVars == <<csUp, registry, csEnd, mID>>
logicVars == <<running, currentServer, alreadyConnectingServers, threads,
               gAllLogicConnectionServerClient, logicEnd, mIsSuccess, mConnectionServerID>>
wireVars == <<owner, target, up, toCs, toLogic>>
vars == <<etcd, csVars, logicVars, wireVars>>

\* "new": onEnter was not handled yet; "adding": between the look-up and the
\* registration of a login; "none": no session.
CsEnd == {"none", "open", "adding"}
LogicEnd == {"none", "new", "open"}
Message == {"login", "accepted", "refused"}

Send(wire, x, m) == [wire EXCEPT ![x] = IF up[x] THEN Append(@, m) ELSE @]
Prefixes(s) == {SubSeq(s, 1, k) : k \in 0..Len(s)}

-----------------------------------------------------------------------------
(* etcd *)

\* etcdSet in the main loop of a connection server, every 5 s, for 15 s.
Publish(k) ==
    /\ csUp[k] /\ k \notin etcd
    /\ etcd' = etcd \cup {k}
    /\ UNCHANGED <<csVars, logicVars, wireVars>>

\* The key of a server that is down expires.  One that runs is taken to set its key
\* again in time: KeyStays of EtcdLease, as long as the requests etcd leaves
\* unanswered do not use up the lifetime of the key.  A key left by an earlier life may
\* go just before it is set again, which would only delay a connect thread and is left
\* out.
Expire(k) ==
    /\ ~csUp[k] /\ k \in etcd
    /\ etcd' = etcd \ {k}
    /\ UNCHANGED <<csVars, logicVars, wireVars>>

\* etcdGet of the etcd thread of n (an empty answer changes nothing).
Poll(n) ==
    /\ running[n] /\ currentServer[n] = Nil
    /\ currentServer' = [currentServer EXCEPT ![n] = etcd]
    /\ UNCHANGED <<etcd, csVars, running, alreadyConnectingServers, threads,
                   gAllLogicConnectionServerClient, logicEnd, mIsSuccess, mConnectionServerID, wireVars>>

\* tryCompareConnect, under alreadyConnectingServersLock.
TryCompareConnect(n) ==
    /\ currentServer[n] # Nil
    /\ \A k \in currentServer[n] \ alreadyConnectingServers[n] : threads[n][k] < ThreadLimit
    /\ threads' = [threads EXCEPT ![n] = [k \in Cs |->
            IF k \in currentServer[n] \ alreadyConnectingServers[n] THEN @[k] + 1 ELSE @[k]]]
    /\ currentServer' = [currentServer EXCEPT ![n] = Nil]
    /\ UNCHANGED <<etcd, csVars, running, alreadyConnectingServers, gAllLogicConnectionServerClient,
                   logicEnd, mIsSuccess, mConnectionServerID, wireVars>>

-----------------------------------------------------------------------------
(* Connections *)

\* A thread of tryCompareConnect connects.
Connect(n, k, x) ==
    /\ csUp[k] /\ threads[n][k] > 0
    /\ logicEnd[x] = "none" /\ csEnd[x] = "none"
    /\ threads' = [threads EXCEPT ![n][k] = @ - 1]
    /\ owner' = [owner EXCEPT ![x] = n]
    /\ target' = [target EXCEPT ![x] = k]
    /\ logicEnd' = [logicEnd EXCEPT ![x] = "new"]
    /\ mIsSuccess' = [mIsSuccess EXCEPT ![x] = FALSE]
    /\ mConnectionServerID' = [mConnectionServerID EXCEPT ![x] = Nil]
    /\ csEnd' = [csEnd EXCEPT ![x] = "open"]
    /\ mID' = [mID EXCEPT ![x] = NoId]
    /\ up' = [up EXCEPT ![x] = TRUE]
    /\ toCs' = [toCs EXCEPT ![x] = <<>>]
    /\ toLogic' = [toLogic EXCEPT ![x] = <<>>]
    /\ UNCHANGED <<etcd, csUp, registry, running, currentServer, alreadyConnectingServers,
                   gAllLogicConnectionServerClient>>

\* ... or does not, and ends.
ConnectFails(n, k) ==
    /\ ~csUp[k] /\ threads[n][k] > 0
    /\ threads' = [threads EXCEPT ![n][k] = @ - 1]
    /\ UNCHANGED <<etcd, csVars, running, currentServer, alreadyConnectingServers,
                   gAllLogicConnectionServerClient, logicEnd, mIsSuccess, mConnectionServerID, wireVars>>

\* The network, the idle limit of 10 s or the other end breaks x.
Break(x) ==
    /\ up[x]
    /\ up' = [up EXCEPT ![x] = FALSE]
    /\ \E s \in Prefixes(toCs[x]) : toCs' = [toCs EXCEPT ![x] = s]
    /\ \E s \in Prefixes(toLogic[x]) : toLogic' = [toLogic EXCEPT ![x] = s]
    /\ UNCHANGED <<etcd, csVars, logicVars, owner, target>>

-----------------------------------------------------------------------------
(* A ConnectionServerConnection, on the logic thread *)

\* Mutant: onEnter does not look whether another connection was first.
MutLogicEnter(x) ==
    /\ logicEnd[x] = "new"
    /\ logicEnd' = [logicEnd EXCEPT ![x] = "open"]
    /\ mIsSuccess' = [mIsSuccess EXCEPT ![x] = TRUE]
    /\ alreadyConnectingServers' = [alreadyConnectingServers EXCEPT ![owner[x]] = @ \cup {target[x]}]
    /\ toCs' = Send(toCs, x, "login")
    /\ UNCHANGED <<etcd, csVars, running, currentServer, threads, gAllLogicConnectionServerClient,
                   mConnectionServerID, owner, target, up, toLogic>>

\* onEnter: the first connection to a server logs in and pings; another one neither.
LogicEnter(x) ==
    /\ logicEnd[x] = "new"
    /\ logicEnd' = [logicEnd EXCEPT ![x] = "open"]
    /\ IF target[x] \notin alreadyConnectingServers[owner[x]]
       THEN /\ mIsSuccess' = [mIsSuccess EXCEPT ![x] = TRUE]
            /\ alreadyConnectingServers' = [alreadyConnectingServers EXCEPT ![owner[x]] = @ \cup {target[x]}]
            /\ toCs' = Send(toCs, x, "login")
       ELSE UNCHANGED <<mIsSuccess, alreadyConnectingServers, toCs>>
    /\ UNCHANGED <<etcd, csVars, running, currentServer, threads, gAllLogicConnectionServerClient,
                   mConnectionServerID, owner, target, up, toLogic>>

\* Mutant: onMsg takes the first integer for the ID of the logic server.
MutLogicMsg(x) ==
    /\ logicEnd[x] = "open" /\ toLogic[x] # <<>>
    /\ mConnectionServerID' = [mConnectionServerID EXCEPT ![x] = IdOf[owner[x]]]
    /\ toLogic' = [toLogic EXCEPT ![x] = Tail(@)]
    /\ UNCHANGED <<etcd, csVars, running, currentServer, alreadyConnectingServers, threads,
                   gAllLogicConnectionServerClient, logicEnd, mIsSuccess, owner, target, up, toCs>>

\* onMsg of the answer to the login.  A refusal is only logged.
LogicMsg(x) ==
    /\ logicEnd[x] = "open" /\ toLogic[x] # <<>>
    /\ mConnectionServerID' = [mConnectionServerID EXCEPT ![x] = target[x]]
    /\ gAllLogicConnectionServerClient' =
            IF Head(toLogic[x]) = "accepted"
            THEN [gAllLogicConnectionServerClient EXCEPT ![owner[x]][target[x]] = x]
            ELSE gAllLogicConnectionServerClient
    /\ toLogic' = [toLogic EXCEPT ![x] = Tail(@)]
    /\ UNCHANGED <<etcd, csVars, running, currentServer, alreadyConnectingServers, threads,
                   logicEnd, mIsSuccess, owner, target, up, toCs>>

\* Mutant: onClose forgets the server whether or not this connection logged in.
MutLogicClose(x) ==
    /\ logicEnd[x] = "open" /\ ~up[x] /\ toLogic[x] = <<>>
    /\ logicEnd' = [logicEnd EXCEPT ![x] = "none"]
    /\ gAllLogicConnectionServerClient' =
            IF mConnectionServerID[x] # Nil
            THEN [gAllLogicConnectionServerClient EXCEPT ![owner[x]][mConnectionServerID[x]] = Nil]
            ELSE gAllLogicConnectionServerClient
    /\ alreadyConnectingServers' = [alreadyConnectingServers EXCEPT ![owner[x]] = @ \ {target[x]}]
    /\ UNCHANGED <<etcd, csVars, running, currentServer, threads, mIsSuccess, mConnectionServerID, wireVars>>

\* Mutant: onClose does not forget the server.
MutRemember(x) ==
    /\ logicEnd[x] = "open" /\ ~up[x] /\ toLogic[x] = <<>>
    /\ logicEnd' = [logicEnd EXCEPT ![x] = "none"]
    /\ gAllLogicConnectionServerClient' =
            IF mConnectionServerID[x] # Nil
            THEN [gAllLogicConnectionServerClient EXCEPT ![owner[x]][mConnectionServerID[x]] = Nil]
            ELSE gAllLogicConnectionServerClient
    /\ UNCHANGED <<etcd, csVars, running, currentServer, alreadyConnectingServers, threads,
                   mIsSuccess, mConnectionServerID, wireVars>>

\* onClose.
LogicClose(x) ==
    /\ logicEnd[x] = "open" /\ ~up[x] /\ toLogic[x] = <<>>
    /\ logicEnd' = [logicEnd EXCEPT ![x] = "none"]
    /\ gAllLogicConnectionServerClient' =
            IF mConnectionServerID[x] # Nil
            THEN [gAllLogicConnectionServerClient EXCEPT ![owner[x]][mConnectionServerID[x]] = Nil]
            ELSE gAllLogicConnectionServerClient
    /\ alreadyConnectingServers' =
            IF mIsSuccess[x]
            THEN [alreadyConnectingServers EXCEPT ![owner[x]] = @ \ {target[x]}]
            ELSE alreadyConnectingServers
    /\ UNCHANGED <<etcd, csVars, running, currentServer, threads, mIsSuccess, mConnectionServerID, wireVars>>

-----------------------------------------------------------------------------
(* A LogicServerSession of a connection server *)

\* onLogicServerLogin.  The password comes from etcd with the address, so it is the
\* right one.  The ID is looked up ...
LoginFind(x) ==
    /\ csEnd[x] = "open" /\ toCs[x] # <<>>
    /\ toCs' = [toCs EXCEPT ![x] = Tail(@)]
    /\ IF registry[target[x]][IdOf[owner[x]]] = Nil
       THEN csEnd' = [csEnd EXCEPT ![x] = "adding"] /\ UNCHANGED toLogic
       ELSE toLogic' = Send(toLogic, x, "refused") /\ UNCHANGED csEnd
    /\ UNCHANGED <<etcd, csUp, registry, mID, logicVars, owner, target, up>>

\* ... and then entered in the registry.
LoginAdd(x) ==
    /\ csEnd[x] = "adding"
    /\ registry' = [registry EXCEPT ![target[x]][IdOf[owner[x]]] = x]
    /\ mID' = [mID EXCEPT ![x] = IdOf[owner[x]]]
    /\ csEnd' = [csEnd EXCEPT ![x] = "open"]
    /\ toLogic' = Send(toLogic, x, "accepted")
    /\ UNCHANGED <<etcd, csUp, logicVars, owner, target, up, toCs>>

\* onClose (kicking the clients of a primary is in WSConnectionServer).
CsClose(x) ==
    /\ csEnd[x] = "open" /\ ~up[x] /\ toCs[x] = <<>>
    /\ csEnd' = [csEnd EXCEPT ![x] = "none"]
    /\ registry' = IF mID[x] # NoId
                   THEN [registry EXCEPT ![target[x]][mID[x]] = Nil] ELSE registry
    /\ mID' = [mID EXCEPT ![x] = NoId]
    /\ UNCHANGED <<etcd, csUp, logicVars, wireVars>>

-----------------------------------------------------------------------------
(* Crashes and restarts: what the other ends were sent before may still arrive *)

CsCrash(k) ==
    /\ csUp[k]
    /\ csUp' = [csUp EXCEPT ![k] = FALSE]
    /\ registry' = [registry EXCEPT ![k] = [id \in Id |-> Nil]]
    /\ LET lost == {x \in Conn : target[x] = k} IN
       /\ csEnd' = [x \in Conn |-> IF x \in lost THEN "none" ELSE csEnd[x]]
       /\ mID' = [x \in Conn |-> IF x \in lost THEN NoId ELSE mID[x]]
       /\ up' = [x \in Conn |-> up[x] /\ x \notin lost]
       /\ toCs' = [x \in Conn |-> IF x \in lost THEN <<>> ELSE toCs[x]]
    /\ UNCHANGED <<etcd, logicVars, owner, target, toLogic>>

CsStart(k) ==
    /\ ~csUp[k]
    /\ csUp' = [csUp EXCEPT ![k] = TRUE]
    /\ UNCHANGED <<etcd, registry, csEnd, mID, logicVars, wireVars>>

LogicCrash(n) ==
    /\ running[n]
    /\ running' = [running EXCEPT ![n] = FALSE]
    /\ currentServer' = [currentServer EXCEPT ![n] = Nil]
    /\ alreadyConnectingServers' = [alreadyConnectingServers EXCEPT ![n] = {}]
    /\ threads' = [threads EXCEPT ![n] = [k \in Cs |-> 0]]
    /\ gAllLogicConnectionServerClient' = [gAllLogicConnectionServerClient EXCEPT ![n] = [k \in Cs |-> Nil]]
    /\ LET lost == {x \in Conn : owner[x] = n} IN
       /\ logicEnd' = [x \in Conn |-> IF x \in lost THEN "none" ELSE logicEnd[x]]
       /\ up' = [x \in Conn |-> up[x] /\ x \notin lost]
       /\ toLogic' = [x \in Conn |-> IF x \in lost THEN <<>> ELSE toLogic[x]]
    /\ UNCHANGED <<etcd, csVars, mIsSuccess, mConnectionServerID, owner, target, toCs>>

LogicStart(n) ==
    /\ ~running[n]
    /\ running' = [running EXCEPT ![n] = TRUE]
    /\ UNCHANGED <<etcd, csVars, currentServer, alreadyConnectingServers, threads,
                   gAllLogicConnectionServerClient, logicEnd, mIsSuccess, mConnectionServerID, wireVars>>

-----------------------------------------------------------------------------
(* The specification *)

Init ==
    /\ etcd = {}
    /\ csUp = [k \in Cs |-> TRUE]
    /\ registry = [k \in Cs |-> [id \in Id |-> Nil]]
    /\ csEnd = [x \in Conn |-> "none"]
    /\ mID = [x \in Conn |-> NoId]
    /\ running = [n \in Server |-> TRUE]
    /\ currentServer = [n \in Server |-> Nil]
    /\ alreadyConnectingServers = [n \in Server |-> {}]
    /\ threads = [n \in Server |-> [k \in Cs |-> 0]]
    /\ gAllLogicConnectionServerClient = [n \in Server |-> [k \in Cs |-> Nil]]
    /\ logicEnd = [x \in Conn |-> "none"]
    /\ mIsSuccess = [x \in Conn |-> FALSE]
    /\ mConnectionServerID = [x \in Conn |-> Nil]
    /\ owner = [x \in Conn |-> Nil]
    /\ target = [x \in Conn |-> Nil]
    /\ up = [x \in Conn |-> FALSE]
    /\ toCs = [x \in Conn |-> <<>>]
    /\ toLogic = [x \in Conn |-> <<>>]

LogicThread(n) ==
    \E x \in Conn : owner[x] = n /\ (LogicEnter(x) \/ LogicMsg(x) \/ LogicClose(x))

CsLoop(x) == LoginFind(x) \/ LoginAdd(x) \/ CsClose(x)

ConnectThread(n, k) == ConnectFails(n, k) \/ \E x \in Conn : Connect(n, k, x)

\* The connection of a session that does not ping: the connection server breaks it
\* when it has been idle for 10 s.
BreakIdle(x) == Break(x) /\ logicEnd[x] = "open" /\ ~mIsSuccess[x]

Next ==
    \/ \E k \in Cs : Publish(k) \/ Expire(k) \/ CsCrash(k) \/ CsStart(k)
    \/ \E n \in Server : \/ Poll(n) \/ TryCompareConnect(n) \/ LogicThread(n)
                         \/ LogicCrash(n) \/ LogicStart(n)
                         \/ \E k \in Cs : ConnectThread(n, k)
    \/ \E x \in Conn : CsLoop(x) \/ Break(x)

\* All threads run, and the idle limit is enforced.  Nothing makes a crashed process
\* start again, and nothing makes a connection that pings break.
Fairness ==
    /\ \A k \in Cs : WF_vars(Publish(k))
    /\ \A n \in Server : /\ \A k \in Cs : WF_vars(ConnectThread(n, k))
                         /\ WF_vars(Poll(n)) /\ WF_vars(TryCompareConnect(n))
                         /\ WF_vars(LogicThread(n))
    /\ \A x \in Conn : WF_vars(CsLoop(x)) /\ WF_vars(BreakIdle(x))

Spec == Init /\ [][Next]_vars /\ Fairness

-----------------------------------------------------------------------------
(* Properties *)

\* The types of all variables.
TypeOK ==
    /\ etcd \subseteq Cs
    /\ csUp \in [Cs -> BOOLEAN]
    /\ registry \in [Cs -> [Id -> Conn \cup {Nil}]]
    /\ csEnd \in [Conn -> CsEnd]
    /\ mID \in [Conn -> Id \cup {NoId}]
    /\ running \in [Server -> BOOLEAN]
    /\ currentServer \in [Server -> (SUBSET Cs) \cup {Nil}]
    /\ alreadyConnectingServers \in [Server -> SUBSET Cs]
    /\ threads \in [Server -> [Cs -> Nat]]
    /\ gAllLogicConnectionServerClient \in [Server -> [Cs -> Conn \cup {Nil}]]
    /\ logicEnd \in [Conn -> LogicEnd]
    /\ mIsSuccess \in [Conn -> BOOLEAN]
    /\ mConnectionServerID \in [Conn -> Cs \cup {Nil}]
    /\ owner \in [Conn -> Server \cup {Nil}]
    /\ target \in [Conn -> Cs \cup {Nil}]
    /\ up \in [Conn -> BOOLEAN]
    /\ toCs \in [Conn -> Seq(Message)]
    /\ toLogic \in [Conn -> Seq(Message)]

\* The assertion of onMsg: when a login is accepted, no other connection to that
\* server is in the table, whatever the threads of tryCompareConnect did.
LoginFindsNoEntry ==
    \A x \in Conn :
        (logicEnd[x] = "open" /\ toLogic[x] # <<>> /\ Head(toLogic[x]) = "accepted")
            => gAllLogicConnectionServerClient[owner[x]][target[x]] = Nil

\* The connections from n to k that logged in, until their close is handled.
LoggedIn(n, k) ==
    {x \in Conn : owner[x] = n /\ target[x] = k /\ logicEnd[x] = "open" /\ mIsSuccess[x]}

\* Of a logic server's connections to one connection server only one logs in at a
\* time; alreadyConnectingServers has the server exactly while there is one, so that
\* the server is neither used twice nor given up for good, and what the table of
\* connections has for the server is that one.
OneLogin ==
    \A n \in Server, k \in Cs :
        /\ \A x, y \in LoggedIn(n, k) : x = y
        /\ k \in alreadyConnectingServers[n] <=> LoggedIn(n, k) # {}
        /\ gAllLogicConnectionServerClient[n][k] \in LoggedIn(n, k) \cup {Nil}

\* A connection server that stays up is connected to in the end, by every logic
\* server that stays up, however often the connection breaks and either is restarted.
ServerIsConnected ==
    \A n \in Server, k \in Cs :
        (running[n] /\ csUp[k]) ~> (LoggedIn(n, k) # {} \/ ~running[n] \/ ~csUp[k])

-----------------------------------------------------------------------------
(* What the documentation says and the code does not do *)

\* README.md:8 (with etcd the logic servers notice that a connection server was added
\* or lost): a connection server that stays up can be used in the end, by every logic
\* server that stays up, unless the connection that logged in breaks.
Broken(n, k) == \E x \in LoggedIn(n, k) : ~up[x]

ServerIsUsable ==
    \A n \in Server, k \in Cs :
        (running[n] /\ csUp[k]) ~>
            (gAllLogicConnectionServerClient[n][k] # Nil \/ Broken(n, k) \/ ~running[n] \/ ~csUp[k])
===============================================================================
