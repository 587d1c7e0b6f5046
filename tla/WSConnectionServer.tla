-------------------------- MODULE WSConnectionServer --------------------------
(***************************************************************************)
(* The connection server of src/DDServerFramework/src/WSConnectionServer.  *)
(* It accepts game clients (ConnectionClientSession) and logic servers     *)
(* (LogicServerSession) and forwards messages between them.                *)
(*                                                                         *)
(* Every session is pinned to one event loop of the network library and    *)
(* each loop is a thread, so two sessions run concurrently unless they     *)
(* share a loop.  One step below touches shared memory once: one critical  *)
(* section of a registry's lock, one atomic load or store of a client's    *)
(* server pointer, one push to another session's loop.                     *)
(*                                                                         *)
(* A std::unordered_map of logic servers maps an ID to a session, to a     *)
(* null pointer (Nil: operator[] of a key that was missing inserted it) or *)
(* has no such key (Absent).  A client is named by its runtime ID.         *)
(***************************************************************************)
EXTENDS Naturals, Sequences

CONSTANTS
    Client,       \* the client sessions
    Link,         \* the logic-server sessions, one per accepted connection
    Id,           \* the IDs logic servers log in with
    NoId,         \* the -1 of "no ID"
    Nil,          \* the null session pointer
    Absent,       \* no entry under this key
    LoopOf,       \* LoopOf[s]: the event loop of session s
    LoginAs,      \* LoginAs[l]: the kinds and IDs the server on connection l may log in with
    LoginLimit,   \* LoginLimit[l], a bound: logins it sends
    PacketLimit,  \* bound: packets one client sends
    OrderLimit    \* OrderLimit[l], a bound: orders (set, kick, downstream) it sends

Kind == {"primary", "slave"}

ASSUME ConstantsAssumption ==
    /\ NoId \notin Id
    /\ Nil \notin Link /\ Absent \notin Link /\ Nil # Absent
    /\ LoginAs \in [Link -> SUBSET (Kind \X Id)]
    /\ PacketLimit \in Nat /\ OrderLimit \in [Link -> Nat] /\ LoginLimit \in [Link -> Nat]

VARIABLES
    gAllServers,       \* [kind][id]: gAllPrimaryServers and gAllSlaveServers
    gAllClientObject,  \* the clients that can be found by runtime ID
    crashed,           \* the process dereferenced a null session
    status,            \* [c]: where the connection of client c is in its life
    bound,             \* [c][kind]: mPrimaryServer and mSlaveServer
    boundInTime,       \* [c][kind]: history, the last store came before the 2-minute timer fired
    mReconnecting,     \* [c]
    mRecvSerialID,     \* [c]
    asyncProcs,        \* [c]: what other loops pushed to the loop of c, oldest first
    sent,              \* [c]: the packets written to the client's socket
    frame,             \* [c]: the handler the loop of c is in, and its locals
    mID,               \* [l]
    mIsPrimary,        \* [l]
    accepted,          \* [l]: history, the kinds and IDs l was registered under
    overwrote,         \* history: those under which a login replaced another session
    logins, orders,    \* [l]: number of logins and of orders received on l
    linkOpen,          \* [l]: the connection is up
    lframe,            \* [l]: the handler the loop of l is in, and its locals
    toServer           \* [l]: the messages posted to l, oldest first

vars == <<gAllServers, gAllClientObject, crashed, status, bound, boundInTime,
          mReconnecting, mRecvSerialID, asyncProcs, sent, frame,
          mID, mIsPrimary, accepted, overwrote, logins, orders, linkOpen, lframe, toServer>>

clientVars == <<status, bound, boundInTime, mReconnecting, mRecvSerialID, asyncProcs, sent, frame>>
loginVars == <<mIsPrimary, accepted, overwrote, logins>>
linkVars == <<mID, loginVars, linkOpen, orders, lframe>>

-----------------------------------------------------------------------------
(* Values *)

Status == {"new", "open", "closing", "closed", "expired", "forgotten"}
Server == Link \cup {Nil}
PacketOp == {"primaryOp", "gameOp"}   \* is the op in PRIMARY_OPS or not

\* What a handler of a client's loop keeps on its stack: `at` is the next step,
\* primary and slave the two pointers procPacket loaded, id and found what
\* claimPrimaryServer has so far, kind and timer the part of
\* notifyServerPlayerExist that runs and whether the timer's closure called it.
Frame == [at : {"idle", "asked", "slave", "reload", "claim", "find", "store", "forward",
                "notify", "check", "tellAll", "erase"},
          op : PacketOp, primary : Server, slave : Server,
          id : Id \cup {NoId}, found : Server, kind : Kind, timer : BOOLEAN]

Idle == [at |-> "idle", op |-> "gameOp", primary |-> Nil, slave |-> Nil,
         id |-> NoId, found |-> Nil, kind |-> "primary", timer |-> FALSE]

\* The same for a logic server's loop: kind and id are those of a login or of a SET
\* order, client and server the order's and what it found, copy the clients
\* KickClientOfPrimary has still to visit.
LinkFrame == [at : {"idle", "add", "reply", "find", "store", "kick"},
              kind : Kind, id : Id \cup {NoId}, client : Client \cup {Nil}, server : Server,
              copy : SUBSET Client]

LinkIdle == [at |-> "idle", kind |-> "primary", id |-> NoId, client |-> Nil, server |-> Nil,
             copy |-> {}]

Message == [op : {"upstream", "reconnect", "close"}, client : Client, n : Nat]
Proc == [proc : {"notify", "send"}, from : Server, n : Nat]

Connected(c) == status[c] \in {"open", "closing"}
At(c, step) == frame[c].at = step
LinkAt(l, step) == lframe[l].at = step

\* The loop of s is in no handler of another session.
Free(s) ==
    /\ \A c \in Client : c # s /\ LoopOf[c] = LoopOf[s] => At(c, "idle")
    /\ \A l \in Link : l # s /\ LoopOf[l] = LoopOf[s] => LinkAt(l, "idle")

-----------------------------------------------------------------------------
(* LogicServerSessionMgr: each of these is one critical section *)

\* Mutant: Find looks in the map of primaries whatever the kind.
MutFindPrimary(kind, id) ==
    IF gAllServers["primary"][id] \in Link THEN gAllServers["primary"][id] ELSE Nil

\* FindPrimaryLogicServer, FindSlaveLogicServer: operator[] inserts a null entry.
Find(kind, id) == IF gAllServers[kind][id] \in Link THEN gAllServers[kind][id] ELSE Nil
FindInserts(kind, id) ==
    gAllServers' = [gAllServers EXCEPT ![kind][id] = IF @ = Absent THEN Nil ELSE @]

\* AddPrimaryLogicServer, AddSlaveLogicServer.
AddServer(kind, id, l) == gAllServers' = [gAllServers EXCEPT ![kind][id] = l]

\* Mutant: both removals erase from the map of primaries.
MutRemoveServer(kind, id) == gAllServers' = [gAllServers EXCEPT !["primary"][id] = Absent]

\* RemovePrimaryLogicServer, RemoveSlaveLogicServer.
RemoveServer(kind, id) == gAllServers' = [gAllServers EXCEPT ![kind][id] = Absent]

\* The keys ClaimPrimaryLogicServer draws from.
PrimaryKeys == {id \in Id : gAllServers["primary"][id] # Absent}

-----------------------------------------------------------------------------
(* Sending to logic servers *)

Post(l, m) == toServer' = [toServer EXCEPT ![l] = Append(@, m)]

Registered(kind) == {l \in Link : \E id \in Id : gAllServers[kind][id] = l}

\* Send m to every session GetAllPrimaryLogicServer or GetAllSlaveLogicServer
\* returns; a null one in the list is dereferenced, and nothing posted is sent.
PostAll(kind, m) ==
    IF \E id \in Id : gAllServers[kind][id] = Nil
    THEN crashed' = TRUE /\ UNCHANGED toServer
    ELSE /\ toServer' = [l \in Link |-> IF l \in Registered(kind)
                                       THEN Append(toServer[l], m) ELSE toServer[l]]
         /\ UNCHANGED crashed

CloseClientACK(c) == [op |-> "close", client |-> c, n |-> 0]

-----------------------------------------------------------------------------
(* A client session *)

\* helpSendPacket of a client's session: a closed socket takes nothing.
WriteToClient(c, p) ==
    sent' = IF Connected(c) THEN [sent EXCEPT ![c] = Append(@, p)] ELSE sent

Push(c, p) == asyncProcs' = [asyncProcs EXCEPT ![c] = Append(@, p)]

\* onEnter: make the runtime ID and register under it.
ClientEnter(c) ==
    /\ status[c] = "new"
    /\ status' = [status EXCEPT ![c] = "open"]
    /\ gAllClientObject' = gAllClientObject \cup {c}
    /\ UNCHANGED <<gAllServers, crashed, bound, boundInTime, mReconnecting, mRecvSerialID,
                   asyncProcs, sent, frame, linkVars, toServer>>

\* The head of procPacket.
Recv(c) ==
    /\ Connected(c) /\ At(c, "idle")
    /\ mRecvSerialID[c] < PacketLimit
    /\ mRecvSerialID' = [mRecvSerialID EXCEPT ![c] = @ + 1]

\* procPacket of op 10000: answered on the spot.
Heartbeat(c) ==
    /\ Recv(c)
    /\ sent' = [sent EXCEPT ![c] = Append(@, [proc |-> "send", from |-> Nil, n |-> mRecvSerialID'[c]])]
    /\ UNCHANGED <<gAllServers, gAllClientObject, crashed, status, bound, boundInTime,
                   mReconnecting, asyncProcs, frame, linkVars, toServer>>

\* procPacket of op 91: only as the very first packet is it passed on, to every
\* primary; the flag is set in any case (ReconnectMark).
ReconnectAsk(c) ==
    /\ Recv(c)
    /\ IF mRecvSerialID'[c] = 1
       THEN PostAll("primary", [op |-> "reconnect", client |-> c, n |-> 1])
       ELSE UNCHANGED <<crashed, toServer>>
    /\ frame' = [frame EXCEPT ![c].at = "asked"]
    /\ UNCHANGED <<gAllServers, gAllClientObject, status, bound, boundInTime,
                   mReconnecting, asyncProcs, sent, linkVars>>

ReconnectMark(c) ==
    /\ At(c, "asked")
    /\ mReconnecting' = [mReconnecting EXCEPT ![c] = TRUE]
    /\ frame' = [frame EXCEPT ![c] = Idle]
    /\ UNCHANGED <<gAllServers, gAllClientObject, crashed, status, bound, boundInTime,
                   mRecvSerialID, asyncProcs, sent, linkVars, toServer>>

\* procPacket of any other op, up to the load of mPrimaryServer.
GamePacket(c, op) ==
    /\ Recv(c)
    /\ frame' = [frame EXCEPT ![c] = [Idle EXCEPT !.at = "slave", !.op = op,
                                                  !.primary = bound[c]["primary"]]]
    /\ UNCHANGED <<gAllServers, gAllClientObject, crashed, status, bound, boundInTime,
                   mReconnecting, asyncProcs, sent, linkVars, toServer>>

\* The load of mSlaveServer.
LoadSlave(c) ==
    /\ At(c, "slave")
    /\ frame' = [frame EXCEPT ![c].slave = bound[c]["slave"],
                              ![c].at = IF frame[c].primary = Nil THEN "reload" ELSE "forward"]
    /\ UNCHANGED <<gAllServers, gAllClientObject, crashed, status, bound, boundInTime,
                   mReconnecting, mRecvSerialID, asyncProcs, sent, linkVars, toServer>>

\* The test of mReconnecting and, in claimPrimaryServer, of the reloaded pointer.
\* Only this loop sets the flag, so reading both in one step loses nothing.
ClaimReload(c) ==
    /\ At(c, "reload")
    /\ frame' = [frame EXCEPT ![c].at = IF ~mReconnecting[c] /\ bound[c]["primary"] = Nil
                                        THEN "claim" ELSE "forward"]
    /\ UNCHANGED <<gAllServers, gAllClientObject, crashed, status, bound, boundInTime,
                   mReconnecting, mRecvSerialID, asyncProcs, sent, linkVars, toServer>>

\* ClaimPrimaryLogicServer: rand() over the keys of the map.
ClaimPick(c) ==
    /\ At(c, "claim")
    /\ \/ /\ PrimaryKeys = {}
          /\ frame' = [frame EXCEPT ![c].at = "forward"]
       \/ \E id \in PrimaryKeys :
            frame' = [frame EXCEPT ![c].id = id, ![c].at = "find"]
    /\ UNCHANGED <<gAllServers, gAllClientObject, crashed, status, bound, boundInTime,
                   mReconnecting, mRecvSerialID, asyncProcs, sent, linkVars, toServer>>

\* Mutant: the claimed key is looked up again without a test that it is still there.
MutClaimFind(c) ==
    /\ At(c, "find")
    /\ frame' = [frame EXCEPT ![c].found = gAllServers["primary"][frame[c].id], ![c].at = "store"]
    /\ UNCHANGED <<gAllServers, gAllClientObject, crashed, status, bound, boundInTime,
                   mReconnecting, mRecvSerialID, asyncProcs, sent, linkVars, toServer>>

ClaimFind(c) ==
    /\ At(c, "find")
    /\ FindInserts("primary", frame[c].id)
    /\ frame' = [frame EXCEPT ![c].found = Find("primary", frame[c].id), ![c].at = "store"]
    /\ UNCHANGED <<gAllClientObject, crashed, status, bound, boundInTime,
                   mReconnecting, mRecvSerialID, asyncProcs, sent, linkVars, toServer>>

\* An atomic_store to mPrimaryServer or mSlaveServer.
Bind(c, kind, server) ==
    /\ bound' = [bound EXCEPT ![c][kind] = server]
    /\ boundInTime' = [boundInTime EXCEPT ![c][kind] = status[c] \notin {"expired", "forgotten"}]

ClaimStore(c) ==
    /\ At(c, "store")
    /\ Bind(c, "primary", frame[c].found)
    /\ frame' = [frame EXCEPT ![c].at = "forward"]
    /\ UNCHANGED <<gAllServers, gAllClientObject, crashed, status, mReconnecting,
                   mRecvSerialID, asyncProcs, sent, linkVars, toServer>>

\* The end of procPacket.  It uses the pointers loaded before the claim.
Target(c) == IF frame[c].op = "gameOp" /\ frame[c].slave # Nil
             THEN frame[c].slave ELSE frame[c].primary

\* Mutant: the slave branch falls through to the primary one.
MutForward(c) ==
    /\ At(c, "forward")
    /\ toServer' = [l \in Link |->
           IF l = frame[c].primary \/ (frame[c].op = "gameOp" /\ l = frame[c].slave)
           THEN Append(toServer[l], [op |-> "upstream", client |-> c, n |-> mRecvSerialID[c]])
           ELSE toServer[l]]
    /\ frame' = [frame EXCEPT ![c] = Idle]
    /\ UNCHANGED <<gAllServers, gAllClientObject, crashed, status, bound, boundInTime,
                   mReconnecting, mRecvSerialID, asyncProcs, sent, linkVars>>

Forward(c) ==
    /\ At(c, "forward")
    /\ IF Target(c) = Nil
       THEN UNCHANGED toServer
       ELSE Post(Target(c), [op |-> "upstream", client |-> c, n |-> mRecvSerialID[c]])
    /\ frame' = [frame EXCEPT ![c] = Idle]
    /\ UNCHANGED <<gAllServers, gAllClientObject, crashed, status, bound, boundInTime,
                   mReconnecting, mRecvSerialID, asyncProcs, sent, linkVars>>

\* Mutant: a close the server posted itself starts no timer.
MutClientClose(c) ==
    /\ Connected(c) /\ At(c, "idle")
    /\ status' = [status EXCEPT ![c] = IF @ = "closing" THEN "expired" ELSE "closed"]
    /\ UNCHANGED <<gAllServers, gAllClientObject, crashed, bound, boundInTime, mReconnecting,
                   mRecvSerialID, asyncProcs, sent, frame, linkVars, toServer>>

\* onClose: the network closed the socket, or a posted close took effect; the
\* 2-minute timer starts.
ClientClose(c) ==
    /\ Connected(c) /\ At(c, "idle")
    /\ status' = [status EXCEPT ![c] = "closed"]
    /\ UNCHANGED <<gAllServers, gAllClientObject, crashed, bound, boundInTime, mReconnecting,
                   mRecvSerialID, asyncProcs, sent, frame, linkVars, toServer>>

NotifyFrame(timer) == [Idle EXCEPT !.at = "notify", !.timer = timer]

TimerFires(c) ==
    /\ status[c] = "closed" /\ At(c, "idle")
    /\ status' = [status EXCEPT ![c] = "expired"]
    /\ frame' = [frame EXCEPT ![c] = NotifyFrame(TRUE)]
    /\ UNCHANGED <<gAllServers, gAllClientObject, crashed, bound, boundInTime, mReconnecting,
                   mRecvSerialID, asyncProcs, sent, linkVars, toServer>>

\* The loop runs the oldest closure pushed to it: the notification of a kick, or
\* the sending of a downstream packet (lost once the socket is closed).
RunAsyncProc(c) ==
    /\ At(c, "idle") /\ asyncProcs[c] # <<>>
    /\ asyncProcs' = [asyncProcs EXCEPT ![c] = Tail(@)]
    /\ IF Head(asyncProcs[c]).proc = "notify"
       THEN /\ frame' = [frame EXCEPT ![c] = NotifyFrame(FALSE)]
            /\ UNCHANGED sent
       ELSE /\ WriteToClient(c, Head(asyncProcs[c]))
            /\ UNCHANGED frame
    /\ UNCHANGED <<gAllServers, gAllClientObject, crashed, status, bound, boundInTime,
                   mReconnecting, mRecvSerialID, linkVars, toServer>>

\* Mutant: notifyServerPlayerExist returns once a primary was dealt with.
MutNotifyDone(c) ==
    frame' = [frame EXCEPT ![c] = IF frame[c].timer THEN [@ EXCEPT !.at = "erase"] ELSE Idle]

\* notifyServerPlayerExist, first for the primary and then for the slave: a bound
\* server is told; with none bound, a client that is reconnecting makes every
\* server of the kind be told.
NotifyDone(c) ==
    frame' = [frame EXCEPT ![c] =
                IF frame[c].kind = "primary" THEN [@ EXCEPT !.at = "notify", !.kind = "slave"]
                ELSE IF frame[c].timer THEN [@ EXCEPT !.at = "erase"]
                ELSE Idle]

NotifyLoad(c) ==
    /\ At(c, "notify")
    /\ LET server == bound[c][frame[c].kind] IN
       IF server # Nil
       THEN Post(server, CloseClientACK(c)) /\ NotifyDone(c)
       ELSE UNCHANGED toServer /\ frame' = [frame EXCEPT ![c].at = "check"]
    /\ UNCHANGED <<gAllServers, gAllClientObject, crashed, status, bound, boundInTime,
                   mReconnecting, mRecvSerialID, asyncProcs, sent, linkVars>>

NotifyCheck(c) ==
    /\ At(c, "check")
    /\ IF mReconnecting[c] THEN frame' = [frame EXCEPT ![c].at = "tellAll"] ELSE NotifyDone(c)
    /\ UNCHANGED <<gAllServers, gAllClientObject, crashed, status, bound, boundInTime,
                   mReconnecting, mRecvSerialID, asyncProcs, sent, linkVars, toServer>>

NotifyAll(c) ==
    /\ At(c, "tellAll")
    /\ PostAll(frame[c].kind, CloseClientACK(c))
    /\ NotifyDone(c)
    /\ UNCHANGED <<gAllServers, gAllClientObject, status, bound, boundInTime,
                   mReconnecting, mRecvSerialID, asyncProcs, sent, linkVars>>

\* The end of the timer's closure.
EraseClient(c) ==
    /\ At(c, "erase")
    /\ gAllClientObject' = gAllClientObject \ {c}
    /\ status' = [status EXCEPT ![c] = "forgotten"]
    /\ frame' = [frame EXCEPT ![c] = Idle]
    /\ UNCHANGED <<gAllServers, crashed, bound, boundInTime, mReconnecting, mRecvSerialID,
                   asyncProcs, sent, linkVars, toServer>>

-----------------------------------------------------------------------------
(* A logic-server session *)

\* onLogicServerLogin: find, and refuse if a session is found; otherwise add, then set
\* the members and reply.  Nothing asks whether this session has logged in before.
LoginFind(l, kind, id) ==
    /\ linkOpen[l] /\ LinkAt(l, "idle")
    /\ <<kind, id>> \in LoginAs[l] /\ logins[l] < LoginLimit[l]
    /\ logins' = [logins EXCEPT ![l] = @ + 1]
    /\ FindInserts(kind, id)
    /\ lframe' = IF Find(kind, id) = Nil
                 THEN [lframe EXCEPT ![l] = [LinkIdle EXCEPT !.at = "add", !.kind = kind, !.id = id]]
                 ELSE lframe
    /\ UNCHANGED <<gAllClientObject, crashed, clientVars, mID, mIsPrimary, accepted, overwrote,
                   linkOpen, orders, toServer>>

LoginAdd(l) ==
    LET entry == <<lframe[l].kind, lframe[l].id>> IN
    /\ LinkAt(l, "add")
    /\ AddServer(lframe[l].kind, lframe[l].id, l)
    /\ accepted' = [accepted EXCEPT ![l] = @ \cup {entry}]
    /\ overwrote' = IF Find(lframe[l].kind, lframe[l].id) = Nil THEN overwrote
                    ELSE overwrote \cup {entry}
    /\ lframe' = [lframe EXCEPT ![l].at = "reply"]
    /\ UNCHANGED <<gAllClientObject, crashed, clientVars, mID, mIsPrimary, logins, linkOpen,
                   orders, toServer>>

LoginReply(l) ==
    /\ LinkAt(l, "reply")
    /\ mIsPrimary' = [mIsPrimary EXCEPT ![l] = lframe[l].kind = "primary"]
    /\ mID' = [mID EXCEPT ![l] = lframe[l].id]
    /\ lframe' = [lframe EXCEPT ![l] = LinkIdle]
    /\ UNCHANGED <<gAllServers, gAllClientObject, crashed, clientVars, accepted, overwrote, logins,
                   linkOpen, orders, toServer>>

\* An order, logged in or not, about a client some logic server has heard of (logic
\* servers tell each other about clients).
Heard(c) == \E l \in Link : \E i \in DOMAIN toServer[l] : toServer[l][i].client = c

Order(l, c) ==
    /\ linkOpen[l] /\ LinkAt(l, "idle")
    /\ orders[l] < OrderLimit[l]
    /\ Heard(c)
    /\ orders' = [orders EXCEPT ![l] = @ + 1]

\* onSetPlayerPrimaryServer (the server under mID is to be the client's primary),
\* onIsSetPlayerSlaveServer (that, or no server, its slave), whatever kind this
\* session is of: find the client.
SetServer(l, c, kind, willset) ==
    LET id == IF willset THEN mID[l] ELSE NoId IN
    /\ Order(l, c)
    /\ kind = "primary" => willset
    /\ IF c \in gAllClientObject
       THEN lframe' = [lframe EXCEPT ![l] = [LinkIdle EXCEPT
                !.client = c, !.kind = kind, !.id = id, !.at = IF id = NoId THEN "store" ELSE "find"]]
       ELSE UNCHANGED lframe
    /\ UNCHANGED <<gAllServers, gAllClientObject, crashed, clientVars, mID, loginVars, linkOpen, toServer>>

\* setPrimaryServerID, setSlaveServerID: find the session under the ID, unless it is
\* NoId, ...
SetFind(l) ==
    /\ LinkAt(l, "find")
    /\ FindInserts(lframe[l].kind, lframe[l].id)
    /\ lframe' = [lframe EXCEPT ![l].server = Find(lframe[l].kind, lframe[l].id), ![l].at = "store"]
    /\ mReconnecting' = IF lframe[l].kind = "primary"
                        THEN [mReconnecting EXCEPT ![lframe[l].client] = FALSE] ELSE mReconnecting
    /\ UNCHANGED <<gAllClientObject, crashed, status, bound, boundInTime, mRecvSerialID,
                   asyncProcs, sent, frame, mID, loginVars, linkOpen, orders, toServer>>

\* ... and store it in the client.
SetStore(l) ==
    /\ LinkAt(l, "store")
    /\ Bind(lframe[l].client, lframe[l].kind, lframe[l].server)
    /\ lframe' = [lframe EXCEPT ![l] = LinkIdle]
    /\ UNCHANGED <<gAllServers, gAllClientObject, crashed, status, mReconnecting, mRecvSerialID,
                   asyncProcs, sent, frame, mID, loginVars, linkOpen, orders, toServer>>

\* Mutant: the notification is posted, the close is not.
MutKick(c) ==
    /\ asyncProcs' = IF c \in gAllClientObject
                     THEN [asyncProcs EXCEPT ![c] =
                              Append(@, [proc |-> "notify", from |-> Nil, n |-> 0])]
                     ELSE asyncProcs
    /\ UNCHANGED status

\* KickClientByRuntimeID: post a close and, whatever comes of it, a notification.
Kick(c) ==
    IF c \in gAllClientObject
    THEN /\ status' = IF status[c] = "open" THEN [status EXCEPT ![c] = "closing"] ELSE status
         /\ asyncProcs' = [asyncProcs EXCEPT ![c] =
                              Append(@, [proc |-> "notify", from |-> Nil, n |-> 0])]
    ELSE UNCHANGED <<status, asyncProcs>>

\* onKickClientByRuntimeID.
KickClient(l, c) ==
    /\ Order(l, c)
    /\ Kick(c)
    /\ UNCHANGED <<gAllServers, gAllClientObject, crashed, bound, boundInTime, mReconnecting,
                   mRecvSerialID, sent, frame, mID, loginVars, linkOpen, lframe, toServer>>

\* Mutant: the packet is written at once whenever the client's loop is in no handler,
\* even if others wait for it.
MutDownstream(l, c) ==
    LET p == [proc |-> "send", from |-> l, n |-> orders'[l]] IN
    /\ Order(l, c)
    /\ \/ c \in gAllClientObject /\ At(c, "idle") /\ WriteToClient(c, p) /\ UNCHANGED asyncProcs
       \/ c \in gAllClientObject /\ ~At(c, "idle") /\ Push(c, p) /\ UNCHANGED sent
       \/ c \notin gAllClientObject /\ UNCHANGED <<sent, asyncProcs>>
    /\ UNCHANGED <<gAllServers, gAllClientObject, crashed, status, bound, boundInTime,
                   mReconnecting, mRecvSerialID, frame, mID, loginVars, linkOpen, lframe, toServer>>

\* onPacket2ClientByRuntimeID, for one of the clients it names: written at once if the
\* client's loop is this one, pushed to it if it is another.
Downstream(l, c) ==
    LET p == [proc |-> "send", from |-> l, n |-> orders'[l]] IN
    /\ Order(l, c)
    /\ \/ /\ c \in gAllClientObject /\ LoopOf[l] = LoopOf[c]
          /\ WriteToClient(c, p) /\ UNCHANGED asyncProcs
       \/ /\ c \in gAllClientObject /\ LoopOf[l] # LoopOf[c]
          /\ Push(c, p) /\ UNCHANGED sent
       \/ c \notin gAllClientObject /\ UNCHANGED <<sent, asyncProcs>>
    /\ UNCHANGED <<gAllServers, gAllClientObject, crashed, status, bound, boundInTime,
                   mReconnecting, mRecvSerialID, frame, mID, loginVars, linkOpen, lframe, toServer>>

\* The end of onClose.
Forget(l) ==
    /\ mIsPrimary' = [mIsPrimary EXCEPT ![l] = FALSE]
    /\ mID' = [mID EXCEPT ![l] = NoId]

\* onClose.  For a primary KickClientOfPrimary first copies the client map and
\* then visits the clients of the copy one at a time (LinkKick).
LinkClose(l) ==
    /\ linkOpen[l] /\ LinkAt(l, "idle")
    /\ linkOpen' = [linkOpen EXCEPT ![l] = FALSE]
    /\ \/ /\ mID[l] = NoId
          /\ UNCHANGED <<gAllServers, mID, mIsPrimary, lframe>>
       \/ /\ mID[l] # NoId /\ mIsPrimary[l]
          /\ lframe' = [lframe EXCEPT ![l] = [LinkIdle EXCEPT !.at = "kick", !.copy = gAllClientObject]]
          /\ UNCHANGED <<gAllServers, mID, mIsPrimary>>
       \/ /\ mID[l] # NoId /\ ~mIsPrimary[l]
          /\ RemoveServer("slave", mID[l])
          /\ Forget(l)
          /\ UNCHANGED lframe
    /\ UNCHANGED <<gAllClientObject, crashed, clientVars, accepted, overwrote, logins, orders, toServer>>

\* getPrimaryServerID of a client.
PrimaryIdOf(c) == IF bound[c]["primary"] = Nil THEN NoId ELSE mID[bound[c]["primary"]]

LinkKick(l) ==
    /\ LinkAt(l, "kick")
    /\ \E c \in lframe[l].copy :
         /\ lframe' = [lframe EXCEPT ![l].copy = @ \ {c}]
         /\ IF PrimaryIdOf(c) = mID[l] THEN Kick(c) ELSE UNCHANGED <<status, asyncProcs>>
    /\ UNCHANGED <<gAllServers, gAllClientObject, crashed, bound, boundInTime, mReconnecting,
                   mRecvSerialID, sent, frame, mID, loginVars, linkOpen, orders, toServer>>

LinkUnregister(l) ==
    /\ LinkAt(l, "kick") /\ lframe[l].copy = {}
    /\ RemoveServer("primary", mID[l])
    /\ Forget(l)
    /\ lframe' = [lframe EXCEPT ![l] = LinkIdle]
    /\ UNCHANGED <<gAllClientObject, crashed, clientVars, accepted, overwrote, logins, linkOpen,
                   orders, toServer>>

-----------------------------------------------------------------------------
(* The specification *)

Init ==
    /\ gAllServers = [kind \in Kind |-> [id \in Id |-> Absent]]
    /\ gAllClientObject = {}
    /\ crashed = FALSE
    /\ status = [c \in Client |-> "new"]
    /\ bound = [c \in Client |-> [kind \in Kind |-> Nil]]
    /\ boundInTime = [c \in Client |-> [kind \in Kind |-> FALSE]]
    /\ mReconnecting = [c \in Client |-> FALSE]
    /\ mRecvSerialID = [c \in Client |-> 0]
    /\ asyncProcs = [c \in Client |-> <<>>]
    /\ sent = [c \in Client |-> <<>>]
    /\ frame = [c \in Client |-> Idle]
    /\ mID = [l \in Link |-> NoId]
    /\ mIsPrimary = [l \in Link |-> FALSE]
    /\ accepted = [l \in Link |-> {}] /\ overwrote = {}
    /\ logins = [l \in Link |-> 0]
    /\ linkOpen = [l \in Link |-> TRUE]
    /\ orders = [l \in Link |-> 0]
    /\ lframe = [l \in Link |-> LinkIdle]
    /\ toServer = [l \in Link |-> <<>>]

\* The steps a client's loop takes by itself once it has something to do.
ClientLoop(c) ==
    \/ ReconnectMark(c) \/ LoadSlave(c) \/ ClaimReload(c) \/ ClaimPick(c) \/ ClaimFind(c)
    \/ ClaimStore(c) \/ Forward(c) \/ TimerFires(c) \/ RunAsyncProc(c)
    \/ NotifyLoad(c) \/ NotifyCheck(c) \/ NotifyAll(c) \/ EraseClient(c)

\* What the network brings to a client's session.
ClientInput(c) ==
    \/ ClientEnter(c) \/ Heartbeat(c) \/ ReconnectAsk(c) \/ ClientClose(c)
    \/ \E op \in PacketOp : GamePacket(c, op)

LinkLoop(l) ==
    \/ LoginAdd(l) \/ LoginReply(l) \/ SetFind(l) \/ SetStore(l) \/ LinkKick(l) \/ LinkUnregister(l)

LinkInput(l) ==
    \/ LinkClose(l)
    \/ \E kind \in Kind, id \in Id : LoginFind(l, kind, id)
    \/ \E c \in Client :
         \/ KickClient(l, c) \/ Downstream(l, c)
         \/ \E kind \in Kind, willset \in BOOLEAN : SetServer(l, c, kind, willset)

Next ==
    /\ ~crashed
    /\ \/ \E c \in Client : Free(c) /\ (ClientLoop(c) \/ ClientInput(c))
       \/ \E l \in Link : Free(l) /\ (LinkLoop(l) \/ LinkInput(l))

\* A loop keeps running what it has started, what was pushed to it and its
\* timers; a posted close takes effect.
Fairness ==
    /\ \A c \in Client :
         /\ WF_vars(~crashed /\ Free(c) /\ ClientLoop(c))
         /\ WF_vars(~crashed /\ Free(c) /\ status[c] = "closing" /\ ClientClose(c))
    /\ \A l \in Link : WF_vars(~crashed /\ Free(l) /\ LinkLoop(l))

Spec == Init /\ [][Next]_vars /\ Fairness

-----------------------------------------------------------------------------
(* Properties *)

\* The types of all variables.
TypeOK ==
    /\ gAllServers \in [Kind -> [Id -> Link \cup {Nil, Absent}]]
    /\ gAllClientObject \in SUBSET Client
    /\ crashed \in BOOLEAN
    /\ status \in [Client -> Status]
    /\ bound \in [Client -> [Kind -> Server]]
    /\ boundInTime \in [Client -> [Kind -> BOOLEAN]]
    /\ mReconnecting \in [Client -> BOOLEAN]
    /\ mRecvSerialID \in [Client -> Nat]
    /\ asyncProcs \in [Client -> Seq(Proc)]
    /\ sent \in [Client -> Seq(Proc)]
    /\ frame \in [Client -> Frame]
    /\ mID \in [Link -> Id \cup {NoId}]
    /\ mIsPrimary \in [Link -> BOOLEAN]
    /\ accepted \in [Link -> SUBSET (Kind \X (Id \cup {NoId}))]
    /\ overwrote \in SUBSET (Kind \X (Id \cup {NoId}))
    /\ logins \in [Link -> Nat]
    /\ linkOpen \in [Link -> BOOLEAN]
    /\ orders \in [Link -> Nat]
    /\ lframe \in [Link -> LinkFrame]
    /\ toServer \in [Link -> Seq(Message)]

\* A session that has finished closing stays in a registry only under a kind and ID
\* it left behind by logging in again (onLogicServerLogin overwrites mID and onClose
\* erases under the mID it finds): never, however sessions race for one ID and close,
\* a session that was accepted once.
RegisteredServerIsLive ==
    \A kind \in Kind, id \in Id, l \in Link :
        gAllServers[kind][id] = l =>
            \/ linkOpen[l] \/ LinkAt(l, "kick")
            \/ \E other \in accepted[l] : other # <<kind, id>>

\* A client's primary has logged in as a primary and its slave as a slave, through
\* every path that stores the pointers.
BoundToItsKind ==
    \A c \in Client, kind \in Kind :
        bound[c][kind] # Nil => \E id \in Id : <<kind, id>> \in accepted[bound[c][kind]]

\* A session that is logged in is found under its kind and ID until it closes: of all
\* that logs in under other IDs, or under the same one before or later, of the null
\* entries of operator[] and of other sessions' onClose, only a second login that
\* passed the look-up before the first was added (LogicServerSession.cpp:192, :200)
\* takes the entry from it.
KindNow(l) == IF mIsPrimary[l] THEN "primary" ELSE "slave"

AcceptedServerIsRegistered ==
    \A l \in Link :
        linkOpen[l] /\ mID[l] # NoId /\ <<KindNow(l), mID[l]>> \notin overwrote
            => gAllServers[KindNow(l)][mID[l]] = l

Told(l, c) == \E i \in DOMAIN toServer[l] : toServer[l][i] = CloseClientACK(c)

\* A client is forgotten only after the servers bound to it have been told that
\* it left, whoever bound them (the claim of the first packet, a reconnect, a slave
\* order) and however late, up to the moment the 2-minute timer of onClose fires.
DisconnectReachesServers ==
    \A c \in Client, kind \in Kind :
        status[c] = "forgotten" /\ bound[c][kind] # Nil /\ boundInTime[c][kind]
            => Told(bound[c][kind], c)

\* A packet of a client is posted to at most one logic server and only once,
\* except the reconnect request.
ForwardedOnce ==
    \A k, l \in Link : \A i \in DOMAIN toServer[k], j \in DOMAIN toServer[l] :
        /\ toServer[k][i].op = "upstream"
        /\ toServer[k][i] = toServer[l][j]
        => k = l /\ i = j

\* What a logic server sends to a client reaches the client's socket in the order
\* it was sent, although it is handed from loop to loop.
DownstreamInOrder ==
    \A c \in Client : \A i, j \in DOMAIN sent[c] :
        i < j /\ sent[c][i].from = sent[c][j].from => sent[c][i].n < sent[c][j].n

\* A client whose connection closed, or was kicked, is eventually forgotten.
ClosedIsForgotten ==
    \A c \in Client : status[c] \in {"closing", "closed"} ~> (status[c] = "forgotten" \/ crashed)

\* A client bound to a primary when that primary's onClose copies the client map
\* is kicked (or closes, or is bound elsewhere first).
KickedWithPrimary ==
    \A c \in Client, l \in Link :
        (LinkAt(l, "kick") /\ c \in lframe[l].copy /\ bound[c]["primary"] = l /\ status[c] = "open")
            ~> (status[c] # "open" \/ bound[c]["primary"] # l \/ crashed)

-----------------------------------------------------------------------------
(* What the documentation or comments say and the code does not do *)

\* LogicServerSession.cpp:215 (the reason of a refusal: a logic server with this ID
\* exists already): no two sessions are logged in under one kind and ID.
OneServerPerId ==
    \A k, l \in Link :
        mID[k] # NoId /\ mID[k] = mID[l] /\ mIsPrimary[k] = mIsPrimary[l] => k = l

\* README.md:5 (the connection server forwards the messages of clients to the logic
\* servers): a packet is dropped only if its client has no primary.
DropsOnlyWithoutPrimary ==
    [][\A c \in Client : At(c, "forward") /\ frame'[c] = Idle /\ toServer' = toServer
            => bound[c]["primary"] = Nil]_vars

\* README.md:17 (the primary is assigned automatically and normally not reset,
\* except by a reconnect) and ClientSession.cpp:250 (only a link that has not asked
\* to reconnect is assigned one): the claim never replaces a primary by another.
ClaimNeverReplaces ==
    [][\A c \in Client : At(c, "store") /\ ~At(c, "store")'
            => bound[c]["primary"] \in {Nil, frame[c].found}]_vars

\* ClientSession.cpp:123 (a client that leaves while it is reconnecting makes every
\* server be told, since one of them may have accepted the reconnect and would
\* refuse the player later): the broadcast reaches every registered server.
BroadcastReachesServers ==
    [][\A c \in Client : At(c, "tellAll") /\ ~At(c, "tellAll")'
            => \A l \in Registered(frame[c].kind) : Told(l, c)']_vars
===============================================================================
