---------------------- MODULE WSConnectionServerProofs ----------------------
(***************************************************************************)
(* Proofs about WSConnectionServer, for every value of its constants: type *)
(* correctness, and from it the invariants of the registries of logic      *)
(* servers, of the clients' bindings and of the disconnect notification;   *)
(* then what it forwards: a packet of a client reaches one logic server    *)
(* once, and the packets of a logic server reach a client in their order.  *)
(***************************************************************************)
EXTENDS WSConnectionServer, TLAPS

-----------------------------------------------------------------------------
(* The values the handlers build *)

\* The empty frames of the loops are frames.
LEMMA IdleType == Idle \in Frame
  BY DEF Idle, Frame, Server, PacketOp, Kind

\* So is the one of the links.
LEMMA LinkIdleType == LinkIdle \in LinkFrame
  BY DEF LinkIdle, LinkFrame, Server, Kind

\* The frame of the notification is a frame.
LEMMA NotifyFrameType == \A b \in BOOLEAN : NotifyFrame(b) \in Frame
  BY DEF NotifyFrame, Idle, Frame, Server, PacketOp, Kind

\* Where a client's handler can be.
FrameAt == {"idle", "asked", "slave", "reload", "claim", "find", "store", "forward",
            "notify", "check", "tellAll", "erase"}

\* A frame stays a frame when one of its fields is set ...
LEMMA FrameField ==
    ASSUME NEW f \in Frame
    PROVE  /\ \A a \in FrameAt : [f EXCEPT !.at = a] \in Frame
           /\ \A s \in Server : [f EXCEPT !.slave = s] \in Frame
           /\ \A s \in Server : [f EXCEPT !.found = s] \in Frame
           /\ \A s \in Server : [f EXCEPT !.primary = s] \in Frame
           /\ \A op \in PacketOp : [f EXCEPT !.op = op] \in Frame
           /\ \A id \in Id : [f EXCEPT !.id = id] \in Frame
           /\ \A kind \in Kind : [f EXCEPT !.kind = kind] \in Frame
  <1>1. \A a \in FrameAt : [f EXCEPT !.at = a] \in Frame
    BY DEF Frame, FrameAt
  <1>2. \A s \in Server : [f EXCEPT !.slave = s] \in Frame /\ [f EXCEPT !.found = s] \in Frame
    BY DEF Frame
  <1>3. \A id \in Id : [f EXCEPT !.id = id] \in Frame
    BY DEF Frame
  <1>4. \A kind \in Kind : [f EXCEPT !.kind = kind] \in Frame
    BY DEF Frame
  <1>5. \A s \in Server : [f EXCEPT !.primary = s] \in Frame
    BY DEF Frame
  <1>6. \A op \in PacketOp : [f EXCEPT !.op = op] \in Frame
    BY DEF Frame
  <1>7. QED
    BY <1>1, <1>2, <1>3, <1>4, <1>5, <1>6

\* ... and the frames of all clients stay so when one of them becomes another frame.
LEMMA FrameUpdate ==
    ASSUME frame \in [Client -> Frame], NEW c \in Client, NEW f \in Frame
    PROVE  [frame EXCEPT ![c] = f] \in [Client -> Frame]
  OBVIOUS

\* What is pushed to a client's loop and posted to a logic server.
LEMMA ProcTypes ==
    /\ [proc |-> "notify", from |-> Nil, n |-> 0] \in Proc
    /\ \A s \in Server, k \in Nat : [proc |-> "send", from |-> s, n |-> k] \in Proc
  BY DEF Proc, Server

\* What the handlers of a client send is a message.
LEMMA MessageTypes ==
    \A c \in Client :
        /\ CloseClientACK(c) \in Message
        /\ \A k \in Nat : [op |-> "upstream", client |-> c, n |-> k] \in Message
        /\ [op |-> "reconnect", client |-> c, n |-> 1] \in Message
  BY DEF Message, CloseClientACK

-----------------------------------------------------------------------------
(* Type correctness *)

\* TypeOK holds at the start.
LEMMA TypeInit == Init => TypeOK
  <1> SUFFICES ASSUME Init PROVE TypeOK
    OBVIOUS
  <1>1. /\ frame \in [Client -> Frame] /\ lframe \in [Link -> LinkFrame]
        /\ status \in [Client -> Status]
    BY IdleType, LinkIdleType DEF Init, Status
  <1>2. /\ bound \in [Client -> [Kind -> Server]]
        /\ gAllServers \in [Kind -> [Id -> Link \cup {Nil, Absent}]]
    BY DEF Init, Server
  <1>3. /\ boundInTime \in [Client -> [Kind -> BOOLEAN]]
        /\ mReconnecting \in [Client -> BOOLEAN] /\ linkOpen \in [Link -> BOOLEAN]
        /\ crashed \in BOOLEAN
    BY DEF Init
  <1>4. /\ mRecvSerialID \in [Client -> Nat] /\ orders \in [Link -> Nat]
        /\ mID \in [Link -> Id \cup {NoId}] /\ gAllClientObject \in SUBSET Client
        /\ mIsPrimary \in [Link -> BOOLEAN] /\ logins \in [Link -> Nat]
        /\ accepted \in [Link -> SUBSET (Kind \X (Id \cup {NoId}))] /\ overwrote \in SUBSET (Kind \X (Id \cup {NoId}))
    BY DEF Init
  <1>5. /\ asyncProcs \in [Client -> Seq(Proc)] /\ sent \in [Client -> Seq(Proc)]
        /\ toServer \in [Link -> Seq(Message)]
    BY DEF Init
  <1>6. QED
    BY <1>1, <1>2, <1>3, <1>4, <1>5 DEF TypeOK

\* What the helpers return and leave behind.
LEMMA FindType ==
    ASSUME gAllServers \in [Kind -> [Id -> Link \cup {Nil, Absent}]], NEW kind, NEW id
    PROVE  Find(kind, id) \in Server
  BY DEF Find, Server

\* The target of a packet is a link or none.
LEMMA TargetType ==
    ASSUME frame \in [Client -> Frame], NEW c \in Client
    PROVE  Target(c) \in Server
  BY DEF Target, Frame

\* Posting a message to a link leaves messages only.
LEMMA PostType ==
    ASSUME toServer \in [Link -> Seq(Message)], NEW l \in Link, NEW m \in Message, Post(l, m)
    PROVE  toServer' \in [Link -> Seq(Message)]
  BY DEF Post

\* Posting one to all links does too.
LEMMA PostAllType ==
    ASSUME toServer \in [Link -> Seq(Message)], crashed \in BOOLEAN,
           NEW kind, NEW m \in Message, PostAll(kind, m)
    PROVE  toServer' \in [Link -> Seq(Message)] /\ crashed' \in BOOLEAN
  <1>1. \A l \in Link : Append(toServer[l], m) \in Seq(Message)
    OBVIOUS
  <1>2. QED
    BY <1>1 DEF PostAll

\* Binding a client leaves its bindings typed.
LEMMA BindType ==
    ASSUME bound \in [Client -> [Kind -> Server]], boundInTime \in [Client -> [Kind -> BOOLEAN]],
           NEW c, NEW kind, NEW s \in Server, Bind(c, kind, s)
    PROVE  bound' \in [Client -> [Kind -> Server]] /\ boundInTime' \in [Client -> [Kind -> BOOLEAN]]
  BY DEF Bind

\* The end of the notification leaves the frames typed.
LEMMA NotifyDoneType ==
    ASSUME frame \in [Client -> Frame], NEW c \in Client, NotifyDone(c)
    PROVE  frame' \in [Client -> Frame]
  <1>1. CASE frame[c].kind = "primary"
    <2>1. [frame[c] EXCEPT !.at = "notify"] \in Frame
      BY FrameField DEF FrameAt
    <2>2. [[frame[c] EXCEPT !.at = "notify"] EXCEPT !.kind = "slave"] \in Frame
      BY <2>1, FrameField DEF Kind
    <2>3. frame' = [frame EXCEPT ![c] = [[frame[c] EXCEPT !.at = "notify"]
                                            EXCEPT !.kind = "slave"]]
      BY <1>1 DEF NotifyDone
    <2>4. QED
      BY <2>2, <2>3, FrameUpdate
  <1>2. CASE frame[c].kind # "primary"
    BY <1>2, IdleType DEF NotifyDone, Frame, Kind
  <1>3. QED
    BY <1>1, <1>2

\* Kicking a client leaves its status and its queue typed.
LEMMA KickType ==
    ASSUME status \in [Client -> Status], asyncProcs \in [Client -> Seq(Proc)],
           NEW c \in Client, Kick(c)
    PROVE  status' \in [Client -> Status] /\ asyncProcs' \in [Client -> Seq(Proc)]
  <1>1. status' \in [Client -> Status]
    BY DEF Kick, Status
  <1>2. asyncProcs' \in [Client -> Seq(Proc)]
    <2>1. Append(asyncProcs[c], [proc |-> "notify", from |-> Nil, n |-> 0]) \in Seq(Proc)
      BY ProcTypes
    <2>2. QED
      BY <2>1 DEF Kick
  <1>3. QED
    BY <1>1, <1>2

\* The look-up that inserts leaves the registry typed.
LEMMA FindInsertsType ==
    ASSUME gAllServers \in [Kind -> [Id -> Link \cup {Nil, Absent}]], NEW kind, NEW id,
           FindInserts(kind, id)
    PROVE  gAllServers' \in [Kind -> [Id -> Link \cup {Nil, Absent}]]
  BY DEF FindInserts

\* Every step keeps TypeOK.
LEMMA TypeNext == TypeOK /\ [Next]_vars => TypeOK'
  <1> SUFFICES ASSUME TypeOK, [Next]_vars PROVE TypeOK'
    OBVIOUS

  <1>frame. frame \in [Client -> Frame]
    BY DEF TypeOK
  <1>lframe. lframe \in [Link -> LinkFrame]
    BY DEF TypeOK
  <1>asyncProcs. asyncProcs \in [Client -> Seq(Proc)]
    BY DEF TypeOK
  <1>sent. sent \in [Client -> Seq(Proc)]
    BY DEF TypeOK
  <1>toServer. toServer \in [Link -> Seq(Message)]
    BY DEF TypeOK
  <1>gAllServers. gAllServers \in [Kind -> [Id -> Link \cup {Nil, Absent}]]
    BY DEF TypeOK
  <1>bound. bound \in [Client -> [Kind -> Server]]
    BY DEF TypeOK
  <1>boundInTime. boundInTime \in [Client -> [Kind -> BOOLEAN]]
    BY DEF TypeOK
  <1>status. status \in [Client -> Status]
    BY DEF TypeOK
  <1>mReconnecting. mReconnecting \in [Client -> BOOLEAN]
    BY DEF TypeOK
  <1>mRecvSerialID. mRecvSerialID \in [Client -> Nat]
    BY DEF TypeOK
  <1>mID. mID \in [Link -> Id \cup {NoId}]
    BY DEF TypeOK
  <1>mIsPrimary. mIsPrimary \in [Link -> BOOLEAN]
    BY DEF TypeOK
  <1>accepted. accepted \in [Link -> SUBSET (Kind \X (Id \cup {NoId}))]
    BY DEF TypeOK
  <1>overwrote. overwrote \in SUBSET (Kind \X (Id \cup {NoId}))
    BY DEF TypeOK
  <1>logins. logins \in [Link -> Nat]
    BY DEF TypeOK
  <1>linkOpen. linkOpen \in [Link -> BOOLEAN]
    BY DEF TypeOK
  <1>orders. orders \in [Link -> Nat]
    BY DEF TypeOK
  <1>gAllClientObject. gAllClientObject \in SUBSET Client
    BY DEF TypeOK
  <1>crashed. crashed \in BOOLEAN
    BY DEF TypeOK
  <1>1. ASSUME NEW c \in Client, ReconnectMark(c)
       PROVE  TypeOK'
    <2>1. frame' \in [Client -> Frame]
      BY <1>1, <1>frame, IdleType DEF ReconnectMark
    <2>2. mReconnecting' \in [Client -> BOOLEAN]
      BY <1>1, <1>mReconnecting DEF ReconnectMark
    <2>3. QED
      BY <1>1, <2>1, <2>2 DEF ReconnectMark, clientVars, linkVars, loginVars, TypeOK
  <1>2. ASSUME NEW c \in Client, LoadSlave(c)
       PROVE  TypeOK'
    <2>1. frame' \in [Client -> Frame]
      <3>1. bound[c]["slave"] \in Server
        BY <1>bound DEF Kind
      <3> DEFINE a == IF frame[c].primary = Nil THEN "reload" ELSE "forward"
      <3>2. [[frame[c] EXCEPT !.slave = bound[c]["slave"]] EXCEPT !.at = a] \in Frame
        <4>1. a \in FrameAt
          BY DEF FrameAt
        <4>2. [frame[c] EXCEPT !.slave = bound[c]["slave"]] \in Frame
          BY <3>1, <1>frame, FrameField
        <4>3. QED
          BY <4>1, <4>2, FrameField
      <3>3. frame' = [frame EXCEPT ![c] = [[frame[c] EXCEPT !.slave = bound[c]["slave"]]
                                              EXCEPT !.at = a]]
        BY <1>2, <1>frame DEF LoadSlave
      <3>4. QED
        BY <3>2, <3>3, <1>frame, FrameUpdate
    <2>2. QED
      BY <1>2, <2>1 DEF LoadSlave, clientVars, linkVars, loginVars, TypeOK
  <1>3. ASSUME NEW c \in Client, ClaimReload(c)
       PROVE  TypeOK'
    <2>1. frame' \in [Client -> Frame]
      BY <1>3, <1>frame DEF ClaimReload, Frame
    <2>2. QED
      BY <1>3, <2>1 DEF ClaimReload, clientVars, linkVars, loginVars, TypeOK
  <1>4. ASSUME NEW c \in Client, ClaimPick(c)
       PROVE  TypeOK'
    <2>1. frame' \in [Client -> Frame]
      <3>1. ASSUME NEW id \in Id
            PROVE  [frame EXCEPT ![c].id = id, ![c].at = "find"] \in [Client -> Frame]
        <4>1. [frame[c] EXCEPT !.id = id] \in Frame
          BY <1>frame, FrameField
        <4>2. "find" \in FrameAt
          BY DEF FrameAt
        <4>3. [[frame[c] EXCEPT !.id = id] EXCEPT !.at = "find"] \in Frame
          BY <4>1, <4>2, FrameField
        <4>4. [frame EXCEPT ![c].id = id, ![c].at = "find"]
                = [frame EXCEPT ![c] = [[frame[c] EXCEPT !.id = id]
                                          EXCEPT !.at = "find"]]
          BY <1>frame
        <4>5. QED
          BY <4>3, <4>4, <1>frame, FrameUpdate
      <3>2. [frame EXCEPT ![c].at = "forward"] \in [Client -> Frame]
        BY <1>frame DEF Frame
      <3>3. QED
        BY <1>4, <3>1, <3>2 DEF ClaimPick, PrimaryKeys
    <2>2. QED
      BY <1>4, <2>1 DEF ClaimPick, clientVars, linkVars, loginVars, TypeOK
  <1>5. ASSUME NEW c \in Client, ClaimFind(c)
       PROVE  TypeOK'
    <2>1. gAllServers' \in [Kind -> [Id -> Link \cup {Nil, Absent}]]
      BY <1>5, <1>gAllServers, FindInsertsType DEF ClaimFind
    <2>2. frame' \in [Client -> Frame]
      <3>1. Find("primary", frame[c].id) \in Server
        BY FindType, <1>gAllServers
      <3>2. ASSUME NEW f \in Server
            PROVE  [frame EXCEPT ![c].found = f, ![c].at = "store"] \in [Client -> Frame]
        <4>1. [frame[c] EXCEPT !.found = f] \in Frame
          BY <1>frame, FrameField
        <4>2. "store" \in FrameAt
          BY DEF FrameAt
        <4>3. [[frame[c] EXCEPT !.found = f] EXCEPT !.at = "store"] \in Frame
          BY <4>1, <4>2, FrameField
        <4>4. [frame EXCEPT ![c].found = f, ![c].at = "store"]
                = [frame EXCEPT ![c] = [[frame[c] EXCEPT !.found = f]
                                          EXCEPT !.at = "store"]]
          BY <1>frame
        <4>5. QED
          BY <4>3, <4>4, <1>frame, FrameUpdate
      <3>3. QED
        BY <1>5, <3>1, <3>2 DEF ClaimFind
    <2>3. QED
      BY <1>5, <2>1, <2>2 DEF ClaimFind, clientVars, linkVars, loginVars, TypeOK
  <1>6. ASSUME NEW c \in Client, ClaimStore(c)
       PROVE  TypeOK'
    <2>1. bound' \in [Client -> [Kind -> Server]]
      BY <1>6, <1>bound, BindType, <1>boundInTime, <1>frame DEF ClaimStore, Frame
    <2>2. boundInTime' \in [Client -> [Kind -> BOOLEAN]]
      BY <1>6, <1>boundInTime, BindType, <1>bound, <1>frame DEF ClaimStore, Frame
    <2>3. frame' \in [Client -> Frame]
      BY <1>6, <1>frame DEF ClaimStore, Frame
    <2>4. QED
      BY <1>6, <2>1, <2>2, <2>3 DEF ClaimStore, clientVars, linkVars, loginVars, TypeOK
  <1>7. ASSUME NEW c \in Client, Forward(c)
       PROVE  TypeOK'
    <2>1. toServer' \in [Link -> Seq(Message)]
      BY <1>7, <1>toServer, MessageTypes, TargetType, PostType, <1>frame, <1>mRecvSerialID DEF Forward, Server
    <2>2. frame' \in [Client -> Frame]
      BY <1>7, <1>frame, IdleType DEF Forward
    <2>3. QED
      BY <1>7, <2>1, <2>2 DEF Forward, clientVars, linkVars, loginVars, TypeOK
  <1>8. ASSUME NEW c \in Client, TimerFires(c)
       PROVE  TypeOK'
    <2>1. status' \in [Client -> Status]
      BY <1>8, <1>status DEF TimerFires, Status
    <2>2. frame' \in [Client -> Frame]
      BY <1>8, <1>frame, NotifyFrameType DEF TimerFires
    <2>3. QED
      BY <1>8, <2>1, <2>2 DEF TimerFires, clientVars, linkVars, loginVars, TypeOK
  <1>9. ASSUME NEW c \in Client, RunAsyncProc(c)
       PROVE  TypeOK'
    <2>1. asyncProcs' \in [Client -> Seq(Proc)]
      BY <1>9, <1>asyncProcs DEF RunAsyncProc
    <2>2. sent' \in [Client -> Seq(Proc)]
      <3>1. Append(sent[c], Head(asyncProcs[c])) \in Seq(Proc)
        BY <1>9, <1>sent, <1>asyncProcs DEF RunAsyncProc
      <3>2. QED
        BY <1>9, <3>1, <1>sent DEF RunAsyncProc, WriteToClient
    <2>3. frame' \in [Client -> Frame]
      BY <1>9, <1>frame, NotifyFrameType DEF RunAsyncProc
    <2>4. QED
      BY <1>9, <2>1, <2>2, <2>3 DEF RunAsyncProc, clientVars, linkVars, loginVars, TypeOK
  <1>10. ASSUME NEW c \in Client, NotifyLoad(c)
        PROVE  TypeOK'
    <2>1. toServer' \in [Link -> Seq(Message)]
      <3>1. frame[c].kind \in Kind
        BY <1>frame DEF Frame
      <3>2. bound[c][frame[c].kind] # Nil => bound[c][frame[c].kind] \in Link
        BY <3>1, <1>bound DEF Server
      <3>3. CloseClientACK(c) \in Message
        BY MessageTypes
      <3>4. QED
        BY <1>10, <3>2, <3>3, <1>toServer, PostType DEF NotifyLoad
    <2>2. frame' \in [Client -> Frame]
      BY <1>10, <1>frame, NotifyDoneType DEF NotifyLoad, Frame
    <2>3. QED
      BY <1>10, <2>1, <2>2 DEF NotifyLoad, clientVars, linkVars, loginVars, TypeOK
  <1>11. ASSUME NEW c \in Client, NotifyCheck(c)
        PROVE  TypeOK'
    <2>1. frame' \in [Client -> Frame]
      BY <1>11, <1>frame, NotifyDoneType DEF NotifyCheck, Frame
    <2>2. QED
      BY <1>11, <2>1 DEF NotifyCheck, clientVars, linkVars, loginVars, TypeOK
  <1>12. ASSUME NEW c \in Client, NotifyAll(c)
        PROVE  TypeOK'
    <2>1. toServer' \in [Link -> Seq(Message)]
      BY <1>12, <1>toServer, MessageTypes, PostAllType, <1>crashed DEF NotifyAll
    <2>2. crashed' \in BOOLEAN
      BY <1>12, <1>crashed, MessageTypes, PostAllType, <1>toServer DEF NotifyAll
    <2>3. frame' \in [Client -> Frame]
      BY <1>12, <1>frame, NotifyDoneType DEF NotifyAll
    <2>4. QED
      BY <1>12, <2>1, <2>2, <2>3 DEF NotifyAll, clientVars, linkVars, loginVars, TypeOK
  <1>13. ASSUME NEW c \in Client, EraseClient(c)
        PROVE  TypeOK'
    <2>1. status' \in [Client -> Status]
      BY <1>13, <1>status DEF EraseClient, Status
    <2>2. gAllClientObject' \in SUBSET Client
      BY <1>13, <1>gAllClientObject DEF EraseClient
    <2>3. frame' \in [Client -> Frame]
      BY <1>13, <1>frame, IdleType DEF EraseClient
    <2>4. QED
      BY <1>13, <2>1, <2>2, <2>3 DEF EraseClient, clientVars, linkVars, loginVars, TypeOK
  <1>14. ASSUME NEW c \in Client, ClientEnter(c)
        PROVE  TypeOK'
    <2>1. status' \in [Client -> Status]
      BY <1>14, <1>status DEF ClientEnter, Status
    <2>2. gAllClientObject' \in SUBSET Client
      BY <1>14, <1>gAllClientObject DEF ClientEnter
    <2>3. QED
      BY <1>14, <2>1, <2>2 DEF ClientEnter, clientVars, linkVars, loginVars, TypeOK
  <1>15. ASSUME NEW c \in Client, Heartbeat(c)
        PROVE  TypeOK'
    <2>1. mRecvSerialID' \in [Client -> Nat]
      BY <1>15, <1>mRecvSerialID DEF Heartbeat, Recv
    <2>2. sent' \in [Client -> Seq(Proc)]
      <3>1. [proc |-> "send", from |-> Nil, n |-> mRecvSerialID'[c]] \in Proc
        BY <2>1, ProcTypes DEF Server
      <3>2. QED
        BY <1>15, <3>1, <1>sent DEF Heartbeat
    <2>3. QED
      BY <1>15, <2>1, <2>2 DEF Heartbeat, clientVars, linkVars, loginVars, TypeOK
  <1>16. ASSUME NEW c \in Client, ReconnectAsk(c)
        PROVE  TypeOK'
    <2>1. mRecvSerialID' \in [Client -> Nat]
      BY <1>16, <1>mRecvSerialID DEF ReconnectAsk, Recv
    <2>2. toServer' \in [Link -> Seq(Message)]
      BY <1>16, <1>toServer, MessageTypes, PostAllType, <1>crashed DEF ReconnectAsk
    <2>3. crashed' \in BOOLEAN
      BY <1>16, <1>crashed, MessageTypes, PostAllType, <1>toServer DEF ReconnectAsk
    <2>4. frame' \in [Client -> Frame]
      BY <1>16, <1>frame DEF ReconnectAsk, Frame
    <2>5. QED
      BY <1>16, <2>1, <2>2, <2>3, <2>4 DEF ReconnectAsk, clientVars, linkVars, loginVars, TypeOK
  <1>17. ASSUME NEW c \in Client, NEW op \in PacketOp, GamePacket(c, op)
        PROVE  TypeOK'
    <2>1. mRecvSerialID' \in [Client -> Nat]
      BY <1>17, <1>mRecvSerialID DEF GamePacket, Recv
    <2>2. frame' \in [Client -> Frame]
      <3> DEFINE p == bound[c]["primary"]
      <3>1. p \in Server
        BY <1>bound DEF Kind
      <3>2. [Idle EXCEPT !.at = "slave"] \in Frame
        BY IdleType, FrameField DEF FrameAt
      <3>3. [[[Idle EXCEPT !.at = "slave"] EXCEPT !.op = op] EXCEPT !.primary = p] \in Frame
        BY <3>1, <3>2, FrameField
      <3>4. QED
        BY <1>17, <3>3, <1>frame, FrameUpdate DEF GamePacket
    <2>3. QED
      BY <1>17, <2>1, <2>2 DEF GamePacket, clientVars, linkVars, loginVars, TypeOK
  <1>18. ASSUME NEW c \in Client, ClientClose(c)
        PROVE  TypeOK'
    <2>1. status' \in [Client -> Status]
      BY <1>18, <1>status DEF ClientClose, Status
    <2>2. QED
      BY <1>18, <2>1 DEF ClientClose, clientVars, linkVars, loginVars, TypeOK
  <1>19. ASSUME NEW l \in Link, NEW kind \in Kind, NEW id \in Id, LoginFind(l, kind, id)
        PROVE  TypeOK'
    <2>1. gAllServers' \in [Kind -> [Id -> Link \cup {Nil, Absent}]]
      BY <1>19, <1>gAllServers, FindInsertsType DEF LoginFind
    <2>2. lframe' \in [Link -> LinkFrame]
      <3>1. [LinkIdle EXCEPT !.at = "add", !.kind = kind, !.id = id] \in LinkFrame
        BY LinkIdleType DEF LinkFrame
      <3>2. QED
        BY <1>19, <3>1, <1>lframe DEF LoginFind
    <2>3. logins' \in [Link -> Nat]
      BY <1>19, <1>logins DEF LoginFind
    <2>4. QED
      BY <1>19, <2>1, <2>2, <2>3 DEF LoginFind, clientVars, linkVars, loginVars, TypeOK
  <1>20. ASSUME NEW l \in Link, LoginAdd(l)
        PROVE  TypeOK'
    <2>1. gAllServers' \in [Kind -> [Id -> Link \cup {Nil, Absent}]]
      BY <1>20, <1>gAllServers DEF LoginAdd, AddServer
    <2>2. lframe' \in [Link -> LinkFrame]
      BY <1>20, <1>lframe DEF LoginAdd, LinkFrame
    <2>3. accepted' \in [Link -> SUBSET (Kind \X (Id \cup {NoId}))] /\ overwrote' \in SUBSET (Kind \X (Id \cup {NoId}))
      <3>1. <<lframe[l].kind, lframe[l].id>> \in Kind \X (Id \cup {NoId})
        BY <1>20, <1>lframe DEF LoginAdd, LinkFrame, LinkAt
      <3>2. QED
        BY <1>20, <3>1, <1>accepted, <1>overwrote DEF LoginAdd
    <2>4. QED
      BY <1>20, <2>1, <2>2, <2>3 DEF LoginAdd, clientVars, linkVars, loginVars, TypeOK
  <1>21. ASSUME NEW l \in Link, LoginReply(l)
        PROVE  TypeOK'
    <2>1. mID' \in [Link -> Id \cup {NoId}]
      BY <1>21, <1>mID, <1>lframe DEF LoginReply, LinkFrame
    <2>2. mIsPrimary' \in [Link -> BOOLEAN]
      BY <1>21, <1>mIsPrimary DEF LoginReply
    <2>3. lframe' \in [Link -> LinkFrame]
      BY <1>21, <1>lframe, LinkIdleType DEF LoginReply
    <2>4. QED
      BY <1>21, <2>1, <2>2, <2>3 DEF LoginReply, clientVars, linkVars, loginVars, TypeOK
  <1>22. ASSUME NEW l \in Link, NEW c \in Client, NEW kind \in Kind, NEW willset \in BOOLEAN, SetServer(l, c, kind, willset)
        PROVE  TypeOK'
    <2>1. lframe' \in [Link -> LinkFrame]
      <3>1. PICK id \in Id \cup {NoId} :
              lframe' \in {lframe, [lframe EXCEPT ![l] = [LinkIdle EXCEPT
                  !.client = c, !.kind = kind, !.id = id, !.at = IF id = NoId THEN "store" ELSE "find"]]}
        BY <1>22, <1>mID DEF SetServer
      <3>2. [LinkIdle EXCEPT !.client = c, !.kind = kind, !.id = id,
                             !.at = IF id = NoId THEN "store" ELSE "find"] \in LinkFrame
        BY LinkIdleType DEF LinkFrame
      <3>3. QED
        BY <3>1, <3>2, <1>lframe
    <2>2. orders' \in [Link -> Nat]
      BY <1>22, <1>orders DEF SetServer, Order
    <2>3. QED
      BY <1>22, <2>1, <2>2 DEF SetServer, clientVars, linkVars, loginVars, TypeOK
  <1>23. ASSUME NEW l \in Link, SetFind(l)
        PROVE  TypeOK'
    <2>1. gAllServers' \in [Kind -> [Id -> Link \cup {Nil, Absent}]]
      BY <1>23, <1>gAllServers, FindInsertsType DEF SetFind
    <2>2. lframe' \in [Link -> LinkFrame]
      <3> DEFINE s == Find(lframe[l].kind, lframe[l].id)
      <3>1. s \in Server
        BY <1>gAllServers, FindType
      <3>2. [lframe[l] EXCEPT !.server = s] \in LinkFrame
        BY <3>1, <1>lframe DEF LinkFrame
      <3>3. [[lframe[l] EXCEPT !.server = s] EXCEPT !.at = "store"] \in LinkFrame
        BY <3>2 DEF LinkFrame
      <3>4. lframe' = [lframe EXCEPT ![l] = [[lframe[l] EXCEPT !.server = s] EXCEPT !.at = "store"]]
        BY <1>23, <1>lframe DEF SetFind
      <3>5. QED
        BY <3>3, <3>4, <1>lframe
    <2>3. mReconnecting' \in [Client -> BOOLEAN]
      BY <1>23, <1>mReconnecting DEF SetFind
    <2>4. QED
      BY <1>23, <2>1, <2>2, <2>3 DEF SetFind, clientVars, linkVars, loginVars, TypeOK
  <1>24. ASSUME NEW l \in Link, SetStore(l)
        PROVE  TypeOK'
    <2>1. bound' \in [Client -> [Kind -> Server]]
      BY <1>24, <1>bound, BindType, <1>boundInTime, <1>lframe DEF SetStore, LinkFrame
    <2>2. boundInTime' \in [Client -> [Kind -> BOOLEAN]]
      BY <1>24, <1>boundInTime, BindType, <1>bound, <1>lframe DEF SetStore, LinkFrame
    <2>3. lframe' \in [Link -> LinkFrame]
      BY <1>24, <1>lframe, LinkIdleType DEF SetStore
    <2>4. QED
      BY <1>24, <2>1, <2>2, <2>3 DEF SetStore, clientVars, linkVars, loginVars, TypeOK
  <1>25. ASSUME NEW l \in Link, NEW c \in Client, KickClient(l, c)
        PROVE  TypeOK'
    <2>1. status' \in [Client -> Status]
      BY <1>25, <1>status, KickType, <1>asyncProcs DEF KickClient
    <2>2. asyncProcs' \in [Client -> Seq(Proc)]
      BY <1>25, <1>asyncProcs, KickType, <1>status DEF KickClient
    <2>3. orders' \in [Link -> Nat]
      BY <1>25, <1>orders DEF KickClient, Order
    <2>4. QED
      BY <1>25, <2>1, <2>2, <2>3 DEF KickClient, clientVars, linkVars, loginVars, TypeOK
  <1>26. ASSUME NEW l \in Link, NEW c \in Client, Downstream(l, c)
        PROVE  TypeOK'
    <2>1. orders' \in [Link -> Nat]
      BY <1>26, <1>orders DEF Downstream, Order
    <2>2. [proc |-> "send", from |-> l, n |-> orders'[l]] \in Proc
      BY <2>1, ProcTypes DEF Server
    <2>3. PICK p \in Proc : p = [proc |-> "send", from |-> l, n |-> orders'[l]]
      BY <2>2
    <2>5. asyncProcs' = asyncProcs \/ asyncProcs' = [asyncProcs EXCEPT ![c] = Append(@, p)]
      BY <1>26, <2>3 DEF Downstream, Push
    <2>6. sent' = sent \/ sent' = [sent EXCEPT ![c] = Append(@, p)]
      BY <1>26, <2>3 DEF Downstream, WriteToClient
    <2>7. Append(asyncProcs[c], p) \in Seq(Proc) /\ Append(sent[c], p) \in Seq(Proc)
      BY <1>asyncProcs, <1>sent
    <2>8. asyncProcs' \in [Client -> Seq(Proc)] /\ sent' \in [Client -> Seq(Proc)]
      BY <2>5, <2>6, <2>7, <1>asyncProcs, <1>sent
    <2>9. QED
      BY <1>26, <2>1, <2>8 DEF Downstream, clientVars, linkVars, loginVars, TypeOK
  <1>27. ASSUME NEW l \in Link, LinkClose(l)
        PROVE  TypeOK'
    <2>1. gAllServers' \in [Kind -> [Id -> Link \cup {Nil, Absent}]]
      BY <1>27, <1>gAllServers DEF LinkClose, RemoveServer
    <2>2. lframe' \in [Link -> LinkFrame]
      <3>1. [LinkIdle EXCEPT !.at = "kick", !.copy = gAllClientObject] \in LinkFrame
        BY LinkIdleType, <1>gAllClientObject DEF LinkFrame
      <3>2. QED
        BY <1>27, <3>1, <1>lframe DEF LinkClose
    <2>3. mID' \in [Link -> Id \cup {NoId}] /\ mIsPrimary' \in [Link -> BOOLEAN]
      BY <1>27, <1>mID, <1>mIsPrimary DEF LinkClose, Forget
    <2>4. linkOpen' \in [Link -> BOOLEAN]
      BY <1>27, <1>linkOpen DEF LinkClose
    <2>5. QED
      BY <1>27, <2>1, <2>2, <2>3, <2>4 DEF LinkClose, clientVars, linkVars, loginVars, TypeOK
  <1>28. ASSUME NEW l \in Link, LinkKick(l)
        PROVE  TypeOK'
    <2>1. lframe' \in [Link -> LinkFrame]
      BY <1>28, <1>lframe DEF LinkKick, LinkFrame
    <2>2. status' \in [Client -> Status]
      BY <1>28, <1>status, KickType, <1>asyncProcs, <1>lframe DEF LinkKick, LinkFrame
    <2>3. asyncProcs' \in [Client -> Seq(Proc)]
      BY <1>28, <1>asyncProcs, KickType, <1>status, <1>lframe DEF LinkKick, LinkFrame
    <2>4. QED
      BY <1>28, <2>1, <2>2, <2>3 DEF LinkKick, clientVars, linkVars, loginVars, TypeOK
  <1>29. ASSUME NEW l \in Link, LinkUnregister(l)
        PROVE  TypeOK'
    <2>1. gAllServers' \in [Kind -> [Id -> Link \cup {Nil, Absent}]]
      BY <1>29, <1>gAllServers DEF LinkUnregister, RemoveServer
    <2>2. mID' \in [Link -> Id \cup {NoId}] /\ mIsPrimary' \in [Link -> BOOLEAN]
      BY <1>29, <1>mID, <1>mIsPrimary DEF LinkUnregister, Forget
    <2>3. lframe' \in [Link -> LinkFrame]
      BY <1>29, <1>lframe, LinkIdleType DEF LinkUnregister
    <2>4. QED
      BY <1>29, <2>1, <2>2, <2>3 DEF LinkUnregister, clientVars, linkVars, loginVars, TypeOK
  <1>30. CASE UNCHANGED vars
    BY <1>30 DEF vars, TypeOK
  <1>31. QED
    BY <1>1, <1>2, <1>3, <1>4, <1>5, <1>6, <1>7, <1>8, <1>9, <1>10, <1>11, <1>12, <1>13, <1>14, <1>15, <1>16, <1>17, <1>18, <1>19, <1>20, <1>21, <1>22, <1>23, <1>24, <1>25, <1>26, <1>27, <1>28, <1>29, <1>30
    DEF Next, ClientLoop, ClientInput, LinkLoop, LinkInput

\* Every variable keeps its type, whatever the interleaving of the loops.
THEOREM TypeCorrect == Spec => []TypeOK
  <1>1. Init => TypeOK
    BY TypeInit
  <1>2. TypeOK /\ [Next]_vars => TypeOK'
    BY TypeNext
  <1>3. QED
    BY <1>1, <1>2, PTL DEF Spec

-----------------------------------------------------------------------------
(* The registries of logic servers *)
-----------------------------------------------------------------------------
(* The invariants *)

\* What a session has logged in as: while its login is being worked on it is up,
\* what it was added under is among what it was accepted as, and so is what its
\* members name; they name nothing only before its first login and after it closed.
LoginOf(l) ==
    /\ LinkAt(l, "add") \/ LinkAt(l, "reply") => linkOpen[l] /\ lframe[l].id \in Id
    /\ LinkAt(l, "kick") => ~linkOpen[l] /\ mIsPrimary[l] /\ mID[l] # NoId
    /\ LinkAt(l, "reply") => <<lframe[l].kind, lframe[l].id>> \in accepted[l]
    /\ mID[l] # NoId => <<KindNow(l), mID[l]>> \in accepted[l]
    /\ accepted[l] # {} /\ linkOpen[l] /\ ~LinkAt(l, "reply") => mID[l] # NoId

\* A session is registered only under what it was accepted as; and when it has closed,
\* only under something other than what it removed.
EntryOf(l) ==
    \A kind \in Kind, id \in Id : gAllServers[kind][id] = l =>
        /\ <<kind, id>> \in accepted[l]
        /\ \/ linkOpen[l] \/ LinkAt(l, "kick")
           \/ \E other \in accepted[l] : other # <<kind, id>>

RegistryInv == \A l \in Link : LoginOf(l) /\ EntryOf(l)

\* What session l holds: the pair its members name, or the one it was just added under.
Holds(l, kind, id) ==
    \/ mID[l] = id /\ KindNow(l) = kind
    \/ LinkAt(l, "reply") /\ lframe[l].kind = kind /\ lframe[l].id = id

\* What a session holds is registered as its, unless a later login replaced it.
HeldInv ==
    \A l \in Link, kind \in Kind, id \in Id :
        Holds(l, kind, id) /\ <<kind, id>> \notin overwrote => gAllServers[kind][id] = l

\* By these sets of accepted kinds and IDs, session s was accepted as a server of this kind.
Was(acc, s, kind) == \E id \in Id : <<kind, id>> \in acc[s]

\* Every server pointer on its way into a client comes from the registry of its kind.
BindInv ==
    /\ \A c \in Client, kind \in Kind : bound[c][kind] # Nil => Was(accepted, bound[c][kind], kind)
    /\ \A c \in Client : frame[c].found # Nil => Was(accepted, frame[c].found, "primary")
    /\ \A l \in Link : lframe[l].server # Nil => Was(accepted, lframe[l].server, lframe[l].kind)
    /\ \A c \in Client : frame[c].at = "find" => frame[c].id \in Id
    /\ \A l \in Link : lframe[l].at = "find" => lframe[l].id \in Id


\* The timer's notification of c has dealt with the servers of this kind.
Passed(c, kind) ==
    \/ status[c] = "forgotten"
    \/ /\ status[c] = "expired"
       /\ \/ At(c, "erase")
          \/ kind = "primary" /\ frame[c].kind = "slave"
          \/ kind = frame[c].kind /\ (At(c, "check") \/ At(c, "tellAll"))

\* A client is in the timer's closure exactly while it is "expired", and the bound
\* servers of the kinds that closure is through with have been told.
NotifyOf(c) ==
    /\ frame[c].timer <=> status[c] = "expired"
    /\ status[c] = "expired" => frame[c].at \in {"notify", "check", "tellAll", "erase"}
    /\ At(c, "erase") => status[c] = "expired"
    /\ \A kind \in Kind :
          bound[c][kind] # Nil /\ boundInTime[c][kind] /\ Passed(c, kind)
              => Told(bound[c][kind], c)

NotifyInv == \A c \in Client : NotifyOf(c)

-----------------------------------------------------------------------------
(* What the steps of a client's loop leave alone *)

\* A lookup changes nothing but missing entries.
LEMMA FindKeepsServers ==
    ASSUME gAllServers \in [Kind -> [Id -> Link \cup {Nil, Absent}]], NEW kind, NEW id,
           FindInserts(kind, id)
    PROVE  \A k \in Kind, i \in Id, l \in Link : gAllServers'[k][i] = l <=> gAllServers[k][i] = l
  BY ConstantsAssumption DEF FindInserts

\* The steps of a client leave the links as they are, and which link is
\* registered where.
LEMMA ClientStepKeeps ==
    ASSUME TypeOK, NEW c \in Client, ClientLoop(c) \/ ClientInput(c)
    PROVE  /\ UNCHANGED linkVars
           /\ \A k \in Kind, i \in Id, l \in Link : gAllServers'[k][i] = l <=> gAllServers[k][i] = l
  <1>1. CASE ClaimFind(c)
    <2>1. UNCHANGED linkVars /\ FindInserts("primary", frame[c].id)
      BY <1>1 DEF ClaimFind
    <2>2. QED
      BY <2>1, FindKeepsServers DEF TypeOK
  <1>2. CASE ~ClaimFind(c)
    <2>1. UNCHANGED <<linkVars, gAllServers>>
      BY <1>2 DEF ClientLoop, ClientInput, ReconnectMark, LoadSlave, ClaimReload, ClaimPick,
                  ClaimStore, Forward, TimerFires, RunAsyncProc, NotifyLoad, NotifyCheck,
                  NotifyAll, EraseClient, ClientEnter, Heartbeat, ReconnectAsk, ClientClose, GamePacket
    <2>2. QED
      BY <2>1
  <1>3. QED
    BY <1>1, <1>2

-----------------------------------------------------------------------------
(* Proof of RegistryInv *)
\* A step of a link leaves what the other links keep alone, and what any link was
\* accepted as, or had replaced, stays so.
LEMMA LinkStepKeeps ==
    ASSUME TypeOK, NEW l \in Link, LinkLoop(l) \/ LinkInput(l)
    PROVE  /\ \A m \in Link : m # l =>
                /\ lframe'[m] = lframe[m] /\ mID'[m] = mID[m] /\ mIsPrimary'[m] = mIsPrimary[m]
                /\ linkOpen'[m] = linkOpen[m] /\ accepted'[m] = accepted[m]
           /\ \A m \in Link : accepted[m] \subseteq accepted'[m]
           /\ overwrote \subseteq overwrote'
           /\ UNCHANGED frame
  <1>t. /\ lframe \in [Link -> LinkFrame] /\ mID \in [Link -> Id \cup {NoId}]
        /\ mIsPrimary \in [Link -> BOOLEAN] /\ linkOpen \in [Link -> BOOLEAN]
        /\ accepted \in [Link -> SUBSET (Kind \X (Id \cup {NoId}))]
    BY DEF TypeOK
  <1>1. CASE LoginAdd(l)
    BY <1>t, <1>1 DEF LoginAdd, clientVars
  <1>2. CASE LoginReply(l)
    BY <1>t, <1>2 DEF LoginReply, clientVars
  <1>3. CASE LinkClose(l)
    <2>1. /\ linkOpen' = [linkOpen EXCEPT ![l] = FALSE]
          /\ UNCHANGED <<accepted, overwrote, frame>>
      BY <1>3 DEF LinkClose, clientVars
    <2>2. /\ mID' = mID \/ mID' = [mID EXCEPT ![l] = NoId]
          /\ mIsPrimary' = mIsPrimary \/ mIsPrimary' = [mIsPrimary EXCEPT ![l] = FALSE]
      BY <1>3 DEF LinkClose, Forget
    <2>3. \A m \in Link : m # l => lframe'[m] = lframe[m]
      BY <1>3, <1>t DEF LinkClose
    <2>4. QED
      BY <1>t, <2>1, <2>2, <2>3
  <1>4. CASE LinkUnregister(l)
    BY <1>t, <1>4 DEF LinkUnregister, Forget, clientVars
  <1>5. CASE SetFind(l) \/ SetStore(l) \/ LinkKick(l)
    <2>1. UNCHANGED <<mID, mIsPrimary, linkOpen, accepted, overwrote, frame>>
      BY <1>5 DEF SetFind, SetStore, LinkKick, loginVars
    <2>2. \A m \in Link : m # l => lframe'[m] = lframe[m]
      BY <1>5, <1>t DEF SetFind, SetStore, LinkKick
    <2>3. QED
      BY <2>1, <2>2
  <1>6. CASE LinkInput(l) /\ ~LinkClose(l)
    <2>1. UNCHANGED <<mID, mIsPrimary, linkOpen, accepted, overwrote, frame>>
      BY <1>6 DEF LinkInput, LoginFind, KickClient, Downstream, SetServer, loginVars, clientVars
    <2>2. \A m \in Link : m # l => lframe'[m] = lframe[m]
      BY <1>6, <1>t DEF LinkInput, LoginFind, KickClient, Downstream, SetServer
    <2>3. QED
      BY <2>1, <2>2
  <1>7. QED
    BY <1>1, <1>2, <1>3, <1>4, <1>5, <1>6 DEF LinkLoop

\* What a login adds, ...
LEMMA AddedEntry ==
    ASSUME TypeOK, NEW l \in Link, LoginAdd(l)
    PROVE  \A k \in Kind, i \in Id : gAllServers'[k][i] =
              IF k = lframe[l].kind /\ i = lframe[l].id THEN l ELSE gAllServers[k][i]
  <1>1. gAllServers \in [Kind -> [Id -> Link \cup {Nil, Absent}]]
    BY DEF TypeOK
  <1>2. AddServer(lframe[l].kind, lframe[l].id, l)
    BY DEF LoginAdd
  <1>3. QED
    BY <1>1, <1>2 DEF AddServer

\* ... and what onClose removes.
LEMMA RemovedEntry ==
    ASSUME TypeOK, NEW l \in Link, LoginOf(l),
           (LinkClose(l) /\ mID[l] # NoId /\ ~mIsPrimary[l]) \/ LinkUnregister(l)
    PROVE  /\ \A k \in Kind, i \in Id : gAllServers'[k][i] =
                  IF k = KindNow(l) /\ i = mID[l] THEN Absent ELSE gAllServers[k][i]
           /\ mID' = [mID EXCEPT ![l] = NoId]
  <1>1. gAllServers \in [Kind -> [Id -> Link \cup {Nil, Absent}]]
    BY DEF TypeOK
  <1>2. RemoveServer(KindNow(l), mID[l]) /\ mID' = [mID EXCEPT ![l] = NoId]
    <2>1. CASE LinkUnregister(l)
      BY <2>1 DEF LinkUnregister, KindNow, Forget, LoginOf
    <2>2. CASE LinkClose(l) /\ mID[l] # NoId /\ ~mIsPrimary[l]
      BY <2>2 DEF LinkClose, KindNow, Forget
    <2>3. QED
      BY <2>1, <2>2
  <1>3. QED
    BY <1>1, <1>2 DEF RemoveServer

\* What a step of link l does to the registries.
LEMMA LinkStepEntries ==
    ASSUME TypeOK, NEW l \in Link, LoginOf(l), LinkLoop(l) \/ LinkInput(l)
    PROVE  \/ \A k \in Kind, i \in Id, m \in Link : gAllServers'[k][i] = m <=> gAllServers[k][i] = m
           \/ /\ LoginAdd(l)
              /\ \A k \in Kind, i \in Id : gAllServers'[k][i] =
                    IF k = lframe[l].kind /\ i = lframe[l].id THEN l ELSE gAllServers[k][i]
           \/ /\ LinkClose(l) \/ LinkUnregister(l)
              /\ \A k \in Kind, i \in Id : gAllServers'[k][i] =
                    IF k = KindNow(l) /\ i = mID[l] THEN Absent ELSE gAllServers[k][i]
              /\ mID' = [mID EXCEPT ![l] = NoId]
  <1>t. gAllServers \in [Kind -> [Id -> Link \cup {Nil, Absent}]]
    BY DEF TypeOK
  <1>1. CASE LoginAdd(l)
    BY <1>1, AddedEntry
  <1>2. ASSUME NEW kind, NEW id, FindInserts(kind, id)
        PROVE  \A k \in Kind, i \in Id, m \in Link : gAllServers'[k][i] = m <=> gAllServers[k][i] = m
    BY <1>2, <1>t, FindKeepsServers
  <1>3. CASE (LinkClose(l) /\ mID[l] # NoId /\ ~mIsPrimary[l]) \/ LinkUnregister(l)
    BY <1>3, RemovedEntry
  <1>4. CASE LinkClose(l) /\ ~(mID[l] # NoId /\ ~mIsPrimary[l])
    <2>1. UNCHANGED gAllServers
      BY <1>4 DEF LinkClose
    <2>2. QED
      BY <2>1
  <1>5. CASE SetFind(l)
    BY <1>2, <1>5 DEF SetFind
  <1>6. CASE \E kind \in Kind, id \in Id : LoginFind(l, kind, id)
    BY <1>2, <1>6 DEF LoginFind
  <1>7. CASE UNCHANGED gAllServers
    BY <1>7
  <1>8. QED
    BY <1>1, <1>3, <1>4, <1>5, <1>6, <1>7
    DEF LinkLoop, LinkInput, LoginReply, SetStore, LinkKick, KickClient, Downstream, SetServer

-----------------------------------------------------------------------------
(* Proof of RegistryInv *)

\* RegistryInv holds at the start, ...
LEMMA RegistryInit == Init => RegistryInv
  BY ConstantsAssumption DEF Init, RegistryInv, LoginOf, EntryOf, LinkAt, LinkIdle

\* Steps that keep all that LoginOf reads of a link.
LEMMA LoginQuiet ==
    ASSUME NEW l \in Link, LoginOf(l),
           mID'[l] = mID[l], mIsPrimary'[l] = mIsPrimary[l], linkOpen'[l] = linkOpen[l],
           accepted'[l] = accepted[l],
           \/ lframe'[l] = lframe[l]
           \/ /\ lframe[l].at \notin {"add", "reply", "kick"}
              /\ lframe'[l].at \notin {"add", "reply", "kick"}
           \/ lframe[l].at = "kick" /\ lframe'[l].at = "kick"
    PROVE  LoginOf(l)'
  BY DEF LoginOf, LinkAt, KindNow

\* Steps that add no entry for a link and leave it as open as it was.
LEMMA EntryQuiet ==
    ASSUME NEW l \in Link, EntryOf(l),
           \A k \in Kind, i \in Id : gAllServers'[k][i] = l => gAllServers[k][i] = l,
           accepted[l] \subseteq accepted'[l],
           linkOpen[l] \/ LinkAt(l, "kick") => linkOpen'[l] \/ LinkAt(l, "kick")'
    PROVE  EntryOf(l)'
  BY DEF EntryOf

\* The frame in which onSetPlayerPrimaryServer and onIsSetPlayerSlaveServer begin.
LEMMA SetServerFrame ==
    ASSUME TypeOK, NEW l \in Link, NEW c \in Client, NEW kind \in Kind, NEW willset \in BOOLEAN,
           SetServer(l, c, kind, willset)
    PROVE  \/ lframe' = lframe
           \/ /\ lframe'[l].server = Nil /\ lframe'[l].at \in {"find", "store"}
              /\ lframe'[l].at = "find" => lframe'[l].id \in Id
  <1> SUFFICES ASSUME lframe' # lframe
               PROVE  /\ lframe'[l].server = Nil /\ lframe'[l].at \in {"find", "store"}
                      /\ lframe'[l].at = "find" => lframe'[l].id \in Id
    OBVIOUS
  <1>1. lframe \in [Link -> LinkFrame] /\ mID \in [Link -> Id \cup {NoId}]
    BY DEF TypeOK
  <1>2. PICK id \in Id \cup {NoId} : lframe' = [lframe EXCEPT ![l] = [LinkIdle EXCEPT
          !.client = c, !.kind = kind, !.id = id, !.at = IF id = NoId THEN "store" ELSE "find"]]
    BY <1>1 DEF SetServer
  <1>3. /\ lframe'[l].server = Nil /\ lframe'[l].id = id
        /\ lframe'[l].at = IF id = NoId THEN "store" ELSE "find"
    BY <1>1, <1>2 DEF LinkIdle
  <1>4. QED
    BY <1>3

\* What a step of a link makes of its own LoginOf.
LEMMA LoginOwnStep ==
    ASSUME TypeOK, NEW l \in Link, LoginOf(l), LinkLoop(l) \/ LinkInput(l)
    PROVE  LoginOf(l)'
  <1> USE ConstantsAssumption
  <1>t. /\ lframe \in [Link -> LinkFrame] /\ mID \in [Link -> Id \cup {NoId}]
        /\ mIsPrimary \in [Link -> BOOLEAN] /\ linkOpen \in [Link -> BOOLEAN]
        /\ accepted \in [Link -> SUBSET (Kind \X (Id \cup {NoId}))]
    BY DEF TypeOK
  <1>1. ASSUME NEW kind \in Kind, NEW id \in Id, LoginFind(l, kind, id) PROVE LoginOf(l)'
    <2>1. /\ linkOpen[l] /\ lframe[l].at = "idle"
          /\ UNCHANGED <<mID, mIsPrimary, linkOpen, accepted>>
      BY <1>1 DEF LoginFind, LinkAt
    <2>2. CASE lframe' = lframe
      BY <2>1, <2>2, LoginQuiet
    <2>3. CASE lframe' = [lframe EXCEPT ![l] = [LinkIdle EXCEPT !.at = "add", !.kind = kind, !.id = id]]
      <3>1. lframe'[l].at = "add" /\ lframe'[l].id = id
        BY <1>t, <2>3 DEF LinkIdle
      <3>2. QED
        BY <2>1, <3>1 DEF LoginOf, LinkAt, KindNow
    <2>4. QED
      BY <1>1, <2>2, <2>3 DEF LoginFind
  <1>2. CASE LoginAdd(l)
    <2>1. /\ lframe[l].at = "add" /\ lframe'[l].at = "reply"
          /\ lframe'[l].kind = lframe[l].kind /\ lframe'[l].id = lframe[l].id
      BY <1>2, <1>t DEF LoginAdd, LinkAt, LinkFrame
    <2>2. accepted'[l] = accepted[l] \cup {<<lframe[l].kind, lframe[l].id>>}
      BY <1>2, <1>t DEF LoginAdd
    <2>3. UNCHANGED <<mID, mIsPrimary, linkOpen>>
      BY <1>2 DEF LoginAdd
    <2>4. QED
      BY <2>1, <2>2, <2>3 DEF LoginOf, LinkAt, KindNow
  <1>3. CASE LoginReply(l)
    <2>1. lframe[l].at = "reply" /\ lframe'[l].at = "idle" /\ UNCHANGED <<linkOpen, accepted>>
      BY <1>3, <1>t DEF LoginReply, LinkAt, LinkIdle
    <2>2. mID'[l] = lframe[l].id /\ lframe[l].id \in Id
      BY <1>3, <1>t DEF LoginReply, LoginOf
    <2>3. KindNow(l)' = lframe[l].kind
      <3>1. mIsPrimary'[l] <=> lframe[l].kind = "primary"
        BY <1>3, <1>t DEF LoginReply
      <3>2. lframe[l].kind \in {"primary", "slave"}
        BY <1>t DEF LinkFrame, Kind
      <3>3. QED
        BY <3>1, <3>2 DEF KindNow
    <2>4. QED
      BY <2>1, <2>2, <2>3 DEF LoginOf, LinkAt
  <1>4. CASE SetFind(l) \/ SetStore(l)
    <2>1. /\ lframe[l].at \in {"find", "store"} /\ lframe'[l].at \in {"store", "idle"}
      BY <1>4, <1>t DEF SetFind, SetStore, LinkAt, LinkIdle, LinkFrame
    <2>2. UNCHANGED <<mID, mIsPrimary, linkOpen, accepted>>
      BY <1>4 DEF SetFind, SetStore, loginVars
    <2>3. QED
      BY <2>1, <2>2, LoginQuiet
  <1>5. CASE LinkKick(l)
    <2>1. lframe[l].at = "kick" /\ lframe'[l].at = "kick"
      BY <1>5, <1>t DEF LinkKick, LinkAt, LinkFrame
    <2>2. UNCHANGED <<mID, mIsPrimary, linkOpen, accepted>>
      BY <1>5 DEF LinkKick, loginVars
    <2>3. QED
      BY <2>1, <2>2, LoginQuiet
  <1>6. CASE LinkUnregister(l)
    <2>1. /\ lframe[l].at = "kick" /\ lframe'[l].at = "idle" /\ mID'[l] = NoId
          /\ UNCHANGED <<linkOpen, accepted>>
      BY <1>6, <1>t DEF LinkUnregister, Forget, LinkAt, LinkIdle
    <2>2. ~linkOpen[l]
      BY <2>1 DEF LoginOf, LinkAt
    <2>3. QED
      BY <2>1, <2>2 DEF LoginOf, LinkAt
  <1>7. CASE LinkClose(l)
    <2>1. lframe[l].at = "idle" /\ ~linkOpen'[l] /\ UNCHANGED accepted
      BY <1>7, <1>t DEF LinkClose, LinkAt
    <2>2. CASE mID[l] # NoId /\ mIsPrimary[l]
      <3>1. UNCHANGED <<mID, mIsPrimary>>
        BY <1>7, <2>2 DEF LinkClose
      <3>2. lframe' = [lframe EXCEPT ![l] = [LinkIdle EXCEPT !.at = "kick", !.copy = gAllClientObject]]
        BY <1>7, <2>2 DEF LinkClose
      <3>3. lframe'[l].at = "kick"
        BY <1>t, <3>2 DEF LinkIdle
      <3>4. mID'[l] = mID[l] /\ mIsPrimary'[l] = mIsPrimary[l] /\ KindNow(l)' = KindNow(l)
        BY <3>1 DEF KindNow
      <3>5. <<KindNow(l), mID[l]>> \in accepted[l]
        BY <2>2 DEF LoginOf
      <3>6. QED
        BY <2>1, <2>2, <3>3, <3>4, <3>5 DEF LoginOf, LinkAt
    <2>3. CASE ~(mID[l] # NoId /\ mIsPrimary[l])
      <3>1. mID'[l] = NoId /\ lframe' = lframe
        BY <1>7, <1>t, <2>3 DEF LinkClose, Forget
      <3>2. QED
        BY <2>1, <3>1 DEF LoginOf, LinkAt
    <2>4. QED
      BY <2>2, <2>3
  <1>8. ASSUME NEW c \in Client, KickClient(l, c) \/ Downstream(l, c)
        PROVE  LoginOf(l)'
    <2>1. UNCHANGED <<lframe, mID, mIsPrimary, linkOpen, accepted>>
      BY <1>8 DEF KickClient, Downstream, loginVars
    <2>2. QED
      BY <2>1, LoginQuiet
  <1>9. ASSUME NEW c \in Client, NEW kind \in Kind, NEW willset \in BOOLEAN,
               SetServer(l, c, kind, willset)
        PROVE  LoginOf(l)'
    <2>1. lframe[l].at = "idle" /\ UNCHANGED <<mID, mIsPrimary, linkOpen, accepted>>
      BY <1>9 DEF SetServer, Order, LinkAt, loginVars
    <2>2. lframe' = lframe \/ lframe'[l].at \in {"find", "store"}
      BY <1>9, SetServerFrame
    <2>3. QED
      BY <2>1, <2>2, LoginQuiet
  <1>10. QED
    BY <1>1, <1>2, <1>3, <1>4, <1>5, <1>6, <1>7, <1>8, <1>9 DEF LinkLoop, LinkInput

\* What a step of a link makes of its own EntryOf.
LEMMA EntryOwnStep ==
    ASSUME TypeOK, NEW l \in Link, LoginOf(l), EntryOf(l), LinkLoop(l) \/ LinkInput(l)
    PROVE  EntryOf(l)'
  <1> USE ConstantsAssumption
  <1>t. /\ lframe \in [Link -> LinkFrame] /\ linkOpen \in [Link -> BOOLEAN]
        /\ accepted \in [Link -> SUBSET (Kind \X (Id \cup {NoId}))]
    BY DEF TypeOK
  <1>a. accepted[l] \subseteq accepted'[l]
    BY LinkStepKeeps
  <1>1. CASE LoginAdd(l)
    <2>1. /\ linkOpen[l] /\ linkOpen' = linkOpen
          /\ <<lframe[l].kind, lframe[l].id>> \in accepted'[l]
      BY <1>1, <1>t DEF LoginAdd, LoginOf, LinkAt
    <2>2. \A k \in Kind, i \in Id : gAllServers'[k][i] =
              IF k = lframe[l].kind /\ i = lframe[l].id THEN l ELSE gAllServers[k][i]
      BY <1>1, AddedEntry
    <2>3. QED
      BY <1>a, <2>1, <2>2 DEF EntryOf
  <1>2. CASE LinkClose(l) /\ mID[l] = NoId
    <2>1. accepted[l] = {}
      BY <1>2 DEF LinkClose, LoginOf, LinkAt
    <2>2. UNCHANGED gAllServers
      BY <1>2 DEF LinkClose
    <2>3. QED
      BY <2>1, <2>2 DEF EntryOf
  <1>3. CASE (LinkClose(l) /\ mID[l] # NoId /\ ~mIsPrimary[l]) \/ LinkUnregister(l)
    <2>1. mID[l] # NoId /\ <<KindNow(l), mID[l]>> \in accepted[l]
      BY <1>3 DEF LinkUnregister, LoginOf
    <2>2. \A k \in Kind, i \in Id : gAllServers'[k][i] =
              IF k = KindNow(l) /\ i = mID[l] THEN Absent ELSE gAllServers[k][i]
      BY <1>3, RemovedEntry
    <2>3. ASSUME NEW k \in Kind, NEW i \in Id, gAllServers'[k][i] = l
          PROVE  /\ <<k, i>> \in accepted[l]
                 /\ <<KindNow(l), mID[l]>> # <<k, i>>
      BY <2>2, <2>3 DEF EntryOf
    <2>4. QED
      BY <1>a, <2>1, <2>3 DEF EntryOf
  <1>4. CASE ~LoginAdd(l) /\ ~LinkUnregister(l) /\ (LinkClose(l) => mID[l] # NoId /\ mIsPrimary[l])
    <2>1. linkOpen[l] \/ LinkAt(l, "kick") => linkOpen'[l] \/ LinkAt(l, "kick")'
      <3>1. CASE LinkClose(l)
        <4>1. lframe' = [lframe EXCEPT ![l] = [LinkIdle EXCEPT !.at = "kick", !.copy = gAllClientObject]]
          BY <1>4, <3>1 DEF LinkClose
        <4>2. QED
          BY <1>t, <4>1 DEF LinkIdle, LinkAt
      <3>2. CASE LinkKick(l)
        BY <1>t, <3>2 DEF LinkKick, LinkAt, LinkFrame
      <3>3. CASE ~LinkClose(l) /\ ~LinkKick(l)
        <4>1. UNCHANGED linkOpen /\ ~LinkAt(l, "kick")
          BY <1>4, <3>3 DEF LinkLoop, LinkInput, LoginFind, LoginReply, SetFind, SetStore,
                            KickClient, Downstream, SetServer, Order, LinkAt, loginVars
        <4>2. QED
          BY <4>1
      <3>4. QED
        BY <3>1, <3>2, <3>3
    <2>2. \A k \in Kind, i \in Id : gAllServers'[k][i] = l => gAllServers[k][i] = l
      BY <1>4, LinkStepEntries
    <2>3. QED
      BY <1>a, <2>1, <2>2, EntryQuiet
  <1>5. QED
    BY <1>1, <1>2, <1>3, <1>4

\* ... and is kept by every step.
LEMMA RegistryNext == TypeOK /\ RegistryInv /\ [Next]_vars => RegistryInv'
  <1> SUFFICES ASSUME TypeOK, RegistryInv, [Next]_vars, NEW m \in Link
               PROVE  LoginOf(m)' /\ EntryOf(m)'
    BY DEF RegistryInv
  <1> USE ConstantsAssumption
  <1>m. LoginOf(m) /\ EntryOf(m)
    BY DEF RegistryInv
  <1>1. ASSUME NEW c \in Client, ClientLoop(c) \/ ClientInput(c) PROVE LoginOf(m)' /\ EntryOf(m)'
    <2>1. \A k \in Kind, i \in Id : gAllServers'[k][i] = m <=> gAllServers[k][i] = m
      BY <1>1, ClientStepKeeps
    <2>2. UNCHANGED <<mID, mIsPrimary, linkOpen, accepted, lframe>>
      BY <1>1, ClientStepKeeps DEF linkVars, loginVars
    <2>3. LoginOf(m)'
      BY <1>m, <2>2, LoginQuiet
    <2>4. EntryOf(m)'
      BY <1>m, <2>1, <2>2, EntryQuiet DEF LinkAt
    <2>5. QED
      BY <2>3, <2>4
  <1>2. ASSUME NEW l \in Link, LinkLoop(l) \/ LinkInput(l), m # l PROVE LoginOf(m)' /\ EntryOf(m)'
    <2>1. /\ lframe'[m] = lframe[m] /\ mID'[m] = mID[m] /\ mIsPrimary'[m] = mIsPrimary[m]
          /\ linkOpen'[m] = linkOpen[m] /\ accepted'[m] = accepted[m]
      BY <1>2, LinkStepKeeps
    <2>2. LoginOf(l)
      BY DEF RegistryInv
    <2>3. \A k \in Kind, i \in Id : gAllServers'[k][i] = m => gAllServers[k][i] = m
      BY <1>2, <2>2, LinkStepEntries
    <2>4. LoginOf(m)'
      BY <1>m, <2>1, LoginQuiet
    <2>5. EntryOf(m)'
      BY <1>m, <2>1, <2>3, EntryQuiet DEF LinkAt
    <2>6. QED
      BY <2>4, <2>5
  <1>3. ASSUME LinkLoop(m) \/ LinkInput(m) PROVE LoginOf(m)' /\ EntryOf(m)'
    BY <1>m, <1>3, LoginOwnStep, EntryOwnStep
  <1>4. CASE UNCHANGED vars
    <2>1. UNCHANGED <<gAllServers, mID, mIsPrimary, linkOpen, accepted, lframe>>
      BY <1>4 DEF vars
    <2>2. QED
      BY <1>m, <2>1, LoginQuiet, EntryQuiet DEF LinkAt
  <1>5. QED
    BY <1>1, <1>2, <1>3, <1>4 DEF Next

\* A session that has closed stays registered only under something it was accepted as
\* besides what it removed, for any logins, repeated, contending or retried, and any
\* closes and look-ups in between.
THEOREM RegistryCorrect == Spec => []RegisteredServerIsLive
  <1>1. RegistryInv => RegisteredServerIsLive
    BY DEF RegistryInv, EntryOf, RegisteredServerIsLive
  <1>2. QED
    BY <1>1, TypeInit, TypeNext, RegistryInit, RegistryNext, PTL DEF Spec

-----------------------------------------------------------------------------
(* Proof of HeldInv *)

\* HeldInv holds at the start, ...
LEMMA HeldInit == Init => HeldInv
  BY ConstantsAssumption DEF Init, HeldInv, Holds, LinkAt, LinkIdle

\* A step gives a session something to hold only by adding it to the registry.
LEMMA HoldsBefore ==
    ASSUME TypeOK, NEW l \in Link, LoginOf(l), LinkLoop(l) \/ LinkInput(l),
           NEW m \in Link, NEW kind \in Kind, NEW id \in Id, Holds(m, kind, id)'
    PROVE  \/ Holds(m, kind, id)
           \/ m = l /\ LoginAdd(l) /\ kind = lframe[l].kind /\ id = lframe[l].id
  <1> USE ConstantsAssumption
  <1>t. /\ lframe \in [Link -> LinkFrame] /\ mID \in [Link -> Id \cup {NoId}]
        /\ mIsPrimary \in [Link -> BOOLEAN]
    BY DEF TypeOK
  <1>1. CASE m # l
    <2>1. lframe'[m] = lframe[m] /\ mID'[m] = mID[m] /\ mIsPrimary'[m] = mIsPrimary[m]
      BY <1>1, LinkStepKeeps
    <2>2. QED
      BY <2>1 DEF Holds, LinkAt, KindNow
  <1>2. CASE m = l /\ LoginAdd(l)
    <2>1. /\ lframe'[l].at = "reply"
          /\ lframe'[l].kind = lframe[l].kind /\ lframe'[l].id = lframe[l].id
          /\ UNCHANGED <<mID, mIsPrimary>>
      BY <1>2, <1>t DEF LoginAdd, LinkFrame
    <2>2. QED
      BY <1>2, <2>1 DEF Holds, LinkAt, KindNow
  <1>3. CASE m = l /\ LoginReply(l)
    <2>1. lframe[l].at = "reply" /\ lframe'[l].at = "idle" /\ mID'[l] = lframe[l].id
      BY <1>3, <1>t DEF LoginReply, LinkAt, LinkIdle
    <2>2. KindNow(l)' = lframe[l].kind
      <3>1. mIsPrimary'[l] <=> lframe[l].kind = "primary"
        BY <1>3, <1>t DEF LoginReply
      <3>2. lframe[l].kind \in {"primary", "slave"}
        BY <1>t DEF LinkFrame, Kind
      <3>3. QED
        BY <3>1, <3>2 DEF KindNow
    <2>3. QED
      BY <1>3, <2>1, <2>2 DEF Holds, LinkAt
  <1>4. CASE m = l /\ (LinkClose(l) \/ LinkUnregister(l))
    <2>1. /\ lframe'[l].at # "reply"
          /\ mID'[l] = NoId \/ (mID'[l] = mID[l] /\ mIsPrimary'[l] = mIsPrimary[l])
      <3>1. CASE LinkUnregister(l)
        BY <1>t, <3>1 DEF LinkUnregister, Forget, LinkIdle
      <3>2. CASE LinkClose(l)
        <4>1. \/ mID'[l] = NoId
              \/ UNCHANGED <<mID, mIsPrimary>>
          BY <1>t, <3>2 DEF LinkClose, Forget
        <4>2. lframe[l].at = "idle"
          BY <3>2 DEF LinkClose, LinkAt
        <4>3. \/ lframe' = lframe
              \/ lframe' = [lframe EXCEPT ![l] = [LinkIdle EXCEPT !.at = "kick", !.copy = gAllClientObject]]
          BY <3>2 DEF LinkClose
        <4>4. lframe'[l].at # "reply"
          <5>1. CASE lframe' = lframe
            BY <4>2, <5>1
          <5>2. CASE lframe' = [lframe EXCEPT ![l] = [LinkIdle EXCEPT !.at = "kick", !.copy = gAllClientObject]]
            <6>1. lframe'[l] = [LinkIdle EXCEPT !.at = "kick", !.copy = gAllClientObject]
              BY <1>t, <5>2
            <6>2. QED
              BY <6>1 DEF LinkIdle
          <5>3. QED
            BY <4>3, <5>1, <5>2
        <4>5. QED
          BY <4>1, <4>4
      <3>3. QED
        BY <1>4, <3>1, <3>2
    <2>2. QED
      BY <1>4, <2>1 DEF Holds, LinkAt, KindNow
  <1>5. CASE m = l /\ ~LoginAdd(l) /\ ~LoginReply(l) /\ ~LinkClose(l) /\ ~LinkUnregister(l)
    <2>1. UNCHANGED <<mID, mIsPrimary>>
      BY <1>5 DEF LinkLoop, LinkInput, LoginFind, SetFind, SetStore, LinkKick,
                  KickClient, Downstream, SetServer, loginVars
    <2>2. lframe'[l].at # "reply" \/ lframe' = lframe
      <3>1. CASE SetFind(l) \/ SetStore(l) \/ LinkKick(l)
        BY <1>t, <3>1 DEF SetFind, SetStore, LinkKick, LinkAt, LinkIdle, LinkFrame
      <3>2. CASE \E c \in Client : KickClient(l, c) \/ Downstream(l, c)
        BY <3>2 DEF KickClient, Downstream
      <3>3. CASE \E kind0 \in Kind, id0 \in Id : LoginFind(l, kind0, id0)
        BY <1>t, <3>3 DEF LoginFind, LinkIdle
      <3>4. CASE \E c \in Client, kind0 \in Kind, willset \in BOOLEAN : SetServer(l, c, kind0, willset)
        BY <3>4, SetServerFrame
      <3>5. QED
        BY <1>5, <3>1, <3>2, <3>3, <3>4 DEF LinkLoop, LinkInput
    <2>3. QED
      BY <1>5, <2>1, <2>2 DEF Holds, LinkAt, KindNow
  <1>6. QED
    BY <1>1, <1>2, <1>3, <1>4, <1>5

\* ... and is kept by every step.
LEMMA HeldNext ==
    ASSUME TypeOK, RegistryInv, HeldInv, [Next]_vars
    PROVE  HeldInv'
  <1> USE ConstantsAssumption
  <1> SUFFICES ASSUME NEW m \in Link, NEW kind \in Kind, NEW id \in Id,
                      Holds(m, kind, id)', <<kind, id>> \notin overwrote'
               PROVE  gAllServers'[kind][id] = m
    BY DEF HeldInv
  <1>1. ASSUME NEW c \in Client, ClientLoop(c) \/ ClientInput(c)
        PROVE  gAllServers'[kind][id] = m
    <2>1. UNCHANGED <<mID, mIsPrimary, overwrote, lframe>>
      BY <1>1, ClientStepKeeps DEF linkVars, loginVars
    <2>2. Holds(m, kind, id)
      BY <2>1 DEF Holds, LinkAt, KindNow
    <2>3. QED
      BY <1>1, <2>1, <2>2, ClientStepKeeps DEF HeldInv
  <1>2. ASSUME NEW l \in Link, LinkLoop(l) \/ LinkInput(l)
        PROVE  gAllServers'[kind][id] = m
    <2>l. LoginOf(l)
      BY DEF RegistryInv
    <2>o. <<kind, id>> \notin overwrote
      BY <1>2, LinkStepKeeps
    <2>1. CASE LoginAdd(l)
      <3>1. \A k \in Kind, i \in Id : gAllServers'[k][i] =
                IF k = lframe[l].kind /\ i = lframe[l].id THEN l ELSE gAllServers[k][i]
        BY <2>1, AddedEntry
      <3>2. CASE kind = lframe[l].kind /\ id = lframe[l].id
        <4>1. Find(kind, id) = Nil
          BY <2>1, <3>2 DEF LoginAdd
        <4>2. gAllServers[kind][id] # m
          BY <4>1 DEF Find
        <4>3. ~Holds(m, kind, id)
          BY <2>o, <4>2 DEF HeldInv
        <4>4. m = l
          BY <1>2, <2>l, <4>3, HoldsBefore
        <4>5. QED
          BY <3>1, <3>2, <4>4
      <3>3. CASE ~(kind = lframe[l].kind /\ id = lframe[l].id)
        <4>1. Holds(m, kind, id)
          BY <1>2, <2>l, <3>3, HoldsBefore
        <4>2. QED
          BY <2>o, <3>1, <3>3, <4>1 DEF HeldInv
      <3>4. QED
        BY <3>2, <3>3
    <2>2. CASE ~LoginAdd(l)
      <3>1. Holds(m, kind, id)
        BY <1>2, <2>l, <2>2, HoldsBefore
      <3>2. gAllServers[kind][id] = m
        BY <2>o, <3>1 DEF HeldInv
      <3>3. CASE \A k \in Kind, i \in Id, n \in Link : gAllServers'[k][i] = n <=> gAllServers[k][i] = n
        BY <3>2, <3>3
      <3>4. CASE /\ LinkClose(l) \/ LinkUnregister(l)
                 /\ \A k \in Kind, i \in Id : gAllServers'[k][i] =
                       IF k = KindNow(l) /\ i = mID[l] THEN Absent ELSE gAllServers[k][i]
                 /\ mID' = [mID EXCEPT ![l] = NoId]
        <4>1. CASE kind = KindNow(l) /\ id = mID[l]
          <5>1. Holds(l, kind, id)
            BY <4>1 DEF Holds
          <5>2. m = l
            BY <2>o, <3>2, <5>1 DEF HeldInv
          <5>3. mID'[l] = NoId /\ lframe'[l].at # "reply"
            BY <3>4 DEF TypeOK, LinkClose, LinkUnregister, LinkAt, LinkIdle
          <5>4. QED
            BY <5>2, <5>3 DEF Holds, LinkAt
        <4>2. CASE ~(kind = KindNow(l) /\ id = mID[l])
          BY <3>2, <3>4, <4>2
        <4>3. QED
          BY <4>1, <4>2
      <3>5. QED
        BY <1>2, <2>2, <2>l, <3>3, <3>4, LinkStepEntries
    <2>3. QED
      BY <2>1, <2>2
  <1>3. CASE UNCHANGED vars
    <2>1. UNCHANGED <<gAllServers, mID, mIsPrimary, overwrote, lframe>>
      BY <1>3 DEF vars
    <2>2. Holds(m, kind, id)
      BY <2>1 DEF Holds, LinkAt, KindNow
    <2>3. QED
      BY <2>1, <2>2 DEF HeldInv
  <1>4. QED
    BY <1>1, <1>2, <1>3 DEF Next

\* A session that is logged in is found under its kind and ID, whatever else logs in,
\* again or under the same ID, and closes: unless a login that had passed the look-up
\* replaced it there.
THEOREM AcceptedCorrect == Spec => []AcceptedServerIsRegistered
  <1>1. TypeOK /\ HeldInv => AcceptedServerIsRegistered
    <2> SUFFICES ASSUME TypeOK, HeldInv, NEW l \in Link, mID[l] # NoId,
                        <<KindNow(l), mID[l]>> \notin overwrote
                 PROVE  gAllServers[KindNow(l)][mID[l]] = l
      BY DEF AcceptedServerIsRegistered
    <2>1. mID[l] \in Id /\ KindNow(l) \in Kind
      BY DEF TypeOK, KindNow, Kind
    <2>2. Holds(l, KindNow(l), mID[l])
      BY DEF Holds
    <2>3. QED
      BY <2>1, <2>2 DEF HeldInv
  <1>2. TypeOK /\ RegistryInv /\ HeldInv /\ [Next]_vars => HeldInv'
    BY HeldNext
  <1>3. QED
    BY <1>1, <1>2, TypeInit, TypeNext, RegistryInit, RegistryNext, HeldInit, PTL DEF Spec

-----------------------------------------------------------------------------
(* Proof of BindInv *)

\* BindInv holds at the start, ...
LEMMA BindInit == Init => BindInv
  BY DEF Init, BindInv, Idle, LinkIdle

\* A lookup under an ID returns a server of the map's kind.
LEMMA FoundKind ==
    ASSUME RegistryInv, NEW kind \in Kind, NEW id \in Id, Find(kind, id) # Nil
    PROVE  Find(kind, id) \in Link /\ Was(accepted, Find(kind, id), kind)
  <1>1. Find(kind, id) \in Link /\ gAllServers[kind][id] = Find(kind, id)
    BY DEF Find
  <1>2. <<kind, id>> \in accepted[Find(kind, id)]
    BY <1>1 DEF RegistryInv, EntryOf
  <1>3. QED
    BY <1>1, <1>2 DEF Was


\* The handlers of a client's loop other than the claim neither look a server up
\* nor store one.
LEMMA ClientQuiet ==
    ASSUME TypeOK, NEW c \in Client, ClientLoop(c) \/ ClientInput(c),
           ~ClaimPick(c), ~ClaimFind(c), ~ClaimStore(c)
    PROVE  /\ UNCHANGED <<gAllServers, bound, boundInTime, linkVars>>
           /\ \A d \in Client : /\ frame'[d].found \in {frame[d].found, Nil}
                                /\ frame'[d].at # "find" \/ frame'[d] = frame[d]
  <1>f. frame \in [Client -> Frame]
    BY DEF TypeOK
  <1>1. UNCHANGED <<gAllServers, bound, boundInTime, linkVars>>
    BY DEF ClientLoop, ClientInput, ReconnectMark, LoadSlave, ClaimReload, Forward, TimerFires,
           RunAsyncProc, NotifyLoad, NotifyCheck, NotifyAll, EraseClient, ClientEnter, Heartbeat,
           ReconnectAsk, ClientClose, GamePacket
  <1>2. ASSUME NEW f, frame' = [frame EXCEPT ![c] = f], f.found \in {frame[c].found, Nil}, f.at # "find"
        PROVE  \A d \in Client : /\ frame'[d].found \in {frame[d].found, Nil}
                                 /\ frame'[d].at # "find" \/ frame'[d] = frame[d]
    BY <1>2, <1>f
  <1>3. CASE frame' = frame
    BY <1>1, <1>3
  <1>4. CASE \E op \in PacketOp : GamePacket(c, op)
    <2>1. PICK op \in PacketOp : frame' = [frame EXCEPT ![c] =
              [Idle EXCEPT !.at = "slave", !.op = op, !.primary = bound[c]["primary"]]]
      BY <1>4 DEF GamePacket
    <2>2. QED
      BY <1>1, <1>2, <2>1 DEF Idle
  <1>5. CASE ReconnectMark(c) \/ Forward(c) \/ EraseClient(c)
    <2>1. frame' = [frame EXCEPT ![c] = Idle]
      BY <1>5 DEF ReconnectMark, Forward, EraseClient
    <2>2. QED
      BY <1>1, <1>2, <2>1 DEF Idle
  <1>6. CASE LoadSlave(c)
    <2>1. frame' = [frame EXCEPT ![c] = [frame[c] EXCEPT !.slave = bound[c]["slave"],
              !.at = IF frame[c].primary = Nil THEN "reload" ELSE "forward"]]
      BY <1>6, <1>f DEF LoadSlave, Frame
    <2>2. QED
      BY <1>1, <1>2, <1>f, <2>1 DEF Frame
  <1>7. ASSUME NEW at, at # "find", frame' = [frame EXCEPT ![c].at = at]
        PROVE  \A d \in Client : /\ frame'[d].found \in {frame[d].found, Nil}
                                 /\ frame'[d].at # "find" \/ frame'[d] = frame[d]
    BY <1>7, <1>f DEF Frame
  <1>8. CASE ClaimReload(c) \/ ReconnectAsk(c)
    BY <1>1, <1>7, <1>8 DEF ClaimReload, ReconnectAsk
  <1>9. CASE TimerFires(c) \/ RunAsyncProc(c)
    <2>1. frame' = frame \/ \E b \in BOOLEAN : frame' = [frame EXCEPT ![c] = NotifyFrame(b)]
      BY <1>9 DEF TimerFires, RunAsyncProc
    <2>2. QED
      <3>1. \A b \in BOOLEAN : NotifyFrame(b).found = Nil /\ NotifyFrame(b).at = "notify"
        BY DEF NotifyFrame, Idle
      <3>2. QED
        BY <1>1, <1>2, <1>3, <2>1, <3>1
  <1>10. ASSUME NotifyDone(c)
         PROVE  \A d \in Client : /\ frame'[d].found \in {frame[d].found, Nil}
                                  /\ frame'[d].at # "find" \/ frame'[d] = frame[d]
    <2>1. PICK f : /\ frame' = [frame EXCEPT ![c] = f]
                   /\ f \in {[frame[c] EXCEPT !.at = "notify", !.kind = "slave"],
                             [frame[c] EXCEPT !.at = "erase"], Idle}
      BY <1>10, <1>f DEF NotifyDone
    <2>2. QED
      <3>1. f.found \in {frame[c].found, Nil} /\ f.at # "find"
        <4>1. CASE f = Idle
          BY <4>1 DEF Idle
        <4>2. CASE f = [frame[c] EXCEPT !.at = "erase"]
          BY <1>f, <4>2 DEF Frame
        <4>3. CASE f = [frame[c] EXCEPT !.at = "notify", !.kind = "slave"]
          BY <1>f, <4>3 DEF Frame
        <4>4. QED
          BY <2>1, <4>1, <4>2, <4>3
      <3>2. QED
        BY <1>2, <2>1, <3>1
  <1>11. CASE NotifyLoad(c) \/ NotifyCheck(c) \/ NotifyAll(c)
    BY <1>1, <1>7, <1>10, <1>11 DEF NotifyLoad, NotifyCheck, NotifyAll
  <1>12. CASE ClientEnter(c) \/ Heartbeat(c) \/ ClientClose(c)
    BY <1>3, <1>12 DEF ClientEnter, Heartbeat, ClientClose
  <1>13. QED
    BY <1>4, <1>5, <1>6, <1>8, <1>9, <1>11, <1>12 DEF ClientLoop, ClientInput

\* What a session was accepted as, it stays.
LEMMA WasStays ==
    ASSUME TypeOK, [Next]_vars
    PROVE  \A s \in Link : accepted[s] \subseteq accepted'[s]
  <1>1. ASSUME NEW c \in Client, ClientLoop(c) \/ ClientInput(c) PROVE accepted' = accepted
    BY <1>1, ClientStepKeeps DEF linkVars, loginVars
  <1>2. ASSUME NEW l \in Link, LinkLoop(l) \/ LinkInput(l)
        PROVE  \A s \in Link : accepted[s] \subseteq accepted'[s]
    BY <1>2, LinkStepKeeps
  <1>3. CASE UNCHANGED vars
    BY <1>3 DEF vars
  <1>4. QED
    BY <1>1, <1>2, <1>3 DEF Next

\* So BindInv is only about the pointers a step newly binds or finds: those that were
\* there stay right.
LEMMA BindKept ==
    ASSUME TypeOK, BindInv, \A s \in Link : accepted[s] \subseteq accepted'[s],
           \A c \in Client, kind \in Kind :
               \/ bound'[c][kind] \in {bound[c][kind], Nil}
               \/ bound'[c][kind] \in Link /\ Was(accepted, bound'[c][kind], kind),
           \A c \in Client :
               /\ \/ frame'[c].found \in {frame[c].found, Nil}
                  \/ frame'[c].found \in Link /\ Was(accepted, frame'[c].found, "primary")
               /\ frame'[c].at = "find" => frame'[c].id \in Id,
           \A l \in Link :
               /\ \/ lframe'[l].server = Nil
                  \/ lframe'[l].server = lframe[l].server /\ lframe'[l].kind = lframe[l].kind
                  \/ lframe'[l].server \in Link /\ Was(accepted, lframe'[l].server, lframe'[l].kind)
               /\ lframe'[l].at = "find" => lframe'[l].id \in Id
    PROVE  BindInv'
  <1>1. \A s \in Link : \A kind : Was(accepted, s, kind) => Was(accepted', s, kind)
    BY DEF Was
  <1>2. /\ \A c \in Client, kind \in Kind : bound[c][kind] \in Link \cup {Nil}
        /\ \A c \in Client : frame[c].found \in Link \cup {Nil}
        /\ \A l \in Link : lframe[l].server \in Link \cup {Nil}
    BY DEF TypeOK, Server, Frame, LinkFrame
  <1>3. \A c \in Client, kind \in Kind :
            bound'[c][kind] # Nil => Was(accepted', bound'[c][kind], kind)
    BY <1>1, <1>2 DEF BindInv
  <1>4. \A c \in Client : frame'[c].found # Nil => Was(accepted', frame'[c].found, "primary")
    BY <1>1, <1>2 DEF BindInv
  <1>5. \A l \in Link : lframe'[l].server # Nil => Was(accepted', lframe'[l].server, lframe'[l].kind)
    BY <1>1, <1>2 DEF BindInv
  <1>6. QED
    BY <1>3, <1>4, <1>5 DEF BindInv

\* Where a link's handler finds a server, and where it takes one to be found.
LEMMA LinkQuietFrame ==
    ASSUME TypeOK, NEW l \in Link, LinkLoop(l) \/ LinkInput(l), ~SetFind(l)
    PROVE  /\ \/ lframe'[l].server = Nil
              \/ lframe'[l].server = lframe[l].server /\ lframe'[l].kind = lframe[l].kind
           /\ lframe'[l].at = "find" => lframe'[l] = lframe[l] \/ lframe'[l].id \in Id
  <1>t. lframe \in [Link -> LinkFrame] /\ mID \in [Link -> Id \cup {NoId}]
    BY DEF TypeOK
  <1>1. CASE LoginAdd(l)
    BY <1>1, <1>t DEF LoginAdd, LinkFrame
  <1>2. CASE LinkKick(l)
    <2>1. /\ lframe'[l].server = lframe[l].server /\ lframe'[l].kind = lframe[l].kind
          /\ lframe'[l].at = "kick"
      BY <1>2, <1>t DEF LinkKick, LinkAt, LinkFrame
    <2>2. QED
      BY <2>1
  <1>3. CASE LoginReply(l) \/ SetStore(l) \/ LinkUnregister(l)
    BY <1>3, <1>t DEF LoginReply, SetStore, LinkUnregister, LinkIdle
  <1>4. CASE LinkClose(l)
    <2>1. lframe[l].at = "idle"
      BY <1>4 DEF LinkClose, LinkAt
    <2>2. \/ lframe' = lframe
          \/ lframe' = [lframe EXCEPT ![l] = [LinkIdle EXCEPT !.at = "kick", !.copy = gAllClientObject]]
      BY <1>4 DEF LinkClose
    <2>3. QED
      BY <1>t, <2>1, <2>2 DEF LinkIdle
  <1>5. CASE \E c \in Client : KickClient(l, c) \/ Downstream(l, c)
    BY <1>5 DEF KickClient, Downstream
  <1>6. CASE \E kind \in Kind, id \in Id : LoginFind(l, kind, id)
    BY <1>6, <1>t DEF LoginFind, LinkIdle
  <1>7. CASE \E c \in Client, kind \in Kind, willset \in BOOLEAN : SetServer(l, c, kind, willset)
    BY <1>7, SetServerFrame
  <1>8. QED
    BY <1>1, <1>2, <1>3, <1>4, <1>5, <1>6, <1>7 DEF LinkLoop, LinkInput

\* ... and is kept by every step.
LEMMA BindNext ==
    ASSUME TypeOK, RegistryInv, BindInv, [Next]_vars
    PROVE  BindInv'
  <1>t. /\ frame \in [Client -> Frame] /\ lframe \in [Link -> LinkFrame]
        /\ bound \in [Client -> [Kind -> Server]]
    BY DEF TypeOK
  <1>a. \A s \in Link : accepted[s] \subseteq accepted'[s]
    BY WasStays
  <1>k. "primary" \in Kind /\ \A l \in Link : lframe[l].kind \in Kind
    BY <1>t DEF Kind, LinkFrame
  <1>1. ASSUME NEW c \in Client, ClientLoop(c) \/ ClientInput(c),
               ~ClaimPick(c), ~ClaimFind(c), ~ClaimStore(c)
        PROVE  BindInv'
    <2>1. /\ UNCHANGED <<bound, lframe>>
          /\ \A d \in Client : /\ frame'[d].found \in {frame[d].found, Nil}
                               /\ frame'[d].at # "find" \/ frame'[d] = frame[d]
      BY <1>1, ClientQuiet DEF linkVars
    <2>2. \A d \in Client : frame'[d].at = "find" => frame'[d].id \in Id
      BY <2>1 DEF BindInv
    <2>3. \A m \in Link : lframe'[m].at = "find" => lframe'[m].id \in Id
      BY <2>1 DEF BindInv
    <2>4. QED
      BY <1>a, <2>1, <2>2, <2>3, BindKept
  <1>2. ASSUME NEW c \in Client, ClaimPick(c) PROVE BindInv'
    <2>1. \A d \in Client : d # c => frame'[d] = frame[d]
      BY <1>2, <1>t DEF ClaimPick
    <2>2. frame'[c].found = frame[c].found /\ (frame'[c].at = "find" => frame'[c].id \in Id)
      <3>1. CASE frame' = [frame EXCEPT ![c].at = "forward"]
        BY <1>t, <3>1 DEF Frame
      <3>2. ASSUME NEW id \in Id, frame' = [frame EXCEPT ![c].id = id, ![c].at = "find"]
            PROVE  frame'[c].found = frame[c].found /\ frame'[c].id \in Id
        BY <1>t, <3>2 DEF Frame
      <3>3. QED
        BY <1>2, <3>1, <3>2 DEF ClaimPick, PrimaryKeys
    <2>3. UNCHANGED <<bound, lframe>>
      BY <1>2 DEF ClaimPick, linkVars
    <2>4. \A d \in Client : /\ frame'[d].found \in {frame[d].found, Nil}
                            /\ frame'[d].at = "find" => frame'[d].id \in Id
      BY <2>1, <2>2 DEF BindInv
    <2>5. \A m \in Link : lframe'[m].at = "find" => lframe'[m].id \in Id
      BY <2>3 DEF BindInv
    <2>6. QED
      BY <1>a, <2>3, <2>4, <2>5, BindKept
  <1>3. ASSUME NEW c \in Client, ClaimFind(c) PROVE BindInv'
    <2>1. \A d \in Client : d # c => frame'[d] = frame[d]
      BY <1>3, <1>t DEF ClaimFind
    <2>2. frame'[c].found = Find("primary", frame[c].id) /\ frame'[c].at = "store"
      BY <1>3, <1>t DEF ClaimFind, Frame
    <2>3. frame[c].id \in Id
      BY <1>3 DEF ClaimFind, At, BindInv
    <2>4. \/ frame'[c].found = Nil
          \/ frame'[c].found \in Link /\ Was(accepted, frame'[c].found, "primary")
      BY <1>k, <2>2, <2>3, FoundKind
    <2>5. UNCHANGED <<bound, lframe>>
      BY <1>3 DEF ClaimFind, linkVars
    <2>6. \A d \in Client :
             /\ \/ frame'[d].found \in {frame[d].found, Nil}
                \/ frame'[d].found \in Link /\ Was(accepted, frame'[d].found, "primary")
             /\ frame'[d].at = "find" => frame'[d].id \in Id
      BY <2>1, <2>2, <2>4 DEF BindInv
    <2>7. \A m \in Link : lframe'[m].at = "find" => lframe'[m].id \in Id
      BY <2>5 DEF BindInv
    <2>8. QED
      BY <1>a, <2>5, <2>6, <2>7, BindKept
  <1>4. ASSUME NEW c \in Client, ClaimStore(c) PROVE BindInv'
    <2>1. \A d \in Client, k \in Kind : bound'[d][k] =
              IF d = c /\ k = "primary" THEN frame[c].found ELSE bound[d][k]
      BY <1>4, <1>t DEF ClaimStore, Bind
    <2>2. \A d \in Client : /\ frame'[d].found = frame[d].found
                            /\ frame'[d].at # "find" \/ frame'[d] = frame[d]
      BY <1>4, <1>t DEF ClaimStore, Frame
    <2>3. UNCHANGED lframe
      BY <1>4 DEF ClaimStore, linkVars
    <2>4. \/ frame[c].found = Nil
          \/ frame[c].found \in Link /\ Was(accepted, frame[c].found, "primary")
      BY <1>t DEF BindInv, Frame, Server
    <2>5. \A d \in Client, k \in Kind :
             \/ bound'[d][k] \in {bound[d][k], Nil}
             \/ bound'[d][k] \in Link /\ Was(accepted, bound'[d][k], k)
      BY <2>1, <2>4
    <2>6. /\ \A d \in Client : frame'[d].at = "find" => frame'[d].id \in Id
          /\ \A m \in Link : lframe'[m].at = "find" => lframe'[m].id \in Id
      BY <2>2, <2>3 DEF BindInv
    <2>7. QED
      BY <1>a, <2>2, <2>3, <2>5, <2>6, BindKept
  <1>5. ASSUME NEW l \in Link, LinkLoop(l) \/ LinkInput(l), ~SetStore(l) PROVE BindInv'
    <2>1. UNCHANGED frame /\ \A m \in Link : m # l => lframe'[m] = lframe[m]
      BY <1>5, LinkStepKeeps
    <2>2. UNCHANGED bound
      BY <1>5 DEF LinkLoop, LinkInput, LoginFind, LoginAdd, LoginReply, SetFind, LinkKick,
                  LinkUnregister, LinkClose, KickClient, Downstream, SetServer, clientVars
    <2>3. /\ \/ lframe'[l].server = Nil
             \/ lframe'[l].server = lframe[l].server /\ lframe'[l].kind = lframe[l].kind
             \/ lframe'[l].server \in Link /\ Was(accepted, lframe'[l].server, lframe'[l].kind)
          /\ lframe'[l].at = "find" => lframe'[l] = lframe[l] \/ lframe'[l].id \in Id
      <3>1. CASE SetFind(l)
        <4>1. /\ lframe'[l].server = Find(lframe[l].kind, lframe[l].id)
              /\ lframe'[l].kind = lframe[l].kind /\ lframe'[l].at = "store"
          BY <3>1, <1>t DEF SetFind, LinkFrame
        <4>2. lframe[l].id \in Id
          BY <3>1 DEF SetFind, LinkAt, BindInv
        <4>3. QED
          BY <1>k, <4>1, <4>2, FoundKind
      <3>2. CASE ~SetFind(l)
        BY <1>5, <3>2, LinkQuietFrame
      <3>3. QED
        BY <3>1, <3>2
    <2>4. \A m \in Link :
             /\ \/ lframe'[m].server = Nil
                \/ lframe'[m].server = lframe[m].server /\ lframe'[m].kind = lframe[m].kind
                \/ lframe'[m].server \in Link /\ Was(accepted, lframe'[m].server, lframe'[m].kind)
             /\ lframe'[m].at = "find" => lframe'[m].id \in Id
      BY <2>1, <2>3 DEF BindInv
    <2>5. \A d \in Client : frame'[d].at = "find" => frame'[d].id \in Id
      BY <2>1 DEF BindInv
    <2>6. QED
      BY <1>a, <2>1, <2>2, <2>4, <2>5, BindKept
  <1>6. ASSUME NEW l \in Link, SetStore(l) PROVE BindInv'
    <2>1. \A d \in Client, k \in Kind : \/ bound'[d][k] = bound[d][k]
                                        \/ k = lframe[l].kind /\ bound'[d][k] = lframe[l].server
      BY <1>6, <1>t DEF SetStore, Bind
    <2>2. \/ lframe[l].server = Nil
          \/ lframe[l].server \in Link /\ Was(accepted, lframe[l].server, lframe[l].kind)
      BY <1>t DEF BindInv, LinkFrame, Server
    <2>3. \A d \in Client, k \in Kind :
             \/ bound'[d][k] \in {bound[d][k], Nil}
             \/ bound'[d][k] \in Link /\ Was(accepted, bound'[d][k], k)
      BY <2>1, <2>2
    <2>4. /\ UNCHANGED frame
          /\ \A m \in Link : (lframe'[m].server = Nil /\ lframe'[m].at = "idle") \/ lframe'[m] = lframe[m]
      BY <1>6, <1>t DEF SetStore, LinkIdle
    <2>5. /\ \A d \in Client : frame'[d].at = "find" => frame'[d].id \in Id
          /\ \A m \in Link : lframe'[m].at = "find" => lframe'[m].id \in Id
      BY <2>4 DEF BindInv
    <2>6. QED
      BY <1>a, <2>3, <2>4, <2>5, BindKept
  <1>7. CASE UNCHANGED vars
    BY <1>7 DEF vars, BindInv
  <1>8. QED
    BY <1>1, <1>2, <1>3, <1>4, <1>5, <1>6, <1>7 DEF Next

\* Whoever stored it, a client's primary has logged in as a primary and its slave as
\* a slave.
THEOREM BoundCorrect == Spec => []BoundToItsKind
  <1>1. BindInv => BoundToItsKind
    BY DEF BindInv, BoundToItsKind, Was
  <1>2. TypeOK /\ RegistryInv /\ BindInv /\ [Next]_vars => BindInv'
    BY BindNext
  <1>3. QED
    BY <1>1, <1>2, TypeInit, TypeNext, RegistryInit, RegistryNext, BindInit, PTL DEF Spec


(* The disconnect notification *)

\* NotifyInv holds at the start.
LEMMA NotifyInit == Init => NotifyInv
  <1> SUFFICES ASSUME Init, NEW c \in Client PROVE NotifyOf(c)
    BY DEF NotifyInv
  <1>1. status[c] = "new" /\ frame[c] = Idle
    BY DEF Init
  <1>2. ~frame[c].timer /\ frame[c].at = "idle"
    BY <1>1 DEF Idle
  <1>3. \A kind \in Kind : ~Passed(c, kind)
    BY <1>1 DEF Passed
  <1>4. QED
    BY <1>1, <1>2, <1>3 DEF NotifyOf, At

\* What has been posted stays posted: every step leaves a logic server's messages
\* alone or adds one at the end.
LEMMA PostGrows ==
    ASSUME TypeOK, [Next]_vars, NEW l \in Link
    PROVE  toServer'[l] = toServer[l] \/ \E m \in Message : toServer'[l] = Append(toServer[l], m)
  <1>t. /\ toServer \in [Link -> Seq(Message)] /\ frame \in [Client -> Frame]
        /\ mRecvSerialID \in [Client -> Nat] /\ bound \in [Client -> [Kind -> Server]]
    BY DEF TypeOK
  <1>1. ASSUME NEW k, NEW m \in Message, Post(k, m)
        PROVE  toServer'[l] = toServer[l] \/ toServer'[l] = Append(toServer[l], m)
    BY <1>t, <1>1 DEF Post
  <1>2. ASSUME NEW kind, NEW m \in Message, PostAll(kind, m)
        PROVE  toServer'[l] = toServer[l] \/ toServer'[l] = Append(toServer[l], m)
    BY <1>2 DEF PostAll
  <1>3. ASSUME NEW c \in Client, Forward(c)
        PROVE  toServer'[l] = toServer[l] \/ \E m \in Message : toServer'[l] = Append(toServer[l], m)
    <2>1. [op |-> "upstream", client |-> c, n |-> mRecvSerialID[c]] \in Message
      BY <1>t, MessageTypes
    <2>2. QED
      BY <1>1, <1>3, <2>1 DEF Forward
  <1>4. ASSUME NEW c \in Client, NotifyLoad(c) \/ NotifyAll(c) \/ ReconnectAsk(c)
        PROVE  toServer'[l] = toServer[l] \/ \E m \in Message : toServer'[l] = Append(toServer[l], m)
    <2>1. CloseClientACK(c) \in Message /\ [op |-> "reconnect", client |-> c, n |-> 1] \in Message
      BY MessageTypes
    <2>2. QED
      BY <1>1, <1>2, <1>4, <2>1 DEF NotifyLoad, NotifyAll, ReconnectAsk
  <1>5. ASSUME NEW c \in Client, ClientLoop(c) \/ ClientInput(c),
               ~Forward(c), ~NotifyLoad(c), ~NotifyAll(c), ~ReconnectAsk(c)
        PROVE  toServer' = toServer
    BY <1>5 DEF ClientLoop, ClientInput, ReconnectMark, LoadSlave, ClaimReload, ClaimPick,
         ClaimFind, ClaimStore, TimerFires, RunAsyncProc, NotifyCheck, EraseClient, ClientEnter,
         Heartbeat, ClientClose, GamePacket
  <1>6. ASSUME NEW k \in Link, LinkLoop(k) \/ LinkInput(k)
        PROVE  toServer' = toServer
    BY <1>6 DEF LinkLoop, LinkInput, LoginFind, LoginAdd, LoginReply, SetFind, SetStore,
         LinkKick, LinkUnregister, LinkClose, KickClient, Downstream, SetServer
  <1>7. CASE UNCHANGED vars
    BY <1>7 DEF vars
  <1>8. QED
    BY <1>3, <1>4, <1>5, <1>6, <1>7 DEF Next

\* A link that was told that a client is gone stays told.
LEMMA ToldStays ==
    ASSUME TypeOK, [Next]_vars, NEW l \in Link, NEW c \in Client, Told(l, c)
    PROVE  Told(l, c)'
  <1>1. toServer[l] \in Seq(Message)
    BY DEF TypeOK
  <1>2. PICK i \in DOMAIN toServer[l] : toServer[l][i] = CloseClientACK(c)
    BY DEF Told
  <1>3. i \in DOMAIN toServer'[l] /\ toServer'[l][i] = toServer[l][i]
    <2>1. ASSUME NEW m \in Message, toServer'[l] = Append(toServer[l], m)
          PROVE  i \in DOMAIN toServer'[l] /\ toServer'[l][i] = toServer[l][i]
      BY <1>1, <2>1
    <2>2. QED
      BY <2>1, PostGrows
  <1>4. CloseClientACK(c)' = CloseClientACK(c)
    BY DEF CloseClientACK
  <1>5. QED
    BY <1>2, <1>3, <1>4 DEF Told

\* A link that is bound and has the message is told.
LEMMA TellBound ==
    ASSUME NEW l \in Link, NEW c \in Client, NEW kind \in Kind, bound'[c][kind] = l,
           \E i \in DOMAIN toServer'[l] : toServer'[l][i] = CloseClientACK(c)
    PROVE  Told(bound[c][kind], c)'
  <1>1. PICK i \in DOMAIN toServer'[l] : toServer'[l][i] = CloseClientACK(c)
    OBVIOUS
  <1>2. CloseClientACK(c)' = CloseClientACK(c)
    BY DEF CloseClientACK
  <1>3. QED
    BY <1>1, <1>2 DEF Told

\* A link that is told stays told while the binding lasts.
LEMMA ToldBound ==
    ASSUME TypeOK, [Next]_vars, NEW c \in Client, NEW kind \in Kind, bound[c][kind] # Nil,
           bound'[c][kind] = bound[c][kind], Told(bound[c][kind], c)
    PROVE  Told(bound[c][kind], c)'
  <1>1. PICK l \in Link : l = bound[c][kind]
    BY DEF TypeOK, Server
  <1>2. Told(l, c)
    BY <1>1
  <1>3. Told(l, c)'
    BY <1>2, ToldStays
  <1>4. CloseClientACK(c)' = CloseClientACK(c)
    BY DEF CloseClientACK
  <1>5. \E i \in DOMAIN toServer'[l] : toServer'[l][i] = CloseClientACK(c)
    BY <1>3, <1>4 DEF Told
  <1>6. QED
    BY <1>1, <1>5, TellBound

\* A step that is not part of the notification of c keeps NotifyOf(c), whatever it
\* binds c to.
LEMMA NotifyStays ==
    ASSUME TypeOK, [Next]_vars, NEW c \in Client, NotifyOf(c),
           \/ frame'[c] = frame[c]
           \/ ~frame[c].timer /\ ~frame'[c].timer /\ frame'[c].at # "erase",
           \/ status'[c] = status[c]
           \/ {status[c], status'[c]} \cap {"expired", "forgotten"} = {},
           \A kind \in Kind :
              \/ bound'[c][kind] = bound[c][kind] /\ boundInTime'[c][kind] = boundInTime[c][kind]
              \/ boundInTime'[c][kind] => status[c] \notin {"expired", "forgotten"}
    PROVE  NotifyOf(c)'
  <1>2. /\ frame'[c].timer <=> status'[c] = "expired"
        /\ status'[c] = "expired" => frame'[c].at \in {"notify", "check", "tellAll", "erase"}
        /\ frame'[c].at = "erase" => status'[c] = "expired"
    BY DEF NotifyOf, At
  <1>3. ASSUME NEW kind \in Kind, bound'[c][kind] # Nil, boundInTime'[c][kind], Passed(c, kind)'
        PROVE  Told(bound[c][kind], c) /\ bound'[c][kind] = bound[c][kind]
    <2>1. status'[c] \in {"expired", "forgotten"}
      BY <1>3 DEF Passed
    <2>2. status[c] = status'[c]
      BY <2>1
    <2>3. bound'[c][kind] = bound[c][kind] /\ boundInTime[c][kind]
      BY <1>3, <2>1, <2>2
    <2>4. Passed(c, kind)
      BY <1>2, <1>3, <2>2 DEF Passed, NotifyOf, At
    <2>5. QED
      BY <1>3, <2>3, <2>4 DEF NotifyOf
  <1>4. ASSUME NEW kind \in Kind, bound'[c][kind] # Nil, boundInTime'[c][kind], Passed(c, kind)'
        PROVE  Told(bound[c][kind], c)'
    BY <1>3, <1>4, ToldBound
  <1>5. QED
    BY <1>2, <1>3, <1>4 DEF NotifyOf, At

\* What a step of one client's loop, or of a logic server's, leaves alone.
LEMMA OtherClients ==
    ASSUME TypeOK, NEW c \in Client, ClientLoop(c) \/ ClientInput(c), NEW d \in Client, d # c
    PROVE  /\ frame'[d] = frame[d] /\ status'[d] = status[d]
           /\ bound'[d] = bound[d] /\ boundInTime'[d] = boundInTime[d]
  <1>1. frame'[d] = frame[d]
    BY DEF TypeOK, ClientLoop, ClientInput, ReconnectMark, LoadSlave, ClaimReload, ClaimPick,
       ClaimFind, ClaimStore, Forward, TimerFires, RunAsyncProc, NotifyLoad, NotifyCheck,
       NotifyAll, NotifyDone, EraseClient, ClientEnter, Heartbeat, ReconnectAsk, ClientClose,
       GamePacket
  <1>2. status'[d] = status[d]
    BY DEF TypeOK, ClientLoop, ClientInput, ReconnectMark, LoadSlave, ClaimReload, ClaimPick,
       ClaimFind, ClaimStore, Forward, TimerFires, RunAsyncProc, NotifyLoad, NotifyCheck,
       NotifyAll, EraseClient, ClientEnter, Heartbeat, ReconnectAsk, ClientClose, GamePacket
  <1>3. bound'[d] = bound[d] /\ boundInTime'[d] = boundInTime[d]
    BY DEF TypeOK, ClientLoop, ClientInput, ReconnectMark, LoadSlave, ClaimReload, ClaimPick,
       ClaimFind, ClaimStore, Bind, Forward, TimerFires, RunAsyncProc, NotifyLoad, NotifyCheck,
       NotifyAll, EraseClient, ClientEnter, Heartbeat, ReconnectAsk, ClientClose, GamePacket
  <1>4. QED
    BY <1>1, <1>2, <1>3

\* A kick neither expires nor forgets a client.
LEMMA KickQuiet ==
    ASSUME TypeOK, NEW c \in Client, Kick(c), NEW d \in Client
    PROVE  \/ status'[d] = status[d]
           \/ {status[d], status'[d]} \cap {"expired", "forgotten"} = {}
  <1>1. status \in [Client -> Status]
    BY DEF TypeOK
  <1>2. QED
    BY <1>1 DEF Kick

\* Nor does any step of a link, and it binds nobody it does not hold.
LEMMA LinkQuiet ==
    ASSUME TypeOK, NEW l \in Link, LinkLoop(l) \/ LinkInput(l), NEW d \in Client
    PROVE  /\ frame'[d] = frame[d]
           /\ \/ status'[d] = status[d]
              \/ {status[d], status'[d]} \cap {"expired", "forgotten"} = {}
           /\ \A kind \in Kind :
                 \/ bound'[d][kind] = bound[d][kind] /\ boundInTime'[d][kind] = boundInTime[d][kind]
                 \/ boundInTime'[d][kind] => status[d] \notin {"expired", "forgotten"}
  <1>1. CASE SetStore(l)
    <2>1. boundInTime \in [Client -> [Kind -> BOOLEAN]] /\ bound \in [Client -> [Kind -> Server]]
      BY DEF TypeOK
    <2>2. ASSUME NEW kind \in Kind, d # lframe[l].client \/ kind # lframe[l].kind
          PROVE  bound'[d][kind] = bound[d][kind] /\ boundInTime'[d][kind] = boundInTime[d][kind]
      BY <1>1, <2>1, <2>2 DEF SetStore, Bind
    <2>3. ASSUME NEW kind \in Kind, d = lframe[l].client, kind = lframe[l].kind
          PROVE  boundInTime'[d][kind] <=> status[d] \notin {"expired", "forgotten"}
      BY <1>1, <2>1, <2>3 DEF SetStore, Bind
    <2>4. QED
      BY <1>1, <2>2, <2>3 DEF SetStore
  <1>2. CASE LinkKick(l)
    <2>1. PICK c \in Client : Kick(c) \/ status' = status
      BY <1>2 DEF LinkKick, TypeOK, LinkFrame
    <2>2. QED
      BY <1>2, <2>1, KickQuiet DEF LinkKick
  <1>3. ASSUME NEW c \in Client, KickClient(l, c)
        PROVE  /\ frame' = frame /\ bound' = bound /\ boundInTime' = boundInTime
               /\ \/ status'[d] = status[d]
                  \/ {status[d], status'[d]} \cap {"expired", "forgotten"} = {}
    BY <1>3, KickQuiet DEF KickClient
  <1>4. CASE UNCHANGED clientVars
    BY <1>4 DEF clientVars
  <1>5. CASE SetFind(l)
    BY <1>5 DEF SetFind
  <1>6. ASSUME NEW c \in Client, Downstream(l, c)
        PROVE  UNCHANGED <<frame, status, bound, boundInTime>>
    BY <1>6 DEF Downstream
  <1>7. QED
    BY <1>1, <1>2, <1>3, <1>4, <1>5, <1>6
    DEF LinkLoop, LinkInput, LoginFind, LoginAdd, LoginReply, LinkUnregister, LinkClose, SetServer

\* The servers told by the step that handles a kind.
LEMMA PostTells ==
    ASSUME TypeOK, NEW l \in Link, NEW c \in Client, Post(l, CloseClientACK(c))
    PROVE  \E i \in DOMAIN toServer'[l] : toServer'[l][i] = CloseClientACK(c)
  <1>1. toServer \in [Link -> Seq(Message)] /\ CloseClientACK(c) \in Message
    BY MessageTypes DEF TypeOK
  <1>2. toServer'[l] = Append(toServer[l], CloseClientACK(c))
    BY <1>1 DEF Post
  <1>3. /\ Len(toServer[l]) + 1 \in DOMAIN toServer'[l]
        /\ toServer'[l][Len(toServer[l]) + 1] = CloseClientACK(c)
    BY <1>1, <1>2
  <1>4. QED
    BY <1>3

\* The step that ends the part for one kind: the timer's closure goes on to the next
\* kind or to the erasure, and what it leaves behind has been told.
LEMMA NotifyMovesOn ==
    ASSUME TypeOK, [Next]_vars, NEW c \in Client, NotifyOf(c), NotifyDone(c),
           frame[c].at \in {"notify", "check", "tellAll"},
           UNCHANGED <<status, bound, boundInTime>>,
           NEW done \in Kind, done = frame[c].kind,
           bound[c][done] # Nil /\ boundInTime[c][done] /\ frame[c].timer
               => Told(bound[c][done], c)'
    PROVE  NotifyOf(c)'
  <1>t. frame \in [Client -> Frame] /\ bound \in [Client -> [Kind -> Server]]
    BY DEF TypeOK
  <1>k. frame[c].kind \in {"primary", "slave"} /\ frame[c].timer \in BOOLEAN
    BY <1>t DEF Frame, Kind
  <1>1. ASSUME NEW kind \in Kind, bound[c][kind] # Nil, boundInTime[c][kind], Passed(c, kind)
        PROVE  Told(bound[c][kind], c)'
    BY <1>1, ToldBound DEF NotifyOf
  <1>2. CASE ~frame[c].timer
    <2>1. frame'[c] \in {[frame[c] EXCEPT !.at = "notify", !.kind = "slave"], Idle}
      BY <1>t, <1>2 DEF NotifyDone
    <2>2. ~frame'[c].timer /\ frame'[c].at # "erase"
      <3>1. CASE frame'[c] = Idle
        BY <3>1 DEF Idle
      <3>2. CASE frame'[c] = [frame[c] EXCEPT !.at = "notify", !.kind = "slave"]
        BY <1>t, <1>2, <3>2 DEF Frame
      <3>3. QED
        BY <2>1, <3>1, <3>2
    <2>3. QED
      BY <1>2, <2>2, NotifyStays
  <1>3. CASE frame[c].kind = "primary" /\ frame[c].timer
    <2>1. frame'[c] = [frame[c] EXCEPT !.at = "notify", !.kind = "slave"]
      BY <1>t, <1>3 DEF NotifyDone
    <2>2. frame'[c].at = "notify" /\ frame'[c].kind = "slave" /\ frame'[c].timer = frame[c].timer
      BY <1>t, <2>1 DEF Frame
    <2>3. status[c] = "expired"
      BY <1>3 DEF NotifyOf
    <2>4. ASSUME NEW kind \in Kind, bound'[c][kind] # Nil, boundInTime'[c][kind], Passed(c, kind)'
          PROVE  Told(bound[c][kind], c)'
      <3>1. kind = done
        BY <1>3, <2>2, <2>3, <2>4 DEF Passed, At, Kind
      <3>2. QED
        BY <1>3, <2>4, <3>1
    <2>5. QED
      BY <1>3, <2>2, <2>3, <2>4 DEF NotifyOf, At
  <1>4. CASE frame[c].kind = "slave" /\ frame[c].timer
    <2>1. frame'[c] = [frame[c] EXCEPT !.at = "erase"]
      BY <1>t, <1>4 DEF NotifyDone
    <2>2. frame'[c].at = "erase" /\ frame'[c].timer
      BY <1>t, <1>4, <2>1 DEF Frame
    <2>3. status[c] = "expired"
      BY <1>4 DEF NotifyOf
    <2>4. ASSUME NEW kind \in Kind, bound'[c][kind] # Nil, boundInTime'[c][kind]
          PROVE  Told(bound[c][kind], c)'
      <3>1. CASE kind = done
        BY <1>4, <2>4, <3>1
      <3>2. CASE kind # done
        <4>1. Passed(c, kind)
          BY <1>4, <2>3, <3>2 DEF Passed, Kind
        <4>2. QED
          BY <1>1, <2>4, <4>1
      <3>3. QED
        BY <3>1, <3>2
    <2>5. QED
      BY <2>2, <2>3, <2>4 DEF NotifyOf, At
  <1>5. QED
    BY <1>k, <1>2, <1>3, <1>4

\* NotifyInv is kept by every step.
LEMMA NotifyNext == TypeOK /\ NotifyInv /\ [Next]_vars => NotifyInv'
  <1> SUFFICES ASSUME TypeOK, NotifyInv, [Next]_vars, NEW d \in Client PROVE NotifyOf(d)'
    BY DEF NotifyInv
  <1>d. NotifyOf(d)
    BY DEF NotifyInv
  <1>t. frame \in [Client -> Frame] /\ bound \in [Client -> [Kind -> Server]]
    BY DEF TypeOK
  <1>f. frame[d] \in Frame
    BY <1>t
  <1>1. ASSUME NEW c \in Client, ClientLoop(c) \/ ClientInput(c), d # c
        PROVE  NotifyOf(d)'
    BY <1>1, <1>d, OtherClients, NotifyStays
  <1>2. ASSUME NEW l \in Link, LinkLoop(l) \/ LinkInput(l)
        PROVE  NotifyOf(d)'
    BY <1>2, <1>d, LinkQuiet, NotifyStays
  <1>3. CASE UNCHANGED vars
    BY <1>3, <1>d, NotifyStays DEF vars
  \* d's own loop outside the notification
  <1>4. ASSUME frame[d].at \notin {"notify", "check", "tellAll", "erase"},
               frame'[d] = frame[d] \/ (~frame'[d].timer /\ frame'[d].at # "erase"),
               \/ status'[d] = status[d]
               \/ {status[d], status'[d]} \cap {"expired", "forgotten"} = {},
               \A kind \in Kind :
                 \/ bound'[d][kind] = bound[d][kind] /\ boundInTime'[d][kind] = boundInTime[d][kind]
                 \/ boundInTime'[d][kind] => status[d] \notin {"expired", "forgotten"}
        PROVE  NotifyOf(d)'
    <2>1. ~frame[d].timer
      BY <1>4, <1>d DEF NotifyOf
    <2>2. QED
      BY <1>4, <1>d, <2>1, NotifyStays
  <1>s. frame[d].timer <=> status[d] = "expired"
    BY <1>d DEF NotifyOf
  <1>g. frame[d].timer => frame[d].at \in {"notify", "check", "tellAll", "erase"}
    BY <1>d DEF NotifyOf
  <1>5. CASE ReconnectMark(d) \/ Forward(d)
    <2>1. frame'[d] = Idle /\ frame[d].at \notin {"notify", "check", "tellAll", "erase"}
          /\ UNCHANGED <<status, bound, boundInTime>>
      BY <1>5, <1>t DEF ReconnectMark, Forward, At
    <2>2. QED
      BY <1>4, <2>1 DEF Idle
  <1>6. CASE \E op \in PacketOp : GamePacket(d, op)
    <2>1. PICK op \in PacketOp : GamePacket(d, op)
      BY <1>6
    <2>2. frame'[d] = [Idle EXCEPT !.at = "slave", !.op = op, !.primary = bound[d]["primary"]]
          /\ frame[d].at = "idle" /\ UNCHANGED <<status, bound, boundInTime>>
      BY <2>1, <1>t DEF GamePacket, Recv, At
    <2>3. frame'[d].at = "slave" /\ ~frame'[d].timer
      BY <2>2 DEF Idle
    <2>4. QED
      BY <1>4, <2>2, <2>3
  <1>7. CASE LoadSlave(d) \/ ClaimReload(d) \/ ClaimPick(d) \/ ClaimFind(d) \/ ReconnectAsk(d)
    <2>1. frame[d].at \notin {"notify", "check", "tellAll", "erase"}
          /\ UNCHANGED <<status, bound, boundInTime>>
      BY <1>7 DEF LoadSlave, ClaimReload, ClaimPick, ClaimFind, ReconnectAsk, Recv, At
    <2>2. frame'[d].timer = frame[d].timer /\ frame'[d].at # "erase"
      <3>1. CASE LoadSlave(d)
        BY <1>t, <3>1 DEF LoadSlave, Frame
      <3>2. CASE ClaimReload(d) \/ ReconnectAsk(d)
        BY <1>t, <3>2 DEF ClaimReload, ReconnectAsk, Frame
      <3>3. CASE ClaimPick(d)
        <4>1. \/ frame' = [frame EXCEPT ![d].at = "forward"]
              \/ \E id \in PrimaryKeys : frame' = [frame EXCEPT ![d].id = id, ![d].at = "find"]
          BY <3>3 DEF ClaimPick
        <4>2. ASSUME frame' = [frame EXCEPT ![d].at = "forward"]
              PROVE  frame'[d].timer = frame[d].timer /\ frame'[d].at # "erase"
          BY <1>t, <4>2 DEF Frame
        <4>3. ASSUME NEW id, frame' = [frame EXCEPT ![d].id = id, ![d].at = "find"]
              PROVE  frame'[d].timer = frame[d].timer /\ frame'[d].at # "erase"
          BY <1>t, <4>3 DEF Frame
        <4>4. QED
          BY <4>1, <4>2, <4>3
      <3>4. CASE ClaimFind(d)
        BY <1>t, <3>4 DEF ClaimFind, Frame
      <3>5. QED
        BY <1>7, <3>1, <3>2, <3>3, <3>4
    <2>3. QED
      BY <1>4, <1>g, <2>1, <2>2
  <1>8. CASE ClaimStore(d)
    <2>1. frame[d].at = "store" /\ UNCHANGED status
      BY <1>8 DEF ClaimStore, At
    <2>2. frame'[d].timer = frame[d].timer /\ frame'[d].at = "forward"
      BY <1>8, <1>t DEF ClaimStore, Frame
    <2>3. \A kind \in Kind :
             \/ bound'[d][kind] = bound[d][kind] /\ boundInTime'[d][kind] = boundInTime[d][kind]
             \/ boundInTime'[d][kind] => status[d] \notin {"expired", "forgotten"}
      <3>1. boundInTime \in [Client -> [Kind -> BOOLEAN]]
        BY DEF TypeOK
      <3>2. \A kind \in Kind : kind # "primary" =>
               bound'[d][kind] = bound[d][kind] /\ boundInTime'[d][kind] = boundInTime[d][kind]
        BY <1>8, <1>t, <3>1 DEF ClaimStore, Bind
      <3>3. boundInTime'[d]["primary"] <=> status[d] \notin {"expired", "forgotten"}
        BY <1>8, <3>1 DEF ClaimStore, Bind, Kind
      <3>4. QED
        BY <3>2, <3>3
    <2>4. QED
      BY <1>4, <1>g, <2>1, <2>2, <2>3
  <1>9. CASE RunAsyncProc(d)
    <2>1. frame[d].at = "idle" /\ UNCHANGED <<status, bound, boundInTime>>
          /\ frame'[d] \in {frame[d], NotifyFrame(FALSE)}
      BY <1>9, <1>t DEF RunAsyncProc, At
    <2>2. ~NotifyFrame(FALSE).timer /\ NotifyFrame(FALSE).at = "notify"
      BY DEF NotifyFrame, Idle
    <2>3. QED
      BY <1>4, <2>1, <2>2
  <1>10. CASE ClientEnter(d) \/ Heartbeat(d) \/ ClientClose(d)
    <2>1. frame' = frame /\ bound' = bound /\ boundInTime' = boundInTime
      BY <1>10 DEF ClientEnter, Heartbeat, ClientClose
    <2>2. \/ status'[d] = status[d]
          \/ {status[d], status'[d]} \cap {"expired", "forgotten"} = {}
      BY <1>10 DEF TypeOK, ClientEnter, Heartbeat, ClientClose, Connected
    <2>3. QED
      BY <1>d, <2>1, <2>2, NotifyStays
  \* the notification itself
  <1>11. CASE TimerFires(d)
    <2>1. frame'[d] = NotifyFrame(TRUE) /\ status'[d] = "expired"
      BY <1>11, <1>t DEF TypeOK, TimerFires
    <2>2. frame'[d].timer /\ frame'[d].at = "notify" /\ frame'[d].kind = "primary"
      BY <2>1 DEF NotifyFrame, Idle
    <2>3. \A kind \in Kind : ~Passed(d, kind)'
      BY <2>1, <2>2 DEF Passed, At
    <2>4. QED
      BY <2>1, <2>2, <2>3 DEF NotifyOf, At
  <1>12. CASE NotifyLoad(d)
    <2>1. frame[d].at = "notify" /\ UNCHANGED <<status, bound, boundInTime>>
      BY <1>12 DEF NotifyLoad, At
    <2>2. CASE bound[d][frame[d].kind] # Nil
      <3>1. PICK l \in Link : l = bound[d][frame[d].kind]
        BY <1>f, <1>t, <2>2 DEF Frame, Server
      <3>2. Post(l, CloseClientACK(d)) /\ NotifyDone(d)
        BY <1>12, <2>2, <3>1 DEF NotifyLoad
      <3>3. PICK done \in Kind : done = frame[d].kind
        BY <1>f DEF Frame
      <3>4. Told(bound[d][done], d)'
        <4>1. \E i \in DOMAIN toServer'[l] : toServer'[l][i] = CloseClientACK(d)
          BY <3>2, PostTells
        <4>2. QED
          BY <2>1, <3>1, <3>3, <4>1, TellBound
      <3>5. QED
        BY <1>d, <2>1, <3>2, <3>3, <3>4, NotifyMovesOn
    <2>3. CASE bound[d][frame[d].kind] = Nil
      <3>1. frame'[d] = [frame[d] EXCEPT !.at = "check"]
        BY <1>12, <1>t, <2>3 DEF NotifyLoad
      <3>2. frame'[d].at = "check" /\ frame'[d].kind = frame[d].kind /\ frame'[d].timer = frame[d].timer
        BY <1>f, <3>1 DEF Frame
      <3>3. ASSUME NEW kind \in Kind, bound'[d][kind] # Nil, boundInTime'[d][kind], Passed(d, kind)'
            PROVE  Told(bound[d][kind], d)'
        <4>1. kind # frame[d].kind /\ Passed(d, kind)
          BY <2>1, <2>3, <3>2, <3>3 DEF Passed, At
        <4>2. QED
          BY <1>d, <2>1, <3>3, <4>1, ToldBound DEF NotifyOf
      <3>4. QED
        BY <1>d, <2>1, <3>2, <3>3 DEF NotifyOf, At
    <2>4. QED
      BY <2>2, <2>3
  <1>13. CASE NotifyCheck(d) \/ NotifyAll(d)
    <2>1. /\ frame[d].at \in {"check", "tellAll"} /\ UNCHANGED <<status, bound, boundInTime>>
          /\ NotifyDone(d) \/ frame' = [frame EXCEPT ![d].at = "tellAll"]
      BY <1>13 DEF NotifyCheck, NotifyAll, At
    <2>2. CASE NotifyDone(d)
      <3>1. PICK done \in Kind : done = frame[d].kind
        BY <1>f DEF Frame
      <3>2. ASSUME bound[d][done] # Nil, boundInTime[d][done], frame[d].timer
            PROVE  Told(bound[d][done], d)'
        <4>1. Passed(d, done)
          BY <1>s, <2>1, <3>1, <3>2 DEF Passed, At
        <4>2. QED
          BY <1>d, <2>1, <3>2, <4>1, ToldBound DEF NotifyOf
      <3>3. QED
        BY <1>d, <2>1, <2>2, <3>1, <3>2, NotifyMovesOn
    <2>3. CASE frame' = [frame EXCEPT ![d].at = "tellAll"]
      <3>1. frame'[d].at = "tellAll" /\ frame'[d].kind = frame[d].kind /\ frame'[d].timer = frame[d].timer
        BY <1>t, <2>3 DEF Frame
      <3>2. ASSUME NEW kind \in Kind, bound'[d][kind] # Nil, boundInTime'[d][kind], Passed(d, kind)'
            PROVE  Told(bound[d][kind], d)'
        <4>1. Passed(d, kind)
          BY <2>1, <3>1, <3>2 DEF Passed, At
        <4>2. QED
          BY <1>d, <2>1, <3>2, <4>1, ToldBound DEF NotifyOf
      <3>3. QED
        BY <1>d, <2>1, <3>1, <3>2 DEF NotifyOf, At
    <2>4. QED
      BY <2>1, <2>2, <2>3
  <1>14. CASE EraseClient(d)
    <2>1. frame[d].at = "erase" /\ frame'[d] = Idle /\ status'[d] = "forgotten"
          /\ UNCHANGED <<bound, boundInTime>>
      BY <1>14, <1>t DEF TypeOK, EraseClient, At
    <2>2. ~frame'[d].timer /\ frame'[d].at = "idle"
      BY <2>1 DEF Idle
    <2>3. status[d] = "expired"
      BY <1>d, <2>1 DEF NotifyOf, At
    <2>4. ASSUME NEW kind \in Kind, bound'[d][kind] # Nil, boundInTime'[d][kind]
          PROVE  Told(bound[d][kind], d)'
      <3>1. Passed(d, kind)
        BY <2>1, <2>3 DEF Passed, At
      <3>2. QED
        BY <1>d, <2>1, <2>4, <3>1, ToldBound DEF NotifyOf
    <2>5. QED
      BY <2>1, <2>2, <2>4 DEF NotifyOf, At
  <1>15. QED
    BY <1>1, <1>2, <1>3, <1>5, <1>6, <1>7, <1>8, <1>9, <1>10, <1>11, <1>12, <1>13, <1>14
    DEF Next, ClientLoop, ClientInput

\* The servers bound to a client in time have been told before it is forgotten.
THEOREM DisconnectCorrect == Spec => []DisconnectReachesServers
  <1>1. NotifyInv => DisconnectReachesServers
    BY DEF NotifyInv, NotifyOf, DisconnectReachesServers, Passed
  <1>2. TypeOK /\ NotifyInv /\ [Next]_vars => NotifyInv'
    BY NotifyNext
  <1>3. QED
    BY <1>1, <1>2, TypeInit, TypeNext, NotifyInit, PTL DEF Spec

(***************************************************************************)
(* Delivery.  Both properties count: a client numbers its packets and a    *)
(* link its orders, and the number of what is posted is compared with how  *)
(* far the count has come in the handler that posts it.                    *)
(***************************************************************************)

\* The loop of c is in procPacket and will post the packet or drop it.
HasPacket(c) == frame[c].at \in {"slave", "reload", "claim", "find", "store", "forward"}

\* The handler of packet k of c has run to its end.
Handled(c, k) == k < mRecvSerialID[c] \/ (k = mRecvSerialID[c] /\ ~HasPacket(c))

\* The message that carries packet k of c to a logic server.
Upstream(c, k) == [op |-> "upstream", client |-> c, n |-> k]

\* What was posted for a client is a packet whose handler is through with it.
HandledInv ==
    \A l \in Link, c \in Client, k \in Nat : \A i \in DOMAIN toServer[l] :
        toServer[l][i] = Upstream(c, k) => Handled(c, k)

\* The packets in s come in the order each server sent them.
Ordered(s) ==
    \A i, j \in DOMAIN s :
        i < j /\ s[i].proc = "send" /\ s[j].proc = "send" /\ s[i].from = s[j].from
            => s[i].n < s[j].n

\* The packets in t were sent later than those in s.
Behind(s, t) ==
    \A i \in DOMAIN s, j \in DOMAIN t :
        t[j].proc = "send" /\ s[i].from = t[j].from => s[i].n < t[j].n

\* The client's socket and the closures pushed to its loop hold packets in order,
\* those on the socket first, and none that has not been sent yet; the loop answers
\* heartbeats itself (Nil), so no closure does, and a server whose loop it is writes to
\* the socket, so no closure holds a packet of one.
OrderOf(c) ==
    /\ Ordered(sent[c]) /\ Ordered(asyncProcs[c]) /\ Behind(sent[c], asyncProcs[c])
    /\ \A i \in DOMAIN sent[c] :
         /\ sent[c][i].proc = "send"
         /\ sent[c][i].from = Nil => sent[c][i].n <= mRecvSerialID[c]
         /\ sent[c][i].from \in Link => sent[c][i].n <= orders[sent[c][i].from]
    /\ \A i \in DOMAIN asyncProcs[c] :
         asyncProcs[c][i].proc = "send" =>
             /\ asyncProcs[c][i].from \in Link /\ LoopOf[asyncProcs[c][i].from] # LoopOf[c]
             /\ asyncProcs[c][i].n <= orders[asyncProcs[c][i].from]

OrderInv == \A c \in Client : OrderOf(c)

-----------------------------------------------------------------------------
(* Packets of clients *)

\* The end of a notification is no part of procPacket.
LEMMA NotifyDoneAt ==
    ASSUME TypeOK, NEW c \in Client, NotifyDone(c)
    PROVE  frame'[c].at \in {"notify", "erase", "idle"}
  <1>1. frame \in [Client -> Frame]
    BY DEF TypeOK
  <1>2. frame'[c] \in {[frame[c] EXCEPT !.at = "notify", !.kind = "slave"],
                       [frame[c] EXCEPT !.at = "erase"], Idle}
    BY <1>1 DEF NotifyDone
  <1>3. /\ [frame[c] EXCEPT !.at = "notify", !.kind = "slave"].at = "notify"
        /\ [frame[c] EXCEPT !.at = "erase"].at = "erase"
        /\ Idle.at = "idle"
    BY <1>1 DEF Frame, Idle
  <1>4. QED
    BY <1>2, <1>3

\* Only the head of procPacket takes the next packet, when the last one is done.
LEMMA RecvStep ==
    ASSUME TypeOK, NEW c \in Client,
           Heartbeat(c) \/ ReconnectAsk(c) \/ \E op \in PacketOp : GamePacket(c, op)
    PROVE  /\ mRecvSerialID'[c] = mRecvSerialID[c] + 1
           /\ ~HasPacket(c)
  BY DEF TypeOK, Heartbeat, ReconnectAsk, GamePacket, Recv, At, HasPacket

\* Every other step of a client's loop is within the handling of a packet or
\* starts none.
LEMMA SamePacket ==
    ASSUME TypeOK, NEW c \in Client, ClientLoop(c) \/ ClientEnter(c) \/ ClientClose(c)
    PROVE  mRecvSerialID' = mRecvSerialID /\ (HasPacket(c)' => HasPacket(c))
  <1>f. frame \in [Client -> Frame]
    BY DEF TypeOK
  <1>1. mRecvSerialID' = mRecvSerialID
    BY DEF ClientLoop, ReconnectMark, LoadSlave, ClaimReload, ClaimPick, ClaimFind, ClaimStore,
       Forward, TimerFires, RunAsyncProc, NotifyLoad, NotifyCheck, NotifyAll, EraseClient,
       ClientEnter, ClientClose
  <1>2. CASE LoadSlave(c) \/ ClaimReload(c) \/ ClaimPick(c) \/ ClaimFind(c) \/ ClaimStore(c) \/ Forward(c)
    BY <1>2 DEF LoadSlave, ClaimReload, ClaimPick, ClaimFind, ClaimStore, Forward, At, HasPacket
  <1>3. CASE ReconnectMark(c) \/ EraseClient(c)
    <2>1. frame'[c] = Idle
      BY <1>3, <1>f DEF ReconnectMark, EraseClient
    <2>2. QED
      BY <1>1, <2>1 DEF Idle, HasPacket
  <1>4. CASE TimerFires(c) \/ RunAsyncProc(c)
    <2>1. frame'[c] = frame[c] \/ \E b \in BOOLEAN : frame'[c] = NotifyFrame(b)
      BY <1>4, <1>f DEF TimerFires, RunAsyncProc
    <2>2. \A b \in BOOLEAN : NotifyFrame(b).at = "notify"
      BY DEF NotifyFrame, Idle
    <2>3. QED
      BY <1>1, <2>1, <2>2 DEF HasPacket
  <1>5. CASE NotifyLoad(c) \/ NotifyCheck(c) \/ NotifyAll(c)
    <2>1. \/ NotifyDone(c)
          \/ frame' = [frame EXCEPT ![c].at = "check"]
          \/ frame' = [frame EXCEPT ![c].at = "tellAll"]
      BY <1>5 DEF NotifyLoad, NotifyCheck, NotifyAll
    <2>2. CASE NotifyDone(c)
      BY <1>1, <2>2, NotifyDoneAt DEF HasPacket
    <2>3. CASE frame' = [frame EXCEPT ![c].at = "check"] \/ frame' = [frame EXCEPT ![c].at = "tellAll"]
      <3>1. frame'[c].at \in {"check", "tellAll"}
        BY <2>3, <1>f DEF Frame
      <3>2. QED
        BY <1>1, <3>1 DEF HasPacket
    <2>4. QED
      BY <2>1, <2>2, <2>3
  <1>6. CASE ClientEnter(c) \/ ClientClose(c)
    BY <1>6 DEF ClientEnter, ClientClose, HasPacket
  <1>7. QED
    BY <1>1, <1>2, <1>3, <1>4, <1>5, <1>6 DEF ClientLoop

\* The steps of a link leave the clients' packets and what is posted as they are.
LEMMA LinkKeepsPackets ==
    ASSUME NEW l \in Link, LinkLoop(l) \/ LinkInput(l)
    PROVE  UNCHANGED <<frame, mRecvSerialID, toServer>>
  <1>1. CASE UNCHANGED <<clientVars, toServer>>
    BY <1>1 DEF clientVars
  <1>2. QED
    BY <1>1 DEF LinkLoop, LinkInput, LoginFind, LoginAdd, LoginReply, SetFind, SetStore,
       LinkKick, LinkUnregister, LinkClose, KickClient, Downstream, SetServer

\* A packet that has been handled stays so: the number of the packet a handler has
\* in hand is not used again once it is through.
LEMMA HandledGrows ==
    ASSUME TypeOK, [Next]_vars, NEW d \in Client, NEW k \in Nat, Handled(d, k)
    PROVE  Handled(d, k)'
  <1>t. mRecvSerialID \in [Client -> Nat]
    BY DEF TypeOK
  <1>1. ASSUME NEW c \in Client, Heartbeat(c) \/ ReconnectAsk(c) \/ \E op \in PacketOp : GamePacket(c, op)
        PROVE  mRecvSerialID'[d] = mRecvSerialID[d] + 1 \/
                 (mRecvSerialID'[d] = mRecvSerialID[d] /\ frame'[d] = frame[d])
    <2>1. CASE d = c
      BY <1>1, <2>1, RecvStep
    <2>2. CASE d # c
      <3>1. frame'[d] = frame[d]
        BY <1>1, <2>2, OtherClients DEF ClientInput
      <3>2. mRecvSerialID'[d] = mRecvSerialID[d]
        BY <1>t, <1>1, <2>2 DEF Heartbeat, ReconnectAsk, GamePacket, Recv
      <3>3. QED
        BY <3>1, <3>2
    <2>3. QED
      BY <2>1, <2>2
  <1>2. ASSUME NEW c \in Client, ClientLoop(c) \/ ClientEnter(c) \/ ClientClose(c)
        PROVE  mRecvSerialID'[d] = mRecvSerialID[d] /\ (HasPacket(d)' => HasPacket(d))
    <2>1. CASE d = c
      BY <1>2, <2>1, SamePacket
    <2>2. CASE d # c
      <3>1. frame'[d] = frame[d]
        BY <1>2, <2>2, OtherClients DEF ClientInput
      <3>2. QED
        BY <1>2, <3>1, SamePacket DEF HasPacket
    <2>3. QED
      BY <2>1, <2>2
  <1>3. ASSUME UNCHANGED <<frame, mRecvSerialID>>
        PROVE  Handled(d, k)'
    BY <1>3 DEF Handled, HasPacket
  <1>4. ASSUME mRecvSerialID'[d] = mRecvSerialID[d], HasPacket(d)' => HasPacket(d)
        PROVE  Handled(d, k)'
    BY <1>4 DEF Handled
  <1>5. ASSUME mRecvSerialID'[d] = mRecvSerialID[d] + 1
        PROVE  Handled(d, k)'
    BY <1>t, <1>5 DEF Handled
  <1>6. ASSUME NEW c \in Client, ClientLoop(c) \/ ClientInput(c)
        PROVE  Handled(d, k)'
    <2>1. CASE ClientLoop(c) \/ ClientEnter(c) \/ ClientClose(c)
      BY <2>1, <1>2, <1>4
    <2>2. CASE Heartbeat(c) \/ ReconnectAsk(c) \/ \E op \in PacketOp : GamePacket(c, op)
      BY <2>2, <1>1, <1>4, <1>5 DEF HasPacket
    <2>3. QED
      BY <1>6, <2>1, <2>2 DEF ClientInput
  <1>7. CASE UNCHANGED vars
    BY <1>3, <1>7 DEF vars
  <1>8. ASSUME NEW l \in Link, LinkLoop(l) \/ LinkInput(l)
        PROVE  Handled(d, k)'
    BY <1>3, <1>8, LinkKeepsPackets
  <1>9. QED
    BY <1>6, <1>7, <1>8 DEF Next

\* A message that is posted is behind those that were.
LEMMA AppendedMessage ==
    ASSUME NEW s \in Seq(Message), NEW m \in Message
    PROVE  /\ \A i \in DOMAIN Append(s, m) :
                \/ i \in DOMAIN s /\ Append(s, m)[i] = s[i]
                \/ i = Len(s) + 1 /\ Append(s, m)[i] = m
           /\ Len(s) + 1 \notin DOMAIN s
  <1>1. /\ DOMAIN s = 1 .. Len(s) /\ Len(s) \in Nat
        /\ DOMAIN Append(s, m) = 1 .. Len(s) + 1
        /\ \A i \in 1 .. Len(s) : Append(s, m)[i] = s[i]
        /\ Append(s, m)[Len(s) + 1] = m
    OBVIOUS
  <1>2. QED
    BY <1>1

\* No step but Forward posts a packet of a client.
NoNewPacket ==
    \A l \in Link : \A i \in DOMAIN toServer'[l] :
        toServer'[l][i].op = "upstream" => i \in DOMAIN toServer[l] /\ toServer'[l][i] = toServer[l][i]

\* Only Forward posts a packet.
LEMMA OnlyForwardPosts ==
    ASSUME TypeOK, [Next]_vars, ~ \E c \in Client : Forward(c)
    PROVE  NoNewPacket
  <1>t. /\ toServer \in [Link -> Seq(Message)] /\ frame \in [Client -> Frame]
        /\ bound \in [Client -> [Kind -> Server]]
    BY DEF TypeOK
  <1>1. ASSUME NEW m \in Message, m.op # "upstream",
               \A l \in Link : toServer'[l] = toServer[l] \/ toServer'[l] = Append(toServer[l], m)
        PROVE  NoNewPacket
    <2> SUFFICES ASSUME NEW l \in Link, NEW i \in DOMAIN toServer'[l], toServer'[l][i].op = "upstream"
                 PROVE  i \in DOMAIN toServer[l] /\ toServer'[l][i] = toServer[l][i]
      BY DEF NoNewPacket
    <2>1. \/ i \in DOMAIN toServer[l] /\ toServer'[l][i] = toServer[l][i]
          \/ toServer'[l][i] = m
      <3>1. toServer[l] \in Seq(Message)
        BY <1>t
      <3>2. CASE toServer'[l] = toServer[l]
        BY <3>2
      <3>3. CASE toServer'[l] = Append(toServer[l], m)
        BY <3>1, <3>3, AppendedMessage
      <3>4. QED
        BY <1>1, <3>2, <3>3
    <2>2. QED
      BY <1>1, <2>1
  <1>2. ASSUME NEW k, NEW m \in Message, m.op # "upstream", Post(k, m)
        PROVE  NoNewPacket
    <2>1. \A l \in Link : toServer'[l] = toServer[l] \/ toServer'[l] = Append(toServer[l], m)
      BY <1>t, <1>2 DEF Post
    <2>2. QED
      BY <1>1, <1>2, <2>1
  <1>3. ASSUME NEW kind, NEW m \in Message, m.op # "upstream", PostAll(kind, m)
        PROVE  NoNewPacket
    <2>1. \A l \in Link : toServer'[l] = toServer[l] \/ toServer'[l] = Append(toServer[l], m)
      BY <1>3 DEF PostAll
    <2>2. QED
      BY <1>1, <1>3, <2>1
  <1>4. CASE toServer' = toServer
    BY <1>4 DEF NoNewPacket
  <1>5. ASSUME NEW c \in Client, NotifyLoad(c) \/ NotifyAll(c) \/ ReconnectAsk(c)
        PROVE  NoNewPacket
    <2>1. /\ CloseClientACK(c) \in Message /\ [op |-> "reconnect", client |-> c, n |-> 1] \in Message
          /\ CloseClientACK(c).op # "upstream"
      BY MessageTypes DEF CloseClientACK
    <2>2. QED
      BY <1>2, <1>3, <1>4, <1>5, <2>1 DEF NotifyLoad, NotifyAll, ReconnectAsk
  <1>6. ASSUME NEW c \in Client, ClientLoop(c) \/ ClientInput(c),
               ~NotifyLoad(c), ~NotifyAll(c), ~ReconnectAsk(c)
        PROVE  toServer' = toServer
    BY <1>6 DEF ClientLoop, ClientInput, ReconnectMark, LoadSlave, ClaimReload, ClaimPick,
         ClaimFind, ClaimStore, TimerFires, RunAsyncProc, NotifyCheck, EraseClient, ClientEnter,
         Heartbeat, ClientClose, GamePacket
  <1>7. ASSUME NEW l \in Link, LinkLoop(l) \/ LinkInput(l)
        PROVE  toServer' = toServer
    BY <1>7, LinkKeepsPackets
  <1>8. CASE UNCHANGED vars
    BY <1>4, <1>8 DEF vars
  <1>9. QED
    BY <1>4, <1>5, <1>6, <1>7, <1>8 DEF Next

\* HandledInv holds at the start, ...
LEMMA HandledInit == Init => HandledInv /\ ForwardedOnce
  BY DEF Init, HandledInv, ForwardedOnce

\* ... and is kept by every step, and with it what was forwarded once.
LEMMA HandledNext ==
    TypeOK /\ HandledInv /\ ForwardedOnce /\ [Next]_vars => HandledInv' /\ ForwardedOnce'
  <1> SUFFICES ASSUME TypeOK, HandledInv, ForwardedOnce, [Next]_vars
               PROVE  HandledInv' /\ ForwardedOnce'
    OBVIOUS
  <1>t. /\ toServer \in [Link -> Seq(Message)] /\ frame \in [Client -> Frame]
        /\ mRecvSerialID \in [Client -> Nat]
    BY DEF TypeOK
  <1>h. \A l \in Link, d \in Client, k \in Nat : \A i \in DOMAIN toServer[l] :
           toServer[l][i] = Upstream(d, k) => Handled(d, k)'
    BY HandledGrows DEF HandledInv
  <1>1. CASE NoNewPacket
    <2>1. HandledInv'
      <3> SUFFICES ASSUME NEW l \in Link, NEW d \in Client, NEW k \in Nat,
                          NEW i \in DOMAIN toServer'[l], toServer'[l][i] = Upstream(d, k)
                   PROVE  Handled(d, k)'
        BY DEF HandledInv, Upstream
      <3>1. toServer'[l][i].op = "upstream"
        BY DEF Upstream
      <3>2. i \in DOMAIN toServer[l] /\ toServer[l][i] = Upstream(d, k)
        BY <1>1, <3>1 DEF NoNewPacket
      <3>3. QED
        BY <1>h, <3>2
    <2>2. ForwardedOnce'
      BY <1>1 DEF ForwardedOnce, NoNewPacket
    <2>3. QED
      BY <2>1, <2>2
  <1>2. ASSUME NEW c \in Client, Forward(c)
        PROVE  HandledInv' /\ ForwardedOnce'
    <2>1. HasPacket(c) /\ frame'[c].at = "idle" /\ mRecvSerialID' = mRecvSerialID
      <3>1. frame'[c] = Idle
        BY <1>2, <1>t DEF Forward
      <3>2. QED
        BY <1>2, <3>1 DEF Forward, At, HasPacket, Idle
    <2>2. CASE Target(c) = Nil
      <3>1. NoNewPacket
        BY <1>2, <2>2 DEF Forward, NoNewPacket
      <3>2. QED
        BY <1>1, <3>1
    <2>3. CASE Target(c) # Nil
      <3>1. PICK l \in Link : l = Target(c)
        BY <1>t, <2>3, TargetType DEF Server
      <3>2. PICK k \in Nat : k = mRecvSerialID[c]
        BY <1>t
      <3>3. PICK m \in Message : m = Upstream(c, k)
        BY MessageTypes DEF Upstream
      <3>4. /\ toServer'[l] = Append(toServer[l], m)
            /\ \A j \in Link \ {l} : toServer'[j] = toServer[j]
        BY <1>2, <1>t, <2>3, <3>1, <3>2, <3>3 DEF Forward, Post, Upstream
      <3>5. \A d \in Client, i \in Nat : m = Upstream(d, i) => d = c /\ i = k
        BY <3>3 DEF Upstream
      <3>6. ~Handled(c, k) /\ Handled(c, k)'
        BY <2>1, <3>2 DEF Handled, HasPacket
      <3>7. \A j \in Link : \A i \in DOMAIN toServer'[j] :
               \/ i \in DOMAIN toServer[j] /\ toServer'[j][i] = toServer[j][i]
               \/ j = l /\ i = Len(toServer[l]) + 1 /\ toServer'[j][i] = m
        <4>1. /\ \A i \in DOMAIN toServer'[l] :
                   \/ i \in DOMAIN toServer[l] /\ toServer'[l][i] = toServer[l][i]
                   \/ i = Len(toServer[l]) + 1 /\ toServer'[l][i] = m
          BY <1>t, <3>4, AppendedMessage
        <4>2. QED
          BY <3>4, <4>1
      <3>8. \A j \in Link : \A i \in DOMAIN toServer[j] : toServer[j][i] # m
        BY <3>3, <3>6 DEF HandledInv
      <3>9. HandledInv'
        <4> SUFFICES ASSUME NEW j \in Link, NEW d \in Client, NEW q \in Nat,
                            NEW i \in DOMAIN toServer'[j], toServer'[j][i] = Upstream(d, q)
                     PROVE  Handled(d, q)'
          BY DEF HandledInv, Upstream
        <4>1. CASE i \in DOMAIN toServer[j] /\ toServer'[j][i] = toServer[j][i]
          BY <1>h, <4>1
        <4>2. CASE toServer'[j][i] = m
          BY <3>5, <3>6, <4>2
        <4>3. QED
          BY <3>7, <4>1, <4>2
      <3>10. ForwardedOnce'
        BY <3>7, <3>8 DEF ForwardedOnce
      <3>11. QED
        BY <3>9, <3>10
    <2>4. QED
      BY <2>2, <2>3
  <1>3. QED
    BY <1>1, <1>2, OnlyForwardPosts

\* procPacket (ClientSession.cpp:252) ends in one send: whatever a packet waited for
\* in between, the claim of a primary or a slave order, it is posted to at most one
\* logic server, once.
THEOREM ForwardCorrect == Spec => []ForwardedOnce
  <1>1. TypeOK /\ HandledInv /\ ForwardedOnce /\ [Next]_vars => HandledInv' /\ ForwardedOnce'
    BY HandledNext
  <1>2. QED
    BY <1>1, HandledInit, TypeCorrect, PTL DEF Spec

-----------------------------------------------------------------------------
(* Packets of logic servers *)

\* What is pushed last was sent last, ...
LEMMA AppendOrdered ==
    ASSUME NEW s \in Seq(Proc), NEW p \in Proc, Ordered(s),
           p.proc = "send" =>
               \A i \in DOMAIN s : s[i].proc = "send" /\ s[i].from = p.from => s[i].n < p.n
    PROVE  Ordered(Append(s, p))
  <1> DEFINE t == Append(s, p)
  <1>1. /\ DOMAIN s = 1 .. Len(s) /\ Len(s) \in Nat
        /\ DOMAIN t = 1 .. Len(s) + 1
        /\ \A i \in 1 .. Len(s) : t[i] = s[i]
        /\ t[Len(s) + 1] = p
    OBVIOUS
  <1> HIDE DEF t
  <1>2. SUFFICES ASSUME NEW i \in DOMAIN t, NEW j \in DOMAIN t, i < j,
                        t[i].proc = "send", t[j].proc = "send", t[i].from = t[j].from
                 PROVE  t[i].n < t[j].n
    BY DEF Ordered, t
  <1>3. i \in DOMAIN s /\ t[i] = s[i]
    BY <1>1, <1>2
  <1>4. CASE j \in DOMAIN s
    BY <1>1, <1>2, <1>3, <1>4 DEF Ordered
  <1>5. CASE j \notin DOMAIN s
    <2>1. t[j] = p
      BY <1>1, <1>5
    <2>2. QED
      BY <1>2, <1>3, <2>1
  <1>6. QED
    BY <1>4, <1>5

\* ... and what is run first was pushed first.
LEMMA TailOrdered ==
    ASSUME NEW s \in Seq(Proc), s # <<>>
    PROVE  /\ Tail(s) \in Seq(Proc) /\ Head(s) \in Proc
           /\ 1 \in DOMAIN s /\ Head(s) = s[1]
           /\ \A i \in DOMAIN Tail(s) : i + 1 \in DOMAIN s /\ Tail(s)[i] = s[i + 1] /\ 1 < i + 1
           /\ Ordered(s) => Ordered(Tail(s))
  <1> DEFINE t == Tail(s)
  <1>1. /\ Len(s) \in Nat /\ Len(s) > 0 /\ DOMAIN s = 1 .. Len(s)
        /\ Head(s) = s[1] /\ t \in Seq(Proc) /\ DOMAIN t = 1 .. Len(s) - 1
        /\ \A i \in 1 .. Len(s) - 1 : t[i] = s[i + 1]
    OBVIOUS
  <1> HIDE DEF t
  <1>2. \A i \in DOMAIN t : i \in Nat /\ i + 1 \in DOMAIN s /\ t[i] = s[i + 1] /\ 1 < i + 1
    BY <1>1
  <1>3. Head(s) \in Proc
    BY <1>1
  <1>4. Ordered(s) => Ordered(t)
    <2>1. SUFFICES ASSUME Ordered(s), NEW i \in DOMAIN t, NEW j \in DOMAIN t, i < j,
                          t[i].proc = "send", t[j].proc = "send", t[i].from = t[j].from
                   PROVE  t[i].n < t[j].n
      BY DEF Ordered
    <2>2. i + 1 < j + 1
      BY <1>2, <2>1
    <2>3. QED
      BY <1>2, <2>1, <2>2 DEF Ordered
  <1>5. 1 \in DOMAIN s
    BY <1>1
  <1>6. QED
    BY <1>1, <1>2, <1>3, <1>4, <1>5 DEF t

\* A step that sends and pushes nothing to c.
LEMMA OrderFrame ==
    ASSUME TypeOK, NEW c \in Client, OrderOf(c),
           sent'[c] = sent[c], asyncProcs'[c] = asyncProcs[c],
           mRecvSerialID[c] <= mRecvSerialID'[c],
           mRecvSerialID'[c] \in Nat,
           \A l \in Link : orders[l] <= orders'[l] /\ orders'[l] \in Nat
    PROVE  OrderOf(c)'
  <1>1. /\ mRecvSerialID[c] \in Nat /\ \A l \in Link : orders[l] \in Nat
        /\ \A i \in DOMAIN sent[c] : sent[c][i].n \in Nat
        /\ \A i \in DOMAIN asyncProcs[c] : asyncProcs[c][i].n \in Nat
    <2>1. sent[c] \in Seq(Proc) /\ asyncProcs[c] \in Seq(Proc)
      BY DEF TypeOK
    <2>2. \A s \in Seq(Proc) : \A i \in DOMAIN s : s[i] \in Proc
      OBVIOUS
    <2>3. \A p \in Proc : p.n \in Nat
      BY DEF Proc
    <2>4. QED
      BY <2>1, <2>2, <2>3 DEF TypeOK
  <1>2. Ordered(sent'[c]) /\ Ordered(asyncProcs'[c]) /\ Behind(sent'[c], asyncProcs'[c])
    BY DEF OrderOf
  <1>3. \A i \in DOMAIN sent'[c] :
          /\ sent'[c][i].proc = "send"
          /\ sent'[c][i].from = Nil => sent'[c][i].n <= mRecvSerialID'[c]
          /\ sent'[c][i].from \in Link => sent'[c][i].n <= orders'[sent'[c][i].from]
    BY <1>1 DEF OrderOf
  <1>4. \A i \in DOMAIN asyncProcs'[c] :
          asyncProcs'[c][i].proc = "send" =>
              /\ asyncProcs'[c][i].from \in Link
              /\ LoopOf[asyncProcs'[c][i].from] # LoopOf[c]
              /\ asyncProcs'[c][i].n <= orders'[asyncProcs'[c][i].from]
    BY <1>1 DEF OrderOf
  <1>5. QED
    BY <1>2, <1>3, <1>4 DEF OrderOf

\* What is pushed or written behind the entries of a sequence.
LEMMA AppendedProc ==
    ASSUME NEW s \in Seq(Proc), NEW p \in Proc
    PROVE  \A i \in DOMAIN Append(s, p) :
              \/ i \in DOMAIN s /\ Append(s, p)[i] = s[i]
              \/ Append(s, p)[i] = p
  <1>1. /\ DOMAIN s = 1 .. Len(s) /\ Len(s) \in Nat
        /\ DOMAIN Append(s, p) = 1 .. Len(s) + 1
        /\ \A i \in 1 .. Len(s) : Append(s, p)[i] = s[i]
        /\ Append(s, p)[Len(s) + 1] = p
    OBVIOUS
  <1>2. QED
    BY <1>1

\* A heartbeat is answered past the closures, none of which holds an answer.
LEMMA HeartbeatOrder ==
    ASSUME TypeOK, NEW c \in Client, OrderOf(c), Heartbeat(c)
    PROVE  OrderOf(c)'
  <1>t. /\ sent[c] \in Seq(Proc) /\ mRecvSerialID[c] \in Nat
    BY DEF TypeOK
  <1>1. mRecvSerialID'[c] = mRecvSerialID[c] + 1
    BY RecvStep
  <1>2. PICK p \in Proc : p = [proc |-> "send", from |-> Nil, n |-> mRecvSerialID'[c]]
    <2>1. mRecvSerialID'[c] \in Nat /\ Nil \in Server
      BY <1>t, <1>1 DEF Server
    <2>2. QED
      BY <2>1, ProcTypes
  <1>3. p.proc = "send" /\ p.from = Nil /\ p.n = mRecvSerialID[c] + 1
    BY <1>1, <1>2
  <1>4. /\ sent'[c] = Append(sent[c], p) /\ asyncProcs' = asyncProcs /\ orders' = orders
    BY <1>2 DEF Heartbeat, TypeOK, linkVars
  <1>5. \A i \in DOMAIN sent[c] : sent[c][i].n \in Nat
    <2>1. \A i \in DOMAIN sent[c] : sent[c][i] \in Proc
      BY <1>t
    <2>2. QED
      BY <2>1 DEF Proc
  <1>6. Ordered(sent'[c])
    <2>1. \A i \in DOMAIN sent[c] : sent[c][i].from = p.from => sent[c][i].n < p.n
      BY <1>t, <1>3, <1>5 DEF OrderOf
    <2>2. QED
      BY <1>t, <1>4, <2>1, AppendOrdered DEF OrderOf
  <1>7. \A i \in DOMAIN sent'[c] :
           \/ i \in DOMAIN sent[c] /\ sent'[c][i] = sent[c][i]
           \/ sent'[c][i] = p
    BY <1>t, <1>4, AppendedProc
  <1>8. Behind(sent'[c], asyncProcs'[c])
    <2>1. \A j \in DOMAIN asyncProcs[c] :
             asyncProcs[c][j].proc = "send" => asyncProcs[c][j].from # p.from
      BY <1>3, ConstantsAssumption DEF OrderOf
    <2>2. QED
      BY <1>4, <1>7, <2>1 DEF OrderOf, Behind
  <1>9. \A i \in DOMAIN sent'[c] :
          /\ sent'[c][i].proc = "send"
          /\ sent'[c][i].from = Nil => sent'[c][i].n <= mRecvSerialID'[c]
          /\ sent'[c][i].from \in Link => sent'[c][i].n <= orders'[sent'[c][i].from]
    <2> SUFFICES ASSUME NEW i \in DOMAIN sent'[c]
                 PROVE  /\ sent'[c][i].proc = "send"
                        /\ sent'[c][i].from = Nil => sent'[c][i].n <= mRecvSerialID'[c]
                        /\ sent'[c][i].from \in Link => sent'[c][i].n <= orders'[sent'[c][i].from]
      OBVIOUS
    <2>1. CASE i \in DOMAIN sent[c] /\ sent'[c][i] = sent[c][i]
      BY <1>t, <1>1, <1>4, <1>5, <2>1 DEF OrderOf
    <2>2. CASE sent'[c][i] = p
      BY <1>t, <1>1, <1>3, <2>2, ConstantsAssumption
    <2>3. QED
      BY <1>7, <2>1, <2>2
  <1>10. QED
    BY <1>4, <1>6, <1>8, <1>9 DEF OrderOf

\* The oldest closure is run: its packet comes before those of the closures left.
LEMMA RunOrder ==
    ASSUME TypeOK, NEW c \in Client, OrderOf(c), RunAsyncProc(c)
    PROVE  OrderOf(c)'
  <1>t. /\ sent[c] \in Seq(Proc) /\ asyncProcs[c] \in Seq(Proc) /\ asyncProcs[c] # <<>>
    BY DEF TypeOK, RunAsyncProc
  <1>1. PICK p \in Proc : p = Head(asyncProcs[c])
    BY <1>t, TailOrdered
  <1>2. PICK rest \in Seq(Proc) : rest = Tail(asyncProcs[c])
    BY <1>t, TailOrdered
  <1>3. /\ 1 \in DOMAIN asyncProcs[c] /\ p = asyncProcs[c][1]
        /\ \A i \in DOMAIN rest :
             i + 1 \in DOMAIN asyncProcs[c] /\ rest[i] = asyncProcs[c][i + 1] /\ 1 < i + 1
        /\ Ordered(rest)
    BY <1>t, <1>1, <1>2, TailOrdered DEF OrderOf
  <1>4. /\ asyncProcs'[c] = rest /\ UNCHANGED <<mRecvSerialID, orders>>
        /\ \/ sent'[c] = sent[c]
           \/ p.proc # "notify" /\ sent'[c] = Append(sent[c], p)
    <2>1. asyncProcs'[c] = rest /\ UNCHANGED <<mRecvSerialID, orders>>
      BY <1>2 DEF RunAsyncProc, TypeOK, linkVars
    <2>2. \/ sent' = sent
          \/ p.proc # "notify" /\ sent' = [sent EXCEPT ![c] = Append(@, p)]
      BY <1>1 DEF RunAsyncProc, WriteToClient
    <2>3. QED
      BY <2>1, <2>2 DEF TypeOK
  <1>5. \A i \in DOMAIN rest :
          rest[i].proc = "send" => /\ rest[i].from \in Link /\ LoopOf[rest[i].from] # LoopOf[c]
                                   /\ rest[i].n <= orders[rest[i].from]
    BY <1>3 DEF OrderOf
  <1>6. CASE sent'[c] = sent[c]
    <2>1. Behind(sent[c], rest)
      BY <1>3 DEF OrderOf, Behind
    <2>2. QED
      BY <1>3, <1>4, <1>5, <1>6, <2>1 DEF OrderOf
  <1>7. CASE p.proc # "notify" /\ sent'[c] = Append(sent[c], p)
    <2>1. p.proc = "send"
      BY <1>7 DEF Proc
    <2>2. p.from \in Link /\ p.n <= orders[p.from]
      BY <1>3, <2>1 DEF OrderOf
    <2>3. \A i \in DOMAIN sent[c] : sent[c][i].from = p.from => sent[c][i].n < p.n
      BY <1>3, <2>1 DEF OrderOf, Behind
    <2>4. Ordered(sent'[c])
      BY <1>t, <1>7, <2>3, AppendOrdered DEF OrderOf
    <2>5. \A i \in DOMAIN sent'[c] :
             \/ i \in DOMAIN sent[c] /\ sent'[c][i] = sent[c][i]
             \/ sent'[c][i] = p
      BY <1>t, <1>7, AppendedProc
    <2>6. Behind(sent'[c], rest)
      <3>1. \A i \in DOMAIN sent[c], j \in DOMAIN rest :
               rest[j].proc = "send" /\ sent[c][i].from = rest[j].from => sent[c][i].n < rest[j].n
        BY <1>3 DEF OrderOf, Behind
      <3>2. \A j \in DOMAIN rest : rest[j].proc = "send" /\ p.from = rest[j].from => p.n < rest[j].n
        BY <1>3, <2>1 DEF OrderOf, Ordered
      <3>3. QED
        BY <2>5, <3>1, <3>2 DEF Behind
    <2>7. \A i \in DOMAIN sent'[c] :
            /\ sent'[c][i].proc = "send"
            /\ sent'[c][i].from = Nil => sent'[c][i].n <= mRecvSerialID[c]
            /\ sent'[c][i].from \in Link => sent'[c][i].n <= orders[sent'[c][i].from]
      BY <2>1, <2>2, <2>5, ConstantsAssumption DEF OrderOf
    <2>8. QED
      BY <1>3, <1>4, <1>5, <2>4, <2>6, <2>7 DEF OrderOf
  <1>8. QED
    BY <1>4, <1>6, <1>7

\* A closure is pushed: a notification, or the packet of an order just counted.
LEMMA PushOrder ==
    ASSUME TypeOK, NEW c \in Client, OrderOf(c), NEW p \in Proc,
           asyncProcs'[c] = Append(asyncProcs[c], p),
           sent'[c] = sent[c], mRecvSerialID'[c] = mRecvSerialID[c],
           \A l \in Link : orders[l] <= orders'[l] /\ orders'[l] \in Nat,
           p.proc = "send" => /\ p.from \in Link /\ LoopOf[p.from] # LoopOf[c]
                              /\ p.n = orders'[p.from] /\ orders[p.from] < p.n
    PROVE  OrderOf(c)'
  <1>t. /\ sent[c] \in Seq(Proc) /\ asyncProcs[c] \in Seq(Proc)
        /\ mRecvSerialID[c] \in Nat /\ \A l \in Link : orders[l] \in Nat
    BY DEF TypeOK
  <1>n. \A s \in Seq(Proc) : \A i \in DOMAIN s : s[i].n \in Nat
    <2>1. \A s \in Seq(Proc) : \A i \in DOMAIN s : s[i] \in Proc
      OBVIOUS
    <2>2. QED
      BY <2>1 DEF Proc
  <1>p. p.n \in Nat
    BY DEF Proc
  <1>1. p.proc = "send" =>
          /\ \A i \in DOMAIN sent[c] : sent[c][i].from = p.from => sent[c][i].n < p.n
          /\ \A i \in DOMAIN asyncProcs[c] :
               asyncProcs[c][i].proc = "send" /\ asyncProcs[c][i].from = p.from
                   => asyncProcs[c][i].n < p.n
    <2>1. SUFFICES ASSUME p.proc = "send"
                   PROVE  /\ \A i \in DOMAIN sent[c] :
                               sent[c][i].from = p.from => sent[c][i].n < p.n
                          /\ \A i \in DOMAIN asyncProcs[c] :
                               asyncProcs[c][i].proc = "send" /\ asyncProcs[c][i].from = p.from
                                   => asyncProcs[c][i].n < p.n
      OBVIOUS
    <2>2. p.from \in Link /\ orders[p.from] < p.n /\ orders[p.from] \in Nat
      BY <1>t, <2>1
    <2>3. \A i \in DOMAIN sent[c] : sent[c][i].from = p.from => sent[c][i].n < p.n
      <3>1. \A i \in DOMAIN sent[c] : sent[c][i].n \in Nat
        BY <1>t, <1>n
      <3>2. QED
        BY <1>p, <2>2, <3>1 DEF OrderOf
    <2>4. \A i \in DOMAIN asyncProcs[c] :
            asyncProcs[c][i].proc = "send" /\ asyncProcs[c][i].from = p.from
                => asyncProcs[c][i].n < p.n
      <3>1. \A i \in DOMAIN asyncProcs[c] : asyncProcs[c][i].n \in Nat
        BY <1>t, <1>n
      <3>2. QED
        BY <1>p, <2>2, <3>1 DEF OrderOf
    <2>5. QED
      BY <2>3, <2>4
  <1>2. Ordered(asyncProcs'[c])
    BY <1>t, <1>1, AppendOrdered DEF OrderOf
  <1>3. \A i \in DOMAIN asyncProcs'[c] :
           \/ i \in DOMAIN asyncProcs[c] /\ asyncProcs'[c][i] = asyncProcs[c][i]
           \/ asyncProcs'[c][i] = p
    BY <1>t, AppendedProc
  <1>4. Behind(sent'[c], asyncProcs'[c])
    BY <1>1, <1>3 DEF OrderOf, Behind
  <1>5. \A i \in DOMAIN sent'[c] :
          /\ sent'[c][i].proc = "send"
          /\ sent'[c][i].from = Nil => sent'[c][i].n <= mRecvSerialID'[c]
          /\ sent'[c][i].from \in Link => sent'[c][i].n <= orders'[sent'[c][i].from]
    BY <1>t, <1>n DEF OrderOf
  <1>6. \A i \in DOMAIN asyncProcs'[c] :
          asyncProcs'[c][i].proc = "send" =>
              /\ asyncProcs'[c][i].from \in Link
              /\ LoopOf[asyncProcs'[c][i].from] # LoopOf[c]
              /\ asyncProcs'[c][i].n <= orders'[asyncProcs'[c][i].from]
    <2> TAKE i \in DOMAIN asyncProcs'[c]
    <2>1. CASE i \in DOMAIN asyncProcs[c] /\ asyncProcs'[c][i] = asyncProcs[c][i]
      <3>1. asyncProcs[c][i].proc = "send" =>
                /\ asyncProcs[c][i].from \in Link
                /\ LoopOf[asyncProcs[c][i].from] # LoopOf[c]
                /\ asyncProcs[c][i].n <= orders[asyncProcs[c][i].from]
        BY <2>1 DEF OrderOf
      <3>2. asyncProcs[c][i] \in Proc
        BY <1>t, <2>1
      <3>3. QED
        BY <1>t, <1>n, <2>1, <3>1, <3>2 DEF Proc
    <2>2. CASE asyncProcs'[c][i] = p
      BY <1>p, <2>2
    <2>3. QED
      BY <1>3, <2>1, <2>2
  <1>7. QED
    BY <1>2, <1>4, <1>5, <1>6 DEF OrderOf

\* A packet is written at once: the server's earlier ones are not waiting in closures.
LEMMA DirectOrder ==
    ASSUME TypeOK, NEW c \in Client, OrderOf(c), NEW p \in Proc,
           sent'[c] = Append(sent[c], p),
           asyncProcs'[c] = asyncProcs[c], mRecvSerialID'[c] = mRecvSerialID[c],
           \A l \in Link : orders[l] <= orders'[l] /\ orders'[l] \in Nat,
           p.proc = "send", p.from \in Link, LoopOf[p.from] = LoopOf[c],
           p.n = orders'[p.from], orders[p.from] < p.n
    PROVE  OrderOf(c)'
  <1>t. /\ sent[c] \in Seq(Proc) /\ asyncProcs[c] \in Seq(Proc)
        /\ mRecvSerialID[c] \in Nat /\ \A l \in Link : orders[l] \in Nat
    BY DEF TypeOK
  <1>n. \A s \in Seq(Proc) : \A i \in DOMAIN s : s[i].n \in Nat
    <2>1. \A s \in Seq(Proc) : \A i \in DOMAIN s : s[i] \in Proc
      OBVIOUS
    <2>2. QED
      BY <2>1 DEF Proc
  <1>s. /\ \A i \in DOMAIN sent[c] : sent[c][i].n \in Nat
        /\ \A i \in DOMAIN asyncProcs[c] : asyncProcs[c][i].n \in Nat
    BY <1>t, <1>n
  <1>p. p.n \in Nat
    BY DEF Proc
  <1>1. \A i \in DOMAIN sent[c] : sent[c][i].from = p.from => sent[c][i].n < p.n
    BY <1>t, <1>s, <1>p DEF OrderOf
  <1>2. Ordered(sent'[c])
    BY <1>t, <1>1, AppendOrdered DEF OrderOf
  <1>3. \A i \in DOMAIN sent'[c] :
           \/ i \in DOMAIN sent[c] /\ sent'[c][i] = sent[c][i]
           \/ sent'[c][i] = p
    BY <1>t, AppendedProc
  <1>4. Behind(sent'[c], asyncProcs'[c])
    <2>1. \A j \in DOMAIN asyncProcs[c] :
             asyncProcs[c][j].proc = "send" => asyncProcs[c][j].from # p.from
      BY DEF OrderOf
    <2>2. QED
      BY <1>3, <2>1 DEF OrderOf, Behind
  <1>b. \A i \in DOMAIN sent[c] :
          /\ sent[c][i].proc = "send"
          /\ sent[c][i].from = Nil => sent[c][i].n <= mRecvSerialID'[c]
          /\ sent[c][i].from \in Link => sent[c][i].n <= orders'[sent[c][i].from]
    BY <1>t, <1>s DEF OrderOf
  <1>5. \A i \in DOMAIN sent'[c] :
          /\ sent'[c][i].proc = "send"
          /\ sent'[c][i].from = Nil => sent'[c][i].n <= mRecvSerialID'[c]
          /\ sent'[c][i].from \in Link => sent'[c][i].n <= orders'[sent'[c][i].from]
    <2> TAKE i \in DOMAIN sent'[c]
    <2>1. CASE i \in DOMAIN sent[c] /\ sent'[c][i] = sent[c][i]
      BY <1>b, <2>1
    <2>2. CASE sent'[c][i] = p
      BY <1>p, <2>2, ConstantsAssumption
    <2>3. QED
      BY <1>3, <2>1, <2>2
  <1>6. \A i \in DOMAIN asyncProcs'[c] :
          asyncProcs'[c][i].proc = "send" =>
              /\ asyncProcs'[c][i].from \in Link
              /\ LoopOf[asyncProcs'[c][i].from] # LoopOf[c]
              /\ asyncProcs'[c][i].n <= orders'[asyncProcs'[c][i].from]
    BY <1>t, <1>s DEF OrderOf
  <1>7. QED
    BY <1>2, <1>4, <1>5, <1>6 DEF OrderOf

\* The steps of a client keep the order of the packets to each client, ...
LEMMA ClientOrder ==
    ASSUME TypeOK, NEW c \in Client, ClientLoop(c) \/ ClientInput(c), NEW d \in Client, OrderOf(d)
    PROVE  OrderOf(d)'
  <1>t. /\ mRecvSerialID \in [Client -> Nat] /\ orders \in [Link -> Nat]
        /\ sent \in [Client -> Seq(Proc)] /\ asyncProcs \in [Client -> Seq(Proc)]
    BY DEF TypeOK
  <1>o. /\ orders' = orders /\ mRecvSerialID[d] \in Nat /\ mRecvSerialID[d] <= mRecvSerialID[d]
        /\ \A l \in Link : orders[l] <= orders'[l] /\ orders'[l] \in Nat
    BY <1>t, ClientStepKeeps DEF linkVars
  <1>1. CASE Heartbeat(c) \/ RunAsyncProc(c)
    <2>1. CASE d = c
      BY <1>1, <2>1, HeartbeatOrder, RunOrder
    <2>2. CASE d # c
      <3>1. sent'[d] = sent[d] /\ asyncProcs'[d] = asyncProcs[d] /\ mRecvSerialID'[d] = mRecvSerialID[d]
        <4>1. CASE Heartbeat(c)
          BY <1>t, <2>2, <4>1 DEF Heartbeat, Recv
        <4>2. CASE RunAsyncProc(c)
          <5>1. mRecvSerialID' = mRecvSerialID /\ asyncProcs'[d] = asyncProcs[d]
            BY <1>t, <2>2, <4>2 DEF RunAsyncProc
          <5>2. sent' = sent \/ sent' = [sent EXCEPT ![c] = Append(@, Head(asyncProcs[c]))]
            BY <4>2 DEF RunAsyncProc, WriteToClient
          <5>3. QED
            BY <1>t, <2>2, <5>1, <5>2
        <4>3. QED
          BY <1>1, <4>1, <4>2
      <3>2. QED
        BY <1>o, <1>t, <3>1, OrderFrame
    <2>3. QED
      BY <2>1, <2>2
  <1>2. CASE ReconnectAsk(c) \/ \E op \in PacketOp : GamePacket(c, op)
    <2>1. sent' = sent /\ asyncProcs' = asyncProcs
      BY <1>2 DEF ReconnectAsk, GamePacket
    <2>2. mRecvSerialID' = [mRecvSerialID EXCEPT ![c] = @ + 1]
      BY <1>2 DEF ReconnectAsk, GamePacket, Recv
    <2>3. mRecvSerialID[d] <= mRecvSerialID'[d] /\ mRecvSerialID'[d] \in Nat
      BY <1>t, <2>2
    <2>4. QED
      BY <1>o, <1>t, <2>1, <2>3, OrderFrame
  <1>3. CASE UNCHANGED <<sent, asyncProcs, mRecvSerialID>>
    BY <1>o, <1>t, <1>3, OrderFrame
  <1>4. QED
    BY <1>1, <1>2, <1>3
    DEF ClientLoop, ClientInput, ReconnectMark, LoadSlave, ClaimReload, ClaimPick,
        ClaimFind, ClaimStore, Forward, TimerFires, NotifyLoad, NotifyCheck,
        NotifyAll, EraseClient, ClientEnter, ClientClose

\* A kick pushes a notification, to the client it kicks only.
LEMMA KickOrder ==
    ASSUME TypeOK, NEW c \in Client, Kick(c) \/ asyncProcs' = asyncProcs, NEW d \in Client, OrderOf(d),
           UNCHANGED <<sent, mRecvSerialID>>,
           \A l \in Link : orders[l] <= orders'[l] /\ orders'[l] \in Nat
    PROVE  OrderOf(d)'
  <1>t. asyncProcs \in [Client -> Seq(Proc)] /\ mRecvSerialID[d] \in Nat
    BY DEF TypeOK
  <1>1. PICK p \in Proc : p = [proc |-> "notify", from |-> Nil, n |-> 0]
    BY ProcTypes
  <1>2. asyncProcs'[d] = asyncProcs[d] \/ asyncProcs'[d] = Append(asyncProcs[d], p)
    BY <1>t, <1>1 DEF Kick
  <1>3. CASE asyncProcs'[d] = asyncProcs[d]
    BY <1>t, <1>3, OrderFrame
  <1>4. CASE asyncProcs'[d] = Append(asyncProcs[d], p)
    <2>1. p.proc # "send"
      BY <1>1
    <2>2. QED
      BY <1>4, <2>1, PushOrder
  <1>5. QED
    BY <1>2, <1>3, <1>4

\* ... and so do those of a link.
LEMMA LinkOrder ==
    ASSUME TypeOK, NEW l \in Link, LinkLoop(l) \/ LinkInput(l), NEW d \in Client, OrderOf(d)
    PROVE  OrderOf(d)'
  <1>t. /\ mRecvSerialID \in [Client -> Nat] /\ orders \in [Link -> Nat]
        /\ asyncProcs \in [Client -> Seq(Proc)] /\ sent \in [Client -> Seq(Proc)]
    BY DEF TypeOK
  <1>1. ASSUME NEW c \in Client, Order(l, c)
        PROVE  /\ orders'[l] = orders[l] + 1
               /\ \A k \in Link : orders[k] <= orders'[k] /\ orders'[k] \in Nat
    BY <1>t, <1>1 DEF Order
  <1>u. mRecvSerialID[d] \in Nat /\ mRecvSerialID[d] <= mRecvSerialID[d]
    BY <1>t
  <1>2. CASE UNCHANGED <<sent, asyncProcs, mRecvSerialID, orders>>
    <2>1. \A k \in Link : orders[k] <= orders'[k] /\ orders'[k] \in Nat
      BY <1>t, <1>2
    <2>2. QED
      BY <1>u, <1>2, <2>1, OrderFrame
  <1>3. CASE LinkKick(l)
    <2>1. PICK c \in Client : Kick(c) \/ asyncProcs' = asyncProcs
      BY <1>3 DEF LinkKick, TypeOK, LinkFrame
    <2>2. UNCHANGED <<sent, mRecvSerialID, orders>>
      BY <1>3 DEF LinkKick
    <2>3. QED
      BY <1>t, <2>1, <2>2, KickOrder
  <1>4. ASSUME NEW c \in Client, KickClient(l, c)
        PROVE  OrderOf(d)'
    BY <1>1, <1>4, KickOrder DEF KickClient
  <1>5. ASSUME NEW c \in Client, NEW kind \in Kind, NEW willset \in BOOLEAN, SetServer(l, c, kind, willset)
        PROVE  OrderOf(d)'
    <2>1. UNCHANGED <<sent, asyncProcs, mRecvSerialID>> /\ Order(l, c)
      BY <1>5 DEF SetServer, clientVars
    <2>2. \A k \in Link : orders[k] <= orders'[k] /\ orders'[k] \in Nat
      BY <1>1, <2>1
    <2>3. /\ sent'[d] = sent[d] /\ asyncProcs'[d] = asyncProcs[d]
          /\ mRecvSerialID[d] <= mRecvSerialID'[d] /\ mRecvSerialID'[d] \in Nat
      BY <1>t, <2>1
    <2>4. QED
      BY <2>2, <2>3, OrderFrame
  <1>6. ASSUME NEW c \in Client, Downstream(l, c)
        PROVE  OrderOf(d)'
    <2>1. /\ UNCHANGED mRecvSerialID /\ orders'[l] = orders[l] + 1
          /\ \A k \in Link : orders[k] <= orders'[k] /\ orders'[k] \in Nat
      BY <1>1, <1>6 DEF Downstream
    <2>2. PICK p \in Proc : p = [proc |-> "send", from |-> l, n |-> orders'[l]]
      BY <2>1, ProcTypes DEF Server
    <2>3. p.proc = "send" /\ p.from = l /\ p.n = orders'[l] /\ orders[l] < p.n
      BY <1>t, <2>1, <2>2
    <2>4. \/ sent'[d] = sent[d] /\ asyncProcs'[d] = asyncProcs[d]
          \/ /\ LoopOf[l] = LoopOf[d]
             /\ sent'[d] = Append(sent[d], p) /\ asyncProcs'[d] = asyncProcs[d]
          \/ /\ LoopOf[l] # LoopOf[d]
             /\ sent'[d] = sent[d] /\ asyncProcs'[d] = Append(asyncProcs[d], p)
      <3>1. CASE c \in gAllClientObject /\ LoopOf[l] = LoopOf[c]
        <4>1. /\ asyncProcs' = asyncProcs
              /\ sent' = sent \/ sent' = [sent EXCEPT ![c] = Append(@, p)]
          BY <1>6, <2>2, <3>1 DEF Downstream, WriteToClient
        <4>2. QED
          BY <1>t, <3>1, <4>1
      <3>2. CASE c \in gAllClientObject /\ LoopOf[l] # LoopOf[c]
        <4>1. /\ sent' = sent
              /\ asyncProcs' = [asyncProcs EXCEPT ![c] = Append(@, p)]
          BY <1>6, <2>2, <3>2 DEF Downstream, Push
        <4>2. QED
          BY <1>t, <3>2, <4>1
      <3>3. CASE c \notin gAllClientObject
        BY <1>6, <3>3 DEF Downstream
      <3>4. QED
        BY <3>1, <3>2, <3>3
    <2>5. CASE sent'[d] = sent[d] /\ asyncProcs'[d] = asyncProcs[d]
      BY <1>u, <2>1, <2>5, OrderFrame
    <2>6. CASE /\ LoopOf[l] = LoopOf[d]
               /\ sent'[d] = Append(sent[d], p) /\ asyncProcs'[d] = asyncProcs[d]
      BY <2>1, <2>3, <2>6, DirectOrder
    <2>7. CASE /\ LoopOf[l] # LoopOf[d]
               /\ sent'[d] = sent[d] /\ asyncProcs'[d] = Append(asyncProcs[d], p)
      BY <2>1, <2>3, <2>7, PushOrder
    <2>8. QED
      BY <2>4, <2>5, <2>6, <2>7
  <1>7. CASE UNCHANGED <<clientVars, orders>>
    BY <1>2, <1>7 DEF clientVars
  <1>8. QED
    BY <1>2, <1>3, <1>4, <1>5, <1>6, <1>7
    DEF LinkLoop, LinkInput, LoginFind, LoginAdd, LoginReply, SetFind, SetStore,
        LinkUnregister, LinkClose

\* OrderInv holds at the start, ...
LEMMA OrderInit == Init => OrderInv
  <1>1. DOMAIN (<<>>) = {}
    OBVIOUS
  <1>2. Ordered(<<>>) /\ Behind(<<>>, <<>>)
    BY <1>1 DEF Ordered, Behind
  <1>3. QED
    BY <1>1, <1>2 DEF Init, OrderInv, OrderOf

\* ... and is kept by every step.
LEMMA OrderNext == TypeOK /\ OrderInv /\ [Next]_vars => OrderInv'
  <1> SUFFICES ASSUME TypeOK, OrderInv, [Next]_vars, NEW d \in Client PROVE OrderOf(d)'
    BY DEF OrderInv
  <1>1. OrderOf(d)
    BY DEF OrderInv
  <1>2. CASE UNCHANGED vars
    <2>1. mRecvSerialID[d] \in Nat /\ \A l \in Link : orders[l] \in Nat
      BY DEF TypeOK
    <2>2. QED
      BY <1>1, <1>2, <2>1, OrderFrame DEF vars
  <1>3. QED
    BY <1>1, <1>2, ClientOrder, LinkOrder DEF Next

\* The packets of a logic server for a client are written at once if both run on one loop
\* and handed over as closures if not (ClientSession.cpp:158, :182): what reaches the
\* socket is in the order the server sent it, between the heartbeats the loop answers
\* itself, in their order.
THEOREM OrderCorrect == Spec => []DownstreamInOrder
  <1>1. TypeOK /\ OrderInv /\ [Next]_vars => OrderInv'
    BY OrderNext
  <1>2. OrderInv => DownstreamInOrder
    BY DEF OrderInv, OrderOf, Ordered, DownstreamInOrder
  <1>3. QED
    BY <1>1, <1>2, OrderInit, TypeCorrect, PTL DEF Spec
=============================================================================
