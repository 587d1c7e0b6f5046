--------------------------- MODULE CenterLinkProofs ---------------------------
(***************************************************************************)
(* What holds between logic servers and the center server for any number   *)
(* of servers, connections, calls and crashes.                             *)
(*                                                                         *)
(*  - LinkInv counts what will become or is a server's connection.  It is  *)
(*    OneLink with the case of a process that is down, and it alone makes  *)
(*    the bare pointer right: a second connection would take it over.      *)
(*  - NameInv follows an ID from the registry to the session's mID, to the *)
(*    SELFID on its way and to mSelfID.                                    *)
(*  - CallInv follows a call to the center and back: what is under way on  *)
(*    a connection is a call its server waits for, in one place only.      *)
(***************************************************************************)
EXTENDS CenterLink, FiniteSetTheorems, TLAPS

(***************************************************************************)
(* Sequences of messages                                                   *)
(***************************************************************************)

\* The messages on their way in s.
Within(s) == {s[i] : i \in DOMAIN s}

\* A message that is sent is behind the others, ...
LEMMA AppendWithin ==
  ASSUME NEW s \in Seq(Message), NEW m \in Message
  PROVE  Append(s, m) \in Seq(Message) /\ Within(Append(s, m)) = Within(s) \cup {m}
<1>1. /\ Append(s, m) \in Seq(Message)
      /\ Len(Append(s, m)) = Len(s) + 1
      /\ \A i \in 1 .. Len(s) : Append(s, m)[i] = s[i]
      /\ Append(s, m)[Len(s) + 1] = m
  OBVIOUS
<1>2. DOMAIN s = 1 .. Len(s) /\ DOMAIN Append(s, m) = 1 .. Len(s) + 1 /\ Len(s) \in Nat
  BY <1>1
<1>3. 1 .. Len(s) + 1 = (1 .. Len(s)) \cup {Len(s) + 1}
  BY <1>2
<1> QED
  BY <1>1, <1>2, <1>3 DEF Within

\* ... one that is received was the first, ...
LEMMA TailWithin ==
  ASSUME NEW s \in Seq(Message), s # <<>>
  PROVE  /\ Tail(s) \in Seq(Message) /\ Head(s) \in Message
         /\ Head(s) \in Within(s) /\ Within(Tail(s)) \subseteq Within(s)
<1>1. /\ Len(s) \in Nat /\ Len(s) > 0 /\ DOMAIN s = 1 .. Len(s)
      /\ Head(s) = s[1] /\ Tail(s) \in Seq(Message)
      /\ DOMAIN Tail(s) = 1 .. Len(s) - 1
      /\ \A i \in 1 .. Len(s) - 1 : Tail(s)[i] = s[i + 1]
  OBVIOUS
<1>2. \A i \in 1 .. Len(s) - 1 : i + 1 \in 1 .. Len(s)
  BY <1>1
<1>3. Head(s) \in Within(s)
  BY <1>1 DEF Within
<1>4. Within(Tail(s)) \subseteq Within(s)
  BY <1>1, <1>2 DEF Within
<1>5. Within(s) \subseteq Message
  BY <1>1 DEF Within
<1> QED
  BY <1>1, <1>3, <1>4, <1>5

\* ... and what arrives of a broken connection was on its way.
LEMMA PrefixWithin ==
  ASSUME NEW s \in Seq(Message), NEW t \in Prefixes(s)
  PROVE  t \in Seq(Message) /\ Within(t) \subseteq Within(s)
<1>1. PICK k \in 0 .. Len(s) : t = SubSeq(s, 1, k)
  BY DEF Prefixes
<1>2. /\ t \in Seq(Message) /\ DOMAIN t = 1 .. k /\ DOMAIN s = 1 .. Len(s)
      /\ k <= Len(s) /\ Len(s) \in Nat
      /\ \A i \in 1 .. k : t[i] = s[i]
  BY <1>1
<1>3. \A i \in 1 .. k : i \in 1 .. Len(s)
  BY <1>2
<1> QED
  BY <1>2, <1>3 DEF Within

\* Nothing is on an empty connection.
LEMMA EmptyWithin == Within(<<>>) = {} /\ <<>> \in Seq(Message)
BY DEF Within

\* What send() leaves on the connection.
LEMMA SendTypes ==
  ASSUME TypeOK, NEW x \in Conn, NEW m \in Message
  PROVE  /\ SendCenter(x, m) =>
              /\ toCenter' \in [Conn -> Seq(Message)]
              /\ Within(toCenter'[x]) \subseteq Within(toCenter[x]) \cup {m}
              /\ \A y \in Conn \ {x} : toCenter'[y] = toCenter[y]
         /\ SendLogic(x, m) =>
              /\ toLogic' \in [Conn -> Seq(Message)]
              /\ Within(toLogic'[x]) \subseteq Within(toLogic[x]) \cup {m}
              /\ \A y \in Conn \ {x} : toLogic'[y] = toLogic[y]
<1>1. toCenter[x] \in Seq(Message) /\ toLogic[x] \in Seq(Message)
  BY DEF TypeOK
<1>2. /\ Append(toCenter[x], m) \in Seq(Message)
      /\ Append(toLogic[x], m) \in Seq(Message)
      /\ Within(Append(toCenter[x], m)) = Within(toCenter[x]) \cup {m}
      /\ Within(Append(toLogic[x], m)) = Within(toLogic[x]) \cup {m}
  BY <1>1, AppendWithin
<1>3. ASSUME SendCenter(x, m)
      PROVE  /\ toCenter' \in [Conn -> Seq(Message)]
             /\ Within(toCenter'[x]) \subseteq Within(toCenter[x]) \cup {m}
             /\ \A y \in Conn \ {x} : toCenter'[y] = toCenter[y]
  <2>1. toCenter'[x] = toCenter[x] \/ toCenter'[x] = Append(toCenter[x], m)
    BY <1>3 DEF SendCenter, TypeOK
  <2>2. toCenter' \in [Conn -> Seq(Message)]
    BY <1>1, <1>2, <1>3 DEF SendCenter, TypeOK
  <2> QED
    BY <1>2, <1>3, <2>1, <2>2 DEF SendCenter, TypeOK
<1>4. ASSUME SendLogic(x, m)
      PROVE  /\ toLogic' \in [Conn -> Seq(Message)]
             /\ Within(toLogic'[x]) \subseteq Within(toLogic[x]) \cup {m}
             /\ \A y \in Conn \ {x} : toLogic'[y] = toLogic[y]
  <2>1. toLogic'[x] = toLogic[x] \/ toLogic'[x] = Append(toLogic[x], m)
    BY <1>4 DEF SendLogic, TypeOK
  <2>2. toLogic' \in [Conn -> Seq(Message)]
    BY <1>1, <1>2, <1>4 DEF SendLogic, TypeOK
  <2> QED
    BY <1>2, <1>4, <2>1, <2>2 DEF SendLogic, TypeOK
<1> QED
  BY <1>3, <1>4

\* What either end sends is a message.
LEMMA MessageTypes ==
  /\ \A id \in Id \cup {NoId} : Login(id) \in Message /\ SelfId(id) \in Message
  /\ \A n \in Nat : Call(n) \in Message /\ Reply(n) \in Message
BY DEF Message, Login, SelfId, Call, Reply

(***************************************************************************)
(* Types                                                                   *)
(***************************************************************************)

\* TypeOK holds at the start, ...
LEMMA InitType == Init => TypeOK
BY ConstantsAssumption, EmptyWithin DEF Init, TypeOK, CenterEnd, LogicEnd

\* ... and is kept: when a logic server connects, ...
LEMMA ConnectType ==
  ASSUME TypeOK, NEW n \in Server, NEW x \in Conn, Connect(n, x)
  PROVE  TypeOK'
<1>1. connecting[n] - 1 \in Nat
  BY DEF TypeOK, Connect
<1>2. <<>> \in Seq(Message)
  BY EmptyWithin
<1> QED
  BY <1>1, <1>2 DEF TypeOK, Connect, CenterEnd, LogicEnd

\* ... when a connection breaks, ...
LEMMA BreakType ==
  ASSUME TypeOK, NEW x \in Conn, Break(x)
  PROVE  TypeOK'
<1>1. PICK s \in Prefixes(toCenter[x]) : toCenter' = [toCenter EXCEPT ![x] = s]
  BY DEF Break
<1>2. PICK t \in Prefixes(toLogic[x]) : toLogic' = [toLogic EXCEPT ![x] = t]
  BY DEF Break
<1>3. s \in Seq(Message) /\ t \in Seq(Message)
  BY PrefixWithin DEF TypeOK
<1>4. toCenter' \in [Conn -> Seq(Message)] /\ toLogic' \in [Conn -> Seq(Message)]
  BY <1>1, <1>2, <1>3 DEF TypeOK
<1>5. up' \in [Conn -> BOOLEAN]
  BY DEF Break, TypeOK
<1> QED
  BY <1>4, <1>5 DEF TypeOK, Break, centerVars, logicVars

\* The steps of a logic server.
LEMMA LogicType ==
  ASSUME TypeOK, NEW n \in Server,
         \/ LogicStep(n) \/ LogicCall(n) \/ LogicCrash(n) \/ LogicStart(n)
  PROVE  TypeOK'
<1>1. CASE Reconnect(n)
  <2>1. reconnectTimers[n] - 1 \in Nat /\ connecting[n] + 1 \in Nat
    BY <1>1 DEF TypeOK, Reconnect
  <2> QED
    BY <1>1, <2>1 DEF TypeOK, Reconnect, centerVars
<1>2. ASSUME NEW x \in Conn, owner[x] = n, LogicEnter(x)
      PROVE  TypeOK'
  <2>1. Login(IdOf[owner[x]]) \in Message
    BY <1>2, ConstantsAssumption, MessageTypes
  <2>2. toCenter' \in [Conn -> Seq(Message)]
    BY <1>2, <2>1, SendTypes DEF LogicEnter
  <2> QED
    BY <1>2, <2>2 DEF TypeOK, LogicEnter, LogicEnd, centerVars
<1>3. ASSUME NEW x \in Conn, owner[x] = n, LogicMsg(x)
      PROVE  TypeOK'
  <2>1. toLogic[x] \in Seq(Message) /\ toLogic[x] # <<>>
    BY <1>3 DEF TypeOK, LogicMsg
  <2>2. Head(toLogic[x]) \in Message /\ Tail(toLogic[x]) \in Seq(Message)
    BY <2>1, TailWithin
  <2>3. toLogic' \in [Conn -> Seq(Message)]
    BY <1>3, <2>2 DEF TypeOK, LogicMsg
  <2>4. mSelfID' \in [Conn -> Id \cup {NoId}]
    BY <1>3, <2>2 DEF TypeOK, LogicMsg, Message
  <2>5. pendingCalls' \in [Server -> SUBSET Nat]
    BY <1>3 DEF TypeOK, LogicMsg
  <2> QED
    BY <1>3, <2>3, <2>4, <2>5 DEF TypeOK, LogicMsg, centerVars
<1>4. ASSUME NEW x \in Conn, owner[x] = n, LogicClose(x)
      PROVE  TypeOK'
    BY <1>4 DEF TypeOK, LogicClose, LogicEnd, centerVars
<1>5. ASSUME NEW x \in Conn, owner[x] = n, Destroy(x)
      PROVE  TypeOK'
    BY <1>5 DEF TypeOK, Destroy, LogicEnd, centerVars
<1>6. CASE LogicCall(n)
  <2>1. /\ gLogicCenterServerClient[n] \in Conn
        /\ calls' \in [Server -> Nat] /\ calls'[n] \in Nat
        /\ SendCenter(gLogicCenterServerClient[n], Call(calls'[n]))
    BY <1>6 DEF TypeOK, LogicCall
  <2>2. toCenter' \in [Conn -> Seq(Message)]
    BY <2>1, SendTypes, MessageTypes
  <2>3. pendingCalls' \in [Server -> SUBSET Nat]
    BY <1>6, <2>1 DEF TypeOK, LogicCall
  <2> QED
    BY <1>6, <2>1, <2>2, <2>3 DEF TypeOK, LogicCall, centerVars
<1>7. CASE LogicCrash(n)
  <2>1. toLogic' \in [Conn -> Seq(Message)]
    BY <1>7, EmptyWithin DEF TypeOK, LogicCrash
  <2>2. up' \in [Conn -> BOOLEAN]
    BY <1>7 DEF LogicCrash, Lose
  <2> QED
    BY <1>7, <2>1, <2>2, ConstantsAssumption DEF TypeOK, LogicCrash, LogicEnd, centerVars
<1>8. CASE LogicStart(n)
  BY <1>8 DEF TypeOK, LogicStart, centerVars
<1> QED
  BY <1>1, <1>2, <1>3, <1>4, <1>5, <1>6, <1>7, <1>8 DEF LogicStep

\* The steps of the center.
LEMMA CenterType ==
  ASSUME TypeOK, CenterStep \/ CenterCrash \/ CenterStart
  PROVE  TypeOK'
<1>1. ASSUME NEW x \in Conn, CenterEnter(x)
      PROVE  TypeOK'
  BY <1>1 DEF TypeOK, CenterEnter, CenterEnd, logicVars
<1>2. ASSUME NEW x \in Conn, NEW op, CenterRecv(x, op)
      PROVE  /\ toCenter' \in [Conn -> Seq(Message)]
             /\ Head(toCenter[x]) \in Message
  <2>1. toCenter[x] \in Seq(Message) /\ toCenter[x] # <<>>
    BY <1>2 DEF TypeOK, CenterRecv
  <2>2. Head(toCenter[x]) \in Message /\ Tail(toCenter[x]) \in Seq(Message)
    BY <2>1, TailWithin
  <2> QED
    BY <1>2, <2>2 DEF TypeOK, CenterRecv
<1>3. ASSUME NEW x \in Conn, CenterLogin(x)
      PROVE  TypeOK'
  <2> DEFINE id == Head(toCenter[x]).id
  <2>1. toCenter' \in [Conn -> Seq(Message)] /\ id \in Id \cup {NoId}
    BY <1>2, <1>3 DEF CenterLogin, Message
  <2>2. toLogic' \in [Conn -> Seq(Message)]
    <3>1. SelfId(id) \in Message
      BY <2>1, MessageTypes
    <3>2. toLogic' = toLogic \/ SendLogic(x, SelfId(id))
      BY <1>3 DEF CenterLogin
    <3> QED
      BY <3>1, <3>2, SendTypes DEF TypeOK
  <2>3. mID' \in [Conn -> Id \cup {NoId}]
    <3>1. mID' = mID \/ mID' = [mID EXCEPT ![x] = id]
      BY <1>3 DEF CenterLogin
    <3> HIDE DEF id
    <3> QED
      BY <2>1, <3>1 DEF TypeOK
  <2>4. sAllLogicServer' \in [Id -> Conn \cup {Nil}]
    BY <1>3, <2>1 DEF TypeOK, CenterLogin
  <2> QED
    BY <1>3, <2>1, <2>2, <2>3, <2>4 DEF TypeOK, CenterLogin, logicVars
<1>4. ASSUME NEW x \in Conn, CenterRpc(x)
      PROVE  TypeOK'
  <2> DEFINE n == Head(toCenter[x]).n
  <2>1. toCenter' \in [Conn -> Seq(Message)] /\ n \in Nat
    BY <1>2, <1>4 DEF CenterRpc, Message
  <2>2. toLogic' \in [Conn -> Seq(Message)]
    <3>1. Reply(n) \in Message
      BY <2>1, MessageTypes
    <3>2. toLogic' = toLogic \/ SendLogic(x, Reply(n))
      BY <1>4 DEF CenterRpc
    <3> QED
      BY <3>1, <3>2, SendTypes DEF TypeOK
  <2>3. asyncReplies' \subseteq [caller : Conn, n : Nat]
    BY <1>4, <2>1 DEF TypeOK, CenterRpc
  <2> QED
    BY <1>4, <2>1, <2>2, <2>3 DEF TypeOK, CenterRpc, logicVars
<1>5. ASSUME NEW x \in Conn, CenterClose(x)
      PROVE  TypeOK'
  BY <1>5 DEF TypeOK, CenterClose, CenterEnd, logicVars
<1>6. ASSUME NEW r \in asyncReplies, AsyncReply(r)
      PROVE  TypeOK'
  <2>1. r.caller \in Conn /\ r.n \in Nat
    BY DEF TypeOK
  <2>2. toLogic' \in [Conn -> Seq(Message)]
    BY <1>6, <2>1, MessageTypes, SendTypes DEF AsyncReply
  <2> QED
    BY <1>6, <2>2 DEF TypeOK, AsyncReply, logicVars
<1>7. CASE CenterCrash
  <2>1. toCenter' \in [Conn -> Seq(Message)] /\ up' \in [Conn -> BOOLEAN]
    BY <1>7, EmptyWithin DEF CenterCrash, Lose
  <2> QED
    BY <1>7, <2>1 DEF TypeOK, CenterCrash, CenterEnd, logicVars
<1>8. CASE CenterStart
  BY <1>8 DEF TypeOK, CenterStart, logicVars
<1> QED
  BY <1>1, <1>3, <1>4, <1>5, <1>6, <1>7, <1>8 DEF CenterStep

\* ... and by every step.
LEMMA NextType ==
  ASSUME TypeOK, [Next]_vars
  PROVE  TypeOK'
<1>1. CASE UNCHANGED vars
  BY <1>1 DEF TypeOK, vars, centerVars, logicVars
<1>2. CASE Next
  BY <1>2, ConnectType, BreakType, LogicType, CenterType DEF Next, ConnectSome
<1> QED
  BY <1>1, <1>2

\* Every variable has its type, in the center and in every logic server.
THEOREM TypeCorrect == Spec => []TypeOK
BY InitType, NextType, PTL DEF Spec

(***************************************************************************)
(* One link                                                                *)
(***************************************************************************)

\* A running server has one thread or one timer if it has no connection, and
\* none if it has one; a server that is down has neither.
LinkInv ==
  /\ \A x \in Conn : logicEnd[x] # "none" => owner[x] \in Server
  /\ \A n \in Server :
       /\ connecting[n] + reconnectTimers[n] =
            IF running[n] /\ Own(n) = {} THEN 1 ELSE 0
       /\ ~ running[n] => Own(n) = {}
       /\ \A x, y \in Own(n) : x = y

\* LinkInv holds at the start, ...
LEMMA InitLink == Init => LinkInv
BY DEF Init, LinkInv, Own

\* A step that starts, ends and moves no connection keeps the count.
LEMMA LinkFrame ==
  ASSUME LinkInv,
         connecting' = connecting, reconnectTimers' = reconnectTimers,
         running' = running, owner' = owner,
         \A x \in Conn : logicEnd'[x] = "none" <=> logicEnd[x] = "none"
  PROVE  LinkInv'
<1>1. \A n \in Server : Own(n)' = Own(n)
  BY DEF Own
<1>2. \A x \in Conn : logicEnd'[x] # "none" => owner'[x] \in Server
  BY DEF LinkInv
<1>3. \A n \in Server :
        /\ connecting'[n] + reconnectTimers'[n] =
             IF running'[n] /\ Own(n)' = {} THEN 1 ELSE 0
        /\ ~ running'[n] => Own(n)' = {}
        /\ \A x, y \in Own(n)' : x = y
  BY <1>1 DEF LinkInv
<1> QED
  BY <1>2, <1>3 DEF LinkInv

\* ... and is kept: when a logic server connects, ...
LEMMA ConnectLink ==
  ASSUME TypeOK, LinkInv, NEW n \in Server, NEW x \in Conn, Connect(n, x)
  PROVE  LinkInv'
<1>1. /\ connecting[n] \in Nat /\ reconnectTimers[n] \in Nat /\ connecting[n] > 0
      /\ running[n] /\ running' = running /\ reconnectTimers' = reconnectTimers
      /\ logicEnd[x] = "none"
  BY DEF TypeOK, Connect
<1>2. connecting[n] = 1 /\ reconnectTimers[n] = 0 /\ Own(n) = {}
  BY <1>1 DEF LinkInv
<1>3. Own(n)' = {x} /\ \A m \in Server \ {n} : Own(m)' = Own(m)
  <2>1. /\ owner'[x] = n /\ logicEnd'[x] = "new"
        /\ \A y \in Conn \ {x} : owner'[y] = owner[y] /\ logicEnd'[y] = logicEnd[y]
    BY DEF TypeOK, Connect
  <2> QED
    BY <1>1, <1>2, <2>1 DEF Own
<1>4. connecting'[n] = 0 /\ \A m \in Server \ {n} : connecting'[m] = connecting[m]
  BY <1>2 DEF TypeOK, Connect
<1>5. \A y \in Conn : logicEnd'[y] # "none" => owner'[y] \in Server
  BY DEF TypeOK, Connect, LinkInv
<1>6. \A m \in Server :
        /\ connecting'[m] + reconnectTimers'[m] =
             IF running'[m] /\ Own(m)' = {} THEN 1 ELSE 0
        /\ ~ running'[m] => Own(m)' = {}
        /\ \A y, z \in Own(m)' : y = z
  <2> TAKE m \in Server
  <2>1. CASE m = n
    BY <1>1, <1>2, <1>3, <1>4, <2>1
  <2>2. CASE m # n
    BY <1>1, <1>3, <1>4, <2>2 DEF LinkInv
  <2> QED
    BY <2>1, <2>2
<1> QED
  BY <1>5, <1>6 DEF LinkInv

\* The destructor of a connection starts the timer of its server.
LEMMA DestroyLink ==
  ASSUME TypeOK, LinkInv, NEW n \in Server, NEW x \in Conn, owner[x] = n, Destroy(x)
  PROVE  LinkInv'
<1>1. /\ connecting' = connecting /\ running' = running /\ owner' = owner
      /\ connecting[n] \in Nat /\ reconnectTimers[n] \in Nat
      /\ x \in Own(n)
  BY DEF TypeOK, Destroy, Own
<1>2. running[n] /\ Own(n) = {x} /\ connecting[n] + reconnectTimers[n] = 0
  BY <1>1 DEF LinkInv
<1>3. /\ reconnectTimers'[n] = reconnectTimers[n] + 1
      /\ \A m \in Server \ {n} : reconnectTimers'[m] = reconnectTimers[m]
  BY DEF TypeOK, Destroy
<1>4. /\ logicEnd'[x] = "none"
      /\ \A y \in Conn \ {x} : logicEnd'[y] = logicEnd[y]
  BY DEF TypeOK, Destroy
<1>5. Own(n)' = {} /\ \A m \in Server \ {n} : Own(m)' = Own(m)
  BY <1>1, <1>2, <1>4 DEF Own
<1>6. \A y \in Conn : logicEnd'[y] # "none" => owner'[y] \in Server
  BY <1>1, <1>4 DEF LinkInv
<1>7. \A m \in Server :
        /\ connecting'[m] + reconnectTimers'[m] =
             IF running'[m] /\ Own(m)' = {} THEN 1 ELSE 0
        /\ ~ running'[m] => Own(m)' = {}
        /\ \A y, z \in Own(m)' : y = z
  <2> TAKE m \in Server
  <2>1. CASE m = n
    BY <1>1, <1>2, <1>3, <1>5, <2>1
  <2>2. CASE m # n
    BY <1>1, <1>3, <1>5, <2>2 DEF LinkInv
  <2> QED
    BY <2>1, <2>2
<1> QED
  BY <1>6, <1>7 DEF LinkInv

\* The timer becomes a thread; a crash ends all there is, a start makes one thread.
LEMMA ProcessLink ==
  ASSUME TypeOK, LinkInv, NEW n \in Server,
         Reconnect(n) \/ LogicCrash(n) \/ LogicStart(n)
  PROVE  LinkInv'
<1>1. /\ connecting[n] \in Nat /\ reconnectTimers[n] \in Nat
      /\ owner' = owner
      /\ \A m \in Server \ {n} :
           /\ connecting'[m] = connecting[m] /\ reconnectTimers'[m] = reconnectTimers[m]
           /\ running'[m] = running[m]
  BY DEF TypeOK, Reconnect, LogicCrash, LogicStart
<1>2. \A m \in Server \ {n} : Own(m)' = Own(m)
  <2>1. CASE Reconnect(n) \/ LogicStart(n)
    BY <2>1 DEF Reconnect, LogicStart, Own
  <2>2. CASE LogicCrash(n)
    <3>1. \A y \in Conn : owner[y] # n => logicEnd'[y] = logicEnd[y]
      BY <2>2 DEF LogicCrash, Own
    <3> QED
      BY <1>1, <3>1 DEF Own
  <2> QED
    BY <2>1, <2>2
<1>3. /\ connecting'[n] + reconnectTimers'[n] =
           IF running'[n] /\ Own(n)' = {} THEN 1 ELSE 0
      /\ ~ running'[n] => Own(n)' = {}
      /\ \A y, z \in Own(n)' : y = z
  <2>1. CASE Reconnect(n)
    <3>1. /\ Own(n)' = Own(n) /\ running' = running
          /\ reconnectTimers'[n] = reconnectTimers[n] - 1
          /\ connecting'[n] = connecting[n] + 1
      BY <2>1 DEF TypeOK, Reconnect, Own
    <3> QED
      BY <1>1, <3>1 DEF LinkInv
  <2>2. CASE LogicCrash(n)
    <3>1. \A y \in Conn : owner[y] = n => logicEnd'[y] = "none"
      BY <2>2 DEF LogicCrash, Own
    <3>2. Own(n)' = {}
      BY <1>1, <3>1 DEF Own
    <3>3. ~ running'[n] /\ connecting'[n] = 0 /\ reconnectTimers'[n] = 0
      BY <2>2 DEF TypeOK, LogicCrash
    <3> QED
      BY <3>2, <3>3
  <2>3. CASE LogicStart(n)
    <3>1. ~ running[n] /\ Own(n)' = Own(n) /\ running'[n]
      BY <2>3 DEF TypeOK, LogicStart, Own
    <3>2. Own(n) = {} /\ connecting[n] + reconnectTimers[n] = 0
      BY <3>1 DEF LinkInv
    <3>3. connecting'[n] = 1 /\ reconnectTimers'[n] = 0
      BY <1>1, <2>3, <3>2 DEF TypeOK, LogicStart
    <3> QED
      BY <3>1, <3>2, <3>3
  <2> QED
    BY <2>1, <2>2, <2>3
<1>4. \A y \in Conn : logicEnd'[y] # "none" => logicEnd[y] # "none"
  BY DEF Reconnect, LogicCrash, LogicStart
<1>5. \A y \in Conn : logicEnd'[y] # "none" => owner'[y] \in Server
  BY <1>1, <1>4 DEF LinkInv
<1>6. \A m \in Server :
        /\ connecting'[m] + reconnectTimers'[m] =
             IF running'[m] /\ Own(m)' = {} THEN 1 ELSE 0
        /\ ~ running'[m] => Own(m)' = {}
        /\ \A y, z \in Own(m)' : y = z
  <2> TAKE m \in Server
  <2>1. CASE m = n
    BY <1>3, <2>1
  <2>2. CASE m # n
    BY <1>1, <1>2, <2>2 DEF LinkInv
  <2> QED
    BY <2>1, <2>2
<1> QED
  BY <1>5, <1>6 DEF LinkInv

\* ... and by every step.
LEMMA NextLink ==
  ASSUME TypeOK, LinkInv, [Next]_vars
  PROVE  LinkInv'
<1>1. CASE UNCHANGED vars
  BY <1>1, LinkFrame DEF vars, logicVars
<1>2. ASSUME NEW n \in Server, LogicStep(n)
      PROVE  LinkInv'
  <2>1. ASSUME NEW x \in Conn, owner[x] = n, LogicEnter(x) \/ LogicMsg(x) \/ LogicClose(x)
        PROVE  LinkInv'
    <3>1. \A y \in Conn : logicEnd'[y] = "none" <=> logicEnd[y] = "none"
      BY <2>1 DEF TypeOK, LogicEnter, LogicMsg, LogicClose
    <3>2. /\ connecting' = connecting /\ reconnectTimers' = reconnectTimers
          /\ running' = running /\ owner' = owner
      BY <2>1 DEF LogicEnter, LogicMsg, LogicClose
    <3> QED
      BY <3>1, <3>2, LinkFrame
  <2> QED
    BY <1>2, <2>1, ProcessLink, DestroyLink DEF LogicStep
<1>3. ASSUME NEW n \in Server, NEW x \in Conn, Connect(n, x)
      PROVE  LinkInv'
  BY <1>3, ConnectLink
<1>4. ASSUME NEW n \in Server, LogicCall(n)
      PROVE  LinkInv'
  BY <1>4, LinkFrame DEF LogicCall
<1>5. ASSUME NEW n \in Server, LogicCrash(n) \/ LogicStart(n)
      PROVE  LinkInv'
  BY <1>5, ProcessLink
<1>6. CASE CenterStep \/ CenterCrash \/ CenterStart
  <2>1. UNCHANGED logicVars
    BY <1>6 DEF CenterStep, CenterEnter, CenterLogin, CenterRpc, CenterClose, AsyncReply,
                CenterCrash, CenterStart
  <2> QED
    BY <2>1, LinkFrame DEF logicVars
<1>7. ASSUME NEW x \in Conn, Break(x)
      PROVE  LinkInv'
  BY <1>7, LinkFrame DEF Break, logicVars
<1> QED
  BY <1>1, <1>2, <1>3, <1>4, <1>5, <1>6, <1>7 DEF Next, ConnectSome

\* The strengthening of OneLink holds throughout.
LEMMA LinkCorrect == Spec => [](TypeOK /\ LinkInv)
<1>1. Init => TypeOK /\ LinkInv
  BY InitType, InitLink
<1>2. TypeOK /\ LinkInv /\ [Next]_vars => (TypeOK /\ LinkInv)'
  BY NextType, NextLink
<1> QED
  BY <1>1, <1>2, PTL DEF Spec

\* The destructor reconnects once for each connection there was
\* (CenterServerConnection.cpp:38): a running logic server has exactly one thread,
\* timer or connection, after any number of breaks, crashes and restarts.
THEOREM OneLinkCorrect == Spec => []OneLink
<1>1. ASSUME TypeOK, LinkInv
      PROVE  OneLink
  <2> SUFFICES ASSUME NEW n \in Server, running[n]
               PROVE  connecting[n] + reconnectTimers[n] + Cardinality(Own(n)) = 1
    BY DEF OneLink
  <2>1. connecting[n] \in Nat /\ reconnectTimers[n] \in Nat
    BY <1>1 DEF TypeOK
  <2>2. CASE Own(n) = {}
    BY <1>1, <2>1, <2>2, FS_EmptySet DEF LinkInv
  <2>3. CASE Own(n) # {}
    <3>1. PICK x \in Own(n) : TRUE
      BY <2>3
    <3>2. \A y \in Own(n) : y = x
      BY <1>1 DEF LinkInv
    <3>3. Own(n) = {x}
      BY <3>1, <3>2
    <3>4. Cardinality(Own(n)) = 1
      BY <3>3, FS_Singleton
    <3> QED
      BY <1>1, <2>1, <2>3, <3>4 DEF LinkInv
  <2> QED
    BY <2>2, <2>3
<1> QED
  BY <1>1, LinkCorrect, PTL

(***************************************************************************)
(* The bare pointer                                                        *)
(***************************************************************************)

\* What a step that only moves x between two states of the connection does.
LEMMA PointerFrame ==
  ASSUME PointerIsOpen,
         gLogicCenterServerClient' = gLogicCenterServerClient, owner' = owner,
         \A x \in Conn : logicEnd'[x] = "open" <=> logicEnd[x] = "open"
  PROVE  PointerIsOpen'
BY DEF PointerIsOpen

\* onEnter sets the pointer of a server that has no other connection.
LEMMA EnterPointer ==
  ASSUME TypeOK, LinkInv, PointerIsOpen, NEW n \in Server, NEW x \in Conn,
         owner[x] = n, LogicEnter(x)
  PROVE  PointerIsOpen'
<1>1. x \in Own(n) /\ \A y \in Own(n) : y = x
  BY DEF LinkInv, Own, LogicEnter
<1>2. /\ logicEnd'[x] = "open" /\ owner' = owner
      /\ \A y \in Conn \ {x} : logicEnd'[y] = logicEnd[y]
      /\ gLogicCenterServerClient'[n] = x
      /\ \A m \in Server \ {n} :
           gLogicCenterServerClient'[m] = gLogicCenterServerClient[m]
  BY DEF TypeOK, LogicEnter
<1> SUFFICES ASSUME NEW m \in Server, NEW y \in Conn
             PROVE  gLogicCenterServerClient'[m] = y
                      <=> owner'[y] = m /\ logicEnd'[y] = "open"
  BY DEF PointerIsOpen
<1>3. CASE m = n
  <2>1. owner[y] = n /\ logicEnd'[y] = "open" => y = x
    BY <1>1, <1>2 DEF Own
  <2> QED
    BY <1>2, <1>3, <2>1
<1>4. CASE m # n
  BY <1>2, <1>4 DEF PointerIsOpen
<1> QED
  BY <1>3, <1>4

\* onClose, and a crash, reset the pointer of the server of the connection.
LEMMA ClosePointer ==
  ASSUME TypeOK, PointerIsOpen, NEW n \in Server,
         \/ LogicCrash(n)
         \/ \E x \in Conn : owner[x] = n /\ LogicClose(x),
         LinkInv
  PROVE  PointerIsOpen'
<1>1. /\ owner' = owner /\ gLogicCenterServerClient'[n] = Nil
      /\ \A m \in Server \ {n} :
           gLogicCenterServerClient'[m] = gLogicCenterServerClient[m]
  BY DEF TypeOK, LogicCrash, LogicClose
<1>2. \A y \in Conn : owner[y] = n => logicEnd'[y] # "open"
  <2>1. CASE LogicCrash(n)
    BY <2>1 DEF LogicCrash, Own
  <2>2. ASSUME NEW x \in Conn, owner[x] = n, LogicClose(x)
        PROVE  \A y \in Conn : owner[y] = n => logicEnd'[y] # "open"
    <3>1. x \in Own(n) /\ \A y \in Own(n) : y = x
      BY <2>2 DEF LinkInv, Own, LogicClose
    <3>2. /\ logicEnd'[x] = "closed"
          /\ \A y \in Conn \ {x} : logicEnd'[y] = logicEnd[y]
      BY <2>2 DEF TypeOK, LogicClose
    <3> QED
      BY <3>1, <3>2 DEF Own
  <2> QED
    BY <2>1, <2>2
<1>3. \A y \in Conn : owner[y] # n => logicEnd'[y] = logicEnd[y]
  BY DEF TypeOK, LogicCrash, LogicClose, Own
<1> SUFFICES ASSUME NEW m \in Server, NEW y \in Conn
             PROVE  gLogicCenterServerClient'[m] = y
                      <=> owner'[y] = m /\ logicEnd'[y] = "open"
  BY DEF PointerIsOpen
<1>4. CASE m = n
  BY <1>1, <1>2, <1>4, ConstantsAssumption
<1>5. CASE m # n
  BY <1>1, <1>3, <1>5 DEF PointerIsOpen
<1> QED
  BY <1>4, <1>5

\* Every step keeps the center's pointers to open sessions.
LEMMA NextPointer ==
  ASSUME TypeOK, LinkInv, PointerIsOpen, [Next]_vars
  PROVE  PointerIsOpen'
<1>1. CASE UNCHANGED vars
  BY <1>1, PointerFrame DEF vars, logicVars
<1>2. ASSUME NEW n \in Server, LogicStep(n)
      PROVE  PointerIsOpen'
  <2>1. CASE Reconnect(n)
    BY <2>1, PointerFrame DEF Reconnect
  <2>2. ASSUME NEW x \in Conn, owner[x] = n, LogicMsg(x) \/ Destroy(x)
        PROVE  PointerIsOpen'
    <3>1. \A y \in Conn : logicEnd'[y] = "open" <=> logicEnd[y] = "open"
      BY <2>2 DEF TypeOK, LogicMsg, Destroy
    <3>2. /\ gLogicCenterServerClient' = gLogicCenterServerClient
          /\ owner' = owner
      BY <2>2 DEF LogicMsg, Destroy
    <3> QED
      BY <3>1, <3>2, PointerFrame
  <2> QED
    BY <1>2, <2>1, <2>2, EnterPointer, ClosePointer DEF LogicStep
<1>3. ASSUME NEW n \in Server, NEW x \in Conn, Connect(n, x)
      PROVE  PointerIsOpen'
  <2>1. /\ logicEnd[x] = "none" /\ logicEnd'[x] = "new"
        /\ gLogicCenterServerClient' = gLogicCenterServerClient
        /\ \A y \in Conn \ {x} : logicEnd'[y] = logicEnd[y] /\ owner'[y] = owner[y]
    BY <1>3 DEF TypeOK, Connect
  <2> QED
    BY <2>1 DEF PointerIsOpen
<1>4. ASSUME NEW n \in Server, LogicCall(n) \/ LogicStart(n)
      PROVE  PointerIsOpen'
  BY <1>4, PointerFrame DEF LogicCall, LogicStart
<1>5. ASSUME NEW n \in Server, LogicCrash(n)
      PROVE  PointerIsOpen'
  BY <1>5, ClosePointer
<1>6. CASE CenterStep \/ CenterCrash \/ CenterStart
  <2>1. UNCHANGED logicVars
    BY <1>6 DEF CenterStep, CenterEnter, CenterLogin, CenterRpc, CenterClose, AsyncReply,
                CenterCrash, CenterStart
  <2> QED
    BY <2>1, PointerFrame DEF logicVars
<1>7. ASSUME NEW x \in Conn, Break(x)
      PROVE  PointerIsOpen'
  BY <1>7, PointerFrame DEF Break, logicVars
<1> QED
  BY <1>1, <1>2, <1>3, <1>4, <1>5, <1>6, <1>7 DEF Next, ConnectSome

\* gLogicCenterServerClient (CenterServerConnection.cpp:58, 76) is a server's open
\* connection and never one that is closed, destroyed or another server's.
THEOREM PointerCorrect == Spec => []PointerIsOpen
<1>1. Init => PointerIsOpen
  BY ConstantsAssumption DEF Init, PointerIsOpen
<1>2. TypeOK /\ LinkInv /\ PointerIsOpen /\ [Next]_vars => PointerIsOpen'
  BY NextPointer
<1> QED
  BY <1>1, <1>2, LinkCorrect, PTL DEF Spec

(***************************************************************************)
(* The ID of a logic server                                                *)
(***************************************************************************)

\* An ID travels from the registry to mID, into a SELFID message and to mSelfID.
LoginNamesId ==
  \A x \in Conn : \A m \in Within(toCenter[x]) : m.op = "login" => m.id \in Id

NameIsRegistered ==
  \A x \in Conn :
    centerEnd[x] = "open" /\ mID[x] # NoId =>
      mID[x] \in Id /\ sAllLogicServer[mID[x]] = x

NewHasNoName ==
  \A x \in Conn : centerEnd[x] = "new" => mID[x] = NoId

\* x has both its ends.
Whole(x) == centerEnd[x] \in {"new", "open"} /\ logicEnd[x] \in {"new", "open"}

SelfIdIsName ==
  \A x \in Conn : Whole(x) =>
    /\ mSelfID[x] # NoId => mSelfID[x] = mID[x]
    /\ \A m \in Within(toLogic[x]) :
         m.op = "selfid" => m.id # NoId /\ m.id = mID[x]

NoneHasNoSelfId ==
  \A x \in Conn : logicEnd[x] = "none" => mSelfID[x] = NoId

NameInv ==
  /\ LoginNamesId
  /\ NameIsRegistered
  /\ NewHasNoName
  /\ SelfIdIsName
  /\ NoneHasNoSelfId

\* NameInv holds at the start, ...
LEMMA InitName == Init => NameInv
BY EmptyWithin DEF Init, NameInv, LoginNamesId, NameIsRegistered, NewHasNoName, SelfIdIsName,
                   NoneHasNoSelfId, Whole

\* A step that registers nobody: no message names an ID that none named before,
\* no session takes an ID that is not its own, ends only go.
LEMMA NameFrame ==
  ASSUME NameInv,
         \A x \in Conn :
           /\ \A m \in Within(toCenter'[x]) :
                m \in Within(toCenter[x]) \/ (m.op = "login" => m.id \in Id)
           /\ \A m \in Within(toLogic'[x]) :
                m \in Within(toLogic[x]) \/ m.op # "selfid"
           /\ \/ centerEnd'[x] = centerEnd[x]
              \/ centerEnd[x] = "new" /\ centerEnd'[x] = "open"
           /\ Whole(x)' => Whole(x) /\ mSelfID'[x] \in {mSelfID[x], mID[x], NoId}
           /\ logicEnd'[x] = "none" => mSelfID'[x] = NoId,
         mID' = mID, sAllLogicServer' = sAllLogicServer
  PROVE  NameInv'
<1>1. LoginNamesId'
  BY DEF NameInv, LoginNamesId
<1>2. NameIsRegistered' /\ NewHasNoName'
  BY DEF NameInv, NameIsRegistered, NewHasNoName
<1>3. SelfIdIsName'
  BY DEF NameInv, SelfIdIsName
<1>4. NoneHasNoSelfId'
  BY DEF NoneHasNoSelfId
<1> QED
  BY <1>1, <1>2, <1>3, <1>4 DEF NameInv

\* What a receiver takes off a connection, and what is left when it breaks.
LEMMA ReceivedWithin ==
  ASSUME TypeOK, NEW x \in Conn
  PROVE  /\ toLogic[x] # <<>> /\ toLogic' = [toLogic EXCEPT ![x] = Tail(@)] =>
              /\ Head(toLogic[x]) \in Within(toLogic[x])
              /\ \A y \in Conn : Within(toLogic'[y]) \subseteq Within(toLogic[y])
         /\ \A op : CenterRecv(x, op) =>
              /\ Head(toCenter[x]) \in Within(toCenter[x])
              /\ \A y \in Conn : Within(toCenter'[y]) \subseteq Within(toCenter[y])
         /\ Break(x) => \A y \in Conn :
              /\ Within(toLogic'[y]) \subseteq Within(toLogic[y])
              /\ Within(toCenter'[y]) \subseteq Within(toCenter[y])
<1>1. /\ toCenter \in [Conn -> Seq(Message)] /\ toLogic \in [Conn -> Seq(Message)]
  BY DEF TypeOK
<1>2. ASSUME toLogic[x] # <<>>, toLogic' = [toLogic EXCEPT ![x] = Tail(@)]
      PROVE  /\ Head(toLogic[x]) \in Within(toLogic[x])
             /\ \A y \in Conn : Within(toLogic'[y]) \subseteq Within(toLogic[y])
  <2>1. /\ Head(toLogic[x]) \in Within(toLogic[x])
        /\ Within(Tail(toLogic[x])) \subseteq Within(toLogic[x])
    BY <1>1, <1>2, TailWithin
  <2> QED
    BY <1>1, <1>2, <2>1
<1>3. ASSUME NEW op, CenterRecv(x, op)
      PROVE  /\ Head(toCenter[x]) \in Within(toCenter[x])
             /\ \A y \in Conn : Within(toCenter'[y]) \subseteq Within(toCenter[y])
  <2>1. /\ toCenter[x] # <<>> /\ toCenter' = [toCenter EXCEPT ![x] = Tail(@)]
    BY <1>3 DEF CenterRecv
  <2>2. /\ Head(toCenter[x]) \in Within(toCenter[x])
        /\ Within(Tail(toCenter[x])) \subseteq Within(toCenter[x])
    BY <1>1, <2>1, TailWithin
  <2> QED
    BY <1>1, <2>1, <2>2
<1>4. ASSUME Break(x)
      PROVE  \A y \in Conn :
              /\ Within(toLogic'[y]) \subseteq Within(toLogic[y])
              /\ Within(toCenter'[y]) \subseteq Within(toCenter[y])
  <2>1. PICK s \in Prefixes(toCenter[x]) : toCenter' = [toCenter EXCEPT ![x] = s]
    BY <1>4 DEF Break
  <2>2. PICK t \in Prefixes(toLogic[x]) : toLogic' = [toLogic EXCEPT ![x] = t]
    BY <1>4 DEF Break
  <2>3. Within(s) \subseteq Within(toCenter[x]) /\ Within(t) \subseteq Within(toLogic[x])
    BY <1>1, PrefixWithin
  <2> QED
    BY <1>1, <2>1, <2>2, <2>3
<1> QED
  BY <1>2, <1>3, <1>4

\* ... and is kept: by the steps of a logic server, ...
LEMMA LogicName ==
  ASSUME TypeOK, NameInv, NEW n \in Server,
         \/ LogicStep(n) \/ LogicCall(n) \/ LogicCrash(n) \/ LogicStart(n)
  PROVE  NameInv'
<1>1. NoneHasNoSelfId
  BY DEF NameInv
<1>2. CASE Reconnect(n)
  BY <1>1, <1>2, NameFrame DEF Reconnect, centerVars, Whole, NoneHasNoSelfId
<1>3. ASSUME NEW x \in Conn, owner[x] = n, LogicEnter(x)
      PROVE  NameInv'
  <2>1. Login(IdOf[n]) \in Message /\ Login(IdOf[n]).id \in Id
    BY ConstantsAssumption, MessageTypes DEF Login
  <2>2. /\ Within(toCenter'[x]) \subseteq Within(toCenter[x]) \cup {Login(IdOf[n])}
        /\ \A y \in Conn \ {x} : toCenter'[y] = toCenter[y]
    BY <1>3, <2>1, SendTypes DEF LogicEnter
  <2>3. \A y \in Conn : \A m \in Within(toCenter'[y]) :
          m \in Within(toCenter[y]) \/ (m.op = "login" => m.id \in Id)
    BY <2>1, <2>2
  <2>4. \A y \in Conn : /\ Whole(y)' => Whole(y)
                        /\ logicEnd'[y] = "none" => logicEnd[y] = "none"
    BY <1>3 DEF TypeOK, LogicEnter, Whole, centerVars
  <2> QED
    BY <1>1, <1>3, <2>3, <2>4, NameFrame DEF LogicEnter, centerVars, NoneHasNoSelfId
<1>4. ASSUME NEW x \in Conn, owner[x] = n, LogicMsg(x)
      PROVE  NameInv'
  <2> DEFINE m == Head(toLogic[x])
  <2>1. /\ m \in Within(toLogic[x])
        /\ \A y \in Conn : Within(toLogic'[y]) \subseteq Within(toLogic[y])
    BY <1>4, ReceivedWithin DEF LogicMsg
  <2>2. Whole(x) /\ m.op = "selfid" => m.id = mID[x]
    BY <2>1 DEF NameInv, SelfIdIsName
  <2>3. \A y \in Conn : mSelfID'[y] = mSelfID[y] \/ (y = x /\ m.op = "selfid" /\ mSelfID'[y] = m.id)
    BY <1>4 DEF TypeOK, LogicMsg
  <2>4. /\ \A y \in Conn : Whole(y)' => Whole(y)
        /\ logicEnd' = logicEnd /\ logicEnd[x] = "open"
        /\ UNCHANGED <<centerVars, toCenter>>
    BY <1>4 DEF LogicMsg, Whole, centerVars
  <2>5. \A y \in Conn : Whole(y)' => mSelfID'[y] \in {mSelfID[y], mID[y], NoId}
    BY <2>2, <2>3, <2>4
  <2>6. \A y \in Conn : logicEnd'[y] = "none" => mSelfID'[y] = NoId
    BY <1>1, <2>3, <2>4 DEF NoneHasNoSelfId
  <2> HIDE DEF m
  <2> QED
    BY <2>1, <2>4, <2>5, <2>6, NameFrame DEF centerVars
<1>5. ASSUME NEW x \in Conn, owner[x] = n, LogicClose(x) \/ Destroy(x)
      PROVE  NameInv'
  <2>1. /\ \A y \in Conn : Whole(y)' => Whole(y)
        /\ \A y \in Conn : mSelfID'[y] = mSelfID[y] \/ mSelfID'[y] = NoId
        /\ \A y \in Conn : logicEnd'[y] = "none" => mSelfID'[y] = NoId
    BY <1>1, <1>5 DEF TypeOK, LogicClose, Destroy, Whole, centerVars, NoneHasNoSelfId
  <2> QED
    BY <1>5, <2>1, NameFrame DEF LogicClose, Destroy, centerVars
<1>6. CASE LogicCall(n)
  <2>1. /\ gLogicCenterServerClient[n] \in Conn /\ calls'[n] \in Nat
        /\ SendCenter(gLogicCenterServerClient[n], Call(calls'[n]))
    BY <1>6 DEF TypeOK, LogicCall
  <2>2. ASSUME NEW x \in Conn, NEW k \in Nat, SendCenter(x, Call(k))
        PROVE  \A y \in Conn : \A m \in Within(toCenter'[y]) :
                 m \in Within(toCenter[y]) \/ m.op # "login"
    <3>1. Call(k) \in Message /\ Call(k).op # "login"
      BY MessageTypes DEF Call
    <3>2. /\ Within(toCenter'[x]) \subseteq Within(toCenter[x]) \cup {Call(k)}
          /\ \A y \in Conn \ {x} : toCenter'[y] = toCenter[y]
      BY <2>2, <3>1, SendTypes
    <3> QED
      BY <3>1, <3>2
  <2>3. \A y \in Conn : \A m \in Within(toCenter'[y]) :
          m \in Within(toCenter[y]) \/ m.op # "login"
    BY <2>1, <2>2
  <2> QED
    BY <1>1, <1>6, <2>3, NameFrame DEF LogicCall, centerVars, Whole, NoneHasNoSelfId
<1>7. CASE LogicCrash(n)
  <2>1. \A y \in Conn : Within(toLogic'[y]) \subseteq Within(toLogic[y])
    BY <1>7, EmptyWithin DEF LogicCrash
  <2>2. /\ \A y \in Conn : Whole(y)' => Whole(y)
        /\ \A y \in Conn : mSelfID'[y] = mSelfID[y] \/ mSelfID'[y] = NoId
        /\ \A y \in Conn : logicEnd'[y] = "none" => mSelfID'[y] = NoId
    BY <1>1, <1>7 DEF LogicCrash, Whole, centerVars, NoneHasNoSelfId
  <2> QED
    BY <1>7, <2>1, <2>2, NameFrame DEF LogicCrash, centerVars
<1>8. CASE LogicStart(n)
  BY <1>1, <1>8, NameFrame DEF LogicStart, centerVars, Whole, NoneHasNoSelfId
<1> QED
  BY <1>2, <1>3, <1>4, <1>5, <1>6, <1>7, <1>8 DEF LogicStep

\* The steps in which the center answers, accepts a connection or starts.
LEMMA AnswerName ==
  ASSUME TypeOK, NameInv,
         \/ \E x \in Conn : CenterEnter(x) \/ CenterRpc(x)
         \/ \E r \in asyncReplies : AsyncReply(r)
         \/ CenterStart
  PROVE  NameInv'
<1>1. NoneHasNoSelfId
  BY DEF NameInv
<1>2. ASSUME NEW x \in Conn, CenterEnter(x)
      PROVE  NameInv'
  <2>1. \A y \in Conn : /\ Whole(y)' => Whole(y)
                        /\ \/ centerEnd'[y] = centerEnd[y]
                           \/ centerEnd[y] = "new" /\ centerEnd'[y] = "open"
    BY <1>2 DEF TypeOK, CenterEnter, Whole, logicVars
  <2> QED
    BY <1>1, <1>2, <2>1, NameFrame DEF CenterEnter, logicVars, NoneHasNoSelfId
<1>3. ASSUME NEW x \in Conn, NEW k \in Nat, toLogic' = toLogic \/ SendLogic(x, Reply(k))
      PROVE  \A y \in Conn : \A m \in Within(toLogic'[y]) :
               m \in Within(toLogic[y]) \/ m.op # "selfid"
  <2>1. Reply(k) \in Message /\ Reply(k).op # "selfid"
    BY MessageTypes DEF Reply
  <2>2. CASE SendLogic(x, Reply(k))
    <3>1. /\ Within(toLogic'[x]) \subseteq Within(toLogic[x]) \cup {Reply(k)}
          /\ \A y \in Conn \ {x} : toLogic'[y] = toLogic[y]
      BY <2>1, <2>2, SendTypes
    <3> QED
      BY <2>1, <3>1
  <2> QED
    BY <1>3, <2>2
<1>4. ASSUME NEW x \in Conn, CenterRpc(x)
      PROVE  NameInv'
  <2> DEFINE k == Head(toCenter[x]).n
  <2>1. toLogic' = toLogic \/ SendLogic(x, Reply(k))
    BY <1>4 DEF CenterRpc
  <2>2. k \in Nat
    <3>1. toCenter[x] \in Seq(Message) /\ toCenter[x] # <<>>
      BY <1>4 DEF TypeOK, CenterRpc, CenterRecv
    <3> QED
      BY <3>1, TailWithin DEF Message
  <2>3. \A y \in Conn : \A m \in Within(toLogic'[y]) :
          m \in Within(toLogic[y]) \/ m.op # "selfid"
    BY <1>3, <2>1, <2>2
  <2>4. \A y \in Conn : Within(toCenter'[y]) \subseteq Within(toCenter[y])
    BY <1>4, ReceivedWithin DEF CenterRpc
  <2> HIDE DEF k
  <2> QED
    BY <1>1, <1>4, <2>3, <2>4, NameFrame DEF CenterRpc, logicVars, Whole, NoneHasNoSelfId
<1>5. ASSUME NEW r \in asyncReplies, AsyncReply(r)
      PROVE  NameInv'
  <2>1. r.caller \in Conn /\ r.n \in Nat
    BY DEF TypeOK
  <2>2. \A y \in Conn : \A m \in Within(toLogic'[y]) :
          m \in Within(toLogic[y]) \/ m.op # "selfid"
    BY <1>3, <1>5, <2>1 DEF AsyncReply
  <2> QED
    BY <1>1, <1>5, <2>2, NameFrame DEF AsyncReply, logicVars, Whole, NoneHasNoSelfId
<1>6. CASE CenterStart
  BY <1>1, <1>6, NameFrame DEF CenterStart, logicVars, Whole, NoneHasNoSelfId
<1> QED
  BY <1>2, <1>4, <1>5, <1>6

\* ... when one connects, ...
LEMMA ConnectName ==
  ASSUME TypeOK, NameInv, NEW n \in Server, NEW x \in Conn, Connect(n, x)
  PROVE  NameInv'
<1>1. /\ centerEnd'[x] = "new" /\ logicEnd'[x] = "new" /\ mID'[x] = NoId
      /\ toCenter'[x] = <<>> /\ toLogic'[x] = <<>>
      /\ mSelfID' = mSelfID /\ mSelfID[x] = NoId /\ sAllLogicServer' = sAllLogicServer
  BY DEF TypeOK, Connect, NameInv, NoneHasNoSelfId
<1>2. \A y \in Conn \ {x} :
        /\ centerEnd'[y] = centerEnd[y] /\ logicEnd'[y] = logicEnd[y] /\ mID'[y] = mID[y]
        /\ toCenter'[y] = toCenter[y] /\ toLogic'[y] = toLogic[y]
  BY DEF TypeOK, Connect
<1>3. LoginNamesId'
  BY <1>1, <1>2, EmptyWithin DEF NameInv, LoginNamesId
<1>4. NameIsRegistered' /\ NewHasNoName' /\ NoneHasNoSelfId'
  BY <1>1, <1>2 DEF NameInv, NameIsRegistered, NewHasNoName, NoneHasNoSelfId
<1>5. SelfIdIsName'
  BY <1>1, <1>2, EmptyWithin DEF NameInv, SelfIdIsName, Whole
<1> QED
  BY <1>3, <1>4, <1>5 DEF NameInv

\* A session that logs in has no ID, and its ID has no session.
LEMMA LoginName ==
  ASSUME TypeOK, NameInv, NEW x \in Conn, CenterLogin(x)
  PROVE  NameInv'
<1> DEFINE id == Head(toCenter[x]).id
<1>1. /\ Head(toCenter[x]) \in Within(toCenter[x])
      /\ \A y \in Conn : Within(toCenter'[y]) \subseteq Within(toCenter[y])
  BY ReceivedWithin DEF CenterLogin
<1>2. id \in Id /\ id # NoId
  BY <1>1, ConstantsAssumption DEF CenterLogin, CenterRecv, NameInv, LoginNamesId
<1>3. /\ UNCHANGED <<centerEnd, logicEnd, mSelfID>>
      /\ centerEnd[x] = "open"
  BY DEF CenterLogin, CenterRecv, logicVars
<1>4. NoneHasNoSelfId' /\ LoginNamesId'
  BY <1>1, <1>3 DEF NameInv, NoneHasNoSelfId, LoginNamesId
<1>5. CASE mID' = mID /\ sAllLogicServer' = sAllLogicServer /\ toLogic' = toLogic
  <2>1. NameIsRegistered' /\ NewHasNoName' /\ SelfIdIsName'
    BY <1>3, <1>5 DEF NameInv, NameIsRegistered, NewHasNoName, SelfIdIsName, Whole
  <2> QED
    BY <1>4, <2>1 DEF NameInv
<1>6. CASE /\ mID[x] = NoId /\ sAllLogicServer[id] = Nil
           /\ mID' = [mID EXCEPT ![x] = id]
           /\ SendLogic(x, SelfId(id))
           /\ sAllLogicServer' = [sAllLogicServer EXCEPT ![id] = x]
  <2> HIDE DEF id
  <2>1. /\ mID'[x] = id /\ sAllLogicServer'[id] = x
        /\ \A y \in Conn \ {x} : mID'[y] = mID[y]
        /\ \A i \in Id \ {id} : sAllLogicServer'[i] = sAllLogicServer[i]
    BY <1>2, <1>6 DEF TypeOK
  <2>2. \A y \in Conn : centerEnd[y] = "open" /\ mID[y] # NoId => mID[y] # id
    BY <1>6, ConstantsAssumption DEF NameInv, NameIsRegistered
  <2>3. NameIsRegistered'
    BY <1>2, <1>3, <2>1, <2>2 DEF NameInv, NameIsRegistered
  <2>4. NewHasNoName'
    BY <1>3, <2>1 DEF NameInv, NewHasNoName
  <2>5. SelfId(id) \in Message /\ SelfId(id).id = id
    BY <1>2, MessageTypes DEF SelfId
  <2>6. /\ Within(toLogic'[x]) \subseteq Within(toLogic[x]) \cup {SelfId(id)}
        /\ \A y \in Conn \ {x} : toLogic'[y] = toLogic[y]
    BY <1>6, <2>5, SendTypes
  <2>7. SelfIdIsName'
    <3>1. ASSUME Whole(x)
          PROVE  /\ mSelfID[x] = NoId
                 /\ \A m \in Within(toLogic[x]) : m.op # "selfid"
      BY <1>6, <3>1 DEF NameInv, SelfIdIsName
    <3>2. Whole(x)' => /\ mSelfID'[x] # NoId => mSelfID'[x] = mID'[x]
                       /\ \A m \in Within(toLogic'[x]) :
                            m.op = "selfid" => m.id # NoId /\ m.id = mID'[x]
      BY <1>2, <1>3, <2>1, <2>5, <2>6, <3>1 DEF Whole
    <3>3. \A y \in Conn \ {x} : Whole(y)' =>
            /\ mSelfID'[y] # NoId => mSelfID'[y] = mID'[y]
            /\ \A m \in Within(toLogic'[y]) :
                 m.op = "selfid" => m.id # NoId /\ m.id = mID'[y]
      BY <1>3, <2>1, <2>6 DEF NameInv, SelfIdIsName, Whole
    <3> QED
      BY <3>2, <3>3 DEF SelfIdIsName
  <2> QED
    BY <1>4, <2>3, <2>4, <2>7 DEF NameInv
<1> QED
  BY <1>5, <1>6 DEF CenterLogin

\* A session that closes frees its own ID, which no other session has.
LEMMA EndName ==
  ASSUME TypeOK, NameInv,
         (\E x \in Conn : CenterClose(x) \/ Break(x)) \/ CenterCrash
  PROVE  NameInv'
<1>1. ASSUME NEW x \in Conn, CenterClose(x)
      PROVE  NameInv'
  <2>1. /\ UNCHANGED <<mID, mSelfID, logicEnd, toCenter, toLogic>>
        /\ centerEnd[x] = "open" /\ centerEnd'[x] = "none"
        /\ \A y \in Conn \ {x} : centerEnd'[y] = centerEnd[y]
    BY <1>1 DEF TypeOK, CenterClose, logicVars
  <2>2. \A y \in Conn \ {x} : centerEnd[y] = "open" /\ mID[y] # NoId =>
          mID[y] \in Id /\ sAllLogicServer'[mID[y]] = sAllLogicServer[mID[y]]
    BY <1>1, <2>1 DEF TypeOK, CenterClose, NameInv, NameIsRegistered
  <2>3. NameIsRegistered'
    BY <2>1, <2>2 DEF NameInv, NameIsRegistered
  <2>4. LoginNamesId' /\ NewHasNoName' /\ SelfIdIsName' /\ NoneHasNoSelfId'
    BY <2>1 DEF NameInv, LoginNamesId, NewHasNoName, SelfIdIsName, NoneHasNoSelfId, Whole
  <2> QED
    BY <2>3, <2>4 DEF NameInv
<1>2. ASSUME NEW x \in Conn, Break(x)
      PROVE  NameInv'
  <2>1. \A y \in Conn : /\ Within(toLogic'[y]) \subseteq Within(toLogic[y])
                        /\ Within(toCenter'[y]) \subseteq Within(toCenter[y])
    BY <1>2, ReceivedWithin
  <2>2. /\ UNCHANGED <<centerVars, logicVars>>
        /\ NoneHasNoSelfId
    BY <1>2 DEF Break, NameInv
  <2> QED
    BY <2>1, <2>2, NameFrame DEF centerVars, logicVars, Whole, NoneHasNoSelfId
<1>3. CASE CenterCrash
  <2>1. /\ \A x \in Conn : centerEnd'[x] = "none" /\ toCenter'[x] = <<>>
        /\ mSelfID' = mSelfID /\ logicEnd' = logicEnd
    BY <1>3 DEF CenterCrash, logicVars
  <2>2. LoginNamesId' /\ NameIsRegistered' /\ NewHasNoName' /\ SelfIdIsName'
    BY <2>1, EmptyWithin DEF LoginNamesId, NameIsRegistered, NewHasNoName, SelfIdIsName, Whole
  <2>3. NoneHasNoSelfId'
    BY <2>1 DEF NameInv, NoneHasNoSelfId
  <2> QED
    BY <2>2, <2>3 DEF NameInv
<1> QED
  BY <1>1, <1>2, <1>3

\* ... and by every step.
LEMMA NextName ==
  ASSUME TypeOK, NameInv, [Next]_vars
  PROVE  NameInv'
<1>1. CASE UNCHANGED vars
  BY <1>1 DEF NameInv, LoginNamesId, NameIsRegistered, NewHasNoName, SelfIdIsName,
              NoneHasNoSelfId, Whole, vars, centerVars, logicVars
<1>2. CASE Next
  BY <1>2, LogicName, AnswerName, ConnectName, LoginName, EndName
  DEF Next, ConnectSome, CenterStep
<1> QED
  BY <1>1, <1>2

\* A logic server that was told its ID (CenterServerConnection.cpp:90) is the one the
\* center has registered under it, until one end learns that the connection broke.
THEOREM NameCorrect == Spec => []SelfIdIsRegistered
<1>1. TypeOK /\ NameInv /\ [Next]_vars => NameInv'
  BY NextName
<1>2. TypeOK /\ NameInv => SelfIdIsRegistered
  BY DEF NameInv, SelfIdIsName, NameIsRegistered, Whole, SelfIdIsRegistered
<1> QED
  BY <1>1, <1>2, InitName, TypeCorrect, PTL DEF Spec

(***************************************************************************)
(* Calls and replies                                                       *)
(***************************************************************************)

\* The numbers of the messages of kind op in s.
Numbers(s, op) == {s[i].n : i \in {j \in DOMAIN s : s[j].op = op}}

\* No two messages of kind op in s have one number.
Once(s, op) ==
  \A i, j \in DOMAIN s : s[i].op = op /\ s[j].op = op /\ s[i].n = s[j].n => i = j

\* A message that is sent adds its own number, ...
LEMMA AppendNumbers ==
  ASSUME NEW s \in Seq(Message), NEW m \in Message, NEW op
  PROVE  /\ Numbers(Append(s, m), op) \subseteq Numbers(s, op) \cup {m.n}
         /\ m.op # op => Numbers(Append(s, m), op) \subseteq Numbers(s, op)
         /\ Once(s, op) /\ (m.op # op \/ m.n \notin Numbers(s, op)) => Once(Append(s, m), op)
<1>1. /\ DOMAIN s = 1 .. Len(s) /\ Len(s) \in Nat
      /\ DOMAIN Append(s, m) = 1 .. Len(s) + 1
      /\ \A i \in 1 .. Len(s) : Append(s, m)[i] = s[i]
      /\ Append(s, m)[Len(s) + 1] = m
  OBVIOUS
<1> DEFINE t == Append(s, m)
<1>2. \A i \in DOMAIN t : (i \in DOMAIN s /\ t[i] = s[i]) \/ (i = Len(s) + 1 /\ t[i] = m)
  BY <1>1
<1> HIDE DEF t
<1>3. /\ Numbers(t, op) \subseteq Numbers(s, op) \cup {m.n}
      /\ m.op # op => Numbers(t, op) \subseteq Numbers(s, op)
  BY <1>2 DEF Numbers
<1>4. ASSUME Once(s, op), m.op # op \/ m.n \notin Numbers(s, op)
      PROVE  Once(t, op)
  <2>1. \A i \in DOMAIN s : s[i].op = op => s[i].n \in Numbers(s, op)
    BY DEF Numbers
  <2> QED
    BY <1>2, <1>4, <2>1 DEF Once
<1> QED
  BY <1>3, <1>4 DEF t

\* ... one that is received takes its number along, ...
LEMMA TailNumbers ==
  ASSUME NEW s \in Seq(Message), s # <<>>, NEW op
  PROVE  /\ Numbers(Tail(s), op) \subseteq Numbers(s, op)
         /\ Once(s, op) => Once(Tail(s), op)
         /\ Head(s).op = op => Head(s).n \in Numbers(s, op)
         /\ Head(s).op = op /\ Once(s, op) => Head(s).n \notin Numbers(Tail(s), op)
<1> DEFINE t == Tail(s)
<1>1. /\ Len(s) \in Nat /\ Len(s) > 0 /\ DOMAIN s = 1 .. Len(s)
      /\ Head(s) = s[1] /\ DOMAIN t = 1 .. Len(s) - 1
      /\ \A i \in 1 .. Len(s) - 1 : t[i] = s[i + 1]
  OBVIOUS
<1> HIDE DEF t
<1>2. \A i \in DOMAIN t : i \in Nat /\ i > 0 /\ i + 1 \in DOMAIN s /\ t[i] = s[i + 1]
  BY <1>1
<1>3. Numbers(t, op) \subseteq Numbers(s, op)
  BY <1>2 DEF Numbers
<1>4. ASSUME Once(s, op)
      PROVE  Once(t, op)
  <2> SUFFICES ASSUME NEW i \in DOMAIN t, NEW j \in DOMAIN t,
                      t[i].op = op, t[j].op = op, t[i].n = t[j].n
               PROVE  i = j
    BY DEF Once
  <2>1. i + 1 = j + 1
    BY <1>2, <1>4 DEF Once
  <2> QED
    BY <1>2, <2>1
<1>5. 1 \in DOMAIN s /\ Head(s) = s[1]
  BY <1>1
<1>6. Head(s).op = op => Head(s).n \in Numbers(s, op)
  BY <1>5 DEF Numbers
<1>7. ASSUME Head(s).op = op, Once(s, op), Head(s).n \in Numbers(t, op)
      PROVE  FALSE
  <2>1. PICK i \in DOMAIN t : t[i].op = op /\ t[i].n = s[1].n
    BY <1>5, <1>7 DEF Numbers
  <2>2. i + 1 = 1
    BY <1>2, <1>5, <1>7, <2>1 DEF Once
  <2> QED
    BY <1>2, <2>2
<1> QED
  BY <1>3, <1>4, <1>6, <1>7 DEF t

\* ... and a connection that breaks adds none.
LEMMA PrefixNumbers ==
  ASSUME NEW s \in Seq(Message), NEW t \in Prefixes(s), NEW op
  PROVE  /\ Numbers(t, op) \subseteq Numbers(s, op)
         /\ Once(s, op) => Once(t, op)
<1>1. PICK k \in 0 .. Len(s) : t = SubSeq(s, 1, k)
  BY DEF Prefixes
<1>2. /\ DOMAIN t = 1 .. k /\ DOMAIN s = 1 .. Len(s)
      /\ k <= Len(s) /\ Len(s) \in Nat
      /\ \A i \in 1 .. k : t[i] = s[i]
  BY <1>1
<1>3. \A i \in DOMAIN t : i \in DOMAIN s /\ t[i] = s[i]
  BY <1>2
<1> QED
  BY <1>3 DEF Numbers, Once

\* An empty connection carries no numbers, and then none of them twice.
LEMMA EmptyNumbers ==
  /\ \A op : Numbers(<<>>, op) = {}
  /\ \A s, op : Numbers(s, op) = {} => Once(s, op)
BY DEF Numbers, Once

\* The calls of x's logic server on their way to the center, those whose handlers
\* answer later, and those whose replies are on their way back.
Asked(x) == Numbers(toCenter[x], "call")
Kept(x) == {r.n : r \in {q \in asyncReplies : q.caller = x}}
Answered(x) == Numbers(toLogic[x], "reply")

\* What is under way on x is a call its logic server waits for, in one place only.
Owed(x) ==
  /\ Asked(x) \subseteq pendingCalls[owner[x]]
  /\ Kept(x) \subseteq pendingCalls[owner[x]]
  /\ Answered(x) \subseteq pendingCalls[owner[x]]
  /\ \A k \in Asked(x) : k \notin Kept(x) /\ k \notin Answered(x)
  /\ \A k \in Kept(x) : k \notin Answered(x)
  /\ Once(toCenter[x], "call")
  /\ Once(toLogic[x], "reply")

CallState(x) ==
  /\ logicEnd[x] = "new" => Asked(x) = {} /\ Kept(x) = {} /\ Answered(x) = {}
  /\ logicEnd[x] = "open" => Owed(x)

\* A server waits for calls it made; its next call has a new number.
CallsMade == \A n \in Server : \A k \in pendingCalls[n] : k <= calls[n]

CallInv == (\A x \in Conn : CallState(x)) /\ CallsMade

\* CallInv holds at the start, ...
LEMMA InitCall == Init => CallInv
BY DEF Init, CallInv, CallState, CallsMade

\* A step after which no more is under way on x, and no less is waited for.
LEMMA CallFrame ==
  ASSUME NEW x \in Conn, CallState(x),
         Asked(x)' \subseteq Asked(x), Kept(x)' \subseteq Kept(x),
         Answered(x)' \subseteq Answered(x),
         Once(toCenter[x], "call") => Once(toCenter'[x], "call"),
         Once(toLogic[x], "reply") => Once(toLogic'[x], "reply"),
         \/ logicEnd'[x] = logicEnd[x]
         \/ logicEnd[x] = "new" /\ logicEnd'[x] = "open"
         \/ logicEnd'[x] \in {"closed", "none"},
         logicEnd'[x] = "open" =>
            /\ owner'[x] = owner[x]
            /\ pendingCalls[owner[x]] \subseteq pendingCalls'[owner[x]]
  PROVE  CallState(x)'
<1>1. CASE logicEnd[x] = "new"
  <2>1. Asked(x)' = {} /\ Kept(x)' = {} /\ Answered(x)' = {}
    BY <1>1 DEF CallState
  <2>2. Once(toCenter'[x], "call") /\ Once(toLogic'[x], "reply")
    BY <2>1, EmptyNumbers DEF Asked, Answered
  <2> QED
    BY <2>1, <2>2 DEF CallState, Owed
<1>2. CASE logicEnd'[x] = "open" /\ logicEnd[x] = "open"
  <2>1. Owed(x)
    BY <1>2 DEF CallState
  <2>2. Owed(x)'
    BY <1>2, <2>1 DEF Owed
  <2> QED
    BY <1>2, <2>2 DEF CallState
<1>3. CASE logicEnd'[x] \in {"closed", "none"}
  BY <1>3 DEF CallState
<1> QED
  BY <1>1, <1>2, <1>3 DEF CallState

\* What send() and the receivers do to the numbers under way.
LEMMA SendNumbers ==
  ASSUME TypeOK, NEW x \in Conn, NEW m \in Message, NEW op
  PROVE  /\ SendCenter(x, m) =>
              /\ Numbers(toCenter'[x], op) \subseteq Numbers(toCenter[x], op) \cup {m.n}
              /\ m.op # op => Numbers(toCenter'[x], op) \subseteq Numbers(toCenter[x], op)
              /\ Once(toCenter[x], op) /\ (m.op # op \/ m.n \notin Numbers(toCenter[x], op))
                   => Once(toCenter'[x], op)
              /\ \A y \in Conn \ {x} : toCenter'[y] = toCenter[y]
         /\ SendLogic(x, m) =>
              /\ Numbers(toLogic'[x], op) \subseteq Numbers(toLogic[x], op) \cup {m.n}
              /\ m.op # op => Numbers(toLogic'[x], op) \subseteq Numbers(toLogic[x], op)
              /\ Once(toLogic[x], op) /\ (m.op # op \/ m.n \notin Numbers(toLogic[x], op))
                   => Once(toLogic'[x], op)
              /\ \A y \in Conn \ {x} : toLogic'[y] = toLogic[y]
<1>1. toCenter[x] \in Seq(Message) /\ toLogic[x] \in Seq(Message)
  BY DEF TypeOK
<1>2. SendCenter(x, m) =>
        /\ toCenter'[x] = toCenter[x] \/ toCenter'[x] = Append(toCenter[x], m)
        /\ \A y \in Conn \ {x} : toCenter'[y] = toCenter[y]
  BY DEF SendCenter, TypeOK
<1>3. SendLogic(x, m) =>
        /\ toLogic'[x] = toLogic[x] \/ toLogic'[x] = Append(toLogic[x], m)
        /\ \A y \in Conn \ {x} : toLogic'[y] = toLogic[y]
  BY DEF SendLogic, TypeOK
<1>4. \A s \in Seq(Message) :
        /\ Numbers(Append(s, m), op) \subseteq Numbers(s, op) \cup {m.n}
        /\ m.op # op => Numbers(Append(s, m), op) \subseteq Numbers(s, op)
        /\ Once(s, op) /\ (m.op # op \/ m.n \notin Numbers(s, op)) => Once(Append(s, m), op)
  BY AppendNumbers
<1> QED
  BY <1>1, <1>2, <1>3, <1>4

\* What either end receives was on the connection, and what is left there was
\* too.
LEMMA ReceiveNumbers ==
  ASSUME TypeOK, NEW x \in Conn, NEW op
  PROVE  /\ CenterRecv(x, op) =>
              /\ Head(toCenter[x]) \in Message
              /\ Numbers(toCenter'[x], "call") \subseteq Numbers(toCenter[x], "call")
              /\ Once(toCenter[x], "call") => Once(toCenter'[x], "call")
              /\ op = "call" => Head(toCenter[x]).n \in Numbers(toCenter[x], "call")
              /\ op = "call" /\ Once(toCenter[x], "call")
                   => Head(toCenter[x]).n \notin Numbers(toCenter'[x], "call")
              /\ \A y \in Conn \ {x} : toCenter'[y] = toCenter[y]
         /\ LogicMsg(x) =>
              /\ Head(toLogic[x]) \in Message
              /\ Numbers(toLogic'[x], "reply") \subseteq Numbers(toLogic[x], "reply")
              /\ Once(toLogic[x], "reply") => Once(toLogic'[x], "reply")
              /\ Head(toLogic[x]).op = "reply" =>
                   Head(toLogic[x]).n \in Numbers(toLogic[x], "reply")
              /\ Head(toLogic[x]).op = "reply" /\ Once(toLogic[x], "reply")
                   => Head(toLogic[x]).n \notin Numbers(toLogic'[x], "reply")
              /\ \A y \in Conn \ {x} : toLogic'[y] = toLogic[y]
<1>1. toCenter[x] \in Seq(Message) /\ toLogic[x] \in Seq(Message)
  BY DEF TypeOK
<1>2. CenterRecv(x, op) =>
        /\ toCenter[x] # <<>> /\ Head(toCenter[x]).op = op
        /\ toCenter'[x] = Tail(toCenter[x])
        /\ \A y \in Conn \ {x} : toCenter'[y] = toCenter[y]
  BY DEF CenterRecv, TypeOK
<1>3. LogicMsg(x) =>
        /\ toLogic[x] # <<>>
        /\ toLogic'[x] = Tail(toLogic[x])
        /\ \A y \in Conn \ {x} : toLogic'[y] = toLogic[y]
  BY DEF LogicMsg, TypeOK
<1>4. CenterRecv(x, op) => Head(toCenter[x]) \in Message
  BY <1>1, <1>2, TailWithin
<1>5. LogicMsg(x) => Head(toLogic[x]) \in Message
  BY <1>1, <1>3, TailWithin
<1> QED
  BY <1>1, <1>2, <1>3, <1>4, <1>5, TailNumbers

\* The connection breaks, or one is made on which nothing is under way.
LEMMA WireCall ==
  ASSUME TypeOK, CallInv, NEW x \in Conn,
         Break(x) \/ \E n \in Server : Connect(n, x)
  PROVE  CallInv'
<1>1. CASE Break(x)
  <2>1. UNCHANGED <<asyncReplies, pendingCalls, calls, logicEnd, owner>>
    BY <1>1 DEF Break, centerVars, logicVars
  <2>2. PICK s \in Prefixes(toCenter[x]) : toCenter' = [toCenter EXCEPT ![x] = s]
    BY <1>1 DEF Break
  <2>3. PICK t \in Prefixes(toLogic[x]) : toLogic' = [toLogic EXCEPT ![x] = t]
    BY <1>1 DEF Break
  <2>4. /\ toCenter'[x] = s /\ toLogic'[x] = t
        /\ \A y \in Conn \ {x} : toCenter'[y] = toCenter[y] /\ toLogic'[y] = toLogic[y]
    BY <2>2, <2>3 DEF TypeOK
  <2>5. /\ Numbers(s, "call") \subseteq Numbers(toCenter[x], "call")
        /\ Once(toCenter[x], "call") => Once(s, "call")
        /\ Numbers(t, "reply") \subseteq Numbers(toLogic[x], "reply")
        /\ Once(toLogic[x], "reply") => Once(t, "reply")
    BY PrefixNumbers DEF TypeOK
  <2>6. \A y \in Conn : CallState(y)'
    <3> TAKE y \in Conn
    <3>1. /\ Asked(y)' \subseteq Asked(y) /\ Kept(y)' \subseteq Kept(y)
          /\ Answered(y)' \subseteq Answered(y)
          /\ Once(toCenter[y], "call") => Once(toCenter'[y], "call")
          /\ Once(toLogic[y], "reply") => Once(toLogic'[y], "reply")
      BY <2>1, <2>4, <2>5 DEF Asked, Kept, Answered
    <3> QED
      BY <2>1, <3>1, CallFrame DEF CallInv
  <2> QED
    BY <2>1, <2>6 DEF CallInv, CallsMade
<1>2. ASSUME NEW n \in Server, Connect(n, x)
      PROVE  CallInv'
  <2>1. /\ UNCHANGED <<asyncReplies, pendingCalls, calls>>
        /\ \A r \in asyncReplies : r.caller # x
    BY <1>2 DEF Connect
  <2>2. /\ logicEnd'[x] = "new" /\ toCenter'[x] = <<>> /\ toLogic'[x] = <<>>
        /\ \A y \in Conn \ {x} :
             /\ logicEnd'[y] = logicEnd[y] /\ owner'[y] = owner[y]
             /\ toCenter'[y] = toCenter[y] /\ toLogic'[y] = toLogic[y]
    BY <1>2 DEF Connect, TypeOK
  <2>3. CallState(x)'
    BY <2>1, <2>2, EmptyNumbers DEF CallState, Asked, Kept, Answered
  <2>4. \A y \in Conn \ {x} : CallState(y)'
    <3> TAKE y \in Conn \ {x}
    <3>1. /\ Asked(y)' = Asked(y) /\ Kept(y)' = Kept(y) /\ Answered(y)' = Answered(y)
      BY <2>1, <2>2 DEF Asked, Kept, Answered
    <3> QED
      BY <2>1, <2>2, <3>1, CallFrame DEF CallInv
  <2> QED
    BY <2>1, <2>3, <2>4 DEF CallInv, CallsMade
<1> QED
  BY <1>1, <1>2

\* A step of a logic server that sends no call and takes no reply.
LEMMA QuietCall ==
  ASSUME TypeOK, CallInv, NEW n \in Server,
         \/ Reconnect(n) \/ LogicStart(n) \/ LogicCrash(n)
         \/ \E x \in Conn : owner[x] = n /\ (LogicEnter(x) \/ LogicClose(x) \/ Destroy(x))
  PROVE  CallInv'
<1>1. UNCHANGED <<asyncReplies, calls, owner>>
  BY DEF Reconnect, LogicStart, LogicCrash, LogicEnter, LogicClose, Destroy, centerVars
<1>2. \A m \in Server : pendingCalls'[m] = pendingCalls[m] \/ pendingCalls'[m] = {}
  BY DEF Reconnect, LogicStart, LogicCrash, LogicEnter, LogicClose, Destroy, TypeOK
<1>3. \A y \in Conn :
        \/ logicEnd'[y] = logicEnd[y]
        \/ logicEnd[y] = "new" /\ logicEnd'[y] = "open"
        \/ logicEnd'[y] \in {"closed", "none"}
  BY DEF Reconnect, LogicStart, LogicCrash, LogicEnter, LogicClose, Destroy, TypeOK
<1>4. \A y \in Conn : logicEnd'[y] = "open" => pendingCalls'[owner[y]] = pendingCalls[owner[y]]
  <2>1. CASE LogicCrash(n)
    <3>1. \A y \in Conn : logicEnd'[y] = "open" => owner[y] # n
      BY <2>1 DEF LogicCrash, Own
    <3> QED
      BY <2>1, <3>1 DEF LogicCrash, TypeOK
  <2> QED
    BY <2>1 DEF Reconnect, LogicStart, LogicEnter, LogicClose, Destroy
<1>5. \A y \in Conn : toLogic'[y] = toLogic[y] \/ toLogic'[y] = <<>>
  BY DEF Reconnect, LogicStart, LogicCrash, LogicEnter, LogicClose, Destroy
<1>6. \A y \in Conn :
        /\ Numbers(toCenter'[y], "call") \subseteq Numbers(toCenter[y], "call")
        /\ Once(toCenter[y], "call") => Once(toCenter'[y], "call")
  <2>1. ASSUME NEW x \in Conn, owner[x] = n, LogicEnter(x)
        PROVE  \A y \in Conn :
                 /\ Numbers(toCenter'[y], "call") \subseteq Numbers(toCenter[y], "call")
                 /\ Once(toCenter[y], "call") => Once(toCenter'[y], "call")
    <3>1. /\ Login(IdOf[n]) \in Message /\ Login(IdOf[n]).op # "call"
          /\ SendCenter(x, Login(IdOf[n]))
      BY <2>1, ConstantsAssumption, MessageTypes DEF LogicEnter, Login
    <3>2. /\ Numbers(toCenter'[x], "call") \subseteq Numbers(toCenter[x], "call")
          /\ Once(toCenter[x], "call") => Once(toCenter'[x], "call")
          /\ \A y \in Conn \ {x} : toCenter'[y] = toCenter[y]
      BY <3>1, SendNumbers
    <3> QED
      BY <3>2
  <2>2. CASE toCenter' = toCenter
    BY <2>2
  <2> QED
    BY <2>1, <2>2 DEF Reconnect, LogicStart, LogicCrash, LogicClose, Destroy
<1>7. \A y \in Conn : CallState(y)'
  <2> TAKE y \in Conn
  <2>1. /\ Asked(y)' \subseteq Asked(y) /\ Kept(y)' \subseteq Kept(y)
        /\ Answered(y)' \subseteq Answered(y)
        /\ Once(toLogic[y], "reply") => Once(toLogic'[y], "reply")
    BY <1>1, <1>5, <1>6, EmptyNumbers DEF Asked, Kept, Answered
  <2> QED
    BY <1>1, <1>3, <1>4, <1>6, <2>1, CallFrame DEF CallInv
<1>8. CallsMade'
  BY <1>1, <1>2 DEF CallInv, CallsMade
<1> QED
  BY <1>7, <1>8 DEF CallInv

\* The callback of a reply runs: nothing else on x had the number of its call, and
\* no other connection of the server is open.
LEMMA ReplyCall ==
  ASSUME TypeOK, LinkInv, CallInv, NEW x \in Conn, LogicMsg(x)
  PROVE  CallInv'
<1> DEFINE m == Head(toLogic[x])
<1>1. /\ UNCHANGED <<asyncReplies, calls, logicEnd, owner, toCenter>>
      /\ logicEnd[x] = "open" /\ owner[x] \in Server
  BY DEF LogicMsg, centerVars, LinkInv
<1>2. /\ Numbers(toLogic'[x], "reply") \subseteq Numbers(toLogic[x], "reply")
      /\ Once(toLogic[x], "reply") => Once(toLogic'[x], "reply")
      /\ m.op = "reply" => m.n \in Numbers(toLogic[x], "reply")
      /\ m.op = "reply" /\ Once(toLogic[x], "reply") => m.n \notin Numbers(toLogic'[x], "reply")
      /\ \A y \in Conn \ {x} : toLogic'[y] = toLogic[y]
  BY ReceiveNumbers
<1>3. /\ m.op = "reply" => pendingCalls'[owner[x]] = pendingCalls[owner[x]] \ {m.n}
      /\ m.op # "reply" => pendingCalls'[owner[x]] = pendingCalls[owner[x]]
      /\ \A l \in Server \ {owner[x]} : pendingCalls'[l] = pendingCalls[l]
  BY <1>1 DEF LogicMsg, TypeOK
<1> HIDE DEF m
<1>4. Owed(x)
  BY <1>1 DEF CallInv, CallState
<1>5. Asked(x)' = Asked(x) /\ Kept(x)' = Kept(x) /\ Answered(x)' \subseteq Answered(x)
  BY <1>1, <1>2 DEF Asked, Kept, Answered
<1>6. m.op = "reply" => m.n \in Answered(x) /\ m.n \notin Answered(x)'
  BY <1>2, <1>4 DEF Owed, Answered
<1>7. Owed(x)'
  <2>1. CASE m.op = "reply"
    <3>1. m.n \notin Asked(x)' /\ m.n \notin Kept(x)' /\ m.n \notin Answered(x)'
      BY <1>4, <1>5, <1>6, <2>1 DEF Owed
    <3> QED
      BY <1>1, <1>2, <1>3, <1>4, <1>5, <2>1, <3>1 DEF Owed
  <2>2. CASE m.op # "reply"
    BY <1>1, <1>2, <1>3, <1>4, <1>5, <2>2 DEF Owed
  <2> QED
    BY <2>1, <2>2
<1>8. \A y \in Conn \ {x} : CallState(y)'
  <2> TAKE y \in Conn \ {x}
  <2>1. logicEnd[y] = "open" => owner[y] \in Server /\ owner[y] # owner[x]
    BY <1>1 DEF LinkInv, Own
  <2>2. Asked(y)' = Asked(y) /\ Kept(y)' = Kept(y) /\ Answered(y)' = Answered(y)
    BY <1>1, <1>2 DEF Asked, Kept, Answered
  <2> QED
    BY <1>1, <1>2, <1>3, <2>1, <2>2, CallFrame DEF CallInv
<1>9. CallState(x)'
  BY <1>1, <1>7 DEF CallState
<1>10. CallsMade'
  <2>1. \A l \in Server : pendingCalls'[l] \subseteq pendingCalls[l]
    BY <1>1, <1>3
  <2> QED
    BY <1>1, <2>1 DEF CallInv, CallsMade
<1> QED
  BY <1>8, <1>9, <1>10 DEF CallInv

\* A call goes out on the open connection of its server, with a number none had.
LEMMA AskCall ==
  ASSUME TypeOK, LinkInv, PointerIsOpen, CallInv, NEW n \in Server, LogicCall(n)
  PROVE  CallInv'
<1> DEFINE k == calls[n] + 1
<1>1. UNCHANGED <<asyncReplies, logicEnd, owner, toLogic>>
  BY DEF LogicCall, centerVars
<1>2. PICK x \in Conn : x = gLogicCenterServerClient[n] /\ logicEnd[x] = "open" /\ owner[x] = n
  BY DEF LogicCall, TypeOK, PointerIsOpen
<1>3. /\ k \in Nat /\ calls'[n] = k /\ \A l \in Server \ {n} : calls'[l] = calls[l]
      /\ pendingCalls'[n] = pendingCalls[n] \cup {k}
      /\ \A l \in Server \ {n} : pendingCalls'[l] = pendingCalls[l]
  BY DEF LogicCall, TypeOK
<1>4. \A i \in pendingCalls[n] : i \in Nat /\ i <= calls[n] /\ i < k
  BY DEF TypeOK, CallInv, CallsMade
<1>5. Call(k) \in Message /\ Call(k).op = "call" /\ Call(k).n = k /\ SendCenter(x, Call(k))
  BY <1>2, <1>3, MessageTypes DEF LogicCall, Call
<1>6. /\ Numbers(toCenter'[x], "call") \subseteq Numbers(toCenter[x], "call") \cup {k}
      /\ Once(toCenter[x], "call") /\ k \notin Numbers(toCenter[x], "call")
           => Once(toCenter'[x], "call")
      /\ \A y \in Conn \ {x} : toCenter'[y] = toCenter[y]
  BY <1>1, <1>5, SendNumbers
<1>7. Owed(x)
  BY <1>1, <1>2 DEF CallInv, CallState
<1>8. k \notin pendingCalls[n]
  BY <1>3, <1>4
<1> HIDE DEF k
<1>9. k \notin Asked(x) /\ k \notin Kept(x) /\ k \notin Answered(x)
  BY <1>2, <1>7, <1>8 DEF Owed
<1>10. Asked(x)' \subseteq Asked(x) \cup {k} /\ Kept(x)' = Kept(x) /\ Answered(x)' = Answered(x)
  BY <1>1, <1>6 DEF Asked, Kept, Answered
<1>11. Once(toCenter'[x], "call")
  BY <1>6, <1>7, <1>9 DEF Owed, Asked
<1>12. Owed(x)'
  BY <1>1, <1>2, <1>3, <1>7, <1>9, <1>10, <1>11 DEF Owed
<1>13. CallState(x)'
  BY <1>1, <1>2, <1>12 DEF CallState
<1>14. \A y \in Conn \ {x} : CallState(y)'
  <2> TAKE y \in Conn \ {x}
  <2>1. logicEnd[y] = "open" => owner[y] \in Server /\ owner[y] # n
    BY <1>1, <1>2 DEF LinkInv, Own
  <2>2. Asked(y)' = Asked(y) /\ Kept(y)' = Kept(y) /\ Answered(y)' = Answered(y)
    BY <1>1, <1>6 DEF Asked, Kept, Answered
  <2> QED
    BY <1>1, <1>3, <1>6, <2>1, <2>2, CallFrame DEF CallInv
<1>15. CallsMade'
  <2>1. \A i \in pendingCalls'[n] : i <= calls'[n]
    BY <1>3, <1>4 DEF k
  <2> QED
    BY <1>3, <2>1 DEF CallInv, CallsMade
<1> QED
  BY <1>13, <1>14, <1>15 DEF CallInv

\* The handler of a call answers it, or keeps its caller: the call moves on.
LEMMA RpcCall ==
  ASSUME TypeOK, CallInv, NEW x \in Conn, CenterRpc(x)
  PROVE  CallInv'
<1>1. PICK k \in Nat : k = Head(toCenter[x]).n
  BY ReceiveNumbers DEF CenterRpc, Message
<1>2. /\ UNCHANGED <<pendingCalls, calls, logicEnd, owner>>
      /\ CenterRecv(x, "call")
      /\ \/ SendLogic(x, Reply(k)) /\ asyncReplies' = asyncReplies
         \/ asyncReplies' = asyncReplies \cup {[caller |-> x, n |-> k]} /\ toLogic' = toLogic
  BY <1>1 DEF CenterRpc, logicVars
<1>3. /\ Asked(x)' \subseteq Asked(x) /\ k \in Asked(x)
      /\ Once(toCenter[x], "call") => Once(toCenter'[x], "call") /\ k \notin Asked(x)'
      /\ \A y \in Conn \ {x} : toCenter'[y] = toCenter[y]
  BY <1>1, <1>2, ReceiveNumbers DEF Asked
<1>4. Reply(k) \in Message /\ Reply(k).op = "reply" /\ Reply(k).n = k
  BY MessageTypes DEF Reply
<1>5. SendLogic(x, Reply(k)) =>
        /\ Answered(x)' \subseteq Answered(x) \cup {k}
        /\ Once(toLogic[x], "reply") /\ k \notin Answered(x) => Once(toLogic'[x], "reply")
        /\ \A y \in Conn \ {x} : toLogic'[y] = toLogic[y]
  BY <1>4, SendNumbers DEF Answered
<1>6. /\ \/ Answered(x)' \subseteq Answered(x) \cup {k} /\ Kept(x)' = Kept(x)
         \/ Answered(x)' = Answered(x) /\ Kept(x)' \subseteq Kept(x) \cup {k}
      /\ Once(toLogic[x], "reply") /\ k \notin Answered(x) => Once(toLogic'[x], "reply")
  <2>1. CASE SendLogic(x, Reply(k)) /\ asyncReplies' = asyncReplies
    BY <1>5, <2>1 DEF Kept
  <2>2. CASE asyncReplies' = asyncReplies \cup {[caller |-> x, n |-> k]} /\ toLogic' = toLogic
    <3>1. Kept(x)' \subseteq Kept(x) \cup {k}
      BY <2>2 DEF Kept
    <3>2. Answered(x)' = Answered(x)
      BY <2>2 DEF Answered
    <3> QED
      BY <2>2, <3>1, <3>2
  <2> QED
    BY <1>2, <2>1, <2>2
<1>7. \A y \in Conn \ {x} :
        toLogic'[y] = toLogic[y] /\ Kept(y)' = Kept(y)
  <2>1. CASE SendLogic(x, Reply(k)) /\ asyncReplies' = asyncReplies
    BY <1>5, <2>1 DEF Kept
  <2>2. CASE asyncReplies' = asyncReplies \cup {[caller |-> x, n |-> k]} /\ toLogic' = toLogic
    BY <2>2 DEF Kept
  <2> QED
    BY <1>2, <2>1, <2>2
<1>8. CallState(x)'
  <2>1. Asked(x) # {}
    BY <1>3
  <2>2. ASSUME logicEnd[x] = "open"
        PROVE  Owed(x)'
    <3>1. Owed(x)
      BY <2>2 DEF CallInv, CallState
    <3>2. k \notin Kept(x) /\ k \notin Answered(x) /\ k \notin Asked(x)'
      BY <1>3, <3>1 DEF Owed
    <3>3. Once(toCenter'[x], "call") /\ Once(toLogic'[x], "reply")
      BY <1>3, <1>6, <3>1, <3>2 DEF Owed
    <3>4. k \in pendingCalls[owner[x]]
      BY <1>3, <3>1 DEF Owed
    <3>5. CASE Answered(x)' \subseteq Answered(x) \cup {k} /\ Kept(x)' = Kept(x)
      BY <1>2, <1>3, <3>1, <3>2, <3>3, <3>4, <3>5 DEF Owed
    <3>6. CASE Answered(x)' = Answered(x) /\ Kept(x)' \subseteq Kept(x) \cup {k}
      BY <1>2, <1>3, <3>1, <3>2, <3>3, <3>4, <3>6 DEF Owed
    <3> QED
      BY <1>6, <3>5, <3>6
  <2>3. logicEnd[x] # "new"
    BY <2>1 DEF CallInv, CallState
  <2> QED
    BY <1>2, <2>2, <2>3 DEF CallState
<1>9. \A y \in Conn \ {x} : CallState(y)'
  <2> TAKE y \in Conn \ {x}
  <2>1. Asked(y)' = Asked(y) /\ Answered(y)' = Answered(y)
    BY <1>3, <1>7 DEF Asked, Answered
  <2> QED
    BY <1>2, <1>3, <1>7, <2>1, CallFrame DEF CallInv
<1> QED
  BY <1>2, <1>8, <1>9 DEF CallInv, CallsMade

\* A late answer goes to the caller that was kept, whoever called since.
LEMMA LateCall ==
  ASSUME TypeOK, CallInv, NEW r \in asyncReplies, AsyncReply(r)
  PROVE  CallInv'
<1>1. PICK x \in Conn, k \in Nat : r = [caller |-> x, n |-> k]
  BY DEF TypeOK
<1>2. /\ UNCHANGED <<pendingCalls, calls, logicEnd, owner, toCenter>>
      /\ asyncReplies' = asyncReplies \ {[caller |-> x, n |-> k]}
      /\ SendLogic(x, Reply(k))
  BY <1>1 DEF AsyncReply, logicVars
<1>3. Reply(k) \in Message /\ Reply(k).op = "reply" /\ Reply(k).n = k
  BY MessageTypes DEF Reply
<1>4. /\ Answered(x)' \subseteq Answered(x) \cup {k}
      /\ Once(toLogic[x], "reply") /\ k \notin Answered(x) => Once(toLogic'[x], "reply")
      /\ \A y \in Conn \ {x} : toLogic'[y] = toLogic[y]
  BY <1>2, <1>3, SendNumbers DEF Answered
<1>5. k \in Kept(x) /\ \A y \in Conn : Kept(y)' \subseteq Kept(y)
  BY <1>1, <1>2 DEF Kept
<1>6. k \notin Kept(x)'
  <2>1. \A q \in asyncReplies' : q.caller = x => q.n # k
    BY <1>2 DEF TypeOK
  <2> QED
    BY <2>1 DEF Kept
<1>7. \A y \in Conn : Asked(y)' = Asked(y)
  BY <1>2 DEF Asked
<1>8. CallState(x)'
  <2>1. ASSUME logicEnd[x] = "open"
        PROVE  Owed(x)'
    <3>1. Owed(x)
      BY <2>1 DEF CallInv, CallState
    <3>2. k \notin Asked(x) /\ k \notin Answered(x)
      BY <1>5, <3>1 DEF Owed
    <3> QED
      BY <1>2, <1>4, <1>5, <1>6, <1>7, <3>1, <3>2 DEF Owed
  <2>2. logicEnd[x] # "new"
    BY <1>5 DEF CallInv, CallState
  <2> QED
    BY <1>2, <2>1, <2>2 DEF CallState
<1>9. \A y \in Conn \ {x} : CallState(y)'
  <2> TAKE y \in Conn \ {x}
  <2>1. Answered(y)' = Answered(y)
    BY <1>4 DEF Answered
  <2> QED
    BY <1>2, <1>4, <1>5, <1>7, <2>1, CallFrame DEF CallInv
<1> QED
  BY <1>2, <1>8, <1>9 DEF CallInv, CallsMade

\* The steps of the center that answer no call, its crash among them.
LEMMA CenterCall ==
  ASSUME TypeOK, CallInv,
         \/ CenterCrash \/ CenterStart
         \/ \E x \in Conn : CenterEnter(x) \/ CenterLogin(x) \/ CenterClose(x)
  PROVE  CallInv'
<1>1. /\ UNCHANGED <<pendingCalls, calls, logicEnd, owner>>
      /\ asyncReplies' \subseteq asyncReplies
  BY DEF CenterCrash, CenterStart, CenterEnter, CenterLogin, CenterClose, logicVars
<1>2. \A y \in Conn :
        /\ Asked(y)' \subseteq Asked(y) /\ Answered(y)' \subseteq Answered(y)
        /\ Once(toCenter[y], "call") => Once(toCenter'[y], "call")
        /\ Once(toLogic[y], "reply") => Once(toLogic'[y], "reply")
  <2>1. ASSUME NEW x \in Conn, CenterLogin(x)
        PROVE  \A y \in Conn :
                 /\ Asked(y)' \subseteq Asked(y) /\ Answered(y)' \subseteq Answered(y)
                 /\ Once(toCenter[y], "call") => Once(toCenter'[y], "call")
                 /\ Once(toLogic[y], "reply") => Once(toLogic'[y], "reply")
    <3>1. /\ Head(toCenter[x]) \in Message
          /\ Numbers(toCenter'[x], "call") \subseteq Numbers(toCenter[x], "call")
          /\ Once(toCenter[x], "call") => Once(toCenter'[x], "call")
          /\ \A y \in Conn \ {x} : toCenter'[y] = toCenter[y]
      BY <2>1, ReceiveNumbers DEF CenterLogin
    <3>2. PICK id \in Id \cup {NoId} : toLogic' = toLogic \/ SendLogic(x, SelfId(id))
      BY <2>1, <3>1 DEF CenterLogin, Message
    <3>3. SelfId(id) \in Message /\ SelfId(id).op # "reply"
      BY MessageTypes DEF SelfId
    <3>4. SendLogic(x, SelfId(id)) =>
            /\ Numbers(toLogic'[x], "reply") \subseteq Numbers(toLogic[x], "reply")
            /\ Once(toLogic[x], "reply") => Once(toLogic'[x], "reply")
            /\ \A y \in Conn \ {x} : toLogic'[y] = toLogic[y]
      BY <3>3, SendNumbers
    <3> QED
      BY <3>1, <3>2, <3>4 DEF Asked, Answered
  <2>2. CASE CenterCrash
    BY <2>2, EmptyNumbers DEF CenterCrash, Asked, Answered
  <2>3. CASE UNCHANGED <<toCenter, toLogic>>
    BY <2>3 DEF Asked, Answered
  <2> QED
    BY <2>1, <2>2, <2>3 DEF CenterStart, CenterEnter, CenterClose
<1>3. \A y \in Conn : Kept(y)' \subseteq Kept(y)
  BY <1>1 DEF Kept
<1>4. \A y \in Conn : CallState(y)'
  BY <1>1, <1>2, <1>3, CallFrame DEF CallInv
<1> QED
  BY <1>1, <1>4 DEF CallInv, CallsMade

\* ... and is kept by every step.
LEMMA NextCall ==
  ASSUME TypeOK, LinkInv, PointerIsOpen, CallInv, [Next]_vars
  PROVE  CallInv'
<1>1. CASE UNCHANGED vars
  BY <1>1 DEF CallInv, CallState, CallsMade, Owed, Asked, Kept, Answered,
              vars, centerVars, logicVars
<1>2. CASE Next
  BY <1>2, WireCall, QuietCall, ReplyCall, AskCall, RpcCall, LateCall, CenterCall
  DEF Next, ConnectSome, LogicStep, CenterStep
<1> QED
  BY <1>1, <1>2

\* A call is answered through the global "fromer" or through the caller its handler
\* kept (CenterServerSession.cpp, onLogicServerRpc): whichever it is, and whatever
\* broke, restarted or called meanwhile, the reply that reaches a logic server is that
\* of a call which waits, and no other reply of the same call is on its way.
THEOREM CallsCorrect == Spec => []RepliesMatchCalls
<1>1. TypeOK /\ LinkInv /\ PointerIsOpen /\ CallInv /\ [Next]_vars => CallInv'
  BY NextCall
<1>2. CallInv => RepliesMatchCalls
  BY DEF CallInv, CallState, Owed, Answered, Numbers, RepliesMatchCalls
<1> QED
  BY <1>1, <1>2, InitCall, LinkCorrect, PointerCorrect, PTL DEF Spec
===============================================================================
