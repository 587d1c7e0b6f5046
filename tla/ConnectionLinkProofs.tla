------------------------- MODULE ConnectionLinkProofs -------------------------
(***************************************************************************)
(* What holds between logic servers and connection servers for any number  *)
(* of both, of connections and of connect threads.                         *)
(*                                                                         *)
(* A connection carries one login at most: LoginInv follows it from onEnter*)
(* to the registry, to the answer and to mConnectionServerID, and says     *)
(* that it is in one of these places only.  With it OneLogin is inductive, *)
(* and the assertion of onMsg follows from both.                           *)
(***************************************************************************)
EXTENDS ConnectionLink, SequenceTheorems, TLAPS

(***************************************************************************)
(* Sequences of messages                                                   *)
(***************************************************************************)

\* An empty connection carries messages only.
LEMMA EmptyTyped == <<>> \in Seq(Message)
OBVIOUS

\* What Send leaves on a connection.
LEMMA SendTypes ==
  ASSUME NEW wire \in [Conn -> Seq(Message)], NEW x \in Conn, NEW m \in Message
  PROVE  /\ Send(wire, x, m) \in [Conn -> Seq(Message)]
         /\ Send(wire, x, m)[x] \in {wire[x], Append(wire[x], m)}
         /\ \A y \in Conn \ {x} : Send(wire, x, m)[y] = wire[y]
<1>1. wire[x] \in Seq(Message) /\ Append(wire[x], m) \in Seq(Message)
  OBVIOUS
<1> QED
  BY <1>1 DEF Send

\* What is left of a connection that breaks carries messages only.
LEMMA PrefixTyped ==
  ASSUME NEW s \in Seq(Message), NEW t \in Prefixes(s)
  PROVE  t \in Seq(Message)
BY DEF Prefixes

\* A sequence of one message.
One(m) == <<m>>

\* A connection with one message on it.
LEMMA OneFacts ==
  /\ \A m \in Message :
       /\ One(m) # <<>> /\ Append(<<>>, m) = One(m)
       /\ Tail(One(m)) = <<>> /\ Head(One(m)) = m
       /\ \A t \in Prefixes(One(m)) : t \in {<<>>, One(m)}
  /\ \A t \in Prefixes(<<>>) : t = <<>>
<1>1. ASSUME NEW m \in Message
      PROVE  /\ One(m) # <<>> /\ Append(<<>>, m) = One(m)
             /\ Tail(One(m)) = <<>> /\ Head(One(m)) = m
  BY DEF One
<1>2. ASSUME NEW m \in Message, NEW t \in Prefixes(One(m))
      PROVE  t \in {<<>>, One(m)}
  <2>1. PICK k \in 0 .. 1 : t = SubSeq(<<m>>, 1, k)
    BY DEF Prefixes, One
  <2>2. k = 0 \/ k = 1
    BY <2>1
  <2>3. SubSeq(<<m>>, 1, 0) = <<>> /\ SubSeq(<<m>>, 1, 1) = <<m>>
    <3>1. <<m>> \in Seq(Message) /\ Len(<<m>>) = 1
      OBVIOUS
    <3>2. SubSeq(<<m>>, 1, Len(<<m>>)) = <<m>>
      BY ONLY <3>1, SubSeqFull
    <3>3. SubSeq(<<m>>, 1, 0) = <<>>
      OBVIOUS
    <3> QED
      BY <3>1, <3>2, <3>3
  <2> QED
    BY <2>1, <2>2, <2>3 DEF One
<1>3. ASSUME NEW t \in Prefixes(<<>>)
      PROVE  t = <<>>
  <2>1. PICK k \in 0 .. 0 : t = SubSeq(<<>>, 1, k)
    BY DEF Prefixes
  <2>2. SubSeq(<<>>, 1, 0) = <<>> /\ k = 0
    BY <2>1
  <2> QED
    BY <2>1, <2>2
<1> QED
  BY <1>1, <1>2, <1>3

(***************************************************************************)
(* Types                                                                   *)
(***************************************************************************)

\* A connection that one end has not done with has both.
HasEnds ==
  \A x \in Conn :
    logicEnd[x] # "none" \/ csEnd[x] # "none" => owner[x] \in Server /\ target[x] \in Cs

TypeInv == TypeOK /\ HasEnds

\* TypeInv holds at the start, ...
LEMMA InitType == Init => TypeInv
<1> SUFFICES ASSUME Init
             PROVE  TypeInv
  OBVIOUS
<1>1. /\ csUp \in [Cs -> BOOLEAN] /\ running \in [Server -> BOOLEAN]
      /\ mIsSuccess \in [Conn -> BOOLEAN] /\ up \in [Conn -> BOOLEAN]
  BY DEF Init
<1>2. toCs \in [Conn -> Seq(Message)] /\ toLogic \in [Conn -> Seq(Message)]
  BY EmptyTyped DEF Init
<1>3. /\ registry \in [Cs -> [Id -> Conn \cup {Nil}]] /\ threads \in [Server -> [Cs -> Nat]]
      /\ gAllLogicConnectionServerClient \in [Server -> [Cs -> Conn \cup {Nil}]]
  BY DEF Init
<1>4. /\ csEnd \in [Conn -> CsEnd] /\ logicEnd \in [Conn -> LogicEnd] /\ HasEnds
      /\ alreadyConnectingServers \in [Server -> SUBSET Cs]
  BY DEF Init, CsEnd, LogicEnd, HasEnds
<1> QED
  BY <1>1, <1>2, <1>3, <1>4 DEF Init, TypeInv, TypeOK

\* etcd and a connection server that starts.
LEMMA PublishType ==
  ASSUME TypeInv, NEW k \in Cs, Publish(k) \/ Expire(k) \/ CsStart(k)
  PROVE  TypeInv'
BY DEF TypeInv, TypeOK, HasEnds, csVars, logicVars, wireVars, Publish, Expire, CsStart

\* The etcd thread and the connect threads of a logic server, and its start.
LEMMA PollType ==
  ASSUME TypeInv, NEW n \in Server,
         \/ Poll(n) \/ TryCompareConnect(n) \/ LogicStart(n)
         \/ \E k \in Cs : ConnectFails(n, k)
  PROVE  TypeInv'
<1> USE DEF TypeInv, TypeOK, HasEnds, csVars, logicVars, wireVars
<1>1. CASE Poll(n)
  BY <1>1 DEF Poll
<1>2. CASE TryCompareConnect(n)
  BY <1>2 DEF TryCompareConnect
<1>3. CASE LogicStart(n)
  BY <1>3 DEF LogicStart
<1>4. CASE \E k \in Cs : ConnectFails(n, k)
  BY <1>4 DEF ConnectFails
<1> QED
  BY <1>1, <1>2, <1>3, <1>4

\* ... and is kept: when a logic server connects, ...
LEMMA ConnectType ==
  ASSUME TypeInv, NEW n \in Server, NEW k \in Cs, NEW x \in Conn, Connect(n, k, x)
  PROVE  TypeInv'
<1>1. threads' \in [Server -> [Cs -> Nat]]
  BY DEF Connect, TypeInv, TypeOK
<1>2. toCs' \in [Conn -> Seq(Message)] /\ toLogic' \in [Conn -> Seq(Message)]
  BY EmptyTyped DEF Connect, TypeInv, TypeOK
<1>3. mIsSuccess' \in [Conn -> BOOLEAN] /\ up' \in [Conn -> BOOLEAN]
  BY DEF Connect, TypeInv, TypeOK
<1>4. /\ owner' \in [Conn -> Server \cup {Nil}] /\ target' \in [Conn -> Cs \cup {Nil}]
      /\ mConnectionServerID' \in [Conn -> Cs \cup {Nil}] /\ mID' \in [Conn -> Id \cup {NoId}]
      /\ logicEnd' \in [Conn -> LogicEnd] /\ csEnd' \in [Conn -> CsEnd]
  BY DEF Connect, TypeInv, TypeOK, LogicEnd, CsEnd
<1>5. HasEnds'
  BY DEF Connect, TypeInv, TypeOK, HasEnds
<1> QED
  BY <1>1, <1>2, <1>3, <1>4, <1>5 DEF Connect, TypeInv, TypeOK

\* ... when a connection breaks, ...
LEMMA BreakType ==
  ASSUME TypeInv, NEW x \in Conn, Break(x)
  PROVE  TypeInv'
<1>1. PICK s \in Prefixes(toCs[x]) : toCs' = [toCs EXCEPT ![x] = s]
  BY DEF Break
<1>2. PICK t \in Prefixes(toLogic[x]) : toLogic' = [toLogic EXCEPT ![x] = t]
  BY DEF Break
<1>3. s \in Seq(Message) /\ t \in Seq(Message)
  BY PrefixTyped DEF TypeInv, TypeOK
<1>4. toCs' \in [Conn -> Seq(Message)] /\ toLogic' \in [Conn -> Seq(Message)]
  BY <1>1, <1>2, <1>3 DEF TypeInv, TypeOK
<1>5. up' \in [Conn -> BOOLEAN]
  BY DEF Break, TypeInv, TypeOK
<1> QED
  BY <1>4, <1>5 DEF Break, TypeInv, TypeOK, HasEnds, csVars, logicVars

\* The steps of the logic thread.
LEMMA LogicType ==
  ASSUME TypeInv, NEW x \in Conn, LogicEnter(x) \/ LogicMsg(x) \/ LogicClose(x)
  PROVE  TypeInv'
<1> USE DEF TypeInv, TypeOK, HasEnds, csVars, logicVars, wireVars
<1>0. logicEnd[x] # "none" /\ owner[x] \in Server /\ target[x] \in Cs
  BY DEF LogicEnter, LogicMsg, LogicClose
<1>1. CASE LogicEnter(x)
  <2>1. Send(toCs, x, "login") \in [Conn -> Seq(Message)]
    BY SendTypes DEF Message
  <2>2. toCs' \in [Conn -> Seq(Message)]
    BY <1>1, <2>1 DEF LogicEnter
  <2>3. mIsSuccess' \in [Conn -> BOOLEAN]
    BY <1>1 DEF LogicEnter
  <2>4. alreadyConnectingServers' \in [Server -> SUBSET Cs]
    <3>1. alreadyConnectingServers[owner[x]] \cup {target[x]} \in SUBSET Cs
      BY <1>0
    <3>2. alreadyConnectingServers \in [Server -> SUBSET Cs]
      OBVIOUS
    <3>3. \/ alreadyConnectingServers' = alreadyConnectingServers
          \/ alreadyConnectingServers' =
               [alreadyConnectingServers EXCEPT ![owner[x]] = @ \cup {target[x]}]
      BY <1>1 DEF LogicEnter
    <3> HIDE DEF TypeInv, TypeOK, HasEnds, csVars, logicVars, wireVars
    <3> QED
      BY <1>0, <3>1, <3>2, <3>3
  <2>5. logicEnd' \in [Conn -> LogicEnd]
    BY <1>1 DEF LogicEnter, LogicEnd
  <2>6. HasEnds'
    BY <1>0, <1>1 DEF LogicEnter
  <2> QED
    BY <1>1, <2>2, <2>3, <2>4, <2>5, <2>6 DEF LogicEnter
<1>2. CASE LogicMsg(x)
  <2>1. Tail(toLogic[x]) \in Seq(Message)
    BY <1>2 DEF LogicMsg
  <2>2. toLogic' \in [Conn -> Seq(Message)]
    BY <1>2, <2>1 DEF LogicMsg
  <2>3. mConnectionServerID' \in [Conn -> Cs \cup {Nil}]
    BY <1>0, <1>2 DEF LogicMsg
  <2>4. gAllLogicConnectionServerClient' \in [Server -> [Cs -> Conn \cup {Nil}]]
    BY <1>0, <1>2 DEF LogicMsg
  <2> QED
    BY <1>2, <2>2, <2>3, <2>4 DEF LogicMsg
<1>3. CASE LogicClose(x)
  <2>1. alreadyConnectingServers' \in [Server -> SUBSET Cs]
    BY <1>0, <1>3 DEF LogicClose
  <2>2. gAllLogicConnectionServerClient' \in [Server -> [Cs -> Conn \cup {Nil}]]
    BY <1>0, <1>3 DEF LogicClose
  <2>3. logicEnd' \in [Conn -> LogicEnd]
    BY <1>3 DEF LogicClose, LogicEnd
  <2>4. HasEnds'
    BY <1>0, <1>3 DEF LogicClose
  <2> QED
    BY <1>3, <2>1, <2>2, <2>3, <2>4 DEF LogicClose
<1> QED
  BY <1>1, <1>2, <1>3

\* The steps of a connection server's session.
LEMMA CsType ==
  ASSUME TypeInv, NEW x \in Conn, CsLoop(x)
  PROVE  TypeInv'
<1> USE DEF TypeInv, TypeOK, HasEnds, csVars, logicVars, wireVars
<1>0. /\ csEnd[x] # "none" /\ owner[x] \in Server /\ target[x] \in Cs
      /\ IdOf[owner[x]] \in Id
  BY ConstantsAssumption DEF CsLoop, LoginFind, LoginAdd, CsClose
<1>1. CASE LoginFind(x)
  <2>1. Tail(toCs[x]) \in Seq(Message)
    BY <1>1 DEF LoginFind
  <2>2. toCs' \in [Conn -> Seq(Message)]
    BY <1>1, <2>1 DEF LoginFind
  <2>3. Send(toLogic, x, "refused") \in [Conn -> Seq(Message)]
    BY SendTypes DEF Message
  <2>4. toLogic' \in [Conn -> Seq(Message)]
    BY <1>1, <2>3 DEF LoginFind
  <2>5. csEnd' \in [Conn -> CsEnd] /\ HasEnds'
    BY <1>0, <1>1 DEF LoginFind, CsEnd
  <2> QED
    BY <1>1, <2>2, <2>4, <2>5 DEF LoginFind
<1>2. CASE LoginAdd(x)
  <2>1. Send(toLogic, x, "accepted") \in [Conn -> Seq(Message)]
    BY SendTypes DEF Message
  <2>2. registry' \in [Cs -> [Id -> Conn \cup {Nil}]]
    BY <1>0, <1>2 DEF LoginAdd
  <2>3. mID' \in [Conn -> Id \cup {NoId}] /\ csEnd' \in [Conn -> CsEnd] /\ HasEnds'
    BY <1>0, <1>2 DEF LoginAdd, CsEnd
  <2> QED
    BY <1>2, <2>1, <2>2, <2>3 DEF LoginAdd
<1>3. CASE CsClose(x)
  <2>1. registry' \in [Cs -> [Id -> Conn \cup {Nil}]]
    BY <1>0, <1>3 DEF CsClose
  <2>2. mID' \in [Conn -> Id \cup {NoId}] /\ csEnd' \in [Conn -> CsEnd] /\ HasEnds'
    BY <1>0, <1>3 DEF CsClose, CsEnd
  <2> QED
    BY <1>3, <2>1, <2>2 DEF CsClose
<1> QED
  BY <1>1, <1>2, <1>3 DEF CsLoop

\* ... when a server crashes, ...
LEMMA CrashType ==
  ASSUME TypeInv, (\E k \in Cs : CsCrash(k)) \/ (\E n \in Server : LogicCrash(n))
  PROVE  TypeInv'
<1> USE DEF TypeInv, TypeOK, HasEnds, csVars, logicVars, wireVars
<1>1. ASSUME NEW k \in Cs, CsCrash(k)
      PROVE  TypeInv'
  <2>1. /\ csEnd' \in [Conn -> CsEnd] /\ mID' \in [Conn -> Id \cup {NoId}]
        /\ registry' \in [Cs -> [Id -> Conn \cup {Nil}]] /\ csUp' \in [Cs -> BOOLEAN]
    BY <1>1 DEF CsCrash, CsEnd
  <2>2. up' \in [Conn -> BOOLEAN]
    BY <1>1 DEF CsCrash
  <2>3. toCs' \in [Conn -> Seq(Message)]
    BY <1>1, EmptyTyped DEF CsCrash
  <2>4. HasEnds'
    BY <1>1 DEF CsCrash
  <2> QED
    BY <1>1, <2>1, <2>2, <2>3, <2>4 DEF CsCrash
<1>2. ASSUME NEW n \in Server, LogicCrash(n)
      PROVE  TypeInv'
  <2>1. /\ logicEnd' \in [Conn -> LogicEnd] /\ running' \in [Server -> BOOLEAN]
        /\ currentServer' \in [Server -> (SUBSET Cs) \cup {Nil}]
        /\ alreadyConnectingServers' \in [Server -> SUBSET Cs]
    BY <1>2 DEF LogicCrash, LogicEnd
  <2>2. /\ threads' \in [Server -> [Cs -> Nat]]
        /\ gAllLogicConnectionServerClient' \in [Server -> [Cs -> Conn \cup {Nil}]]
    BY <1>2 DEF LogicCrash
  <2>3. up' \in [Conn -> BOOLEAN]
    BY <1>2 DEF LogicCrash
  <2>4. toLogic' \in [Conn -> Seq(Message)]
    BY <1>2, EmptyTyped DEF LogicCrash
  <2>5. HasEnds'
    BY <1>2 DEF LogicCrash
  <2> QED
    BY <1>2, <2>1, <2>2, <2>3, <2>4, <2>5 DEF LogicCrash
<1> QED
  BY <1>1, <1>2

\* ... and by every step.
LEMMA NextType ==
  ASSUME TypeInv, [Next]_vars
  PROVE  TypeInv'
<1>1. CASE \E n \in Server, k \in Cs : \E x \in Conn : Connect(n, k, x)
  BY <1>1, ConnectType
<1>2. CASE \E x \in Conn : Break(x) \/ CsLoop(x)
  BY <1>2, BreakType, CsType
<1>3. CASE \E x \in Conn : LogicEnter(x) \/ LogicMsg(x) \/ LogicClose(x)
  BY <1>3, LogicType
<1>4. CASE \E k \in Cs : Publish(k) \/ Expire(k) \/ CsStart(k)
  BY <1>4, PublishType
<1>5. CASE \E n \in Server : \/ Poll(n) \/ TryCompareConnect(n) \/ LogicStart(n)
                            \/ \E k \in Cs : ConnectFails(n, k)
  BY <1>5, PollType
<1>6. CASE (\E k \in Cs : CsCrash(k)) \/ (\E n \in Server : LogicCrash(n))
  BY <1>6, CrashType
<1>7. CASE UNCHANGED vars
  BY <1>7 DEF TypeInv, TypeOK, HasEnds, vars, csVars, logicVars, wireVars
<1> QED
  BY <1>1, <1>2, <1>3, <1>4, <1>5, <1>6, <1>7 DEF Next, ConnectThread, LogicThread

\* Every variable of the links between logic servers and connection servers has its type.
THEOREM TypeCorrect == Spec => []TypeOK
<1>1. TypeInv => TypeOK
  BY DEF TypeInv
<1> QED
  BY <1>1, InitType, NextType, PTL DEF Spec

(***************************************************************************)
(* The one login of a connection                                           *)
(***************************************************************************)

\* The login of x is on its way, being registered, being answered or answered.
Started(x) ==
  \/ toCs[x] # <<>> \/ csEnd[x] = "adding" \/ toLogic[x] # <<>>
  \/ mConnectionServerID[x] # Nil

LoginState(x) ==
  /\ toCs[x] \in {<<>>, One("login")}
  /\ toLogic[x] \in {<<>>, One("accepted"), One("refused")}
  /\ toCs[x] # <<>> =>
       csEnd[x] # "adding" /\ toLogic[x] = <<>> /\ mConnectionServerID[x] = Nil
  /\ csEnd[x] = "adding" => toLogic[x] = <<>> /\ mConnectionServerID[x] = Nil
  /\ toLogic[x] # <<>> => mConnectionServerID[x] = Nil
  /\ mConnectionServerID[x] \in {Nil, target[x]}
  /\ Started(x) => mIsSuccess[x]
  /\ mIsSuccess[x] => logicEnd[x] # "new"

LoginInv == \A x \in Conn : LoginState(x)

\* LoginInv holds at the start, ...
LEMMA InitLogin == Init => LoginInv
BY DEF Init, LoginInv, LoginState, Started

\* ... depends on one connection only, ...
LEMMA LoginFrame ==
  ASSUME NEW y \in Conn, LoginState(y),
         toCs'[y] = toCs[y], toLogic'[y] = toLogic[y], csEnd'[y] = csEnd[y],
         mConnectionServerID'[y] = mConnectionServerID[y], target'[y] = target[y],
         mIsSuccess'[y] = mIsSuccess[y], logicEnd'[y] = logicEnd[y]
  PROVE  LoginState(y)'
BY DEF LoginState, Started

\* The steps of one connection's ends leave the others alone.
LEMMA ConnLogin ==
  ASSUME TypeInv, LoginInv, NEW x \in Conn,
         \/ LogicEnter(x) \/ LogicMsg(x) \/ LogicClose(x)
         \/ LoginFind(x) \/ LoginAdd(x) \/ CsClose(x)
  PROVE  LoginInv'
<1> USE DEF TypeInv, TypeOK, csVars, logicVars, wireVars
<1>m. "login" \in Message /\ "accepted" \in Message /\ "refused" \in Message
  BY DEF Message
<1>f. /\ One("login") # <<>> /\ Tail(One("login")) = <<>>
      /\ One("accepted") # <<>> /\ Tail(One("accepted")) = <<>>
      /\ One("refused") # <<>> /\ Tail(One("refused")) = <<>>
      /\ Append(<<>>, "login") = One("login")
      /\ Append(<<>>, "accepted") = One("accepted")
      /\ Append(<<>>, "refused") = One("refused")
  BY <1>m, OneFacts
<1>s. /\ Send(toCs, x, "login")[x] \in {toCs[x], Append(toCs[x], "login")}
      /\ Send(toLogic, x, "accepted")[x] \in {toLogic[x], Append(toLogic[x], "accepted")}
      /\ Send(toLogic, x, "refused")[x] \in {toLogic[x], Append(toLogic[x], "refused")}
      /\ \A y \in Conn \ {x} : /\ Send(toCs, x, "login")[y] = toCs[y]
                               /\ Send(toLogic, x, "accepted")[y] = toLogic[y]
                               /\ Send(toLogic, x, "refused")[y] = toLogic[y]
  <2>1. toCs \in [Conn -> Seq(Message)] /\ toLogic \in [Conn -> Seq(Message)]
    OBVIOUS
  <2> HIDE DEF TypeInv, TypeOK, csVars, logicVars, wireVars
  <2>2. /\ Send(toCs, x, "login")[x] \in {toCs[x], Append(toCs[x], "login")}
        /\ \A y \in Conn \ {x} : Send(toCs, x, "login")[y] = toCs[y]
    BY <1>m, <2>1, SendTypes
  <2>3. /\ Send(toLogic, x, "accepted")[x] \in {toLogic[x], Append(toLogic[x], "accepted")}
        /\ \A y \in Conn \ {x} : Send(toLogic, x, "accepted")[y] = toLogic[y]
    BY <1>m, <2>1, SendTypes
  <2>4. /\ Send(toLogic, x, "refused")[x] \in {toLogic[x], Append(toLogic[x], "refused")}
        /\ \A y \in Conn \ {x} : Send(toLogic, x, "refused")[y] = toLogic[y]
    BY <1>m, <2>1, SendTypes
  <2> QED
    BY <2>2, <2>3, <2>4
<1>x. LoginState(x)
  BY DEF LoginInv
<1>1. ASSUME NEW y \in Conn, y # x
      PROVE  LoginState(y)'
  <2>1. LoginState(y)
    BY DEF LoginInv
  <2>2. /\ toCs'[y] = toCs[y] /\ toLogic'[y] = toLogic[y] /\ csEnd'[y] = csEnd[y]
        /\ mConnectionServerID'[y] = mConnectionServerID[y] /\ target'[y] = target[y]
        /\ mIsSuccess'[y] = mIsSuccess[y] /\ logicEnd'[y] = logicEnd[y]
    <3>1. CASE LogicEnter(x)
      BY <1>1, <1>s, <3>1 DEF LogicEnter
    <3>2. CASE LogicMsg(x)
      BY <1>1, <3>2 DEF LogicMsg
    <3>3. CASE LogicClose(x)
      BY <1>1, <3>3 DEF LogicClose
    <3>4. CASE LoginFind(x)
      BY <1>1, <1>s, <3>4 DEF LoginFind
    <3>5. CASE LoginAdd(x)
      BY <1>1, <1>s, <3>5 DEF LoginAdd
    <3>6. CASE CsClose(x)
      BY <1>1, <3>6 DEF CsClose
    <3> QED
      BY <3>1, <3>2, <3>3, <3>4, <3>5, <3>6
  <2> QED
    BY <2>1, <2>2, LoginFrame
<1>2. LoginState(x)'
  <2>1. CASE LogicEnter(x)
    <3>1. ~ mIsSuccess[x] /\ ~ Started(x)
      BY <1>x, <2>1 DEF LogicEnter, LoginState
    <3>2. /\ toCs'[x] \in {<<>>, One("login")} /\ toLogic'[x] = <<>> /\ csEnd'[x] # "adding"
          /\ mConnectionServerID'[x] = Nil /\ logicEnd'[x] = "open"
      BY <1>f, <1>s, <2>1, <3>1 DEF LogicEnter, Started
    <3>3. toCs'[x] = <<>> \/ mIsSuccess'[x]
      BY <2>1, <3>1 DEF LogicEnter, Started
    <3> QED
      BY <3>2, <3>3 DEF LoginState, Started
  <2>2. CASE LogicMsg(x)
    <3>1. /\ toLogic'[x] = <<>> /\ toCs'[x] = <<>> /\ csEnd'[x] # "adding" /\ mIsSuccess'[x]
          /\ mConnectionServerID'[x] = target'[x] /\ logicEnd'[x] = "open"
      BY <1>f, <1>x, <2>2 DEF LogicMsg, LoginState, Started
    <3> QED
      BY <3>1 DEF LoginState, Started
  <2>3. CASE LogicClose(x)
    BY <1>x, <2>3 DEF LogicClose, LoginState, Started
  <2>4. CASE LoginFind(x)
    <3>1. /\ toCs[x] # <<>> /\ toCs'[x] = <<>> /\ toLogic[x] = <<>>
          /\ mConnectionServerID'[x] = Nil /\ target'[x] = target[x] /\ mIsSuccess'[x]
          /\ logicEnd'[x] # "new"
      BY <1>f, <1>x, <2>4 DEF LoginFind, LoginState, Started
    <3>2. \/ csEnd'[x] = "adding" /\ toLogic'[x] = <<>>
          \/ csEnd'[x] # "adding" /\ toLogic'[x] \in {<<>>, One("refused")}
      BY <1>f, <1>s, <2>4, <3>1 DEF LoginFind
    <3> QED
      BY <3>1, <3>2 DEF LoginState, Started
  <2>5. CASE LoginAdd(x)
    <3>1. /\ toCs'[x] = <<>> /\ toLogic[x] = <<>> /\ csEnd'[x] # "adding"
          /\ mConnectionServerID'[x] = Nil /\ mIsSuccess'[x] /\ logicEnd'[x] # "new"
      BY <1>x, <2>5 DEF LoginAdd, LoginState, Started
    <3>2. toLogic'[x] \in {<<>>, One("accepted")}
      BY <1>f, <1>s, <2>5, <3>1 DEF LoginAdd
    <3> QED
      BY <3>1, <3>2 DEF LoginState, Started
  <2>6. CASE CsClose(x)
    BY <1>x, <2>6 DEF CsClose, LoginState, Started
  <2> QED
    BY <2>1, <2>2, <2>3, <2>4, <2>5, <2>6
<1> QED
  BY <1>1, <1>2 DEF LoginInv

\* ... and is kept: when a connection breaks, ...
LEMMA BreakLogin ==
  ASSUME TypeInv, LoginInv, NEW x \in Conn, Break(x)
  PROVE  LoginInv'
<1> USE DEF TypeInv, TypeOK, csVars, logicVars, wireVars
<1>1. PICK s \in Prefixes(toCs[x]) : toCs' = [toCs EXCEPT ![x] = s]
  BY DEF Break
<1>2. PICK t \in Prefixes(toLogic[x]) : toLogic' = [toLogic EXCEPT ![x] = t]
  BY DEF Break
<1>3. s \in {<<>>, toCs[x]} /\ t \in {<<>>, toLogic[x]}
  <2>1. "login" \in Message /\ "accepted" \in Message /\ "refused" \in Message
    BY DEF Message
  <2>2. LoginState(x)
    BY DEF LoginInv
  <2>3. toCs[x] \in {<<>>, One("login")}
    BY <2>2 DEF LoginState
  <2>4. toLogic[x] \in {<<>>, One("accepted"), One("refused")}
    BY <2>2 DEF LoginState
  <2>5. s \in {<<>>, toCs[x]}
    BY <2>1, <2>3, OneFacts
  <2>6. t \in {<<>>, toLogic[x]}
    BY <2>1, <2>4, OneFacts
  <2> QED
    BY <2>5, <2>6
<1>4. ASSUME NEW y \in Conn
      PROVE  LoginState(y)'
  <2>1. LoginState(y)
    BY DEF LoginInv
  <2>2. toCs'[y] \in {<<>>, toCs[y]} /\ toLogic'[y] \in {<<>>, toLogic[y]}
    BY <1>1, <1>2, <1>3
  <2>3. UNCHANGED <<csEnd, mConnectionServerID, target, mIsSuccess, logicEnd>>
    BY DEF Break
  <2> QED
    BY <2>1, <2>2, <2>3 DEF LoginState, Started
<1> QED
  BY <1>4 DEF LoginInv

\* ... when a logic server connects, ...
LEMMA ConnectLogin ==
  ASSUME TypeInv, LoginInv, NEW n \in Server, NEW k \in Cs, NEW x \in Conn, Connect(n, k, x)
  PROVE  LoginInv'
<1>1. ASSUME NEW y \in Conn, y # x
      PROVE  LoginState(y)'
  <2>1. /\ toCs'[y] = toCs[y] /\ toLogic'[y] = toLogic[y] /\ csEnd'[y] = csEnd[y]
        /\ mConnectionServerID'[y] = mConnectionServerID[y] /\ target'[y] = target[y]
        /\ mIsSuccess'[y] = mIsSuccess[y] /\ logicEnd'[y] = logicEnd[y]
    BY <1>1 DEF Connect, TypeInv, TypeOK
  <2> QED
    BY <2>1, LoginFrame DEF LoginInv
<1>2. LoginState(x)'
  <2>1. /\ toCs'[x] = <<>> /\ toLogic'[x] = <<>> /\ csEnd'[x] = "open"
        /\ mConnectionServerID'[x] = Nil /\ mIsSuccess'[x] = FALSE
    BY DEF Connect, TypeInv, TypeOK
  <2> QED
    BY <2>1 DEF LoginState, Started
<1> QED
  BY <1>1, <1>2 DEF LoginInv

\* ... and when a server crashes.
LEMMA CrashLogin ==
  ASSUME TypeInv, LoginInv, (\E k \in Cs : CsCrash(k)) \/ (\E n \in Server : LogicCrash(n))
  PROVE  LoginInv'
<1>1. ASSUME NEW k \in Cs, CsCrash(k), NEW y \in Conn
      PROVE  LoginState(y)'
  <2>1. LoginState(y)
    BY DEF LoginInv
  <2>2. /\ toCs'[y] \in {<<>>, toCs[y]} /\ csEnd'[y] \in {"none", csEnd[y]}
        /\ UNCHANGED <<toLogic, mConnectionServerID, target, mIsSuccess, logicEnd>>
    BY <1>1 DEF CsCrash, logicVars
  <2> QED
    BY <2>1, <2>2 DEF LoginState, Started
<1>2. ASSUME NEW n \in Server, LogicCrash(n), NEW y \in Conn
      PROVE  LoginState(y)'
  <2>1. LoginState(y)
    BY DEF LoginInv
  <2>2. /\ toLogic'[y] \in {<<>>, toLogic[y]} /\ logicEnd'[y] \in {"none", logicEnd[y]}
        /\ UNCHANGED <<toCs, csEnd, mConnectionServerID, target, mIsSuccess>>
    BY <1>2 DEF LogicCrash, csVars
  <2> QED
    BY <2>1, <2>2 DEF LoginState, Started
<1> QED
  BY <1>1, <1>2 DEF LoginInv

(***************************************************************************)
(* One connection at a time                                                *)
(***************************************************************************)

TableInv ==
  \A n \in Server, k \in Cs, x \in Conn :
    gAllLogicConnectionServerClient[n][k] = x => mConnectionServerID[x] = k

LinkInv == OneLogin /\ TableInv

\* LinkInv holds at the start, ...
LEMMA InitLink == Init => LinkInv
BY ConstantsAssumption DEF Init, LinkInv, OneLogin, TableInv, LoggedIn

\* What only moves messages, breaks connections or is the other end's.
LEMMA LinkFrame ==
  ASSUME LinkInv,
         UNCHANGED <<owner, target, logicEnd, mIsSuccess, alreadyConnectingServers,
                     gAllLogicConnectionServerClient, mConnectionServerID>>
  PROVE  LinkInv'
<1>1. \A n \in Server, k \in Cs : LoggedIn(n, k)' = LoggedIn(n, k)
  BY DEF LoggedIn
<1> QED
  BY <1>1 DEF LinkInv, OneLogin, TableInv

\* What a connection in the table is.
LEMMA InTable ==
  ASSUME LinkInv, NEW n \in Server, NEW k \in Cs, NEW x \in Conn,
         gAllLogicConnectionServerClient[n][k] = x
  PROVE  x \in LoggedIn(n, k)
BY ConstantsAssumption DEF LinkInv, OneLogin

\* ... and is kept: when a logic server connects, ...
LEMMA ConnectLink ==
  ASSUME TypeInv, LinkInv, NEW n \in Server, NEW k \in Cs, NEW x \in Conn, Connect(n, k, x)
  PROVE  LinkInv'
<1>1. /\ logicEnd[x] = "none" /\ logicEnd'[x] = "new"
      /\ \A y \in Conn \ {x} : /\ owner'[y] = owner[y] /\ target'[y] = target[y]
                               /\ logicEnd'[y] = logicEnd[y] /\ mIsSuccess'[y] = mIsSuccess[y]
                               /\ mConnectionServerID'[y] = mConnectionServerID[y]
      /\ UNCHANGED <<alreadyConnectingServers, gAllLogicConnectionServerClient>>
  BY DEF Connect, TypeInv, TypeOK
<1>2. \A m \in Server, j \in Cs : LoggedIn(m, j)' = LoggedIn(m, j)
  BY <1>1 DEF LoggedIn
<1>3. OneLogin'
  BY <1>1, <1>2 DEF LinkInv, OneLogin
<1>4. ASSUME NEW m \in Server, NEW j \in Cs, NEW y \in Conn,
             gAllLogicConnectionServerClient'[m][j] = y
      PROVE  mConnectionServerID'[y] = j
  <2>1. y \in LoggedIn(m, j)
    BY <1>1, <1>4, InTable
  <2>2. y # x
    BY <1>1, <2>1 DEF LoggedIn
  <2> QED
    BY <1>1, <1>4, <2>2 DEF LinkInv, TableInv
<1> QED
  BY <1>3, <1>4 DEF LinkInv, TableInv

\* ... when its logic thread enters the connection, ...
LEMMA EnterLink ==
  ASSUME TypeInv, LoginInv, LinkInv, NEW x \in Conn, LogicEnter(x)
  PROVE  LinkInv'
<1> DEFINE n == owner[x]
           k == target[x]
<1>0. n \in Server /\ k \in Cs /\ ~ mIsSuccess[x]
  BY DEF LogicEnter, TypeInv, HasEnds, LoginInv, LoginState
<1>1. /\ logicEnd[x] = "new" /\ logicEnd'[x] = "open"
      /\ \A y \in Conn \ {x} : logicEnd'[y] = logicEnd[y]
      /\ UNCHANGED <<owner, target, gAllLogicConnectionServerClient, mConnectionServerID>>
  BY DEF LogicEnter, TypeInv, TypeOK
<1>2. TableInv'
  BY <1>1 DEF LinkInv, TableInv
<1>3. CASE k \in alreadyConnectingServers[n]
  <2>1. UNCHANGED <<mIsSuccess, alreadyConnectingServers>>
    BY <1>3 DEF LogicEnter
  <2>2. \A m \in Server, j \in Cs : LoggedIn(m, j)' = LoggedIn(m, j)
    BY <1>0, <1>1, <2>1 DEF LoggedIn
  <2> QED
    BY <1>1, <1>2, <2>1, <2>2 DEF LinkInv, OneLogin
<1>4. CASE k \notin alreadyConnectingServers[n]
  <2>1. /\ mIsSuccess'[x] /\ \A y \in Conn \ {x} : mIsSuccess'[y] = mIsSuccess[y]
        /\ alreadyConnectingServers'[n] = alreadyConnectingServers[n] \cup {k}
        /\ \A m \in Server \ {n} : alreadyConnectingServers'[m] = alreadyConnectingServers[m]
    BY <1>0, <1>4 DEF LogicEnter, TypeInv, TypeOK
  <2>2. LoggedIn(n, k) = {}
    BY <1>0, <1>4 DEF LinkInv, OneLogin
  <2>3. LoggedIn(n, k)' = {x}
    BY <1>0, <1>1, <2>1, <2>2 DEF LoggedIn
  <2>4. ASSUME NEW m \in Server, NEW j \in Cs, m # n \/ j # k
        PROVE  LoggedIn(m, j)' = LoggedIn(m, j)
    BY <1>1, <2>1, <2>4 DEF LoggedIn
  <2>5. ASSUME NEW m \in Server, NEW j \in Cs
        PROVE  /\ \A y, z \in LoggedIn(m, j)' : y = z
               /\ j \in alreadyConnectingServers'[m] <=> LoggedIn(m, j)' # {}
               /\ gAllLogicConnectionServerClient'[m][j] \in LoggedIn(m, j)' \cup {Nil}
    <3>1. CASE m = n /\ j = k
      BY <1>1, <2>1, <2>2, <2>3, <3>1 DEF LinkInv, OneLogin
    <3>2. CASE m # n \/ j # k
      <4>1. LoggedIn(m, j)' = LoggedIn(m, j)
        BY <2>4, <3>2
      <4>2. j \in alreadyConnectingServers'[m] <=> j \in alreadyConnectingServers[m]
        BY <2>1, <3>2
      <4> QED
        BY <1>1, <4>1, <4>2 DEF LinkInv, OneLogin
    <3> QED
      BY <3>1, <3>2
  <2> QED
    BY <1>2, <2>5 DEF LinkInv, OneLogin
<1> QED
  BY <1>3, <1>4

\* ... when it handles a message, ...
LEMMA MsgLink ==
  ASSUME TypeInv, LoginInv, LinkInv, NEW x \in Conn, LogicMsg(x)
  PROVE  LinkInv'
<1> DEFINE n == owner[x]
           k == target[x]
<1>0. n \in Server /\ k \in Cs /\ x \in LoggedIn(n, k)
  BY DEF LogicMsg, TypeInv, HasEnds, LoginInv, LoginState, Started, LoggedIn
<1>1. /\ mConnectionServerID'[x] = k
      /\ \A y \in Conn \ {x} : mConnectionServerID'[y] = mConnectionServerID[y]
      /\ UNCHANGED <<owner, target, logicEnd, mIsSuccess, alreadyConnectingServers>>
  BY DEF LogicMsg, TypeInv, TypeOK
<1>2. \A m \in Server, j \in Cs : LoggedIn(m, j)' = LoggedIn(m, j)
  BY <1>1 DEF LoggedIn
<1>3. ASSUME NEW m \in Server, NEW j \in Cs
      PROVE  \/ gAllLogicConnectionServerClient'[m][j] = gAllLogicConnectionServerClient[m][j]
             \/ m = n /\ j = k /\ gAllLogicConnectionServerClient'[m][j] = x
  BY <1>0 DEF LogicMsg, TypeInv, TypeOK
<1>4. OneLogin'
  BY <1>0, <1>1, <1>2, <1>3 DEF LinkInv, OneLogin
<1>5. ASSUME NEW m \in Server, NEW j \in Cs, NEW y \in Conn,
             gAllLogicConnectionServerClient'[m][j] = y
      PROVE  mConnectionServerID'[y] = j
  <2>1. CASE y = x /\ m = n /\ j = k
    BY <1>1, <2>1
  <2>2. CASE gAllLogicConnectionServerClient[m][j] = y
    <3>1. y \in LoggedIn(m, j) /\ mConnectionServerID[y] = j
      BY <2>2, InTable DEF LinkInv, TableInv
    <3>2. y = x => j = k
      BY <3>1 DEF LoggedIn
    <3> QED
      BY <1>1, <3>1, <3>2
  <2> QED
    BY <1>3, <1>5, <2>1, <2>2
<1> QED
  BY <1>4, <1>5 DEF LinkInv, TableInv

\* ... when it handles the close, ...
LEMMA CloseLink ==
  ASSUME TypeInv, LoginInv, LinkInv, NEW x \in Conn, LogicClose(x)
  PROVE  LinkInv'
<1> DEFINE n == owner[x]
           k == target[x]
<1>0. n \in Server /\ k \in Cs /\ logicEnd[x] = "open"
  BY DEF LogicClose, TypeInv, HasEnds
<1>1. /\ logicEnd'[x] = "none"
      /\ \A y \in Conn \ {x} : logicEnd'[y] = logicEnd[y]
      /\ UNCHANGED <<owner, target, mIsSuccess, mConnectionServerID>>
  <2>1. logicEnd'[x] = "none" /\ \A y \in Conn \ {x} : logicEnd'[y] = logicEnd[y]
    BY DEF LogicClose, TypeInv, TypeOK
  <2>2. UNCHANGED <<owner, target, mIsSuccess, mConnectionServerID>>
    BY DEF LogicClose, wireVars
  <2> QED
    BY <2>1, <2>2
<1>2. ASSUME NEW m \in Server, NEW j \in Cs
      PROVE  LoggedIn(m, j)' = LoggedIn(m, j) \ {x}
  BY <1>1 DEF LoggedIn
<1>3. mConnectionServerID[x] \in {Nil, k} /\ (mConnectionServerID[x] # Nil => mIsSuccess[x])
  BY DEF LoginInv, LoginState, Started
<1>4. ASSUME NEW m \in Server, NEW j \in Cs
      PROVE  \/ /\ gAllLogicConnectionServerClient'[m][j] = gAllLogicConnectionServerClient[m][j]
                /\ gAllLogicConnectionServerClient[m][j] # x
             \/ gAllLogicConnectionServerClient'[m][j] = Nil
  <2>1. CASE gAllLogicConnectionServerClient[m][j] = x
    <3>1. x \in LoggedIn(m, j) /\ mConnectionServerID[x] = j
      BY <2>1, InTable DEF LinkInv, TableInv
    <3>2. m = n /\ j = k /\ mConnectionServerID[x] # Nil
      BY <3>1, ConstantsAssumption DEF LoggedIn
    <3> QED
      BY <1>0, <1>3, <3>2 DEF LogicClose, TypeInv, TypeOK
  <2>2. CASE gAllLogicConnectionServerClient[m][j] # x
    <3>1. \/ gAllLogicConnectionServerClient' = gAllLogicConnectionServerClient
          \/ gAllLogicConnectionServerClient' =
               [gAllLogicConnectionServerClient EXCEPT ![n][k] = Nil]
      BY <1>3 DEF LogicClose
    <3>2. gAllLogicConnectionServerClient \in [Server -> [Cs -> Conn \cup {Nil}]]
      BY DEF TypeInv, TypeOK
    <3>3. CASE gAllLogicConnectionServerClient' = gAllLogicConnectionServerClient
      BY <2>2, <3>3
    <3>4. CASE gAllLogicConnectionServerClient' =
                 [gAllLogicConnectionServerClient EXCEPT ![n][k] = Nil]
      <4>1. gAllLogicConnectionServerClient'[m][j] =
              IF m = n /\ j = k THEN Nil ELSE gAllLogicConnectionServerClient[m][j]
        BY <1>0, <3>2, <3>4
      <4> QED
        BY <2>2, <4>1
    <3> QED
      BY <3>1, <3>3, <3>4
  <2> QED
    BY <2>1, <2>2
<1>5. TableInv'
  BY <1>1, <1>4, ConstantsAssumption DEF LinkInv, TableInv
<1>6. ASSUME NEW m \in Server, NEW j \in Cs
      PROVE  j \in alreadyConnectingServers'[m] <=> LoggedIn(m, j)' # {}
  <2>1. j \in alreadyConnectingServers[m] <=> LoggedIn(m, j) # {}
    BY DEF LinkInv, OneLogin
  <2>2. CASE x \in LoggedIn(m, j)
    <3>1. m = n /\ j = k /\ mIsSuccess[x]
      BY <2>2 DEF LoggedIn
    <3>2. LoggedIn(m, j)' = {}
      BY <1>2, <2>2 DEF LinkInv, OneLogin
    <3>3. j \notin alreadyConnectingServers'[m]
      BY <1>0, <3>1 DEF LogicClose, TypeInv, TypeOK
    <3> QED
      BY <3>2, <3>3
  <2>3. CASE x \notin LoggedIn(m, j)
    <3>1. LoggedIn(m, j)' = LoggedIn(m, j)
      BY <1>2, <2>3
    <3>2. ~ mIsSuccess[x] \/ m # n \/ j # k
      BY <1>0, <2>3 DEF LoggedIn
    <3>3. j \in alreadyConnectingServers'[m] <=> j \in alreadyConnectingServers[m]
      BY <1>0, <3>2 DEF LogicClose, TypeInv, TypeOK
    <3> QED
      BY <2>1, <3>1, <3>3
  <2> QED
    BY <2>2, <2>3
<1>7. OneLogin'
  BY <1>2, <1>4, <1>6 DEF LinkInv, OneLogin
<1> QED
  BY <1>5, <1>7 DEF LinkInv

\* ... and when it crashes.
LEMMA CrashLink ==
  ASSUME TypeInv, LinkInv, NEW n \in Server, LogicCrash(n)
  PROVE  LinkInv'
<1>1. /\ \A x \in Conn : logicEnd'[x] = IF owner[x] = n THEN "none" ELSE logicEnd[x]
      /\ \A m \in Server : alreadyConnectingServers'[m] =
                             IF m = n THEN {} ELSE alreadyConnectingServers[m]
      /\ UNCHANGED <<owner, target, mIsSuccess, mConnectionServerID>>
  BY DEF LogicCrash, TypeInv, TypeOK
<1>2. ASSUME NEW m \in Server, NEW k \in Cs
      PROVE  /\ LoggedIn(m, k)' = IF m = n THEN {} ELSE LoggedIn(m, k)
             /\ gAllLogicConnectionServerClient'[m][k] =
                  IF m = n THEN Nil ELSE gAllLogicConnectionServerClient[m][k]
  <2>1. LoggedIn(m, k)' = IF m = n THEN {} ELSE LoggedIn(m, k)
    BY <1>1 DEF LoggedIn
  <2>2. gAllLogicConnectionServerClient'[m][k] =
          IF m = n THEN Nil ELSE gAllLogicConnectionServerClient[m][k]
    BY DEF LogicCrash, TypeInv, TypeOK
  <2> QED
    BY <2>1, <2>2
<1>3. OneLogin'
  BY <1>1, <1>2 DEF LinkInv, OneLogin
<1>4. TableInv'
  BY <1>1, <1>2, ConstantsAssumption DEF LinkInv, TableInv
<1> QED
  BY <1>3, <1>4 DEF LinkInv

\* Every step keeps both.
LEMMA NextLogin ==
  ASSUME TypeInv, LoginInv, LinkInv, [Next]_vars
  PROVE  LoginInv' /\ LinkInv'
<1> DEFINE Frame ==
      UNCHANGED <<owner, target, logicEnd, mIsSuccess, alreadyConnectingServers,
                  gAllLogicConnectionServerClient, mConnectionServerID>>
<1>1. CASE \E n \in Server, k \in Cs : \E x \in Conn : Connect(n, k, x)
  BY <1>1, ConnectLogin, ConnectLink
<1>2. ASSUME NEW x \in Conn, LogicEnter(x) \/ LogicMsg(x) \/ LogicClose(x)
      PROVE  LoginInv' /\ LinkInv'
  BY <1>2, ConnLogin, EnterLink, MsgLink, CloseLink
<1>3. ASSUME NEW x \in Conn, CsLoop(x) \/ Break(x)
      PROVE  LoginInv' /\ LinkInv'
  <2>1. LoginInv'
    BY <1>3, ConnLogin, BreakLogin DEF CsLoop
  <2>2. Frame
    BY <1>3 DEF CsLoop, LoginFind, LoginAdd, CsClose, Break, logicVars, wireVars
  <2> QED
    BY <2>1, <2>2, LinkFrame
<1>4. ASSUME NEW k \in Cs, CsCrash(k)
      PROVE  LoginInv' /\ LinkInv'
  <2>1. Frame
    BY <1>4 DEF CsCrash, logicVars
  <2> QED
    BY <1>4, <2>1, CrashLogin, LinkFrame
<1>5. ASSUME NEW n \in Server, LogicCrash(n)
      PROVE  LoginInv' /\ LinkInv'
  BY <1>5, CrashLogin, CrashLink
<1>6. CASE \/ \E k \in Cs : Publish(k) \/ Expire(k) \/ CsStart(k)
           \/ \E n \in Server : \/ Poll(n) \/ TryCompareConnect(n) \/ LogicStart(n)
                                \/ \E k \in Cs : ConnectFails(n, k)
           \/ UNCHANGED vars
  <2>1. Frame /\ UNCHANGED <<toCs, toLogic, csEnd>>
    BY <1>6 DEF Publish, Expire, CsStart, Poll, TryCompareConnect, LogicStart, ConnectFails,
                vars, csVars, logicVars, wireVars
  <2>2. LoginInv'
    BY <2>1, LoginFrame DEF LoginInv
  <2> QED
    BY <2>1, <2>2, LinkFrame
<1> QED
  BY <1>1, <1>2, <1>3, <1>4, <1>5, <1>6 DEF Next, ConnectThread, LogicThread

\* The strengthening of the properties below holds throughout.
LEMMA LoginCorrect == Spec => [](TypeInv /\ LoginInv /\ LinkInv)
<1>1. Init => TypeInv /\ LoginInv /\ LinkInv
  BY InitType, InitLogin, InitLink
<1>2. TypeInv /\ LoginInv /\ LinkInv /\ [Next]_vars => (TypeInv /\ LoginInv /\ LinkInv)'
  BY NextType, NextLogin
<1> QED
  BY <1>1, <1>2, PTL DEF Spec

\* However many connect threads race (ConnectionServerConnection.cpp:56) and whichever end
\* crashes, one connection to a server logs in at a time, and the server is neither
\* forgotten while there is one nor remembered when there is none (lines 100-137).
THEOREM OneLoginCorrect == Spec => []OneLogin
<1>1. LinkInv => OneLogin
  BY DEF LinkInv
<1> QED
  BY <1>1, LoginCorrect, PTL

\* The assertion of ConnectionServerConnection::onMsg holds: an accepted login finds no
\* entry in the table of connections.
THEOREM NoEntryCorrect == Spec => []LoginFindsNoEntry
<1>1. ASSUME TypeInv, LoginInv, LinkInv, NEW x \in Conn,
             logicEnd[x] = "open", toLogic[x] # <<>>
      PROVE  gAllLogicConnectionServerClient[owner[x]][target[x]] = Nil
  <2>1. owner[x] \in Server /\ target[x] \in Cs
    BY <1>1 DEF TypeInv, HasEnds
  <2>2. mConnectionServerID[x] = Nil /\ x \in LoggedIn(owner[x], target[x])
    BY <1>1 DEF LoginInv, LoginState, Started, LoggedIn
  <2>3. gAllLogicConnectionServerClient[owner[x]][target[x]] \in {x, Nil}
    BY <1>1, <2>1, <2>2 DEF LinkInv, OneLogin
  <2>4. target[x] # Nil
    BY <2>1, ConstantsAssumption
  <2> QED
    BY <1>1, <2>1, <2>2, <2>3, <2>4 DEF LinkInv, TableInv
<1>2. TypeInv /\ LoginInv /\ LinkInv => LoginFindsNoEntry
  BY <1>1 DEF LoginFindsNoEntry
<1> QED
  BY <1>2, LoginCorrect, PTL
===============================================================================
