------------------------- MODULE Net2LogicQueueProofs -------------------------
(***************************************************************************)
(* Proofs about Net2LogicQueue, for every set of sessions and threads and  *)
(* every bound: its types; that the three lists and the message in hand    *)
(* are the queue of LogicQueue, step by step; and, on what that queue and  *)
(* the messages handled hold together, the order of a session's callbacks  *)
(* and that no session is destroyed before its onClose.                    *)
(***************************************************************************)
EXTENDS Net2LogicQueue, SequenceTheorems, TLAPS

-----------------------------------------------------------------------------
(* Sequences *)

\* Appending to the last of two parts appends to the whole.
LEMMA AppendToLast ==
    ASSUME NEW S, NEW s \in Seq(S), NEW t \in Seq(S), NEW e \in S
    PROVE  s \o Append(t, e) = Append(s \o t, e)
  <1>1. <<e>> \in Seq(S) /\ s \o t \in Seq(S)
    BY ConcatProperties
  <1>2. Append(t, e) = t \o <<e>> /\ Append(s \o t, e) = (s \o t) \o <<e>>
    BY <1>1, AppendIsConcat
  <1>3. QED
    BY <1>1, <1>2, ConcatAssociative

\* Head and tail of a sequence that starts with e.
LEMMA HeadOfFirst ==
    ASSUME NEW S, NEW e \in S, NEW t \in Seq(S)
    PROVE  <<e>> \o t # <<>> /\ Head(<<e>> \o t) = e /\ Tail(<<e>> \o t) = t
  <1>1. <<e>> \in Seq(S) /\ Len(<<e>>) = 1 /\ <<e>>[1] = e
    OBVIOUS
  <1>2. /\ <<e>> \o t \in Seq(S) /\ Len(<<e>> \o t) = 1 + Len(t)
        /\ \A i \in 1 .. 1 + Len(t) : (<<e>> \o t)[i] = IF i <= 1 THEN <<e>>[i] ELSE t[i - 1]
    BY <1>1, ConcatProperties
  <1>3. Len(t) \in Nat
    BY LenProperties
  <1>4. <<e>> \o t # <<>> /\ Head(<<e>> \o t) = e
    BY <1>1, <1>2, <1>3
  <1>5. /\ Tail(<<e>> \o t) \in Seq(S) /\ Len(Tail(<<e>> \o t)) = Len(t)
        /\ \A i \in 1 .. Len(t) : Tail(<<e>> \o t)[i] = t[i]
    BY <1>2, <1>3, <1>4, HeadTailProperties
  <1>6. QED
    BY <1>4, <1>5, SeqEqual

\* A sequence is its head before its tail.
LEMMA HeadAndTail ==
    ASSUME NEW S, NEW s \in Seq(S), s # <<>>
    PROVE  <<Head(s)>> \o Tail(s) = s
  <1>1. /\ Head(s) \in S /\ Tail(s) \in Seq(S) /\ Len(Tail(s)) = Len(s) - 1
        /\ \A i \in 1 .. Len(Tail(s)) : Tail(s)[i] = s[i + 1]
    BY HeadTailProperties
  <1>2. Len(s) \in Nat /\ Len(s) > 0 /\ Head(s) = s[1]
    BY LenProperties, EmptySeq
  <1>3. <<Head(s)>> \in Seq(S) /\ Len(<<Head(s)>>) = 1 /\ <<Head(s)>>[1] = s[1]
    BY <1>1, <1>2
  <1>4. /\ <<Head(s)>> \o Tail(s) \in Seq(S) /\ Len(<<Head(s)>> \o Tail(s)) = Len(s)
        /\ \A i \in 1 .. Len(s) : (<<Head(s)>> \o Tail(s))[i] = s[i]
    BY <1>1, <1>2, <1>3, ConcatProperties
  <1>5. QED
    BY <1>4, SeqEqual

\* The elements of the first part keep their places.
LEMMA PartOfConcat ==
    ASSUME NEW S, NEW s \in Seq(S), NEW t \in Seq(S), NEW i \in DOMAIN s
    PROVE  i \in DOMAIN (s \o t) /\ (s \o t)[i] = s[i]
  <1>1. /\ DOMAIN s = 1 .. Len(s) /\ Len(s) \in Nat /\ Len(t) \in Nat
        /\ DOMAIN (s \o t) = 1 .. Len(s) + Len(t)
        /\ \A k \in 1 .. Len(s) + Len(t) : (s \o t)[k] = IF k <= Len(s) THEN s[k] ELSE t[k - Len(s)]
    BY ConcatProperties, LenProperties
  <1>2. QED
    BY <1>1

\* Where an element of a concatenation comes from.
LEMMA ElementOfConcat ==
    ASSUME NEW S, NEW s \in Seq(S), NEW t \in Seq(S), NEW i \in DOMAIN (s \o t)
    PROVE  \/ i \in DOMAIN s /\ (s \o t)[i] = s[i]
           \/ \E j \in DOMAIN t : (s \o t)[i] = t[j]
  <1>1. /\ DOMAIN s = 1 .. Len(s) /\ DOMAIN t = 1 .. Len(t) /\ Len(s) \in Nat /\ Len(t) \in Nat
        /\ DOMAIN (s \o t) = 1 .. Len(s) + Len(t)
        /\ \A k \in 1 .. Len(s) + Len(t) : (s \o t)[k] = IF k <= Len(s) THEN s[k] ELSE t[k - Len(s)]
    BY ConcatProperties, LenProperties
  <1>2. CASE i <= Len(s)
    BY <1>1, <1>2
  <1>3. CASE ~(i <= Len(s))
    <2>1. i - Len(s) \in DOMAIN t /\ (s \o t)[i] = t[i - Len(s)]
      BY <1>1, <1>3
    <2>2. QED
      BY <2>1
  <1>4. QED
    BY <1>2, <1>3

-----------------------------------------------------------------------------
(* Types *)

\* The numbers of a session's messages.
LEMMA NumbersOfSession ==
    /\ Number \subseteq Nat
    /\ \A s \in Session : /\ DataLimit[s] \in Nat
                           /\ 0..DataLimit[s] \subseteq Number
                           /\ 0 \in Number
  <1>1. \A s \in Session : DataLimit[s] \in Nat
    BY ConstantsAssumption
  <1>2. \A d \in Nat : 0 \in 0..d /\ 0..d \subseteq Nat
    OBVIOUS
  <1>3. \A s \in Session : 0..DataLimit[s] \in {0..DataLimit[t] : t \in Session}
    OBVIOUS
  <1>4. \A s \in Session : 0..DataLimit[s] \subseteq Number
    BY <1>3 DEF Number
  <1>5. \A S \in {0..DataLimit[t] : t \in Session} : S \subseteq Nat
    BY <1>1, <1>2
  <1>6. Number \subseteq Nat
    BY <1>5 DEF Number
  <1>7. QED
    BY <1>1, <1>2, <1>4, <1>6

\* What Push adds is a message.
LEMMA PushesMessages ==
    ASSUME TypeOK, NEW s \in Session, NEW type \in {"enter", "data", "close"},
           NEW n \in Number, Push(s, type, n)
    PROVE  /\ [session |-> s, type |-> type, n |-> n] \in Net2LogicMsg
           /\ mWriteList' \in Seq(Net2LogicMsg)
  <1>1. [session |-> s, type |-> type, n |-> n] \in Net2LogicMsg
    BY DEF Net2LogicMsg
  <1>2. QED
    BY <1>1, AppendProperties DEF TypeOK, Push

\* The number of a packet is in range.
LEMMA PacketNumber ==
    ASSUME TypeOK, NEW s \in Session, Data(s)
    PROVE  /\ packets[s] \in Nat /\ packets[s] + 1 \in Number
           /\ packets' = [packets EXCEPT ![s] = packets[s] + 1]
           /\ packets'[s] = packets[s] + 1
  <1>1. packets[s] \in Nat /\ DataLimit[s] \in Nat /\ packets[s] < DataLimit[s]
    BY NumbersOfSession DEF TypeOK, Data
  <1>2. packets[s] + 1 \in 0..DataLimit[s]
    BY <1>1
  <1>3. QED
    BY <1>1, <1>2, NumbersOfSession DEF TypeOK, Data

\* The types, and that the logic thread calls with a message in hand.
TypeInv == TypeOK /\ (logic = "call" => msg \in Net2LogicMsg)

\* The types are kept, by the initial states and by every step.
LEMMA TypeInvariant == Spec => []TypeInv
  <1>1. Init => TypeInv
    <2>1. SUFFICES ASSUME Init PROVE TypeInv
      OBVIOUS
    <2>2. packets \in [Session -> Number]
      BY <2>1, NumbersOfSession DEF Init
    <2>3. <<>> \in Seq(Net2LogicMsg)
      BY EmptySeq
    <2>4. QED
      BY <2>1, <2>2, <2>3 DEF Init, TypeInv, TypeOK
  <1>2. TypeInv /\ [Next]_vars => TypeInv'
    <2>1. SUFFICES ASSUME TypeInv, [Next]_vars PROVE TypeInv'
      OBVIOUS
    <2>2. ASSUME NEW s \in Session, Enter(s) PROVE TypeInv'
      <3>1. 0 \in Number
        BY NumbersOfSession
      <3>2. mWriteList' \in Seq(Net2LogicMsg)
        BY <2>1, <2>2, <3>1, PushesMessages DEF TypeInv, Enter
      <3>3. QED
        BY <2>1, <2>2, <3>2 DEF TypeInv, TypeOK, Enter, InEvents, Push
    <2>3. ASSUME NEW s \in Session, Data(s) PROVE TypeInv'
      <3>1. packets' = [packets EXCEPT ![s] = packets[s] + 1] /\ packets[s] + 1 \in Number
            /\ packets'[s] = packets[s] + 1
        BY <2>1, <2>3, PacketNumber DEF TypeInv
      <3>2. mWriteList' \in Seq(Net2LogicMsg)
        BY <2>1, <2>3, <3>1, PushesMessages DEF TypeInv, Data
      <3>3. packets' \in [Session -> Number]
        BY <2>1, <3>1 DEF TypeInv, TypeOK
      <3>4. QED
        BY <2>1, <2>3, <3>2, <3>3 DEF TypeInv, TypeOK, Data, InEvents, Push
    <2>4. ASSUME NEW s \in Session, Close(s) PROVE TypeInv'
      <3>1. 0 \in Number
        BY NumbersOfSession
      <3>2. mWriteList' \in Seq(Net2LogicMsg)
        BY <2>1, <2>4, <3>1, PushesMessages DEF TypeInv, Close
      <3>3. QED
        BY <2>1, <2>4, <3>2 DEF TypeInv, TypeOK, Close, InEvents, Push
    <2>5. ASSUME NEW s \in Session, Release(s) PROVE TypeInv'
      BY <2>1, <2>5 DEF TypeInv, TypeOK, Release, InEvents, DestroyUnheld
    <2>6. ASSUME NEW w \in Worker, EndEvents(w) PROVE TypeInv'
      BY <2>1, <2>6 DEF TypeInv, TypeOK, EndEvents
    <2>7. ASSUME NEW w \in Worker, SyncWrite(w) PROVE TypeInv'
      <3>1. mSharedList \o mWriteList \in Seq(Net2LogicMsg) /\ <<>> \in Seq(Net2LogicMsg)
        BY <2>1, ConcatProperties, EmptySeq DEF TypeInv, TypeOK
      <3>2. QED
        BY <2>1, <2>7, <3>1 DEF TypeInv, TypeOK, SyncWrite
    <2>8. ASSUME NEW w \in Worker, SyncWake(w) PROVE TypeInv'
      BY <2>1, <2>8 DEF TypeInv, TypeOK, SyncWake
    <2>9. CASE Woken
      BY <2>1, <2>9 DEF TypeInv, TypeOK, Woken, logicUnchanged
    <2>10. CASE Timeout
      BY <2>1, <2>10 DEF TypeInv, TypeOK, Timeout, logicUnchanged
    <2>11. CASE SyncRead
      <3>1. <<>> \in Seq(Net2LogicMsg)
        BY EmptySeq
      <3>2. QED
        BY <2>1, <2>11, <3>1 DEF TypeInv, TypeOK, SyncRead, logicUnchanged
    <2>12. CASE PopFront
      <3>1. Head(mReadList) \in Net2LogicMsg /\ Tail(mReadList) \in Seq(Net2LogicMsg)
        BY <2>1, <2>12, HeadTailProperties DEF TypeInv, TypeOK, PopFront
      <3>2. QED
        BY <2>1, <2>12, <3>1 DEF TypeInv, TypeOK, PopFront, logicUnchanged, DestroyUnheld
    <2>13. CASE Call
      <3>1. handled' \in Seq(Net2LogicMsg)
        BY <2>1, <2>13, AppendProperties DEF TypeInv, TypeOK, Call
      <3>2. QED
        BY <2>1, <2>13, <3>1 DEF TypeInv, TypeOK, Call, logicUnchanged
    <2>14. CASE Return
      BY <2>1, <2>14 DEF TypeInv, TypeOK, Return, logicUnchanged, DestroyUnheld
    <2>15. CASE UNCHANGED vars
      BY <2>1, <2>15 DEF TypeInv, TypeOK, vars
    <2>16. QED
      BY <2>1, <2>2, <2>3, <2>4, <2>5, <2>6, <2>7, <2>8, <2>9, <2>10, <2>11, <2>12, <2>13,
         <2>14, <2>15 DEF Next, WorkerStep, LogicStep
  <1>3. QED
    BY <1>1, <1>2, PTL DEF Spec

\* TypeOK: the variables of Net2LogicQueue keep their types.
THEOREM TypeCorrect == Spec => []TypeOK
  <1>1. TypeInv => TypeOK
    BY DEF TypeInv
  <1>2. QED
    BY <1>1, TypeInvariant, PTL

-----------------------------------------------------------------------------
(* The queue *)

\* What LogicQueue calls pending, as Fifo has it.
Pending == InHand \o mReadList \o mSharedList \o mWriteList

\* The message a step pushes, if it pushes one.
PushStep(e) ==
    /\ e \in Net2LogicMsg
    /\ Pending' = Append(Pending, e)
    /\ UNCHANGED handled

HandleStep ==
    /\ logic = "call" /\ Pending # <<>>
    /\ handled' = Append(handled, Head(Pending))
    /\ Pending' = Tail(Pending)

\* The parts of the queue are sequences of messages.
LEMMA PendingType ==
    ASSUME TypeInv
    PROVE  /\ InHand \in Seq(Net2LogicMsg)
           /\ InHand \o mReadList \in Seq(Net2LogicMsg)
           /\ InHand \o mReadList \o mSharedList \in Seq(Net2LogicMsg)
           /\ Pending \in Seq(Net2LogicMsg)
  <1>1. InHand \in Seq(Net2LogicMsg)
    <2>1. CASE logic = "call"
      BY <2>1 DEF TypeInv, InHand
    <2>2. CASE logic # "call"
      BY <2>2, EmptySeq DEF InHand
    <2>3. QED
      BY <2>1, <2>2
  <1>2. InHand \o mReadList \in Seq(Net2LogicMsg)
    BY <1>1, ConcatProperties DEF TypeInv, TypeOK
  <1>3. InHand \o mReadList \o mSharedList \in Seq(Net2LogicMsg)
    BY <1>2, ConcatProperties DEF TypeInv, TypeOK
  <1>4. Pending \in Seq(Net2LogicMsg)
    BY <1>3, ConcatProperties DEF TypeInv, TypeOK, Pending
  <1>5. QED
    BY <1>1, <1>2, <1>3, <1>4

\* What a network thread pushes comes last.
LEMMA PushIsLast ==
    ASSUME TypeInv, NEW s \in Session, NEW type \in {"enter", "data", "close"},
           NEW n \in Number, Push(s, type, n)
    PROVE  PushStep([session |-> s, type |-> type, n |-> n])
  <1> DEFINE e == [session |-> s, type |-> type, n |-> n]
  <1>1. e \in Net2LogicMsg
    BY DEF Net2LogicMsg
  <1>2. InHand' = InHand
    BY DEF Push, InHand
  <1>3. InHand \o mReadList \o mSharedList \o Append(mWriteList, e) = Append(Pending, e)
    BY <1>1, PendingType, AppendToLast DEF TypeInv, TypeOK, Pending
  <1>4. Pending' = Append(Pending, e)
    BY <1>2, <1>3 DEF Push, Pending
  <1>5. QED
    BY <1>1, <1>4 DEF PushStep, Push

\* The calls of the network threads that push.
LEMMA EventPushes ==
    ASSUME TypeInv, NEW s \in Session
    PROVE  /\ Enter(s) => PushStep([session |-> s, type |-> "enter", n |-> 0])
           /\ Data(s) => PushStep([session |-> s, type |-> "data", n |-> packets[s] + 1])
           /\ Close(s) => PushStep([session |-> s, type |-> "close", n |-> 0])
  <1>1. 0 \in Number
    BY NumbersOfSession
  <1>2. Enter(s) => PushStep([session |-> s, type |-> "enter", n |-> 0])
    BY <1>1, PushIsLast DEF Enter
  <1>3. Close(s) => PushStep([session |-> s, type |-> "close", n |-> 0])
    BY <1>1, PushIsLast DEF Close
  <1>4. ASSUME Data(s)
        PROVE  PushStep([session |-> s, type |-> "data", n |-> packets[s] + 1])
    <2>1. packets'[s] = packets[s] + 1 /\ packets[s] + 1 \in Number
      BY <1>4, PacketNumber DEF TypeInv
    <2>2. Push(s, "data", packets[s] + 1)
      BY <1>4, <2>1 DEF Data
    <2>3. QED
      BY <2>1, <2>2, PushIsLast
  <1>5. QED
    BY <1>2, <1>3, <1>4

\* Moving messages from one list to the next does not change the queue.
LEMMA MovesKeepPending ==
    ASSUME TypeInv,
           \/ \E w \in Worker : SyncWrite(w)
           \/ SyncRead
           \/ PopFront
    PROVE  Pending' = Pending /\ handled' = handled
  <1>1. /\ mWriteList \in Seq(Net2LogicMsg) /\ mSharedList \in Seq(Net2LogicMsg)
        /\ mReadList \in Seq(Net2LogicMsg) /\ InHand \in Seq(Net2LogicMsg)
        /\ <<>> \in Seq(Net2LogicMsg)
    BY PendingType, EmptySeq DEF TypeInv, TypeOK
  <1>2. ASSUME NEW w \in Worker, SyncWrite(w) PROVE Pending' = Pending /\ handled' = handled
    <2>1. InHand' = InHand /\ mReadList' = mReadList
      BY <1>2 DEF SyncWrite, InHand
    <2>2. mSharedList \o mWriteList \in Seq(Net2LogicMsg)
      BY <1>1, ConcatProperties
    <2>3. Pending' = InHand \o mReadList \o (mSharedList \o mWriteList) \o <<>>
      BY <1>2, <2>1 DEF Pending, SyncWrite
    <2>4. InHand \o mReadList \o (mSharedList \o mWriteList) \in Seq(Net2LogicMsg)
      BY <2>2, PendingType, ConcatProperties
    <2>5. Pending' = InHand \o mReadList \o (mSharedList \o mWriteList)
      BY <2>3, <2>4, ConcatEmptySeq
    <2>6. InHand \o mReadList \in Seq(Net2LogicMsg)
      BY PendingType
    <2>7. (InHand \o mReadList) \o mSharedList \o mWriteList
            = (InHand \o mReadList) \o (mSharedList \o mWriteList)
      <3>1. PICK S, a, b, c : /\ S = Net2LogicMsg /\ a = InHand \o mReadList
                              /\ b = mSharedList /\ c = mWriteList
        OBVIOUS
      <3>2. a \in Seq(S) /\ b \in Seq(S) /\ c \in Seq(S)
        BY <1>1, <2>6, <3>1
      <3>3. (a \o b) \o c = a \o (b \o c)
        BY <3>2, ConcatAssociative
      <3>4. QED
        BY <3>1, <3>3
    <2>8. QED
      BY <1>2, <2>5, <2>7 DEF Pending, SyncWrite
  <1>3. CASE SyncRead
    <2>1. InHand = <<>> /\ InHand' = <<>> /\ mWriteList' = mWriteList
      BY <1>3 DEF SyncRead, InHand, logicUnchanged
    <2>2. CASE mReadList = <<>>
      <3>1. mReadList' = mSharedList /\ mSharedList' = <<>>
        BY <1>3, <2>2 DEF SyncRead
      <3>2. Pending = <<>> \o <<>> \o mSharedList \o mWriteList
        BY <2>1, <2>2 DEF Pending
      <3>3. Pending' = <<>> \o mSharedList \o <<>> \o mWriteList
        BY <2>1, <3>1 DEF Pending
      <3>4. <<>> \o <<>> = <<>> /\ <<>> \o mSharedList = mSharedList
            /\ mSharedList \o <<>> = mSharedList
        BY <1>1, ConcatEmptySeq
      <3>5. QED
        BY <1>3, <3>2, <3>3, <3>4 DEF SyncRead
    <2>3. CASE mReadList # <<>>
      BY <1>3, <2>1, <2>3 DEF SyncRead, Pending
    <2>4. QED
      BY <2>2, <2>3
  <1>4. CASE PopFront
    <2>1. InHand = <<>> /\ InHand' = <<Head(mReadList)>>
      BY <1>4 DEF PopFront, InHand
    <2>2. InHand' \o mReadList' = mReadList
      BY <1>1, <1>4, <2>1, HeadAndTail DEF PopFront
    <2>3. InHand \o mReadList = mReadList
      BY <1>1, <2>1, ConcatEmptySeq
    <2>4. mSharedList' = mSharedList /\ mWriteList' = mWriteList /\ handled' = handled
      BY <1>4 DEF PopFront, logicUnchanged
    <2>5. QED
      BY <2>2, <2>3, <2>4 DEF Pending
  <1>5. QED
    BY <1>2, <1>3, <1>4

\* The call handles the head of the queue.
LEMMA CallIsHandle ==
    ASSUME TypeInv, Call
    PROVE  HandleStep
  <1> DEFINE rest == mReadList \o mSharedList \o mWriteList
  <1>1. /\ mWriteList \in Seq(Net2LogicMsg) /\ mSharedList \in Seq(Net2LogicMsg)
        /\ mReadList \in Seq(Net2LogicMsg) /\ msg \in Net2LogicMsg
    BY DEF TypeInv, TypeOK, Call
  <1>2. mReadList \o mSharedList \in Seq(Net2LogicMsg) /\ rest \in Seq(Net2LogicMsg)
    BY <1>1, ConcatProperties
  <1>3. InHand = <<msg>> /\ InHand' = <<>> /\ <<msg>> \in Seq(Net2LogicMsg)
    BY <1>1 DEF Call, InHand
  <1>4. Pending = <<msg>> \o rest
    BY <1>1, <1>2, <1>3, ConcatAssociative DEF Pending
  <1>5. Pending' = rest
    <2>1. Pending' = <<>> \o mReadList \o mSharedList \o mWriteList
      BY <1>3 DEF Call, Pending, logicUnchanged
    <2>2. <<>> \o mReadList = mReadList
      BY <1>1, ConcatEmptySeq
    <2>3. QED
      BY <2>1, <2>2
  <1>6. Pending # <<>> /\ Head(Pending) = msg /\ Tail(Pending) = rest
    BY <1>1, <1>2, <1>4, HeadOfFirst
  <1>7. QED
    BY <1>5, <1>6 DEF HandleStep, Call

\* The steps that touch neither the lists nor a message in hand.
OtherStep ==
    \/ \E s \in Session : Release(s)
    \/ \E w \in Worker : EndEvents(w) \/ SyncWake(w)
    \/ Woken \/ Timeout \/ Return
    \/ UNCHANGED vars

\* They leave the queue and what was handled alone.
LEMMA OthersKeepPending ==
    ASSUME TypeInv, OtherStep
    PROVE  Pending' = Pending /\ handled' = handled
  <1>1. /\ mWriteList' = mWriteList /\ mSharedList' = mSharedList
        /\ mReadList' = mReadList /\ handled' = handled
    BY DEF OtherStep, Release, EndEvents, SyncWake, Woken, Timeout, Return, vars,
           logicUnchanged
  <1>2. InHand' = InHand
    BY DEF OtherStep, Release, EndEvents, SyncWake, Woken, Timeout, Return, vars, InHand
  <1>3. QED
    BY <1>1, <1>2 DEF Pending

\* Every step pushes at the end, handles the head, or leaves the queue as it is.
LEMMA QueueSteps ==
    ASSUME TypeInv, [Next]_vars
    PROVE  \/ \E s \in Session :
                 \/ Enter(s) /\ PushStep([session |-> s, type |-> "enter", n |-> 0])
                 \/ Data(s) /\ PushStep([session |-> s, type |-> "data",
                                         n |-> packets[s] + 1])
                 \/ Close(s) /\ PushStep([session |-> s, type |-> "close", n |-> 0])
           \/ Call /\ HandleStep
           \/ /\ Pending' = Pending /\ handled' = handled
              /\ \/ (\E w \in Worker : SyncWrite(w)) \/ SyncRead \/ PopFront
                 \/ OtherStep
  <1>1. ASSUME NEW s \in Session, Enter(s) \/ Data(s) \/ Close(s)
        PROVE  \/ Enter(s) /\ PushStep([session |-> s, type |-> "enter", n |-> 0])
               \/ Data(s) /\ PushStep([session |-> s, type |-> "data", n |-> packets[s] + 1])
               \/ Close(s) /\ PushStep([session |-> s, type |-> "close", n |-> 0])
    BY <1>1, EventPushes
  <1>2. CASE Call
    BY <1>2, CallIsHandle
  <1>3. CASE (\E w \in Worker : SyncWrite(w)) \/ SyncRead \/ PopFront
    BY <1>3, MovesKeepPending
  <1>4. CASE OtherStep
    BY <1>4, OthersKeepPending
  <1>5. \/ \E s \in Session : Enter(s) \/ Data(s) \/ Close(s)
        \/ Call
        \/ (\E w \in Worker : SyncWrite(w)) \/ SyncRead \/ PopFront
        \/ OtherStep
    BY DEF Next, WorkerStep, LogicStep, OtherStep
  <1>6. QED
    BY <1>1, <1>2, <1>3, <1>4, <1>5

\* The safety part of ImplementsLogicQueue: the three lists and the message in hand
\* start as the empty queue of LogicQueue, and every step of the threads is a Report, a
\* Handle, or nothing to it.
THEOREM RefinesLogicQueue == Spec => Fifo!Init /\ [][Fifo!Next]_(Fifo!vars)
  <1>1. Init => Fifo!Init
    <2>1. SUFFICES ASSUME Init PROVE Fifo!Init
      OBVIOUS
    <2>2. InHand = <<>> /\ mReadList = <<>> /\ mSharedList = <<>> /\ mWriteList = <<>>
      BY <2>1 DEF Init, InHand
    <2>3. <<>> \o <<>> = <<>>
      BY EmptySeq, ConcatEmptySeq
    <2>4. InHand \o mReadList \o mSharedList \o mWriteList = <<>>
      BY <2>2, <2>3
    <2>5. QED
      BY <2>1, <2>4 DEF Fifo!Init, Init
  <1>2. TypeInv /\ [Next]_vars => [Fifo!Next]_(Fifo!vars)
    <2>1. SUFFICES ASSUME TypeInv, [Next]_vars PROVE [Fifo!Next]_(Fifo!vars)
      OBVIOUS
    <2>2. ASSUME NEW e, PushStep(e) PROVE Fifo!Next
      BY <2>2 DEF PushStep, Pending, Fifo!Next, Fifo!Report
    <2>3. HandleStep => Fifo!Next
      BY DEF HandleStep, Pending, Fifo!Next, Fifo!Handle
    <2>4. Pending' = Pending /\ handled' = handled => UNCHANGED Fifo!vars
      BY DEF Pending, Fifo!vars
    <2>5. QED
      BY <2>1, <2>2, <2>3, <2>4, QueueSteps
  <1>3. QED
    BY <1>1, <1>2, TypeInvariant, PTL DEF Spec

-----------------------------------------------------------------------------
(* The messages handled and those still in the queue, together: only a push changes *)
(* them, so what holds of the connections when they push holds of the callbacks.    *)

Whole == handled \o Pending

\* Whole grows by what is pushed and by nothing else.
LEMMA WholeSteps ==
    ASSUME TypeInv
    PROVE  /\ Whole \in Seq(Net2LogicMsg)
           /\ \A e : PushStep(e) => Whole' = Append(Whole, e)
           /\ HandleStep => Whole' = Whole
           /\ Pending' = Pending /\ handled' = handled => Whole' = Whole
  <1>1. handled \in Seq(Net2LogicMsg) /\ Pending \in Seq(Net2LogicMsg)
    BY PendingType DEF TypeInv, TypeOK
  <1>2. Whole \in Seq(Net2LogicMsg)
    BY <1>1, ConcatProperties DEF Whole
  <1>3. ASSUME NEW e, PushStep(e) PROVE Whole' = Append(Whole, e)
    <2>1. e \in Net2LogicMsg /\ Whole' = handled \o Append(Pending, e)
      BY <1>3 DEF PushStep, Whole
    <2>2. QED
      BY <1>1, <2>1, AppendToLast DEF Whole
  <1>4. ASSUME HandleStep PROVE Whole' = Whole
    <2>1. /\ Head(Pending) \in Net2LogicMsg /\ Tail(Pending) \in Seq(Net2LogicMsg)
          /\ <<Head(Pending)>> \o Tail(Pending) = Pending
      BY <1>1, <1>4, HeadTailProperties, HeadAndTail DEF HandleStep
    <2>2. <<Head(Pending)>> \in Seq(Net2LogicMsg)
      BY <2>1
    <2>3. Append(handled, Head(Pending)) = handled \o <<Head(Pending)>>
      BY <1>1, <2>1, AppendIsConcat
    <2>4. (handled \o <<Head(Pending)>>) \o Tail(Pending)
            = handled \o (<<Head(Pending)>> \o Tail(Pending))
      BY <1>1, <2>1, <2>2, ConcatAssociative
    <2>5. QED
      BY <1>4, <2>1, <2>3, <2>4 DEF HandleStep, Whole
  <1>5. Pending' = Pending /\ handled' = handled => Whole' = Whole
    BY DEF Whole
  <1>6. QED
    BY <1>2, <1>3, <1>4, <1>5

\* b may come after a in the life of their session.
MayFollow(a, b) ==
    a.session = b.session =>
        /\ b.type # "enter"
        /\ a.type # "close"
        /\ b.type = "data" => a.n < b.n

\* A message its connection, as it is now, can have pushed.
Pushed(e) ==
    /\ connection[e.session] # "new"
    /\ connection[e.session] = "open" => e.type # "close"
    /\ e.n <= packets[e.session]

Ordered == \A i, j \in DOMAIN Whole : i < j => MayFollow(Whole[i], Whole[j])

Fits == \A i \in DOMAIN Whole : Pushed(Whole[i])

ClosePushed ==
    \A s \in Session : connection[s] \in {"closed", "released"} =>
        \E i \in DOMAIN Whole : Whole[i].session = s /\ Whole[i].type = "close"

WholeInv == Ordered /\ Fits /\ ClosePushed

\* The elements of Append(w, e).
LEMMA ElementsOfAppend ==
    ASSUME NEW w \in Seq(Net2LogicMsg), NEW e \in Net2LogicMsg
    PROVE  /\ DOMAIN w = 1 .. Len(w) /\ Len(w) \in Nat
           /\ DOMAIN Append(w, e) = 1 .. Len(w) + 1
           /\ \A i \in DOMAIN w : Append(w, e)[i] = w[i]
           /\ Append(w, e)[Len(w) + 1] = e
  <1>1. /\ DOMAIN w = 1 .. Len(w) /\ Len(w) \in Nat
        /\ Append(w, e) \in Seq(Net2LogicMsg)
        /\ Len(Append(w, e)) = Len(w) + 1
        /\ \A i \in 1 .. Len(w) : Append(w, e)[i] = w[i]
        /\ Append(w, e)[Len(w) + 1] = e
    BY LenProperties, AppendProperties
  <1>2. DOMAIN Append(w, e) = 1 .. Len(Append(w, e))
    BY <1>1, LenProperties
  <1>3. QED
    BY <1>1, <1>2

\* What the three pushing calls have in common.
LEMMA PushKeepsWholeInv ==
    ASSUME TypeInv, WholeInv, NEW e \in Net2LogicMsg, PushStep(e),
           \A i \in DOMAIN Whole : MayFollow(Whole[i], e),
           \A m \in Net2LogicMsg : Pushed(m) => Pushed(m)',
           Pushed(e)',
           \A s \in Session : connection'[s] \in {"closed", "released"} =>
               \/ connection[s] \in {"closed", "released"}
               \/ e.session = s /\ e.type = "close"
    PROVE  WholeInv'
  <1>1. Whole \in Seq(Net2LogicMsg) /\ Whole' = Append(Whole, e)
    BY WholeSteps
  <1>2. /\ DOMAIN Whole = 1 .. Len(Whole) /\ Len(Whole) \in Nat
        /\ DOMAIN Whole' = 1 .. Len(Whole) + 1
        /\ \A i \in DOMAIN Whole : Whole'[i] = Whole[i]
        /\ Whole'[Len(Whole) + 1] = e
    BY <1>1, ElementsOfAppend
  <1>3. Ordered'
    <2>1. SUFFICES ASSUME NEW i \in DOMAIN Whole', NEW j \in DOMAIN Whole', i < j
                   PROVE  MayFollow(Whole'[i], Whole'[j])
      BY DEF Ordered, MayFollow
    <2>2. i \in DOMAIN Whole /\ Whole'[i] = Whole[i]
      BY <1>2, <2>1
    <2>3. CASE j \in DOMAIN Whole
      BY <1>2, <2>1, <2>2, <2>3 DEF WholeInv, Ordered
    <2>4. CASE j = Len(Whole) + 1
      BY <1>2, <2>2, <2>4
    <2>5. QED
      BY <1>2, <2>3, <2>4
  <1>4. Fits'
    <2>1. \A i \in DOMAIN Whole : Whole[i] \in Net2LogicMsg /\ Pushed(Whole[i])
      BY <1>1, <1>2, ElementOfSeq DEF WholeInv, Fits
    <2>2. SUFFICES ASSUME NEW i \in DOMAIN Whole' PROVE Pushed(Whole[i])'
      BY DEF Fits
    <2>3. CASE i \in DOMAIN Whole
      BY <1>2, <2>1, <2>3 DEF Pushed
    <2>4. CASE i = Len(Whole) + 1
      BY <1>2, <2>4 DEF Pushed
    <2>5. QED
      BY <1>2, <2>3, <2>4
  <1>5. ClosePushed'
    <2>1. SUFFICES ASSUME NEW s \in Session, connection'[s] \in {"closed", "released"}
                   PROVE  \E i \in DOMAIN Whole' :
                              Whole'[i].session = s /\ Whole'[i].type = "close"
      BY DEF ClosePushed
    <2>2. CASE connection[s] \in {"closed", "released"}
      BY <1>2, <2>2 DEF WholeInv, ClosePushed
    <2>3. CASE e.session = s /\ e.type = "close"
      BY <1>2, <2>3
    <2>4. QED
      BY <2>1, <2>2, <2>3
  <1>6. QED
    BY <1>3, <1>4, <1>5 DEF WholeInv

\* A connection only moves on, so a message it pushed stays one it can have pushed.
LEMMA PushedStays ==
    ASSUME TypeInv, [Next]_vars, NEW m \in Net2LogicMsg, Pushed(m)
    PROVE  Pushed(m)'
  <1>1. m.session \in Session /\ m.n \in Nat /\ packets[m.session] \in Nat
    BY NumbersOfSession DEF Net2LogicMsg, TypeInv, TypeOK
  <1>2. ASSUME NEW s \in Session, Enter(s) PROVE Pushed(m)'
    BY <1>1, <1>2 DEF Pushed, Enter, TypeInv, TypeOK
  <1>3. ASSUME NEW s \in Session, Data(s) PROVE Pushed(m)'
    <2>1. packets' = [packets EXCEPT ![s] = packets[s] + 1]
      BY <1>3, PacketNumber DEF TypeInv
    <2>2. packets[m.session] <= packets'[m.session]
      BY <1>1, <2>1 DEF TypeInv, TypeOK
    <2>3. packets'[m.session] \in Nat
      BY <1>1, <2>1 DEF TypeInv, TypeOK
    <2>4. QED
      BY <1>1, <1>3, <2>2, <2>3 DEF Pushed, Data
  <1>4. ASSUME NEW s \in Session, Close(s) PROVE Pushed(m)'
    BY <1>1, <1>4 DEF Pushed, Close, TypeInv, TypeOK
  <1>5. ASSUME NEW s \in Session, Release(s) PROVE Pushed(m)'
    BY <1>1, <1>5 DEF Pushed, Release, TypeInv, TypeOK
  <1>6. CASE connection' = connection /\ packets' = packets
    BY <1>6 DEF Pushed
  <1>7. \/ \E s \in Session : Enter(s) \/ Data(s) \/ Close(s) \/ Release(s)
        \/ connection' = connection /\ packets' = packets
    BY DEF Next, WorkerStep, LogicStep, EndEvents, SyncWrite, SyncWake, Woken, Timeout,
           SyncRead, PopFront, Call, Return, logicUnchanged, vars
  <1>8. QED
    BY <1>2, <1>3, <1>4, <1>5, <1>6, <1>7

\* The three parts of WholeInv are kept by a step that leaves Whole as it is.
LEMMA SameKeepsWholeInv ==
    ASSUME TypeInv, WholeInv, [Next]_vars, Whole' = Whole,
           \A s \in Session : connection'[s] \in {"closed", "released"} =>
               connection[s] \in {"closed", "released"}
    PROVE  WholeInv'
  <1>1. Ordered'
    BY DEF WholeInv, Ordered, MayFollow
  <1>2. Fits'
    <2>1. \A i \in DOMAIN Whole : Whole[i] \in Net2LogicMsg /\ Pushed(Whole[i])
      <3>1. Whole \in Seq(Net2LogicMsg)
        BY WholeSteps
      <3>2. DOMAIN Whole = 1 .. Len(Whole)
        BY <3>1, LenProperties
      <3>3. QED
        BY <3>1, <3>2, ElementOfSeq DEF WholeInv, Fits
    <2>2. \A m \in Net2LogicMsg : Pushed(m) => Pushed(m)'
      BY PushedStays
    <2>3. QED
      BY <2>1, <2>2 DEF Fits, Pushed
  <1>3. ClosePushed'
    BY DEF WholeInv, ClosePushed
  <1>4. QED
    BY <1>1, <1>2, <1>3 DEF WholeInv

\* WholeInv is kept by every step.
LEMMA WholeInvariant == Spec => []WholeInv
  <1>1. Init => WholeInv
    <2>1. SUFFICES ASSUME Init PROVE WholeInv
      OBVIOUS
    <2>2. <<>> \o <<>> = <<>>
      BY EmptySeq, ConcatEmptySeq
    <2>3. Whole = <<>>
      BY <2>1, <2>2 DEF Init, Whole, Pending, InHand
    <2>4. DOMAIN Whole = {}
      BY <2>3
    <2>5. QED
      BY <2>1, <2>4 DEF Init, WholeInv, Ordered, Fits, ClosePushed
  <1>2. TypeInv /\ WholeInv /\ [Next]_vars => WholeInv'
    <2>1. SUFFICES ASSUME TypeInv, WholeInv, [Next]_vars PROVE WholeInv'
      OBVIOUS
    <2>2. \A m \in Net2LogicMsg : Pushed(m) => Pushed(m)'
      BY <2>1, PushedStays
    <2>3. \A i \in DOMAIN Whole : Whole[i] \in Net2LogicMsg /\ Pushed(Whole[i])
      <3>1. Whole \in Seq(Net2LogicMsg)
        BY <2>1, WholeSteps
      <3>2. DOMAIN Whole = 1 .. Len(Whole)
        BY <3>1, LenProperties
      <3>3. QED
        BY <2>1, <3>1, <3>2, ElementOfSeq DEF WholeInv, Fits
    <2>4. ASSUME NEW s \in Session, Enter(s),
                 PushStep([session |-> s, type |-> "enter", n |-> 0])
          PROVE  WholeInv'
      <3> DEFINE e == [session |-> s, type |-> "enter", n |-> 0]
      <3>1. e \in Net2LogicMsg
        BY <2>4 DEF PushStep
      <3>2. \A i \in DOMAIN Whole : MayFollow(Whole[i], e)
        BY <2>3, <2>4 DEF Pushed, Enter, MayFollow
      <3>3. packets'[s] \in Nat /\ connection'[s] = "open"
        BY <2>1, <2>4, NumbersOfSession DEF TypeInv, TypeOK, Enter
      <3>4. connection'[e.session] # "new" /\ e.type # "close" /\ e.n <= packets'[e.session]
        BY <3>3
      <3>5. \A t \in Session : connection'[t] \in {"closed", "released"} =>
                connection[t] \in {"closed", "released"}
        BY <2>1, <2>4 DEF TypeInv, TypeOK, Enter
      <3>6. QED
        BY <2>1, <2>2, <2>4, <3>1, <3>2, <3>4, <3>5, PushKeepsWholeInv DEF Pushed
    <2>5. ASSUME NEW s \in Session, Data(s),
                 PushStep([session |-> s, type |-> "data", n |-> packets[s] + 1])
          PROVE  WholeInv'
      <3> DEFINE e == [session |-> s, type |-> "data", n |-> packets[s] + 1]
      <3>1. e \in Net2LogicMsg
        BY <2>5 DEF PushStep
      <3>2. packets[s] \in Nat /\ packets'[s] = packets[s] + 1
        BY <2>1, <2>5, PacketNumber DEF TypeInv
      <3>3. \A i \in DOMAIN Whole : Whole[i].n \in Nat
        BY <2>3, NumbersOfSession DEF Net2LogicMsg
      <3>4. \A i \in DOMAIN Whole : MayFollow(Whole[i], e)
        BY <2>3, <2>5, <3>2, <3>3 DEF Pushed, Data, MayFollow
      <3>5. connection' = connection /\ connection[s] = "open"
        BY <2>5 DEF Data
      <3>6. connection'[e.session] # "new" /\ e.type # "close" /\ e.n <= packets'[e.session]
        BY <3>2, <3>5
      <3>7. QED
        BY <2>1, <2>2, <2>5, <3>1, <3>4, <3>5, <3>6, PushKeepsWholeInv DEF Pushed
    <2>6. ASSUME NEW s \in Session, Close(s),
                 PushStep([session |-> s, type |-> "close", n |-> 0])
          PROVE  WholeInv'
      <3> DEFINE e == [session |-> s, type |-> "close", n |-> 0]
      <3>1. e \in Net2LogicMsg
        BY <2>6 DEF PushStep
      <3>2. \A i \in DOMAIN Whole : MayFollow(Whole[i], e)
        BY <2>3, <2>6 DEF Pushed, Close, MayFollow
      <3>3. packets'[s] \in Nat /\ connection'[s] = "closed"
        BY <2>1, <2>6, NumbersOfSession DEF TypeInv, TypeOK, Close
      <3>4. connection'[e.session] \notin {"new", "open"} /\ e.n <= packets'[e.session]
        BY <3>3
      <3>5. \A t \in Session : connection'[t] \in {"closed", "released"} =>
                \/ connection[t] \in {"closed", "released"}
                \/ e.session = t /\ e.type = "close"
        BY <2>1, <2>6 DEF TypeInv, TypeOK, Close
      <3>6. QED
        BY <2>1, <2>2, <2>6, <3>1, <3>2, <3>4, <3>5, PushKeepsWholeInv DEF Pushed
    <2>7. CASE Call /\ HandleStep
      <3>1. connection' = connection
        BY <2>7 DEF Call, logicUnchanged
      <3>2. QED
        BY <2>1, <2>7, <3>1, WholeSteps, SameKeepsWholeInv
    <2>8. CASE /\ Pending' = Pending /\ handled' = handled
               /\ (\E w \in Worker : SyncWrite(w)) \/ SyncRead \/ PopFront \/ OtherStep
      <3>1. \A s \in Session : connection'[s] \in {"closed", "released"} =>
                connection[s] \in {"closed", "released"}
        <4>1. ASSUME NEW s \in Session, Release(s)
              PROVE  \A t \in Session : connection'[t] \in {"closed", "released"} =>
                         connection[t] \in {"closed", "released"}
          BY <2>1, <4>1 DEF TypeInv, TypeOK, Release
        <4>2. (\E s \in Session : Release(s)) \/ connection' = connection
          BY <2>8 DEF OtherStep, SyncWrite, SyncRead, PopFront, EndEvents, SyncWake,
                      Woken, Timeout, Return, logicUnchanged, vars
        <4>3. QED
          BY <4>1, <4>2
      <3>2. QED
        BY <2>1, <2>8, <3>1, WholeSteps, SameKeepsWholeInv
    <2>9. QED
      BY <2>1, <2>4, <2>5, <2>6, <2>7, <2>8, QueueSteps
  <1>3. QED
    BY <1>1, <1>2, TypeInvariant, PTL DEF Spec

\* HandledInOrder: the callbacks of a session run as its connection lived, however the
\* network threads and the logic thread interleave.
THEOREM OrderCorrect == Spec => []HandledInOrder
  <1>1. TypeInv /\ WholeInv => HandledInOrder
    <2>1. SUFFICES ASSUME TypeInv, WholeInv,
                          NEW i \in DOMAIN handled, NEW j \in DOMAIN handled, i < j
                   PROVE  MayFollow(handled[i], handled[j])
      BY DEF HandledInOrder, MayFollow
    <2>2. handled \in Seq(Net2LogicMsg) /\ Pending \in Seq(Net2LogicMsg)
      BY <2>1, PendingType DEF TypeInv, TypeOK
    <2>3. \A k \in DOMAIN handled : k \in DOMAIN Whole /\ Whole[k] = handled[k]
      BY <2>2, PartOfConcat DEF Whole
    <2>4. QED
      BY <2>1, <2>3 DEF WholeInv, Ordered
  <1>2. QED
    BY <1>1, TypeInvariant, WholeInvariant, PTL

\* What UnheldWasClosed says, as a state predicate.
UnheldClosed ==
    \A s \in Session : ~Held(s) =>
        \E i \in DOMAIN handled : handled[i].session = s /\ handled[i].type = "close"

\* A session nothing holds any more had its onClose: its close was pushed, and it is
\* neither in a list nor in hand.
LEMMA UnheldWasClosed ==
    ASSUME TypeInv, WholeInv, NEW s \in Session, ~Held(s)
    PROVE  \E i \in DOMAIN handled : handled[i].session = s /\ handled[i].type = "close"
  <1>1. /\ handled \in Seq(Net2LogicMsg) /\ InHand \in Seq(Net2LogicMsg)
        /\ mReadList \in Seq(Net2LogicMsg) /\ mSharedList \in Seq(Net2LogicMsg)
        /\ mWriteList \in Seq(Net2LogicMsg)
        /\ InHand \o mReadList \in Seq(Net2LogicMsg)
        /\ InHand \o mReadList \o mSharedList \in Seq(Net2LogicMsg)
        /\ Pending \in Seq(Net2LogicMsg)
    BY PendingType DEF TypeInv, TypeOK
  <1>2. connection[s] = "released"
    BY DEF Held
  <1>3. PICK i \in DOMAIN Whole : Whole[i].session = s /\ Whole[i].type = "close"
    BY <1>2 DEF WholeInv, ClosePushed
  <1>4. /\ \A j \in DOMAIN mReadList : mReadList[j].session # s
        /\ \A j \in DOMAIN mSharedList : mSharedList[j].session # s
        /\ \A j \in DOMAIN mWriteList : mWriteList[j].session # s
    BY DEF Held, InList
  <1>5. \A j \in DOMAIN InHand : InHand[j].session # s
    <2>1. CASE logic = "call"
      <3>1. msg # NoMsg
        BY <2>1, NoMsgAssumption DEF TypeInv
      <3>2. msg.session # s
        BY <3>1 DEF Held
      <3>3. QED
        BY <2>1, <3>2 DEF InHand
    <2>2. CASE logic # "call"
      BY <2>2 DEF InHand
    <2>3. QED
      BY <2>1, <2>2
  <1>6. \A j \in DOMAIN (InHand \o mReadList) : (InHand \o mReadList)[j].session # s
    BY <1>1, <1>4, <1>5, ElementOfConcat
  <1>7. \A j \in DOMAIN (InHand \o mReadList \o mSharedList) :
            (InHand \o mReadList \o mSharedList)[j].session # s
    BY <1>1, <1>4, <1>6, ElementOfConcat
  <1>8. \A j \in DOMAIN Pending : Pending[j].session # s
    BY <1>1, <1>4, <1>7, ElementOfConcat DEF Pending
  <1>9. QED
    BY <1>1, <1>3, <1>8, ElementOfConcat DEF Whole

\* DestroyedAfterClose: no logic session is destroyed before its onClose ran, whichever
\* thread drops the last shared_ptr to it.
THEOREM DestroyCorrect == Spec => []DestroyedAfterClose
  <1> DEFINE HadClose(s) ==
          \E i \in DOMAIN handled : handled[i].session = s /\ handled[i].type = "close"
  <1>1. Init => DestroyedAfterClose
    BY DEF Init, DestroyedAfterClose
  <1>2. TypeInv /\ WholeInv => UnheldClosed
    BY UnheldWasClosed DEF UnheldClosed
  <1>3. TypeInv /\ UnheldClosed' /\ DestroyedAfterClose /\ [Next]_vars
            => DestroyedAfterClose'
    <2>1. SUFFICES ASSUME TypeInv, UnheldClosed', DestroyedAfterClose, [Next]_vars,
                          NEW s \in destroyed'
                   PROVE  HadClose(s)'
      BY DEF DestroyedAfterClose
    <2>2. CASE s \in destroyed
      <3>1. HadClose(s)
        BY <2>1, <2>2 DEF DestroyedAfterClose
      <3>2. CASE handled' = handled
        BY <3>1, <3>2
      <3>3. CASE Call
        <4>1. handled \in Seq(Net2LogicMsg) /\ msg \in Net2LogicMsg
              /\ handled' = Append(handled, msg)
          BY <2>1, <3>3 DEF TypeInv, TypeOK, Call
        <4>2. \A i \in DOMAIN handled : i \in DOMAIN handled' /\ handled'[i] = handled[i]
          BY <4>1, ElementsOfAppend
        <4>3. QED
          BY <3>1, <4>2
      <3>4. QED
        BY <2>1, <3>2, <3>3, QueueSteps DEF PushStep
    <2>3. CASE s \notin destroyed
      <3>1. destroyed' = destroyed \/ DestroyUnheld
        BY <2>1 DEF Next, WorkerStep, LogicStep, Enter, Data, Close, Push, Release,
                    EndEvents, SyncWrite, SyncWake, Woken, Timeout, SyncRead, PopFront,
                    Call, Return, vars
      <3>2. s \in Session /\ ~Held(s)'
        BY <2>1, <2>3, <3>1 DEF DestroyUnheld
      <3>3. QED
        BY <2>1, <3>2 DEF UnheldClosed
    <2>4. QED
      BY <2>2, <2>3
  <1>4. QED
    BY <1>1, <1>2, <1>3, TypeInvariant, WholeInvariant, PTL DEF Spec
===============================================================================
