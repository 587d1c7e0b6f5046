---------------------------- MODULE Net2LogicQueue ----------------------------
(***************************************************************************)
(* The path from the network threads to the logic thread of the logic and  *)
(* the center server (src/DDServerFramework/src/Common/NetThreadSession).  *)
(* ExtNetSession turns what happens to a connection into messages of       *)
(* gNet2LogicMsgList; the logic thread takes them and calls the            *)
(* BaseLogicSession the messages name.                                     *)
(*                                                                         *)
(* gNet2LogicMsgList is three lists: messages are pushed to mWriteList,    *)
(* forceSyncWrite moves them to mSharedList (both under                    *)
(* gNet2LogicMsgListLock) and syncRead takes mSharedList for the logic     *)
(* thread, without that lock.  The lists and EventLoop come from a library *)
(* outside the repository; they are modelled from how this code uses them. *)
(* A wakeup() of the logic thread's loop is taken to be remembered until   *)
(* the loop next waits.                                                    *)
(*                                                                         *)
(* One step is one critical section of a lock, or what one thread does     *)
(* between two of them.  A logic session lives until the last shared_ptr   *)
(* to it goes: those of its ExtNetSession, of messages, and of the         *)
(* variable msg in procNet2LogicMsgList.                                   *)
(***************************************************************************)
EXTENDS Naturals, Sequences

CONSTANTS
    Session,      \* the logic sessions, each with the ExtNetSession that holds it
    Worker,       \* the network threads
    WorkerOf,     \* WorkerOf[s]: the thread the connection of s is pinned to
    DataLimit,    \* DataLimit[s], a bound: data messages session s pushes
    NoMsg         \* msg holds no message

ASSUME ConstantsAssumption ==
    /\ WorkerOf \in [Session -> Worker]
    /\ DataLimit \in [Session -> Nat]

\* A message: type is mMsgType, n numbers the packets of a session.
Number == UNION {0..DataLimit[s] : s \in Session}
Net2LogicMsg == [session : Session, type : {"enter", "data", "close"}, n : Number]

ASSUME NoMsgAssumption == NoMsg \notin Net2LogicMsg

VARIABLES
    connection,   \* [s]: its ExtNetSession is "new", "open", "closed" or "released"
    packets,      \* [s]: number of packets received
    worker,       \* [w]: "idle", in "events", has to "sync", has to look whether to "wake"
    mWriteList, mSharedList, mReadList,
    awake,        \* wakeup() was called since the logic thread's loop last waited
    logic,        \* where the logic thread is: "wait", "read", "pop", "call"
    msg,          \* the variable msg of procNet2LogicMsgList
    handled,      \* history: the messages whose callbacks ran, oldest first
    destroyed     \* the logic sessions that were destroyed

vars == <<connection, packets, worker, mWriteList, mSharedList, mReadList, awake,
          logic, msg, handled, destroyed>>

-----------------------------------------------------------------------------
(* Lifetimes *)

InList(s, list) == \E i \in DOMAIN list : list[i].session = s

\* Mutant: msg does not keep its session alive.
MutHeld(s) ==
    \/ connection[s] # "released"
    \/ InList(s, mWriteList) \/ InList(s, mSharedList) \/ InList(s, mReadList)

\* Some shared_ptr to s is left.
Held(s) ==
    \/ connection[s] # "released"
    \/ InList(s, mWriteList) \/ InList(s, mSharedList) \/ InList(s, mReadList)
    \/ msg # NoMsg /\ msg.session = s

\* The last conjunct of a step that drops a shared_ptr.
DestroyUnheld == destroyed' = destroyed \cup {s \in Session : ~Held(s)'}

-----------------------------------------------------------------------------
(* The network threads *)

\* Mutant: the constructor leaves mMsgType unset.
MutPush(s, type, n) ==
    /\ mWriteList' = Append(mWriteList, [session |-> s, type |-> "unset", n |-> n])
    /\ UNCHANGED <<mSharedList, mReadList, awake, logic, msg, handled, destroyed>>

\* gNet2LogicMsgList.push under the lock.
Push(s, type, n) ==
    /\ mWriteList' = Append(mWriteList, [session |-> s, type |-> type, n |-> n])
    /\ UNCHANGED <<mSharedList, mReadList, awake, logic, msg, handled, destroyed>>

\* The thread of s handles an event of the connection of s.
InEvents(s) ==
    /\ worker[WorkerOf[s]] \in {"idle", "events"}
    /\ worker' = [worker EXCEPT ![WorkerOf[s]] = "events"]

\* ExtNetSession::onEnter.
Enter(s) ==
    /\ connection[s] = "new"
    /\ InEvents(s)
    /\ connection' = [connection EXCEPT ![s] = "open"]
    /\ Push(s, "enter", 0)
    /\ UNCHANGED packets

\* pushDataMsg2LogicMsgList, of one packet UsePacketExtNetSession::onMsg cut out.
Data(s) ==
    /\ connection[s] = "open" /\ packets[s] < DataLimit[s]
    /\ InEvents(s)
    /\ packets' = [packets EXCEPT ![s] = @ + 1]
    /\ Push(s, "data", packets'[s])
    /\ UNCHANGED connection

\* ExtNetSession::onClose.
Close(s) ==
    /\ connection[s] = "open"
    /\ InEvents(s)
    /\ connection' = [connection EXCEPT ![s] = "closed"]
    /\ Push(s, "close", 0)
    /\ UNCHANGED packets

\* The network library lets go of the ExtNetSession it closed.
Release(s) ==
    /\ connection[s] = "closed"
    /\ InEvents(s)
    /\ connection' = [connection EXCEPT ![s] = "released"]
    /\ UNCHANGED <<packets, mWriteList, mSharedList, mReadList, awake, logic, msg, handled>>
    /\ DestroyUnheld

\* The loop of w has handled its events (or there were none) and calls
\* syncNet2LogicMsgList.
EndEvents(w) ==
    /\ worker[w] \in {"idle", "events"}
    /\ \A s \in Session : WorkerOf[s] = w => connection[s] # "closed"
    /\ worker' = [worker EXCEPT ![w] = "sync"]
    /\ UNCHANGED <<connection, packets, mWriteList, mSharedList, mReadList, awake, logic,
                   msg, handled, destroyed>>

\* Mutant: what the logic thread has not taken yet is left behind what is new.
MutSyncWrite(w) ==
    /\ worker[w] = "sync"
    /\ worker' = [worker EXCEPT ![w] = "wake"]
    /\ mSharedList' = mWriteList \o mSharedList
    /\ mWriteList' = <<>>
    /\ UNCHANGED <<connection, packets, mReadList, awake, logic, msg, handled, destroyed>>

\* forceSyncWrite, under the lock.
SyncWrite(w) ==
    /\ worker[w] = "sync"
    /\ worker' = [worker EXCEPT ![w] = "wake"]
    /\ mSharedList' = mSharedList \o mWriteList
    /\ mWriteList' = <<>>
    /\ UNCHANGED <<connection, packets, mReadList, awake, logic, msg, handled, destroyed>>

\* Mutant: the size looked at is that of the list that was just emptied.
MutSyncWake(w) ==
    /\ worker[w] = "wake"
    /\ worker' = [worker EXCEPT ![w] = "idle"]
    /\ awake' = (awake \/ mWriteList # <<>>)
    /\ UNCHANGED <<connection, packets, mWriteList, mSharedList, mReadList, logic, msg,
                   handled, destroyed>>

\* sharedListSize() after the unlock: the logic thread, or another network thread,
\* may have changed the list by now.
SyncWake(w) ==
    /\ worker[w] = "wake"
    /\ worker' = [worker EXCEPT ![w] = "idle"]
    /\ awake' = (awake \/ mSharedList # <<>>)
    /\ UNCHANGED <<connection, packets, mWriteList, mSharedList, mReadList, logic, msg,
                   handled, destroyed>>

-----------------------------------------------------------------------------
(* The logic thread *)

logicUnchanged == <<connection, packets, worker, mWriteList>>

\* mainLoop->loop returns, because of a wakeup or at the end of its timeout.
Woken ==
    /\ logic = "wait" /\ awake
    /\ awake' = FALSE
    /\ logic' = "read"
    /\ UNCHANGED <<logicUnchanged, mSharedList, mReadList, msg, handled, destroyed>>

Timeout ==
    /\ logic = "wait" /\ ~awake
    /\ logic' = "read"
    /\ UNCHANGED <<logicUnchanged, mSharedList, mReadList, awake, msg, handled, destroyed>>

\* syncRead(0).
SyncRead ==
    /\ logic = "read"
    /\ logic' = "pop"
    /\ IF mReadList = <<>>
       THEN mReadList' = mSharedList /\ mSharedList' = <<>>
       ELSE UNCHANGED <<mReadList, mSharedList>>
    /\ UNCHANGED <<logicUnchanged, awake, msg, handled, destroyed>>

\* popFront(msg) returns true; msg lets go of the session it held.
PopFront ==
    /\ logic = "pop" /\ mReadList # <<>>
    /\ logic' = "call"
    /\ msg' = Head(mReadList)
    /\ mReadList' = Tail(mReadList)
    /\ UNCHANGED <<logicUnchanged, mSharedList, awake, handled>>
    /\ DestroyUnheld

\* The switch on mMsgType: the session's onEnter, onMsg or onClose.
Call ==
    /\ logic = "call"
    /\ logic' = "pop"
    /\ handled' = Append(handled, msg)
    /\ UNCHANGED <<logicUnchanged, mSharedList, mReadList, awake, msg, destroyed>>

\* popFront returns false; procNet2LogicMsgList returns.
Return ==
    /\ logic = "pop" /\ mReadList = <<>>
    /\ logic' = "wait"
    /\ msg' = NoMsg
    /\ UNCHANGED <<logicUnchanged, mSharedList, mReadList, awake, handled>>
    /\ DestroyUnheld

-----------------------------------------------------------------------------
(* The specification *)

Init ==
    /\ connection = [s \in Session |-> "new"]
    /\ packets = [s \in Session |-> 0]
    /\ worker = [w \in Worker |-> "idle"]
    /\ mWriteList = <<>> /\ mSharedList = <<>> /\ mReadList = <<>>
    /\ awake = FALSE
    /\ logic = "wait"
    /\ msg = NoMsg
    /\ handled = <<>>
    /\ destroyed = {}

WorkerStep(w) == EndEvents(w) \/ SyncWrite(w) \/ SyncWake(w)

LogicStep == Woken \/ SyncRead \/ PopFront \/ Call \/ Return

Next ==
    \/ \E s \in Session : Enter(s) \/ Data(s) \/ Close(s) \/ Release(s)
    \/ \E w \in Worker : WorkerStep(w)
    \/ LogicStep \/ Timeout

\* A network thread that is handling events comes to the end of them, and lets go of
\* the sessions it closed; the logic thread runs.  Nothing is assumed of Timeout: with
\* timers far away the loop returns for a wakeup or not at all.
Fairness ==
    /\ \A s \in Session : WF_vars(Release(s))
    /\ \A w \in Worker : WF_vars(worker[w] # "idle" /\ WorkerStep(w))
    /\ WF_vars(LogicStep)

Spec == Init /\ [][Next]_vars /\ Fairness

-----------------------------------------------------------------------------
(* Properties *)

\* The types of all variables.
TypeOK ==
    /\ connection \in [Session -> {"new", "open", "closed", "released"}]
    /\ packets \in [Session -> Number]
    /\ worker \in [Worker -> {"idle", "events", "sync", "wake"}]
    /\ mWriteList \in Seq(Net2LogicMsg)
    /\ mSharedList \in Seq(Net2LogicMsg)
    /\ mReadList \in Seq(Net2LogicMsg)
    /\ awake \in BOOLEAN
    /\ logic \in {"wait", "read", "pop", "call"}
    /\ msg \in Net2LogicMsg \cup {NoMsg}
    /\ handled \in Seq(Net2LogicMsg)
    /\ destroyed \in SUBSET Session

\* The three lists and the message being handled are one queue that the logic thread
\* empties in order, whatever the network threads do between its steps, and no wakeup
\* is missed.
InHand == IF logic = "call" THEN <<msg>> ELSE <<>>

Fifo == INSTANCE LogicQueue WITH
            Event <- Net2LogicMsg,
            pending <- InHand \o mReadList \o mSharedList \o mWriteList

ImplementsLogicQueue == Fifo!Spec

\* The callbacks of a session run as its connection lived: onEnter first, then onMsg
\* with the packets as they came, onClose last.
HandledInOrder ==
    \A i, j \in DOMAIN handled :
        i < j /\ handled[i].session = handled[j].session =>
            /\ handled[j].type # "enter"
            /\ handled[i].type # "close"
            /\ handled[j].type = "data" => handled[i].n < handled[j].n

\* A session is destroyed only after its onClose ran, on whatever thread the last
\* shared_ptr goes: gLogicCenterServerClient, a bare pointer set by onEnter and reset
\* by onClose, never points to a destroyed session.
DestroyedAfterClose ==
    \A s \in destroyed : \E i \in DOMAIN handled :
        handled[i].session = s /\ handled[i].type = "close"

\* A session whose connection closed is destroyed in the end: the destructor is what
\* makes CenterServerConnection connect again.
ClosedIsDestroyed ==
    \A s \in Session : connection[s] = "closed" ~> s \in destroyed

-----------------------------------------------------------------------------
(* What a comment says and the code does not do *)

\* NetThreadSession.h:12 (the events of the network threads become messages, for the
\* logic thread to handle): no part of a logic session runs on a network thread.  Its
\* destructor does, when the ExtNetSession goes last, and the destructor of
\* CenterServerConnection calls gTimerMgr, which the logic thread uses without a lock.
DestroyedByLogicThread ==
    [][destroyed' # destroyed => logic' # logic]_vars
===============================================================================
