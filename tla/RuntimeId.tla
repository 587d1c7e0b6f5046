------------------------------ MODULE RuntimeId ------------------------------
(***************************************************************************)
(* The runtime IDs the connection servers give their clients, and the map  *)
(* of a server's clients by these IDs.  A logic server knows a client of   *)
(* any connection server by its runtime ID alone.                          *)
(*                                                                         *)
(* MakeRuntimeID packs into 64 bits: the server's configured number and a  *)
(* counter of the process, each cut to 16 bits, and the time in seconds.   *)
(* Each loop of the server enters its own clients, so the counter, the     *)
(* clock and the map are reached in steps that interleave.  The counter is *)
(* a natural number here: it wraps at 2^32 in the code, which the 16 bits  *)
(* that are kept do not notice; nor are the 32 bits of the seconds cut.    *)
(***************************************************************************)
EXTENDS Integers

CONSTANTS
  Server,      \* the configured numbers of the connection servers
  ServerMod,   \* 2^16: what int16_t keeps of the server's number
  IncMod       \* 2^16: what int16_t keeps of the counter

ASSUME RuntimeIdAssumption ==
  Server \subseteq Int /\ ServerMod \in Nat \ {0} /\ IncMod \in Nat \ {0}

VARIABLES
  incRuntimeID,       \* incRuntimeID[s]: the counter of server s's process
  clock,              \* clock[s]: time(nullptr) on s
  run, entered,       \* (history) the process of s, and the clients that entered it
  counted,            \* the clients whose count is taken and not yet the time
  adding,             \* those whose ID is made and that are not in the map yet
  present,            \* those that were added and are not erased yet
  gAllClientObject,   \* the clients in the maps: c under c.mRuntimeID in c.server's
  issued              \* (history) the clients that ever had an ID made

idVars == <<incRuntimeID, clock, run, entered, counted, adding, present,
            gAllClientObject, issued>>

\* A mutant of MakeRuntimeID: the time in minutes.
MutMakeRuntimeID(n) ==
  [serverID |-> n.server % ServerMod, incID |-> n.inc % IncMod,
   time |-> clock[n.server] \div 60]

MakeRuntimeID(n) ==
  [serverID |-> n.server % ServerMod, incID |-> n.inc % IncMod,
   time |-> clock[n.server]]

\* The client that counted as n.
Client(n) ==
  [server |-> n.server, run |-> n.run, nth |-> n.nth, second |-> clock[n.server],
   mRuntimeID |-> MakeRuntimeID(n)]

SameProcess(c, d) == c.server = d.server /\ c.run = d.run

\* One key of one map.
SameKey(c, d) == SameProcess(c, d) /\ c.mRuntimeID = d.mRuntimeID

IdInit ==
  /\ incRuntimeID = [s \in Server |-> 0] /\ clock = [s \in Server |-> 0]
  /\ run = [s \in Server |-> 0] /\ entered = [s \in Server |-> 0]
  /\ counted = {} /\ adding = {} /\ present = {} /\ gAllClientObject = {}
  /\ issued = {}

NewClient(s) ==
  /\ entered' = [entered EXCEPT ![s] = @ + 1]
  /\ counted' = counted \cup {[server |-> s, run |-> run[s], nth |-> entered[s],
                               inc |-> incRuntimeID[s]]}
  /\ UNCHANGED <<clock, run, adding, present, gAllClientObject, issued>>

\* A mutant of Count: the counter is read and not counted on.
MutCount(s) == NewClient(s) /\ UNCHANGED incRuntimeID

\* onEnter of a client's session: MakeRuntimeID takes a count ...
Count(s) ==
  /\ NewClient(s)
  /\ incRuntimeID' = [incRuntimeID EXCEPT ![s] = @ + 1]

\* ... and reads the time, ...
Stamp(n) ==
  /\ n \in counted
  /\ counted' = counted \ {n}
  /\ adding' = adding \cup {Client(n)}
  /\ issued' = issued \cup {Client(n)}
  /\ UNCHANGED <<incRuntimeID, clock, run, entered, present, gAllClientObject>>

\* ... and AddClientByRuntimeID, which found no client under the ID or is built with
\* NDEBUG, stores the session.
Add(c) ==
  /\ c \in adding
  /\ adding' = adding \ {c}
  /\ present' = present \cup {c}
  /\ gAllClientObject' = {d \in gAllClientObject : ~ SameKey(c, d)} \cup {c}
  /\ UNCHANGED <<incRuntimeID, clock, run, entered, counted, issued>>

\* The timer of onClose: EraseClientByRuntimeID.
Erase(c) ==
  /\ c \in present
  /\ present' = present \ {c}
  /\ gAllClientObject' = {d \in gAllClientObject : ~ SameKey(c, d)}
  /\ UNCHANGED <<incRuntimeID, clock, run, entered, counted, adding, issued>>

\* The next second begins on s.
Tick(s) ==
  /\ clock' = [clock EXCEPT ![s] = @ + 1]
  /\ UNCHANGED <<incRuntimeID, run, entered, counted, adding, present,
                 gAllClientObject, issued>>

NewProcess(s) ==
  LET Others(S) == {c \in S : c.server # s} IN
    /\ run' = [run EXCEPT ![s] = @ + 1]
    /\ entered' = [entered EXCEPT ![s] = 0]
    /\ counted' = Others(counted) /\ adding' = Others(adding)
    /\ present' = Others(present) /\ gAllClientObject' = Others(gAllClientObject)
    /\ UNCHANGED <<clock, issued>>

\* A mutant of Restart: the counter begins at -1, the value of no ID.
MutRestart(s) ==
  NewProcess(s) /\ incRuntimeID' = [incRuntimeID EXCEPT ![s] = -1]

\* The process of s ends and another is started, in the same second or later.
Restart(s) ==
  NewProcess(s) /\ incRuntimeID' = [incRuntimeID EXCEPT ![s] = 0]

IdNext ==
  \/ \E s \in Server : Count(s) \/ Tick(s) \/ Restart(s)
  \/ \E n \in counted : Stamp(n)
  \/ \E c \in adding : Add(c)
  \/ \E c \in present : Erase(c)

IdSpec == IdInit /\ [][IdNext]_idVars

-----------------------------------------------------------------------------

Counts == [server : Server, run : Nat, nth : Nat, inc : Nat]
ID == [serverID : Int, incID : Int, time : Nat]
Clients == [server : Server, run : Nat, nth : Nat, second : Nat, mRuntimeID : ID]

IdTypeOK ==
  /\ incRuntimeID \in [Server -> Nat] /\ clock \in [Server -> Nat]
  /\ run \in [Server -> Nat] /\ entered \in [Server -> Nat]
  /\ counted \subseteq Counts
  /\ issued \subseteq Clients /\ adding \subseteq issued
  /\ present \subseteq issued /\ gAllClientObject \subseteq present

\* So many clients entered between the two that the counter's 16 bits wrapped.
Wrapped(c, d) == c.nth - d.nth >= IncMod \/ d.nth - c.nth >= IncMod

\* What two clients with one runtime ID have in common (ClientSession.cpp:53-55).  They
\* are of server numbers that 16 bits do not tell apart, their IDs were made in one
\* second, and between them either the process restarted or as many clients entered it
\* as the counter has values, whichever threads were held up between the count and the
\* clock: seldom, and not never.
SharedRuntimeID ==
  \A c, d \in issued :
    c # d /\ c.mRuntimeID = d.mRuntimeID =>
      /\ c.server % ServerMod = d.server % ServerMod
      /\ c.second = d.second
      /\ SameProcess(c, d) => Wrapped(c, d)

\* A client that entered is found under its runtime ID, from onEnter until the timer of
\* its onClose erases it, unless its ID was given to another client too, which entered
\* at least IncMod clients earlier or later (ClientSessionMgr.cpp:25-38).
PresentIsFound ==
  \A c \in present \ gAllClientObject :
    \E d \in issued : SameKey(c, d) /\ Wrapped(c, d)
=============================================================================
