---------------------------- MODULE ClockProofs -----------------------------
(***************************************************************************)
(* Proofs about the two parts that count seconds.                          *)
(*                                                                         *)
(* Two clients have one runtime ID only if the counter wrapped between     *)
(* them or the process restarted, for any connection servers, any widths   *)
(* and any number of clients, seconds, restarts and threads between the    *)
(* count and the clock.  IdInv is inductive: each client of a process has  *)
(* a count of its own (OneEach), whether its thread has read the clock or  *)
(* not (NoDouble), and an ID made of it (IssuedInv).  Two counts that      *)
(* agree in 16 bits and lie closer than 2^16 are one (ModEqual).  A client *)
(* that is in no map was displaced by one of the same ID (FoundInv).       *)
(*                                                                         *)
(* The key of a running connection server stays in etcd as long as the     *)
(* requests in vain and the sleeps leave it time, for every period,        *)
(* timeout, lifetime and number of endpoints.  LeaseInv bounds the age of  *)
(* the key at each point of the loop: what is left of the round in which   *)
(* it was set, and since then a period for each sleep and a timeout for    *)
(* each request in vain.                                                   *)
(***************************************************************************)
EXTENDS RuntimeId, EtcdLease, TLAPS

(***************************************************************************)
(* Runtime IDs                                                             *)
(***************************************************************************)

\* Two numbers closer than m that agree modulo m are equal: what the 16 bits
\* of the counter are enough for.
LEMMA ModEqual ==
  ASSUME NEW m \in Nat \ {0}, NEW a \in Nat, NEW b \in Nat,
         a % m = b % m, a - b < m, b - a < m
  PROVE  a = b
<1> DEFINE p == a \div m
           q == b \div m
<1>1. p \in Int /\ q \in Int /\ a = m * p + (a % m) /\ b = m * q + (b % m)
  BY SMT
<1>2. a - b = m * (p - q)
  <2> HIDE DEF p, q
  <2>1. a % m \in Int
    BY SMT
  <2>2. \A r \in Int : a = m * p + r /\ b = m * q + r => a - b = m * (p - q)
    BY <1>1, SMT
  <2> QED
    BY <1>1, <2>1, <2>2
<1>3. \A x \in Int : m * x < m /\ - (m * x) < m => x = 0
  <2> SUFFICES ASSUME NEW x \in Int, m * x < m, - (m * x) < m
               PROVE  x = 0
    OBVIOUS
  <2>1. CASE x >= 1
    <3>1. m * x >= m
      BY <2>1, SMT
    <3> QED
      BY <3>1, SMT
  <2>2. CASE x <= -1
    <3>1. - (m * x) >= m
      BY <2>2, SMT
    <3> QED
      BY <3>1, SMT
  <2> QED
    BY <2>1, <2>2, SMT
<1>4. p - q = 0
  <2> HIDE DEF p, q
  <2>1. p - q \in Int /\ - (a - b) < m /\ a - b < m
    BY <1>1, SMT
  <2> QED
    BY <1>2, <1>3, <2>1
<1> QED
  <2> HIDE DEF p, q
  <2>1. m * (p - q) = 0
    BY <1>1, <1>4, SMT
  <2> QED
    BY <1>2, <2>1, SMT

(***************************************************************************)
(* The inductive invariant of the runtime IDs                              *)
(***************************************************************************)

\* The counter counts the clients.
CountersAgree == \A s \in Server : incRuntimeID[s] = entered[s]

CountedInv == \A n \in counted :
  n.run = run[n.server] /\ n.nth < entered[n.server] /\ n.inc = n.nth

MadeOf(c) ==
  /\ c.mRuntimeID.serverID = c.server % ServerMod
  /\ c.mRuntimeID.incID = c.nth % IncMod
  /\ c.mRuntimeID.time = c.second

IssuedInv == \A c \in issued :
  /\ MadeOf(c)
  /\ c.run <= run[c.server]
  /\ c.run = run[c.server] => c.nth < entered[c.server]

NoDouble == \A n \in counted, c \in issued : SameProcess(n, c) => n.nth # c.nth

OneEach == \A c, d \in issued : SameProcess(c, d) /\ c.nth = d.nth => c = d

FoundInv == \A c \in present \ gAllClientObject :
  \E d \in issued : c # d /\ SameKey(c, d)

IdInv ==
  IdTypeOK /\ CountersAgree /\ CountedInv /\ IssuedInv /\ NoDouble /\ OneEach /\ FoundInv

\* A client that enters takes a count of its own.
LEMMA CountKeeps ==
  ASSUME IdInv, NEW s \in Server, Count(s)
  PROVE  IdInv'
<1>1. PICK n : n = [server |-> s, run |-> run[s], nth |-> entered[s],
                    inc |-> incRuntimeID[s]]
  OBVIOUS
<1>2. /\ entered' = [entered EXCEPT ![s] = @ + 1]
      /\ incRuntimeID' = [incRuntimeID EXCEPT ![s] = @ + 1]
      /\ counted' = counted \cup {n}
      /\ UNCHANGED <<clock, run, adding, present, gAllClientObject, issued>>
  BY <1>1 DEF Count, NewClient
<1>3. /\ n \in Counts /\ n.server = s /\ n.run = run[s] /\ n.nth = entered[s]
      /\ n.inc = n.nth
  BY <1>1 DEF Counts, IdInv, IdTypeOK, CountersAgree
<1>4. IdTypeOK'
  <2>1. entered' \in [Server -> Nat] /\ incRuntimeID' \in [Server -> Nat]
    BY <1>2 DEF IdInv, IdTypeOK
  <2> QED
    BY <1>2, <1>3, <2>1 DEF IdInv, IdTypeOK
<1>5. \A t \in Server : /\ entered[t] \in Nat
                        /\ entered'[t] = IF t = s THEN entered[t] + 1 ELSE entered[t]
                        /\ incRuntimeID'[t] = entered'[t]
  BY <1>2 DEF IdInv, IdTypeOK, CountersAgree
<1>6. CountersAgree'
  BY <1>5 DEF CountersAgree
<1>7. CountedInv'
  <2>1. ASSUME NEW m \in counted
        PROVE  m.run = run[m.server] /\ m.nth < entered'[m.server] /\ m.inc = m.nth
    <3>1. m.server \in Server /\ m.nth \in Nat
      BY DEF IdInv, IdTypeOK, Counts
    <3> QED
      BY <1>5, <3>1 DEF IdInv, CountedInv
  <2>2. n.nth < entered'[n.server]
    BY <1>3, <1>5
  <2> QED
    BY <1>2, <1>3, <2>1, <2>2 DEF CountedInv
<1>8. IssuedInv'
  <2> SUFFICES ASSUME NEW c \in issued
               PROVE  /\ MadeOf(c) /\ c.run <= run[c.server]
                      /\ c.run = run[c.server] => c.nth < entered'[c.server]
    BY <1>2 DEF IssuedInv, MadeOf
  <2>1. c.server \in Server /\ c.nth \in Nat
    BY DEF IdInv, IdTypeOK, Clients
  <2> QED
    BY <1>5, <2>1 DEF IdInv, IssuedInv
<1>9. NoDouble'
  <2> SUFFICES ASSUME NEW c \in issued, NEW m \in counted \cup {n}, SameProcess(m, c)
               PROVE  m.nth # c.nth
    BY <1>2 DEF NoDouble, SameProcess
  <2>1. c.server \in Server /\ c.nth \in Nat
    BY DEF IdInv, IdTypeOK, Clients
  <2>2. CASE m = n
    BY <1>3, <1>5, <2>1, <2>2 DEF SameProcess, IdInv, IssuedInv
  <2> QED
    BY <2>2 DEF IdInv, NoDouble
<1>10. OneEach' /\ FoundInv'
  BY <1>2 DEF IdInv, OneEach, FoundInv, SameKey, SameProcess
<1> QED
  BY <1>4, <1>6, <1>7, <1>8, <1>9, <1>10 DEF IdInv

\* Its ID is made of that count and of the clock of another moment.
LEMMA StampKeeps ==
  ASSUME IdInv, NEW n \in counted, Stamp(n)
  PROVE  IdInv'
<1>1. PICK c : c = Client(n)
  OBVIOUS
<1>2. /\ counted' = counted \ {n}
      /\ adding' = adding \cup {c} /\ issued' = issued \cup {c}
      /\ UNCHANGED <<incRuntimeID, clock, run, entered, present, gAllClientObject>>
  BY <1>1 DEF Stamp
<1>3. /\ n.server \in Server /\ n.run \in Nat /\ n.nth \in Nat /\ n.inc = n.nth
      /\ clock[n.server] \in Nat
      /\ n.run = run[n.server] /\ n.nth < entered[n.server]
  BY DEF IdInv, IdTypeOK, Counts, CountedInv
<1>4. /\ c.server = n.server /\ c.run = n.run /\ c.nth = n.nth
      /\ c.second = clock[n.server] /\ c.mRuntimeID = MakeRuntimeID(n)
  BY <1>1 DEF Client
<1>5. c \in Clients
  <2>1. \A k, m \in Int : m > 0 => k % m \in Int
    OBVIOUS
  <2>0. n.server % ServerMod \in Int /\ n.inc % IncMod \in Int
    <3>1. n.server \in Int /\ n.inc \in Int
      <4>1. \A s \in Server : s \in Int
        BY RuntimeIdAssumption
      <4>2. n.server \in Server /\ n.nth \in Nat /\ n.inc = n.nth
        BY <1>3
      <4> QED
        BY <4>1, <4>2
    <3>2. ServerMod \in Int /\ ServerMod > 0 /\ IncMod \in Int /\ IncMod > 0
      BY RuntimeIdAssumption
    <3> QED
      BY <2>1, <3>1, <3>2
  <2>2. MakeRuntimeID(n) \in ID
    BY <1>3, <2>0 DEF MakeRuntimeID, ID
  <2> QED
    BY <1>1, <1>3, <2>2 DEF Client, Clients
<1>6. IdTypeOK'
  BY <1>2, <1>5 DEF IdInv, IdTypeOK
<1>7. CountersAgree' /\ CountedInv'
  BY <1>2 DEF IdInv, CountersAgree, CountedInv
<1>8. MadeOf(c)
  BY <1>3, <1>4 DEF MadeOf, MakeRuntimeID
<1>9. IssuedInv'
  <2>1. run[n.server] \in Nat
    BY <1>3 DEF IdInv, IdTypeOK
  <2>2. c.run <= run[c.server] /\ c.nth < entered[c.server]
    BY <1>3, <1>4, <2>1
  <2> QED
    BY <1>2, <1>8, <2>2 DEF IdInv, IssuedInv, MadeOf
<1>10. NoDouble'
  <2> SUFFICES ASSUME NEW m \in counted \ {n}, NEW d \in issued \cup {c}, SameProcess(m, d)
               PROVE  m.nth # d.nth
    BY <1>2 DEF NoDouble, SameProcess
  <2>1. CASE d = c
    <3>1. m \in Counts /\ n \in Counts /\ m.inc = m.nth
      BY DEF IdInv, IdTypeOK, CountedInv
    <3>2. m.server = n.server /\ m.run = n.run
      BY <1>4, <2>1 DEF SameProcess
    <3>3. m.nth = n.nth => m = n
      BY <1>3, <3>1, <3>2 DEF Counts
    <3> QED
      BY <1>4, <2>1, <3>3
  <2> QED
    BY <2>1 DEF IdInv, NoDouble
<1>11. OneEach'
  <2>1. \A d \in issued : SameProcess(c, d) => c.nth # d.nth
    BY <1>4 DEF IdInv, NoDouble, SameProcess
  <2> QED
    BY <1>2, <2>1 DEF IdInv, OneEach, SameProcess
<1>12. FoundInv'
  BY <1>2 DEF IdInv, FoundInv, SameKey, SameProcess
<1> QED
  BY <1>6, <1>7, <1>9, <1>10, <1>11, <1>12 DEF IdInv

\* A client that is displaced in the map, or loses its entry to the timer of another,
\* shares its ID with that one.
LEMMA MapKeeps ==
  ASSUME IdInv, NEW c, (c \in adding /\ Add(c)) \/ (c \in present /\ Erase(c))
  PROVE  IdInv'
<1>1. /\ UNCHANGED <<incRuntimeID, clock, run, entered, counted, issued>>
      /\ adding' \subseteq adding
      /\ c \in issued
  BY DEF Add, Erase, IdInv, IdTypeOK
<1>2. SameKey(c, c)
  BY DEF SameKey, SameProcess
<1>3. IdTypeOK'
  <2>1. present' \subseteq issued /\ gAllClientObject' \subseteq present'
    BY <1>1, <1>2 DEF Add, Erase, IdInv, IdTypeOK
  <2> QED
    BY <1>1, <2>1 DEF IdInv, IdTypeOK
<1>4. CountersAgree' /\ CountedInv' /\ IssuedInv' /\ NoDouble' /\ OneEach'
  BY <1>1 DEF IdInv, CountersAgree, CountedInv, IssuedInv, MadeOf, NoDouble, OneEach,
              SameProcess
<1>5. FoundInv'
  <2> SUFFICES ASSUME NEW d \in present', d \notin gAllClientObject'
               PROVE  \E e \in issued : d # e /\ SameKey(d, e)
    BY <1>1 DEF FoundInv, SameKey, SameProcess
  <2>1. d # c /\ d \in present /\ (d \notin gAllClientObject \/ SameKey(c, d))
    BY DEF Add, Erase
  <2>2. CASE SameKey(c, d)
    <3>1. SameKey(d, c)
      BY <2>2 DEF SameKey, SameProcess
    <3> QED
      BY <1>1, <2>1, <3>1
  <2>3. CASE d \notin gAllClientObject
    BY <2>1, <2>3 DEF IdInv, FoundInv
  <2> QED
    BY <2>1, <2>2, <2>3
<1> QED
  BY <1>3, <1>4, <1>5 DEF IdInv

\* A new second changes nothing of it.
LEMMA TickKeeps ==
  ASSUME IdInv, NEW s \in Server, Tick(s)
  PROVE  IdInv'
<1>1. clock' \in [Server -> Nat]
  BY DEF Tick, IdInv, IdTypeOK
<1> QED
  BY <1>1 DEF Tick, IdInv, IdTypeOK, CountersAgree, CountedInv, IssuedInv, MadeOf,
              NoDouble, OneEach, FoundInv, SameKey, SameProcess

\* A new process has none of the clients of the old one.
LEMMA RestartKeeps ==
  ASSUME IdInv, NEW s \in Server, Restart(s)
  PROVE  IdInv'
<1>1. /\ run' = [run EXCEPT ![s] = @ + 1]
      /\ entered' = [entered EXCEPT ![s] = 0]
      /\ incRuntimeID' = [incRuntimeID EXCEPT ![s] = 0]
      /\ counted' = {n \in counted : n.server # s}
      /\ adding' = {d \in adding : d.server # s}
      /\ present' = {d \in present : d.server # s}
      /\ gAllClientObject' = {d \in gAllClientObject : d.server # s}
      /\ UNCHANGED <<clock, issued>>
  BY DEF Restart, NewProcess
<1>2. IdTypeOK'
  <2>1. /\ run' \in [Server -> Nat] /\ entered' \in [Server -> Nat]
        /\ incRuntimeID' \in [Server -> Nat]
    BY <1>1 DEF IdInv, IdTypeOK
  <2> QED
    BY <1>1, <2>1 DEF IdInv, IdTypeOK
<1>3. \A t \in Server : /\ run[t] \in Nat /\ entered[t] \in Nat
                        /\ run'[t] = IF t = s THEN run[t] + 1 ELSE run[t]
                        /\ entered'[t] = IF t = s THEN 0 ELSE entered[t]
                        /\ incRuntimeID'[t] = entered'[t]
  BY <1>1 DEF IdInv, IdTypeOK, CountersAgree
<1>4. CountersAgree'
  BY <1>3 DEF CountersAgree
<1>5. CountedInv'
  <2> SUFFICES ASSUME NEW n \in counted, n.server # s
               PROVE  n.run = run'[n.server] /\ n.nth < entered'[n.server] /\ n.inc = n.nth
    BY <1>1 DEF CountedInv
  <2>1. n.server \in Server
    BY DEF IdInv, IdTypeOK, Counts
  <2> QED
    BY <1>3, <2>1 DEF IdInv, CountedInv
<1>6. IssuedInv'
  <2> SUFFICES ASSUME NEW d \in issued
               PROVE  /\ MadeOf(d) /\ d.run <= run'[d.server]
                      /\ d.run = run'[d.server] => d.nth < entered'[d.server]
    BY <1>1 DEF IssuedInv, MadeOf
  <2>1. d.server \in Server /\ d.run \in Nat /\ d.nth \in Nat
    BY DEF IdInv, IdTypeOK, Clients
  <2>2. /\ MadeOf(d) /\ d.run <= run[d.server]
        /\ d.run = run[d.server] => d.nth < entered[d.server]
    BY DEF IdInv, IssuedInv
  <2> QED
    BY <1>3, <2>1, <2>2
<1>7. NoDouble' /\ OneEach'
  BY <1>1 DEF IdInv, NoDouble, OneEach, SameProcess
<1>8. FoundInv'
  BY <1>1 DEF IdInv, FoundInv, SameKey, SameProcess
<1> QED
  BY <1>2, <1>4, <1>5, <1>6, <1>7, <1>8 DEF IdInv

\* The invariant holds in every reachable state.
LEMMA IdInvariant == IdSpec => []IdInv
<1>1. IdInit => IdInv
  BY RuntimeIdAssumption
  DEF IdInit, IdInv, IdTypeOK, CountersAgree, CountedInv, IssuedInv, NoDouble, OneEach,
      FoundInv
<1>2. ASSUME IdInv, [IdNext]_idVars
      PROVE  IdInv'
  <2>1. CASE UNCHANGED idVars
    BY <1>2, <2>1
    DEF idVars, IdInv, IdTypeOK, CountersAgree, CountedInv, IssuedInv, MadeOf, NoDouble,
        OneEach, FoundInv, SameKey, SameProcess
  <2>2. ASSUME NEW s \in Server, Count(s)
        PROVE  IdInv'
    BY <1>2, <2>2, CountKeeps
  <2>3. ASSUME NEW s \in Server, Tick(s)
        PROVE  IdInv'
    BY <1>2, <2>3, TickKeeps
  <2>4. ASSUME NEW s \in Server, Restart(s)
        PROVE  IdInv'
    BY <1>2, <2>4, RestartKeeps
  <2>5. ASSUME NEW n \in counted, Stamp(n)
        PROVE  IdInv'
    BY <1>2, <2>5, StampKeeps
  <2>6. ASSUME NEW c \in adding, Add(c)
        PROVE  IdInv'
    BY <1>2, <2>6, MapKeeps
  <2>7. ASSUME NEW c \in present, Erase(c)
        PROVE  IdInv'
    BY <1>2, <2>7, MapKeeps
  <2> QED
    BY <1>2, <2>1, <2>2, <2>3, <2>4, <2>5, <2>6, <2>7 DEF IdNext
<1> QED
  BY <1>1, <1>2, PTL DEF IdSpec

\* Counters, clocks and clients have their types, and the map holds only clients that
\* were added and not erased (ClientSession.cpp:50, 282-288).
THEOREM IdTypeCorrect == IdSpec => []IdTypeOK
<1>1. IdInv => IdTypeOK
  BY DEF IdInv
<1> QED
  BY <1>1, IdInvariant, PTL

\* Two clients of a process with one ID have different counts that agree in 16 bits.
LEMMA SharedFromInv ==
  ASSUME IdInv
  PROVE  SharedRuntimeID
<1> SUFFICES ASSUME NEW c \in issued, NEW d \in issued, c # d,
                    c.mRuntimeID = d.mRuntimeID
             PROVE  /\ c.server % ServerMod = d.server % ServerMod
                    /\ c.second = d.second
                    /\ SameProcess(c, d) => Wrapped(c, d)
  BY DEF SharedRuntimeID
<1>1. MadeOf(c) /\ MadeOf(d)
  BY DEF IdInv, IssuedInv
<1>2. c.server % ServerMod = d.server % ServerMod /\ c.second = d.second
  BY <1>1 DEF MadeOf
<1>3. ASSUME SameProcess(c, d)
      PROVE  Wrapped(c, d)
  <2>1. c.nth \in Nat /\ d.nth \in Nat
    BY DEF IdInv, IdTypeOK, Clients
  <2>2. c.nth # d.nth
    BY <1>3 DEF IdInv, OneEach
  <2>3. c.nth % IncMod = d.nth % IncMod
    BY <1>1 DEF MadeOf
  <2>4. ~ (c.nth - d.nth < IncMod /\ d.nth - c.nth < IncMod)
    BY <2>1, <2>2, <2>3, RuntimeIdAssumption, ModEqual
  <2> QED
    BY <2>1, <2>4, RuntimeIdAssumption DEF Wrapped
<1> QED
  BY <1>2, <1>3

\* Two clients have one runtime ID only after a restart or a wrap of the counter, and
\* only within one second and one server number (ClientSession.cpp:53-55).
THEOREM SharedCorrect == IdSpec => []SharedRuntimeID
<1>1. IdInv => SharedRuntimeID
  BY SharedFromInv
<1> QED
  BY <1>1, IdInvariant, PTL

\* A client that entered and is not erased is found under its ID, unless the counter
\* wrapped onto it (ClientSessionMgr.cpp:25-38).
THEOREM FoundCorrect == IdSpec => []PresentIsFound
<1>1. ASSUME IdInv
      PROVE  PresentIsFound
  <2> SUFFICES ASSUME NEW c \in present, c \notin gAllClientObject
               PROVE  \E d \in issued : SameKey(c, d) /\ Wrapped(c, d)
    BY DEF PresentIsFound
  <2>1. PICK d \in issued : c # d /\ SameKey(c, d)
    BY <1>1 DEF IdInv, FoundInv
  <2>2. c \in issued
    BY <1>1 DEF IdInv, IdTypeOK
  <2>3. Wrapped(c, d)
    BY <1>1, <2>1, <2>2, SharedFromInv DEF SharedRuntimeID, SameKey
  <2> QED
    BY <2>1, <2>3
<1> QED
  BY <1>1, IdInvariant, PTL

(***************************************************************************)
(* The key in etcd                                                         *)
(***************************************************************************)

\* What n sleeps and what n requests in vain cost.
Slept(n) == n * Period
Failed(n) == n * Timeout

\* One more costs a period, or a timeout, more.
LEMMA OneMore ==
  ASSUME NEW n \in Nat
  PROVE  /\ Slept(n) \in Nat /\ Slept(n + 1) = Slept(n) + Period
         /\ Failed(n) \in Nat /\ Failed(n + 1) = Failed(n) + Timeout
BY LeaseAssumption DEF Slept, Failed

LeaseTypeOK ==
  /\ phase \in {"down", "asking", "asleep"}
  /\ asked \in Nat /\ timer \in Nat /\ age \in 0 .. TTL
  /\ failed \in Nat /\ slept \in Nat
  /\ answers \in BOOLEAN /\ wrote \in BOOLEAN /\ published \in BOOLEAN

\* The time that sleeps and requests in vain took, the present one apart.
Lost ==
  CASE phase = "asking" /\ ~ answers -> Slept(slept) + Failed(failed) - Timeout
    [] phase = "asleep" -> Slept(slept) - Period + Failed(failed)
    [] OTHER -> Slept(slept) + Failed(failed)

\* How old the key can be at each point of the loop.
LeaseInv ==
  /\ LeaseTypeOK
  /\ timer <= Limit
  /\ published => phase # "down"
  /\ phase = "asking" /\ ~ answers => failed > 0
  /\ phase = "asleep" => slept > 0
  /\ wrote /\ phase = "asking" => answers /\ slept = 0 /\ failed = 0
  /\ published => age <= (IF wrote /\ phase = "asking" THEN 0 ELSE Answer) + Lost + timer

\* One more round, request or sleep.
LEMMA FromKeeps ==
  ASSUME LeaseInv, NEW n \in Nat, From(n), age' = age, published' \in BOOLEAN,
         published' => published /\ age <= Answer + Slept(slept) + Failed(failed)
  PROVE  LeaseInv'
<1>1. /\ slept \in Nat /\ failed \in Nat /\ age \in Nat /\ age \in 0 .. TTL
      /\ asked \in Nat /\ answers \in BOOLEAN /\ wrote \in BOOLEAN
  BY LeaseAssumption DEF LeaseInv, LeaseTypeOK
<1>2. /\ Slept(slept) \in Nat /\ Slept(slept + 1) = Slept(slept) + Period
      /\ Failed(failed) \in Nat /\ Failed(failed + 1) = Failed(failed) + Timeout
  BY <1>1, OneMore
<1>3. CASE Ask(n)
  <2>1. /\ phase' = "asking" /\ asked' = n /\ wrote' = FALSE /\ timer' = 0
        /\ slept' = slept
        /\ \/ answers' = TRUE /\ failed' = failed
           \/ answers' = FALSE /\ failed' = failed + 1
    BY <1>3 DEF Ask
  <2>2. LeaseTypeOK'
    <3>1. failed' \in Nat
      BY <1>1, <2>1
    <3>2. answers' \in BOOLEAN /\ wrote' \in BOOLEAN
      BY <2>1, Zenon
    <3>3. 0 \in Nat
      OBVIOUS
    <3> QED
      BY <1>1, <2>1, <3>1, <3>2, <3>3, Zenon DEF LeaseTypeOK
  <2>3. timer' <= Limit'
    BY <2>1, LeaseAssumption DEF Limit
  <2>4. Lost' = Slept(slept) + Failed(failed)
    <3>1. CASE answers' = TRUE /\ failed' = failed
      BY <1>1, <2>1, <3>1 DEF Lost, Slept, Failed
    <3>2. CASE answers' = FALSE /\ failed' = failed + 1
      <4>1. Lost' = Slept(slept)' + Failed(failed)' - Timeout
        BY <2>1, <3>2 DEF Lost
      <4>2. Slept(slept)' = Slept(slept) /\ Failed(failed)' = Failed(failed + 1)
        BY <2>1, <3>2 DEF Slept, Failed
      <4> QED
        BY <1>2, <4>1, <4>2, LeaseAssumption
    <3> QED
      BY <2>1, <3>1, <3>2
  <2>5. published' => age' <= Answer + Lost' + timer'
    BY <1>1, <1>2, <2>1, <2>4, LeaseAssumption
  <2>6. phase' = "asking" /\ ~ answers' => failed' > 0
    BY <1>1, <2>1
  <2> QED
    BY <2>1, <2>2, <2>3, <2>5, <2>6 DEF LeaseInv
<1>4. CASE Sleep
  <2>1. /\ phase' = "asleep" /\ timer' = 0 /\ slept' = slept + 1
        /\ asked' = asked /\ answers' = answers /\ wrote' = wrote /\ failed' = failed
    BY <1>4 DEF Sleep
  <2>2. LeaseTypeOK'
    BY <1>1, <2>1 DEF LeaseTypeOK
  <2>3. timer' <= Limit'
    BY <2>1, LeaseAssumption DEF Limit
  <2>4. Lost' = Slept(slept) + Failed(failed)
    <3>1. Lost' = Slept(slept)' - Period + Failed(failed)'
      BY <2>1 DEF Lost
    <3>2. Slept(slept)' = Slept(slept + 1) /\ Failed(failed)' = Failed(failed)
      BY <2>1 DEF Slept, Failed
    <3> QED
      BY <1>2, <3>1, <3>2, LeaseAssumption
  <2>5. published' => age' <= Answer + Lost' + timer'
    BY <1>1, <1>2, <2>1, <2>4, LeaseAssumption
  <2> QED
    BY <1>1, <2>1, <2>2, <2>3, <2>5 DEF LeaseInv
<1> QED
  BY <1>3, <1>4 DEF From

\* LeaseInv holds at the start, ...
LEMMA InitLease == LeaseInit => LeaseInv
<1> SUFFICES ASSUME LeaseInit
             PROVE  LeaseInv
  OBVIOUS
<1>1. LeaseTypeOK
  <2>1. 0 \in Nat /\ TTL \in 0 .. TTL
    BY LeaseAssumption
  <2> QED
    BY <2>1, Zenon DEF LeaseInit, LeaseTypeOK
<1>2. timer <= Limit
  BY LeaseAssumption DEF LeaseInit, Limit
<1> QED
  BY <1>1, <1>2 DEF LeaseInit, LeaseInv

\* ... and is kept by every step.
LEMMA NextLease ==
  ASSUME LeaseInv, [LeaseNext]_leaseVars
  PROVE  LeaseInv'
<1>1. /\ slept \in Nat /\ failed \in Nat /\ age \in Nat /\ timer \in Nat
      /\ asked \in Nat /\ answers \in BOOLEAN /\ wrote \in BOOLEAN /\ published \in BOOLEAN
      /\ LeaseTypeOK
  BY LeaseAssumption DEF LeaseInv, LeaseTypeOK
<1>2. Slept(slept) \in Nat /\ Failed(failed) \in Nat
  BY <1>1, OneMore
<1>3. Slept(0) = 0 /\ Failed(0) = 0
  BY LeaseAssumption DEF Slept, Failed
<1>4. CASE StartUp
  <2>1. From(0) /\ age' = age /\ published' = FALSE
    BY <1>4 DEF StartUp
  <2>2. published' \in BOOLEAN /\ ~ published'
    BY <2>1, Zenon
  <2> QED
    BY <2>1, <2>2, FromKeeps
<1>5. CASE SetKey
  <2>1. /\ phase = "asking" /\ answers
        /\ wrote' = TRUE /\ published' = TRUE /\ age' = 0 /\ failed' = 0 /\ slept' = 0
        /\ phase' = phase /\ asked' = asked /\ answers' = answers /\ timer' = timer
    BY <1>5 DEF SetKey
  <2>2. LeaseTypeOK'
    BY <1>1, <2>1, LeaseAssumption DEF LeaseTypeOK
  <2>3. timer' <= Limit'
    BY <2>1 DEF LeaseInv, Limit
  <2>4. Lost' = 0
    BY <1>3, <2>1 DEF Lost, Slept, Failed
  <2>5. age' <= 0 + Lost' + timer'
    BY <1>1, <2>1, <2>4
  <2> QED
    BY <2>1, <2>2, <2>3, <2>5 DEF LeaseInv
<1>6. CASE Answered
  <2>1. phase = "asking" /\ wrote /\ Sleep /\ published' = published /\ age' = age
    BY <1>6 DEF Answered
  <2>2. /\ answers /\ slept = 0 /\ failed = 0 /\ timer <= Answer
        /\ published => age <= 0 + Lost + timer
    BY <2>1 DEF LeaseInv, Limit
  <2>3. Lost = 0
    BY <1>3, <2>1, <2>2 DEF Lost
  <2>4. published => age <= Answer + Slept(slept) + Failed(failed)
    BY <1>1, <1>2, <2>2, <2>3, LeaseAssumption
  <2>5. PICK n \in Nat : n >= Endpoints
    BY LeaseAssumption
  <2>6. From(n)
    BY <2>1, <2>5 DEF From
  <2> QED
    BY <1>1, <2>1, <2>4, <2>6, FromKeeps
<1>7. CASE NoAnswer
  <2>1. /\ phase = "asking" /\ ~ answers /\ ~ wrote
        /\ From(asked + 1) /\ published' = published /\ age' = age
    BY <1>1, <1>7 DEF NoAnswer, LeaseInv
  <2>2. timer <= Timeout /\ (published => age <= Answer + Lost + timer)
    BY <2>1 DEF LeaseInv, Limit
  <2>3. Lost = Slept(slept) + Failed(failed) - Timeout
    BY <2>1 DEF Lost
  <2>4. published => age <= Answer + Slept(slept) + Failed(failed)
    BY <1>1, <1>2, <2>2, <2>3, LeaseAssumption
  <2>5. asked + 1 \in Nat
    BY <1>1
  <2> QED
    BY <1>1, <2>1, <2>4, <2>5, FromKeeps
<1>8. CASE Wake
  <2>1. /\ phase = "asleep" /\ timer = Period
        /\ From(0) /\ published' = published /\ age' = age
    BY <1>8 DEF Wake
  <2>2. published => age <= Answer + Lost + timer
    BY <2>1 DEF LeaseInv
  <2>3. Lost = Slept(slept) - Period + Failed(failed)
    BY <2>1 DEF Lost
  <2>4. published => age <= Answer + Slept(slept) + Failed(failed)
    BY <1>1, <1>2, <2>1, <2>2, <2>3, LeaseAssumption
  <2> QED
    BY <1>1, <2>1, <2>4, FromKeeps
<1>9. CASE CrashDown
  <2>1. /\ phase' = "down" /\ timer' = 0 /\ published' = FALSE /\ failed' = 0 /\ slept' = 0
        /\ asked' = asked /\ answers' = answers /\ wrote' = wrote /\ age' = age
    BY <1>9 DEF CrashDown
  <2>2. published' \in BOOLEAN /\ ~ published'
    BY <2>1, Zenon
  <2>3. LeaseTypeOK'
    BY <1>1, <2>1, <2>2 DEF LeaseTypeOK
  <2>4. timer' <= Limit'
    BY <2>1 DEF Limit
  <2> QED
    BY <2>1, <2>2, <2>3, <2>4 DEF LeaseInv
<1>10. ASSUME NEW d \in 1 .. TTL, Pass(d)
       PROVE  LeaseInv'
  <2>0. d \in Nat
    OBVIOUS
  <2>1. /\ phase = "down" \/ timer + d <= Limit
        /\ phase # "down" => timer' = timer + d
        /\ phase = "down" => timer' = timer
        /\ age' = IF age + d < TTL THEN age + d ELSE TTL
        /\ phase' = phase /\ asked' = asked /\ answers' = answers /\ wrote' = wrote
        /\ published' = published /\ failed' = failed /\ slept' = slept
    BY <1>10 DEF Pass
  <2>2. age' \in 0 .. TTL /\ age' <= age + d /\ timer' \in Nat
    BY <1>1, <2>0, <2>1, LeaseAssumption
  <2>3. LeaseTypeOK'
    BY <1>1, <2>1, <2>2 DEF LeaseTypeOK
  <2>4. Limit' = Limit /\ Lost' = Lost
    BY <2>1 DEF Limit, Lost, Slept, Failed
  <2>5. timer' <= Limit'
    BY <2>1, <2>4 DEF LeaseInv
  <2>6. Lost \in Int
    BY <1>2, LeaseAssumption DEF Lost
  <2>7. published => phase # "down"
    BY DEF LeaseInv
  <2>8. published =>
          age' <= (IF wrote /\ phase = "asking" THEN 0 ELSE Answer) + Lost + timer'
    <3>1. age' \in Int
      BY <2>2
    <3>2. published =>
            age <= (IF wrote /\ phase = "asking" THEN 0 ELSE Answer) + Lost + timer
      BY DEF LeaseInv
    <3> QED
      BY <1>1, <2>0, <2>1, <2>2, <2>6, <2>7, <3>1, <3>2, LeaseAssumption
  <2>9. published' =>
          age' <= (IF wrote' /\ phase' = "asking" THEN 0 ELSE Answer) + Lost' + timer'
    BY <2>1, <2>4, <2>8
  <2> QED
    BY <2>1, <2>3, <2>5, <2>9 DEF LeaseInv
<1>11. CASE UNCHANGED leaseVars
  BY <1>11 DEF leaseVars, LeaseInv, LeaseTypeOK, Limit, Lost, Slept, Failed
<1> QED
  BY <1>4, <1>5, <1>6, <1>7, <1>8, <1>9, <1>10, <1>11 DEF LeaseNext

\* What the sleeps and the requests in vain leave of the lifetime.
LEMMA InTime ==
  ASSUME LeaseInv, published, Unset < TTL
  PROVE  age < TTL
<1>1. /\ slept \in Nat /\ failed \in Nat /\ age \in Nat /\ timer \in Nat
      /\ phase \in {"asking", "asleep"} /\ wrote \in BOOLEAN /\ answers \in BOOLEAN
  BY LeaseAssumption DEF LeaseInv, LeaseTypeOK
<1>2. Slept(slept) \in Nat /\ Failed(failed) \in Nat
  BY <1>1, OneMore
<1>3. Answer + Slept(slept) + Failed(failed) + Answer < TTL
  BY DEF Unset, Slept, Failed
<1>4. timer <= Limit
  BY DEF LeaseInv
<1>5. age <= (IF wrote /\ phase = "asking" THEN 0 ELSE Answer) + Lost + timer
  BY DEF LeaseInv
<1>6. Lost + timer <= Slept(slept) + Failed(failed) + Answer
  BY <1>1, <1>2, <1>4, LeaseAssumption DEF Lost, Limit
<1>7. Lost \in Int
  BY <1>2, LeaseAssumption DEF Lost
<1> QED
  BY <1>1, <1>2, <1>3, <1>5, <1>6, <1>7, LeaseAssumption

\* The key a connection server has set stays in etcd until its process ends or the
\* requests in vain since, and the sleeps, have used up its lifetime
\* (ConnectionServer.cpp:78, 94-102), for any endpoints and times.
THEOREM KeyCorrect == LeaseSpec => []KeyStays
<1>1. LeaseInv => KeyStays
  BY InTime DEF KeyStays, Present
<1> QED
  BY <1>1, InitLease, NextLease, PTL DEF LeaseSpec
=============================================================================
