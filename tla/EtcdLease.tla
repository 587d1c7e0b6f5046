------------------------------ MODULE EtcdLease ------------------------------
(***************************************************************************)
(* How a connection server keeps its key in etcd: the loop of main         *)
(* (ConnectionServer.cpp of both connection servers) and the lifetime of   *)
(* the key it sets.  The loop asks the endpoints of etcd one after the     *)
(* other to set the key, until one answers or all have failed, and then    *)
(* sleeps.                                                                 *)
(*                                                                         *)
(* Time is discrete.  age is the time since the key was last set, as far   *)
(* as TTL, when etcd drops the key.  A process may crash and be started    *)
(* again at any time.                                                      *)
(***************************************************************************)
EXTENDS Naturals

CONSTANTS
  Endpoints,  \* how many endpoints of etcd are configured
  TTL,        \* of the key: 15 s in the code
  Period,     \* the sleep: 5 s
  Timeout,    \* of a request: 5 s
  Answer      \* the longest an endpoint that answers takes

ASSUME LeaseAssumption ==
  /\ Endpoints \in Nat /\ TTL \in Nat /\ Period \in Nat /\ Timeout \in Nat
  /\ Answer \in Nat

VARIABLES
  phase,      \* of the process: "down", "asking", "asleep"
  asked,      \* the endpoints asked in vain in this round
  answers,    \* does the endpoint that is asked answer?
  wrote,      \* and has it set the key?
  timer,      \* the time since this request or this sleep began
  published,  \* has this process set its key?
  age,
  failed,     \* (history) the requests in vain since it did so last, ...
  slept       \* ... and the sleeps

leaseVars ==
  <<phase, asked, answers, wrote, timer, published, age, failed, slept>>

LeaseInit ==
  /\ phase = "down" /\ asked = 0 /\ answers = TRUE /\ wrote = FALSE /\ timer = 0
  /\ published = FALSE /\ age = TTL /\ failed = 0 /\ slept = 0

\* etcdSet of the next endpoint, which may answer or not.
Ask(n) ==
  /\ n < Endpoints
  /\ phase' = "asking" /\ asked' = n /\ wrote' = FALSE /\ timer' = 0
  /\ \/ answers' = TRUE /\ UNCHANGED failed
     \/ answers' = FALSE /\ failed' = failed + 1
  /\ UNCHANGED slept

\* The round is over.
Sleep ==
  /\ phase' = "asleep" /\ timer' = 0 /\ slept' = slept + 1
  /\ UNCHANGED <<asked, answers, wrote, failed>>

\* The round goes on at the endpoint behind the first n, if there is one.
From(n) == Ask(n) \/ (n >= Endpoints /\ Sleep)

StartUp ==
  /\ phase = "down"
  /\ From(0)
  /\ published' = FALSE
  /\ UNCHANGED age

\* The request takes effect ...
SetKey ==
  /\ phase = "asking" /\ answers /\ ~ wrote
  /\ wrote' = TRUE /\ published' = TRUE /\ age' = 0 /\ failed' = 0 /\ slept' = 0
  /\ UNCHANGED <<phase, asked, answers, timer>>

\* ... and is answered with a body.
Answered ==
  /\ phase = "asking" /\ wrote
  /\ Sleep
  /\ UNCHANGED <<published, age>>

\* It fails, or times out.  (That it may have set the key all the same is left out: the
\* key would only be younger.)
NoAnswer ==
  /\ phase = "asking" /\ ~ answers
  /\ From(asked + 1)
  /\ UNCHANGED <<published, age>>

Wake ==
  /\ phase = "asleep" /\ timer = Period
  /\ From(0)
  /\ UNCHANGED <<published, age>>

CrashDown ==
  /\ phase # "down"
  /\ phase' = "down" /\ timer' = 0 /\ published' = FALSE /\ failed' = 0 /\ slept' = 0
  /\ UNCHANGED <<asked, answers, wrote, age>>

\* Mutant of Limit: a request has no timeout.
MutLimit ==
  CASE phase = "asking" -> IF answers THEN Answer ELSE TTL
    [] phase = "asleep" -> Period
    [] phase = "down" -> 0

\* How long the process may stay where it is.
Limit ==
  CASE phase = "asking" -> IF answers THEN Answer ELSE Timeout
    [] phase = "asleep" -> Period
    [] phase = "down" -> 0

\* Time passes.
Pass(d) ==
  /\ phase = "down" \/ timer + d <= Limit
  /\ timer' = IF phase = "down" THEN timer ELSE timer + d
  /\ age' = IF age + d < TTL THEN age + d ELSE TTL
  /\ UNCHANGED <<phase, asked, answers, wrote, published, failed, slept>>

LeaseNext ==
  \/ StartUp \/ SetKey \/ Answered \/ NoAnswer \/ Wake \/ CrashDown
  \/ \E d \in 1 .. TTL : Pass(d)

LeaseSpec == LeaseInit /\ [][LeaseNext]_leaseVars

-----------------------------------------------------------------------------

Present == age < TTL

\* The longest a key that was set has gone without being set again.
Unset == Answer + slept * Period + failed * Timeout + Answer

\* The key of a running server is lost only to requests that failed: as long as those
\* since it was last set, each at a timeout, and the sleeps have not used up its
\* lifetime, it is in etcd (ConnectionServer.cpp:78, 94-102).  With 15 s, 5 s and 5 s,
\* and answers within 2 s, one endpoint may fail before another answers; two that fail, or
\* a second round in vain, and the key of a running server may expire.
KeyStays == published /\ Unset < TTL => Present
=============================================================================
