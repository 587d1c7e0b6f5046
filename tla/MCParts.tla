------------------------------ MODULE MCParts -------------------------------
(***************************************************************************)
(* Four parts that share no state: the message classes, one connection and *)
(* its parser, the runtime IDs, the key in etcd.  Each behaviour starts    *)
(* all four and runs one of them, `part', which says of each what a run of *)
(* its own would say.                                                      *)
(***************************************************************************)
EXTENDS ProtoObject, Streams, RuntimeId, EtcdLease

CONSTANTS
  MaxPings,     \* bound: pings and pongs on one connection
  MaxWhole,     \* bound: writes on one without a message in several frames
  MaxClock,     \* bound: seconds
  MaxRun,       \* bound: restarts of a server's process
  MaxEntered,   \* bound: clients that enter it
  MaxIssued,    \* bound: clients of all servers
  MaxRounds     \* bound: rounds and requests in vain since the key was set

VARIABLE part

MCInit ==
  /\ ObjInit /\ StreamInit /\ IdInit /\ LeaseInit
  /\ part \in {"object", "stream", "id", "lease"}
  /\ part # "object" => class = "EtcdAddr" /\ other = msg
  /\ part # "stream" => format = "packet" /\ asserts

ObjectPart ==
  part = "object" /\ ObjNext /\ UNCHANGED <<streamVars, idVars, leaseVars, part>>

StreamPart ==
  /\ part = "stream" /\ StreamNext /\ UNCHANGED <<objVars, idVars, leaseVars, part>>
  /\ Cardinality({k \in DOMAIN sent' : sent'[k].kind = "ping"}) <= MaxPings
  /\ Len(sent') > MaxWhole => Fragmented'

IdPart ==
  /\ part = "id" /\ IdNext /\ UNCHANGED <<objVars, streamVars, leaseVars, part>>
  /\ \A s \in Server :
       clock'[s] <= MaxClock /\ run'[s] <= MaxRun /\ entered'[s] <= MaxEntered
  /\ Cardinality(counted') + Cardinality(issued') <= MaxIssued

LeasePart ==
  /\ part = "lease" /\ LeaseNext /\ UNCHANGED <<objVars, streamVars, idVars, part>>
  /\ failed' <= MaxRounds /\ slept' <= MaxRounds

MCNext == ObjectPart \/ StreamPart \/ IdPart \/ LeasePart

MCSpec == MCInit /\ [][MCNext]_<<objVars, streamVars, idVars, leaseVars, part>>

(***************************************************************************)
(* Values.  A varint takes one octet to 127, two to 16383 and three beyond;*)
(* Narrow and Wide cut the second and the third.                           *)
(***************************************************************************)

MCClasses == DOMAIN Table

\* <<8, 1>> looks like a field, 255 like a varint that goes on; 206, 177 is one
\* character.
MCSamples ==
  [uint32 |-> {0, 127, 128, 1023},
   int32 |-> {0, -1, 300},
   int64 |-> {0, -1, 300, 65535, -65536},
   bool |-> BOOLEAN,
   string |-> {<<>>, <<8, 206, 177>>},
   bytes |-> {<<>>, <<8, 1>>, <<255>>},
   EtcdAddr |-> {[ip |-> <<>>, port |-> 0], [ip |-> <<8, 1>>, port |-> -1]}]

\* A character cut short, an octet of none, an overlong form, a surrogate, a number
\* beyond the last character.
MCStrays == {<<206>>, <<8, 177>>, <<192, 128>>, <<237, 160, 128>>, <<244, 144, 128, 128>>}

Up(data) == [MsgID |-> 130, Data |-> data, ClientID |-> 300]
OfLength(n) == [i \in 1 .. n |-> i]

Upstream(data, by) ==
  [op |-> 1, class |-> "UpstreamACK", msg |-> Up(data), by |-> by]

\* An upstream message fits the stack, does not, or does not fit 16 bits.
MCLetters ==
  { Upstream(<<8>>, "inLoop"), Upstream(OfLength(6), "inLoop"),
    Upstream(OfLength(6), "other"), Upstream(OfLength(18), "other"),
    [op |-> 3, class |-> "LogicServerLoginReply",
     msg |-> [isSuccess |-> FALSE, id |-> 0], by |-> "inLoop"],
    [op |-> 5, class |-> "DownstreamACK",
     msg |-> [MsgID |-> 1, Data |-> <<>>, ClientID |-> <<-1, 300>>],
     by |-> "logicServer"] }

MCPackets == { [op |-> 7, body |-> <<>>], [op |-> 9, body |-> <<5, 2>>] }
MCLong == { [op |-> 9, body |-> <<5, 2>>] }
MCMaxSent == [f \in Formats |-> IF f = "web" THEN 5 ELSE 3]
=============================================================================
