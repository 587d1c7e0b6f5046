------------------------------- MODULE Streams -------------------------------
(***************************************************************************)
(* One TCP connection and the session at its receiving end, octet by       *)
(* octet: the sender writes packets, the network hands the receiver any    *)
(* number of octets at a time, the receiver's onMsg is called with what it *)
(* has not consumed yet and what is new, and consumes one packet a turn.   *)
(*                                                                         *)
(* A `cellnet' connection carries protocol buffers between a connection    *)
(* server and a logic server.  Going up they are sent by sendPB, on the    *)
(* thread of the logic server's session or on another, going down by a     *)
(* logic server that writes the same format.  A `web' connection carries   *)
(* the packets of a browser.                                               *)
(***************************************************************************)
EXTENDS Framing, ProtoMessages

CONSTANTS
  Formats,    \* the formats exercised
  Asserts,    \* is assert() compiled in?
  StackSize,  \* sendPB's buffer: 8 KiB in the code
  Letters,    \* the packets [op, class, msg, by] sent over cellnet
  Packets,    \* the packets [op, body] sent over the other formats
  LongPackets,\* those a browser may send in several frames
  MaxSent     \* bound: MaxSent[format] writes on one connection

\* What SerializeToString makes of a letter.
Octets(l) == Serialize(Table[l.class], l.msg)

ASSUME StreamsAssumption ==
  /\ Formats \subseteq {"packet", "cellnet", "web"} /\ Asserts \subseteq BOOLEAN
  /\ LongPackets \subseteq Packets
  /\ StackSize \in Nat /\ MaxSent \in [Formats -> Nat]

\* Operations and bodies are numbers, a packet's length fits PACKET_LEN_TYPE, and
\* what sendPB is given is an object of a generated class.
ASSUME ContentsAssumption ==
  /\ Packets \subseteq [op : Int, body : Seq(Int)]
  /\ \A p \in Packets : Len(p.body) + PacketHead < PacketLenMod
  /\ \A l \in Letters :
       /\ l.op \in Int /\ l.class \in DOMAIN Table
       /\ IsMessage(Table[l.class], l.msg)

VARIABLES
  format, asserts,   \* fixed
  session,           \* the receiver
  stream,            \* the octets written on the connection so far
  arrived,           \* how many of them have been received
  done,              \* how many of these onMsg has consumed
  reading,           \* is the receiver in onMsg?
  mSendSerialID,     \* the sender's
  unsent,            \* the rest of a message a browser has sent a part of
  sent,              \* what was written, and what procPacket is to hand on for it
  broken             \* the receiver was made to lose its place in the stream

streamVars ==
  <<format, asserts, session, stream, arrived, done, reading, mSendSerialID,
    unsent, sent, broken>>

sender == <<stream, mSendSerialID, unsent, sent>>
receiver == <<session, arrived, done, reading>>

StreamInit ==
  /\ format \in Formats /\ asserts \in Asserts
  /\ session = Session
  /\ stream = <<>> /\ arrived = 0 /\ done = 0
  /\ reading = FALSE
  /\ mSendSerialID = 1 /\ unsent = <<>> /\ sent = <<>>
  /\ broken = FALSE

(***************************************************************************)
(* The senders                                                             *)
(***************************************************************************)

\* After the first k writes: where they end in the stream, the packets written in
\* one piece, those of them that no message in parts has spoiled, and whether one
\* still spoils the next.
After(k) ==
  IF k = 0
  THEN [kind |-> "nothing", end |-> 0, packets |-> <<>>, owed |-> <<>>, spoils |-> FALSE]
  ELSE sent[k]

Latest == After(Len(sent))

\* `octets' go out; `packets' is <<>> or the one packet they carry whole.
Write(kind, octets, packets) ==
  /\ Len(sent) < MaxSent[format]
  /\ stream' = stream \o octets
  /\ sent' = Append(sent,
       [kind |-> kind,
        end |-> Latest.end + Len(octets),
        packets |-> Latest.packets \o packets,
        owed |-> IF Latest.spoils THEN Latest.owed ELSE Latest.owed \o packets,
        spoils |-> kind = "rest" \/ (Latest.spoils /\ kind # "whole")])
  /\ UNCHANGED <<format, asserts, receiver>>

SendPacket ==
  /\ format = "packet"
  /\ \E p \in Packets : Write("whole", Packet(p.op, p.body), <<p>>)
  /\ UNCHANGED <<mSendSerialID, unsent, broken>>

\* helpSendPacketInLoop(cmd, data, len), and the peer that writes the same.
\* A length that does not fit its 16 bits takes the receiver out of step.
SendCellnet(l, data) ==
  /\ Write("whole", Cellnet(l.op, mSendSerialID, data),
           <<[op |-> l.op, body |-> Octets(l)]>>)
  /\ mSendSerialID' = (mSendSerialID + 1) % SerialMod
  /\ broken' = (broken \/ Len(data) + CellnetHead >= LenMod)
  /\ UNCHANGED unsent

\* A message that is not sent leaves no octet and no serial number behind.
NotSent == UNCHANGED streamVars

\* sendPB on the session's own thread: into a buffer on the stack, and from
\* there as many octets as ByteSize() says, unless they do not fit.
SendPBInLoop(l) ==
  LET size == ByteSize(Table[l.class], l.msg) IN
  IF size <= StackSize THEN SendCellnet(l, SubSeq(Octets(l), 1, size)) ELSE NotSent

\* sendPB on another thread: through a string, unless it is empty.
SendPBFromOther(l) == IF Octets(l) # <<>> THEN SendCellnet(l, Octets(l)) ELSE NotSent

SendPB ==
  /\ format = "cellnet"
  /\ \E l \in Letters :
       \/ l.by = "inLoop" /\ SendPBInLoop(l)
       \/ l.by = "other" /\ SendPBFromOther(l)
       \/ l.by = "logicServer" /\ SendCellnet(l, Octets(l))

\* The browser: its request, then packets in a frame each or in two, and pings
\* between any two frames.
RequestUpgrade ==
  /\ format = "web" /\ sent = <<>>
  /\ Write("request", Request, <<>>)
  /\ UNCHANGED <<mSendSerialID, unsent, broken>>

Upgraded == format = "web" /\ session.mShakehanded

Serialized(p) == WebPacket(p.op, mSendSerialID, p.body)

SendWhole ==
  /\ Upgraded /\ unsent = <<>>
  /\ \E p \in Packets, opcode \in {TEXT, BINARY} :
       Write("whole", Frame(TRUE, opcode, Serialized(p)), <<p>>)
  /\ mSendSerialID' = (mSendSerialID + 1) % SerialMod
  /\ UNCHANGED <<unsent, broken>>

SendPing ==
  /\ Upgraded
  /\ \E opcode \in {PING, PONG} : Write("ping", Frame(TRUE, opcode, <<>>), <<>>)
  /\ UNCHANGED <<mSendSerialID, unsent, broken>>

SendFirst ==
  /\ Upgraded /\ unsent = <<>>
  /\ \E p \in LongPackets :
       LET half == Len(Serialized(p)) \div 2 IN
       /\ Write("first", Frame(FALSE, TEXT, SubSeq(Serialized(p), 1, half)), <<>>)
       /\ unsent' = SubSeq(Serialized(p), half + 1, Len(Serialized(p)))
  /\ mSendSerialID' = (mSendSerialID + 1) % SerialMod
  /\ UNCHANGED broken

\* A rest that happens to announce a longer packet than itself may be read as the
\* front of one.
SendRest ==
  /\ Upgraded /\ unsent # <<>>
  /\ Write("rest", Frame(TRUE, CONTINUATION, unsent), <<>>)
  /\ unsent' = <<>>
  /\ broken' = (broken \/ unsent[2] >= Len(unsent) + PacketOverhead)
  /\ UNCHANGED mSendSerialID

(***************************************************************************)
(* The network and the receiver                                            *)
(***************************************************************************)

\* The next octets arrive, and onMsg is called.
Receive ==
  /\ ~ reading /\ ~ session.aborted
  /\ \E n \in arrived + 1 .. Len(stream) : arrived' = n
  /\ reading' = TRUE
  /\ UNCHANGED <<format, asserts, session, done, sender, broken>>

Rest == SubSeq(stream, done + 1, arrived)

\* One turn of its loop; a turn that consumes nothing is the last.  A key that
\* arrives without the header lines behind it ends the handshake, and these
\* lines are then read as frames.
onMsg ==
  LET turn == Turn(format, session, Rest, asserts) IN
  /\ reading
  /\ session' = turn.s
  /\ done' = done + turn.size
  /\ reading' = (turn.size > 0 /\ ~ turn.s.aborted)
  /\ broken' = \/ broken
                \/ (turn.s.mShakehanded # session.mShakehanded /\ Rest # Request)
  /\ UNCHANGED <<format, asserts, arrived, sender>>

StreamNext ==
  \/ SendPacket
  \/ SendPB
  \/ RequestUpgrade
  \/ SendWhole
  \/ SendPing
  \/ SendFirst
  \/ SendRest
  \/ Receive
  \/ onMsg

StreamSpec == StreamInit /\ [][StreamNext]_streamVars

(***************************************************************************)
(* Properties                                                              *)
(***************************************************************************)

\* The first k writes, and no more, have arrived in full.
InFull(k) ==
  /\ After(k).end <= arrived
  /\ k < Len(sent) => arrived < After(k + 1).end

\* More waits than PACKET_LEN_TYPE counts, so that the session may overlook it until
\* still more arrives.
Overrun == format # "cellnet" /\ arrived - done >= PacketLenMod

Fragmented == \E k \in DOMAIN sent : sent[k].kind = "first"

\* Wherever the network cuts the stream, procPacket has been called with the packets
\* that have arrived in full, in their order and with the contents the sender gave
\* them: none early, twice or merged, and none late once onMsg has returned.  This
\* is said of a connection on which no message came in several frames, no
\* handshake was cut behind its key, no length was too large for its field, and,
\* as to none late, no more waits than PACKET_LEN_TYPE counts.  What a message in
\* several frames costs is FragmentCosts; a connection of one of the other two kinds
\* is out of step for good, and nothing is said of it.
HandedOver ==
  ~ session.aborted /\ ~ broken /\ ~ Fragmented =>
    \E k \in 0 .. Len(sent) :
      /\ session.handed = After(k).packets
      /\ After(k).end <= arrived
      /\ reading \/ Overrun \/ InFull(k)

\* What a message in several frames costs where no assert stops it: itself and the
\* next in one frame, which the cache is put before
\* (UseWebPacketSingleNetSession.cpp:58-65, :84), and nothing after that.
FragmentCosts ==
  ~ session.aborted /\ ~ broken =>
    \E k \in 0 .. Len(sent) :
      /\ session.handed = After(k).owed
      /\ After(k).end <= arrived
      /\ reading \/ Overrun \/ InFull(k)

\* The asserts of the parsers, among them the one that compares and counts the
\* serial numbers, fail only for a message in several frames or a connection that
\* was taken out of step: the serial numbers agree across the wrap of 16 bits.
AssertsHold == session.aborted => broken \/ Fragmented
=============================================================================
