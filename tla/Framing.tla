------------------------------- MODULE Framing -------------------------------
(***************************************************************************)
(* How the sessions cut the octets of a TCP connection into packets:       *)
(*   packet   UsePacketSingleNetSession, UsePacketExtNetSession            *)
(*   cellnet  UseCellnetPacketSingleNetSession                             *)
(*   web      UseWebPacketSingleNetSession                                 *)
(* onMsg is given everything received and not yet consumed, and hands one  *)
(* packet after the other to procPacket while another is complete.         *)
(*                                                                         *)
(* Every field of a head is one octet here, whatever its width in the      *)
(* code: a parser reads a head only when all of it has arrived.  Two of    *)
(* the three count what is not consumed yet in the type of a length of     *)
(* theirs.                                                                 *)
(***************************************************************************)
EXTENDS Integers, SequencesExt

CONSTANTS
  LenMod,       \* the values of a 16-bit length
  SerialMod,    \* the values of a 16-bit serial number
  PacketLenMod  \* the values of PACKET_LEN_TYPE

ASSUME FramingAssumption ==
  /\ LenMod \in Nat /\ SerialMod \in Nat /\ LenMod > 8 /\ SerialMod > 1
  /\ PacketLenMod \in Nat \ {0}

(***************************************************************************)
(* A session between two calls of onMsg                                    *)
(***************************************************************************)

Session ==
  [ mRecvSerialID |-> 1,       \* cellnet
    mShakehanded |-> FALSE,    \* web
    mCacheFrame |-> <<>>,      \* web
    handed |-> <<>>,           \* the packets procPacket was called with
    aborted |-> FALSE ]        \* an assert of onMsg failed

HandOver(s, op, body) == [s EXCEPT !.handed = Append(@, [op |-> op, body |-> body])]

\* What one turn of the loop in onMsg made of the session, and the octets it took
\* from the front: none ends the loop.
Consumed(s, size) == [s |-> s, size |-> size]

\* A length field admits a packet that is all there and has a whole head.
Complete(len, head, rest) == len <= Len(rest) /\ head <= len

\* left_len: what is left is cut to a PACKET_LEN_TYPE, the size of a packet or frame
\* then taken off it, so that a turn sees so many octets of the rest.
Seen(rest) == SubSeq(rest, 1, Len(rest) % PacketLenMod)

(***************************************************************************)
(* packet: length, operation                                               *)
(***************************************************************************)

PacketHead == 2

Packet(op, body) == <<Len(body) + PacketHead, op>> \o body

\* A mutant of PacketTurn: the length is taken for that of the body.
MutPacketTurn(s, rest) ==
  IF PacketHead <= Len(rest) /\ Complete(rest[1], PacketHead, rest)
  THEN Consumed(HandOver(s, rest[2], SubSeq(rest, PacketHead + 1, rest[1])),
                rest[1] - PacketHead)
  ELSE Consumed(s, 0)

PacketTurn(s, rest) ==
  IF PacketHead <= Len(rest) /\ Complete(rest[1], PacketHead, rest)
  THEN Consumed(HandOver(s, rest[2], SubSeq(rest, PacketHead + 1, rest[1])),
                rest[1])
  ELSE Consumed(s, 0)

(***************************************************************************)
(* cellnet: command, serial number, length                                 *)
(***************************************************************************)

CellnetHead == 3

\* helpSendPacketInLoop: the length is cut to its 16 bits.  The writer is told
\* to grow, so that a body beyond its 8 KiB goes out whole.
Cellnet(cmd, serial, data) ==
  <<cmd, serial, (Len(data) + CellnetHead) % LenMod>> \o data

\* A mutant of CellnetTurn: the count of serial numbers does not wrap.
MutCellnetTurn(s, rest, asserts) ==
  IF ~ (CellnetHead <= Len(rest) /\ Complete(rest[3], CellnetHead, rest))
  THEN Consumed(s, 0)
  ELSE IF asserts /\ s.mRecvSerialID # rest[2]
  THEN Consumed([s EXCEPT !.aborted = TRUE], 0)
  ELSE Consumed(
         HandOver([s EXCEPT !.mRecvSerialID = @ + 1],
                  rest[1], SubSeq(rest, CellnetHead + 1, rest[3])),
         rest[3])

\* The serial number is compared, and counted, inside an assert: a build
\* without asserts does neither.
CellnetTurn(s, rest, asserts) ==
  IF ~ (CellnetHead <= Len(rest) /\ Complete(rest[3], CellnetHead, rest))
  THEN Consumed(s, 0)
  ELSE IF asserts /\ s.mRecvSerialID # rest[2]
  THEN Consumed([s EXCEPT !.aborted = TRUE], 0)
  ELSE Consumed(
         HandOver([s EXCEPT !.mRecvSerialID =
                     IF asserts THEN (@ + 1) % SerialMod ELSE @],
                  rest[1], SubSeq(rest, CellnetHead + 1, rest[3])),
         rest[3])

(***************************************************************************)
(* web: a packet of the browser's in one websocket frame or several        *)
(***************************************************************************)

FrameHead == 3      \* final, opcode, length (the mask is left out)
PacketOverhead == 5 \* brace, length, command, serial number ... brace

CONTINUATION == 0
TEXT == 1
BINARY == 2
PING == 9
PONG == 10
Brace == 123

Frame(fin, opcode, payload) ==
  <<IF fin THEN 1 ELSE 0, opcode, Len(payload)>> \o payload

WebPacket(cmd, serial, body) ==
  <<Brace, Len(body) + PacketOverhead, cmd, serial>> \o body \o <<Brace>>

\* A mutant of Final: the cache is not emptied.
MutFinal(s, payload, asserts) ==
  LET whole == s.mCacheFrame \o payload IN
  IF Len(whole) >= PacketOverhead /\ whole[2] = Len(whole)
  THEN HandOver(s, whole[3], SubSeq(whole, 5, Len(whole) - 1))
  ELSE [s EXCEPT !.aborted = asserts]

\* What a final text or binary frame does with its payload, put behind what is
\* cached.
Final(s, payload, asserts) ==
  LET whole == s.mCacheFrame \o payload
      s0    == [s EXCEPT !.mCacheFrame = <<>>]
  IN  IF Len(whole) >= PacketOverhead /\ whole[2] = Len(whole)
      THEN HandOver(s0, whole[3], SubSeq(whole, 5, Len(whole) - 1))
      ELSE [s0 EXCEPT !.aborted = asserts]

WebFrame(s, fin, opcode, payload, asserts) ==
  CASE fin /\ opcode \in {TEXT, BINARY} -> Final(s, payload, asserts)
    [] opcode = CONTINUATION -> [s EXCEPT !.mCacheFrame = @ \o payload]
    [] opcode \in {PING, PONG} -> s
    [] OTHER -> [s EXCEPT !.aborted = asserts]

\* A frame is looked for only when a packet's overhead has arrived.
WebTurn(s, rest, asserts) ==
  IF /\ PacketOverhead <= Len(rest) /\ FrameHead <= Len(rest)
     /\ FrameHead + rest[3] <= Len(rest)
  THEN Consumed(WebFrame(s, rest[1] = 1, rest[2],
                         SubSeq(rest, FrameHead + 1, FrameHead + rest[3]), asserts),
                FrameHead + rest[3])
  ELSE Consumed(s, 0)

(***************************************************************************)
(* The handshake.  Key is the line with the key, which counts only when    *)
(* its end has arrived; the header lines behind it begin with a letter,    *)
(* read as a frame that is not final and has a reserved opcode.  Once the  *)
(* key is found everything received is consumed, and nothing else is       *)
(* awaited.                                                                *)
(***************************************************************************)
Key == -1
HeaderLines == <<0, 3, 9, 10>>
Request == <<71, Key>> \o HeaderLines

WebHandshake(s, rest) ==
  IF \E i \in DOMAIN rest : rest[i] = Key
  THEN Consumed([s EXCEPT !.mShakehanded = TRUE], Len(rest))
  ELSE Consumed(s, 0)

(***************************************************************************)
(* One turn of onMsg of the three sessions, on what is not consumed yet.   *)
(***************************************************************************)
Turn(format, s, rest, asserts) ==
  CASE format = "packet" -> PacketTurn(s, Seen(rest))
    [] format = "cellnet" -> CellnetTurn(s, rest, asserts)
    [] format = "web" -> IF s.mShakehanded THEN WebTurn(s, Seen(rest), asserts)
                         ELSE WebHandshake(s, rest)
=============================================================================
