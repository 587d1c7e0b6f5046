---------------------------- MODULE StreamsProofs ----------------------------
(***************************************************************************)
(* What a connection hands over, for any packets, however long, any number *)
(* of them, and any way the network cuts the stream.                       *)
(*                                                                         *)
(* First what a turn of each onMsg makes of octets that begin with a whole *)
(* packet, and of a part of one.  Then StreamInv: as long as nothing took  *)
(* the receiver out of step, it stands where a write ends, has handed over *)
(* what the writes before that owe, and counts as the sender counted.      *)
(***************************************************************************)
EXTENDS Streams, ProtoProofs

Item == [op : Int, body : Seq(Int)]

Kinds == {"nothing", "whole", "request", "ping", "first", "rest"}
Writes ==
  [kind : Kinds, end : Nat, packets : Seq(Item), owed : Seq(Item), spoils : BOOLEAN]

Receivers ==
  [mRecvSerialID : Int, mShakehanded : BOOLEAN, mCacheFrame : Seq(Int),
   handed : Seq(Item), aborted : BOOLEAN]

(***************************************************************************)
(* Octets                                                                  *)
(***************************************************************************)

\* A message is written as octets, and as many as its ByteSize().
LEMMA LetterOctets ==
  ASSUME NEW l \in Letters
  PROVE  /\ l.op \in Int /\ Octets(l) \in Seq(Int)
         /\ ByteSize(Table[l.class], l.msg) = Len(Octets(l))
<1>1. PICK table, a : table = Table[l.class] /\ a = l.msg
  OBVIOUS
<1>2. l.op \in Int /\ GoodTable(table) /\ IsMessage(table, a)
  BY <1>1, ContentsAssumption, TablesGood
<1>3. Octets(l) = Serialize(table, a)
  BY <1>1 DEF Octets
<1>4. Serialize(table, a) \in Seq(Octet)
  BY <1>2, SerializeType
<1>5. ASSUME NEW s \in Seq(Octet)
      PROVE  s \in Seq(Int)
  <2>1. Octet \subseteq Int
    BY DEF Octet
  <2> QED
    BY <2>1, SeqMonotonic
<1>6. ByteSize(table, a) = Len(Serialize(table, a))
  BY <1>2, ByteSizeWritten
<1> QED
  BY <1>1, <1>2, <1>3, <1>4, <1>5, <1>6, Zenon

\* All of o has arrived, and perhaps more.
Begins(rest, o) ==
  Len(o) <= Len(rest) /\ \A i \in 1 .. Len(o) : rest[i] = o[i]

\* Less than o has arrived.
Cut(rest, o) ==
  Len(rest) < Len(o) /\ \A i \in 1 .. Len(rest) : rest[i] = o[i]

\* What a parser sees of the octets is their front, and all of them unless more wait
\* than PACKET_LEN_TYPE counts.
LEMMA SeenOctets ==
  ASSUME NEW rest \in Seq(Int)
  PROVE  /\ Seen(rest) \in Seq(Int) /\ Len(Seen(rest)) <= Len(rest)
         /\ \A i \in 1 .. Len(Seen(rest)) : Seen(rest)[i] = rest[i]
         /\ Len(rest) < PacketLenMod => Seen(rest) = rest
<1>1. PICK n, m : n = Len(rest) /\ m = PacketLenMod
  OBVIOUS
<1>2. n \in Nat /\ m \in Nat /\ m > 0
  BY <1>1, FramingAssumption
<1>3. PICK c : c = n % m
  OBVIOUS
<1>4. c \in Nat /\ c <= n /\ (n < m => c = n)
  BY <1>2, <1>3
<1>5. Seen(rest) = SubSeq(rest, 1, c)
  BY <1>1, <1>3 DEF Seen
<1> QED
  BY <1>1, <1>4, <1>5

\* What begins with o, or is cut in it, does so as it is seen.
LEMMA SeenBegins ==
  ASSUME NEW rest \in Seq(Int), NEW o \in Seq(Int), Begins(rest, o) \/ Cut(rest, o)
  PROVE  /\ Begins(Seen(rest), o) \/ Cut(Seen(rest), o)
         /\ Begins(Seen(rest), o) => Begins(rest, o)
         /\ Len(rest) < PacketLenMod => Seen(rest) = rest
<1>1. PICK seen : seen = Seen(rest)
  OBVIOUS
<1>2. /\ seen \in Seq(Int) /\ Len(seen) <= Len(rest)
      /\ \A i \in 1 .. Len(seen) : seen[i] = rest[i]
      /\ Len(rest) < PacketLenMod => seen = rest
  BY <1>1, SeenOctets
<1>3. Len(rest) \in Nat /\ Len(seen) \in Nat /\ Len(o) \in Nat
  BY <1>2
<1>4. ASSUME NEW i \in 1 .. Len(seen), i <= Len(o)
      PROVE  seen[i] = o[i]
  <2>1. i \in 1 .. Len(rest) /\ i \in 1 .. Len(o)
    BY <1>2, <1>3, <1>4
  <2>2. rest[i] = o[i]
    BY <2>1 DEF Begins, Cut
  <2> QED
    BY <1>2, <2>2
<1>5. CASE Len(o) <= Len(seen)
  <2>1. \A i \in 1 .. Len(o) : i \in 1 .. Len(seen) /\ i <= Len(o)
    BY <1>3, <1>5
  <2>2. Begins(seen, o)
    BY <1>4, <1>5, <2>1 DEF Begins
  <2>3. Begins(rest, o)
    BY <1>2, <1>3, <1>5 DEF Begins, Cut
  <2> QED
    BY <1>1, <1>2, <2>2, <2>3
<1>6. CASE ~ (Len(o) <= Len(seen))
  <2>1. \A i \in 1 .. Len(seen) : i <= Len(o)
    BY <1>3, <1>6
  <2>2. Len(seen) < Len(o)
    BY <1>3, <1>6
  <2>3. Cut(seen, o)
    BY <1>4, <2>1, <2>2 DEF Cut
  <2>4. ~ Begins(seen, o)
    BY <1>6 DEF Begins
  <2> QED
    BY <1>1, <1>2, <2>3, <2>4
<1> QED
  BY <1>5, <1>6

\* A body is cut out between its head and its end.
LEMMA Slice ==
  ASSUME NEW s \in Seq(Int), NEW b \in Seq(Int), NEW h \in Nat,
         h + Len(b) <= Len(s), \A i \in 1 .. Len(b) : s[h + i] = b[i]
  PROVE  SubSeq(s, h + 1, h + Len(b)) = b
<1> DEFINE c == SubSeq(s, h + 1, h + Len(b))
<1>1. c \in Seq(Int) /\ Len(c) = Len(b) /\ \A i \in 1 .. Len(b) : c[i] = s[h + i]
  OBVIOUS
<1>2. \A i \in 1 .. Len(c) : c[i] = b[i]
  BY <1>1
<1> HIDE DEF c
<1>3. c = b
  BY <1>1, <1>2, SeqEqual
<1> QED
  BY <1>3 DEF c

\* Octets that begin with a head and a body do so with the head and the body.
LEMMA BeginsWith ==
  ASSUME NEW rest \in Seq(Int), NEW o \in Seq(Int), NEW b \in Seq(Int), NEW h \in Nat,
         Begins(rest, o), Len(o) = Len(b) + h,
         \A i \in 1 .. Len(b) : o[h + i] = b[i]
  PROVE  /\ Len(b) + h <= Len(rest)
         /\ \A i \in 1 .. h : rest[i] = o[i]
         /\ SubSeq(rest, h + 1, h + Len(b)) = b
<1>1. Len(b) \in Nat /\ Len(rest) \in Nat
  OBVIOUS
<1>2. \A i \in 1 .. h : i \in 1 .. Len(o)
  BY <1>1
<1>3. \A i \in 1 .. Len(b) : h + i \in 1 .. Len(o)
  BY <1>1
<1>4. \A i \in 1 .. Len(b) : rest[h + i] = b[i]
  BY <1>3 DEF Begins
<1>5. Len(b) + h <= Len(rest)
  BY DEF Begins
<1>6. \A i \in 1 .. h : rest[i] = o[i]
  BY <1>2 DEF Begins
<1>7. h + Len(b) <= Len(rest)
  BY <1>1, <1>5
<1>8. SubSeq(rest, h + 1, h + Len(b)) = b
  BY <1>4, <1>7, Slice
<1> QED
  BY <1>5, <1>6, <1>8

\* A head of two octets in front of a body, ...
LEMMA HeadBody2 ==
  ASSUME NEW a \in Int, NEW b \in Int,
         NEW body \in Seq(Int)
  PROVE  LET o == <<a, b>> \o body IN
         /\ o \in Seq(Int) /\ Len(o) = Len(body) + 2
         /\ o[1] = a /\ o[2] = b
         /\ \A i \in 1 .. Len(body) : o[2 + i] = body[i]
OBVIOUS

\* ... of three ...
LEMMA HeadBody3 ==
  ASSUME NEW a \in Int, NEW b \in Int, NEW c \in Int,
         NEW body \in Seq(Int)
  PROVE  LET o == <<a, b, c>> \o body IN
         /\ o \in Seq(Int) /\ Len(o) = Len(body) + 3
         /\ o[1] = a /\ o[2] = b /\ o[3] = c
         /\ \A i \in 1 .. Len(body) : o[3 + i] = body[i]
OBVIOUS

\* ... and of four.
LEMMA HeadBody4 ==
  ASSUME NEW a \in Int, NEW b \in Int, NEW c \in Int, NEW d \in Int,
         NEW body \in Seq(Int)
  PROVE  LET o == <<a, b, c, d>> \o body IN
         /\ o \in Seq(Int) /\ Len(o) = Len(body) + 4
         /\ o[1] = a /\ o[2] = b /\ o[3] = c /\ o[4] = d
         /\ \A i \in 1 .. Len(body) : o[4 + i] = body[i]
OBVIOUS

(***************************************************************************)
(* packet and cellnet: one turn                                            *)
(***************************************************************************)

\* The fields of a packet, where its parser reads them.
LEMMA PacketOctets ==
  ASSUME NEW op \in Int, NEW body \in Seq(Int)
  PROVE  /\ Packet(op, body) \in Seq(Int) /\ Len(Packet(op, body)) = Len(body) + 2
         /\ Packet(op, body)[1] = Len(body) + 2 /\ Packet(op, body)[2] = op
         /\ \A i \in 1 .. Len(body) : Packet(op, body)[2 + i] = body[i]
<1>1. Len(body) + 2 \in Int
  OBVIOUS
<1> QED
  BY <1>1, HeadBody2 DEF Packet, PacketHead

\* A packet that is there is handed over and consumed, ...
LEMMA PacketWhole ==
  ASSUME NEW s, NEW rest \in Seq(Int), NEW op \in Int, NEW body \in Seq(Int),
         Begins(rest, Packet(op, body))
  PROVE  PacketTurn(s, rest) = Consumed(HandOver(s, op, body), Len(body) + 2)
<1> DEFINE o == Packet(op, body)
<1>1. /\ o \in Seq(Int) /\ Len(o) = Len(body) + 2 /\ o[1] = Len(body) + 2 /\ o[2] = op
      /\ \A i \in 1 .. Len(body) : o[2 + i] = body[i]
  BY PacketOctets
<1>2. Begins(rest, o)
  OBVIOUS
<1> HIDE DEF o
<1>3. Len(body) \in Nat /\ Len(rest) \in Nat
  OBVIOUS
<1>4. /\ Len(body) + PacketHead <= Len(rest) /\ \A i \in 1 .. PacketHead : rest[i] = o[i]
      /\ SubSeq(rest, PacketHead + 1, PacketHead + Len(body)) = body
  <2>1. PacketHead \in Nat /\ Len(o) = Len(body) + PacketHead
    BY <1>1 DEF PacketHead
  <2>2. \A i \in 1 .. Len(body) : o[PacketHead + i] = body[i]
    BY <1>1 DEF PacketHead
  <2>3. o \in Seq(Int)
    BY <1>1
  <2> QED
    BY <1>2, <2>1, <2>2, <2>3, BeginsWith, ZenonT(40)
<1>5. rest[1] = Len(body) + 2 /\ rest[2] = op
  BY <1>1, <1>4 DEF PacketHead
<1>6. SubSeq(rest, PacketHead + 1, rest[1]) = body
  BY <1>3, <1>4, <1>5 DEF PacketHead
<1>7. PacketHead <= Len(rest) /\ Complete(rest[1], PacketHead, rest)
  BY <1>3, <1>4, <1>5 DEF PacketHead, Complete
<1>8. PacketTurn(s, rest) = Consumed(HandOver(s, rest[2], SubSeq(rest, PacketHead + 1, rest[1])), rest[1])
  BY <1>7 DEF PacketTurn
<1> QED
  BY <1>5, <1>6, <1>8

\* ... and one that is not is waited for.
LEMMA PacketPart ==
  ASSUME NEW s, NEW rest \in Seq(Int), NEW op \in Int, NEW body \in Seq(Int),
         Cut(rest, Packet(op, body))
  PROVE  PacketTurn(s, rest) = Consumed(s, 0)
<1>1. Len(body) \in Nat /\ Len(rest) \in Nat
  OBVIOUS
<1>2. Len(rest) < Len(body) + 2 /\ (Len(rest) >= 2 => rest[1] = Len(body) + 2)
  BY <1>1, PacketOctets DEF Cut
<1> QED
  BY <1>1, <1>2 DEF PacketTurn, Complete, PacketHead

\* The fields of a cellnet packet whose length fits.
LEMMA CellnetOctets ==
  ASSUME NEW cmd \in Int, NEW serial \in Int, NEW data \in Seq(Int),
         Len(data) + CellnetHead < LenMod
  PROVE  /\ Cellnet(cmd, serial, data) \in Seq(Int)
         /\ Len(Cellnet(cmd, serial, data)) = Len(data) + 3
         /\ Cellnet(cmd, serial, data)[1] = cmd
         /\ Cellnet(cmd, serial, data)[2] = serial
         /\ Cellnet(cmd, serial, data)[3] = Len(data) + 3
         /\ \A i \in 1 .. Len(data) : Cellnet(cmd, serial, data)[3 + i] = data[i]
<1>1. Len(data) \in Nat /\ LenMod \in Nat
  BY FramingAssumption
<1>2. (Len(data) + CellnetHead) % LenMod = Len(data) + 3
  BY <1>1 DEF CellnetHead
<1>3. Len(data) + 3 \in Int
  BY <1>1
<1> QED
  BY <1>2, <1>3, HeadBody3 DEF Cellnet

\* What is handed over has its number counted, where numbers are counted.
Counted(s, counting) ==
  [s EXCEPT !.mRecvSerialID = IF counting THEN (@ + 1) % SerialMod ELSE @]

\* A cellnet packet with the number expected is handed over and counted, ...
LEMMA CellnetWhole ==
  ASSUME NEW s, NEW rest \in Seq(Int), NEW a \in BOOLEAN,
         NEW cmd \in Int, NEW serial \in Int, NEW data \in Seq(Int),
         Len(data) + CellnetHead < LenMod,
         Begins(rest, Cellnet(cmd, serial, data)),
         a => s.mRecvSerialID = serial
  PROVE  CellnetTurn(s, rest, a) =
           Consumed(HandOver(Counted(s, a), cmd, data), Len(data) + 3)
<1> DEFINE o == Cellnet(cmd, serial, data)
<1>1. /\ o \in Seq(Int) /\ Len(o) = Len(data) + 3
      /\ o[1] = cmd /\ o[2] = serial /\ o[3] = Len(data) + 3
      /\ \A i \in 1 .. Len(data) : o[3 + i] = data[i]
  BY CellnetOctets
<1>2. Begins(rest, o)
  OBVIOUS
<1> HIDE DEF o
<1>3. Len(data) \in Nat /\ Len(rest) \in Nat
  OBVIOUS
<1>4. /\ Len(data) + CellnetHead <= Len(rest) /\ \A i \in 1 .. CellnetHead : rest[i] = o[i]
      /\ SubSeq(rest, CellnetHead + 1, CellnetHead + Len(data)) = data
  <2>1. CellnetHead \in Nat /\ Len(o) = Len(data) + CellnetHead
    BY <1>1 DEF CellnetHead
  <2>2. \A i \in 1 .. Len(data) : o[CellnetHead + i] = data[i]
    BY <1>1 DEF CellnetHead
  <2>3. o \in Seq(Int)
    BY <1>1
  <2> QED
    BY <1>2, <2>1, <2>2, <2>3, BeginsWith, ZenonT(40)
<1>5. rest[1] = cmd /\ rest[2] = serial /\ rest[3] = Len(data) + 3
  BY <1>1, <1>4, SMTT(30) DEF CellnetHead
<1>6. SubSeq(rest, CellnetHead + 1, rest[3]) = data
  BY <1>3, <1>4, <1>5 DEF CellnetHead
<1>7. CellnetHead <= Len(rest) /\ Complete(rest[3], CellnetHead, rest)
  BY <1>3, <1>4, <1>5 DEF CellnetHead, Complete
<1>8. ~ (a /\ s.mRecvSerialID # rest[2])
  BY <1>5
<1>9. CellnetTurn(s, rest, a) =
        Consumed(HandOver(Counted(s, a), rest[1], SubSeq(rest, CellnetHead + 1, rest[3])),
                 rest[3])
  BY <1>7, <1>8 DEF CellnetTurn, Counted
<1> QED
  BY <1>5, <1>6, <1>9

\* ... and waited for while it is not all there.
LEMMA CellnetPart ==
  ASSUME NEW s, NEW rest \in Seq(Int), NEW a \in BOOLEAN,
         NEW cmd \in Int, NEW serial \in Int, NEW data \in Seq(Int),
         Len(data) + CellnetHead < LenMod,
         Cut(rest, Cellnet(cmd, serial, data))
  PROVE  CellnetTurn(s, rest, a) = Consumed(s, 0)
<1>1. Len(data) \in Nat /\ Len(rest) \in Nat
  OBVIOUS
<1>2. Len(rest) < Len(data) + 3 /\ (Len(rest) >= 3 => rest[3] = Len(data) + 3)
  BY <1>1, CellnetOctets DEF Cut
<1> QED
  BY <1>1, <1>2 DEF CellnetTurn, Complete, CellnetHead

(***************************************************************************)
(* web: one turn                                                           *)
(***************************************************************************)

\* The fields of a frame.
LEMMA FrameOctets ==
  ASSUME NEW fin \in BOOLEAN, NEW opcode \in Int, NEW payload \in Seq(Int)
  PROVE  LET o == Frame(fin, opcode, payload) IN
         /\ o \in Seq(Int) /\ Len(o) = Len(payload) + 3
         /\ (o[1] = 1 <=> fin) /\ o[2] = opcode /\ o[3] = Len(payload)
         /\ \A i \in 1 .. Len(payload) : o[3 + i] = payload[i]
<1>1. Len(payload) \in Int /\ (IF fin THEN 1 ELSE 0) \in Int
  OBVIOUS
<1>2. (IF fin THEN 1 ELSE 0) = 1 <=> fin
  OBVIOUS
<1> HIDE DEF Frame
<1> QED
  BY <1>1, <1>2, HeadBody3 DEF Frame

\* A frame that is there, with as many octets as a packet adds to its body, is
\* taken for what its opcode says.
LEMMA FrameWhole ==
  ASSUME NEW s, NEW rest \in Seq(Int), NEW a \in BOOLEAN,
         NEW fin \in BOOLEAN, NEW opcode \in Int, NEW payload \in Seq(Int),
         Begins(rest, Frame(fin, opcode, payload)), PacketOverhead <= Len(rest)
  PROVE  WebTurn(s, rest, a) =
           Consumed(WebFrame(s, fin, opcode, payload, a), Len(payload) + 3)
<1> DEFINE o == Frame(fin, opcode, payload)
<1>1. /\ o \in Seq(Int) /\ Len(o) = Len(payload) + 3
      /\ (o[1] = 1 <=> fin) /\ o[2] = opcode /\ o[3] = Len(payload)
      /\ \A i \in 1 .. Len(payload) : o[3 + i] = payload[i]
  BY FrameOctets
<1>2. Begins(rest, o)
  OBVIOUS
<1> HIDE DEF o
<1>3. Len(payload) \in Nat /\ Len(rest) \in Nat
  OBVIOUS
<1>4. /\ Len(payload) + FrameHead <= Len(rest) /\ \A i \in 1 .. FrameHead : rest[i] = o[i]
      /\ SubSeq(rest, FrameHead + 1, FrameHead + Len(payload)) = payload
  <2>1. FrameHead \in Nat /\ Len(o) = Len(payload) + FrameHead
    BY <1>1 DEF FrameHead
  <2>2. \A i \in 1 .. Len(payload) : o[FrameHead + i] = payload[i]
    BY <1>1 DEF FrameHead
  <2>3. o \in Seq(Int)
    BY <1>1
  <2> QED
    BY <1>2, <2>1, <2>2, <2>3, BeginsWith, ZenonT(40)
<1>5. (rest[1] = 1 <=> fin) /\ rest[2] = opcode /\ rest[3] = Len(payload)
  BY <1>1, <1>4, SMTT(30) DEF FrameHead
<1>6. (rest[1] = 1) = fin
  BY <1>5, Zenon
<1>7. SubSeq(rest, FrameHead + 1, FrameHead + rest[3]) = payload
  BY <1>4, <1>5 DEF FrameHead
<1>8. FrameHead <= Len(rest) /\ FrameHead + rest[3] <= Len(rest)
  BY <1>3, <1>4, <1>5 DEF FrameHead
<1>9. WebTurn(s, rest, a) =
        Consumed(WebFrame(s, rest[1] = 1, rest[2],
                          SubSeq(rest, FrameHead + 1, FrameHead + rest[3]), a),
                 FrameHead + rest[3])
  BY <1>8 DEF WebTurn
<1>10. FrameHead + rest[3] = Len(payload) + 3
  BY <1>3, <1>5 DEF FrameHead
<1> QED
  BY <1>5, <1>6, <1>7, <1>9, <1>10, Zenon

\* A frame of which a part is missing is waited for, and so is any that ends before
\* as many octets as a packet adds to its body.
LEMMA FramePart ==
  ASSUME NEW s, NEW rest \in Seq(Int), NEW a \in BOOLEAN,
         NEW fin \in BOOLEAN, NEW opcode \in Int, NEW payload \in Seq(Int),
         Cut(rest, Frame(fin, opcode, payload)) \/ Len(rest) < PacketOverhead
  PROVE  WebTurn(s, rest, a) = Consumed(s, 0)
<1>1. Len(payload) \in Nat /\ Len(rest) \in Nat
  OBVIOUS
<1>2. ASSUME Cut(rest, Frame(fin, opcode, payload))
      PROVE  Len(rest) < Len(payload) + 3 /\ (Len(rest) >= 3 => rest[3] = Len(payload))
  <2> DEFINE o == Frame(fin, opcode, payload)
  <2>1. Len(o) = Len(payload) + 3 /\ o[3] = Len(payload)
    BY FrameOctets
  <2>2. Cut(rest, o)
    BY <1>2
  <2> HIDE DEF o
  <2> QED
    BY <1>1, <2>1, <2>2 DEF Cut
<1>3. ~ (/\ PacketOverhead <= Len(rest) /\ FrameHead <= Len(rest)
         /\ FrameHead + rest[3] <= Len(rest))
  <2>1. CASE Cut(rest, Frame(fin, opcode, payload))
    BY <1>1, <1>2, <2>1 DEF FrameHead
  <2>2. CASE Len(rest) < PacketOverhead
    BY <1>1, <2>2 DEF PacketOverhead
  <2> QED
    BY <2>1, <2>2
<1> QED
  BY <1>3 DEF WebTurn

\* The fields of a packet in a frame.
LEMMA WebPacketOctets ==
  ASSUME NEW cmd \in Int, NEW serial \in Int, NEW body \in Seq(Int)
  PROVE  LET o == WebPacket(cmd, serial, body) IN
         /\ o \in Seq(Int) /\ Len(o) = Len(body) + 5
         /\ o[2] = Len(o) /\ o[3] = cmd
         /\ \A i \in 1 .. Len(body) : o[4 + i] = body[i]
<1>1. Len(body) \in Nat
  OBVIOUS
<1> DEFINE o == <<Brace, Len(body) + PacketOverhead, cmd, serial>> \o body
<1>2. /\ o \in Seq(Int) /\ Len(o) = Len(body) + 4
      /\ o[2] = Len(body) + PacketOverhead /\ o[3] = cmd
      /\ \A i \in 1 .. Len(body) : o[4 + i] = body[i]
  BY <1>1, HeadBody4 DEF Brace, PacketOverhead
<1> HIDE DEF o
<1>3. <<Brace>> \in Seq(Int)
  BY DEF Brace
<1> DEFINE w == o \o <<Brace>>
<1>4. /\ w \in Seq(Int) /\ Len(w) = Len(body) + 5
      /\ \A i \in 1 .. Len(body) + 4 : w[i] = o[i]
  BY <1>1, <1>2, <1>3
<1>5. WebPacket(cmd, serial, body) = w
  BY <1>1, <1>2, <1>3 DEF WebPacket, o
<1> HIDE DEF w
<1>6. /\ w[2] = Len(w) /\ w[3] = cmd
      /\ \A i \in 1 .. Len(body) : w[4 + i] = body[i]
  <2>1. w[2] = o[2] /\ w[3] = o[3]
    BY <1>1, <1>4
  <2>2. \A i \in 1 .. Len(body) : 4 + i \in 1 .. Len(body) + 4
    BY <1>1
  <2>3. \A i \in 1 .. Len(body) : w[4 + i] = body[i]
    BY <1>2, <1>4, <2>2
  <2> QED
    BY <1>2, <1>4, <2>1, <2>3 DEF PacketOverhead
<1> QED
  BY <1>4, <1>5, <1>6

\* A final text or binary frame ends a message.
LEMMA WholeFrame ==
  ASSUME NEW s, NEW a, NEW payload, NEW opcode \in {TEXT, BINARY}
  PROVE  WebFrame(s, TRUE, opcode, payload, a) = Final(s, payload, a)
<1>1. opcode # CONTINUATION /\ opcode \notin {PING, PONG}
  BY DEF TEXT, BINARY, CONTINUATION, PING, PONG
<1> QED
  BY <1>1, Zenon DEF WebFrame

\* A final frame behind nothing is a packet.
LEMMA FinalWhole ==
  ASSUME NEW s \in Receivers, NEW a \in BOOLEAN,
         NEW cmd \in Int, NEW serial \in Int, NEW body \in Seq(Int),
         NEW opcode \in {TEXT, BINARY}, s.mCacheFrame = <<>>
  PROVE  WebFrame(s, TRUE, opcode, WebPacket(cmd, serial, body), a) =
           HandOver([s EXCEPT !.mCacheFrame = <<>>], cmd, body)
<1> DEFINE o == WebPacket(cmd, serial, body)
<1>1. Len(body) \in Nat
  OBVIOUS
<1>2. /\ o \in Seq(Int) /\ Len(o) = Len(body) + 5
      /\ o[2] = Len(o) /\ o[3] = cmd
      /\ \A i \in 1 .. Len(body) : o[4 + i] = body[i]
  BY WebPacketOctets
<1> HIDE DEF o
<1>3. s.mCacheFrame \o o = o
  BY <1>2
<1>4. SubSeq(o, 4 + 1, 4 + Len(body)) = body
  BY <1>1, <1>2, Slice
<1>5. SubSeq(o, 5, Len(o) - 1) = body
  BY <1>1, <1>2, <1>4
<1>6. Final(s, o, a) = HandOver([s EXCEPT !.mCacheFrame = <<>>], o[3], SubSeq(o, 5, Len(o) - 1))
  <2>1. Len(o) >= PacketOverhead
    BY <1>1, <1>2 DEF PacketOverhead
  <2> QED
    BY <1>2, <1>3, <2>1 DEF Final
<1>7. WebFrame(s, TRUE, opcode, o, a) = Final(s, o, a)
  BY WholeFrame
<1> QED
  BY <1>2, <1>5, <1>6, <1>7 DEF o

\* What cannot pass for the front of a longer packet.
Harmless(c) == Len(c) >= 2 /\ c[2] < Len(c) + PacketOverhead

\* A packet behind the rest of a message is lost: the two together are no packet.
LEMMA FinalSpoiled ==
  ASSUME NEW s \in Receivers, NEW a \in BOOLEAN, NEW payload \in Seq(Int),
         NEW opcode \in {TEXT, BINARY},
         Len(payload) >= PacketOverhead, Harmless(s.mCacheFrame)
  PROVE  WebFrame(s, TRUE, opcode, payload, a) =
           [[s EXCEPT !.mCacheFrame = <<>>] EXCEPT !.aborted = a]
<1> DEFINE c == s.mCacheFrame
           whole == c \o payload
<1>1. c \in Seq(Int)
  BY DEF Receivers
<1>2. /\ whole[2] = c[2] /\ Len(whole) = Len(c) + Len(payload)
      /\ Len(c) \in Nat /\ Len(payload) \in Nat /\ c[2] \in Int
  BY <1>1 DEF Harmless
<1>3. whole[2] # Len(whole)
  BY <1>2 DEF Harmless, PacketOverhead
<1>4. Final(s, payload, a) = [[s EXCEPT !.mCacheFrame = <<>>] EXCEPT !.aborted = a]
  BY <1>3 DEF Final
<1>5. WebFrame(s, TRUE, opcode, payload, a) = Final(s, payload, a)
  BY WholeFrame
<1> QED
  BY <1>4, <1>5

(***************************************************************************)
(* The invariant                                                           *)
(***************************************************************************)

StreamType ==
  /\ format \in {"packet", "cellnet", "web"} /\ asserts \in BOOLEAN
  /\ session \in Receivers
  /\ stream \in Seq(Int)
  /\ arrived \in Nat /\ done \in Nat /\ done <= arrived /\ arrived <= Len(stream)
  /\ reading \in BOOLEAN
  /\ mSendSerialID \in Int /\ unsent \in Seq(Int)
  /\ sent \in Seq(Writes)

\* Write k put o on the stream, behind the writes before it.
Carries(k, o) ==
  /\ After(k).end = After(k - 1).end + Len(o)
  /\ \A i \in 1 .. Len(o) : stream[After(k - 1).end + i] = o[i]

\* The serial number the packet after the first k carries or will carry.
SerialAfter(k) ==
  IF k < Len(sent) THEN stream[After(k).end + 2] ELSE mSendSerialID

WrittenPacket(k) ==
  \E op \in Int, body \in Seq(Int) :
    /\ Carries(k, Packet(op, body))
    /\ After(k).owed = Append(After(k - 1).owed, [op |-> op, body |-> body])

WrittenCellnet(k) ==
  \E op \in Int, serial \in Int, body \in Seq(Int) :
    /\ Len(body) + CellnetHead < LenMod
    /\ Carries(k, Cellnet(op, serial, body))
    /\ SerialAfter(k - 1) = serial /\ SerialAfter(k) = (serial + 1) % SerialMod
    /\ After(k).owed = Append(After(k - 1).owed, [op |-> op, body |-> body])

\* A frame that owes nothing, or the packet in it.
OwesNothing(k) ==
  After(k).owed = After(k - 1).owed

WrittenWhole(k) ==
  \E op \in Int, serial \in Int, body \in Seq(Int), opcode \in {TEXT, BINARY} :
    /\ Carries(k, Frame(TRUE, opcode, WebPacket(op, serial, body)))
    /\ After(k).owed =
         IF After(k - 1).spoils THEN After(k - 1).owed
         ELSE Append(After(k - 1).owed, [op |-> op, body |-> body])
    /\ ~ After(k).spoils

WrittenFirst(k) ==
  \E payload \in Seq(Int) :
    /\ Len(payload) >= 2
    /\ Carries(k, Frame(FALSE, TEXT, payload))
    /\ OwesNothing(k) /\ (After(k).spoils <=> After(k - 1).spoils)

WrittenRest(k) ==
  \E payload \in Seq(Int) :
    /\ Harmless(payload)
    /\ Carries(k, Frame(TRUE, CONTINUATION, payload))
    /\ OwesNothing(k) /\ After(k).spoils

WrittenPing(k) ==
  /\ \E opcode \in {PING, PONG} : Carries(k, Frame(TRUE, opcode, <<>>))
  /\ OwesNothing(k) /\ (After(k).spoils <=> After(k - 1).spoils)

WrittenWeb(k) ==
  IF k = 1 THEN Carries(k, Request) /\ OwesNothing(k) /\ ~ After(k).spoils
  ELSE \/ After(k).kind = "whole" /\ WrittenWhole(k)
       \/ After(k).kind = "first" /\ WrittenFirst(k)
       \/ After(k).kind = "rest" /\ WrittenRest(k)
       \/ After(k).kind = "ping" /\ WrittenPing(k)

Written(k) ==
  /\ format = "packet" => WrittenPacket(k)
  /\ format = "cellnet" => WrittenCellnet(k)
  /\ format = "web" => WrittenWeb(k)

\* What is on the stream is one packet or frame after the other.
SenderInv ==
  /\ \A k \in 1 .. Len(sent) : Written(k)
  /\ \A k \in 0 .. Len(sent) : After(k).end <= Len(stream)
  /\ After(Len(sent)).end = Len(stream)
  /\ format = "cellnet" => SerialAfter(0) = 1
  /\ format = "web" /\ ~ session.mShakehanded => Len(sent) <= 1
  /\ unsent # <<>> => Fragmented /\ Len(unsent) >= 2
  /\ \A k \in 0 .. Len(sent) : After(k).spoils => format = "web" /\ Fragmented
  /\ ~ Fragmented => \A k \in 0 .. Len(sent) : After(k).packets = After(k).owed

\* The receiver has consumed the first k writes, and handed over what they owe.
At(k) ==
  /\ done = After(k).end
  /\ session.handed = After(k).owed
  /\ format = "cellnet" /\ asserts => session.mRecvSerialID = SerialAfter(k)
  /\ format = "web" =>
       /\ session.mShakehanded <=> k > 0
       /\ IF After(k).spoils THEN Harmless(session.mCacheFrame)
          ELSE session.mCacheFrame = <<>>

\* Nothing more can be consumed, or more waits than the receiver counts: a ping alone
\* is shorter than what it awaits before it looks for a frame.
Settled(k) ==
  \/ InFull(k)
  \/ Overrun
  \/ k < Len(sent) /\ format = "web" /\ k > 0 /\ After(k + 1).kind = "ping" /\ InFull(k + 1)

InStep == \E k \in 0 .. Len(sent) : At(k) /\ (reading \/ Settled(k))

ReceiverInv == IF session.aborted THEN Fragmented /\ ~ reading ELSE InStep

StreamInv == broken \/ (StreamType /\ SenderInv /\ ReceiverInv)

(***************************************************************************)
(* Writing                                                                 *)
(***************************************************************************)

\* What is noted of a write is one of Writes.
LEMMA AfterType ==
  ASSUME StreamType, NEW k \in 0 .. Len(sent)
  PROVE  After(k) \in Writes
<1>1. CASE k = 0
  <2>1. <<>> \in Seq(Item)
    OBVIOUS
  <2>2. 0 \in Nat /\ "nothing" \in Kinds
    BY DEF Kinds
  <2>3. [kind |-> "nothing", end |-> 0, packets |-> <<>>, owed |-> <<>>, spoils |-> FALSE]
          \in Writes
    BY <2>1, <2>2, Zenon DEF Writes
  <2> QED
    BY <1>1, <2>3 DEF After
<1>2. CASE k # 0
  <2>1. k \in 1 .. Len(sent) /\ sent \in Seq(Writes)
    BY <1>2 DEF StreamType
  <2>2. sent[k] \in Writes
    BY <2>1
  <2> QED
    BY <1>2, <2>2 DEF After
<1> QED
  BY <1>1, <1>2

\* The octets of one write go behind all others.
LEMMA WriteStep ==
  ASSUME StreamType, After(Len(sent)).end = Len(stream),
         NEW kind \in Kinds, NEW octets \in Seq(Int), NEW packets \in Seq(Item),
         Write(kind, octets, packets), NEW n, n = Len(sent) + 1
  PROVE  /\ sent' \in Seq(Writes) /\ Len(sent') = Len(sent) + 1
         /\ stream' \in Seq(Int) /\ Len(stream') = Len(stream) + Len(octets)
         /\ \A i \in 1 .. Len(stream) : stream'[i] = stream[i]
         /\ \A k \in 0 .. Len(sent) : After(k)' = After(k)
         /\ After(n)'.kind = kind /\ After(n)'.end = Len(stream) + Len(octets)
         /\ After(n)'.packets = Latest.packets \o packets
         /\ After(n)'.owed = IF Latest.spoils THEN Latest.owed ELSE Latest.owed \o packets
         /\ After(n)'.spoils <=> kind = "rest" \/ (Latest.spoils /\ kind # "whole")
         /\ Carries(n, octets)'
<1> DEFINE w == [kind |-> kind, end |-> Latest.end + Len(octets),
                 packets |-> Latest.packets \o packets,
                 owed |-> IF Latest.spoils THEN Latest.owed ELSE Latest.owed \o packets,
                 spoils |-> kind = "rest" \/ (Latest.spoils /\ kind # "whole")]
<1>1. /\ stream \in Seq(Int) /\ sent \in Seq(Writes)
      /\ Len(sent) \in Nat /\ Len(stream) \in Nat /\ Len(octets) \in Nat
  BY DEF StreamType
<1>2. Latest \in Writes /\ Latest.end = Len(stream)
  BY <1>1, AfterType DEF Latest
<1>3. w \in Writes
  <2>1. Latest.owed \in Seq(Item) /\ Latest.end + Len(octets) \in Nat
    BY <1>1, <1>2 DEF Writes
  <2>2. Latest.owed \o packets \in Seq(Item) /\ Latest.packets \o packets \in Seq(Item)
    <3>1. Latest.packets \in Seq(Item)
      BY <1>2 DEF Writes
    <3> QED
      BY <2>1, <3>1
  <2>3. (kind = "rest" \/ (Latest.spoils /\ kind # "whole")) \in BOOLEAN
    OBVIOUS
  <2> QED
    BY <2>1, <2>2, <2>3 DEF Writes
<1>4. sent' = Append(sent, w) /\ stream' = stream \o octets
  BY DEF Write
<1> HIDE DEF w
<1>5. /\ sent' \in Seq(Writes) /\ Len(sent') = Len(sent) + 1
      /\ \A k \in 1 .. Len(sent) : sent'[k] = sent[k]
      /\ sent'[Len(sent) + 1] = w
  BY <1>1, <1>3, <1>4
<1>6. /\ stream' \in Seq(Int) /\ Len(stream') = Len(stream) + Len(octets)
      /\ \A i \in 1 .. Len(stream) : stream'[i] = stream[i]
      /\ \A i \in 1 .. Len(octets) : stream'[Len(stream) + i] = octets[i]
  BY <1>1, <1>4
<1>7. \A k \in 0 .. Len(sent) : After(k)' = After(k)
  BY <1>1, <1>5 DEF After
<1>8. After(n)' = w
  <2>1. n # 0 /\ sent'[n] = w
    BY <1>1, <1>5
  <2> QED
    BY <2>1 DEF After
<1>9. /\ w.kind = kind /\ w.end = Len(stream) + Len(octets)
      /\ w.packets = Latest.packets \o packets
      /\ w.owed = IF Latest.spoils THEN Latest.owed ELSE Latest.owed \o packets
  BY <1>2 DEF w
<1>10. w.spoils <=> kind = "rest" \/ (Latest.spoils /\ kind # "whole")
  BY DEF w
<1>11. Carries(n, octets)'
  <2>1. n - 1 = Len(sent) /\ n - 1 \in 0 .. Len(sent)
    BY <1>1
  <2>2. After(n - 1)'.end = Len(stream) /\ After(n)'.end = Len(stream) + Len(octets)
    BY <1>7, <1>8, <1>9, <2>1
  <2> QED
    BY <1>6, <2>2 DEF Carries
<1> QED
  BY <1>5, <1>6, <1>7, <1>8, <1>9, <1>11, <1>10

\* What was on the stream stays there, ...
LEMMA OldCarried ==
  ASSUME StreamType, SenderInv, NEW k \in 1 .. Len(sent), NEW o \in Seq(Int),
         After(k)' = After(k), After(k - 1)' = After(k - 1),
         \A i \in 1 .. Len(stream) : stream'[i] = stream[i],
         Carries(k, o)
  PROVE  Carries(k, o)'
<1>1. k \in 0 .. Len(sent) /\ k - 1 \in 0 .. Len(sent) /\ Len(o) \in Nat
  BY DEF StreamType
<1>2. After(k - 1).end \in Nat /\ After(k).end <= Len(stream) /\ Len(stream) \in Nat
  <2>1. After(k - 1).end \in Nat
    BY <1>1, AfterType DEF Writes
  <2>2. After(k).end <= Len(stream)
    BY <1>1 DEF SenderInv
  <2> QED
    BY <2>1, <2>2 DEF StreamType
<1>3. ASSUME NEW i \in 1 .. Len(o)
      PROVE  After(k - 1).end + i \in 1 .. Len(stream)
  <2>1. After(k).end = After(k - 1).end + Len(o)
    BY DEF Carries
  <2>2. PICK a, b : a = After(k - 1).end /\ b = After(k).end
    OBVIOUS
  <2> QED
    BY <1>1, <1>2, <2>1, <2>2
<1>4. \A i \in 1 .. Len(o) : stream'[After(k - 1).end + i] = o[i]
  BY <1>3 DEF Carries
<1> QED
  BY <1>4 DEF Carries

\* ... with the serial numbers that were or would be given.
LEMMA OldSerials ==
  ASSUME StreamType, SenderInv, format = "cellnet",
         NEW kind \in Kinds, NEW octets \in Seq(Int), NEW packets \in Seq(Item),
         Write(kind, octets, packets), Len(octets) >= 2, octets[2] = mSendSerialID,
         NEW k \in 0 .. Len(sent)
  PROVE  SerialAfter(k)' = SerialAfter(k)
<1>1. Len(sent) \in Nat /\ Len(stream) \in Nat
  BY DEF StreamType
<1>2. PICK n : n = Len(sent) + 1
  OBVIOUS
<1>3. /\ Len(sent') = Len(sent) + 1
      /\ \A i \in 1 .. Len(stream) : stream'[i] = stream[i]
      /\ \A j \in 0 .. Len(sent) : After(j)' = After(j)
      /\ Carries(n, octets)'
  BY <1>2, WriteStep DEF SenderInv
<1>4. CASE k = Len(sent)
  <2>1. n - 1 = k /\ After(k)' = After(k) /\ 2 \in 1 .. Len(octets) /\ k < Len(sent')
    BY <1>1, <1>2, <1>3, <1>4
  <2>2. stream'[After(k)'.end + 2] = octets[2]
    BY <1>3, <2>1 DEF Carries
  <2> QED
    BY <1>4, <2>1, <2>2 DEF SerialAfter
<1>5. CASE k # Len(sent)
  <2>1. k < Len(sent) /\ k + 1 \in 1 .. Len(sent) /\ (k + 1) - 1 = k /\ After(k)' = After(k)
        /\ k < Len(sent') /\ k + 1 \in 0 .. Len(sent)
    BY <1>1, <1>3, <1>5, SMTT(30)
  <2>2. PICK op \in Int, serial \in Int, body \in Seq(Int) :
          Len(body) + CellnetHead < LenMod /\ Carries(k + 1, Cellnet(op, serial, body))
    BY <2>1 DEF SenderInv, Written, WrittenCellnet
  <2>3. Len(Cellnet(op, serial, body)) = Len(body) + 3 /\ Len(body) \in Nat
    BY <2>2, CellnetOctets
  <2>4. After(k + 1).end = After(k).end + Len(Cellnet(op, serial, body))
    BY <2>1, <2>2 DEF Carries
  <2>5. After(k + 1).end <= Len(stream) /\ After(k).end \in Nat
    <3>1. After(k + 1).end <= Len(stream)
      BY <2>1 DEF SenderInv
    <3>2. After(k).end \in Nat
      BY AfterType DEF Writes
    <3> QED
      BY <3>1, <3>2
  <2>6. After(k).end + 2 \in 1 .. Len(stream)
    <3>1. PICK a, b, c, e : a = After(k).end /\ b = After(k + 1).end /\ c = Len(stream)
                            /\ e = Len(Cellnet(op, serial, body))
      OBVIOUS
    <3>2. a \in Nat /\ c \in Nat /\ e \in Nat /\ e >= 3 /\ b = a + e /\ b <= c
      BY <1>1, <2>3, <2>4, <2>5, <3>1
    <3>3. a + 2 \in 1 .. c
      BY <3>2
    <3> QED
      BY <3>1, <3>3
  <2> QED
    BY <1>3, <2>1, <2>6 DEF SerialAfter
<1> QED
  BY <1>4, <1>5

\* ... and so is every write before the new one.
LEMMA OldWritten ==
  ASSUME StreamType, SenderInv,
         NEW kind \in Kinds, NEW octets \in Seq(Int), NEW packets \in Seq(Item),
         Write(kind, octets, packets), Len(octets) >= 2,
         format = "cellnet" => octets[2] = mSendSerialID,
         NEW k \in 1 .. Len(sent)
  PROVE  Written(k)'
<1>1. k \in 0 .. Len(sent) /\ k - 1 \in 0 .. Len(sent)
  BY DEF StreamType
<1>2. PICK n : n = Len(sent) + 1
  OBVIOUS
<1>3. /\ \A i \in 1 .. Len(stream) : stream'[i] = stream[i]
      /\ After(k)' = After(k) /\ After(k - 1)' = After(k - 1)
  BY <1>1, <1>2, WriteStep DEF SenderInv
<1>4. format' = format
  BY DEF Write
<1>5. \A o \in Seq(Int) : Carries(k, o) => Carries(k, o)'
  BY <1>3, OldCarried
<1>6. Written(k)
  BY DEF SenderInv
<1>7. ASSUME format = "packet" PROVE WrittenPacket(k)'
  <2>1. PICK op \in Int, body \in Seq(Int) :
          /\ Carries(k, Packet(op, body))
          /\ After(k).owed = Append(After(k - 1).owed, [op |-> op, body |-> body])
    BY <1>6, <1>7 DEF Written, WrittenPacket
  <2>2. Carries(k, Packet(op, body))'
    BY <1>5, <2>1, PacketOctets
  <2> QED
    BY <1>3, <2>1, <2>2 DEF WrittenPacket
<1>8. ASSUME format = "cellnet" PROVE WrittenCellnet(k)'
  <2>1. PICK op \in Int, serial \in Int, body \in Seq(Int) :
          /\ Len(body) + CellnetHead < LenMod
          /\ Carries(k, Cellnet(op, serial, body))
          /\ SerialAfter(k - 1) = serial /\ SerialAfter(k) = (serial + 1) % SerialMod
          /\ After(k).owed = Append(After(k - 1).owed, [op |-> op, body |-> body])
    BY <1>6, <1>8 DEF Written, WrittenCellnet
  <2>2. Carries(k, Cellnet(op, serial, body))'
    BY <1>5, <2>1, CellnetOctets
  <2>3. SerialAfter(k - 1)' = SerialAfter(k - 1) /\ SerialAfter(k)' = SerialAfter(k)
    BY <1>1, <1>8, OldSerials
  <2> QED
    BY <1>3, <2>1, <2>2, <2>3 DEF WrittenCellnet
<1>9. ASSUME format = "web" PROVE WrittenWeb(k)'
  <2>1. CASE k = 1
    <3>1. Carries(k, Request) /\ OwesNothing(k) /\ ~ After(k).spoils
      BY <1>6, <1>9, <2>1 DEF Written, WrittenWeb
    <3>2. Request \in Seq(Int)
      BY DEF Request, HeaderLines, Key
    <3>3. Carries(k, Request)'
      BY <1>5, <3>1, <3>2
    <3> QED
      BY <1>3, <2>1, <3>1, <3>3 DEF WrittenWeb, OwesNothing
  <2>2. CASE k # 1 /\ After(k).kind = "whole" /\ WrittenWhole(k)
    <3>1. PICK op \in Int, serial \in Int, body \in Seq(Int), opcode \in {TEXT, BINARY} :
            /\ Carries(k, Frame(TRUE, opcode, WebPacket(op, serial, body)))
            /\ After(k).owed =
                 IF After(k - 1).spoils THEN After(k - 1).owed
                 ELSE Append(After(k - 1).owed, [op |-> op, body |-> body])
            /\ ~ After(k).spoils
      BY <2>2 DEF WrittenWhole
    <3>2. WebPacket(op, serial, body) \in Seq(Int) /\ opcode \in Int
      BY WebPacketOctets DEF TEXT, BINARY
    <3>3. Frame(TRUE, opcode, WebPacket(op, serial, body)) \in Seq(Int)
      BY <3>2, FrameOctets
    <3>4. Carries(k, Frame(TRUE, opcode, WebPacket(op, serial, body)))'
      BY <1>5, <3>1, <3>3
    <3>5. WrittenWhole(k)'
      BY <1>3, <3>1, <3>4 DEF WrittenWhole
    <3> QED
      BY <1>3, <2>2, <3>5 DEF WrittenWeb
  <2>3. CASE k # 1 /\ After(k).kind = "first" /\ WrittenFirst(k)
    <3>1. PICK payload \in Seq(Int) :
            /\ Len(payload) >= 2
            /\ Carries(k, Frame(FALSE, TEXT, payload))
            /\ OwesNothing(k) /\ (After(k).spoils <=> After(k - 1).spoils)
      BY <2>3 DEF WrittenFirst
    <3>2. Frame(FALSE, TEXT, payload) \in Seq(Int)
      <4>1. TEXT \in Int
        BY DEF TEXT
      <4> QED
        BY <4>1, FrameOctets
    <3>3. Carries(k, Frame(FALSE, TEXT, payload))'
      BY <1>5, <3>1, <3>2
    <3>4. WrittenFirst(k)'
      BY <1>3, <3>1, <3>3 DEF WrittenFirst, OwesNothing
    <3> QED
      BY <1>3, <2>3, <3>4 DEF WrittenWeb
  <2>4. CASE k # 1 /\ After(k).kind = "rest" /\ WrittenRest(k)
    <3>1. PICK payload \in Seq(Int) :
            /\ Harmless(payload)
            /\ Carries(k, Frame(TRUE, CONTINUATION, payload))
            /\ OwesNothing(k) /\ After(k).spoils
      BY <2>4 DEF WrittenRest
    <3>2. Frame(TRUE, CONTINUATION, payload) \in Seq(Int)
      <4>1. CONTINUATION \in Int
        BY DEF CONTINUATION
      <4> QED
        BY <4>1, FrameOctets
    <3>3. Carries(k, Frame(TRUE, CONTINUATION, payload))'
      BY <1>5, <3>1, <3>2
    <3>4. WrittenRest(k)'
      BY <1>3, <3>1, <3>3 DEF WrittenRest, OwesNothing
    <3> QED
      BY <1>3, <2>4, <3>4 DEF WrittenWeb
  <2>5. CASE k # 1 /\ After(k).kind = "ping" /\ WrittenPing(k)
    <3>5. PICK opcode \in {PING, PONG} : Carries(k, Frame(TRUE, opcode, <<>>))
      BY <2>5 DEF WrittenPing
    <3>1. <<>> \in Seq(Int) /\ opcode \in Int
      BY DEF PING, PONG
    <3>2. Frame(TRUE, opcode, <<>>) \in Seq(Int)
      BY <3>1, FrameOctets
    <3>3. Carries(k, Frame(TRUE, opcode, <<>>))'
      BY <1>5, <3>2, <3>5
    <3>4. WrittenPing(k)'
      BY <1>3, <2>5, <3>3 DEF WrittenPing, OwesNothing
    <3> QED
      BY <1>3, <2>5, <3>4 DEF WrittenWeb
  <2> QED
    BY <1>6, <1>9, <2>1, <2>2, <2>3, <2>4, <2>5 DEF Written, WrittenWeb
<1> QED
  BY <1>4, <1>7, <1>8, <1>9 DEF Written

\* What a write adds is seen by the receiver only when it has arrived.
LEMMA WriteReceiver ==
  ASSUME StreamType, SenderInv, ReceiverInv,
         NEW kind \in Kinds, NEW octets \in Seq(Int), NEW packets \in Seq(Item),
         Write(kind, octets, packets), Len(octets) >= 2,
         format = "cellnet" => octets[2] = mSendSerialID
  PROVE  ReceiverInv'
<1>1. Len(sent) \in Nat /\ Len(stream) \in Nat /\ arrived <= Len(stream) /\ arrived \in Nat
  BY DEF StreamType
<1>2. PICK n : n = Len(sent) + 1
  OBVIOUS
<1>3. /\ sent' \in Seq(Writes) /\ Len(sent') = Len(sent) + 1
      /\ \A j \in 0 .. Len(sent) : After(j)' = After(j)
      /\ After(n)'.end = Len(stream) + Len(octets)
  BY <1>2, WriteStep DEF SenderInv
<1>4. UNCHANGED <<format, asserts, session, arrived, done, reading>>
  BY DEF Write, receiver
<1>5. CASE session.aborted
  <2>1. PICK j \in DOMAIN sent : sent[j].kind = "first"
    BY <1>5 DEF ReceiverInv, Fragmented
  <2>2. j \in 1 .. Len(sent) /\ j \in DOMAIN sent'
    BY <1>1, <1>3, <2>1 DEF StreamType
  <2>3. sent'[j] = sent[j]
    BY <1>3, <2>2 DEF After
  <2> QED
    BY <1>4, <1>5, <2>1, <2>2, <2>3 DEF ReceiverInv, Fragmented
<1>6. CASE ~ session.aborted
  <2>1. PICK k \in 0 .. Len(sent) : At(k) /\ (reading \/ Settled(k))
    BY <1>6 DEF ReceiverInv, InStep
  <2>2. k \in 0 .. Len(sent') /\ After(k)' = After(k)
    BY <1>1, <1>3
  <2>3. format = "cellnet" => SerialAfter(k)' = SerialAfter(k)
    BY OldSerials
  <2>4. At(k)'
    BY <1>4, <2>1, <2>2, <2>3 DEF At
  <2>5. \A j \in 0 .. Len(sent) : InFull(j) => InFull(j)'
    <3> SUFFICES ASSUME NEW j \in 0 .. Len(sent), InFull(j)
                 PROVE  InFull(j)'
      OBVIOUS
    <3>1. CASE j = Len(sent)
      <4>1. After(j)' = After(j) /\ After(j + 1)'.end > arrived
        <5>1. j + 1 = n /\ Len(octets) \in Nat
          BY <1>2, <3>1
        <5> QED
          BY <1>1, <1>3, <5>1
      <4> QED
        BY <1>4, <4>1 DEF InFull
    <3>2. CASE j # Len(sent)
      <4>1. j < Len(sent) /\ j + 1 \in 0 .. Len(sent)
        BY <1>1, <3>2
      <4>2. After(j)' = After(j) /\ After(j + 1)' = After(j + 1)
        BY <1>3, <4>1
      <4> QED
        BY <1>4, <4>1, <4>2 DEF InFull
    <3> QED
      BY <3>1, <3>2
  <2>6. Settled(k) => Settled(k)'
    <3>1. CASE InFull(k)
      BY <2>5, <3>1 DEF Settled
    <3>3. CASE Overrun
      BY <1>4, <3>3 DEF Settled, Overrun
    <3>2. CASE k < Len(sent) /\ format = "web" /\ k > 0 /\ After(k + 1).kind = "ping" /\ InFull(k + 1)
      <4>1. k + 1 \in 0 .. Len(sent) /\ k < Len(sent')
        BY <1>1, <1>3, <3>2
      <4>2. After(k + 1)' = After(k + 1) /\ InFull(k + 1)'
        BY <1>3, <2>5, <3>2, <4>1
      <4> QED
        BY <1>4, <3>2, <4>1, <4>2 DEF Settled
    <3> QED
      BY <3>1, <3>2, <3>3 DEF Settled
  <2> QED
    BY <1>4, <1>6, <2>1, <2>2, <2>4, <2>6 DEF ReceiverInv, InStep
<1> QED
  BY <1>5, <1>6

\* What a sender has to see to for its invariant.
LEMMA WriteSender ==
  ASSUME StreamType, SenderInv,
         NEW kind \in Kinds, NEW octets \in Seq(Int), NEW packets \in Seq(Item),
         Write(kind, octets, packets), Len(octets) >= 2,
         format = "cellnet" => octets[2] = mSendSerialID,
         NEW n, n = Len(sent) + 1, Written(n)',
         format = "web" /\ ~ session.mShakehanded => sent = <<>>,
         kind = "rest" => format = "web" /\ Fragmented,
         unsent' # <<>> => (kind = "first" \/ unsent # <<>>) /\ Len(unsent') >= 2,
         mSendSerialID' \in Int, unsent' \in Seq(Int)
  PROVE  StreamType' /\ SenderInv'
<1>1. Len(sent) \in Nat /\ Len(stream) \in Nat /\ Len(octets) \in Nat
  BY SMTT(30) DEF StreamType
<1>2. /\ sent' \in Seq(Writes) /\ Len(sent') = n
      /\ stream' \in Seq(Int) /\ Len(stream') = Len(stream) + Len(octets)
      /\ \A k \in 0 .. Len(sent) : After(k)' = After(k)
      /\ After(n)'.kind = kind /\ After(n)'.end = Len(stream) + Len(octets)
      /\ After(n)'.spoils <=> kind = "rest" \/ (Latest.spoils /\ kind # "whole")
  BY WriteStep DEF SenderInv
<1>end. After(Len(sent)).end = Len(stream)
  BY DEF SenderInv
<1>packets. After(n)'.packets = Latest.packets \o packets
  BY <1>end, WriteStep, ZenonT(60)
<1>owed. After(n)'.owed = IF Latest.spoils THEN Latest.owed ELSE Latest.owed \o packets
  BY <1>end, WriteStep
<1>3. UNCHANGED <<format, asserts, session, arrived, done, reading>>
  BY DEF Write, receiver
<1>4. StreamType'
  BY <1>1, <1>2, <1>3 DEF StreamType
<1>5. Fragmented \/ kind = "first" => Fragmented'
  <2>1. ASSUME NEW k \in DOMAIN sent
        PROVE  k \in DOMAIN sent' /\ sent'[k] = sent[k]
    <3>1. k \in 1 .. Len(sent) /\ k \in 0 .. Len(sent) /\ k # 0 /\ k \in DOMAIN sent'
      <4>1. DOMAIN sent = 1 .. Len(sent) /\ DOMAIN sent' = 1 .. Len(sent')
        BY <1>2 DEF StreamType
      <4>2. k \in 1 .. Len(sent) /\ Len(sent') = Len(sent) + 1
        BY <1>2, <4>1
      <4> QED
        BY <1>1, <4>1, <4>2
    <3>2. After(k)' = After(k)
      BY <1>2, <3>1
    <3> QED
      BY <3>1, <3>2 DEF After
  <2>2. n \in DOMAIN sent' /\ sent'[n].kind = kind
    <3>1. n \in 1 .. n /\ n # 0
      BY <1>1
    <3>2. DOMAIN sent' = 1 .. n
      BY <1>2
    <3>3. After(n)' = sent'[n]
      BY <3>1 DEF After
    <3> QED
      BY <1>2, <3>1, <3>2, <3>3
  <2> QED
    BY <2>1, <2>2 DEF Fragmented
<1>6. \A k \in 1 .. Len(sent') : Written(k)'
  <2>1. \A k \in 1 .. Len(sent) : Written(k)'
    BY OldWritten
  <2> QED
    BY <1>1, <1>2, <2>1
<1>7. /\ \A k \in 0 .. Len(sent') : After(k)'.end <= Len(stream')
      /\ After(n)'.end = Len(stream')
  <2>1. \A k \in 0 .. Len(sent) : After(k).end <= Len(stream) /\ After(k).end \in Nat
    BY AfterType DEF SenderInv, Writes
  <2>2. After(n)'.end = Len(stream')
    BY <1>2
  <2>3. ASSUME NEW k \in 0 .. Len(sent)
        PROVE  After(k)'.end <= Len(stream')
    <3>1. After(k)'.end = After(k).end
      BY <1>2, Zenon
    <3>2. Len(stream') = Len(stream) + Len(octets)
      BY <1>2
    <3>3. After(k).end <= Len(stream) /\ After(k).end \in Nat
      BY <2>1
    <3> QED
      BY <1>1, <3>1, <3>2, <3>3
  <2>4. \A k \in 0 .. Len(sent') : k \in 0 .. Len(sent) \/ k = n
    BY <1>1, <1>2
  <2>5. Len(stream') \in Nat
    BY <1>1, <1>2
  <2> QED
    BY <2>2, <2>3, <2>4, <2>5
<1>8. format' = "cellnet" => SerialAfter(0)' = 1
  <2>1. 0 \in 0 .. Len(sent)
    BY <1>1
  <2> QED
    BY <1>3, <2>1, OldSerials DEF SenderInv
<1>9. format' = "web" /\ ~ session'.mShakehanded => Len(sent') <= 1
  BY <1>1, <1>2, <1>3
<1>10. unsent' # <<>> => Fragmented' /\ Len(unsent') >= 2
  BY <1>5 DEF SenderInv
<1>11. \A k \in 0 .. Len(sent') : After(k)'.spoils => format' = "web" /\ Fragmented'
  <2>1. \A k \in 0 .. Len(sent) : After(k).spoils => format = "web" /\ Fragmented
    BY DEF SenderInv
  <2>2. Latest = After(Len(sent)) /\ Len(sent) \in 0 .. Len(sent)
    BY <1>1 DEF Latest
  <2>3. After(n)'.spoils => kind = "rest" \/ Latest.spoils
    BY <1>2
  <2>4. After(n)'.spoils => format = "web" /\ Fragmented
    BY <2>1, <2>2, <2>3
  <2>5. \A k \in 0 .. Len(sent') : k \in 0 .. Len(sent) \/ k = n
    BY <1>1, <1>2
  <2>6. \A k \in 0 .. Len(sent) : After(k)'.spoils => format = "web" /\ Fragmented
    BY <1>2, <2>1, Zenon
  <2> QED
    BY <1>3, <1>5, <2>4, <2>5, <2>6
<1>12. ~ Fragmented' => \A k \in 0 .. Len(sent') : After(k)'.packets = After(k)'.owed
  <2> SUFFICES ASSUME ~ Fragmented'
               PROVE  \A k \in 0 .. Len(sent') : After(k)'.packets = After(k)'.owed
    OBVIOUS
  <2>1. /\ \A k \in 0 .. Len(sent) : After(k).packets = After(k).owed
        /\ \A k \in 0 .. Len(sent) : ~ After(k).spoils
    BY <1>5 DEF SenderInv
  <2>2. Latest.packets = Latest.owed /\ ~ Latest.spoils
    BY <1>1, <2>1 DEF Latest
  <2>4. After(n)'.packets = After(n)'.owed
    BY <1>owed, <1>packets, <2>2, Zenon
  <2>5. \A k \in 0 .. Len(sent') : k \in 0 .. Len(sent) \/ k = n
    BY <1>1, <1>2
  <2>6. \A k \in 0 .. Len(sent) : After(k)'.packets = After(k)'.owed
    BY <1>2, <2>1, Zenon
  <2> QED
    BY <2>4, <2>5, <2>6, Zenon
<1> QED
  BY <1>2, <1>4, <1>6, <1>7, <1>8, <1>9, <1>10, <1>11, <1>12 DEF SenderInv

\* What the new write owes, beside the writes before it.
LEMMA NewWrite ==
  ASSUME StreamType, SenderInv,
         NEW kind \in Kinds, NEW octets \in Seq(Int), NEW packets \in Seq(Item),
         Write(kind, octets, packets), NEW n, n = Len(sent) + 1
  PROVE  /\ format' = format /\ n - 1 = Len(sent) /\ (n = 1 <=> sent = <<>>)
         /\ Carries(n, octets)' /\ After(n)'.kind = kind
         /\ packets = <<>> => After(n)'.owed = After(n - 1)'.owed
         /\ \A p : packets = <<p>> =>
              After(n)'.owed = IF After(n - 1)'.spoils THEN After(n - 1)'.owed
                               ELSE Append(After(n - 1)'.owed, p)
         /\ After(n)'.spoils <=> kind = "rest" \/ (After(n - 1)'.spoils /\ kind # "whole")
         /\ format # "web" => ~ After(n - 1)'.spoils
<1>1. Len(sent) \in Nat /\ n - 1 = Len(sent) /\ Len(sent) \in 0 .. Len(sent)
      /\ (n = 1 <=> sent = <<>>)
  BY DEF StreamType
<1>2. After(n - 1)' = Latest
  <2>1. \A k \in 0 .. Len(sent) : After(k)' = After(k)
    BY WriteStep DEF SenderInv
  <2>2. n - 1 \in 0 .. Len(sent) /\ After(n - 1) = Latest
    BY <1>1 DEF Latest
  <2> QED
    BY <2>1, <2>2
<1>3. /\ Carries(n, octets)' /\ After(n)'.kind = kind
      /\ After(n)'.owed = IF Latest.spoils THEN Latest.owed ELSE Latest.owed \o packets
      /\ After(n)'.spoils <=> kind = "rest" \/ (Latest.spoils /\ kind # "whole")
  BY WriteStep DEF SenderInv
<1>4. Latest.owed \in Seq(Item)
  BY <1>1, AfterType DEF Latest, Writes
<1>5. packets = <<>> => After(n)'.owed = Latest.owed
  BY <1>3, <1>4
<1>6. ASSUME NEW p, packets = <<p>>
      PROVE  Latest.owed \o packets = Append(Latest.owed, p)
  <2>1. p \in Item
    <3>1. packets[1] \in Item /\ packets[1] = p
      BY <1>6
    <3> QED
      BY <3>1
  <2> QED
    BY <1>4, <1>6, <2>1
<1>7. format # "web" => ~ Latest.spoils
  BY <1>1 DEF SenderInv, Latest
<1>8. format' = format
  BY DEF Write
<1> QED
  BY <1>1, <1>2, <1>3, <1>5, <1>6, <1>7, <1>8

(***************************************************************************)
(* The senders                                                             *)
(***************************************************************************)

InvParts == StreamType /\ SenderInv /\ ReceiverInv

\* A packet goes out.
LEMMA SendPacketInv == InvParts /\ SendPacket => InvParts'
<1> SUFFICES ASSUME InvParts, SendPacket
             PROVE  InvParts'
  OBVIOUS
<1>1. PICK p \in Packets : Write("whole", Packet(p.op, p.body), <<p>>)
  BY DEF SendPacket
<1>2. p \in Item /\ p.op \in Int /\ p.body \in Seq(Int) /\ p = [op |-> p.op, body |-> p.body]
  BY ContentsAssumption DEF Item
<1>3. PICK o : o = Packet(p.op, p.body)
  OBVIOUS
<1>4. o \in Seq(Int) /\ Len(o) >= 2
  BY <1>2, <1>3, PacketOctets
<1>5. PICK n : n = Len(sent) + 1
  OBVIOUS
<1>6. /\ "whole" \in Kinds /\ <<p>> \in Seq(Item) /\ Write("whole", o, <<p>>)
      /\ format = "packet" /\ UNCHANGED <<mSendSerialID, unsent>>
  BY <1>1, <1>2, <1>3 DEF SendPacket, Kinds
<1>7. /\ format' = format /\ Carries(n, o)' /\ ~ After(n - 1)'.spoils
      /\ After(n)'.owed = Append(After(n - 1)'.owed, p)
  <2>1. StreamType /\ SenderInv
    BY DEF InvParts
  <2>2. PICK packets : packets = <<p>>
    OBVIOUS
  <2>3. packets \in Seq(Item) /\ Write("whole", o, packets)
    BY <1>6, <2>2
  <2>4. /\ format' = format /\ Carries(n, o)'
        /\ \A q : packets = <<q>> =>
             After(n)'.owed = IF After(n - 1)'.spoils THEN After(n - 1)'.owed
                              ELSE Append(After(n - 1)'.owed, q)
        /\ format # "web" => ~ After(n - 1)'.spoils
    BY <1>4, <1>5, <1>6, <2>1, <2>3, NewWrite
  <2> QED
    BY <1>6, <2>2, <2>4
<1>8. Written(n)'
  <2>1. WrittenPacket(n)'
    BY <1>2, <1>3, <1>7 DEF WrittenPacket
  <2> QED
    BY <1>6, <1>7, <2>1 DEF Written
<1>9. mSendSerialID' \in Int /\ unsent' \in Seq(Int)
  BY <1>6 DEF InvParts, StreamType
<1>10. StreamType' /\ SenderInv'
  BY <1>4, <1>5, <1>6, <1>8, <1>9, WriteSender DEF InvParts, SenderInv
<1>11. ReceiverInv'
  BY <1>4, <1>6, WriteReceiver DEF InvParts
<1> QED
  BY <1>10, <1>11 DEF InvParts

\* A cellnet packet whose length fits goes out, with the sender's number.
LEMMA SendCellnetInv ==
  ASSUME InvParts, format = "cellnet", ~ broken', NEW l \in Letters,
         NEW data, data = Octets(l), SendCellnet(l, data)
  PROVE  InvParts'
<1>1. data \in Seq(Int) /\ l.op \in Int
  BY LetterOctets
<1>2. Len(data) + CellnetHead < LenMod /\ Len(data) \in Nat
  <2>1. ~ (Len(data) + CellnetHead >= LenMod)
    BY DEF SendCellnet
  <2> QED
    BY <1>1, <2>1, FramingAssumption DEF CellnetHead
<1>3. PICK serial \in Int : serial = mSendSerialID
  BY DEF InvParts, StreamType
<1>4. PICK o : o = Cellnet(l.op, serial, data)
  OBVIOUS
<1>5. o \in Seq(Int) /\ Len(o) >= 2 /\ o[2] = serial
  BY <1>1, <1>2, <1>4, CellnetOctets
<1>6. PICK item : item = [op |-> l.op, body |-> data]
  OBVIOUS
<1>7. PICK packets : packets = <<item>>
  OBVIOUS
<1>8. item \in Item /\ packets \in Seq(Item) /\ "whole" \in Kinds
  BY <1>1, <1>6, <1>7 DEF Item, Kinds
<1>9. /\ Write("whole", o, packets)
      /\ mSendSerialID' = (serial + 1) % SerialMod /\ unsent' = unsent
  BY <1>3, <1>4, <1>6, <1>7 DEF SendCellnet
<1>10. PICK n : n = Len(sent) + 1
  OBVIOUS
<1>11. StreamType /\ SenderInv
  BY DEF InvParts
<1>12. /\ format' = format /\ n - 1 = Len(sent) /\ Carries(n, o)'
       /\ \A q : packets = <<q>> =>
            After(n)'.owed = IF After(n - 1)'.spoils THEN After(n - 1)'.owed
                             ELSE Append(After(n - 1)'.owed, q)
       /\ format # "web" => ~ After(n - 1)'.spoils
  BY <1>5, <1>8, <1>9, <1>10, <1>11, NewWrite
<1>13. Len(sent') = n
  BY <1>5, <1>8, <1>9, <1>10, <1>11, WriteStep DEF SenderInv
<1>14. SerialAfter(n - 1)' = serial /\ SerialAfter(n)' = (serial + 1) % SerialMod
  <2>1. n \in Nat /\ 2 \in 1 .. Len(o)
    BY <1>5, <1>10, <1>11 DEF StreamType
  <2>2. stream'[After(n - 1)'.end + 2] = serial
    BY <1>5, <1>12, <2>1 DEF Carries
  <2>3. n - 1 < Len(sent') /\ ~ (n < Len(sent'))
    BY <1>13, <2>1
  <2> QED
    BY <1>9, <2>2, <2>3 DEF SerialAfter
<1>15. Written(n)'
  <2>1. WrittenCellnet(n)'
    BY <1>1, <1>2, <1>3, <1>4, <1>6, <1>7, <1>12, <1>14 DEF WrittenCellnet
  <2> QED
    BY <1>12, <2>1 DEF Written
<1>16. mSendSerialID' \in Int /\ unsent' \in Seq(Int)
  <2>1. (serial + 1) % SerialMod \in Int
    BY FramingAssumption
  <2> QED
    BY <1>9, <1>11, <2>1 DEF StreamType
<1>17. StreamType' /\ SenderInv'
  <2>1. unsent' # <<>> => unsent # <<>> /\ Len(unsent') >= 2
    BY <1>9, <1>11 DEF SenderInv
  <2> QED
    BY <1>3, <1>5, <1>8, <1>9, <1>10, <1>11, <1>15, <1>16, <2>1, WriteSender
<1>18. ReceiverInv'
  BY <1>3, <1>5, <1>8, <1>9, <1>11, WriteReceiver DEF InvParts
<1> QED
  BY <1>17, <1>18 DEF InvParts

\* What is not written on keeps its packets.
LEMMA SenderSame ==
  ASSUME SenderInv, UNCHANGED <<format, stream, mSendSerialID, unsent, sent>>,
         session.mShakehanded => session'.mShakehanded
  PROVE  /\ SenderInv' /\ Fragmented' = Fragmented
         /\ \A k : After(k)' = After(k) /\ SerialAfter(k)' = SerialAfter(k)
<1>1. /\ \A k : After(k)' = After(k) /\ SerialAfter(k)' = SerialAfter(k)
      /\ Fragmented' = Fragmented
  BY DEF After, SerialAfter, Fragmented
<1>2. \A k, o : Carries(k, o)' = Carries(k, o)
  BY <1>1 DEF Carries
<1>3. \A k : Written(k) => Written(k)'
  <2> SUFFICES ASSUME NEW k
               PROVE  Written(k) => Written(k)'
    OBVIOUS
  <2>1. WrittenPacket(k)' = WrittenPacket(k) /\ WrittenCellnet(k)' = WrittenCellnet(k)
    BY <1>1, <1>2 DEF WrittenPacket, WrittenCellnet
  <2>2. /\ WrittenWhole(k)' = WrittenWhole(k) /\ WrittenFirst(k)' = WrittenFirst(k)
        /\ WrittenRest(k)' = WrittenRest(k) /\ WrittenPing(k)' = WrittenPing(k)
    BY <1>1, <1>2 DEF WrittenWhole, WrittenFirst, WrittenRest, WrittenPing, OwesNothing
  <2>3. WrittenWeb(k)' = WrittenWeb(k)
    BY <1>1, <1>2, <2>2 DEF WrittenWeb, OwesNothing
  <2> QED
    BY <2>1, <2>3 DEF Written
<1> QED
  BY <1>1, <1>3 DEF SenderInv

\* Nothing changes, and nothing is lost.
LEMMA Stutter == InvParts /\ UNCHANGED streamVars => InvParts'
<1> SUFFICES ASSUME InvParts, UNCHANGED streamVars
             PROVE  InvParts'
  OBVIOUS
<1>1. StreamType'
  BY DEF InvParts, StreamType, streamVars
<1>2. SenderInv'
  BY SenderSame DEF InvParts, streamVars
<1>3. ReceiverInv'
  BY DEF InvParts, ReceiverInv, InStep, At, Settled, InFull, Overrun, SerialAfter, After, Fragmented,
         streamVars
<1> QED
  BY <1>1, <1>2, <1>3 DEF InvParts

\* sendPB, on either thread: it sends a letter whole or not at all.
LEMMA SendPBInv == InvParts /\ ~ broken' /\ SendPB => InvParts'
<1> SUFFICES ASSUME InvParts, ~ broken', SendPB
             PROVE  InvParts'
  OBVIOUS
<1>1. PICK l \in Letters :
        \/ SendPBInLoop(l)
        \/ SendPBFromOther(l)
        \/ SendCellnet(l, Octets(l))
  BY DEF SendPB
<1>2. PICK data : data = Octets(l)
  OBVIOUS
<1>3. SendCellnet(l, data) => InvParts'
  BY <1>2, SendCellnetInv DEF SendPB
<1>4. NotSent => InvParts'
  BY Stutter DEF NotSent
<1>5. ASSUME SendPBInLoop(l)
      PROVE  SendCellnet(l, data) \/ NotSent
  <2>1. data \in Seq(Int) /\ ByteSize(Table[l.class], l.msg) = Len(data)
    BY <1>2, LetterOctets
  <2>2. SubSeq(data, 1, Len(data)) = data
    BY <2>1
  <2> QED
    BY <1>2, <1>5, <2>1, <2>2 DEF SendPBInLoop
<1> QED
  BY <1>1, <1>2, <1>3, <1>4, <1>5 DEF SendPBFromOther

\* A browser that was answered has sent its request.
LEMMA UpgradedSent == InvParts /\ Upgraded => Len(sent) >= 1
<1> SUFFICES ASSUME InvParts, Upgraded
             PROVE  Len(sent) >= 1
  OBVIOUS
<1>1. Len(sent) \in Nat /\ DOMAIN sent = 1 .. Len(sent)
  BY DEF InvParts, StreamType
<1>2. CASE session.aborted
  <2>1. PICK k \in DOMAIN sent : sent[k].kind = "first"
    BY <1>2 DEF InvParts, ReceiverInv, Fragmented
  <2> QED
    BY <1>1
<1>3. CASE ~ session.aborted
  <2>1. PICK k \in 0 .. Len(sent) : At(k)
    BY <1>3 DEF InvParts, ReceiverInv, InStep
  <2>2. k > 0
    BY <2>1 DEF At, Upgraded
  <2> QED
    BY <1>1, <2>2
<1> QED
  BY <1>2, <1>3

\* What the browser's sends have to see to.
LEMMA WebWriteInv ==
  ASSUME InvParts, format = "web",
         NEW kind \in Kinds, NEW o \in Seq(Int), NEW packets \in Seq(Item),
         Write(kind, o, packets), Len(o) >= 2,
         NEW n, n = Len(sent) + 1, WrittenWeb(n)',
         session.mShakehanded \/ sent = <<>>,
         kind = "rest" => Fragmented,
         unsent' # <<>> => (kind = "first" \/ unsent # <<>>) /\ Len(unsent') >= 2,
         mSendSerialID' \in Int, unsent' \in Seq(Int)
  PROVE  InvParts'
<1>1. StreamType /\ SenderInv /\ ReceiverInv /\ format' = "web"
  BY DEF InvParts, Write
<1>2. Written(n)'
  BY <1>1 DEF Written
<1>3. StreamType' /\ SenderInv'
  BY <1>1, <1>2, WriteSender
<1>4. ReceiverInv'
  BY <1>1, WriteReceiver
<1> QED
  BY <1>3, <1>4 DEF InvParts

\* The request, the first write of a browser.
LEMMA RequestInv == InvParts /\ RequestUpgrade => InvParts'
<1> SUFFICES ASSUME InvParts, RequestUpgrade
             PROVE  InvParts'
  OBVIOUS
<1>1. PICK o : o = Request
  OBVIOUS
<1>2. PICK packets : packets = <<>>
  OBVIOUS
<1>3. PICK n : n = Len(sent) + 1
  OBVIOUS
<1>4. /\ Write("request", o, packets) /\ format = "web" /\ sent = <<>>
      /\ UNCHANGED <<mSendSerialID, unsent>>
  BY <1>1, <1>2 DEF RequestUpgrade
<1>5. /\ o \in Seq(Int) /\ Len(o) >= 2 /\ packets \in Seq(Item) /\ "request" \in Kinds
  BY <1>1, <1>2 DEF Request, HeaderLines, Key, Kinds
<1>6. StreamType /\ SenderInv
  BY DEF InvParts
<1>7. /\ n = 1 /\ Carries(n, o)' /\ After(n)'.owed = After(n - 1)'.owed
      /\ ~ After(n)'.spoils
  <2>1. n - 1 = 0 /\ n = 1
    BY <1>3, <1>4
  <2>2. After(n - 1)'.spoils = FALSE
    BY <2>1 DEF After
  <2>3. /\ Carries(n, o)' /\ (packets = <<>> => After(n)'.owed = After(n - 1)'.owed)
        /\ After(n)'.spoils <=>
             "request" = "rest" \/ (After(n - 1)'.spoils /\ "request" # "whole")
    BY <1>3, <1>4, <1>5, <1>6, NewWrite
  <2> QED
    BY <1>2, <2>1, <2>2, <2>3
<1>8. WrittenWeb(n)'
  BY <1>1, <1>7 DEF WrittenWeb, OwesNothing
<1>9. /\ mSendSerialID' \in Int /\ unsent' \in Seq(Int)
      /\ unsent' # <<>> => unsent # <<>> /\ Len(unsent') >= 2
  BY <1>4, <1>6 DEF StreamType, SenderInv
<1> QED
  BY <1>3, <1>4, <1>5, <1>8, <1>9, WebWriteInv

\* A packet in one frame ends what a message in parts spoiled.
LEMMA SendWholeInv == InvParts /\ SendWhole => InvParts'
<1> SUFFICES ASSUME InvParts, SendWhole
             PROVE  InvParts'
  OBVIOUS
<1>1. PICK serial \in Int : serial = mSendSerialID
  BY DEF InvParts, StreamType
<1>2. PICK p \in Packets, opcode \in {TEXT, BINARY} :
        Write("whole", Frame(TRUE, opcode, WebPacket(p.op, serial, p.body)), <<p>>)
  BY <1>1 DEF SendWhole, Serialized
<1>3. p \in Item /\ p.op \in Int /\ p.body \in Seq(Int) /\ p = [op |-> p.op, body |-> p.body]
  BY ContentsAssumption DEF Item
<1>4. PICK o : o = Frame(TRUE, opcode, WebPacket(p.op, serial, p.body))
  OBVIOUS
<1>5. PICK packets : packets = <<p>>
  OBVIOUS
<1>6. PICK n : n = Len(sent) + 1
  OBVIOUS
<1>7. /\ Write("whole", o, packets) /\ format = "web" /\ session.mShakehanded
      /\ mSendSerialID' = (serial + 1) % SerialMod /\ unsent' = unsent
  BY <1>1, <1>2, <1>4, <1>5 DEF SendWhole, Upgraded
<1>8. o \in Seq(Int) /\ Len(o) >= 2 /\ packets \in Seq(Item) /\ "whole" \in Kinds
  <2>1. WebPacket(p.op, serial, p.body) \in Seq(Int) /\ opcode \in Int
    BY <1>3, WebPacketOctets DEF TEXT, BINARY
  <2>2. o \in Seq(Int) /\ Len(o) = Len(WebPacket(p.op, serial, p.body)) + 3
    BY <1>4, <2>1, FrameOctets
  <2> QED
    BY <1>3, <1>5, <2>1, <2>2 DEF Kinds
<1>9. StreamType /\ SenderInv
  BY DEF InvParts
<1>10. /\ Carries(n, o)' /\ After(n)'.kind = "whole"
       /\ \A q : packets = <<q>> =>
            After(n)'.owed = IF After(n - 1)'.spoils THEN After(n - 1)'.owed
                             ELSE Append(After(n - 1)'.owed, q)
       /\ After(n)'.spoils <=>
            "whole" = "rest" \/ (After(n - 1)'.spoils /\ "whole" # "whole")
  BY <1>6, <1>7, <1>8, <1>9, NewWrite
<1>11. n # 1
  <2>1. Len(sent) >= 1 /\ Len(sent) \in Nat
    BY <1>7, <1>9, UpgradedSent DEF Upgraded, StreamType
  <2> QED
    BY <1>6, <2>1
<1>12. WrittenWhole(n)'
  <2>1. ~ After(n)'.spoils
    BY <1>10
  <2>2. After(n)'.owed = IF After(n - 1)'.spoils THEN After(n - 1)'.owed
                         ELSE Append(After(n - 1)'.owed, [op |-> p.op, body |-> p.body])
    BY <1>3, <1>5, <1>10
  <2> QED
    BY <1>3, <1>4, <1>10, <2>1, <2>2 DEF WrittenWhole
<1>13. WrittenWeb(n)'
  BY <1>10, <1>11, <1>12 DEF WrittenWeb
<1>14. /\ mSendSerialID' \in Int /\ unsent' \in Seq(Int)
       /\ unsent' # <<>> => unsent # <<>> /\ Len(unsent') >= 2
  <2>1. (serial + 1) % SerialMod \in Int
    BY FramingAssumption
  <2> QED
    BY <1>7, <1>9, <2>1 DEF StreamType, SenderInv
<1> QED
  BY <1>6, <1>7, <1>8, <1>13, <1>14, WebWriteInv

\* A ping leaves everything as it was.
LEMMA SendPingInv == InvParts /\ SendPing => InvParts'
<1> SUFFICES ASSUME InvParts, SendPing
             PROVE  InvParts'
  OBVIOUS
<1>12. PICK opcode \in {PING, PONG} : Write("ping", Frame(TRUE, opcode, <<>>), <<>>)
  BY DEF SendPing
<1>1. PICK o : o = Frame(TRUE, opcode, <<>>)
  OBVIOUS
<1>2. PICK packets : packets = <<>>
  OBVIOUS
<1>3. PICK n : n = Len(sent) + 1
  OBVIOUS
<1>4. /\ Write("ping", o, packets) /\ format = "web" /\ session.mShakehanded
      /\ UNCHANGED <<mSendSerialID, unsent>>
  BY <1>1, <1>2, <1>12 DEF SendPing, Upgraded
<1>5. /\ o \in Seq(Int) /\ Len(o) >= 2 /\ packets \in Seq(Item) /\ "ping" \in Kinds
  <2>1. <<>> \in Seq(Int) /\ Len(<<>>) = 0
    OBVIOUS
  <2>2. opcode \in Int
    BY DEF PING, PONG
  <2>3. o \in Seq(Int) /\ Len(o) = Len(<<>>) + 3
    BY <1>1, <2>1, <2>2, FrameOctets
  <2> QED
    BY <1>2, <2>1, <2>3 DEF Kinds
<1>6. StreamType /\ SenderInv
  BY DEF InvParts
<1>7. /\ Carries(n, o)' /\ After(n)'.kind = "ping"
      /\ packets = <<>> => After(n)'.owed = After(n - 1)'.owed
      /\ After(n)'.spoils <=>
           "ping" = "rest" \/ (After(n - 1)'.spoils /\ "ping" # "whole")
  BY <1>3, <1>4, <1>5, <1>6, NewWrite
<1>8. n # 1
  <2>1. Len(sent) >= 1 /\ Len(sent) \in Nat
    BY <1>4, <1>6, UpgradedSent DEF Upgraded, StreamType
  <2> QED
    BY <1>3, <2>1
<1>9. WrittenPing(n)'
  <2>1. After(n)'.spoils <=> After(n - 1)'.spoils
    BY <1>7
  <2> QED
    BY <1>1, <1>2, <1>7, <2>1 DEF WrittenPing, OwesNothing
<1>10. WrittenWeb(n)'
  BY <1>7, <1>8, <1>9 DEF WrittenWeb
<1>11. /\ mSendSerialID' \in Int /\ unsent' \in Seq(Int)
       /\ unsent' # <<>> => unsent # <<>> /\ Len(unsent') >= 2
  BY <1>4, <1>6 DEF StreamType, SenderInv
<1> QED
  BY <1>3, <1>4, <1>5, <1>10, <1>11, WebWriteInv
\* The first frame of a message owes nothing by itself, ...
LEMMA SendFirstInv == InvParts /\ SendFirst => InvParts'
<1> SUFFICES ASSUME InvParts, SendFirst
             PROVE  InvParts'
  OBVIOUS
<1>1. PICK serial \in Int : serial = mSendSerialID
  BY DEF InvParts, StreamType
<1>2. PICK p \in LongPackets : \E whole :
        /\ whole = WebPacket(p.op, serial, p.body)
        /\ Write("first", Frame(FALSE, TEXT, SubSeq(whole, 1, Len(whole) \div 2)), <<>>)
        /\ unsent' = SubSeq(whole, Len(whole) \div 2 + 1, Len(whole))
  BY <1>1 DEF SendFirst, Serialized
<1>3. PICK whole :
        /\ whole = WebPacket(p.op, serial, p.body)
        /\ Write("first", Frame(FALSE, TEXT, SubSeq(whole, 1, Len(whole) \div 2)), <<>>)
        /\ unsent' = SubSeq(whole, Len(whole) \div 2 + 1, Len(whole))
  BY <1>2
<1>4. whole \in Seq(Int) /\ Len(whole) >= 5
  <2>1. p.op \in Int /\ p.body \in Seq(Int)
    BY StreamsAssumption, ContentsAssumption
  <2>2. PICK op \in Int, body \in Seq(Int) : op = p.op /\ body = p.body
    BY <2>1
  <2>3. whole = WebPacket(op, serial, body)
    BY <1>3, <2>2
  <2>4. whole \in Seq(Int) /\ Len(whole) = Len(body) + 5
    BY <2>3, WebPacketOctets
  <2> QED
    BY <2>4
<1>5. PICK half : half = Len(whole) \div 2
  OBVIOUS
<1>6. half \in Nat /\ half >= 2 /\ half + 2 <= Len(whole)
  BY <1>4, <1>5
<1>7. PICK payload : payload = SubSeq(whole, 1, half)
  OBVIOUS
<1>8. payload \in Seq(Int) /\ Len(payload) >= 2
  BY <1>4, <1>6, <1>7
<1>9. unsent' \in Seq(Int) /\ Len(unsent') >= 2
  <2>1. unsent' = SubSeq(whole, half + 1, Len(whole))
    BY <1>5, <1>3
  <2> QED
    BY <1>4, <1>6, <2>1
<1>10. PICK o : o = Frame(FALSE, TEXT, payload)
  OBVIOUS
<1>11. PICK packets : packets = <<>>
  OBVIOUS
<1>12. PICK n : n = Len(sent) + 1
  OBVIOUS
<1>13. /\ Write("first", o, packets) /\ format = "web" /\ session.mShakehanded
       /\ mSendSerialID' = (serial + 1) % SerialMod
  BY <1>1, <1>5, <1>7, <1>10, <1>11, <1>3 DEF SendFirst, Upgraded
<1>14. o \in Seq(Int) /\ Len(o) >= 2 /\ packets \in Seq(Item) /\ "first" \in Kinds
  <2>1. TEXT \in Int
    BY DEF TEXT
  <2>2. o \in Seq(Int) /\ Len(o) = Len(payload) + 3
    BY <1>8, <1>10, <2>1, FrameOctets
  <2> QED
    BY <1>8, <1>11, <2>2 DEF Kinds
<1>15. StreamType /\ SenderInv
  BY DEF InvParts
<1>16. /\ Carries(n, o)' /\ After(n)'.kind = "first"
       /\ packets = <<>> => After(n)'.owed = After(n - 1)'.owed
       /\ After(n)'.spoils <=>
            "first" = "rest" \/ (After(n - 1)'.spoils /\ "first" # "whole")
  BY <1>12, <1>13, <1>14, <1>15, NewWrite
<1>17. n # 1
  <2>1. Len(sent) >= 1 /\ Len(sent) \in Nat
    BY <1>13, <1>15, UpgradedSent DEF Upgraded, StreamType
  <2> QED
    BY <1>12, <2>1
<1>18. WrittenFirst(n)'
  <2>1. After(n)'.spoils <=> After(n - 1)'.spoils
    BY <1>16
  <2> QED
    BY <1>8, <1>10, <1>11, <1>16, <2>1 DEF WrittenFirst, OwesNothing
<1>19. WrittenWeb(n)'
  BY <1>16, <1>17, <1>18 DEF WrittenWeb
<1>20. mSendSerialID' \in Int
  <2>1. (serial + 1) % SerialMod \in Int
    BY FramingAssumption
  <2> QED
    BY <1>13, <2>1
<1> QED
  BY <1>9, <1>12, <1>13, <1>14, <1>19, <1>20, WebWriteInv

\* ... and the rest spoils what comes next.
LEMMA SendRestInv == InvParts /\ ~ broken' /\ SendRest => InvParts'
<1> SUFFICES ASSUME InvParts, ~ broken', SendRest
             PROVE  InvParts'
  OBVIOUS
<1>1. PICK payload : payload = unsent
  OBVIOUS
<1>2. StreamType /\ SenderInv
  BY DEF InvParts
<1>3. payload \in Seq(Int) /\ Len(payload) >= 2 /\ Fragmented
  BY <1>1, <1>2 DEF StreamType, SenderInv, SendRest
<1>4. Harmless(payload)
  <2>1. ~ (payload[2] >= Len(payload) + PacketOverhead)
    BY <1>1 DEF SendRest
  <2>2. payload[2] \in Int /\ Len(payload) \in Nat
    BY <1>3
  <2> QED
    BY <1>3, <2>1, <2>2 DEF Harmless, PacketOverhead
<1>5. PICK o : o = Frame(TRUE, CONTINUATION, payload)
  OBVIOUS
<1>6. PICK packets : packets = <<>>
  OBVIOUS
<1>7. PICK n : n = Len(sent) + 1
  OBVIOUS
<1>8. /\ Write("rest", o, packets) /\ format = "web" /\ session.mShakehanded
      /\ mSendSerialID' = mSendSerialID /\ unsent' = <<>>
  BY <1>1, <1>5, <1>6 DEF SendRest, Upgraded
<1>9. o \in Seq(Int) /\ Len(o) >= 2 /\ packets \in Seq(Item) /\ "rest" \in Kinds
  <2>1. CONTINUATION \in Int
    BY DEF CONTINUATION
  <2>2. o \in Seq(Int) /\ Len(o) = Len(payload) + 3
    BY <1>3, <1>5, <2>1, FrameOctets
  <2> QED
    BY <1>3, <1>6, <2>2 DEF Kinds
<1>10. /\ Carries(n, o)' /\ After(n)'.kind = "rest"
       /\ packets = <<>> => After(n)'.owed = After(n - 1)'.owed
       /\ After(n)'.spoils <=>
            "rest" = "rest" \/ (After(n - 1)'.spoils /\ "rest" # "whole")
  BY <1>2, <1>7, <1>8, <1>9, NewWrite
<1>11. n # 1
  <2>1. Len(sent) >= 1 /\ Len(sent) \in Nat
    BY <1>2, <1>8, UpgradedSent DEF Upgraded, StreamType
  <2> QED
    BY <1>7, <2>1
<1>12. WrittenRest(n)'
  <2>1. After(n)'.spoils
    BY <1>10
  <2> QED
    BY <1>3, <1>4, <1>5, <1>6, <1>10, <2>1 DEF WrittenRest, OwesNothing
<1>13. WrittenWeb(n)'
  BY <1>10, <1>11, <1>12 DEF WrittenWeb
<1>14. mSendSerialID' \in Int /\ unsent' \in Seq(Int)
  BY <1>2, <1>8 DEF StreamType
<1>15. unsent' # <<>> => ("rest" = "first" \/ unsent # <<>>) /\ Len(unsent') >= 2
  BY <1>8
<1> QED
  BY <1>3, <1>7, <1>8, <1>9, <1>13, <1>14, <1>15, WebWriteInv

\* The receiver does not move while octets arrive.
LEMMA ReceiveInv == InvParts /\ Receive => InvParts'
<1> SUFFICES ASSUME InvParts, Receive
             PROVE  InvParts'
  OBVIOUS
<1>1. StreamType /\ SenderInv /\ ReceiverInv
  BY DEF InvParts
<1>2. PICK n \in arrived + 1 .. Len(stream) : arrived' = n
  BY DEF Receive
<1>3. /\ reading' = TRUE /\ ~ session.aborted
      /\ UNCHANGED <<format, asserts, session, stream, mSendSerialID, unsent, sent, done>>
  BY DEF Receive, sender
<1>4. StreamType'
  <2>1. arrived' \in Nat /\ done <= arrived' /\ arrived' <= Len(stream)
    BY <1>1, <1>2 DEF StreamType
  <2> QED
    BY <1>1, <1>3, <2>1 DEF StreamType
<1>5. \A k : After(k)' = After(k) /\ SerialAfter(k)' = SerialAfter(k)
  BY <1>1, <1>3, SenderSame
<1>6. SenderInv'
  BY <1>1, <1>3, SenderSame
<1>7. ReceiverInv'
  <2>1. PICK k \in 0 .. Len(sent) : At(k)
    BY <1>1, <1>3 DEF ReceiverInv, InStep
  <2>2. At(k)' /\ k \in 0 .. Len(sent')
    BY <1>3, <1>5, <2>1 DEF At
  <2> QED
    BY <1>3, <2>2 DEF ReceiverInv, InStep
<1> QED
  BY <1>4, <1>6, <1>7 DEF InvParts
(***************************************************************************)
(* The receiver                                                            *)
(***************************************************************************)

\* What onMsg is given begins with the next write, or is a part of it.
LEMMA RestOctets ==
  ASSUME StreamType
  PROVE  /\ Rest \in Seq(Int) /\ Len(Rest) = arrived - done
         /\ \A i \in 1 .. Len(Rest) : Rest[i] = stream[done + i]
<1>1. /\ stream \in Seq(Int) /\ done \in Nat /\ arrived \in Nat
      /\ done <= arrived /\ arrived <= Len(stream) /\ Len(stream) \in Nat
  BY DEF StreamType
<1> QED
  BY <1>1 DEF Rest

\* ... so that the next write is there as a whole, or cut.
LEMMA NextOctets ==
  ASSUME StreamType, NEW k \in 0 .. Len(sent), k < Len(sent), done = After(k).end,
         NEW o \in Seq(Int), Carries(k + 1, o), NEW rest, rest = Rest
  PROVE  /\ rest \in Seq(Int) /\ Len(rest) = arrived - done
         /\ After(k + 1).end = done + Len(o)
         /\ After(k + 1).end <= arrived => Begins(rest, o)
         /\ ~ (After(k + 1).end <= arrived) => Cut(rest, o) /\ InFull(k)
<1>1. /\ rest \in Seq(Int) /\ Len(rest) = arrived - done
      /\ \A i \in 1 .. Len(rest) : rest[i] = stream[done + i]
  BY RestOctets
<1>2. /\ Len(rest) \in Nat /\ Len(o) \in Nat /\ done \in Nat /\ arrived \in Nat
      /\ done <= arrived
  BY <1>1 DEF StreamType
<1>3. /\ After(k + 1).end = done + Len(o)
      /\ \A i \in 1 .. Len(o) : stream[done + i] = o[i]
  <2>1. (k + 1) - 1 = k
    BY DEF StreamType
  <2> QED
    BY <2>1 DEF Carries
<1>4. ASSUME After(k + 1).end <= arrived
      PROVE  Begins(rest, o)
  <2>1. Len(o) <= Len(rest)
    BY <1>1, <1>2, <1>3, <1>4
  <2>2. \A i \in 1 .. Len(o) : i \in 1 .. Len(rest)
    BY <1>2, <2>1
  <2> QED
    BY <1>1, <1>3, <2>1, <2>2 DEF Begins
<1>5. ASSUME ~ (After(k + 1).end <= arrived)
      PROVE  Cut(rest, o) /\ InFull(k)
  <2>1. arrived < After(k + 1).end
    BY <1>2, <1>3, <1>5
  <2>2. Len(rest) < Len(o)
    BY <1>1, <1>2, <1>3, <2>1
  <2>3. \A i \in 1 .. Len(rest) : i \in 1 .. Len(o)
    BY <1>2, <2>2
  <2>4. \A i \in 1 .. Len(rest) : rest[i] = o[i]
    BY <1>1, <1>3, <2>3
  <2>5. Cut(rest, o)
    BY <2>2, <2>4 DEF Cut
  <2>6. After(k).end <= arrived
    BY <1>2
  <2> QED
    BY <2>1, <2>5, <2>6 DEF InFull
<1> QED
  BY <1>1, <1>3, <1>4, <1>5

\* A turn, told what it makes of the session and consumes.
LEMMA TurnStep ==
  ASSUME onMsg, NEW r, NEW size \in Nat,
         Turn(format, session, Rest, asserts) = Consumed(r, size)
  PROVE  /\ session' = r /\ done' = done + size
         /\ reading' \in BOOLEAN /\ (reading' <=> size > 0 /\ ~ r.aborted)
         /\ UNCHANGED <<format, asserts, arrived, stream, mSendSerialID, unsent, sent>>
<1> DEFINE turn == Turn(format, session, Rest, asserts)
<1>1. turn = Consumed(r, size)
  OBVIOUS
<1>2. /\ session' = turn.s /\ done' = done + turn.size
      /\ reading' = (turn.size > 0 /\ ~ turn.s.aborted)
      /\ UNCHANGED <<format, asserts, arrived, sender>>
  BY DEF onMsg
<1> HIDE DEF turn
<1>3. turn.s = r /\ turn.size = size
  BY <1>1 DEF Consumed
<1>4. reading' = (size > 0 /\ ~ r.aborted)
  BY <1>2, <1>3
<1> QED
  BY <1>2, <1>3, <1>4 DEF sender

\* A turn that consumes nothing ends onMsg where nothing more can be consumed.
LEMMA TurnWaits ==
  ASSUME InvParts, onMsg, ~ session.aborted, NEW k \in 0 .. Len(sent), At(k),
         Turn(format, session, Rest, asserts) = Consumed(session, 0), Settled(k)
  PROVE  InvParts'
<1>1. StreamType /\ SenderInv
  BY DEF InvParts
<1>2. /\ session' = session /\ done' = done + 0 /\ reading' \in BOOLEAN
      /\ UNCHANGED <<format, asserts, arrived, stream, mSendSerialID, unsent, sent>>
  BY TurnStep
<1>3. done' = done
  BY <1>1, <1>2 DEF StreamType
<1>4. StreamType'
  BY <1>1, <1>2, <1>3 DEF StreamType
<1>5. SenderInv' /\ \A j : After(j)' = After(j) /\ SerialAfter(j)' = SerialAfter(j)
  BY <1>1, <1>2, SenderSame
<1>6. At(k)' /\ Settled(k)'
  BY <1>2, <1>3, <1>5 DEF At, Settled, InFull, Overrun
<1>7. ReceiverInv'
  BY <1>2, <1>6 DEF ReceiverInv, InStep
<1> QED
  BY <1>4, <1>5, <1>7 DEF InvParts

\* A turn that takes a write off the stream makes of the session what the write
\* stands for, ...
LEMMA TurnTakes ==
  ASSUME InvParts, onMsg, NEW k \in 0 .. Len(sent), k < Len(sent),
         NEW r \in Receivers, NEW size \in Nat, size > 0,
         Turn(format, session, Rest, asserts) = Consumed(r, size),
         ~ r.aborted, session.mShakehanded => r.mShakehanded,
         After(k + 1).end = done + size, After(k + 1).end <= arrived,
         r.handed = After(k + 1).owed,
         format = "cellnet" /\ asserts => r.mRecvSerialID = SerialAfter(k + 1),
         format = "web" =>
           /\ r.mShakehanded
           /\ IF After(k + 1).spoils THEN Harmless(r.mCacheFrame)
              ELSE r.mCacheFrame = <<>>
  PROVE  InvParts'
<1>1. StreamType /\ SenderInv
  BY DEF InvParts
<1>2. /\ session' = r /\ done' = done + size
      /\ reading' \in BOOLEAN /\ reading'
      /\ UNCHANGED <<format, asserts, arrived, stream, mSendSerialID, unsent, sent>>
  BY TurnStep
<1>3. StreamType'
  BY <1>1, <1>2 DEF StreamType
<1>4. ~ session'.aborted
  BY <1>2
<1>5. SenderInv' /\ \A j : After(j)' = After(j) /\ SerialAfter(j)' = SerialAfter(j)
  BY <1>1, <1>2, SenderSame
<1>6. k + 1 \in 0 .. Len(sent') /\ k + 1 > 0
  BY <1>1, <1>2 DEF StreamType
<1>7. At(k + 1)'
  <2>1. PICK j : j = k + 1
    OBVIOUS
  <2>2. After(j)' = After(j) /\ SerialAfter(j)' = SerialAfter(j) /\ j > 0
    BY <1>5, <1>6, <2>1
  <2>3. At(j)'
    BY <1>2, <2>1, <2>2 DEF At
  <2> QED
    BY <2>1, <2>3
<1>8. ReceiverInv'
  BY <1>2, <1>4, <1>6, <1>7 DEF ReceiverInv, InStep
<1> QED
  BY <1>3, <1>5, <1>8 DEF InvParts

\* ... or fails an assert.
LEMMA TurnAborts ==
  ASSUME InvParts, onMsg, NEW r \in Receivers, NEW size \in Nat,
         Turn(format, session, Rest, asserts) = Consumed(r, size),
         r.aborted, session.mShakehanded => r.mShakehanded,
         done + size <= arrived, Fragmented
  PROVE  InvParts'
<1>1. StreamType /\ SenderInv
  BY DEF InvParts
<1>2. /\ session' = r /\ done' = done + size
      /\ reading' \in BOOLEAN /\ ~ reading'
      /\ UNCHANGED <<format, asserts, arrived, stream, mSendSerialID, unsent, sent>>
  BY TurnStep
<1>3. StreamType'
  <2>1. done' \in Nat /\ done' <= arrived'
    BY <1>1, <1>2 DEF StreamType
  <2> QED
    BY <1>1, <1>2, <2>1 DEF StreamType
<1>4. SenderInv' /\ Fragmented' = Fragmented
  BY <1>1, <1>2, SenderSame
<1>5. ReceiverInv'
  BY <1>2, <1>4 DEF ReceiverInv
<1> QED
  BY <1>3, <1>4, <1>5 DEF InvParts
\* Where all writes were consumed nothing is left to read.
LEMMA NothingLeft ==
  ASSUME InvParts, onMsg, ~ session.aborted, At(Len(sent))
  PROVE  InvParts'
<1>1. StreamType /\ SenderInv
  BY DEF InvParts
<1>2. /\ Len(sent) \in Nat /\ done \in Nat /\ arrived \in Nat
      /\ done <= arrived /\ arrived <= Len(stream) /\ Len(stream) \in Nat
  BY <1>1 DEF StreamType
<1>3. done = Len(stream) /\ done = After(Len(sent)).end
  BY <1>1 DEF At, SenderInv
<1>4. PICK rest \in Seq(Int) : rest = Rest
  BY <1>1, RestOctets
<1>5. Len(rest) = 0 /\ DOMAIN rest = {}
  BY <1>1, <1>2, <1>3, <1>4, RestOctets
<1>13. Len(Seen(rest)) = 0
  <2>1. Seen(rest) \in Seq(Int) /\ Len(Seen(rest)) <= Len(rest)
    BY SeenOctets
  <2> QED
    BY <1>5, <2>1
<1>6. PacketTurn(session, Seen(rest)) = Consumed(session, 0)
  BY <1>13 DEF PacketTurn, PacketHead
<1>7. CellnetTurn(session, rest, asserts) = Consumed(session, 0)
  BY <1>5 DEF CellnetTurn, CellnetHead
<1>8. WebTurn(session, Seen(rest), asserts) = Consumed(session, 0)
  BY <1>13 DEF WebTurn, PacketOverhead
<1>9. WebHandshake(session, rest) = Consumed(session, 0)
  BY <1>5 DEF WebHandshake
<1>10. format \in {"packet", "cellnet", "web"}
  BY <1>1 DEF StreamType
<1>11. Turn(format, session, Rest, asserts) = Consumed(session, 0)
  BY <1>4, <1>6, <1>7, <1>8, <1>9, <1>10 DEF Turn
<1>12. Settled(Len(sent))
  BY <1>2, <1>3 DEF Settled, InFull
<1> QED
  BY <1>2, <1>11, <1>12, TurnWaits

\* Handing over touches nothing but what was handed over.
LEMMA HandOverType ==
  ASSUME NEW s \in Receivers, NEW op \in Int, NEW body \in Seq(Int)
  PROVE  /\ HandOver(s, op, body) \in Receivers
         /\ HandOver(s, op, body).handed = Append(s.handed, [op |-> op, body |-> body])
         /\ (HandOver(s, op, body).aborted <=> s.aborted)
         /\ HandOver(s, op, body).mRecvSerialID = s.mRecvSerialID
         /\ (HandOver(s, op, body).mShakehanded <=> s.mShakehanded)
         /\ HandOver(s, op, body).mCacheFrame = s.mCacheFrame
<1>1. [op |-> op, body |-> body] \in Item
  BY DEF Item
<1>2. Append(s.handed, [op |-> op, body |-> body]) \in Seq(Item)
  BY <1>1 DEF Receivers
<1> QED
  BY <1>2 DEF HandOver, Receivers

\* A turn where the next write is a packet, ...
LEMMA PacketOnMsg ==
  ASSUME InvParts, onMsg, ~ session.aborted, format = "packet",
         NEW k \in 0 .. Len(sent), k < Len(sent), At(k)
  PROVE  InvParts'
<1>1. StreamType /\ SenderInv
  BY DEF InvParts
<1>2. session \in Receivers /\ Len(sent) \in Nat /\ done = After(k).end
  BY <1>1 DEF StreamType, At
<1>3. k + 1 \in 1 .. Len(sent) /\ (k + 1) - 1 = k
  BY <1>2
<1>4. PICK op \in Int, body \in Seq(Int) :
        /\ Carries(k + 1, Packet(op, body))
        /\ After(k + 1).owed = Append(After(k).owed, [op |-> op, body |-> body])
  <2>1. Written(k + 1)
    BY <1>1, <1>3 DEF SenderInv
  <2> QED
    BY <1>3, <2>1 DEF Written, WrittenPacket
<1>5. PICK o : o = Packet(op, body)
  OBVIOUS
<1>6. o \in Seq(Int) /\ Len(o) = Len(body) + 2 /\ Len(body) \in Nat
  BY <1>5, PacketOctets
<1>7. PICK rest : rest = Rest
  OBVIOUS
<1>8. /\ rest \in Seq(Int) /\ After(k + 1).end = done + Len(o)
      /\ After(k + 1).end <= arrived => Begins(rest, o)
      /\ ~ (After(k + 1).end <= arrived) => Cut(rest, o) /\ InFull(k)
  BY <1>1, <1>2, <1>4, <1>5, <1>6, <1>7, NextOctets
<1>9. PICK seen : seen = Seen(rest)
  OBVIOUS
<1>12. Turn(format, session, Rest, asserts) = PacketTurn(session, seen)
  BY <1>7, <1>9 DEF Turn
<1>13. /\ seen \in Seq(Int) /\ (Begins(seen, o) \/ Cut(seen, o))
       /\ Begins(seen, o) => Begins(rest, o)
       /\ Len(rest) < PacketLenMod => seen = rest
  BY <1>6, <1>8, <1>9, SeenOctets, SeenBegins
<1>14. Len(rest) = arrived - done /\ (Begins(rest, o) => After(k + 1).end <= arrived)
  <2>1. Len(rest) = arrived - done
    BY <1>1, <1>7, RestOctets
  <2>2. done \in Nat /\ arrived \in Nat
    BY <1>1 DEF StreamType
  <2> QED
    BY <1>6, <1>8, <2>1, <2>2 DEF Begins
<1>10. CASE Begins(seen, o)
  <2>1. PICK r : r = HandOver(session, op, body)
    OBVIOUS
  <2>2. Turn(format, session, Rest, asserts) = Consumed(r, Len(body) + 2)
    BY <1>5, <1>12, <1>13, <1>10, <2>1, PacketWhole
  <2>3. /\ r \in Receivers /\ (r.aborted <=> session.aborted)
        /\ (r.mShakehanded <=> session.mShakehanded)
        /\ r.handed = Append(session.handed, [op |-> op, body |-> body])
    BY <1>2, <2>1, HandOverType
  <2>4. r.handed = After(k + 1).owed
    BY <1>4, <2>3 DEF At
  <2>5. Len(body) + 2 \in Nat /\ Len(body) + 2 > 0 /\ After(k + 1).end = done + (Len(body) + 2)
    BY <1>6, <1>8
  <2>6. After(k + 1).end <= arrived
    BY <1>10, <1>13, <1>14
  <2> QED
    BY <2>2, <2>3, <2>4, <2>5, <2>6, TurnTakes
<1>11. CASE Cut(seen, o)
  <2>1. Turn(format, session, Rest, asserts) = Consumed(session, 0)
    BY <1>5, <1>12, <1>13, <1>11, PacketPart
  <2>2. CASE Len(rest) < PacketLenMod
    <3>1. Cut(rest, o)
      BY <1>11, <1>13, <2>2
    <3>2. Len(rest) < Len(o) /\ Len(rest) \in Nat
      BY <1>8, <3>1 DEF Cut
    <3>3. ~ Begins(rest, o)
      BY <1>6, <3>2 DEF Begins
    <3>4. Settled(k)
      BY <1>8, <3>3 DEF Settled
    <3> QED
      BY <2>1, <3>4, TurnWaits
  <2>3. CASE ~ (Len(rest) < PacketLenMod)
    <3>1. Len(rest) \in Nat /\ PacketLenMod \in Nat
      BY <1>8, FramingAssumption
    <3>2. arrived - done >= PacketLenMod
      BY <1>14, <2>3, <3>1
    <3>3. Settled(k)
      BY <3>2 DEF Settled, Overrun
    <3> QED
      BY <2>1, <3>3, TurnWaits
  <2> QED
    BY <2>2, <2>3
<1> QED
  BY <1>10, <1>11, <1>13

\* ... a cellnet packet, whose number is the one expected, ...
LEMMA CellnetOnMsg ==
  ASSUME InvParts, onMsg, ~ session.aborted, format = "cellnet",
         NEW k \in 0 .. Len(sent), k < Len(sent), At(k)
  PROVE  InvParts'
<1>1. StreamType /\ SenderInv
  BY DEF InvParts
<1>2. /\ session \in Receivers /\ Len(sent) \in Nat /\ done = After(k).end
      /\ asserts \in BOOLEAN
  BY <1>1 DEF StreamType, At
<1>3. k + 1 \in 1 .. Len(sent) /\ (k + 1) - 1 = k
  BY <1>2
<1>4. PICK op \in Int, serial \in Int, body \in Seq(Int) :
        /\ Len(body) + CellnetHead < LenMod
        /\ Carries(k + 1, Cellnet(op, serial, body))
        /\ SerialAfter(k) = serial /\ SerialAfter(k + 1) = (serial + 1) % SerialMod
        /\ After(k + 1).owed = Append(After(k).owed, [op |-> op, body |-> body])
  <2>1. Written(k + 1)
    BY <1>1, <1>3 DEF SenderInv
  <2> QED
    BY <1>3, <2>1 DEF Written, WrittenCellnet
<1>5. PICK o : o = Cellnet(op, serial, body)
  OBVIOUS
<1>6. o \in Seq(Int) /\ Len(o) = Len(body) + 3 /\ Len(body) \in Nat
  BY <1>4, <1>5, CellnetOctets
<1>7. PICK rest : rest = Rest
  OBVIOUS
<1>8. /\ rest \in Seq(Int) /\ After(k + 1).end = done + Len(o)
      /\ After(k + 1).end <= arrived => Begins(rest, o)
      /\ ~ (After(k + 1).end <= arrived) => Cut(rest, o) /\ InFull(k)
  BY <1>1, <1>2, <1>4, <1>5, <1>6, <1>7, NextOctets
<1>9. Turn(format, session, Rest, asserts) = CellnetTurn(session, rest, asserts)
  BY <1>7 DEF Turn
<1>10. CASE After(k + 1).end <= arrived
  <2>1. PICK c : c = Counted(session, asserts)
    OBVIOUS
  <2>2. PICK r : r = HandOver(c, op, body)
    OBVIOUS
  <2>3. asserts => session.mRecvSerialID = serial
    BY <1>4 DEF At
  <2>4. Turn(format, session, Rest, asserts) = Consumed(r, Len(body) + 3)
    <3>1. Begins(rest, Cellnet(op, serial, body)) /\ rest \in Seq(Int)
      BY <1>5, <1>8, <1>10
    <3>2. asserts \in BOOLEAN /\ Len(body) + CellnetHead < LenMod
      BY <1>2, <1>4
    <3>3. CellnetTurn(session, rest, asserts) =
            Consumed(HandOver(Counted(session, asserts), op, body), Len(body) + 3)
      BY <2>3, <3>1, <3>2, CellnetWhole, ZenonT(40)
    <3> QED
      BY <1>9, <2>1, <2>2, <3>3
  <2>5. /\ c \in Receivers /\ c.handed = session.handed
        /\ (c.aborted <=> session.aborted) /\ (c.mShakehanded <=> session.mShakehanded)
        /\ asserts => c.mRecvSerialID = (serial + 1) % SerialMod
    <3>1. (session.mRecvSerialID + 1) % SerialMod \in Int
      BY <1>2, FramingAssumption DEF Receivers
    <3> QED
      BY <1>2, <2>1, <2>3, <3>1 DEF Counted, Receivers
  <2>6. /\ r \in Receivers /\ (r.aborted <=> c.aborted)
        /\ (r.mShakehanded <=> c.mShakehanded)
        /\ r.handed = Append(c.handed, [op |-> op, body |-> body])
        /\ r.mRecvSerialID = c.mRecvSerialID
    BY <2>2, <2>5, HandOverType, SMTT(30)
  <2>7. /\ r.handed = After(k + 1).owed
        /\ asserts => r.mRecvSerialID = SerialAfter(k + 1)
    BY <1>4, <2>5, <2>6 DEF At
  <2>8. Len(body) + 3 \in Nat /\ Len(body) + 3 > 0 /\ After(k + 1).end = done + (Len(body) + 3)
    BY <1>6, <1>8
  <2> QED
    BY <1>10, <2>4, <2>5, <2>6, <2>7, <2>8, TurnTakes
<1>11. CASE ~ (After(k + 1).end <= arrived)
  <2>1. Turn(format, session, Rest, asserts) = Consumed(session, 0)
    BY <1>2, <1>4, <1>5, <1>8, <1>9, <1>11, CellnetPart
  <2>2. Settled(k)
    BY <1>8, <1>11 DEF Settled
  <2> QED
    BY <2>1, <2>2, TurnWaits
<1> QED
  BY <1>10, <1>11

\* ... or the request, if the handshake took it and nothing else.
LEMMA HandshakeOnMsg ==
  ASSUME InvParts, onMsg, ~ broken', ~ session.aborted, format = "web",
         ~ session.mShakehanded, NEW k \in 0 .. Len(sent), k < Len(sent), At(k)
  PROVE  InvParts'
<1>1. StreamType /\ SenderInv
  BY DEF InvParts
<1>2. /\ session \in Receivers /\ Len(sent) \in Nat /\ done = After(k).end
      /\ asserts \in BOOLEAN
  BY <1>1 DEF StreamType, At
<1>3. k = 0 /\ k + 1 = 1 /\ 1 \in 1 .. Len(sent) /\ 1 - 1 = 0
  BY <1>2 DEF At
<1>4. /\ Carries(1, Request) /\ After(1).owed = After(0).owed /\ ~ After(1).spoils
      /\ ~ After(0).spoils
  <2>1. Written(1)
    BY <1>1, <1>3 DEF SenderInv
  <2>2. ~ After(0).spoils
    BY DEF After
  <2> QED
    BY <1>3, <2>1, <2>2 DEF Written, WrittenWeb, OwesNothing
<1>5. PICK o : o = Request
  OBVIOUS
<1>6. o \in Seq(Int) /\ Len(o) = 6 /\ o[2] = Key
  BY <1>5 DEF Request, HeaderLines, Key
<1>7. PICK rest : rest = Rest
  OBVIOUS
<1>8. /\ rest \in Seq(Int) /\ Len(rest) = arrived - done /\ After(k + 1).end = done + Len(o)
      /\ After(k + 1).end <= arrived => Begins(rest, o)
      /\ ~ (After(k + 1).end <= arrived) => Cut(rest, o) /\ InFull(k)
  BY <1>1, <1>2, <1>3, <1>4, <1>5, <1>6, <1>7, NextOctets
<1>9. Turn(format, session, Rest, asserts) = WebHandshake(session, rest)
  BY <1>7 DEF Turn
<1>10. CASE \E i \in DOMAIN rest : rest[i] = Key
  <2>1. PICK r : r = [session EXCEPT !.mShakehanded = TRUE]
    OBVIOUS
  <2>2. Turn(format, session, Rest, asserts) = Consumed(r, Len(rest))
    BY <1>9, <1>10, <2>1 DEF WebHandshake
  <2>3. /\ r \in Receivers /\ r.handed = session.handed /\ r.aborted = session.aborted
        /\ r.mShakehanded /\ r.mCacheFrame = session.mCacheFrame
    BY <1>2, <2>1 DEF Receivers
  <2>4. session' = r
    BY <1>8, <2>2, TurnStep
  <2>5. rest = o
    <3>1. session'.mShakehanded # session.mShakehanded
      BY <2>3, <2>4
    <3>2. session' = Turn(format, session, Rest, asserts).s
      BY DEF onMsg
    <3>3. ~ (session'.mShakehanded # session.mShakehanded /\ Rest # Request)
      BY <3>2 DEF onMsg
    <3> QED
      BY <1>5, <1>7, <3>1, <3>3
  <2>6. Len(rest) = 6 /\ After(k + 1).end <= arrived /\ After(k + 1).end = done + Len(rest)
    <3>1. Len(rest) = 6 /\ Len(o) = 6 /\ Len(rest) \in Nat
      BY <1>6, <2>5
    <3>2. done \in Nat /\ arrived \in Nat
      BY <1>1 DEF StreamType
    <3>3. After(k + 1).end = done + Len(o) /\ Len(rest) = arrived - done
      BY <1>8
    <3>4. After(k + 1).end = done + 6
      BY <3>1, <3>3
    <3>5. arrived - done = 6
      BY <3>1, <3>3
    <3>6. arrived = done + 6
      BY <3>2, <3>5
    <3> QED
      BY <3>1, <3>2, <3>4, <3>6
  <2>7. r.handed = After(k + 1).owed /\ r.mCacheFrame = <<>>
    BY <1>3, <1>4, <2>3 DEF At
  <2> QED
    BY <1>2, <1>3, <1>4, <2>2, <2>3, <2>6, <2>7, TurnTakes
<1>11. CASE ~ \E i \in DOMAIN rest : rest[i] = Key
  <2>1. Turn(format, session, Rest, asserts) = Consumed(session, 0)
    BY <1>9, <1>11 DEF WebHandshake
  <2>2. ~ Begins(rest, o)
    <3> SUFFICES ASSUME Begins(rest, o)
                 PROVE  FALSE
      OBVIOUS
    <3>1. 2 \in DOMAIN rest /\ rest[2] = o[2]
      BY <1>6, <1>8 DEF Begins
    <3> QED
      BY <1>6, <1>11, <3>1
  <2>3. Settled(k)
    BY <1>8, <2>2 DEF Settled
  <2> QED
    BY <2>1, <2>3, TurnWaits
<1> QED
  BY <1>10, <1>11
\* Every frame is at least as long as its head.
LEMMA FrameLength ==
  ASSUME StreamType, SenderInv, format = "web", NEW k \in 2 .. Len(sent)
  PROVE  After(k).end >= After(k - 1).end + 3
<1>1. Written(k) /\ k # 1
  BY DEF SenderInv, StreamType
<1>2. After(k - 1).end \in Nat
  <2>1. k - 1 \in 0 .. Len(sent)
    BY DEF StreamType
  <2> QED
    BY <2>1, AfterType DEF Writes
<1>3. \A o \in Seq(Int) : Carries(k, o) /\ Len(o) >= 3 => After(k).end >= After(k - 1).end + 3
  BY <1>2 DEF Carries
<1>4. \E o \in Seq(Int) : Carries(k, o) /\ Len(o) >= 3
  <2>1. \A fin \in BOOLEAN, opcode \in Int, payload \in Seq(Int) :
          /\ Frame(fin, opcode, payload) \in Seq(Int)
          /\ Len(Frame(fin, opcode, payload)) >= 3
    <3> SUFFICES ASSUME NEW fin \in BOOLEAN, NEW opcode \in Int, NEW payload \in Seq(Int)
                 PROVE  /\ Frame(fin, opcode, payload) \in Seq(Int)
                        /\ Len(Frame(fin, opcode, payload)) >= 3
      OBVIOUS
    <3>1. PICK o : o = Frame(fin, opcode, payload)
      OBVIOUS
    <3>2. o \in Seq(Int) /\ Len(o) = Len(payload) + 3
      BY <3>1, FrameOctets
    <3> QED
      BY <3>1, <3>2
  <2>2. /\ TEXT \in Int /\ CONTINUATION \in Int /\ <<>> \in Seq(Int)
        /\ {TEXT, BINARY} \subseteq Int /\ {PING, PONG} \subseteq Int
    BY DEF TEXT, BINARY, CONTINUATION, PING, PONG
  <2>3. CASE WrittenWhole(k)
    BY <2>1, <2>2, <2>3, WebPacketOctets DEF WrittenWhole
  <2>4. CASE WrittenFirst(k)
    BY <2>1, <2>2, <2>4 DEF WrittenFirst
  <2>5. CASE WrittenRest(k)
    BY <2>1, <2>2, <2>5 DEF WrittenRest
  <2>6. CASE WrittenPing(k)
    BY <2>1, <2>2, <2>6 DEF WrittenPing
  <2> QED
    BY <1>1, <2>3, <2>4, <2>5, <2>6 DEF Written, WrittenWeb
<1> QED
  BY <1>3, <1>4

\* What a frame that is all there makes of the session, given what its opcode does.
LEMMA FrameTaken ==
  ASSUME InvParts, onMsg, ~ session.aborted, format = "web", session.mShakehanded,
         NEW k \in 0 .. Len(sent), k < Len(sent), At(k),
         NEW fin \in BOOLEAN, NEW opcode \in Int, NEW payload \in Seq(Int),
         Carries(k + 1, Frame(fin, opcode, payload)),
         Len(payload) >= 2 \/ After(k + 1).kind = "ping",
         NEW r \in Receivers, r = WebFrame(session, fin, opcode, payload, asserts),
         r.mShakehanded,
         IF r.aborted THEN Fragmented
         ELSE /\ r.handed = After(k + 1).owed
              /\ IF After(k + 1).spoils THEN Harmless(r.mCacheFrame)
                 ELSE r.mCacheFrame = <<>>
  PROVE  InvParts'
<1>1. StreamType /\ SenderInv
  BY DEF InvParts
<1>2. /\ Len(sent) \in Nat /\ done = After(k).end /\ done \in Nat /\ arrived \in Nat
      /\ done <= arrived /\ asserts \in BOOLEAN /\ k > 0
  BY <1>1 DEF StreamType, At
<1>3. PICK o : o = Frame(fin, opcode, payload)
  OBVIOUS
<1>4. o \in Seq(Int) /\ Len(o) = Len(payload) + 3 /\ Len(payload) \in Nat
  BY <1>3, FrameOctets
<1>5. PICK rest : rest = Rest
  OBVIOUS
<1>6. /\ rest \in Seq(Int) /\ Len(rest) = arrived - done /\ After(k + 1).end = done + Len(o)
      /\ After(k + 1).end <= arrived => Begins(rest, o)
      /\ ~ (After(k + 1).end <= arrived) => Cut(rest, o) /\ InFull(k)
  BY <1>1, <1>2, <1>3, <1>4, <1>5, NextOctets
<1>7. After(k + 1).end = done + Len(o)
  BY <1>6
<1>8. PICK seen : seen = Seen(rest)
  OBVIOUS
<1>12. Turn(format, session, Rest, asserts) = WebTurn(session, seen, asserts)
  BY <1>5, <1>8 DEF Turn
<1>13. /\ seen \in Seq(Int) /\ (Begins(seen, o) \/ Cut(seen, o))
       /\ Begins(seen, o) => Begins(rest, o)
       /\ Len(rest) < PacketLenMod => seen = rest
  BY <1>4, <1>6, <1>8, SeenOctets, SeenBegins
<1>14. /\ Begins(rest, o) => After(k + 1).end <= arrived
       /\ ~ (Len(rest) < PacketLenMod) => Settled(k)
  <2>1. Len(rest) = arrived - done /\ Len(rest) \in Nat /\ PacketLenMod \in Nat
    BY <1>6, FramingAssumption
  <2>2. Begins(rest, o) => After(k + 1).end <= arrived
    BY <1>2, <1>4, <1>7, <2>1 DEF Begins
  <2>3. ~ (Len(rest) < PacketLenMod) => Settled(k)
    BY <2>1 DEF Settled, Overrun
  <2> QED
    BY <2>2, <2>3
<1>9. CASE Begins(seen, o) /\ PacketOverhead <= Len(seen)
  <2>1. PICK size : size = Len(payload) + 3
    OBVIOUS
  <2>2. WebTurn(session, seen, asserts) = Consumed(r, Len(payload) + 3)
    BY <1>2, <1>3, <1>13, <1>9, FrameWhole
  <2>3. Turn(format, session, Rest, asserts) = Consumed(r, size)
    BY <1>12, <2>1, <2>2
  <2>4. size \in Nat /\ size > 0 /\ After(k + 1).end = done + size
    BY <1>4, <1>6, <2>1
  <2>7. After(k + 1).end <= arrived
    BY <1>9, <1>13, <1>14
  <2>5. CASE r.aborted
    BY <2>3, <2>4, <2>5, <2>7, TurnAborts
  <2>6. CASE ~ r.aborted
    BY <2>3, <2>4, <2>6, <2>7, TurnTakes
  <2> QED
    BY <2>5, <2>6
<1>15. After(k + 1).end <= arrived => Begins(rest, o)
  BY <1>6
<1>10. CASE /\ Begins(seen, o) /\ ~ (PacketOverhead <= Len(seen))
            /\ Len(rest) < PacketLenMod
  <2>9. seen = rest /\ Begins(rest, o) /\ After(k + 1).end <= arrived
    BY <1>10, <1>13, <1>14
  <2>1. Len(rest) < PacketOverhead /\ Len(rest) \in Nat
    BY <1>6, <1>10, <2>9 DEF PacketOverhead
  <2>2. Turn(format, session, Rest, asserts) = Consumed(session, 0)
    BY <1>2, <1>6, <1>12, <2>1, <2>9, FramePart
  <2>3. Len(o) <= Len(rest)
    BY <2>9 DEF Begins
  <2>4. Len(rest) = arrived - done
    BY <1>6
  <2>5. After(k + 1).kind = "ping"
    <3>1. CASE Len(payload) >= 2
      <4>1. Len(rest) >= 5
        BY <1>4, <2>3, <3>1
      <4> QED
        BY <2>1, <4>1 DEF PacketOverhead
    <3> QED
      BY <3>1
  <2>6. k + 1 < Len(sent) => arrived < After(k + 2).end
    <3> SUFFICES ASSUME k + 1 < Len(sent)
                 PROVE  arrived < After(k + 2).end
      OBVIOUS
    <3>1. k + 2 \in 2 .. Len(sent) /\ (k + 2) - 1 = k + 1 /\ k + 2 \in 0 .. Len(sent)
      BY <1>2
    <3>2. After(k + 2).end >= After(k + 1).end + 3
      BY <1>1, <3>1, FrameLength
    <3>3. After(k + 2).end \in Nat /\ After(k + 1).end \in Nat
      <4>1. k + 1 \in 0 .. Len(sent)
        BY <1>2
      <4> QED
        BY <1>1, <3>1, <4>1, AfterType, SMTT(30) DEF Writes
    <3>4. Len(rest) < Len(o) + 3
      BY <1>4, <2>1 DEF PacketOverhead
    <3>5. arrived < (done + Len(o)) + 3
      <4>1. arrived - done < Len(o) + 3
        BY <2>4, <3>4
      <4>2. arrived \in Nat /\ done \in Nat /\ Len(o) \in Nat
        BY <1>2, <1>4
      <4> QED
        BY <4>1, <4>2
    <3> QED
      BY <1>2, <1>7, <3>2, <3>3, <3>5, SMTT(30)
  <2>7. InFull(k + 1)
    <3>1. (k + 1) + 1 = k + 2
      BY <1>2
    <3> QED
      BY <2>6, <2>9, <3>1 DEF InFull
  <2>8. Settled(k)
    BY <1>2, <2>5, <2>7 DEF Settled
  <2> QED
    BY <2>2, <2>8, TurnWaits
<1>11. CASE Cut(seen, o) /\ Len(rest) < PacketLenMod
  <2>1. seen = rest /\ Len(rest) < Len(o) /\ Len(rest) \in Nat
    BY <1>6, <1>11, <1>13 DEF Cut
  <2>2. Turn(format, session, Rest, asserts) = Consumed(session, 0)
    BY <1>2, <1>3, <1>11, <1>12, <1>13, FramePart
  <2>3. ~ Begins(rest, o)
    BY <1>4, <2>1 DEF Begins
  <2>4. Settled(k)
    BY <1>6, <1>15, <2>3 DEF Settled
  <2> QED
    BY <2>2, <2>4, TurnWaits
<1>16. CASE /\ ~ (Len(rest) < PacketLenMod)
            /\ Cut(seen, o) \/ ~ (PacketOverhead <= Len(seen))
  <2>1. Cut(seen, Frame(fin, opcode, payload)) \/ Len(seen) < PacketOverhead
    BY <1>3, <1>13, <1>16 DEF PacketOverhead
  <2>2. Turn(format, session, Rest, asserts) = Consumed(session, 0)
    BY <1>2, <1>12, <1>13, <2>1, FramePart
  <2> QED
    BY <1>14, <1>16, <2>2, TurnWaits
<1> QED
  BY <1>9, <1>10, <1>11, <1>13, <1>16

\* A frame, for each kind of it.
LEMMA FrameOnMsg ==
  ASSUME InvParts, onMsg, ~ session.aborted, format = "web", session.mShakehanded,
         NEW k \in 0 .. Len(sent), k < Len(sent), At(k)
  PROVE  InvParts'
<1>1. StreamType /\ SenderInv
  BY DEF InvParts
<1>2. /\ session \in Receivers /\ Len(sent) \in Nat /\ asserts \in BOOLEAN /\ k > 0
      /\ session.handed = After(k).owed /\ session.mCacheFrame \in Seq(Int)
      /\ session.handed \in Seq(Item)
      /\ IF After(k).spoils THEN Harmless(session.mCacheFrame) ELSE session.mCacheFrame = <<>>
  BY <1>1 DEF StreamType, At, Receivers
<1>3. k + 1 \in 1 .. Len(sent) /\ (k + 1) - 1 = k /\ k + 1 # 1 /\ k + 1 # 0
  BY <1>2
<1>4. /\ After(k).spoils => Fragmented
      /\ After(k + 1).kind = "first" => Fragmented
  <2>1. After(k).spoils => Fragmented
    BY <1>1 DEF SenderInv
  <2>2. k + 1 \in DOMAIN sent /\ After(k + 1) = sent[k + 1]
    BY <1>1, <1>3 DEF After, StreamType
  <2> QED
    BY <2>1, <2>2 DEF Fragmented
<1>5. PICK j : j = k + 1
  OBVIOUS
<1>6. WrittenWeb(j) /\ j # 1 /\ j - 1 = k
  BY <1>1, <1>3, <1>5 DEF SenderInv, Written
<1>7. /\ TEXT \in Int /\ CONTINUATION \in Int /\ <<>> \in Seq(Int)
      /\ {TEXT, BINARY} \subseteq Int /\ {PING, PONG} \subseteq Int
  BY DEF TEXT, BINARY, CONTINUATION, PING, PONG
<1>8. /\ TEXT # CONTINUATION /\ CONTINUATION \notin {TEXT, BINARY}
      /\ TEXT \notin {PING, PONG} /\ CONTINUATION \notin {PING, PONG}
      /\ \A opcode \in {PING, PONG} : opcode \notin {TEXT, BINARY} /\ opcode # CONTINUATION
  BY DEF TEXT, BINARY, CONTINUATION, PING, PONG
<1>9. CASE After(j).kind = "whole" /\ WrittenWhole(j)
  <2>1. PICK op \in Int, serial \in Int, body \in Seq(Int), opcode \in {TEXT, BINARY} :
          /\ Carries(j, Frame(TRUE, opcode, WebPacket(op, serial, body)))
          /\ After(j).owed =
               IF After(k).spoils THEN After(k).owed
               ELSE Append(After(k).owed, [op |-> op, body |-> body])
          /\ ~ After(j).spoils
    BY <1>6, <1>9 DEF WrittenWhole
  <2>2. PICK payload : payload = WebPacket(op, serial, body)
    OBVIOUS
  <2>3. payload \in Seq(Int) /\ Len(payload) >= 5 /\ Len(payload) >= 2
    BY <2>2, WebPacketOctets
  <2>4. Carries(k + 1, Frame(TRUE, opcode, payload)) /\ opcode \in Int
    BY <1>5, <1>7, <2>1, <2>2
  <2>5. CASE After(k).spoils
    <3>1. PICK r : r = [[session EXCEPT !.mCacheFrame = <<>>] EXCEPT !.aborted = asserts]
      OBVIOUS
    <3>2. r = WebFrame(session, TRUE, opcode, payload, asserts)
      BY <1>2, <2>3, <2>5, <3>1, FinalSpoiled DEF PacketOverhead
    <3>3. /\ r \in Receivers /\ r.handed = session.handed
          /\ (r.mShakehanded <=> session.mShakehanded) /\ r.mCacheFrame = <<>>
      BY <1>2, <1>7, <3>1 DEF Receivers
    <3> QED
      BY <1>2, <1>4, <1>5, <1>7, <2>1, <2>3, <2>4, <2>5, <3>2, <3>3, FrameTaken
  <2>6. CASE ~ After(k).spoils
    <3>1. PICK e : e = [session EXCEPT !.mCacheFrame = <<>>]
      OBVIOUS
    <3>2. /\ e \in Receivers /\ e.handed = session.handed /\ e.mCacheFrame = <<>>
          /\ (e.mShakehanded <=> session.mShakehanded) /\ (e.aborted <=> session.aborted)
      BY <1>2, <1>7, <3>1 DEF Receivers
    <3>3. PICK r : r = HandOver(e, op, body)
      OBVIOUS
    <3>4. r = WebFrame(session, TRUE, opcode, payload, asserts)
      <4>1. asserts \in BOOLEAN /\ session \in Receivers /\ session.mCacheFrame = <<>>
        BY <1>2, <1>7, <2>6
      <4>2. WebFrame(session, TRUE, opcode, WebPacket(op, serial, body), asserts) =
              HandOver([session EXCEPT !.mCacheFrame = <<>>], op, body)
        BY <4>1, FinalWhole, ZenonT(60)
      <4> QED
        BY <2>2, <3>1, <3>3, <4>2, Zenon
    <3>5. /\ r \in Receivers /\ r.handed = Append(e.handed, [op |-> op, body |-> body])
          /\ (r.mShakehanded <=> e.mShakehanded) /\ (r.aborted <=> e.aborted)
          /\ r.mCacheFrame = e.mCacheFrame
      BY <3>2, <3>3, HandOverType, SMTT(30)
    <3>6. r.handed = After(k + 1).owed /\ ~ After(k + 1).spoils
      BY <1>2, <1>5, <2>1, <2>6, <3>2, <3>5
    <3> QED
      BY <1>7, <2>3, <2>4, <3>2, <3>4, <3>5, <3>6, FrameTaken
  <2> QED
    BY <2>5, <2>6
<1>10. CASE After(j).kind = "first" /\ WrittenFirst(j)
  <2>1. PICK payload \in Seq(Int) :
          /\ Len(payload) >= 2 /\ Carries(j, Frame(FALSE, TEXT, payload))
          /\ After(j).owed = After(k).owed /\ (After(j).spoils <=> After(k).spoils)
    BY <1>6, <1>10 DEF WrittenFirst, OwesNothing
  <2>2. PICK r : r = [session EXCEPT !.aborted = asserts]
    OBVIOUS
  <2>3. r = WebFrame(session, FALSE, TEXT, payload, asserts)
    BY <1>8, <2>2, Zenon DEF WebFrame
  <2>4. /\ r \in Receivers /\ r.handed = session.handed
        /\ (r.mShakehanded <=> session.mShakehanded) /\ r.mCacheFrame = session.mCacheFrame
    BY <1>2, <2>2 DEF Receivers
  <2>5. Fragmented
    BY <1>4, <1>5, <1>10
  <2> QED
    BY <1>2, <1>5, <1>7, <2>1, <2>3, <2>4, <2>5, FrameTaken
<1>11. CASE After(j).kind = "rest" /\ WrittenRest(j)
  <2>1. PICK payload \in Seq(Int) :
          /\ Harmless(payload) /\ Carries(j, Frame(TRUE, CONTINUATION, payload))
          /\ After(j).owed = After(k).owed /\ After(j).spoils
    BY <1>6, <1>11 DEF WrittenRest, OwesNothing
  <2>2. PICK cache : cache = session.mCacheFrame
    OBVIOUS
  <2>3. cache \o payload \in Seq(Int) /\ Harmless(cache \o payload)
    <3>1. cache \in Seq(Int)
      BY <1>2, <2>2
    <3>2. CASE Harmless(cache)
      <4>1. /\ Len(cache \o payload) = Len(cache) + Len(payload)
            /\ (cache \o payload)[2] = cache[2] /\ cache[2] \in Int
            /\ Len(cache) \in Nat /\ Len(payload) \in Nat
        BY <3>1, <3>2 DEF Harmless
      <4> QED
        BY <3>1, <3>2, <4>1 DEF Harmless, PacketOverhead
    <3>3. CASE cache = <<>>
      <4>1. cache \o payload = payload
        BY <3>3
      <4> QED
        BY <2>1, <4>1
    <3> QED
      BY <1>2, <2>2, <3>2, <3>3
  <2>4. PICK r : r = [session EXCEPT !.mCacheFrame = cache \o payload]
    OBVIOUS
  <2>5. r = WebFrame(session, TRUE, CONTINUATION, payload, asserts)
    BY <1>8, <2>2, <2>4, Zenon DEF WebFrame
  <2>6. /\ r \in Receivers /\ r.handed = session.handed /\ (r.aborted <=> session.aborted)
        /\ (r.mShakehanded <=> session.mShakehanded) /\ r.mCacheFrame = cache \o payload
    BY <1>2, <2>3, <2>4 DEF Receivers
  <2>7. Len(payload) >= 2
    BY <2>1 DEF Harmless
  <2> QED
    BY <1>2, <1>5, <1>7, <2>1, <2>3, <2>5, <2>6, <2>7, FrameTaken
<1>12. CASE After(j).kind = "ping" /\ WrittenPing(j)
  <2>1. PICK opcode \in {PING, PONG} :
          /\ Carries(j, Frame(TRUE, opcode, <<>>))
          /\ After(j).owed = After(k).owed /\ (After(j).spoils <=> After(k).spoils)
    BY <1>6, <1>12 DEF WrittenPing, OwesNothing
  <2>2. session = WebFrame(session, TRUE, opcode, <<>>, asserts)
    BY <1>8, Zenon DEF WebFrame
  <2> QED
    BY <1>2, <1>5, <1>7, <1>12, <2>1, <2>2, FrameTaken
<1> QED
  BY <1>6, <1>9, <1>10, <1>11, <1>12 DEF WrittenWeb
\* A turn, wherever the receiver stands.
LEMMA OnMsgInv == InvParts /\ ~ broken' /\ onMsg => InvParts'
<1> SUFFICES ASSUME InvParts, ~ broken', onMsg
             PROVE  InvParts'
  OBVIOUS
<1>1. StreamType /\ ReceiverInv /\ reading
  BY DEF InvParts, onMsg
<1>2. ~ session.aborted
  BY <1>1 DEF ReceiverInv
<1>3. PICK k \in 0 .. Len(sent) : At(k)
  BY <1>1, <1>2 DEF ReceiverInv, InStep
<1>4. CASE k = Len(sent)
  BY <1>2, <1>3, <1>4, NothingLeft
<1>5. CASE k # Len(sent)
  <2>1. k < Len(sent)
    BY <1>1, <1>5 DEF StreamType
  <2>2. CASE format = "packet"
    BY <1>2, <1>3, <2>1, <2>2, PacketOnMsg
  <2>3. CASE format = "cellnet"
    BY <1>2, <1>3, <2>1, <2>3, CellnetOnMsg
  <2>4. CASE format = "web" /\ ~ session.mShakehanded
    BY <1>2, <1>3, <2>1, <2>4, HandshakeOnMsg
  <2>5. CASE format = "web" /\ session.mShakehanded
    BY <1>2, <1>3, <2>1, <2>5, FrameOnMsg
  <2> QED
    BY <1>1, <2>2, <2>3, <2>4, <2>5 DEF StreamType
<1> QED
  BY <1>4, <1>5

(***************************************************************************)
(* The theorems                                                            *)
(***************************************************************************)

\* Nothing is written, nothing owed.
LEMMA InitInv == StreamInit => StreamInv
<1> SUFFICES ASSUME StreamInit
             PROVE  InvParts
  BY DEF StreamInv, InvParts
<1>1. /\ format \in {"packet", "cellnet", "web"} /\ asserts \in BOOLEAN
      /\ session = Session /\ stream = <<>> /\ arrived = 0 /\ done = 0
      /\ reading = FALSE /\ mSendSerialID = 1 /\ unsent = <<>> /\ sent = <<>>
  BY StreamsAssumption DEF StreamInit
<1>2. /\ Len(sent) = 0 /\ 0 .. Len(sent) = {0} /\ 1 .. Len(sent) = {}
      /\ Len(stream) = 0
  BY <1>1
<1>3. session \in Receivers
  <2>1. <<>> \in Seq(Int) /\ <<>> \in Seq(Item)
    OBVIOUS
  <2> QED
    BY <1>1, <2>1 DEF Session, Receivers
<1>4. StreamType
  <2>1. /\ <<>> \in Seq(Int) /\ <<>> \in Seq(Writes)
        /\ 0 \in Nat /\ 1 \in Int /\ FALSE \in BOOLEAN
    OBVIOUS
  <2>2. stream \in Seq(Int) /\ unsent \in Seq(Int) /\ sent \in Seq(Writes)
    BY <1>1, <2>1
  <2>3. reading \in BOOLEAN /\ mSendSerialID \in Int
    BY <1>1, <2>1
  <2>4. /\ arrived \in Nat /\ done \in Nat /\ done <= arrived /\ arrived <= Len(stream)
    BY <1>1, <1>2
  <2> QED
    BY <1>1, <1>3, <2>2, <2>3, <2>4 DEF StreamType
<1>5. /\ After(0).end = 0 /\ After(0).owed = <<>> /\ ~ After(0).spoils
      /\ After(0).packets = After(0).owed
  BY DEF After
<1>6. SerialAfter(0) = 1
  BY <1>1, <1>2 DEF SerialAfter
<1>7. SenderInv
  BY <1>1, <1>2, <1>5, <1>6 DEF SenderInv
<1>8. At(0) /\ Settled(0)
  BY <1>1, <1>2, <1>5, <1>6 DEF At, Settled, InFull, Session
<1>9. ReceiverInv
  BY <1>1, <1>2, <1>8 DEF ReceiverInv, InStep, Session
<1> QED
  BY <1>4, <1>7, <1>9 DEF InvParts

\* A receiver out of step stays so; any other keeps its place.
LEMMA NextInv == StreamInv /\ [StreamNext]_streamVars => StreamInv'
<1> SUFFICES ASSUME StreamInv, [StreamNext]_streamVars, ~ broken'
             PROVE  InvParts'
  BY DEF StreamInv, InvParts
<1>1. ~ broken
  <2> SUFFICES ASSUME broken
               PROVE  FALSE
    OBVIOUS
  <2>1. CASE SendPB
    BY <2>1 DEF SendPB, SendPBInLoop, SendPBFromOther, SendCellnet, NotSent, streamVars
  <2>2. CASE SendRest
    BY <2>2 DEF SendRest
  <2>3. CASE onMsg
    BY <2>3 DEF onMsg
  <2>4. CASE SendPacket \/ RequestUpgrade \/ SendWhole \/ SendPing \/ SendFirst \/ Receive
    BY <2>4 DEF SendPacket, RequestUpgrade, SendWhole, SendPing, SendFirst, Receive
  <2>5. CASE UNCHANGED streamVars
    BY <2>5 DEF streamVars
  <2> QED
    BY <2>1, <2>2, <2>3, <2>4, <2>5 DEF StreamNext
<1>2. InvParts
  BY <1>1 DEF StreamInv, InvParts
<1> QED
  BY <1>2, SendPacketInv, SendPBInv, RequestInv, SendWholeInv, SendPingInv, SendFirstInv,
     SendRestInv, ReceiveInv, OnMsgInv, Stutter DEF StreamNext

\* The receiver stands where a write ends, as long as nothing took it out of step.
LEMMA StreamInvHolds == StreamSpec => []StreamInv
<1>1. StreamInit => StreamInv
  BY InitInv
<1>2. StreamInv /\ [StreamNext]_streamVars => StreamInv'
  BY NextInv
<1> QED
  BY <1>1, <1>2, PTL DEF StreamSpec

\* On a connection in step what has arrived in full is handed over but for what
\* messages in several frames cost, for any packets and any number of such messages,
\* cut by the network anywhere behind the handshake
\* (UseWebPacketSingleNetSession.cpp:58-86).
THEOREM FragmentCostsCorrect == StreamSpec => []FragmentCosts
<1>1. StreamInv => FragmentCosts
  <2> SUFFICES ASSUME StreamInv, ~ session.aborted, ~ broken
               PROVE  \E k \in 0 .. Len(sent) :
                        /\ session.handed = After(k).owed
                        /\ After(k).end <= arrived
                        /\ reading \/ Overrun \/ InFull(k)
    BY DEF FragmentCosts
  <2>1. StreamType /\ SenderInv /\ ReceiverInv
    BY DEF StreamInv
  <2>2. PICK k \in 0 .. Len(sent) : At(k) /\ (reading \/ Settled(k))
    BY <2>1 DEF ReceiverInv, InStep
  <2>3. After(k).end <= arrived /\ session.handed = After(k).owed
    BY <2>1, <2>2 DEF At, StreamType
  <2>4. CASE reading \/ Overrun \/ InFull(k)
    BY <2>3, <2>4
  <2>5. CASE k < Len(sent) /\ format = "web" /\ k > 0 /\ After(k + 1).kind = "ping"
             /\ InFull(k + 1)
    <3>1. k + 1 \in 1 .. Len(sent) /\ k + 1 \in 0 .. Len(sent) /\ k + 1 # 1 /\ (k + 1) - 1 = k
      BY <2>1, <2>5 DEF StreamType
    <3>2. WrittenWeb(k + 1)
      BY <2>1, <2>5, <3>1 DEF SenderInv, Written
    <3>3. After(k + 1).owed = After(k).owed
      BY <2>5, <3>1, <3>2 DEF WrittenWeb, WrittenPing, OwesNothing
    <3>4. After(k + 1).end <= arrived
      BY <2>5 DEF InFull
    <3> QED
      BY <2>3, <2>5, <3>1, <3>3, <3>4
  <2> QED
    BY <2>2, <2>4, <2>5 DEF Settled
<1> QED
  BY <1>1, StreamInvHolds, PTL

\* On a connection in step, without messages in several frames, that is all of it:
\* each packet written whole, once, in its order and with its contents
\* (onMsg of the three sessions).
THEOREM HandedOverCorrect == StreamSpec => []HandedOver
<1>1. StreamInv /\ FragmentCosts => HandedOver
  <2> SUFFICES ASSUME StreamInv, FragmentCosts, ~ session.aborted, ~ broken, ~ Fragmented
               PROVE  \E k \in 0 .. Len(sent) :
                        /\ session.handed = After(k).packets
                        /\ After(k).end <= arrived
                        /\ reading \/ Overrun \/ InFull(k)
    BY DEF HandedOver
  <2>1. PICK k \in 0 .. Len(sent) : /\ session.handed = After(k).owed
                                    /\ After(k).end <= arrived
                                    /\ reading \/ Overrun \/ InFull(k)
    BY DEF FragmentCosts
  <2>2. After(k).packets = After(k).owed
    BY DEF StreamInv, SenderInv
  <2> QED
    BY <2>1, <2>2
<1> QED
  BY <1>1, StreamInvHolds, FragmentCostsCorrect, PTL

\* The asserts of the parsers fail for nothing but a message in several frames or a
\* receiver taken out of step; the serial numbers of both ends agree however often
\* they wrap (UseCellnetPacketSingleNetSession.h, onMsg).
THEOREM AssertsCorrect == StreamSpec => []AssertsHold
<1>1. StreamInv => AssertsHold
  BY DEF StreamInv, AssertsHold, ReceiverInv, Fragmented
<1> QED
  BY <1>1, StreamInvHolds, PTL
=============================================================================
