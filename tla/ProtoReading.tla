---------------------------- MODULE ProtoReading -----------------------------
(***************************************************************************)
(* How protoc's generated classes read a message:                          *)
(* MergePartialFromCodedStream with the routines of the runtime it calls,  *)
(* once, over any table of ProtoMessages.                                  *)
(***************************************************************************)
EXTENDS ProtoMessages

\* Every reader returns a value and where it stopped, or ok = FALSE when it ran out.
Failed == [ok |-> FALSE]
Got(value, next) == [ok |-> TRUE, value |-> value, next |-> next]

\* What the code does after `if (!Read...) return false'.
Then(read, Rest(_, _)) == IF read.ok THEN Rest(read.value, read.next) ELSE Failed

\* The number of which an octet has seven bits each, the first the low ones.
Number[octets \in Seq(Octet)] ==
  IF octets = <<>> THEN 0 ELSE (Head(octets) % 128) + 128 * Number[Tail(octets)]

\* The most octets a varint may take: 10 for 64 bits.
VarintMax == VarintSize[Wide - 1]

\* ReadVarint64: the first octet below 128 ends the number.
ReadVarint(octets, at) ==
  LET Upto(ends) ==
        IF ends = {} THEN Failed
        ELSE Got(Number[SubSeq(octets, at, Min(ends))] % Wide, Min(ends) + 1)
  IN  Upto({i \in at .. at + VarintMax - 1 : i <= Len(octets) /\ octets[i] < 128})

\* A mutant of ReadDelimited: what is missing at the end is not missed.
MutReadDelimited(octets, at) ==
  Then(ReadVarint(octets, at),
       LAMBDA size, next :
         Got(SubSeq(octets, next, Min({next + size - 1, Len(octets)})),
             Min({next + size, Len(octets) + 1})))

\* The octets a length in front of them announces.
ReadDelimited(octets, at) ==
  Then(ReadVarint(octets, at),
       LAMBDA size, next :
         IF next + size - 1 > Len(octets) THEN Failed
         ELSE Got(SubSeq(octets, next, next + size - 1), next + size))

\* A number of 32 bits keeps the low half of what was read.
FromUnsigned(type, n) ==
  LET width == IF type = "int64" THEN Wide ELSE Narrow
      low   == n % width
  IN  CASE type = "bool" -> n # 0
        [] type = "uint32" -> low
        [] OTHER -> IF 2 * low >= width THEN low - width ELSE low

ReadNumber(type, octets, at) ==
  Then(ReadVarint(octets, at), LAMBDA n, next : Got(FromUnsigned(type, n), next))

\* A loop is through when a read failed or everything is read.
Ended(octets, s) == ~ s.ok \/ s.next > Len(octets)

ReadOnePacked(type, octets, s) ==
  Then(ReadNumber(type, octets, s.next),
       LAMBDA n, next : Got(Append(s.value, n), next))

\* ReadPackedPrimitive: one number after the other until the run is used up.  A
\* number takes an octet or more, which bounds the turns.
ReadPacked(type, octets) ==
  LET turn[i \in 0 .. Len(octets)] ==
        IF i = 0 THEN Got(<<>>, 1)
        ELSE LET s == turn[i - 1] IN
             IF Ended(octets, s) THEN s ELSE ReadOnePacked(type, octets, s)
  IN  turn[Len(octets)]

\* A mutant of Skip: of a delimited field only the length is passed over.
MutSkip(wire, octets, at) ==
  LET Fixed(n) == IF at + n - 1 <= Len(octets) THEN Got(<<>>, at + n) ELSE Failed
  IN  CASE wire \in {0, 2} -> ReadVarint(octets, at)
        [] wire = 1 -> Fixed(8)
        [] wire = 5 -> Fixed(4)
        [] OTHER -> Failed

\* SkipField: what no case of the switch takes is passed over by its wire type
\* (1 and 5 are the fixed widths).  No peer writes groups, which end the loop.
Skip(wire, octets, at) ==
  LET Fixed(n) == IF at + n - 1 <= Len(octets) THEN Got(<<>>, at + n) ELSE Failed
  IN  CASE wire = 0 -> ReadVarint(octets, at)
        [] wire = 1 -> Fixed(8)
        [] wire = 2 -> ReadDelimited(octets, at)
        [] wire = 5 -> Fixed(4)
        [] OTHER -> Failed

\* A mutant of VerifyUtf8String: what it finds is logged and no more.
MutVerifyUtf8String(type, octets) == TRUE

\* VerifyUtf8String of what was read into a string; of bytes it is not asked.
VerifyUtf8String(type, octets) == type = "string" => IsUtf8(octets)

\* The value of field f whose tag has just been read, and what it makes of m.  A
\* message in a field is parsed where the field is read: nested[o] is what its
\* class makes of the octets o.
ReadField(f, wire, octets, at, m, nested) ==
  LET Stored(value, next) == Got([m EXCEPT ![f.name] = value], next)
      Run(Rest(_, _)) == Then(ReadDelimited(octets, at), Rest)
  IN  CASE f.type = "EtcdAddr" ->
             Run(LAMBDA o, next :
                   Then(nested[o],
                        LAMBDA sub, end : Stored(Append(m[f.name], sub), next)))
        [] IsChars(f.type) ->
             Run(LAMBDA o, next :
                   IF VerifyUtf8String(f.type, o) THEN Stored(o, next) ELSE Failed)
        [] f.repeated /\ ~ IsDelimited(f.type) /\ wire = 2 ->
             Run(LAMBDA o, next :
                   Then(ReadPacked(f.type, o),
                        LAMBDA all, end : Stored(m[f.name] \o all, next)))
        [] OTHER ->
             Then(ReadNumber(f.type, octets, at),
                  LAMBDA n, next :
                    Stored(IF f.repeated THEN Append(m[f.name], n) ELSE n, next))

\* The case of the switch that takes a tag: packed fields are also read one by one.
CasesOf(table, tag) ==
  {i \in DOMAIN table :
     \/ Tag(table[i]) = tag
     \/ table[i].repeated /\ table[i].type # "EtcdAddr" /\ 8 * table[i].num = tag}

\* One turn of the loop of MergePartialFromCodedStream.
ReadTagged(table, octets, s, nested) ==
  LET Turn(tag, next) ==
        IF tag = 0 \/ tag % 8 = 4 THEN Failed
        ELSE IF CasesOf(table, tag) # {}
             THEN ReadField(table[CHOOSE i \in CasesOf(table, tag) : TRUE], tag % 8,
                            octets, next, s.value, nested)
             ELSE Then(Skip(tag % 8, octets, next),
                       LAMBDA skipped, end : Got(s.value, end))
  IN  Then(ReadVarint(octets, s.next), Turn)

\* The loop.
Turns(table, octets, m, nested) ==
  LET turn[i \in 0 .. Len(octets)] ==
        IF i = 0 THEN Got(m, 1)
        ELSE LET s == turn[i - 1] IN
             IF Ended(octets, s) THEN s ELSE ReadTagged(table, octets, s, nested)
  IN  turn

Merge(table, octets, m, nested) == Turns(table, octets, m, nested)[Len(octets)]

\* The one class of messages that are fields of others; none of its own is one.
Nested == [o \in Seq(Octet) |-> Merge(EtcdAddr, o, Clear(EtcdAddr), <<>>)]

\* ParseFromArray: TRUE only when the loop ended at the end of the array.
Parse(table, octets) == Merge(table, octets, Clear(table), Nested)

\* It takes the length of the array as an int, half of whose values are negative.
Fits(octets) == Len(octets) < Narrow \div 2
=============================================================================
