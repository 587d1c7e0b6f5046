---------------------------- MODULE ProtoMessages ----------------------------
(***************************************************************************)
(* The protocol buffers the servers exchange and configure themselves      *)
(* with, as protoc's generated classes write and read them.                *)
(*                                                                         *)
(* The generated code of a message is one loop and three passes over its   *)
(* fields, the same in every class: only the table of fields differs.      *)
(* Each table below stands for the Clear, MergePartialFromCodedStream,     *)
(* SerializeWithCachedSizes, ByteSize and MergeFrom of one class; the      *)
(* operators after them are those methods, once, over any table, but for   *)
(* the one that reads, which is in ProtoReading.                           *)
(*                                                                         *)
(* A message is a function from the names of its fields to their values,   *)
(* an encoding a sequence of octets.  Integers are scaled: Narrow stands   *)
(* for 2^32 and Wide for 2^64, and as in the code the last octet of a wide *)
(* varint is only partly used.                                             *)
(***************************************************************************)
EXTENDS Integers, SequencesExt

CONSTANTS
  Narrow,   \* the number of 32-bit values
  Wide      \* the number of 64-bit values

ASSUME WidthAssumption ==
  /\ Narrow \in Nat /\ Wide \in Nat
  /\ 256 <= Narrow /\ Narrow <= Wide /\ Narrow % 2 = 0 /\ Wide % Narrow = 0

(***************************************************************************)
(* The tables                                                              *)
(***************************************************************************)

Optional(num, name, type) ==
  [num |-> num, name |-> name, type |-> type, repeated |-> FALSE]
Repeated(num, name, type) ==
  [num |-> num, name |-> name, type |-> type, repeated |-> TRUE]

UpstreamACK ==
  << Optional(1, "MsgID", "uint32"),
     Optional(2, "Data", "bytes"),
     Optional(3, "ClientID", "int64") >>

CloseClientACK == << Optional(1, "ClientID", "int64") >>

DownstreamACK ==
  << Optional(1, "MsgID", "uint32"),
     Optional(2, "Data", "bytes"),
     Repeated(3, "ClientID", "int64") >>

LogicServerLogin ==
  << Optional(1, "id", "int32"), Optional(2, "isPrimary", "bool") >>

LogicServerLoginReply ==
  << Optional(1, "isSuccess", "bool"), Optional(2, "id", "int32") >>

LogicServerKickPlayer == << Optional(1, "RoleRuntimeID", "int64") >>

LogicServerSetRoleSlave ==
  << Optional(1, "RoleRuntimeID", "int64"), Optional(2, "willSet", "bool") >>

LogicServerSetRolePrimary == << Optional(1, "RoleRuntimeID", "int64") >>

CenterServerConfig ==
  << Optional(1, "enableIPV6", "bool"),
     Optional(2, "bindIP", "string"),
     Optional(3, "listenPort", "int32"),
     Optional(4, "logicServerLoginPassword", "string") >>

EtcdAddr == << Optional(1, "ip", "string"), Optional(2, "port", "int32") >>

ConnectionServerConfig ==
  << Optional(1, "enableIPV6", "bool"),
     Optional(2, "bindIP", "string"),
     Optional(3, "portForClient", "int32"),
     Optional(4, "portForLogicServer", "int32"),
     Optional(5, "id", "int32"),
     Repeated(6, "etcdservers", "EtcdAddr"),
     Optional(7, "logicServerLoginPassword", "string") >>

LogicServerConfig ==
  << Optional(1, "id", "int32"),
     Optional(2, "isPrimary", "bool"),
     Repeated(3, "etcdservers", "EtcdAddr") >>

Table ==
  [UpstreamACK |-> UpstreamACK, CloseClientACK |-> CloseClientACK,
   DownstreamACK |-> DownstreamACK, LogicServerLogin |-> LogicServerLogin,
   LogicServerLoginReply |-> LogicServerLoginReply,
   LogicServerKickPlayer |-> LogicServerKickPlayer,
   LogicServerSetRoleSlave |-> LogicServerSetRoleSlave,
   LogicServerSetRolePrimary |-> LogicServerSetRolePrimary,
   CenterServerConfig |-> CenterServerConfig, EtcdAddr |-> EtcdAddr,
   ConnectionServerConfig |-> ConnectionServerConfig,
   LogicServerConfig |-> LogicServerConfig]

(***************************************************************************)
(* Values                                                                  *)
(***************************************************************************)

Octet == 0 .. 255

\* IsStructurallyValidUTF8: every octet begins a character and has the octets that
\* are to follow it behind it, or is one of these.  Of the first octets that are
\* followed by two or three, some bound the next (overlong forms, surrogates).
CharSize(o) ==
  CASE o < 128 -> 1
    [] o \in 194 .. 223 -> 2
    [] o \in 224 .. 239 -> 3
    [] o \in 240 .. 244 -> 4
    [] OTHER -> 0

Following == 128 .. 191

Second(o) ==
  CASE o = 224 -> 160 .. 191
    [] o = 237 -> 128 .. 159
    [] o = 240 -> 144 .. 191
    [] o = 244 -> 128 .. 143
    [] OTHER -> Following

BeginsChar(s, i) ==
  /\ CharSize(s[i]) > 0 /\ i + CharSize(s[i]) - 1 <= Len(s)
  /\ \A k \in 1 .. CharSize(s[i]) - 1 :
       s[i + k] \in (IF k = 1 THEN Second(s[i]) ELSE Following)

IsUtf8(s) ==
  \A i \in DOMAIN s :
    \E j \in i - 3 .. i :
      j >= 1 /\ BeginsChar(s, j) /\ i < j + CharSize(s[j])

Utf8 == {s \in Seq(Octet) : IsUtf8(s)}

IsChars(type) == type \in {"string", "bytes"}
IsDelimited(type) == IsChars(type) \/ type = "EtcdAddr"

\* The values of a type, and of a field.  A string is UTF-8: any other that a setter
\* is given is written, with no more than a line in the log, and refused by the
\* reader.
Signed(width) == -(width \div 2) .. (width \div 2) - 1

Element(type) ==
  CASE type = "bool" -> BOOLEAN
    [] type = "uint32" -> 0 .. Narrow - 1
    [] type = "int32" -> Signed(Narrow)
    [] type = "int64" -> Signed(Wide)
    [] type = "string" -> Utf8
    [] type = "bytes" -> Seq(Octet)
    [] type = "EtcdAddr" -> [ip : Utf8, port : Signed(Narrow)]

Value(f) == IF f.repeated THEN Seq(Element(f.type)) ELSE Element(f.type)

Default(f) ==
  IF f.repeated \/ IsDelimited(f.type) THEN <<>>
  ELSE IF f.type = "bool" THEN FALSE ELSE 0

FieldNames(table) == {table[i].name : i \in DOMAIN table}
FieldOf(table, name) == table[CHOOSE i \in DOMAIN table : table[i].name = name]

\* m is an object of the class.
IsMessage(table, m) ==
  /\ m = [name \in FieldNames(table) |-> m[name]]
  /\ \A i \in DOMAIN table : m[table[i].name] \in Value(table[i])

\* Clear(), and the state a constructor leaves the object in.
Clear(table) ==
  [name \in FieldNames(table) |-> Default(FieldOf(table, name))]

\* A mutant of MergeFrom: a repeated field is replaced.
MutMergeFrom(table, m, from) ==
  [name \in FieldNames(table) |->
     IF from[name] = Default(FieldOf(table, name)) THEN m[name] ELSE from[name]]

\* MergeFrom(): what is set in `from' wins, repeated fields are appended.
MergeFrom(table, m, from) ==
  [name \in FieldNames(table) |->
     LET f == FieldOf(table, name) IN
     IF f.repeated THEN m[name] \o from[name]
     ELSE IF from[name] = Default(f) THEN m[name] ELSE from[name]]

\* CopyFrom().
CopyFrom(table, from) == MergeFrom(table, Clear(table), from)

(***************************************************************************)
(* Writing                                                                 *)
(***************************************************************************)

\* Seven bits an octet, the low ones first; all but the last have the top bit set.
Varint[n \in Nat] ==
  IF n < 128 THEN <<n>> ELSE <<128 + (n % 128)>> \o Varint[n \div 128]

VarintSize[n \in Nat] == IF n < 128 THEN 1 ELSE 1 + VarintSize[n \div 128]

\* A mutant of Unsigned: every number is written with 32 bits.
MutUnsigned(type, v) ==
  CASE type = "bool" -> IF v THEN 1 ELSE 0
    [] OTHER -> v % Narrow

\* A negative number, of either width, is written as a wide one.
Unsigned(type, v) ==
  CASE type = "bool" -> IF v THEN 1 ELSE 0
    [] OTHER -> IF v < 0 THEN v + Wide ELSE v

Tag(f) ==
  8 * f.num + (IF f.repeated \/ IsDelimited(f.type) THEN 2 ELSE 0)

Delimited(octets) == Varint[Len(octets)] \o octets

\* One field that is not repeated: nothing at all when it has its default.
Singular(f, v) ==
  IF v = Default(f) THEN <<>>
  ELSE <<Tag(f)>> \o
         (IF IsChars(f.type) THEN Delimited(v) ELSE Varint[Unsigned(f.type, v)])

\* The numbers of a packed field, without its head.
Packed(f, v) ==
  FlattenSeq([i \in DOMAIN v |-> Varint[Unsigned(f.type, v[i])]])

\* Every element of a repeated message is written, an empty one too.
Addresses(f, v) ==
  FlattenSeq([i \in DOMAIN v |->
    <<Tag(f)>> \o Delimited(
       FlattenSeq([j \in DOMAIN EtcdAddr |->
                     Singular(EtcdAddr[j], v[i][EtcdAddr[j].name])]))])

WriteField(f, v) ==
  CASE f.type = "EtcdAddr" -> Addresses(f, v)
    [] f.repeated /\ f.type # "EtcdAddr" ->
         IF v = <<>> THEN <<>> ELSE <<Tag(f)>> \o Delimited(Packed(f, v))
    [] OTHER -> Singular(f, v)

\* SerializeWithCachedSizes(): the fields in the order of their numbers.
Serialize(table, m) ==
  FlattenSeq([i \in DOMAIN table |-> WriteField(table[i], m[table[i].name])])

(***************************************************************************)
(* ByteSize(), which the code computes apart from what it writes: the      *)
(* sender allocates and announces this many octets.                        *)
(***************************************************************************)

Total(sizes) ==
  LET sum[i \in 0 .. Len(sizes)] == IF i = 0 THEN 0 ELSE sum[i - 1] + sizes[i]
  IN  sum[Len(sizes)]

DelimitedSize(size) == VarintSize[size] + size

SingularSize(f, v) ==
  IF v = Default(f) THEN 0
  ELSE 1 + (CASE IsChars(f.type) -> DelimitedSize(Len(v))
              [] f.type = "bool" -> 1
              [] OTHER -> VarintSize[Unsigned(f.type, v)])

AddressSize(a) ==
  Total([j \in DOMAIN EtcdAddr |->
           SingularSize(EtcdAddr[j], a[EtcdAddr[j].name])])

FieldSize(f, v) ==
  CASE f.type = "EtcdAddr" ->
         Len(v) + Total([i \in DOMAIN v |-> DelimitedSize(AddressSize(v[i]))])
    [] f.repeated /\ f.type # "EtcdAddr" ->
         LET data == Total([i \in DOMAIN v |->
                              VarintSize[Unsigned(f.type, v[i])]])
         IN  data + (IF data > 0 THEN 1 + VarintSize[data] ELSE 0)
    [] OTHER -> SingularSize(f, v)

ByteSize(table, m) ==
  Total([i \in DOMAIN table |-> FieldSize(table[i], m[table[i].name])])
=============================================================================
