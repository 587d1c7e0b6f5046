----------------------------- MODULE ProtoObject -----------------------------
(***************************************************************************)
(* One object of a generated message class, driven through its methods in  *)
(* every order, beside a second object it is merged with and copied from.  *)
(* In each state it reaches, what it would put on the wire must read back  *)
(* as the same object, whoever writes it.                                  *)
(***************************************************************************)
EXTENDS ProtoReading

CONSTANTS
  Classes,       \* the names of the message classes exercised
  Samples,       \* Samples[type]: the values a field of that type is given
  Strays,        \* octets a string may be given that are not UTF-8
  MaxRepeated    \* bound: elements of a repeated field

ASSUME ClassesAssumption ==
  /\ Classes \subseteq DOMAIN Table
  /\ MaxRepeated \in Nat
  /\ Strays \subseteq Seq(Octet) \ Utf8

\* Among the values of a type is one that is not its default.
ASSUME SamplesAssumption ==
  \A c \in Classes : \A i \in DOMAIN Table[c] :
    LET f == Table[c][i] IN
    /\ Samples[f.type] \subseteq Element(f.type)
    /\ \E v \in Samples[f.type] : v # Default([f EXCEPT !.repeated = FALSE])

VARIABLES
  class,   \* the object's class, fixed
  msg,     \* the object
  other    \* the object it meets, fixed

objVars == <<class, msg, other>>

Fields == Table[class]
FieldSet == {Fields[i] : i \in DOMAIN Fields}

\* An object every field of which is set.
Sample(f) ==
  CHOOSE v \in Samples[f.type] : v # Default([f EXCEPT !.repeated = FALSE])

Filled(table) ==
  [name \in FieldNames(table) |->
     LET f == FieldOf(table, name)
     IN  IF f.repeated THEN <<Sample(f)>> ELSE Sample(f)]

ObjInit ==
  /\ class \in Classes
  /\ msg = Clear(Table[class])
  /\ other \in {Clear(Table[class]), Filled(Table[class])}

Becomes(m) == msg' = m /\ UNCHANGED <<class, other>>

\* set_<field>() and, with the default, clear_<field>().
SetField ==
  \E f \in FieldSet :
    /\ ~ f.repeated
    /\ \E v \in Samples[f.type] : Becomes([msg EXCEPT ![f.name] = v])

\* add_<field>().
AddElement ==
  \E f \in FieldSet :
    /\ f.repeated /\ Len(msg[f.name]) < MaxRepeated
    /\ \E v \in Samples[f.type] : Becomes([msg EXCEPT ![f.name] = Append(@, v)])

\* clear_<field>() of a repeated field.
ClearField ==
  \E f \in FieldSet : f.repeated /\ Becomes([msg EXCEPT ![f.name] = <<>>])

MergeOther ==
  /\ \A f \in FieldSet :
       f.repeated => Len(msg[f.name]) + Len(other[f.name]) <= MaxRepeated
  /\ Becomes(MergeFrom(Fields, msg, other))

CopyOther == Becomes(CopyFrom(Fields, other))

ClearObject == Becomes(Clear(Fields))

ObjNext ==
  \/ SetField
  \/ AddElement
  \/ ClearField
  \/ MergeOther
  \/ CopyOther
  \/ ClearObject

ObjSpec == ObjInit /\ [][ObjNext]_objVars

(***************************************************************************)
(* A peer with another implementation                                      *)
(***************************************************************************)

\* Fields, one of each wire type, that no table knows.
UnknownFields ==
  << <<120, 200, 1>>, <<122, 2, 16, 18>>, <<125, 1, 2, 3, 4>>,
     <<121, 1, 2, 3, 4, 5, 6, 7, 8>> >>

\* The same fields the way a peer is free to write them: defaults in full,
\* numbers of a repeated field one by one.
ForeignField(f, v) ==
  CASE IsDelimited(f.type) -> WriteField(f, v)
    [] f.repeated /\ ~ IsDelimited(f.type) ->
         FlattenSeq([i \in DOMAIN v |->
           <<8 * f.num>> \o Varint[Unsigned(f.type, v[i])]])
    [] OTHER -> <<Tag(f)>> \o Varint[Unsigned(f.type, v)]

\* ... the last field first, and fields of a later version in between.
Foreign(table, m) ==
  FlattenSeq([i \in DOMAIN table |->
    LET f == table[Len(table) + 1 - i]
    IN  (IF i \in DOMAIN UnknownFields THEN UnknownFields[i] ELSE <<>>)
          \o ForeignField(f, m[f.name])])

(***************************************************************************)
(* Properties                                                              *)
(***************************************************************************)

\* What an object whose strings are UTF-8 writes is as long as ByteSize() tells the
\* sender, who announces that length and sends no more, and reads back as the
\* object: negative numbers, values of full width, an empty element of a repeated
\* message, bytes that look like tags.
RoundTrip ==
  LET octets == Serialize(Fields, msg)
      read   == Parse(Fields, octets)
  IN  /\ Len(octets) = ByteSize(Fields, msg)
      /\ Fits(octets) => read.ok /\ read.value = msg

\* Two encodings one after the other read as the first object merged with the
\* second: setting a field to its default again is lost on the way, as it is
\* in MergeFrom, and repeated fields are appended.
ConcatenationMerges ==
  LET both == Serialize(Fields, msg) \o Serialize(Fields, other)
      read == Parse(Fields, both)
  IN  Fits(both) => read.ok /\ read.value = MergeFrom(Fields, msg, other)

\* A peer that writes the fields in another order, its repeated numbers one by
\* one, defaults in full and fields of its own in between is understood.
ForeignUnderstood ==
  LET octets == Foreign(Fields, msg)
      read   == Parse(Fields, octets)
  IN  Fits(octets) => read.ok /\ read.value = msg

\* A single string that is not UTF-8, of the object or of a message in it, makes the
\* reader refuse all of what the object wrote, although writing it succeeds
\* (ServerConfig.pb.cc:327 and 401).
StrayRefused ==
  \A f \in FieldSet, s \in Strays :
    LET Refused(v) ==
          ~ Parse(Fields, Serialize(Fields, [msg EXCEPT ![f.name] = v])).ok
    IN  /\ f.type = "string" => Refused(s)
        /\ f.type = "EtcdAddr" => Refused(Append(msg[f.name], [ip |-> s, port |-> 0]))

\* An encoding cut short is refused or is a message whose written fields are a
\* part of the object's: a cut never makes up a value of an optional field.
CutNeverInvents ==
  LET octets == Serialize(Fields, msg) IN
  \A n \in 0 .. Len(octets) :
    LET read == Parse(Fields, SubSeq(octets, 1, n)) IN
    Fits(octets) /\ read.ok =>
      \A f \in FieldSet :
        \/ read.value[f.name] \in {msg[f.name], Default(f)}
        \/ f.repeated /\ IsPrefix(read.value[f.name], msg[f.name])
=============================================================================
