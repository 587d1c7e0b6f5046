------------------------- MODULE ProtoObjectProofs --------------------------
(***************************************************************************)
(* That every class of messages reads back what it writes: field by field, *)
(* from the lemmas of ProtoProofs on one occurrence of a field, and then   *)
(* for the object of ProtoObject in every state it reaches.                *)
(***************************************************************************)
EXTENDS ProtoObject, ProtoProofs

(***************************************************************************)
(* What the loop makes of a field that is there in full                    *)
(***************************************************************************)

\* The field as MergeFrom leaves it.
Merged(f, old, v) ==
  IF f.repeated THEN old \o v ELSE IF v = Default(f) THEN old ELSE v

\* The class of addresses makes of its own octets what was written.
Understands(nested) ==
  \A a \in Element("EtcdAddr") :
    Len(Serialize(EtcdAddr, a)) < Wide =>
      \E end : nested[Serialize(EtcdAddr, a)] = Got(a, end)

\* A field of which nothing is written stays what it is.
LEMMA NothingThere ==
  ASSUME NEW table, NEW k \in DOMAIN table, NEW f, f = table[k],
         NEW x, HasFields(table, x), NEW octets, NEW turns, NEW at, Stands(octets, turns, x, at)
  PROVE  Stands(octets, turns, Put(x, f, x[f.name]), at + Len(<<>>))
<1>1. Put(x, f, x[f.name]) = x
  BY PutFacts
<1>2. at + Len(<<>>) = at
  BY DEF Stands, Place
<1> QED
  BY <1>1, <1>2

\* What is read with its length in front is no longer than all there is.
LEMMA ShorterThan ==
  ASSUME NEW octets \in Seq(Octet), NEW at \in Place, NEW tag \in Octet, NEW o \in Seq(Octet),
         Sits(octets, at, <<tag>> \o Delimited(o))
  PROVE  Len(o) <= Len(octets)
<1>1. PICK d : d = Delimited(o)
  OBVIOUS
<1>2. d \in Seq(Octet) /\ Len(d) = VarintSize[Len(o)] + Len(o) /\ VarintSize[Len(o)] \in Nat
  BY <1>1, DelimitedType, VarintSizeDef
<1>3. Sits(octets, at + 1, d)
  BY <1>1, <1>2, HeadThere
<1>4. at \in Nat /\ at >= 1 /\ Len(octets) \in Nat /\ Len(o) \in Nat
  BY DEF Place
<1>5. (at + 1) + Len(d) <= Len(octets) + 1
  BY <1>3 DEF Sits
<1> QED
  BY <1>2, <1>4, <1>5

\* An address that is there is appended.
LEMMA AddressAppends ==
  ASSUME NEW table, GoodTable(table), NEW k \in DOMAIN table, NEW f, f = table[k],
         f.type = "EtcdAddr",
         NEW octets \in Seq(Octet), Len(octets) < Wide, NEW nested, NEW turns,
         Reads(table, octets, nested, turns), Understands(nested),
         NEW v \in Seq(Element("EtcdAddr"))
  PROVE  Appends(octets, turns, f, v, Len(v), AddressPieces(f, v))
<1>0. GoodField(f)
  BY DEF GoodTable
<1>1. ASSUME NEW j \in 1 .. Len(v), NEW y, NEW p,
             Stands(octets, turns, y, p), Sits(octets, p, AddressPieces(f, v)[j])
      PROVE  Stands(octets, turns, Put(y, f, Append(y[f.name], v[j])),
                p + Len(AddressPieces(f, v)[j]))
  <2>1. PICK a, o, tag, piece :
          a = v[j] /\ o = Serialize(EtcdAddr, a) /\ tag = Tag(f) /\ piece = AddressPieces(f, v)[j]
    OBVIOUS
  <2>2. a \in Element("EtcdAddr") /\ o \in Seq(Octet) /\ piece = <<tag>> \o Delimited(o)
    BY <1>0, <2>1, AddressPiecesType
  <2>3. Sits(octets, p, <<tag>> \o Delimited(o))
    BY <1>1, <2>1, <2>2
  <2>4. tag \in Octet /\ p \in Place
    BY <1>0, <1>1, <2>1, TagSequence DEF Stands
  <2>5. Len(o) < Wide
    <3>1. Len(o) <= Len(octets) /\ Len(o) \in Nat /\ Len(octets) \in Nat
      BY <2>2, <2>3, <2>4, ShorterThan
    <3>2. Wide \in Nat
      BY Widths
    <3> QED
      BY <3>1, <3>2
  <2>6. PICK end : nested[o] = Got(a, end)
    BY <2>1, <2>2, <2>5 DEF Understands
  <2>7. Stands(octets, turns, Put(y, f, Append(y[f.name], a)), p + Len(<<Tag(f)>> \o Delimited(o)))
    BY <1>1, <2>1, <2>2, <2>3, <2>6, AddressThere
  <2> QED
    BY <2>1, <2>2, <2>7
<1> QED
  BY <1>1 DEF Appends

\* A field that is there in full is merged into the object, whatever its kind.
LEMMA FieldThere ==
  ASSUME NEW table, GoodTable(table), NEW k \in DOMAIN table, NEW f, f = table[k],
         NEW octets \in Seq(Octet), Len(octets) < Wide, NEW nested, NEW turns,
         Reads(table, octets, nested, turns), f.type = "EtcdAddr" => Understands(nested),
         NEW x, HasFields(table, x), x[f.name] \in Value(f),
         NEW at, Stands(octets, turns, x, at), NEW v \in Value(f),
         Sits(octets, at, WriteField(f, v))
  PROVE  Stands(octets, turns, Put(x, f, Merged(f, x[f.name], v)), at + Len(WriteField(f, v)))
<1>1. GoodField(f) /\ Kind(f) /\ at \in Place
  BY FieldKinds DEF GoodTable, Stands
<1>2. Stands(octets, turns, Put(x, f, x[f.name]), at + Len(<<>>))
  BY NothingThere
<1>3. CASE f.type = "EtcdAddr" /\ f.repeated
  <2>1. v \in Seq(Element("EtcdAddr")) /\ x[f.name] \in Seq(Element("EtcdAddr"))
    BY <1>3 DEF Value
  <2>2. PICK n, pieces, y : /\ n = Len(v) /\ pieces = AddressPieces(f, v)
                            /\ y = Put(x, f, x[f.name] \o v)
    OBVIOUS
  <2>3. n \in Nat /\ pieces \in [1 .. n -> Seq(Octet)]
    BY <1>1, <2>1, <2>2, AddressPiecesType
  <2>4. PICK g : Joins(g, n, pieces) /\ g[n] = FlattenSeq(pieces)
    BY <2>3, Flattening
  <2>5. WriteField(f, v) = g[n]
    BY <1>3, <2>2, <2>4, AddressesWritten
  <2>6. OneByOne(octets, at, n, pieces, g)
    BY <1>1, <2>3, <2>4, <2>5, SitsPieces
  <2>7. Appends(octets, turns, f, v, n, pieces)
    BY <1>3, <2>1, <2>2, AddressAppends
  <2>8. n \in 0 .. Len(v) /\ n \in 0 .. n
    BY <2>2, <2>3
  <2>9. Stands(octets, turns, Put(x, f, x[f.name] \o SubSeq(v, 1, n)), at + Len(g[n]))
    BY <2>1, <2>4, <2>6, <2>7, <2>8, ElementsThere
  <2>10. SubSeq(v, 1, n) = v
    BY <2>1, <2>2, PrefixFacts
  <2>11. Merged(f, x[f.name], v) = x[f.name] \o v
    BY <1>3, Zenon DEF Merged
  <2> QED
    BY <2>5, <2>9, <2>10, <2>11
<1>4. CASE f.type \in NumberTypes /\ f.repeated
  <2>1. v \in Seq(Element(f.type)) /\ x[f.name] \in Seq(Element(f.type))
    BY <1>4 DEF Value
  <2>2. Merged(f, x[f.name], v) = x[f.name] \o v
    BY <1>4, Zenon DEF Merged
  <2>3. CASE v = <<>>
    <3>1. WriteField(f, v) = <<>>
      BY <1>4, <2>3, PackedWritten
    <3>2. x[f.name] \o v = x[f.name]
      BY <2>1, <2>3
    <3> QED
      BY <1>2, <2>2, <3>1, <3>2
  <2>4. CASE v # <<>>
    <3>1. PICK o : o = Packed(f, v)
      OBVIOUS
    <3>2. WriteField(f, v) = <<Tag(f)>> \o Delimited(o)
      BY <1>4, <2>4, <3>1, PackedWritten
    <3>3. Stands(octets, turns, Put(x, f, x[f.name] \o v), at + Len(<<Tag(f)>> \o Delimited(o)))
      BY <1>4, <2>1, <3>1, <3>2, PackedThere
    <3> QED
      BY <2>2, <3>2, <3>3
  <2> QED
    BY <2>3, <2>4
<1>5. CASE f.type \in NumberTypes /\ ~ f.repeated
  <2>1. v \in Element(f.type)
    BY <1>5 DEF Value
  <2>2. CASE v = Default(f)
    <3>1. WriteField(f, v) = <<>> /\ Merged(f, x[f.name], v) = x[f.name]
      BY <1>5, <2>2, NumberWritten DEF Merged
    <3> QED
      BY <1>2, <3>1
  <2>3. CASE v # Default(f)
    <3>1. PICK rest : rest = Varint[Unsigned(f.type, v)]
      OBVIOUS
    <3>2. WriteField(f, v) = <<Tag(f)>> \o rest /\ Merged(f, x[f.name], v) = v
      BY <1>5, <2>3, <3>1, NumberWritten DEF Merged
    <3>3. PlainTag(f, Tag(f))
      BY <1>5 DEF PlainTag, TagsOf
    <3>4. Stored(x, f, v) = Put(x, f, v)
      BY <1>5 DEF Stored
    <3>5. Stands(octets, turns, Stored(x, f, v), at + Len(<<Tag(f)>> \o rest))
      BY <1>5, <2>1, <3>1, <3>2, <3>3, NumberThere
    <3> QED
      BY <3>2, <3>4, <3>5
  <2> QED
    BY <2>2, <2>3
<1>6. CASE f.type \in {"string", "bytes"} /\ ~ f.repeated
  <2>1. v \in Seq(Octet) /\ VerifyUtf8String(f.type, v)
    BY <1>6, CharsElement
  <2>2. CASE v = <<>>
    <3>1. WriteField(f, v) = <<>> /\ Default(f) = <<>>
      <4>1. /\ WriteField(f, v) = IF v = <<>> THEN <<>> ELSE <<Tag(f)>> \o Delimited(v)
            /\ Default(f) = <<>>
        BY <1>6, CharsWritten
      <4> QED
        BY <2>2, <4>1
    <3>2. Merged(f, x[f.name], v) = x[f.name]
      BY <1>6, <2>2, <3>1, Zenon DEF Merged
    <3> QED
      BY <1>2, <3>1, <3>2
  <2>3. CASE v # <<>>
    <3>1. WriteField(f, v) = <<Tag(f)>> \o Delimited(v) /\ Merged(f, x[f.name], v) = v
      <4>1. /\ WriteField(f, v) = IF v = <<>> THEN <<>> ELSE <<Tag(f)>> \o Delimited(v)
            /\ Default(f) = <<>>
        BY <1>6, CharsWritten
      <4>2. Merged(f, x[f.name], v) = v
        BY <1>6, <2>3, <4>1, Zenon DEF Merged
      <4> QED
        BY <2>3, <4>1, <4>2
    <3>2. Stands(octets, turns, Put(x, f, v), at + Len(<<Tag(f)>> \o Delimited(v)))
      BY <1>6, <2>1, <3>1, CharsThere
    <3> QED
      BY <3>1, <3>2
  <2> QED
    BY <2>2, <2>3
<1> QED
  BY <1>1, <1>3, <1>4, <1>5, <1>6 DEF Kind

(***************************************************************************)
(* ... and of an object, whatever the order of its fields                  *)
(***************************************************************************)

\* x with some fields of a merged into it.
Mixed(table, x, a, K) ==
  [name \in FieldNames(table) |->
     IF \E i \in K : table[i].name = name
     THEN Merged(FieldOf(table, name), x[name], a[name]) ELSE x[name]]

\* With no field merged the object is as it was, with all of them it is what
\* MergeFrom makes.
LEMMA MixedEnds ==
  ASSUME NEW table, GoodTable(table), NEW x, HasFields(table, x), NEW a
  PROVE  /\ Mixed(table, x, a, {}) = x
         /\ Mixed(table, x, a, DOMAIN table) = [name \in FieldNames(table) |->
              Merged(FieldOf(table, name), x[name], a[name])]
<1>1. PICK D : D = FieldNames(table)
  OBVIOUS
<1>2. Mixed(table, x, a, {}) = x
  <2>1. Mixed(table, x, a, {}) = [name \in D |-> x[name]]
    BY <1>1 DEF Mixed
  <2> QED
    BY <1>1, <2>1 DEF HasFields
<1>3. \A name \in D : \E i \in DOMAIN table : table[i].name = name
  BY <1>1 DEF FieldNames
<1>4. Mixed(table, x, a, DOMAIN table) = [name \in FieldNames(table) |->
        Merged(FieldOf(table, name), x[name], a[name])]
  BY <1>1, <1>3, Zenon DEF Mixed
<1> QED
  BY <1>2, <1>4

\* With some fields merged the object has its fields, ...
LEMMA MixedFields ==
  ASSUME NEW table, NEW x, NEW a, NEW K, NEW y, y = Mixed(table, x, a, K)
  PROVE  HasFields(table, y)
BY Zenon DEF Mixed, HasFields

\* ... those merged and those as they were.
LEMMA MixedField ==
  ASSUME NEW table, GoodTable(table), NEW x, NEW a,
         NEW K \in SUBSET DOMAIN table, NEW y, y = Mixed(table, x, a, K),
         NEW i \in DOMAIN table, NEW name, name = table[i].name
  PROVE  y[name] = IF i \in K THEN Merged(table[i], x[name], a[name]) ELSE x[name]
<1>1. name \in FieldNames(table)
  BY DEF FieldNames
<1>2. FieldOf(table, name) = table[i]
  BY FieldOfName
<1>3. (\E j \in K : table[j].name = name) <=> i \in K
  BY DEF GoodTable
<1>4. Mixed(table, x, a, K)[name] =
        IF \E j \in K : table[j].name = name
        THEN Merged(FieldOf(table, name), x[name], a[name]) ELSE x[name]
  BY <1>1, Zenon DEF Mixed
<1> QED
  BY <1>2, <1>3, <1>4, Zenon

\* One field more.
LEMMA MixedMore ==
  ASSUME NEW table, GoodTable(table), NEW x, HasFields(table, x), NEW a,
         NEW K \in SUBSET DOMAIN table, NEW k \in DOMAIN table, k \notin K,
         NEW f, f = table[k]
  PROVE  /\ Mixed(table, x, a, K)[f.name] = x[f.name]
         /\ Put(Mixed(table, x, a, K), f, Merged(f, x[f.name], a[f.name])) =
              Mixed(table, x, a, K \cup {k})
<1>1. PICK w, y, z : /\ w = Merged(f, x[f.name], a[f.name])
                     /\ y = Mixed(table, x, a, K) /\ z = Mixed(table, x, a, K \cup {k})
  OBVIOUS
<1>2. HasFields(table, y) /\ HasFields(table, z) /\ y[f.name] = x[f.name] /\ z[f.name] = w
  <2>1. HasFields(table, y) /\ HasFields(table, z)
    BY <1>1, MixedFields
  <2>2. y[f.name] = IF k \in K THEN w ELSE x[f.name]
    BY <1>1, MixedField
  <2>3. k \in K \cup {k} /\ K \cup {k} \in SUBSET DOMAIN table
    OBVIOUS
  <2>4. z[f.name] = IF k \in K \cup {k} THEN w ELSE x[f.name]
    BY <1>1, <2>3, MixedField
  <2> QED
    BY <2>1, <2>2, <2>3, <2>4
<1>3. /\ HasFields(table, Put(y, f, w)) /\ Put(y, f, w)[f.name] = w
      /\ \A name \in FieldNames(table) : name # f.name => Put(y, f, w)[name] = y[name]
  BY <1>2, PutFacts
<1>4. ASSUME NEW name \in FieldNames(table)
      PROVE  Put(y, f, w)[name] = z[name]
  <2>1. PICK i \in DOMAIN table : table[i].name = name
    BY DEF FieldNames
  <2>2. CASE i = k
    BY <1>2, <1>3, <2>1, <2>2
  <2>3. CASE i # k
    <3>1. name # f.name
      BY <2>1, <2>3 DEF GoodTable
    <3>2. K \cup {k} \in SUBSET DOMAIN table /\ (i \in K \cup {k} <=> i \in K)
      BY <2>3
    <3>3. y[name] = IF i \in K THEN Merged(table[i], x[name], a[name]) ELSE x[name]
      BY <1>1, <2>1, MixedField
    <3>4. z[name] = IF i \in K THEN Merged(table[i], x[name], a[name]) ELSE x[name]
      <4>1. z[name] = IF i \in K \cup {k} THEN Merged(table[i], x[name], a[name]) ELSE x[name]
        BY <1>1, <2>1, <3>2, MixedField
      <4> QED
        BY <3>2, <4>1
    <3> QED
      BY <1>3, <3>1, <3>3, <3>4
  <2> QED
    BY <2>2, <2>3
<1>5. Put(y, f, w) = z
  BY <1>2, <1>3, <1>4, Zenon DEF HasFields
<1> QED
  BY <1>1, <1>2, <1>5

\* When the loop takes piece j for field order[j], ...
Takes(table, octets, turns, x, a, n, order, pieces) ==
  \A j \in 1 .. n : \A y, p :
    LET f == table[order[j]] IN
    HasFields(table, y) /\ y[f.name] = x[f.name]
      /\ Stands(octets, turns, y, p) /\ Sits(octets, p, pieces[j]) =>
        Stands(octets, turns, Put(y, f, Merged(f, x[f.name], a[f.name])), p + Len(pieces[j]))

Order(table, n, order) ==
  /\ \A j \in 1 .. n : order[j] \in DOMAIN table
  /\ \A i, j \in 1 .. n : i # j => order[i] # order[j]

Former(order, j) == {order[i] : i \in 1 .. j}

\* ... it takes the fields of them all.
LEMMA FieldsThere ==
  ASSUME NEW table, GoodTable(table), NEW octets \in Seq(Octet), NEW turns,
         NEW x, HasFields(table, x), NEW a,
         NEW n \in Nat, NEW order, Order(table, n, order),
         NEW pieces, NEW g, Joins(g, n, pieces),
         NEW at, Stands(octets, turns, x, at), OneByOne(octets, at, n, pieces, g),
         Takes(table, octets, turns, x, a, n, order, pieces)
  PROVE  \A j \in 0 .. n :
           Stands(octets, turns, Mixed(table, x, a, Former(order, j)), at + Len(g[j]))
<1> DEFINE y(j) == Mixed(table, x, a, Former(order, j))
           T == {j \in Nat : j <= n => Stands(octets, turns, y(j), at + Len(g[j]))}
<1>1. 0 \in T
  <2>1. Former(order, 0) = {}
    BY DEF Former
  <2>2. y(0) = x
    <3>1. Mixed(table, x, a, {}) = x
      BY MixedEnds
    <3> QED
      BY <2>1, <3>1
  <2>3. at \in Nat /\ g[0] = <<>>
    BY DEF Stands, Place, Joins
  <2>4. at + Len(g[0]) = at
    BY <2>3
  <2> QED
    BY <2>2, <2>4
<1>2. ASSUME NEW i \in Nat, i \in T
      PROVE  i + 1 \in T
  <2> SUFFICES ASSUME i + 1 <= n
               PROVE  Stands(octets, turns, y(i + 1), at + Len(g[i + 1]))
    OBVIOUS
  <2>1. PICK j, p, K, k, f, z :
          /\ j = i + 1 /\ p = at + Len(g[i]) /\ K = Former(order, i) /\ k = order[j]
          /\ f = table[k] /\ z = Mixed(table, x, a, K)
    OBVIOUS
  <2>2. j \in 1 .. n /\ j - 1 = i
    BY <2>1
  <2>3. Stands(octets, turns, z, p)
    BY <1>2, <2>1
  <2>4. Sits(octets, p, pieces[j]) /\ at + Len(g[j]) = p + Len(pieces[j])
    BY <2>1, <2>2 DEF OneByOne
  <2>5. k \in DOMAIN table /\ k \notin K /\ K \in SUBSET DOMAIN table
    BY <2>1, <2>2 DEF Order, Former
  <2>6. Former(order, j) = K \cup {k}
    BY <2>1, <2>2 DEF Former
  <2>7. /\ HasFields(table, z) /\ z[f.name] = x[f.name]
        /\ Put(z, f, Merged(f, x[f.name], a[f.name])) = Mixed(table, x, a, K \cup {k})
    BY <2>1, <2>5, MixedMore, MixedFields
  <2>8. Stands(octets, turns, Put(z, f, Merged(f, x[f.name], a[f.name])), p + Len(pieces[j]))
    BY <2>1, <2>2, <2>3, <2>4, <2>7 DEF Takes
  <2> QED
    BY <2>1, <2>4, <2>6, <2>7, <2>8
<1>3. \A j \in Nat : j \in T
  <2> HIDE DEF T
  <2> QED
    BY <1>1, <1>2, StepInduction
<1>4. \A j \in 0 .. n : j \in Nat /\ j <= n
  OBVIOUS
<1> QED
  BY <1>3, <1>4

\* What Serialize writes is read as merged into what is there.
LEMMA InOrder ==
  ASSUME NEW table, GoodTable(table), NEW order, order = [i \in DOMAIN table |-> i]
  PROVE  /\ Len(table) \in Nat /\ Order(table, Len(table), order)
         /\ \A j \in 1 .. Len(table) : j \in DOMAIN table /\ order[j] = j
         /\ \A j \in 0 .. Len(table) : Former(order, j) = 1 .. j
         /\ DOMAIN table = 1 .. Len(table)
<1>1. PICK n \in Nat : n = Len(table) /\ DOMAIN table = 1 .. n
  BY DEF GoodTable
<1>2. \A j \in 1 .. n : j \in DOMAIN table /\ order[j] = j
  BY <1>1
<1>3. Order(table, n, order)
  BY <1>1, <1>2 DEF Order
<1>4. ASSUME NEW j \in 0 .. n
      PROVE  Former(order, j) = 1 .. j
  <2>1. \A i \in 1 .. j : i \in 1 .. n
    BY <1>1
  <2>2. \A i \in 1 .. j : order[i] = i
    BY <1>2, <2>1
  <2> QED
    BY <2>2 DEF Former
<1> QED
  BY <1>1, <1>2, <1>3, <1>4

\* Each field of the encoding is taken by the loop as FieldThere says.
LEMMA SerializeTakes ==
  ASSUME NEW table, GoodTable(table), NEW octets \in Seq(Octet), Len(octets) < Wide,
         NEW nested, NEW turns, Reads(table, octets, nested, turns),
         (\E i \in DOMAIN table : table[i].type = "EtcdAddr") => Understands(nested),
         NEW x, IsMessage(table, x), NEW a, IsMessage(table, a),
         NEW order, order = [i \in DOMAIN table |-> i]
  PROVE  Takes(table, octets, turns, x, a, Len(table), order, FieldPieces(table, a))
<1>1. ASSUME NEW j \in 1 .. Len(table), NEW y, NEW p, NEW f, f = table[order[j]],
             HasFields(table, y), y[f.name] = x[f.name],
             Stands(octets, turns, y, p), Sits(octets, p, FieldPieces(table, a)[j])
      PROVE  Stands(octets, turns, Put(y, f, Merged(f, x[f.name], a[f.name])),
                p + Len(FieldPieces(table, a)[j]))
  <2>1. j \in DOMAIN table /\ f = table[j]
    BY <1>1, InOrder
  <2>2. x[f.name] \in Value(f) /\ a[f.name] \in Value(f)
    BY <2>1 DEF IsMessage
  <2>3. PICK v, w, old : v = a[f.name] /\ w = FieldPieces(table, a)[j] /\ old = x[f.name]
    OBVIOUS
  <2>4. w = WriteField(f, v)
    BY <2>1, <2>3 DEF FieldPieces
  <2>5. f.type = "EtcdAddr" => Understands(nested)
    BY <2>1
  <2>6. y[f.name] \in Value(f) /\ v \in Value(f) /\ Sits(octets, p, WriteField(f, v))
    BY <1>1, <2>2, <2>3, <2>4
  <2>7. Stands(octets, turns, Put(y, f, Merged(f, y[f.name], v)), p + Len(WriteField(f, v)))
    BY <1>1, <2>1, <2>5, <2>6, FieldThere
  <2> QED
    BY <1>1, <2>3, <2>4, <2>7
<1> QED
  BY <1>1 DEF Takes

\* All fields merged is MergeFrom.
LEMMA MergedAll ==
  ASSUME NEW table, GoodTable(table), NEW x, HasFields(table, x), NEW a
  PROVE  Mixed(table, x, a, DOMAIN table) = MergeFrom(table, x, a)
<1>1. Mixed(table, x, a, DOMAIN table) = [name \in FieldNames(table) |->
        Merged(FieldOf(table, name), x[name], a[name])]
  BY MixedEnds
<1> QED
  BY <1>1, Zenon DEF MergeFrom, Merged

\* An encoding that is there in full is merged into the object read so far.
LEMMA SerializeThere ==
  ASSUME NEW table, GoodTable(table), NEW octets \in Seq(Octet), Len(octets) < Wide,
         NEW nested, NEW turns, Reads(table, octets, nested, turns),
         (\E i \in DOMAIN table : table[i].type = "EtcdAddr") => Understands(nested),
         NEW x, IsMessage(table, x), NEW a, IsMessage(table, a),
         NEW at, Stands(octets, turns, x, at), Sits(octets, at, Serialize(table, a))
  PROVE  Stands(octets, turns, MergeFrom(table, x, a), at + Len(Serialize(table, a)))
<1>1. PICK n, pieces, order :
        /\ n = Len(table) /\ pieces = FieldPieces(table, a) /\ order = [i \in DOMAIN table |-> i]
  OBVIOUS
<1>2. /\ n \in Nat /\ Order(table, n, order) /\ DOMAIN table = 1 .. n
      /\ \A j \in 0 .. n : Former(order, j) = 1 .. j
  BY <1>1, InOrder
<1>3. PICK g : Joins(g, n, pieces) /\ g[n] = Serialize(table, a)
  BY <1>1, SerializeJoins, WrittenType
<1>4. at \in Place /\ HasFields(table, x)
  BY DEF Stands, IsMessage, HasFields
<1>5. OneByOne(octets, at, n, pieces, g)
  BY <1>2, <1>3, <1>4, SitsPieces
<1>6. Takes(table, octets, turns, x, a, n, order, pieces)
  BY <1>1, SerializeTakes
<1>7. n \in 0 .. n
  BY <1>2
<1>8. Stands(octets, turns, Mixed(table, x, a, Former(order, n)), at + Len(g[n]))
  BY <1>2, <1>3, <1>4, <1>5, <1>6, <1>7, FieldsThere
<1>9. Former(order, n) = DOMAIN table
  BY <1>2, <1>7
<1>10. Mixed(table, x, a, Former(order, n)) = MergeFrom(table, x, a)
  BY <1>4, <1>9, MergedAll
<1> QED
  BY <1>3, <1>8, <1>10

\* Octets are where they are.
LEMMA SitsWhole ==
  ASSUME NEW octets \in Seq(Octet)
  PROVE  Sits(octets, 1, octets) /\ 1 \in Place
<1>1. Len(octets) \in Nat
  OBVIOUS
<1>2. \A i \in 1 .. Len(octets) : 1 + i - 1 = i
  OBVIOUS
<1> QED
  BY <1>1, <1>2 DEF Sits, Place

(***************************************************************************)
(* Objects                                                                 *)
(***************************************************************************)

\* A default is a value of the field, and merging into it gives what is merged.
LEMMA DefaultIsValue ==
  ASSUME NEW f, GoodField(f)
  PROVE  /\ Default(f) \in Value(f)
         /\ \A v \in Value(f) : Merged(f, Default(f), v) = v
<1>1. Kind(f) /\ f.repeated \in BOOLEAN
  BY FieldKinds
<1>2. CASE f.repeated
  <2>1. Default(f) = <<>>
    BY <1>2, Zenon DEF Default
  <2>2. PICK S : S = Element(f.type) /\ Value(f) = Seq(S)
    BY <1>2, Zenon DEF Value
  <2>3. <<>> \in Seq(S)
    OBVIOUS
  <2>4. ASSUME NEW v \in Seq(S)
        PROVE  Merged(f, Default(f), v) = v
    <3>1. Merged(f, Default(f), v) = <<>> \o v
      BY <1>2, <2>1, Zenon DEF Merged
    <3>2. <<>> \o v = v
      OBVIOUS
    <3> QED
      BY <3>1, <3>2
  <2> QED
    BY <2>1, <2>2, <2>3, <2>4
<1>3. CASE ~ f.repeated
  <2>1. \A v : Merged(f, Default(f), v) = v
    BY <1>3, Zenon DEF Merged
  <2>2. Value(f) = Element(f.type)
    BY <1>3, Zenon DEF Value
  <2>3. CASE f.type \in {"string", "bytes"}
    <3>1. Default(f) = <<>>
      <4>1. IsDelimited(f.type)
        BY <2>3 DEF IsDelimited, IsChars
      <4> QED
        BY <4>1, Zenon DEF Default
    <3>2. <<>> \in Value(f)
      BY <1>3, <2>3, CharsElement
    <3> QED
      BY <2>1, <3>1, <3>2
  <2>4. CASE f.type = "bool"
    <3>1. Default(f) = FALSE
      <4>1. ~ IsDelimited(f.type)
        BY <2>4 DEF IsDelimited, IsChars
      <4> QED
        BY <1>3, <2>4, <4>1, Zenon DEF Default
    <3>2. Value(f) = BOOLEAN
      BY <2>2, <2>4 DEF Element
    <3> QED
      BY <2>1, <3>1, <3>2
  <2>5. CASE f.type \in {"uint32", "int32", "int64"}
    <3>1. Default(f) = 0
      <4>1. ~ IsDelimited(f.type) /\ f.type # "bool"
        BY <2>5 DEF IsDelimited, IsChars
      <4> QED
        BY <1>3, <4>1, Zenon DEF Default
    <3>2. Narrow \in Nat /\ Wide \in Nat /\ 256 <= Narrow /\ Narrow <= Wide
      BY Widths
    <3>3. 0 \in 0 .. Narrow - 1 /\ 0 \in Signed(Narrow) /\ 0 \in Signed(Wide)
      BY <3>2 DEF Signed
    <3>4. Element(f.type) \in {0 .. Narrow - 1, Signed(Narrow), Signed(Wide)}
      <4>1. CASE f.type = "uint32"
        BY <4>1 DEF Element
      <4>2. CASE f.type = "int32"
        BY <4>2 DEF Element
      <4>3. CASE f.type = "int64"
        BY <4>3 DEF Element
      <4> QED
        BY <2>5, <4>1, <4>2, <4>3
    <3> QED
      BY <2>1, <2>2, <3>1, <3>3, <3>4
  <2> QED
    BY <1>1, <1>3, <2>3, <2>4, <2>5 DEF Kind, NumberTypes
<1> QED
  BY <1>1, <1>2, <1>3

\* A cleared object has the default in each field.
LEMMA ClearFacts ==
  ASSUME NEW table, GoodTable(table)
  PROVE  /\ IsMessage(table, Clear(table)) /\ HasFields(table, Clear(table))
         /\ \A i \in DOMAIN table : Clear(table)[table[i].name] = Default(table[i])
<1>1. ASSUME NEW i \in DOMAIN table
      PROVE  Clear(table)[table[i].name] = Default(table[i])
  <2>1. FieldOf(table, table[i].name) = table[i]
    BY FieldOfName
  <2>2. table[i].name \in FieldNames(table)
    BY DEF FieldNames
  <2>3. Clear(table)[table[i].name] = Default(FieldOf(table, table[i].name))
    BY <2>2, Zenon DEF Clear
  <2> QED
    BY <2>1, <2>3
<1>2. \A i \in DOMAIN table : Default(table[i]) \in Value(table[i])
  BY DefaultIsValue DEF GoodTable
<1>3. Clear(table) = [name \in FieldNames(table) |-> Clear(table)[name]]
  BY Zenon DEF Clear
<1>4. HasFields(table, Clear(table))
  BY <1>3, Zenon DEF HasFields
<1> QED
  BY <1>1, <1>2, <1>3, <1>4 DEF IsMessage

\* Merging into a cleared object copies.
LEMMA MergeIntoClear ==
  ASSUME NEW table, GoodTable(table), NEW a, IsMessage(table, a)
  PROVE  MergeFrom(table, Clear(table), a) = a
<1>1. PICK x, z : x = Clear(table) /\ z = MergeFrom(table, x, a)
  OBVIOUS
<1>2. HasFields(table, x)
  BY <1>1, ClearFacts
<1>3. z = Mixed(table, x, a, DOMAIN table)
  BY <1>1, <1>2, MergedAll
<1>4. HasFields(table, z)
  BY <1>3, MixedFields
<1>5. ASSUME NEW name \in FieldNames(table)
      PROVE  z[name] = a[name]
  <2>1. PICK i \in DOMAIN table : table[i].name = name
    BY DEF FieldNames
  <2>2. z[name] = IF i \in DOMAIN table THEN Merged(table[i], x[name], a[name]) ELSE x[name]
    BY <1>3, <2>1, MixedField
  <2>3. x[name] = Default(table[i])
    BY <1>1, <2>1, ClearFacts
  <2>4. GoodField(table[i]) /\ a[name] \in Value(table[i])
    BY <2>1 DEF GoodTable, IsMessage
  <2> QED
    BY <2>2, <2>3, <2>4, DefaultIsValue
<1>6. z = [name \in FieldNames(table) |-> z[name]] /\ a = [name \in FieldNames(table) |-> a[name]]
  BY <1>4, Zenon DEF HasFields, IsMessage
<1>7. z = a
  BY <1>5, <1>6, Zenon
<1> QED
  BY <1>1, <1>7

\* MergeFrom gives an object.
LEMMA MergeIsMessage ==
  ASSUME NEW table, GoodTable(table), NEW x, IsMessage(table, x), NEW a, IsMessage(table, a)
  PROVE  IsMessage(table, MergeFrom(table, x, a))
<1>1. PICK z : z = MergeFrom(table, x, a)
  OBVIOUS
<1>2. HasFields(table, x)
  BY DEF IsMessage, HasFields
<1>3. z = Mixed(table, x, a, DOMAIN table)
  BY <1>1, <1>2, MergedAll
<1>4. HasFields(table, z)
  BY <1>3, MixedFields
<1>5. ASSUME NEW i \in DOMAIN table, NEW f, f = table[i]
      PROVE  z[f.name] \in Value(f)
  <2>1. PICK old, v : old = x[f.name] /\ v = a[f.name]
    OBVIOUS
  <2>2. z[f.name] = IF i \in DOMAIN table THEN Merged(f, old, v) ELSE old
    BY <1>3, <1>5, <2>1, MixedField
  <2>3. old \in Value(f) /\ v \in Value(f)
    BY <1>5, <2>1 DEF IsMessage
  <2>4. Merged(f, old, v) \in Value(f)
    <3>1. CASE f.repeated
      <4>1. Merged(f, old, v) = old \o v
        BY <3>1, Zenon DEF Merged
      <4>2. PICK S : S = Element(f.type) /\ Value(f) = Seq(S)
        BY <3>1, Zenon DEF Value
      <4>3. old \o v \in Seq(S)
        BY <2>3, <4>2, ConcatProperties
      <4> QED
        BY <4>1, <4>2, <4>3
    <3>2. CASE ~ f.repeated
      BY <2>3, <3>2, Zenon DEF Merged
    <3> QED
      BY <3>1, <3>2
  <2> QED
    BY <2>2, <2>4
<1> QED
  BY <1>1, <1>4, <1>5 DEF IsMessage, HasFields

\* What is written of an object, alone, is read as merged into m.
LEMMA MergeWritten ==
  ASSUME NEW table, GoodTable(table), NEW nested,
         (\E i \in DOMAIN table : table[i].type = "EtcdAddr") => Understands(nested),
         NEW m, IsMessage(table, m), NEW a, IsMessage(table, a),
         NEW octets, octets = Serialize(table, a), Len(octets) < Wide
  PROVE  Merge(table, octets, m, nested) = Got(MergeFrom(table, m, a), Len(octets) + 1)
<1>1. octets \in Seq(Octet)
  BY SerializeType
<1>2. PICK turns : turns = Turns(table, octets, m, nested)
  OBVIOUS
<1>3. /\ Reads(table, octets, nested, turns) /\ turns[0] = Got(m, 1)
      /\ Merge(table, octets, m, nested) = turns[Len(octets)]
  BY <1>1, <1>2, TurnsDef
<1>4. Stands(octets, turns, m, 1)
  BY <1>1, <1>3, LoopStarts
<1>5. Sits(octets, 1, Serialize(table, a))
  BY <1>1, SitsWhole
<1>6. PICK z : z = MergeFrom(table, m, a)
  OBVIOUS
<1>7. Stands(octets, turns, z, 1 + Len(octets))
  BY <1>1, <1>3, <1>4, <1>5, <1>6, SerializeThere
<1>8. 1 + Len(octets) > Len(octets) /\ 1 + Len(octets) = Len(octets) + 1
  BY <1>1
<1>9. turns[Len(octets)] = Got(z, Len(octets) + 1)
  BY <1>1, <1>3, <1>7, <1>8, LoopEnds
<1> QED
  BY <1>3, <1>6, <1>9

\* The class of addresses reads back what it writes.
LEMMA NestedUnderstands ==
  Understands(Nested)
<1>1. ASSUME NEW a \in Element("EtcdAddr"), NEW o, o = Serialize(EtcdAddr, a), Len(o) < Wide
      PROVE  Nested[o] = Got(a, Len(o) + 1)
  <2>1. GoodTable(EtcdAddr) /\ IsMessage(EtcdAddr, a) /\ IsMessage(EtcdAddr, Clear(EtcdAddr))
    BY EtcdAddrGood, AddressIsMessage, ClearFacts
  <2>2. \A i \in DOMAIN EtcdAddr : EtcdAddr[i].type # "EtcdAddr"
    BY DEF EtcdAddr, Optional
  <2>3. PICK m : m = Clear(EtcdAddr)
    OBVIOUS
  <2>4. PICK nested : nested = <<>>
    OBVIOUS
  <2>5. Merge(EtcdAddr, o, m, nested) = Got(MergeFrom(EtcdAddr, m, a), Len(o) + 1)
    BY <1>1, <2>1, <2>2, <2>3, MergeWritten
  <2>6. MergeFrom(EtcdAddr, m, a) = a
    BY <2>1, <2>3, MergeIntoClear
  <2>7. o \in Seq(Octet)
    BY <1>1, AddressType
  <2>8. Nested[o] = Merge(EtcdAddr, o, m, nested)
    BY <2>3, <2>4, <2>7, Zenon DEF Nested
  <2> QED
    BY <2>5, <2>6, <2>8
<1> QED
  BY <1>1 DEF Understands

\* A size the code can hold in an int is below Wide.
LEMMA FitsWide ==
  ASSUME NEW octets \in Seq(Octet), Fits(octets)
  PROVE  Len(octets) < Wide
<1>1. Narrow \in Nat /\ Wide \in Nat /\ 256 <= Narrow /\ Narrow <= Wide
  BY Widths
<1>2. Narrow \div 2 \in Nat /\ Narrow \div 2 <= Narrow
  BY <1>1
<1>3. Len(octets) \in Nat /\ Len(octets) < Narrow \div 2
  BY DEF Fits
<1> QED
  BY <1>1, <1>2, <1>3

\* An object that is written is read back, ...
LEMMA ReadBack ==
  ASSUME NEW table, GoodTable(table), NEW a, IsMessage(table, a),
         NEW octets, octets = Serialize(table, a), Fits(octets)
  PROVE  Parse(table, octets) = Got(a, Len(octets) + 1)
<1>1. octets \in Seq(Octet) /\ IsMessage(table, Clear(table))
  BY SerializeType, ClearFacts
<1>2. Len(octets) < Wide
  BY <1>1, FitsWide
<1>3. PICK m, nested : m = Clear(table) /\ nested = Nested
  OBVIOUS
<1>4. Understands(nested) /\ IsMessage(table, m)
  BY <1>1, <1>3, NestedUnderstands
<1>5. Merge(table, octets, m, nested) = Got(MergeFrom(table, m, a), Len(octets) + 1)
  BY <1>2, <1>4, MergeWritten
<1>6. MergeFrom(table, m, a) = a
  BY <1>3, MergeIntoClear
<1> QED
  BY <1>3, <1>5, <1>6 DEF Parse

\* s and then t, and nothing else, are there.
Pair(octets, s, t) ==
  /\ octets \in Seq(Octet) /\ s \in Seq(Octet) /\ t \in Seq(Octet)
  /\ Len(octets) = Len(s) + Len(t)
  /\ Sits(octets, 1, s) /\ Sits(octets, 1 + Len(s), t)

\* Two encodings in a row sit one behind the other.
LEMMA ConcatPair ==
  ASSUME NEW s \in Seq(Octet), NEW t \in Seq(Octet)
  PROVE  Pair(s \o t, s, t)
<1>1. PICK octets : octets = s \o t
  OBVIOUS
<1>2. octets \in Seq(Octet) /\ Len(octets) = Len(s) + Len(t)
  BY <1>1, ConcatProperties
<1>3. Sits(octets, 1, s \o t) /\ 1 \in Place
  BY <1>1, <1>2, SitsWhole
<1>4. Sits(octets, 1, s) /\ Sits(octets, 1 + Len(s), t)
  BY <1>2, <1>3, SitsConcat
<1> QED
  BY <1>1, <1>2, <1>4 DEF Pair

\* ... one after another as the two merged.
LEMMA ReadBoth ==
  ASSUME NEW table, GoodTable(table), NEW a, IsMessage(table, a), NEW b, IsMessage(table, b),
         NEW octets, Pair(octets, Serialize(table, a), Serialize(table, b)), Fits(octets)
  PROVE  Parse(table, octets) = Got(MergeFrom(table, a, b), Len(octets) + 1)
<1>1. PICK s, t : s = Serialize(table, a) /\ t = Serialize(table, b)
  OBVIOUS
<1>2. s \in Seq(Octet) /\ t \in Seq(Octet)
  BY <1>1 DEF Pair
<1>3. octets \in Seq(Octet) /\ Len(octets) = Len(s) + Len(t)
  BY <1>1 DEF Pair
<1>4. Len(octets) < Wide
  BY <1>3, FitsWide
<1>5. PICK m, nested, turns :
        m = Clear(table) /\ nested = Nested /\ turns = Turns(table, octets, m, nested)
  OBVIOUS
<1>6. Understands(nested) /\ IsMessage(table, m)
  BY <1>5, NestedUnderstands, ClearFacts
<1>7. /\ Reads(table, octets, nested, turns) /\ turns[0] = Got(m, 1)
      /\ Merge(table, octets, m, nested) = turns[Len(octets)]
  BY <1>3, <1>5, TurnsDef
<1>8. Stands(octets, turns, m, 1)
  BY <1>3, <1>7, LoopStarts
<1>9. Sits(octets, 1, s) /\ Sits(octets, 1 + Len(s), t)
  BY <1>1 DEF Pair
<1>10. Stands(octets, turns, a, 1 + Len(s))
  <2>1. Stands(octets, turns, MergeFrom(table, m, a), 1 + Len(s))
    BY <1>1, <1>3, <1>4, <1>6, <1>7, <1>8, <1>9, SerializeThere
  <2>2. MergeFrom(table, m, a) = a
    BY <1>5, MergeIntoClear
  <2> QED
    BY <2>1, <2>2
<1>11. PICK z, at : z = MergeFrom(table, a, b) /\ at = 1 + Len(s)
  OBVIOUS
<1>12. Stands(octets, turns, z, at + Len(t))
  BY <1>1, <1>3, <1>4, <1>6, <1>7, <1>9, <1>10, <1>11, SerializeThere
<1>13. at + Len(t) = Len(octets) + 1 /\ Len(octets) + 1 > Len(octets)
  BY <1>2, <1>3, <1>11
<1>14. turns[Len(octets)] = Got(z, Len(octets) + 1)
  BY <1>3, <1>7, <1>12, <1>13, LoopEnds
<1> QED
  BY <1>5, <1>7, <1>11, <1>14 DEF Parse

(***************************************************************************)
(* A field that is cut                                                     *)
(***************************************************************************)

\* What is left of a field: nothing, or some elements of a repeated one.
Part(f, x, v, y) ==
  \/ y = x
  \/ f.repeated /\ \E j \in 0 .. Len(v) : y = Put(x, f, x[f.name] \o SubSeq(v, 1, j))

\* The loop fails, or comes to the end between two occurrences.
Cut(octets, turns, f, x, v) ==
  \/ turns[Len(octets)] = Failed
  \/ \E y : Part(f, x, v, y) /\ Stands(octets, turns, y, Len(octets) + 1)

\* Nothing cannot be torn.
LEMMA NothingTorn ==
  ASSUME NEW octets \in Seq(Octet), NEW at \in Place, at <= Len(octets)
  PROVE  ~ Torn(octets, at, <<>>)
BY DEF Torn, Place

\* The first of some joined pieces are joined.
LEMMA JoinsFewer ==
  ASSUME NEW n \in Nat, NEW pieces, NEW g, Joins(g, n, pieces), NEW i \in Nat, i <= n
  PROVE  Joins(g, i, pieces)
<1>1. \A k \in 0 .. i : k \in 0 .. n
  OBVIOUS
<1>2. \A k \in 1 .. i : k \in 1 .. n
  OBVIOUS
<1> QED
  BY <1>1, <1>2 DEF Joins

\* A tag and a length only add to the octets.
LEMMA LongerThan ==
  ASSUME NEW f, GoodField(f), NEW tag, tag = Tag(f), NEW o \in Seq(Octet)
  PROVE  Len(<<tag>> \o Delimited(o)) >= Len(o) /\ Len(o) \in Nat
<1>1. PICK d : d = Delimited(o)
  OBVIOUS
<1>2. d \in Seq(Octet) /\ Len(d) = VarintSize[Len(o)] + Len(o) /\ VarintSize[Len(o)] \in Nat
  BY <1>1, DelimitedType, VarintSizeDef
<1>3. <<tag>> \in Seq(Octet) /\ Len(<<tag>>) = 1
  BY TagSequence
<1>4. Len(<<tag>> \o d) = 1 + Len(d)
  BY <1>2, <1>3, ConcatProperties
<1> QED
  BY <1>1, <1>2, <1>4

\* When a field of addresses is cut off, the loop fails or ends with the
\* addresses before the cut.
LEMMA AddressesTorn ==
  ASSUME NEW table, GoodTable(table), NEW k \in DOMAIN table, NEW f, f = table[k],
         f.type = "EtcdAddr", f.repeated,
         NEW octets \in Seq(Octet), Len(octets) < Wide, NEW nested, NEW turns,
         Reads(table, octets, nested, turns), Understands(nested),
         NEW x, HasFields(table, x), x[f.name] \in Value(f),
         NEW at, Stands(octets, turns, x, at), at <= Len(octets),
         NEW v \in Value(f), Len(WriteField(f, v)) < Wide,
         Torn(octets, at, WriteField(f, v))
  PROVE  Cut(octets, turns, f, x, v)
<1>1. GoodField(f) /\ at \in Place
  BY DEF GoodTable, Stands
<1>2. v \in Seq(Element("EtcdAddr")) /\ x[f.name] \in Seq(Element("EtcdAddr"))
  BY DEF Value
<1>3. PICK n, pieces : n = Len(v) /\ pieces = AddressPieces(f, v)
  OBVIOUS
<1>4. n \in Nat /\ pieces \in [1 .. n -> Seq(Octet)]
  BY <1>1, <1>2, <1>3, AddressPiecesType
<1>5. PICK g : Joins(g, n, pieces) /\ g[n] = FlattenSeq(pieces)
  BY <1>4, Flattening
<1>6. WriteField(f, v) = g[n]
  BY <1>3, <1>5, AddressesWritten
<1>7. PICK j \in 1 .. n : /\ Sits(octets, at, g[j - 1])
                          /\ Torn(octets, at + Len(g[j - 1]), pieces[j])
  <2>1. at <= Len(octets) + 1
    BY <1>1 DEF Place
  <2> QED
    BY <1>1, <1>4, <1>5, <1>6, <2>1, TornPieces
<1>8. PICK i, p, y : i = j - 1 /\ p = at + Len(g[i]) /\ y = Put(x, f, x[f.name] \o SubSeq(v, 1, i))
  OBVIOUS
<1>9. Stands(octets, turns, y, p)
  <2>1. i \in Nat /\ i \in 0 .. Len(v) /\ i \in 0 .. i /\ \A l \in 1 .. i : l \in 1 .. n
    BY <1>3, <1>4, <1>8
  <2>2. Joins(g, i, pieces)
    <3>1. i <= n
      BY <1>4, <1>8
    <3> QED
      BY <1>4, <1>5, <2>1, <3>1, JoinsFewer
  <2>3. OneByOne(octets, at, i, pieces, g)
    BY <1>1, <1>7, <1>8, <2>1, <2>2, SitsPieces
  <2>4. Appends(octets, turns, f, v, n, pieces)
    BY <1>2, <1>3, AddressAppends
  <2>5. Appends(octets, turns, f, v, i, pieces)
    BY <2>1, <2>4 DEF Appends
  <2>6. Stands(octets, turns, Put(x, f, x[f.name] \o SubSeq(v, 1, i)), at + Len(g[i]))
    BY <1>2, <2>1, <2>2, <2>3, <2>5, ElementsThere
  <2> QED
    BY <1>8, <2>6
<1>10. Part(f, x, v, y)
  BY <1>3, <1>4, <1>8 DEF Part
<1>11. CASE p <= Len(octets)
  <2>1. PICK o, tag : o = Serialize(EtcdAddr, v[j]) /\ tag = Tag(f)
    OBVIOUS
  <2>2. o \in Seq(Octet) /\ pieces[j] = <<tag>> \o Delimited(o)
    BY <1>1, <1>2, <1>3, <2>1, AddressPiecesType
  <2>3. Len(o) < Wide
    <3>1. /\ Len(pieces[j]) \in Nat /\ Len(g[n]) \in Nat /\ Len(pieces[j]) <= Len(g[n])
      BY <1>4, <1>5, PieceFits
    <3>2. Len(pieces[j]) >= Len(o) /\ Len(o) \in Nat
      BY <1>1, <2>1, <2>2, LongerThan
    <3>3. Len(g[n]) < Wide
      BY <1>6
    <3>4. Wide \in Nat
      BY Widths
    <3> QED
      BY <3>1, <3>2, <3>3, <3>4
  <2>4. Torn(octets, p, <<Tag(f)>> \o Delimited(o))
    BY <1>7, <1>8, <2>1, <2>2
  <2>5. turns[Len(octets)] = Failed
    BY <1>9, <1>11, <2>2, <2>3, <2>4, AddressTorn
  <2> QED
    BY <2>5 DEF Cut
<1>12. CASE p > Len(octets)
  <2>1. p = Len(octets) + 1
    <3>1. p <= Len(octets) + 1 /\ p \in Nat
      BY <1>7, <1>8, <1>9 DEF Sits, Stands, Place
    <3> QED
      BY <1>12, <3>1
  <2> QED
    BY <1>9, <1>10, <2>1 DEF Cut
<1>13. p \in Nat /\ Len(octets) \in Nat
  BY <1>9 DEF Stands, Place
<1> QED
  BY <1>11, <1>12, <1>13

\* When any field is cut off, the loop fails or ends with a part of the field.
LEMMA FieldTorn ==
  ASSUME NEW table, GoodTable(table), NEW k \in DOMAIN table, NEW f, f = table[k],
         NEW octets \in Seq(Octet), Len(octets) < Wide, NEW nested, NEW turns,
         Reads(table, octets, nested, turns), f.type = "EtcdAddr" => Understands(nested),
         NEW x, HasFields(table, x), x[f.name] \in Value(f),
         NEW at, Stands(octets, turns, x, at), at <= Len(octets) + 1,
         NEW v \in Value(f), Len(WriteField(f, v)) < Wide,
         Torn(octets, at, WriteField(f, v))
  PROVE  Cut(octets, turns, f, x, v)
<1>1. GoodField(f) /\ Kind(f) /\ at \in Place /\ at \in Nat /\ Len(octets) \in Nat
  BY FieldKinds DEF GoodTable, Stands, Place
<1>2. CASE at = Len(octets) + 1
  BY <1>2 DEF Cut, Part
<1>3. CASE at <= Len(octets)
  <2>1. CASE f.type = "EtcdAddr" /\ f.repeated
    BY <1>3, <2>1, AddressesTorn
  <2>2. WriteField(f, v) # <<>>
    BY <1>1, <1>3, NothingTorn
  <2>3. Wide \in Nat
    BY Widths
  <2>4. CASE f.type \in NumberTypes /\ f.repeated
    <3>1. PICK o, tag : o = Packed(f, v) /\ tag = Tag(f)
      OBVIOUS
    <3>2. o \in Seq(Octet)
      <4>1. v \in Seq(Element(f.type))
        BY <2>4 DEF Value
      <4> QED
        BY <2>4, <3>1, <4>1, ReadPackedThere DEF Packed
    <3>3. WriteField(f, v) = <<tag>> \o Delimited(o)
      <4>1. WriteField(f, v) = IF v = <<>> THEN <<>> ELSE <<Tag(f)>> \o Delimited(Packed(f, v))
        BY <2>4, PackedWritten
      <4> QED
        BY <2>2, <3>1, <4>1, Zenon
    <3>4. Len(<<tag>> \o Delimited(o)) >= Len(o) /\ Len(o) \in Nat
      BY <1>1, <3>1, <3>2, LongerThan
    <3>5. Len(o) < Wide
      <4>1. Len(<<tag>> \o Delimited(o)) < Wide
        BY <3>3
      <4>2. PICK l : l = Len(<<tag>> \o Delimited(o))
        OBVIOUS
      <4>3. <<tag>> \o Delimited(o) \in Seq(Octet)
        BY <1>1, <3>3, FieldType
      <4>4. l \in Nat /\ l < Wide /\ l >= Len(o)
        BY <3>4, <4>1, <4>2, <4>3
      <4> QED
        BY <2>3, <3>4, <4>4
    <3>6. turns[Len(octets)] = Failed
      BY <1>3, <2>4, <3>1, <3>2, <3>3, <3>5, PackedTorn
    <3> QED
      BY <3>6 DEF Cut
  <2>5. CASE f.type \in NumberTypes /\ ~ f.repeated
    <3>1. PICK w : w = WriteField(f, v)
      OBVIOUS
    <3>2. v \in Element(f.type)
      BY <2>5 DEF Value
    <3>3. w = <<Tag(f)>> \o Varint[Unsigned(f.type, v)]
      <4>1. WriteField(f, v) = IF v = Default(f) THEN <<>>
                               ELSE <<Tag(f)>> \o Varint[Unsigned(f.type, v)]
        BY <2>5, NumberWritten
      <4> QED
        BY <2>2, <3>1, <4>1, Zenon
    <3>4. PICK tag : tag = Tag(f)
      OBVIOUS
    <3>5. PlainTag(f, tag) /\ OneNumber(f, v, tag, w)
      BY <2>5, <3>3, <3>4 DEF PlainTag, TagsOf, OneNumber
    <3>6. turns[Len(octets)] = Failed
      BY <1>1, <1>3, <2>5, <3>1, <3>2, <3>5, NumberTorn
    <3> QED
      BY <3>6 DEF Cut
  <2>6. CASE f.type \in {"string", "bytes"} /\ ~ f.repeated
    <3>1. PICK tag : tag = Tag(f)
      OBVIOUS
    <3>2. v \in Seq(Octet)
      BY <2>6, CharsElement
    <3>3. WriteField(f, v) = <<tag>> \o Delimited(v)
      <4>1. f.type \in {"string", "bytes"} /\ ~ f.repeated
        BY <2>6
      <4>2. WriteField(f, v) = IF v = <<>> THEN <<>> ELSE <<Tag(f)>> \o Delimited(v)
        BY <4>1, CharsWritten, SMTT(30)
      <4> QED
        BY <2>2, <3>1, <4>2, Zenon
    <3>4. Len(<<tag>> \o Delimited(v)) >= Len(v) /\ Len(v) \in Nat
      BY <1>1, <3>1, <3>2, LongerThan
    <3>5. Len(v) < Wide
      <4>1. Len(<<tag>> \o Delimited(v)) < Wide
        BY <3>3
      <4>2. PICK l : l = Len(<<tag>> \o Delimited(v))
        OBVIOUS
      <4>3. <<tag>> \o Delimited(v) \in Seq(Octet)
        BY <1>1, <3>3, FieldType
      <4>4. l \in Nat /\ l < Wide /\ l >= Len(v)
        BY <3>4, <4>1, <4>2, <4>3
      <4> QED
        BY <2>3, <3>4, <4>4
    <3>6. turns[Len(octets)] = Failed
      BY <1>3, <2>6, <3>1, <3>2, <3>3, <3>5, CharsTorn
    <3> QED
      BY <3>6 DEF Cut
  <2> QED
    BY <1>1, <2>1, <2>4, <2>5, <2>6 DEF Kind
<1> QED
  BY <1>1, <1>2, <1>3

(***************************************************************************)
(* An object that is cut                                                   *)
(***************************************************************************)

\* A field of what is read is the object's, the default, or some of its elements.
NotInvented(f, read, v) ==
  read \in {v, Default(f)} \/ (f.repeated /\ IsPrefix(read, v))

\* The first elements of a sequence are a prefix of it.
LEMMA SomeArePrefix ==
  ASSUME NEW S, NEW v \in Seq(S), NEW q \in 0 .. Len(v)
  PROVE  IsPrefix(SubSeq(v, 1, q), v) /\ SubSeq(v, 1, q) \in Seq(S)
<1>1. PICK s : s = SubSeq(v, 1, q)
  OBVIOUS
<1>2. s \in Seq(S) /\ Len(s) = q
  BY <1>1, PrefixFacts
<1>3. SubSeq(s, 1, Len(s)) = s
  BY <1>2, PrefixFacts
<1>4. Len(s) <= Len(v) /\ SubSeq(s, 1, Len(s)) = SubSeq(v, 1, Len(s))
  BY <1>1, <1>2, <1>3
<1>5. IsPrefix(s, v)
  BY <1>4 DEF IsPrefix
<1> QED
  BY <1>1, <1>2, <1>5

\* A proper front of an encoding tears it.
LEMMA CutIsTorn ==
  ASSUME NEW octets \in Seq(Octet), NEW n \in 0 .. Len(octets), n # Len(octets),
         NEW cut, cut = SubSeq(octets, 1, n)
  PROVE  cut \in Seq(Octet) /\ Len(cut) = n /\ Torn(cut, 1, octets)
<1>1. \A i \in 1 .. n : i \in 1 .. Len(octets) /\ octets[i] \in Octet
  <2> TAKE i \in 1 .. n
  <2>1. i \in 1 .. Len(octets)
    OBVIOUS
  <2> QED
    BY <2>1, ElementOfSeq
<1>2. /\ cut \in Seq(Octet) /\ Len(cut) = IF 1 <= n THEN n - 1 + 1 ELSE 0
      /\ \A i \in 1 .. n - 1 + 1 : cut[i] = octets[1 + i - 1]
  BY <1>1, SubSeqProperties
<1>3. Len(cut) = n /\ n < Len(octets) /\ Len(octets) \in Nat /\ n \in Nat
  BY <1>2
<1>4. \A i \in 1 .. Len(cut) + 1 - 1 : cut[1 + i - 1] = octets[i]
  <2> TAKE i \in 1 .. Len(cut) + 1 - 1
  <2>1. i \in 1 .. n - 1 + 1 /\ 1 + i - 1 = i
    BY <1>3
  <2> QED
    BY <1>2, <2>1
<1>5. Len(cut) + 1 < 1 + Len(octets)
  BY <1>3
<1> QED
  BY <1>2, <1>3, <1>4, <1>5 DEF Torn

\* What is read before the field in which the octets end.
LEMMA ReadUpTo ==
  ASSUME NEW table, GoodTable(table), NEW octets \in Seq(Octet), Len(octets) < Wide,
         NEW nested, NEW turns, Reads(table, octets, nested, turns),
         (\E i \in DOMAIN table : table[i].type = "EtcdAddr") => Understands(nested),
         NEW x, IsMessage(table, x), NEW a, IsMessage(table, a),
         NEW at, Stands(octets, turns, x, at), NEW g, Joins(g, Len(table), FieldPieces(table, a)),
         NEW i \in Nat, i <= Len(table), Sits(octets, at, g[i])
  PROVE  Stands(octets, turns, Mixed(table, x, a, 1 .. i), at + Len(g[i]))
<1>1. PICK n, pieces, order :
        /\ n = Len(table) /\ pieces = FieldPieces(table, a) /\ order = [l \in DOMAIN table |-> l]
  OBVIOUS
<1>2. n \in Nat /\ Order(table, n, order) /\ \A l \in 0 .. n : Former(order, l) = 1 .. l
  BY <1>1, InOrder
<1>3. at \in Place /\ HasFields(table, x)
  BY DEF Stands, IsMessage, HasFields
<1>4. Joins(g, i, pieces)
  BY <1>1, <1>2, JoinsFewer
<1>5. OneByOne(octets, at, i, pieces, g)
  BY <1>3, <1>4, SitsPieces
<1>6. Takes(table, octets, turns, x, a, n, order, pieces)
  BY <1>1, SerializeTakes
<1>7. \A l \in 1 .. i : l \in 1 .. n
  BY <1>1, <1>2
<1>8. Takes(table, octets, turns, x, a, i, order, pieces) /\ Order(table, i, order)
  <2>1. Takes(table, octets, turns, x, a, i, order, pieces)
    BY <1>6, <1>7, Zenon DEF Takes
  <2>2. Order(table, i, order)
    BY <1>2, <1>7 DEF Order
  <2> QED
    BY <2>1, <2>2
<1>9. i \in 0 .. i /\ i \in 0 .. n
  BY <1>1
<1>10. Stands(octets, turns, Mixed(table, x, a, Former(order, i)), at + Len(g[i]))
  BY <1>3, <1>4, <1>5, <1>8, <1>9, FieldsThere
<1> QED
  BY <1>2, <1>9, <1>10

\* A torn encoding that is read makes up no value.
LEMMA CutRead ==
  ASSUME NEW table, GoodTable(table), NEW a, IsMessage(table, a),
         NEW octets, octets = Serialize(table, a), Len(octets) < Wide,
         NEW cut \in Seq(Octet), Len(cut) < Wide, Torn(cut, 1, octets),
         NEW read, read = Parse(table, cut), read.ok
  PROVE  \A l \in DOMAIN table :
           NotInvented(table[l], read.value[table[l].name], a[table[l].name])
<1>1. PICK n, pieces, x, nested, turns :
        /\ n = Len(table) /\ pieces = FieldPieces(table, a) /\ x = Clear(table)
        /\ nested = Nested /\ turns = Turns(table, cut, x, nested)
  OBVIOUS
<1>2. n \in Nat /\ DOMAIN table = 1 .. n
  BY <1>1 DEF GoodTable
<1>3. IsMessage(table, x) /\ HasFields(table, x) /\ Understands(nested)
  BY <1>1, ClearFacts, NestedUnderstands
<1>4. /\ Reads(table, cut, nested, turns) /\ turns[0] = Got(x, 1)
      /\ read = turns[Len(cut)]
  BY <1>1, TurnsDef DEF Parse
<1>5. Stands(cut, turns, x, 1)
  BY <1>4, LoopStarts
<1>6. PICK g : Joins(g, n, pieces) /\ g[n] = octets
  BY <1>1, SerializeJoins, WrittenType
<1>7. PICK j \in 1 .. n : Sits(cut, 1, g[j - 1]) /\ Torn(cut, 1 + Len(g[j - 1]), pieces[j])
  <2>1. 1 \in Place /\ 1 <= Len(cut) + 1
    BY DEF Place
  <2> QED
    BY <1>2, <1>6, <2>1, TornPieces
<1>8. PICK i, p, y, f, v :
        /\ i = j - 1 /\ p = 1 + Len(g[i]) /\ y = Mixed(table, x, a, 1 .. i)
        /\ f = table[j] /\ v = a[f.name]
  OBVIOUS
<1>9. i \in Nat /\ i <= n /\ j \in DOMAIN table /\ 1 .. i \in SUBSET DOMAIN table /\ j \notin 1 .. i
  BY <1>2, <1>8
<1>10. Stands(cut, turns, y, p)
  BY <1>1, <1>3, <1>4, <1>5, <1>6, <1>7, <1>8, <1>9, ReadUpTo
<1>11. /\ HasFields(table, y)
       /\ \A l \in DOMAIN table : y[table[l].name] =
            IF l \in 1 .. i THEN a[table[l].name] ELSE Default(table[l])
  <2>1. HasFields(table, y)
    BY <1>8, MixedFields
  <2>2. ASSUME NEW l \in DOMAIN table
        PROVE  y[table[l].name] = IF l \in 1 .. i THEN a[table[l].name] ELSE Default(table[l])
    <3>1. PICK name : name = table[l].name
      OBVIOUS
    <3>2. y[name] = IF l \in 1 .. i THEN Merged(table[l], x[name], a[name]) ELSE x[name]
      BY <1>8, <1>9, <3>1, MixedField
    <3>3. x[name] = Default(table[l])
      BY <1>1, <3>1, ClearFacts
    <3>4. GoodField(table[l]) /\ a[name] \in Value(table[l])
      BY <3>1 DEF GoodTable, IsMessage
    <3>5. Merged(table[l], Default(table[l]), a[name]) = a[name]
      BY <3>4, DefaultIsValue
    <3> QED
      BY <3>1, <3>2, <3>3, <3>5
  <2> QED
    BY <2>1, <2>2
<1>12. y[f.name] = Default(f) /\ Default(f) \in Value(f) /\ v \in Value(f) /\ GoodField(f)
  <2>1. GoodField(f) /\ v \in Value(f)
    BY <1>8, <1>9 DEF GoodTable, IsMessage
  <2>2. Default(f) \in Value(f)
    BY <2>1, DefaultIsValue
  <2>3. y[f.name] = Default(f)
    BY <1>8, <1>9, <1>11
  <2> QED
    BY <2>1, <2>2, <2>3
<1>13. Cut(cut, turns, f, y, v)
  <2>1. pieces[j] = WriteField(f, v)
    BY <1>1, <1>8, <1>9 DEF FieldPieces
  <2>2. Len(WriteField(f, v)) < Wide
    <3>1. Len(pieces[j]) \in Nat /\ Len(g[n]) \in Nat /\ Len(pieces[j]) <= Len(g[n])
      BY <1>2, <1>6, PieceFits
    <3>2. Len(g[n]) < Wide /\ Wide \in Nat
      BY <1>6, Widths
    <3> QED
      BY <2>1, <3>1, <3>2
  <2>3. Torn(cut, p, WriteField(f, v))
    BY <1>7, <1>8, <2>1
  <2>4. p <= Len(cut) + 1
    BY <1>7, <1>8 DEF Sits
  <2>5. y[f.name] \in Value(f) /\ v \in Value(f)
    BY <1>12
  <2> QED
    BY <1>3, <1>4, <1>8, <1>9, <1>10, <1>11, <2>2, <2>3, <2>4, <2>5, FieldTorn
<1>14. CASE turns[Len(cut)] = Failed
  BY <1>4, <1>14 DEF Failed
<1>15. ASSUME NEW z, Part(f, y, v, z), Stands(cut, turns, z, Len(cut) + 1),
              NEW l \in DOMAIN table
       PROVE  NotInvented(table[l], read.value[table[l].name], a[table[l].name])
  <2>1. read.value = z
    <3>1. PICK end : end = Len(cut) + 1
      OBVIOUS
    <3>2. end > Len(cut) /\ Stands(cut, turns, z, end)
      BY <1>15, <3>1
    <3>3. turns[Len(cut)] = Got(z, end)
      BY <1>4, <3>2, LoopEnds
    <3> QED
      BY <1>4, <3>3 DEF Got
  <2>2. CASE z[table[l].name] = y[table[l].name]
    <3>1. y[table[l].name] = IF l \in 1 .. i THEN a[table[l].name] ELSE Default(table[l])
      BY <1>11
    <3>2. read.value[table[l].name] \in {a[table[l].name], Default(table[l])}
      BY <2>1, <2>2, <3>1, Zenon
    <3> QED
      BY <3>2, Zenon DEF NotInvented
  <2>3. CASE z[table[l].name] # y[table[l].name]
    <3>1. PICK q \in 0 .. Len(v) : f.repeated /\ z = Put(y, f, y[f.name] \o SubSeq(v, 1, q))
      BY <1>15, <2>3 DEF Part
    <3>2. l = j
      <4>1. CASE table[l].name = f.name
        BY <1>8, <1>9, <4>1 DEF GoodTable
      <4>2. CASE table[l].name # f.name
        <5>1. table[l].name \in FieldNames(table)
          BY DEF FieldNames
        <5>2. PICK w : w = y[f.name] \o SubSeq(v, 1, q)
          OBVIOUS
        <5>3. Put(y, f, w)[table[l].name] = y[table[l].name]
          BY <1>8, <1>9, <1>11, <4>2, <5>1, PutFacts
        <5> QED
          BY <2>3, <3>1, <5>2, <5>3
      <4> QED
        BY <4>1, <4>2
    <3>3. PICK S : S = Element(f.type) /\ Value(f) = Seq(S)
      BY <3>1, Zenon DEF Value
    <3>4. PICK s : s = SubSeq(v, 1, q)
      OBVIOUS
    <3>5. IsPrefix(s, v) /\ s \in Seq(S)
      BY <1>12, <3>3, <3>4, SomeArePrefix
    <3>6. y[f.name] = <<>>
      BY <1>12, <3>1, Zenon DEF Default
    <3>7. y[f.name] \o s = s
      BY <3>5, <3>6
    <3>8. Put(y, f, s)[f.name] = s
      BY <1>8, <1>9, <1>11, PutFacts
    <3>9. z[f.name] = s
      BY <3>1, <3>4, <3>7, <3>8
    <3> QED
      BY <1>8, <2>1, <3>1, <3>2, <3>5, <3>9 DEF NotInvented
  <2> QED
    BY <2>2, <2>3
<1> QED
  BY <1>13, <1>14, <1>15 DEF Cut

(***************************************************************************)
(* What another implementation writes                                      *)
(***************************************************************************)

\* A field of a later version is passed over, whatever its wire type.
LEMMA SkipForms ==
  ASSUME NEW octets, NEW at
  PROVE  /\ Skip(0, octets, at) = ReadVarint(octets, at)
         /\ Skip(1, octets, at) = IF at + 8 - 1 <= Len(octets) THEN Got(<<>>, at + 8) ELSE Failed
         /\ Skip(2, octets, at) = ReadDelimited(octets, at)
         /\ Skip(5, octets, at) = IF at + 4 - 1 <= Len(octets) THEN Got(<<>>, at + 4) ELSE Failed
<1>1. 0 # 1 /\ 0 # 2 /\ 0 # 5 /\ 1 # 2 /\ 1 # 5 /\ 2 # 5
  OBVIOUS
<1>2. Skip(0, octets, at) = ReadVarint(octets, at)
  BY <1>1, Zenon DEF Skip
<1>3. Skip(1, octets, at) = IF at + 8 - 1 <= Len(octets) THEN Got(<<>>, at + 8) ELSE Failed
  BY <1>1, Zenon DEF Skip
<1>4. Skip(2, octets, at) = ReadDelimited(octets, at)
  BY <1>1, Zenon DEF Skip
<1>5. Skip(5, octets, at) = IF at + 4 - 1 <= Len(octets) THEN Got(<<>>, at + 4) ELSE Failed
  BY <1>1, Zenon DEF Skip
<1> QED
  BY <1>2, <1>3, <1>4, <1>5

\* The tag and the rest of each.
UnknownTag == <<120, 122, 125, 121>>

UnknownRest == << <<200, 1>>, <<2, 16, 18>>, <<1, 2, 3, 4>>, <<1, 2, 3, 4, 5, 6, 7, 8>> >>

\* The fields no table knows are a tag and what is behind it.
LEMMA UnknownForm ==
  ASSUME NEW i \in 1 .. 4
  PROVE  /\ UnknownTag[i] \in {120, 121, 122, 125} /\ UnknownRest[i] \in Seq(Octet)
         /\ UnknownFields[i] = <<UnknownTag[i]>> \o UnknownRest[i]
<1>1. CASE i = 1
  BY <1>1 DEF UnknownTag, UnknownRest, UnknownFields, Octet
<1>2. CASE i = 2
  BY <1>2 DEF UnknownTag, UnknownRest, UnknownFields, Octet
<1>3. CASE i = 3
  BY <1>3 DEF UnknownTag, UnknownRest, UnknownFields, Octet
<1>4. CASE i = 4
  BY <1>4 DEF UnknownTag, UnknownRest, UnknownFields, Octet
<1> QED
  BY <1>1, <1>2, <1>3, <1>4

\* v is a in front of s, which shows in the elements of w.
InFrontOf(v, a, s) == v = <<a>> \o s

Starts(w, a, s) ==
  Len(w) = Len(s) + 1 /\ w[1] = a /\ \A i \in 1 .. Len(s) : w[i + 1] = s[i]

\* An octet and the rest make one sequence.
LEMMA FrontOf ==
  ASSUME NEW a \in Octet, NEW s \in Seq(Octet), NEW w \in Seq(Octet), Starts(w, a, s),
         NEW v, InFrontOf(v, a, s)
  PROVE  v = w
<1>1. PICK b : b = <<a>> /\ v = b \o s
  BY DEF InFrontOf
<1>0. Len(w) = Len(s) + 1 /\ w[1] = a /\ \A i \in 1 .. Len(s) : w[i + 1] = s[i]
  BY DEF Starts
<1>2. b \in Seq(Octet) /\ Len(b) = 1 /\ b[1] = a
  BY <1>1
<1>3. /\ v \in Seq(Octet) /\ Len(v) = 1 + Len(s)
      /\ \A i \in 1 .. 1 + Len(s) : v[i] = IF i <= 1 THEN b[i] ELSE s[i - 1]
  BY <1>1, <1>2, ConcatProperties
<1>4. ASSUME NEW i \in 1 .. Len(w)
      PROVE  v[i] = w[i]
  <2>1. Len(s) \in Nat /\ i \in 1 .. 1 + Len(s)
    BY <1>0
  <2>2. CASE i = 1
    BY <1>0, <1>2, <1>3, <2>1, <2>2
  <2>3. CASE i # 1
    <3>1. i - 1 \in 1 .. Len(s) /\ (i - 1) + 1 = i /\ ~ (i <= 1)
      BY <2>1, <2>3
    <3>2. v[i] = s[i - 1]
      BY <1>3, <2>1, <3>1
    <3>3. w[(i - 1) + 1] = s[i - 1]
      BY <1>0, <3>1
    <3> QED
      BY <3>1, <3>2, <3>3
  <2> QED
    BY <2>2, <2>3
<1>5. Len(v) = Len(w)
  BY <1>0, <1>3
<1> QED
  BY <1>3, <1>4, <1>5, SeqEqual

\* What is behind the tag of an unknown field is skipped in full, by its wire
\* type.
LEMMA UnknownPassed ==
  ASSUME NEW i \in 1 .. 4, NEW octets \in Seq(Octet), Len(octets) < Wide, NEW at \in Place,
         Sits(octets, at + 1, UnknownRest[i])
  PROVE  Passes(octets, at + 1, UnknownTag[i], (at + 1) + Len(UnknownRest[i]))
<1>1. at \in Nat /\ Len(octets) \in Nat /\ at + 1 \in Place
  BY DEF Place
<1>2. CASE i = 1
  <2>1. UnknownTag[i] = 120 /\ 120 % 8 = 0 /\ UnknownRest[i] = <<200, 1>>
    BY <1>2 DEF UnknownTag, UnknownRest
  <2>2. Varint[200] = <<200, 1>>
    <3>1. PICK n, m : n = 200 /\ m = 1
      OBVIOUS
    <3>2. n \in Nat /\ ~ (n < 128) /\ n \div 128 = m /\ 128 + (n % 128) = n /\ m \in 0 .. 127
      BY <3>1
    <3>3. Varint[m] = <<m>>
      BY <3>2, VarintShort
    <3>4. Varint[n] = <<128 + (n % 128)>> \o Varint[n \div 128]
      BY <3>2, VarintDef
    <3>5. Varint[n] = <<n>> \o <<m>>
      BY <3>2, <3>3, <3>4
    <3>6. <<n>> \o <<m>> = <<n, m>>
      <4>1. PICK s, w : s = <<m>> /\ w = <<n, m>>
        OBVIOUS
      <4>2. n \in Octet /\ m \in Octet
        BY <3>1 DEF Octet
      <4>3. /\ s \in Seq(Octet) /\ Len(s) = 1 /\ s[1] = m /\ w \in Seq(Octet) /\ Len(w) = 2
            /\ w[1] = n /\ w[2] = m
        BY <4>1, <4>2
      <4>4. Starts(w, n, s)
        BY <4>3 DEF Starts
      <4>5. <<n>> \o s = w
        <5>1. PICK v : InFrontOf(v, n, s)
          BY DEF InFrontOf
        <5>2. v = w
          BY <4>2, <4>3, <4>4, <5>1, FrontOf
        <5> QED
          BY <5>1, <5>2 DEF InFrontOf
      <4> QED
        BY <4>1, <4>5
    <3> QED
      BY <3>1, <3>5, <3>6
  <2>3. 200 < Wide
    BY Widths
  <2>4. Sits(octets, at + 1, Varint[200])
    BY <2>1, <2>2
  <2>5. ReadVarint(octets, at + 1) = Got(200, (at + 1) + Len(Varint[200]))
    <3>1. PICK n, place : n = 200 /\ place = at + 1
      OBVIOUS
    <3>2. n \in Nat /\ n < Wide /\ place \in Place /\ Sits(octets, place, Varint[n])
      BY <1>1, <2>3, <2>4, <3>1
    <3>3. ReadVarint(octets, place) = Got(n, place + Len(Varint[n]))
      BY <3>2, ReadVarintThere
    <3> QED
      BY <3>1, <3>3
  <2> QED
    BY <2>1, <2>2, <2>5, SkipForms DEF Passes
<1>3. CASE i = 2
  <2>1. UnknownTag[i] = 122 /\ 122 % 8 = 2 /\ UnknownRest[i] = <<2, 16, 18>>
    BY <1>3 DEF UnknownTag, UnknownRest
  <2>2. PICK s : s = <<16, 18>>
    OBVIOUS
  <2>3. s \in Seq(Octet) /\ Len(s) = 2
    BY <2>2 DEF Octet
  <2>4. Delimited(s) = <<2, 16, 18>>
    <3>1. PICK n : n = 2
      OBVIOUS
    <3>2. n \in 0 .. 127 /\ Len(s) = n
      BY <2>3, <3>1
    <3>3. Varint[n] = <<n>>
      BY <3>2, VarintShort
    <3>4. Delimited(s) = <<n>> \o s
      BY <3>2, <3>3 DEF Delimited
    <3>5. <<n>> \o s = <<n, 16, 18>>
      <4>1. PICK w : w = <<n, 16, 18>>
        OBVIOUS
      <4>2. n \in Octet
        BY <3>1 DEF Octet
      <4>3. /\ s[1] = 16 /\ s[2] = 18 /\ w \in Seq(Octet) /\ Len(w) = 3
            /\ w[1] = n /\ w[2] = 16 /\ w[3] = 18
        BY <2>2, <4>1, <4>2 DEF Octet
      <4>4. Starts(w, n, s)
        BY <2>3, <4>3 DEF Starts
      <4>5. <<n>> \o s = w
        <5>1. PICK v : InFrontOf(v, n, s)
          BY DEF InFrontOf
        <5>2. v = w
          BY <2>3, <4>2, <4>3, <4>4, <5>1, FrontOf
        <5> QED
          BY <5>1, <5>2 DEF InFrontOf
      <4> QED
        BY <4>1, <4>5
    <3> QED
      BY <2>2, <3>1, <3>4, <3>5
  <2>5. Sits(octets, at + 1, Delimited(s))
    BY <2>1, <2>4
  <2>6. ReadDelimited(octets, at + 1) = Got(s, (at + 1) + Len(Delimited(s)))
    BY <1>1, <2>3, <2>5, ReadDelimitedThere
  <2> QED
    BY <2>1, <2>4, <2>6, SkipForms DEF Passes
<1>4. CASE i = 3
  <2>1. UnknownTag[i] = 125 /\ 125 % 8 = 5 /\ UnknownRest[i] = <<1, 2, 3, 4>>
    BY <1>4 DEF UnknownTag, UnknownRest
  <2>2. (at + 1) + 4 <= Len(octets) + 1
    BY <2>1 DEF Sits
  <2>3. Skip(5, octets, at + 1) = Got(<<>>, (at + 1) + 4)
    BY <1>1, <2>2, SkipForms
  <2> QED
    BY <2>1, <2>3 DEF Passes
<1>5. CASE i = 4
  <2>1. UnknownTag[i] = 121 /\ 121 % 8 = 1 /\ UnknownRest[i] = <<1, 2, 3, 4, 5, 6, 7, 8>>
    BY <1>5 DEF UnknownTag, UnknownRest
  <2>2. (at + 1) + 8 <= Len(octets) + 1
    BY <2>1 DEF Sits
  <2>3. Skip(1, octets, at + 1) = Got(<<>>, (at + 1) + 8)
    BY <1>1, <2>2, SkipForms
  <2> QED
    BY <2>1, <2>3 DEF Passes
<1> QED
  BY <1>2, <1>3, <1>4, <1>5

\* An unknown field leaves the object as it is.
LEMMA UnknownThere ==
  ASSUME NEW table, GoodTable(table), NEW octets \in Seq(Octet), Len(octets) < Wide,
         NEW nested, NEW turns, Reads(table, octets, nested, turns),
         NEW x, NEW at, Stands(octets, turns, x, at),
         NEW i \in 1 .. 4, NEW u, u = UnknownFields[i], Sits(octets, at, u)
  PROVE  Stands(octets, turns, x, at + Len(u))
<1>1. PICK tag, rest : tag = UnknownTag[i] /\ rest = UnknownRest[i]
  OBVIOUS
<1>2. tag \in {120, 121, 122, 125} /\ rest \in Seq(Octet) /\ u = <<tag>> \o rest
  BY <1>1, UnknownForm
<1>3. at \in Place /\ tag \in Octet
  BY <1>2 DEF Stands, Octet
<1>4. Sits(octets, at, <<tag>> \o rest)
  BY <1>2
<1>5. Sits(octets, at + 1, rest)
  BY <1>2, <1>3, <1>4, HeadThere
<1>6. PICK next : next = (at + 1) + Len(rest)
  OBVIOUS
<1>7. /\ Sits(octets, at, <<tag>>) /\ at <= Len(octets)
      /\ at + Len(<<tag>> \o rest) = next /\ next \in Nat /\ at < next
  BY <1>2, <1>3, <1>4, <1>6, HeadThere
<1>8. Passes(octets, at + 1, tag, next)
  BY <1>1, <1>3, <1>5, <1>6, UnknownPassed
<1>9. ReadTagged(table, octets, Got(x, at), nested) = Got(x, next)
  BY <1>2, <1>3, <1>7, <1>8, TurnOfUnknown, SMTT(60)
<1>10. Stands(octets, turns, x, next)
  BY <1>7, <1>9, LoopGoesOn
<1> QED
  BY <1>2, <1>7, <1>10

\* The numbers of a repeated field, each with the field's tag.
Singles(f, v) == [i \in DOMAIN v |-> <<8 * f.num>> \o Varint[Unsigned(f.type, v[i])]]

\* The numbers of a repeated field, one by one, are a tag and a varint each.
LEMMA SinglesPieces ==
  ASSUME NEW f, GoodField(f), f.type \in NumberTypes, NEW v \in Seq(Element(f.type))
  PROVE  /\ Len(v) \in Nat /\ Singles(f, v) \in [1 .. Len(v) -> Seq(Octet)]
         /\ \A i \in 1 .. Len(v) :
              /\ v[i] \in Element(f.type)
              /\ Singles(f, v)[i] = <<8 * f.num>> \o Varint[Unsigned(f.type, v[i])]
<1>1. Len(v) \in Nat /\ DOMAIN v = 1 .. Len(v)
  OBVIOUS
<1>2. PICK tag : tag = 8 * f.num
  OBVIOUS
<1>3. <<tag>> \in Seq(Octet)
  <2>1. tag \in 8 .. 112
    BY <1>2, TagForms
  <2>2. tag \in Octet
    BY <2>1 DEF Octet
  <2> QED
    BY <2>2
<1>4. ASSUME NEW i \in 1 .. Len(v)
      PROVE  v[i] \in Element(f.type) /\ <<tag>> \o Varint[Unsigned(f.type, v[i])] \in Seq(Octet)
  <2>1. v[i] \in Element(f.type)
    BY ElementOfSeq
  <2>2. PICK d : d = Varint[Unsigned(f.type, v[i])]
    OBVIOUS
  <2>3. d \in Seq(Octet)
    BY <2>1, <2>2, NumberBack, VarintDef
  <2>4. <<tag>> \o d \in Seq(Octet)
    BY <1>3, <2>3, ConcatProperties
  <2> QED
    BY <2>1, <2>2, <2>4
<1>5. Singles(f, v) \in [1 .. Len(v) -> Seq(Octet)]
  BY <1>1, <1>2, <1>4, Zenon DEF Singles
<1>6. \A i \in 1 .. Len(v) :
        Singles(f, v)[i] = <<8 * f.num>> \o Varint[Unsigned(f.type, v[i])]
  BY <1>1, Zenon DEF Singles
<1> QED
  BY <1>1, <1>4, <1>5, <1>6

\* The ways a peer writes a field.
LEMMA ForeignForms ==
  ASSUME NEW f, NEW v
  PROVE  /\ f.type \in {"string", "bytes", "EtcdAddr"} => ForeignField(f, v) = WriteField(f, v)
         /\ f.type \in NumberTypes /\ f.repeated => ForeignField(f, v) = FlattenSeq(Singles(f, v))
         /\ f.type \in NumberTypes /\ ~ f.repeated =>
              ForeignField(f, v) = <<Tag(f)>> \o Varint[Unsigned(f.type, v)]
<1>1. ASSUME f.type \in {"string", "bytes", "EtcdAddr"}
      PROVE  ForeignField(f, v) = WriteField(f, v)
  <2>1. IsDelimited(f.type)
    BY <1>1 DEF IsDelimited, IsChars
  <2> QED
    BY <2>1, Zenon DEF ForeignField
<1>2. f.type \in NumberTypes => ~ IsDelimited(f.type)
  BY DEF IsDelimited, IsChars, NumberTypes
<1>3. ASSUME f.type \in NumberTypes, f.repeated
      PROVE  ForeignField(f, v) = FlattenSeq(Singles(f, v))
  BY <1>2, <1>3, Zenon DEF ForeignField, Singles
<1>4. ASSUME f.type \in NumberTypes, ~ f.repeated
      PROVE  ForeignField(f, v) = <<Tag(f)>> \o Varint[Unsigned(f.type, v)]
  BY <1>2, <1>4, Zenon DEF ForeignField
<1> QED
  BY <1>1, <1>3, <1>4

\* They are octets.
LEMMA ForeignType ==
  ASSUME NEW f, GoodField(f), NEW v \in Value(f)
  PROVE  ForeignField(f, v) \in Seq(Octet)
<1>1. Kind(f)
  BY FieldKinds
<1>2. CASE f.type \in {"string", "bytes", "EtcdAddr"}
  BY <1>2, ForeignForms, FieldType
<1>3. CASE f.type \in NumberTypes /\ f.repeated
  <2>1. v \in Seq(Element(f.type))
    BY <1>3 DEF Value
  <2>2. PICK n, pieces : n = Len(v) /\ pieces = Singles(f, v)
    OBVIOUS
  <2>3. n \in Nat /\ pieces \in [1 .. n -> Seq(Octet)]
    BY <1>3, <2>1, <2>2, SinglesPieces
  <2>4. PICK g : Joins(g, n, pieces) /\ g[n] = FlattenSeq(pieces)
    BY <2>3, Flattening
  <2>5. g[n] \in Seq(Octet)
    BY <2>3, <2>4 DEF Joins
  <2> QED
    BY <1>3, <2>2, <2>4, <2>5, ForeignForms
<1>4. CASE f.type \in NumberTypes /\ ~ f.repeated
  <2>1. v \in Element(f.type)
    BY <1>4 DEF Value
  <2>2. PICK tag, d : tag = Tag(f) /\ d = Varint[Unsigned(f.type, v)]
    OBVIOUS
  <2>3. d \in Seq(Octet)
    BY <1>4, <2>1, <2>2, NumberBack, VarintDef
  <2>4. <<tag>> \in Seq(Octet)
    BY <2>2, TagSequence
  <2>5. <<tag>> \o d \in Seq(Octet)
    BY <2>3, <2>4, ConcatProperties
  <2> QED
    BY <1>4, <2>2, <2>5, ForeignForms
<1> QED
  BY <1>1, <1>2, <1>3, <1>4 DEF Kind

\* A number of a repeated field that comes alone is appended.
LEMMA SinglesAppend ==
  ASSUME NEW table, GoodTable(table), NEW k \in DOMAIN table, NEW f, f = table[k],
         f.type \in NumberTypes, f.repeated,
         NEW octets \in Seq(Octet), NEW nested, NEW turns,
         Reads(table, octets, nested, turns), NEW v \in Seq(Element(f.type))
  PROVE  Appends(octets, turns, f, v, Len(v), Singles(f, v))
<1>0. GoodField(f)
  BY DEF GoodTable
<1>1. ASSUME NEW j \in 1 .. Len(v), NEW y, NEW p,
             Stands(octets, turns, y, p), Sits(octets, p, Singles(f, v)[j])
      PROVE  Stands(octets, turns, Put(y, f, Append(y[f.name], v[j])), p + Len(Singles(f, v)[j]))
  <2>1. PICK a, tag, rest : a = v[j] /\ tag = 8 * f.num /\ rest = Varint[Unsigned(f.type, a)]
    OBVIOUS
  <2>2. a \in Element(f.type) /\ Singles(f, v)[j] = <<tag>> \o rest
    BY <1>0, <2>1, SinglesPieces
  <2>3. PlainTag(f, tag)
    <3>1. f.type # "EtcdAddr"
      BY DEF NumberTypes
    <3> QED
      BY <2>1, <3>1 DEF PlainTag, TagsOf
  <2>4. Sits(octets, p, <<tag>> \o rest)
    BY <1>1, <2>2
  <2>5. Stands(octets, turns, Stored(y, f, a), p + Len(<<tag>> \o rest))
    BY <1>1, <2>1, <2>2, <2>3, <2>4, NumberThere
  <2>6. Stored(y, f, a) = Put(y, f, Append(y[f.name], v[j]))
    BY <2>1 DEF Stored
  <2> QED
    BY <2>2, <2>5, <2>6
<1> QED
  BY <1>1 DEF Appends

\* The loop takes such a field for what the object's is.
LEMMA ForeignThere ==
  ASSUME NEW table, GoodTable(table), NEW k \in DOMAIN table, NEW f, f = table[k],
         NEW octets \in Seq(Octet), Len(octets) < Wide, NEW nested, NEW turns,
         Reads(table, octets, nested, turns), f.type = "EtcdAddr" => Understands(nested),
         NEW x, HasFields(table, x), x[f.name] = Default(f),
         NEW at, Stands(octets, turns, x, at), NEW v \in Value(f),
         Sits(octets, at, ForeignField(f, v))
  PROVE  Stands(octets, turns, Put(x, f, Merged(f, x[f.name], v)), at + Len(ForeignField(f, v)))
<1>1. GoodField(f) /\ Kind(f) /\ at \in Place
  BY FieldKinds DEF GoodTable, Stands
<1>2. Default(f) \in Value(f) /\ Merged(f, x[f.name], v) = v
  BY <1>1, DefaultIsValue
<1>3. CASE f.type \in {"string", "bytes", "EtcdAddr"}
  <2>1. ForeignField(f, v) = WriteField(f, v) /\ x[f.name] \in Value(f)
    BY <1>2, <1>3, ForeignForms
  <2>2. Sits(octets, at, WriteField(f, v))
    BY <2>1
  <2>3. Stands(octets, turns, Put(x, f, Merged(f, x[f.name], v)), at + Len(WriteField(f, v)))
    BY <2>1, <2>2, FieldThere
  <2> QED
    BY <2>1, <2>3
<1>4. CASE f.type \in NumberTypes /\ f.repeated
  <2>1. PICK S : S = Element(f.type) /\ Value(f) = Seq(S)
    BY <1>4, Zenon DEF Value
  <2>2. v \in Seq(S) /\ x[f.name] = <<>> /\ x[f.name] \in Seq(S)
    <3>1. x[f.name] = <<>>
      BY <1>4, Zenon DEF Default
    <3> QED
      BY <1>2, <2>1, <3>1
  <2>3. PICK n, pieces : n = Len(v) /\ pieces = Singles(f, v)
    OBVIOUS
  <2>4. n \in Nat /\ pieces \in [1 .. n -> Seq(Octet)]
    BY <1>1, <1>4, <2>1, <2>2, <2>3, SinglesPieces
  <2>5. PICK g : Joins(g, n, pieces) /\ g[n] = FlattenSeq(pieces)
    BY <2>4, Flattening
  <2>6. ForeignField(f, v) = g[n]
    BY <1>4, <2>3, <2>5, ForeignForms
  <2>7. OneByOne(octets, at, n, pieces, g)
    BY <1>1, <2>4, <2>5, <2>6, SitsPieces
  <2>8. Appends(octets, turns, f, v, n, pieces)
    BY <1>4, <2>1, <2>2, <2>3, SinglesAppend
  <2>9. n \in 0 .. Len(v) /\ n \in 0 .. n
    BY <2>3, <2>4
  <2>10. Stands(octets, turns, Put(x, f, x[f.name] \o SubSeq(v, 1, n)), at + Len(g[n]))
    BY <2>2, <2>5, <2>7, <2>8, <2>9, ElementsThere
  <2>11. x[f.name] \o SubSeq(v, 1, n) = v
    <3>1. SubSeq(v, 1, n) = v
      BY <2>2, <2>3, PrefixFacts
    <3> QED
      BY <2>2, <3>1
  <2> QED
    BY <1>2, <2>6, <2>10, <2>11
<1>5. CASE f.type \in NumberTypes /\ ~ f.repeated
  <2>1. v \in Element(f.type)
    BY <1>5 DEF Value
  <2>2. PICK rest, tag : rest = Varint[Unsigned(f.type, v)] /\ tag = Tag(f)
    OBVIOUS
  <2>3. ForeignField(f, v) = <<tag>> \o rest
    BY <1>5, <2>2, ForeignForms
  <2>4. PlainTag(f, tag)
    BY <1>5, <2>2 DEF PlainTag, TagsOf
  <2>5. Stored(x, f, v) = Put(x, f, v)
    BY <1>5 DEF Stored
  <2>6. Sits(octets, at, <<tag>> \o rest)
    BY <2>3
  <2>7. Stands(octets, turns, Stored(x, f, v), at + Len(<<tag>> \o rest))
    BY <1>5, <2>1, <2>2, <2>4, <2>6, NumberThere
  <2> QED
    BY <1>2, <2>3, <2>5, <2>7
<1> QED
  BY <1>1, <1>3, <1>4, <1>5 DEF Kind

\* What comes in front of the field that is the i-th from the end.
Between(i) == IF i \in 1 .. 4 THEN UnknownFields[i] ELSE <<>>

ForeignPiece(table, m, i) ==
  Between(i) \o ForeignField(table[Len(table) + 1 - i], m[table[Len(table) + 1 - i].name])

\* What the peer writes is the joined fields and unknown fields.
LEMMA ForeignJoins ==
  ASSUME NEW table, NEW m
  PROVE  Foreign(table, m) = FlattenSeq([i \in DOMAIN table |-> ForeignPiece(table, m, i)])
<1>1. DOMAIN UnknownFields = 1 .. 4
  BY DEF UnknownFields
<1>2. [i \in DOMAIN table |-> ForeignPiece(table, m, i)] =
      [i \in DOMAIN table |->
        LET f == table[Len(table) + 1 - i]
        IN  (IF i \in DOMAIN UnknownFields THEN UnknownFields[i] ELSE <<>>)
              \o ForeignField(f, m[f.name])]
  BY <1>1, Zenon DEF ForeignPiece, Between
<1> QED
  BY <1>2, Zenon DEF Foreign

\* What is between two fields is octets.
LEMMA BetweenType ==
  ASSUME NEW i
  PROVE  Between(i) \in Seq(Octet)
<1>1. CASE i \in 1 .. 4
  <2>1. PICK tag, rest : tag = UnknownTag[i] /\ rest = UnknownRest[i]
    OBVIOUS
  <2>2. tag \in {120, 121, 122, 125} /\ rest \in Seq(Octet)
        /\ UnknownFields[i] = <<tag>> \o rest
    BY <1>1, <2>1, UnknownForm
  <2>3. <<tag>> \in Seq(Octet)
    <3>1. tag \in Octet
      BY <2>2 DEF Octet
    <3> QED
      BY <3>1
  <2>4. <<tag>> \o rest \in Seq(Octet)
    BY <2>2, <2>3, ConcatProperties
  <2> QED
    BY <1>1, <2>2, <2>4 DEF Between
<1>2. CASE i \notin 1 .. 4
  <2>1. <<>> \in Seq(Octet)
    OBVIOUS
  <2> QED
    BY <1>2, <2>1, Zenon DEF Between
<1> QED
  BY <1>1, <1>2

\* What is between two fields leaves the object as it is.
LEMMA BetweenThere ==
  ASSUME NEW table, GoodTable(table), NEW octets \in Seq(Octet), Len(octets) < Wide,
         NEW nested, NEW turns, Reads(table, octets, nested, turns),
         NEW x, NEW at, Stands(octets, turns, x, at), NEW i,
         NEW u, u = Between(i), Sits(octets, at, u)
  PROVE  Stands(octets, turns, x, at + Len(u))
<1>1. CASE i \in 1 .. 4
  <2>1. u = UnknownFields[i]
    BY <1>1 DEF Between
  <2> QED
    BY <1>1, <2>1, UnknownThere
<1>2. CASE i \notin 1 .. 4
  <2>1. u = <<>>
    BY <1>2, Zenon DEF Between
  <2>2. at + Len(u) = at
    BY <2>1 DEF Stands, Place
  <2> QED
    BY <2>2
<1> QED
  BY <1>1, <1>2

\* The fields from the last to the first.
LEMMA InReverse ==
  ASSUME NEW table, GoodTable(table),
         NEW order, order = [i \in DOMAIN table |-> Len(table) + 1 - i]
  PROVE  /\ Len(table) \in Nat /\ Order(table, Len(table), order)
         /\ DOMAIN table = 1 .. Len(table)
         /\ \A j \in 1 .. Len(table) : order[j] = Len(table) + 1 - j /\ order[j] \in DOMAIN table
         /\ Former(order, Len(table)) = DOMAIN table
<1>1. PICK n \in Nat : n = Len(table) /\ DOMAIN table = 1 .. n
  BY DEF GoodTable
<1>2. \A j \in 1 .. n : order[j] = n + 1 - j /\ order[j] \in 1 .. n
  BY <1>1
<1>3. Order(table, n, order)
  <2>1. \A i, j \in 1 .. n : i # j => order[i] # order[j]
    BY <1>2
  <2> QED
    BY <1>1, <1>2, <2>1 DEF Order
<1>4. ASSUME NEW k \in 1 .. n
      PROVE  k \in Former(order, n)
  <2>1. n + 1 - k \in 1 .. n /\ n + 1 - (n + 1 - k) = k
    OBVIOUS
  <2>2. order[n + 1 - k] = k
    BY <1>2, <2>1
  <2> QED
    BY <2>1, <2>2 DEF Former
<1>5. Former(order, n) = 1 .. n
  BY <1>2, <1>4 DEF Former
<1> QED
  BY <1>1, <1>2, <1>3, <1>5

\* Each field of the peer's encoding is taken by the loop as it would be of an
\* own one.
LEMMA ForeignTakes ==
  ASSUME NEW table, GoodTable(table), NEW octets \in Seq(Octet), Len(octets) < Wide,
         NEW nested, NEW turns, Reads(table, octets, nested, turns), Understands(nested),
         NEW a, IsMessage(table, a), NEW x, x = Clear(table),
         NEW order, order = [i \in DOMAIN table |-> Len(table) + 1 - i],
         NEW pieces, pieces = [i \in DOMAIN table |-> ForeignPiece(table, a, i)]
  PROVE  Takes(table, octets, turns, x, a, Len(table), order, pieces)
<1>1. ASSUME NEW j \in 1 .. Len(table), NEW y, NEW p, NEW f, f = table[order[j]],
             HasFields(table, y), y[f.name] = x[f.name],
             Stands(octets, turns, y, p), Sits(octets, p, pieces[j])
      PROVE  Stands(octets, turns, Put(y, f, Merged(f, x[f.name], a[f.name])), p + Len(pieces[j]))
  <2>1. PICK k : k = order[j]
    OBVIOUS
  <2>2. k = Len(table) + 1 - j /\ k \in DOMAIN table /\ f = table[k] /\ j \in DOMAIN table
    BY <1>1, <2>1, InReverse
  <2>3. GoodField(f) /\ a[f.name] \in Value(f) /\ x[f.name] = Default(f)
    BY <2>2, ClearFacts DEF IsMessage, GoodTable
  <2>4. PICK v, u, w : v = a[f.name] /\ u = Between(j) /\ w = ForeignField(f, v)
    OBVIOUS
  <2>5. pieces[j] = u \o w
    BY <2>2, <2>4 DEF ForeignPiece
  <2>6. u \in Seq(Octet) /\ w \in Seq(Octet)
    BY <2>3, <2>4, BetweenType, ForeignType
  <2>7. p \in Place
    BY <1>1 DEF Stands
  <2>8. Sits(octets, p, u) /\ Sits(octets, p + Len(u), w)
    <3>1. Sits(octets, p, u \o w)
      BY <1>1, <2>5
    <3> QED
      BY <2>6, <2>7, <3>1, SitsConcat
  <2>9. PICK q : q = p + Len(u)
    OBVIOUS
  <2>10. Stands(octets, turns, y, q)
    BY <1>1, <2>4, <2>8, <2>9, BetweenThere
  <2>11. Sits(octets, q, ForeignField(f, v)) /\ v \in Value(f) /\ y[f.name] = Default(f)
    BY <1>1, <2>3, <2>4, <2>8, <2>9
  <2>12. Stands(octets, turns, Put(y, f, Merged(f, y[f.name], v)), q + Len(ForeignField(f, v)))
    BY <1>1, <2>2, <2>10, <2>11, ForeignThere
  <2>13. q + Len(w) = p + Len(pieces[j])
    <3>1. Len(u \o w) = Len(u) + Len(w)
      BY <2>6, ConcatProperties
    <3>2. p \in Nat /\ Len(u) \in Nat /\ Len(w) \in Nat
      BY <2>6, <2>7 DEF Place
    <3>3. q + Len(w) = p + Len(u \o w)
      BY <2>9, <3>1, <3>2
    <3> QED
      BY <2>5, <3>3
  <2> QED
    BY <1>1, <2>4, <2>12, <2>13
<1> QED
  BY <1>1 DEF Takes

\* The peer's encoding is read as the object.
LEMMA ReadForeign ==
  ASSUME NEW table, GoodTable(table), NEW a, IsMessage(table, a),
         NEW octets, octets = Foreign(table, a), Fits(octets)
  PROVE  Parse(table, octets) = Got(a, Len(octets) + 1)
<1>1. PICK n, pieces, order, x, nested, turns :
        /\ n = Len(table) /\ pieces = [i \in DOMAIN table |-> ForeignPiece(table, a, i)]
        /\ order = [i \in DOMAIN table |-> Len(table) + 1 - i]
        /\ x = Clear(table) /\ nested = Nested /\ turns = Turns(table, octets, x, nested)
  OBVIOUS
<1>2. /\ n \in Nat /\ Order(table, n, order) /\ DOMAIN table = 1 .. n
      /\ Former(order, n) = DOMAIN table
  BY <1>1, InReverse
<1>3. pieces \in [1 .. n -> Seq(Octet)]
  <2>1. ASSUME NEW i \in 1 .. n
        PROVE  ForeignPiece(table, a, i) \in Seq(Octet)
    <3>1. PICK k, f : k = Len(table) + 1 - i /\ f = table[k]
      OBVIOUS
    <3>2. k \in DOMAIN table
      BY <1>1, <1>2, <3>1
    <3>3. GoodField(f) /\ a[f.name] \in Value(f)
      BY <3>1, <3>2 DEF GoodTable, IsMessage
    <3>4. PICK u, w : u = Between(i) /\ w = ForeignField(f, a[f.name])
      OBVIOUS
    <3>5. u \in Seq(Octet) /\ w \in Seq(Octet)
      BY <3>3, <3>4, BetweenType, ForeignType
    <3>6. u \o w \in Seq(Octet)
      BY <3>5, ConcatProperties
    <3> QED
      BY <3>1, <3>4, <3>6 DEF ForeignPiece
  <2> QED
    BY <1>1, <1>2, <2>1, Zenon
<1>4. PICK g : Joins(g, n, pieces) /\ g[n] = octets
  <2>1. octets = FlattenSeq(pieces)
    BY <1>1, ForeignJoins
  <2> QED
    BY <1>2, <1>3, <2>1, Flattening
<1>5. octets \in Seq(Octet) /\ Len(octets) < Wide /\ n \in 0 .. n
  <2>1. n \in 0 .. n
    BY <1>2
  <2>2. octets \in Seq(Octet)
    BY <1>4, <2>1 DEF Joins
  <2> QED
    BY <2>1, <2>2, FitsWide
<1>6. /\ Reads(table, octets, nested, turns) /\ turns[0] = Got(x, 1)
      /\ Parse(table, octets) = turns[Len(octets)]
  BY <1>1, <1>5, TurnsDef DEF Parse
<1>7. Stands(octets, turns, x, 1) /\ Sits(octets, 1, g[n]) /\ 1 \in Place
  BY <1>4, <1>5, <1>6, LoopStarts, SitsWhole
<1>8. HasFields(table, x) /\ Understands(nested)
  BY <1>1, ClearFacts, NestedUnderstands
<1>9. OneByOne(octets, 1, n, pieces, g)
  BY <1>2, <1>4, <1>5, <1>7, SitsPieces
<1>10. Takes(table, octets, turns, x, a, n, order, pieces)
  BY <1>1, <1>5, <1>6, <1>8, ForeignTakes
<1>11. Stands(octets, turns, Mixed(table, x, a, Former(order, n)), 1 + Len(g[n]))
  BY <1>2, <1>4, <1>5, <1>7, <1>8, <1>9, <1>10, FieldsThere
<1>12. Mixed(table, x, a, Former(order, n)) = a
  <2>1. Mixed(table, x, a, DOMAIN table) = MergeFrom(table, x, a)
    BY <1>8, MergedAll
  <2>2. MergeFrom(table, x, a) = a
    BY <1>1, MergeIntoClear
  <2> QED
    BY <1>2, <2>1, <2>2
<1>13. PICK end : end = 1 + Len(octets)
  OBVIOUS
<1>14. Stands(octets, turns, a, end) /\ end > Len(octets) /\ end = Len(octets) + 1
  BY <1>4, <1>5, <1>11, <1>12, <1>13
<1>15. turns[Len(octets)] = Got(a, end)
  BY <1>5, <1>6, <1>14, LoopEnds
<1> QED
  BY <1>6, <1>14, <1>15

(***************************************************************************)
(* The object, in every state                                              *)
(***************************************************************************)

\* Both objects are objects of the class.
Objects ==
  /\ class \in Classes
  /\ IsMessage(Fields, msg)
  /\ IsMessage(Fields, other)

\* A class is one of protoc's, and its samples are values of its types.
LEMMA FieldsGood ==
  ASSUME NEW c \in Classes
  PROVE  /\ GoodTable(Table[c])
         /\ \A i \in DOMAIN Table[c] :
              /\ Samples[Table[c][i].type] \subseteq Element(Table[c][i].type)
              /\ Sample(Table[c][i]) \in Samples[Table[c][i].type]
<1>1. c \in DOMAIN Table
  BY ClassesAssumption
<1>2. GoodTable(Table[c])
  BY <1>1, TablesGood
<1>3. ASSUME NEW i \in DOMAIN Table[c], NEW f, f = Table[c][i]
      PROVE  Samples[f.type] \subseteq Element(f.type) /\ Sample(f) \in Samples[f.type]
  <2>1. /\ Samples[f.type] \subseteq Element(f.type)
        /\ \E v \in Samples[f.type] : v # Default([f EXCEPT !.repeated = FALSE])
    BY <1>3, SamplesAssumption, Zenon
  <2> QED
    BY <2>1, Zenon DEF Sample
<1> QED
  BY <1>2, <1>3

\* Storing a value of its type into a field gives an object of the class.
LEMMA PutIsMessage ==
  ASSUME NEW table, GoodTable(table), NEW x, IsMessage(table, x),
         NEW k \in DOMAIN table, NEW f, f = table[k], NEW w, w \in Value(f)
  PROVE  IsMessage(table, Put(x, f, w))
<1>1. PICK z : z = Put(x, f, w)
  OBVIOUS
<1>2. HasFields(table, x)
  BY DEF IsMessage, HasFields
<1>3. /\ HasFields(table, z) /\ z[f.name] = w
      /\ \A name \in FieldNames(table) : name # f.name => z[name] = x[name]
  BY <1>1, <1>2, PutFacts
<1>4. ASSUME NEW i \in DOMAIN table
      PROVE  z[table[i].name] \in Value(table[i])
  <2>1. CASE i = k
    BY <1>3, <2>1
  <2>2. CASE i # k
    <3>1. table[i].name # f.name
      BY <2>2 DEF GoodTable
    <3>2. table[i].name \in FieldNames(table)
      BY DEF FieldNames
    <3>3. x[table[i].name] \in Value(table[i])
      BY DEF IsMessage
    <3> QED
      BY <1>3, <3>1, <3>2, <3>3
  <2> QED
    BY <2>1, <2>2
<1> QED
  BY <1>1, <1>3, <1>4 DEF IsMessage, HasFields

\* The object every field of which is set is an object of the class.
LEMMA FilledIsMessage ==
  ASSUME NEW c \in Classes
  PROVE  IsMessage(Table[c], Filled(Table[c]))
<1>1. PICK table : table = Table[c]
  OBVIOUS
<1>2. /\ GoodTable(table)
      /\ \A i \in DOMAIN table :
           /\ Samples[table[i].type] \subseteq Element(table[i].type)
           /\ Sample(table[i]) \in Samples[table[i].type]
  BY <1>1, FieldsGood
<1>3. PICK z : z = Filled(table)
  OBVIOUS
<1>4. z = [name \in FieldNames(table) |-> z[name]]
  BY <1>3, Zenon DEF Filled
<1>5. ASSUME NEW i \in DOMAIN table
      PROVE  z[table[i].name] \in Value(table[i])
  <2>1. PICK f : f = table[i]
    OBVIOUS
  <2>2. FieldOf(table, f.name) = f /\ f.name \in FieldNames(table)
    BY <1>2, <2>1, FieldOfName DEF FieldNames
  <2>3. PICK v : v = Sample(f)
    OBVIOUS
  <2>4. v \in Element(f.type)
    BY <1>2, <2>1, <2>3
  <2>5. z[f.name] = IF f.repeated THEN <<v>> ELSE v
    BY <1>3, <2>2, <2>3, Zenon DEF Filled
  <2>6. z[f.name] \in Value(f)
    <3>1. CASE f.repeated
      <4>1. PICK S : S = Element(f.type)
        OBVIOUS
      <4>2. <<v>> \in Seq(S)
        BY <2>4, <4>1
      <4>3. Value(f) = Seq(S)
        BY <3>1, <4>1, Zenon DEF Value
      <4> QED
        BY <2>5, <3>1, <4>2, <4>3
    <3>2. CASE ~ f.repeated
      BY <2>4, <2>5, <3>2, Zenon DEF Value
    <3> QED
      BY <3>1, <3>2
  <2> QED
    BY <2>1, <2>6
<1>6. IsMessage(table, z)
  BY <1>4, <1>5 DEF IsMessage
<1> QED
  BY <1>1, <1>3, <1>6

\* A new object is an object of its class, ...
LEMMA ObjectsInit == ObjInit => Objects
<1> SUFFICES ASSUME ObjInit
             PROVE  Objects
  OBVIOUS
<1>1. class \in Classes /\ msg = Clear(Fields) /\ other \in {Clear(Fields), Filled(Fields)}
  BY Zenon DEF ObjInit, Fields
<1>2. IsMessage(Fields, Clear(Fields))
  BY <1>1, FieldsGood, ClearFacts DEF Fields
<1>3. IsMessage(Fields, Filled(Fields))
  BY <1>1, FilledIsMessage DEF Fields
<1> QED
  BY <1>1, <1>2, <1>3 DEF Objects

\* ... and stays one whatever is called.
LEMMA ObjectsNext == Objects /\ [ObjNext]_objVars => Objects'
<1> SUFFICES ASSUME Objects, [ObjNext]_objVars
             PROVE  Objects'
  OBVIOUS
<1>1. PICK table : table = Fields
  OBVIOUS
<1>2. /\ class \in Classes /\ IsMessage(table, msg) /\ IsMessage(table, other)
      /\ GoodTable(table)
  BY <1>1, FieldsGood DEF Objects, Fields
<1>3. \A i \in DOMAIN table : Samples[table[i].type] \subseteq Element(table[i].type)
  BY <1>1, <1>2, FieldsGood DEF Fields
<1>4. ASSUME NEW m, IsMessage(table, m), Becomes(m)
      PROVE  Objects'
  <2>1. msg' = m /\ class' = class /\ other' = other
    BY <1>4 DEF Becomes
  <2>2. Fields' = table
    BY <1>1, <2>1 DEF Fields
  <2> QED
    BY <1>2, <1>4, <2>1, <2>2 DEF Objects
<1>5. ASSUME NEW f \in FieldSet
      PROVE  \E k \in DOMAIN table : f = table[k]
  BY <1>1 DEF FieldSet
<1>6. CASE SetField
  <2>1. PICK f \in FieldSet : /\ ~ f.repeated
                              /\ \E v \in Samples[f.type] : Becomes([msg EXCEPT ![f.name] = v])
    BY <1>6 DEF SetField
  <2>2. PICK v \in Samples[f.type] : Becomes([msg EXCEPT ![f.name] = v])
    BY <2>1
  <2>3. PICK k \in DOMAIN table : f = table[k]
    BY <1>5
  <2>4. v \in Value(f)
    BY <1>3, <2>1, <2>2, <2>3 DEF Value
  <2>5. IsMessage(table, Put(msg, f, v))
    BY <1>2, <2>3, <2>4, PutIsMessage
  <2>6. Becomes(Put(msg, f, v))
    BY <2>2, Zenon DEF Put
  <2> QED
    BY <1>4, <2>5, <2>6
<1>7. CASE AddElement
  <2>1. PICK f \in FieldSet :
          /\ f.repeated
          /\ \E v \in Samples[f.type] : Becomes([msg EXCEPT ![f.name] = Append(@, v)])
    BY <1>7 DEF AddElement
  <2>2. PICK v \in Samples[f.type] : Becomes([msg EXCEPT ![f.name] = Append(@, v)])
    BY <2>1
  <2>3. PICK k \in DOMAIN table : f = table[k]
    BY <1>5
  <2>4. PICK old, w, S : old = msg[f.name] /\ w = Append(old, v) /\ S = Element(f.type)
    OBVIOUS
  <2>5. Value(f) = Seq(S)
    BY <2>1, <2>4, Zenon DEF Value
  <2>6. old \in Seq(S)
    BY <1>2, <2>3, <2>4, <2>5 DEF IsMessage
  <2>7. v \in S
    BY <1>3, <2>3, <2>4
  <2>8. w \in Value(f)
    BY <2>4, <2>5, <2>6, <2>7
  <2>9. IsMessage(table, Put(msg, f, w))
    BY <1>2, <2>3, <2>8, PutIsMessage
  <2>10. Becomes(Put(msg, f, w))
    BY <2>2, <2>4, Zenon DEF Put
  <2> QED
    BY <1>4, <2>9, <2>10
<1>8. CASE ClearField
  <2>1. PICK f \in FieldSet : f.repeated /\ Becomes([msg EXCEPT ![f.name] = <<>>])
    BY <1>8 DEF ClearField
  <2>2. PICK k \in DOMAIN table : f = table[k]
    BY <1>5
  <2>3. Value(f) = Seq(Element(f.type))
    BY <2>1, Zenon DEF Value
  <2>4. <<>> \in Seq(Element(f.type))
    OBVIOUS
  <2>5. PICK w : w = <<>>
    OBVIOUS
  <2>6. IsMessage(table, Put(msg, f, w))
    BY <1>2, <2>2, <2>3, <2>4, <2>5, PutIsMessage
  <2>7. Becomes(Put(msg, f, w))
    BY <2>1, <2>5, Zenon DEF Put
  <2> QED
    BY <1>4, <2>6, <2>7
<1>9. CASE MergeOther
  <2>1. Becomes(MergeFrom(table, msg, other))
    BY <1>1, <1>9 DEF MergeOther
  <2>2. IsMessage(table, MergeFrom(table, msg, other))
    BY <1>2, MergeIsMessage
  <2> QED
    BY <1>4, <2>1, <2>2
<1>10. CASE CopyOther
  <2>1. Becomes(CopyFrom(table, other))
    BY <1>1, <1>10 DEF CopyOther
  <2>2. IsMessage(table, Clear(table))
    BY <1>2, ClearFacts
  <2>3. IsMessage(table, CopyFrom(table, other))
    BY <1>2, <2>2, MergeIsMessage DEF CopyFrom
  <2> QED
    BY <1>4, <2>1, <2>3
<1>11. CASE ClearObject
  <2>1. Becomes(Clear(table))
    BY <1>1, <1>11 DEF ClearObject
  <2>2. IsMessage(table, Clear(table))
    BY <1>2, ClearFacts
  <2> QED
    BY <1>4, <2>1, <2>2
<1>12. CASE UNCHANGED objVars
  BY <1>12 DEF objVars, Objects, Fields, IsMessage
<1> QED
  BY <1>6, <1>7, <1>8, <1>9, <1>10, <1>11, <1>12 DEF ObjNext

\* The object stays an object of its class whatever is called on it: a field is a
\* value of its type, in C++ and here, also after a merge with another object.  Strings
\* stay UTF-8 if the setters are given such strings only, as they are here.
THEOREM AlwaysObjects == ObjSpec => []Objects
<1>1. ObjInit => Objects
  BY ObjectsInit
<1>2. Objects /\ [ObjNext]_objVars => Objects'
  BY ObjectsNext
<1> QED
  BY <1>1, <1>2, PTL DEF ObjSpec

\* The class of the object is one of protoc's, both objects are of it, and its
\* fields are the rows of its table.
LEMMA ObjectFacts ==
  ASSUME Objects
  PROVE  /\ GoodTable(Fields) /\ IsMessage(Fields, msg) /\ IsMessage(Fields, other)
         /\ \A f \in FieldSet : \E k \in DOMAIN Fields : f = Fields[k]
<1>1. GoodTable(Fields)
  BY FieldsGood DEF Objects, Fields
<1> QED
  BY <1>1 DEF Objects, FieldSet

\* A result that was got is ok and has its value.
LEMMA GotParts ==
  ASSUME NEW v, NEW next, NEW read, read = Got(v, next)
  PROVE  read.ok /\ read.value = v
BY DEF Got

\* Of an object whose strings are UTF-8, ByteSize() is the length of what
\* SerializeWithCachedSizes() writes, and MergePartialFromCodedStream(), which checks
\* the strings, makes the same object of it.
THEOREM AlwaysRoundTrip == ObjSpec => []RoundTrip
<1>1. ASSUME Objects
      PROVE  RoundTrip
  <2>1. PICK table, m, octets, read :
          /\ table = Fields /\ m = msg /\ octets = Serialize(table, m)
          /\ read = Parse(table, octets)
    OBVIOUS
  <2>2. GoodTable(table) /\ IsMessage(table, m)
    BY <1>1, <2>1, ObjectFacts
  <2>3. Len(octets) = ByteSize(table, m)
    BY <2>1, <2>2, ByteSizeWritten
  <2>4. Fits(octets) => read.ok /\ read.value = m
    BY <2>1, <2>2, ReadBack, GotParts
  <2> QED
    BY <2>1, <2>3, <2>4, Zenon DEF RoundTrip
<1> QED
  BY <1>1, AlwaysObjects, PTL

\* Reading merges: what is written of two objects whose strings are UTF-8, one behind
\* the other, is read as MergeFrom() of the second into the first.
THEOREM AlwaysConcatenationMerges == ObjSpec => []ConcatenationMerges
<1>1. ASSUME Objects
      PROVE  ConcatenationMerges
  <2>1. PICK table, a, b, s, t, both, read :
          /\ table = Fields /\ a = msg /\ b = other
          /\ s = Serialize(table, a) /\ t = Serialize(table, b)
          /\ both = s \o t /\ read = Parse(table, both)
    OBVIOUS
  <2>2. GoodTable(table) /\ IsMessage(table, a) /\ IsMessage(table, b)
    BY <1>1, <2>1, ObjectFacts
  <2>3. s \in Seq(Octet) /\ t \in Seq(Octet)
    BY <2>1, <2>2, SerializeType
  <2>4. Pair(both, Serialize(table, a), Serialize(table, b))
    BY <2>1, <2>3, ConcatPair
  <2>5. Fits(both) => read = Got(MergeFrom(table, a, b), Len(both) + 1)
    <3>1. ASSUME Fits(both)
          PROVE  Parse(table, both) = Got(MergeFrom(table, a, b), Len(both) + 1)
      BY <2>2, <2>4, <3>1, ReadBoth
    <3> QED
      BY <2>1, <3>1
  <2>6. Fits(both) => read.ok /\ read.value = MergeFrom(table, a, b)
    BY <2>5, GotParts
  <2> QED
    BY <2>1, <2>6, Zenon DEF ConcatenationMerges
<1> QED
  BY <1>1, AlwaysObjects, PTL

\* What a peer writes in another order, with defaults, unpacked numbers and fields
\* of its own in it, is read as the same object, if the strings of the object are UTF-8.
THEOREM AlwaysForeignUnderstood == ObjSpec => []ForeignUnderstood
<1>1. ASSUME Objects
      PROVE  ForeignUnderstood
  <2>1. PICK table, m, octets, read :
          /\ table = Fields /\ m = msg /\ octets = Foreign(table, m)
          /\ read = Parse(table, octets)
    OBVIOUS
  <2>2. GoodTable(table) /\ IsMessage(table, m)
    BY <1>1, <2>1, ObjectFacts
  <2>3. Fits(octets) => read.ok /\ read.value = m
    BY <2>1, <2>2, ReadForeign, GotParts
  <2> QED
    BY <2>1, <2>3, Zenon DEF ForeignUnderstood
<1> QED
  BY <1>1, AlwaysObjects, PTL

\* Whatever is read from the front of an encoding is the object's own, for every
\* place it can be cut at.
THEOREM AlwaysCutNeverInvents == ObjSpec => []CutNeverInvents
<1>1. ASSUME Objects
      PROVE  CutNeverInvents
  <2>1. PICK table, m, octets :
          table = Fields /\ m = msg /\ octets = Serialize(table, m)
    OBVIOUS
  <2>2. GoodTable(table) /\ IsMessage(table, m)
    BY <1>1, <2>1, ObjectFacts
  <2>3. octets \in Seq(Octet)
    BY <2>1, <2>2, SerializeType
  <2>4. ASSUME NEW n \in 0 .. Len(octets), NEW read,
               read = Parse(table, SubSeq(octets, 1, n)), Fits(octets), read.ok,
               NEW f \in FieldSet
        PROVE  NotInvented(f, read.value[f.name], m[f.name])
    <3>1. PICK k \in DOMAIN table : f = table[k]
      BY <1>1, <2>1, ObjectFacts
    <3>2. Len(octets) < Wide /\ Len(octets) \in Nat
      BY <2>3, <2>4, FitsWide
    <3>3. CASE n = Len(octets)
      <4>1. SubSeq(octets, 1, n) = octets
        BY <2>3, <3>3
      <4>2. read = Parse(table, octets)
        BY <2>4, <4>1
      <4>3. read.value = m
        BY <2>1, <2>2, <2>4, <4>2, ReadBack, GotParts
      <4> QED
        BY <4>3 DEF NotInvented
    <3>4. CASE n # Len(octets)
      <4>1. PICK cut : cut = SubSeq(octets, 1, n)
        OBVIOUS
      <4>2. cut \in Seq(Octet) /\ Len(cut) = n /\ Torn(cut, 1, octets)
        BY <2>3, <3>4, <4>1, CutIsTorn
      <4>3. Len(cut) < Wide
        <5>1. n \in Nat /\ n <= Len(octets) /\ Wide \in Nat
          BY <3>2, Widths
        <5> QED
          BY <3>2, <4>2, <5>1
      <4>4. read = Parse(table, cut)
        BY <2>4, <4>1
      <4>5. \A l \in DOMAIN table :
              NotInvented(table[l], read.value[table[l].name], m[table[l].name])
        BY <2>1, <2>2, <2>4, <3>2, <4>2, <4>3, <4>4, CutRead
      <4> QED
        BY <3>1, <4>5
    <3> QED
      BY <3>3, <3>4
  <2> QED
    BY <2>1, <2>4, Zenon DEF CutNeverInvents, NotInvented
<1> QED
  BY <1>1, AlwaysObjects, PTL

=============================================================================
