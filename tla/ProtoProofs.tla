---------------------------- MODULE ProtoProofs -----------------------------
(***************************************************************************)
(* Lemmas on the encoding of the generated classes, for every width, every *)
(* GoodTable of fields and messages of any length: what a varint, a        *)
(* number, a delimited or packed value and a field with its tag are when   *)
(* they are written, and what the loop that reads makes of them when they  *)
(* are there in full and when they are cut off; and that what is written   *)
(* of a whole message is as long as ByteSize() says.                       *)
(*                                                                         *)
(* All of it is by induction: over numbers for the recursive functions,    *)
(* over the turns of the loop, over the pieces of a sequence.  Induction   *)
(* over numbers is derived from their least element (LeastNumber), and     *)
(* that each recursive definition has a function from it (Recursion).      *)
(***************************************************************************)
EXTENDS ProtoReading, SequenceTheorems, WellFoundedInduction, TLAPS

(***************************************************************************)
(* Induction                                                               *)
(***************************************************************************)

\* Any numbers have a least one.
LEMMA LeastNumber ==
  ASSUME NEW S, S \subseteq Nat, S # {}
  PROVE  \E n \in S : \A k \in S : n <= k
<1>1. PICK R : R = OpToRel(<, Nat)
  OBVIOUS
<1>2. IsWellFoundedOn(R, Nat)
  BY <1>1, NatLessThanWellFounded
<1>3. PICK n \in S : \A k \in S : ~ (<<k, n>> \in R)
  BY <1>2, WFMin
<1>4. \A k, m \in Nat : <<k, m>> \in R <=> k < m
  BY <1>1 DEF OpToRel
<1>5. ASSUME NEW k \in S
      PROVE  n <= k
  <2>1. n \in Nat /\ k \in Nat
    OBVIOUS
  <2>2. ~ (k < n)
    BY <1>3, <1>4, <2>1
  <2> QED
    BY <2>1, <2>2
<1> QED
  BY <1>5

\* What holds of a number when it holds of all below it holds of all.
LEMMA NumberInduction ==
  ASSUME NEW S, \A n \in Nat : (\A k \in Nat : k < n => k \in S) => n \in S
  PROVE  \A n \in Nat : n \in S
<1> SUFFICES ASSUME Nat \ S # {}
             PROVE  FALSE
  OBVIOUS
<1>1. PICK T : T = Nat \ S
  OBVIOUS
<1>2. PICK n \in T : \A k \in T : n <= k
  BY <1>1, LeastNumber
<1>3. ASSUME NEW k \in Nat, k < n
      PROVE  k \in S
  <2>1. ~ (n <= k)
    BY <1>1, <1>3
  <2> QED
    BY <1>1, <1>2, <2>1
<1> QED
  BY <1>1, <1>3

\* The same by steps of one.
LEMMA StepInduction ==
  ASSUME NEW S, 0 \in S, \A n \in Nat : n \in S => n + 1 \in S
  PROVE  \A n \in Nat : n \in S
<1>1. ASSUME NEW n \in Nat, \A k \in Nat : k < n => k \in S
      PROVE  n \in S
  <2>1. CASE n = 0
    BY <2>1
  <2>2. CASE n # 0
    <3>1. n - 1 \in Nat /\ n - 1 < n /\ (n - 1) + 1 = n
      BY <2>2
    <3>2. n - 1 \in S
      BY <1>1, <3>1
    <3>3. (n - 1) + 1 \in S
      BY <3>1, <3>2
    <3> QED
      BY <3>1, <3>3
  <2> QED
    BY <2>1, <2>2
<1> QED
  BY <1>1, NumberInduction

\* Outside B the value of f at x is a step from that at pred[x], of a lower rank.
Lowers(rank, D, B, pred) == \A x \in D : x \notin B => rank[pred[x]] < rank[x]

Satisfies(f, D, B, base, pred, step) ==
  \A x \in D : f[x] = IF x \in B THEN base[x] ELSE step[<<x, f[pred[x]]>>]

\* A recursive definition of this form has a function that satisfies it.
LEMMA Recursion ==
  ASSUME NEW D, NEW T, NEW rank \in [D -> Nat],
         NEW B, NEW base \in [D -> T], NEW pred \in [D -> D],
         NEW step \in [D \X T -> T],
         Lowers(rank, D, B, pred)
  PROVE  \E f \in [D -> T] : Satisfies(f, D, B, base, pred, step)
<1> DEFINE Good(f, n) ==
      \A x \in D : rank[x] < n =>
        /\ f[x] \in T
        /\ f[x] = IF x \in B THEN base[x] ELSE step[<<x, f[pred[x]]>>]
<1>1. \A x \in D : rank[x] \in Nat /\ pred[x] \in D /\ base[x] \in T
  OBVIOUS
<1>2. \A x \in D, v \in T : step[<<x, v>>] \in T
  OBVIOUS
<1>3. ASSUME NEW f, NEW g, NEW m \in Nat, Good(f, m), NEW n \in Nat, Good(g, n),
             NEW x \in D, rank[x] < m, rank[x] < n
      PROVE  f[x] = g[x]
  <2> DEFINE S == {k \in Nat : \A y \in D : rank[y] = k /\ k < m /\ k < n => f[y] = g[y]}
  <2>1. ASSUME NEW k \in Nat, \A j \in Nat : j < k => j \in S
        PROVE  k \in S
    <3> SUFFICES ASSUME NEW y \in D, rank[y] = k, k < m, k < n
                 PROVE  f[y] = g[y]
      OBVIOUS
    <3>1. CASE y \in B
      BY <1>3, <3>1
    <3>2. CASE y \notin B
      <4>1. pred[y] \in D /\ rank[pred[y]] \in Nat /\ rank[pred[y]] < k
        BY <1>1, <3>2 DEF Lowers
      <4>2. rank[pred[y]] < m /\ rank[pred[y]] < n
        BY <4>1
      <4>3. f[pred[y]] = g[pred[y]]
        BY <2>1, <4>1, <4>2
      <4> QED
        BY <1>3, <3>2, <4>3
    <3> QED
      BY <3>1, <3>2
  <2> HIDE DEF S
  <2>2. \A k \in Nat : k \in S
    BY <2>1, NumberInduction
  <2>3. rank[x] \in S
    BY <1>1, <2>2
  <2> QED
    BY <1>3, <2>3 DEF S
<1> HIDE DEF Good
<1>4. \A n \in Nat : \E f : Good(f, n)
  <2> DEFINE S == {n \in Nat : \E f : Good(f, n)}
  <2>1. 0 \in S
    BY <1>1 DEF Good
  <2>2. ASSUME NEW n \in Nat, n \in S
        PROVE  n + 1 \in S
    <3>1. PICK f : Good(f, n)
      BY <2>2
    <3> DEFINE g == [x \in D |-> IF rank[x] < n THEN f[x]
                                 ELSE IF x \in B THEN base[x] ELSE step[<<x, f[pred[x]]>>]]
    <3>2. ASSUME NEW x \in D, rank[x] < n + 1
          PROVE  /\ g[x] \in T
                 /\ g[x] = IF x \in B THEN base[x] ELSE step[<<x, g[pred[x]]>>]
      <4>1. rank[x] \in Nat /\ pred[x] \in D /\ rank[pred[x]] \in Nat /\ base[x] \in T
        BY <1>1
      <4>2. x \notin B => rank[pred[x]] < n
        BY <3>2, <4>1 DEF Lowers
      <4>3. x \notin B => f[pred[x]] \in T /\ g[pred[x]] = f[pred[x]]
        BY <3>1, <4>1, <4>2 DEF Good
      <4>4. CASE rank[x] < n
        <5>1. /\ f[x] \in T
              /\ f[x] = IF x \in B THEN base[x] ELSE step[<<x, f[pred[x]]>>]
          BY <3>1, <4>4 DEF Good
        <5>2. g[x] = f[x]
          BY <4>4
        <5> HIDE DEF g
        <5> QED
          BY <4>3, <5>1, <5>2
      <4>5. CASE ~ (rank[x] < n)
        <5>1. g[x] = IF x \in B THEN base[x] ELSE step[<<x, f[pred[x]]>>]
          BY <4>5
        <5> HIDE DEF g
        <5> QED
          BY <1>2, <4>1, <4>3, <5>1
      <4> QED
        BY <4>4, <4>5
    <3> HIDE DEF g
    <3>3. Good(g, n + 1)
      BY <3>2 DEF Good
    <3> QED
      BY <3>3
  <2> HIDE DEF S
  <2>3. \A n \in Nat : n \in S
    BY <2>1, <2>2, StepInduction
  <2> QED
    BY <2>3 DEF S
<1> DEFINE h(n) == CHOOSE f : Good(f, n)
           f == [x \in D |-> h(rank[x] + 1)[x]]
<1>5. \A n \in Nat : Good(h(n), n)
  BY <1>4
<1> HIDE DEF h
<1>6. ASSUME NEW x \in D
      PROVE  /\ f[x] \in T
             /\ f[x] = IF x \in B THEN base[x] ELSE step[<<x, f[pred[x]]>>]
  <2>1. PICK n : n = rank[x] + 1
    OBVIOUS
  <2>2. n \in Nat /\ rank[x] < n /\ f[x] = h(n)[x]
    BY <1>1, <2>1
  <2>3. Good(h(n), n)
    BY <1>5, <2>2
  <2>4. /\ h(n)[x] \in T
        /\ h(n)[x] = IF x \in B THEN base[x] ELSE step[<<x, h(n)[pred[x]]>>]
    BY <2>2, <2>3 DEF Good
  <2>5. x \notin B => f[pred[x]] = h(n)[pred[x]]
    <3> SUFFICES ASSUME x \notin B
                 PROVE  f[pred[x]] = h(n)[pred[x]]
      OBVIOUS
    <3>1. PICK y : y = pred[x]
      OBVIOUS
    <3>2. PICK k : k = rank[y] + 1
      OBVIOUS
    <3>3. y \in D /\ k \in Nat /\ rank[y] < k /\ rank[y] < n /\ f[y] = h(k)[y]
      BY <1>1, <2>2, <3>1, <3>2 DEF Lowers
    <3>4. Good(h(k), k)
      BY <1>5, <3>3
    <3>5. h(k)[y] = h(n)[y]
      BY <1>3, <2>2, <2>3, <3>3, <3>4
    <3> QED
      BY <3>1, <3>3, <3>5
  <2> HIDE DEF f
  <2> QED
    BY <2>2, <2>4, <2>5
<1>7. f \in [D -> T]
  <2>1. \A x \in D : f[x] \in T
    BY <1>6
  <2> QED
    BY <2>1
<1> HIDE DEF f
<1> QED
  BY <1>6, <1>7 DEF Satisfies

(***************************************************************************)
(* Numbers                                                                 *)
(***************************************************************************)

\* Seven bits are taken off a number, and what is left is smaller.
LEMMA Seventh ==
  ASSUME NEW n \in Nat
  PROVE  /\ n \div 128 \in Nat /\ n % 128 \in 0 .. 127
         /\ n = 128 * (n \div 128) + (n % 128)
         /\ n >= 128 => n \div 128 < n /\ n \div 128 >= 1
<1>1. n % 128 \in 0 .. 127 /\ n = 128 * (n \div 128) + (n % 128)
  OBVIOUS
<1>2. n \div 128 \in Nat
  OBVIOUS
<1> QED
  BY <1>1, <1>2

\* Varint is what its recursive definition says, and a sequence of octets.
LEMMA VarintDef ==
  ASSUME NEW n \in Nat
  PROVE  /\ Varint[n] \in Seq(Octet)
         /\ Varint[n] = IF n < 128 THEN <<n>> ELSE <<128 + (n % 128)>> \o Varint[n \div 128]
<1> DEFINE Def(f) ==
      [k \in Nat |-> IF k < 128 THEN <<k>> ELSE <<128 + (k % 128)>> \o f[k \div 128]]
<1>1. \E f \in [Nat -> Seq(Octet)] : f = Def(f)
  <2>1. PICK D, T, rank, B, base, pred, step :
          /\ D = Nat /\ T = Seq(Octet) /\ rank = [k \in Nat |-> k] /\ B = 0 .. 127
          /\ base = [k \in Nat |-> IF k < 128 THEN <<k>> ELSE <<>>]
          /\ pred = [k \in Nat |-> k \div 128]
          /\ step = [p \in Nat \X Seq(Octet) |-> <<128 + (p[1] % 128)>> \o p[2]]
    OBVIOUS
  <2>2. rank \in [D -> Nat] /\ pred \in [D -> D]
    BY <2>1, Seventh
  <2>3. base \in [D -> T]
    <3>1. \A k \in Nat : k < 128 => <<k>> \in Seq(Octet)
      BY DEF Octet
    <3> QED
      BY <2>1, <3>1
  <2>4. \A k \in Nat, s \in Seq(Octet) : <<128 + (k % 128)>> \o s \in Seq(Octet)
    <3> TAKE k \in Nat, s \in Seq(Octet)
    <3>1. 128 + (k % 128) \in Octet
      BY Seventh DEF Octet
    <3> QED
      BY <3>1
  <2>5. step \in [D \X T -> T]
    BY <2>1, <2>4
  <2>6. Lowers(rank, D, B, pred)
    BY <2>1, Seventh DEF Lowers
  <2>7. PICK f \in [D -> T] : Satisfies(f, D, B, base, pred, step)
    BY <2>2, <2>3, <2>5, <2>6, Recursion
  <2>8. ASSUME NEW k \in Nat
        PROVE  f[k] = IF k < 128 THEN <<k>> ELSE <<128 + (k % 128)>> \o f[k \div 128]
    <3>1. k \div 128 \in Nat
      BY Seventh
    <3>2. k \in B <=> k < 128
      BY <2>1
    <3>3. f[k \div 128] \in Seq(Octet)
      BY <2>1, <3>1
    <3>4. f[k] = IF k \in B THEN base[k] ELSE step[<<k, f[pred[k]]>>]
      BY <2>1, <2>7, Zenon DEF Satisfies
    <3>5. pred[k] = k \div 128 /\ (k < 128 => base[k] = <<k>>)
      BY <2>1
    <3>6. PICK p : p = f[k \div 128]
      OBVIOUS
    <3>7. step[<<k, p>>] = <<128 + (k % 128)>> \o p
      BY <2>1, <3>3, <3>6
    <3> QED
      BY <3>2, <3>4, <3>5, <3>6, <3>7
  <2>9. f = Def(f)
    BY <2>1, <2>8
  <2> QED
    BY <2>1, <2>9
<1>2. Varint = Def(Varint)
  BY <1>1, Zenon DEF Varint
<1>3. \A k \in Nat : Varint[k] = IF k < 128 THEN <<k>> ELSE <<128 + (k % 128)>> \o Varint[k \div 128]
  BY <1>2
<1>4. \A k \in Nat : Varint[k] \in Seq(Octet)
  <2> DEFINE S == {k \in Nat : Varint[k] \in Seq(Octet)}
  <2>1. ASSUME NEW k \in Nat, \A j \in Nat : j < k => j \in S
        PROVE  k \in S
    <3>1. k < 128 => <<k>> \in Seq(Octet)
      BY DEF Octet
    <3>2. 128 + (k % 128) \in Octet
      BY Seventh DEF Octet
    <3>3. k >= 128 => Varint[k \div 128] \in Seq(Octet)
      BY <2>1, Seventh
    <3>4. Varint[k] \in Seq(Octet)
      <4>1. CASE k < 128
        BY <1>3, <3>1, <4>1
      <4>2. CASE k >= 128
        <5>1. Varint[k] = <<128 + (k % 128)>> \o Varint[k \div 128]
          <6>1. ~ (k < 128)
            BY <4>2
          <6> QED
            BY <1>3, <6>1, Zenon
        <5>2. <<128 + (k % 128)>> \in Seq(Octet)
          BY <3>2
        <5> QED
          BY <3>3, <4>2, <5>1, <5>2, ConcatProperties
      <4> QED
        BY <4>1, <4>2
    <3> QED
      BY <3>4
  <2> HIDE DEF S
  <2>2. \A k \in Nat : k \in S
    BY <2>1, NumberInduction
  <2> QED
    BY <2>2 DEF S
<1> QED
  BY <1>3, <1>4

\* So is VarintSize, a natural number.
LEMMA VarintSizeDef ==
  ASSUME NEW n \in Nat
  PROVE  /\ VarintSize[n] \in Nat
         /\ VarintSize[n] = IF n < 128 THEN 1 ELSE 1 + VarintSize[n \div 128]
<1> DEFINE Def(f) == [k \in Nat |-> IF k < 128 THEN 1 ELSE 1 + f[k \div 128]]
<1>1. \E f \in [Nat -> Nat] : f = Def(f)
  <2>1. PICK D, T, rank, B, base, pred, step :
          /\ D = Nat /\ T = Nat /\ rank = [k \in Nat |-> k] /\ B = 0 .. 127
          /\ base = [k \in Nat |-> 1]
          /\ pred = [k \in Nat |-> k \div 128]
          /\ step = [p \in Nat \X Nat |-> 1 + p[2]]
    OBVIOUS
  <2>2. rank \in [D -> Nat] /\ pred \in [D -> D] /\ base \in [D -> T]
    BY <2>1, Seventh
  <2>3. step \in [D \X T -> T]
    BY <2>1
  <2>4. Lowers(rank, D, B, pred)
    BY <2>1, Seventh DEF Lowers
  <2>5. PICK f \in [D -> T] : Satisfies(f, D, B, base, pred, step)
    BY <2>2, <2>3, <2>4, Recursion
  <2>6. ASSUME NEW k \in Nat
        PROVE  f[k] = IF k < 128 THEN 1 ELSE 1 + f[k \div 128]
    <3>1. k \div 128 \in Nat
      BY Seventh
    <3>2. k \in B <=> k < 128
      BY <2>1
    <3>3. f[k \div 128] \in Nat
      BY <2>1, <3>1
    <3>4. f[k] = IF k \in B THEN base[k] ELSE step[<<k, f[pred[k]]>>]
      BY <2>1, <2>5 DEF Satisfies
    <3>5. /\ base[k] = 1 /\ pred[k] = k \div 128
          /\ step[<<k, f[k \div 128]>>] = 1 + f[k \div 128]
      BY <2>1, <3>3
    <3> QED
      BY <3>2, <3>4, <3>5
  <2>7. f = Def(f)
    BY <2>1, <2>6
  <2> QED
    BY <2>1, <2>7
<1>2. VarintSize = Def(VarintSize)
  BY <1>1, Zenon DEF VarintSize
<1>3. \A k \in Nat : VarintSize[k] = IF k < 128 THEN 1 ELSE 1 + VarintSize[k \div 128]
  BY <1>2
<1>4. \A k \in Nat : VarintSize[k] \in Nat
  <2> DEFINE S == {k \in Nat : VarintSize[k] \in Nat}
  <2>1. ASSUME NEW k \in Nat, \A j \in Nat : j < k => j \in S
        PROVE  k \in S
    <3>1. k >= 128 => VarintSize[k \div 128] \in Nat
      BY <2>1, Seventh
    <3> QED
      BY <1>3, <3>1
  <2> HIDE DEF S
  <2>2. \A k \in Nat : k \in S
    BY <2>1, NumberInduction
  <2> QED
    BY <2>2 DEF S
<1> QED
  BY <1>3, <1>4

\* So is Number, the value of the octets of a varint.
LEMMA NumberDef ==
  ASSUME NEW s \in Seq(Octet)
  PROVE  /\ Number[s] \in Nat
         /\ Number[s] = IF s = <<>> THEN 0 ELSE (Head(s) % 128) + 128 * Number[Tail(s)]
<1> DEFINE Def(f) ==
      [r \in Seq(Octet) |-> IF r = <<>> THEN 0 ELSE (Head(r) % 128) + 128 * f[Tail(r)]]
<1>0. \A r \in Seq(Octet) : r # <<>> =>
        /\ Head(r) % 128 \in Nat /\ Tail(r) \in Seq(Octet)
        /\ Len(Tail(r)) = Len(r) - 1 /\ Len(Tail(r)) \in Nat
  <2> SUFFICES ASSUME NEW r \in Seq(Octet), r # <<>>
               PROVE  /\ Head(r) % 128 \in Nat /\ Tail(r) \in Seq(Octet)
                      /\ Len(Tail(r)) = Len(r) - 1 /\ Len(Tail(r)) \in Nat
    OBVIOUS
  <2>1. Head(r) \in Octet /\ Tail(r) \in Seq(Octet) /\ Len(Tail(r)) = Len(r) - 1
    BY HeadTailProperties
  <2>2. Head(r) % 128 \in Nat
    <3>1. PICK h \in Nat : h = Head(r)
      BY <2>1 DEF Octet
    <3>2. h % 128 \in Nat
      OBVIOUS
    <3> QED
      BY <3>1, <3>2
  <2> QED
    BY <2>1, <2>2
<1>1. \E f \in [Seq(Octet) -> Nat] : f = Def(f)
  <2>1. PICK D, T, rank, B, base, pred, step :
          /\ D = Seq(Octet) /\ T = Nat /\ rank = [r \in Seq(Octet) |-> Len(r)]
          /\ B = {<<>>} /\ base = [r \in Seq(Octet) |-> 0]
          /\ pred = [r \in Seq(Octet) |-> IF r = <<>> THEN <<>> ELSE Tail(r)]
          /\ step = [p \in Seq(Octet) \X Nat |->
                       IF p[1] = <<>> THEN 0 ELSE (Head(p[1]) % 128) + 128 * p[2]]
    OBVIOUS
  <2>2. rank \in [D -> Nat] /\ base \in [D -> T]
    BY <2>1
  <2>3. pred \in [D -> D]
    BY <1>0, <2>1
  <2>4. step \in [D \X T -> T]
    <3>1. ASSUME NEW r \in Seq(Octet), NEW k \in Nat
          PROVE  (IF r = <<>> THEN 0 ELSE (Head(r) % 128) + 128 * k) \in Nat
      BY <1>0
    <3> QED
      BY <2>1, <3>1
  <2>5. Lowers(rank, D, B, pred)
    BY <1>0, <2>1 DEF Lowers
  <2>6. PICK f \in [D -> T] : Satisfies(f, D, B, base, pred, step)
    BY <2>2, <2>3, <2>4, <2>5, Recursion
  <2>7. ASSUME NEW r \in Seq(Octet)
        PROVE  f[r] = IF r = <<>> THEN 0 ELSE (Head(r) % 128) + 128 * f[Tail(r)]
    <3>1. CASE r = <<>>
      BY <2>1, <2>6, <3>1 DEF Satisfies
    <3>2. CASE r # <<>>
      <4>1. Tail(r) \in Seq(Octet) /\ f[Tail(r)] \in Nat
        BY <1>0, <2>1, <3>2
      <4>2. f[r] = step[<<r, f[Tail(r)]>>]
        <5>1. r \in D /\ r \notin B /\ pred[r] = Tail(r)
          BY <2>1, <3>2
        <5>2. f[r] = step[<<r, f[pred[r]]>>]
          BY <2>6, <5>1, Zenon DEF Satisfies
        <5> QED
          BY <5>1, <5>2
      <4> QED
        BY <2>1, <3>2, <4>1, <4>2
    <3> QED
      BY <3>1, <3>2
  <2>8. f = Def(f)
    BY <2>1, <2>7
  <2> QED
    BY <2>1, <2>8
<1>2. Number = Def(Number)
  BY <1>1, Zenon DEF Number
<1>3. \A r \in Seq(Octet) :
        Number[r] = IF r = <<>> THEN 0 ELSE (Head(r) % 128) + 128 * Number[Tail(r)]
  BY <1>2
<1>4. \A r \in Seq(Octet) : Number[r] \in Nat
  <2> DEFINE S == {k \in Nat : \A r \in Seq(Octet) : Len(r) = k => Number[r] \in Nat}
  <2>1. ASSUME NEW k \in Nat, \A j \in Nat : j < k => j \in S
        PROVE  k \in S
    <3> SUFFICES ASSUME NEW r \in Seq(Octet), Len(r) = k
                 PROVE  Number[r] \in Nat
      OBVIOUS
    <3>1. CASE r = <<>>
      BY <1>3, <3>1
    <3>2. CASE r # <<>>
      <4>1. Number[Tail(r)] \in Nat
        <5>1. PICK u : u = Tail(r)
          OBVIOUS
        <5>2. u \in Seq(Octet) /\ Len(u) \in Nat /\ Len(u) < k
          BY <1>0, <3>2, <5>1
        <5>3. Len(u) \in S
          BY <2>1, <5>2
        <5> QED
          BY <5>1, <5>2, <5>3
      <4> QED
        BY <1>0, <1>3, <3>2, <4>1
    <3> QED
      BY <3>1, <3>2
  <2> HIDE DEF S
  <2>2. \A k \in Nat : k \in S
    BY <2>1, NumberInduction
  <2> QED
    BY <2>2 DEF S
<1> QED
  BY <1>3, <1>4

\* A sequence with an element in front.
LEMMA InFront ==
  ASSUME NEW S, NEW a \in S, NEW s \in Seq(S)
  PROVE  /\ <<a>> \o s \in Seq(S) /\ Len(<<a>> \o s) = Len(s) + 1
         /\ <<a>> \o s # <<>> /\ Head(<<a>> \o s) = a /\ Tail(<<a>> \o s) = s
         /\ (<<a>> \o s)[1] = a /\ \A i \in 1 .. Len(s) : (<<a>> \o s)[i + 1] = s[i]
<1>1. PICK w : w = <<a>> \o s
  OBVIOUS
<1>2. <<a>> \in Seq(S) /\ Len(<<a>>) = 1 /\ <<a>>[1] = a /\ Len(s) \in Nat
  OBVIOUS
<1>3. /\ w \in Seq(S) /\ Len(w) = Len(s) + 1
      /\ \A i \in 1 .. Len(s) + 1 : w[i] = IF i <= 1 THEN a ELSE s[i - 1]
  BY <1>1, <1>2, ConcatProperties
<1>4. w[1] = a
  BY <1>2, <1>3
<1>5. \A i \in 1 .. Len(s) : w[i + 1] = s[i]
  <2> TAKE i \in 1 .. Len(s)
  <2>1. i + 1 \in 1 .. Len(s) + 1 /\ ~ (i + 1 <= 1) /\ (i + 1) - 1 = i
    BY <1>2
  <2> QED
    BY <1>3, <2>1
<1>6. w # <<>> /\ Head(w) = a
  BY <1>2, <1>3, <1>4
<1>7. Tail(w) = s
  <2>1. /\ Tail(w) \in Seq(S) /\ Len(Tail(w)) = Len(s)
        /\ \A i \in 1 .. Len(Tail(w)) : Tail(w)[i] = w[i + 1]
    BY <1>2, <1>3, <1>6, HeadTailProperties
  <2>2. \A i \in 1 .. Len(Tail(w)) : Tail(w)[i] = s[i]
    BY <1>5, <2>1
  <2> QED
    BY <2>1, <2>2, SeqEqual
<1> QED
  BY <1>1, <1>3, <1>4, <1>5, <1>6, <1>7

\* Below 128 a varint is the number itself.
LEMMA VarintShort ==
  ASSUME NEW n \in 0 .. 127
  PROVE  Varint[n] = <<n>> /\ VarintSize[n] = 1 /\ <<n>> \in Seq(Octet)
<1>1. n \in Nat /\ n < 128 /\ n \in Octet
  BY DEF Octet
<1> QED
  BY <1>1, VarintDef, VarintSizeDef

\* One more octet in front of a varint counts for its seven low bits.
LEMMA NumberInFront ==
  ASSUME NEW a \in Octet, NEW s \in Seq(Octet)
  PROVE  Number[<<a>> \o s] = (a % 128) + 128 * Number[s]
<1>1. PICK w : w = <<a>> \o s
  OBVIOUS
<1>2. w \in Seq(Octet) /\ w # <<>> /\ Head(w) = a /\ Tail(w) = s
  BY <1>1, InFront
<1>3. Number[w] = (Head(w) % 128) + 128 * Number[Tail(w)]
  BY <1>2, NumberDef
<1> QED
  BY <1>1, <1>2, <1>3

\* The last octet of a number, and only that, is below 128; its seven bits and
\* those of the others make the number.
Shaped(v, n) ==
  /\ Len(v) = VarintSize[n] /\ Len(v) >= 1
  /\ \A i \in 1 .. Len(v) - 1 : v[i] >= 128
  /\ v[Len(v)] < 128
  /\ Number[v] = n

\* A varint has octets with the top bit set and one without it at the end, as
\* many as VarintSize says, and is worth the number it was made of.
LEMMA VarintShape ==
  ASSUME NEW n \in Nat
  PROVE  Shaped(Varint[n], n)
<1> DEFINE S == {k \in Nat : Shaped(Varint[k], k)}
<1>1. ASSUME NEW k \in Nat, \A j \in Nat : j < k => j \in S
      PROVE  Shaped(Varint[k], k)
  <2>1. CASE k < 128
    <3>1. PICK v : v = Varint[k]
      OBVIOUS
    <3>2. v = <<k>> /\ VarintSize[k] = 1 /\ k \in Octet
      <4>1. k \in 0 .. 127 /\ k \in Octet
        BY <2>1 DEF Octet
      <4> QED
        BY <3>1, <4>1, VarintShort
    <3>3. Len(v) = 1 /\ v[1] = k
      BY <3>2
    <3>4. <<>> \in Seq(Octet) /\ Number[<<>>] = 0
      <4>1. <<>> \in Seq(Octet)
        OBVIOUS
      <4> QED
        BY <4>1, NumberDef
    <3>5. v = <<k>> \o <<>>
      BY <3>2
    <3>6. Number[v] = (k % 128) + 128 * Number[<<>>]
      <4>1. Number[<<k>> \o <<>>] = (k % 128) + 128 * Number[<<>>]
        BY <3>2, <3>4, NumberInFront
      <4> QED
        BY <3>5, <4>1
    <3>7. Number[v] = k
      BY <2>1, <3>4, <3>6
    <3> QED
      BY <2>1, <3>1, <3>2, <3>3, <3>7 DEF Shaped
  <2>2. CASE ~ (k < 128)
    <3>1. PICK q, v, w, a :
            q = k \div 128 /\ v = Varint[q] /\ w = Varint[k] /\ a = 128 + (k % 128)
      OBVIOUS
    <3>2. q \in Nat /\ q < k /\ k % 128 \in 0 .. 127 /\ k = 128 * q + (k % 128)
      BY <2>2, <3>1, Seventh
    <3>3. Shaped(v, q) /\ v \in Seq(Octet)
      BY <1>1, <3>1, <3>2, VarintDef
    <3>4. w = <<a>> \o v /\ VarintSize[k] = 1 + VarintSize[q]
      BY <2>2, <3>1, VarintDef, VarintSizeDef
    <3>5. a \in Octet /\ a >= 128 /\ a % 128 = k % 128
      BY <3>1, <3>2 DEF Octet
    <3>6. /\ w \in Seq(Octet) /\ Len(w) = Len(v) + 1 /\ w[1] = a
          /\ \A i \in 1 .. Len(v) : w[i + 1] = v[i]
      BY <3>3, <3>4, <3>5, InFront
    <3>7. /\ Len(v) = VarintSize[q] /\ Len(v) >= 1 /\ Len(v) \in Nat
          /\ \A i \in 1 .. Len(v) - 1 : v[i] >= 128
          /\ v[Len(v)] < 128 /\ Number[v] = q
      BY <3>3 DEF Shaped
    <3>8. Number[w] = k
      <4>1. Number[w] = (a % 128) + 128 * Number[v]
        BY <3>3, <3>4, <3>5, NumberInFront
      <4> QED
        BY <3>2, <3>5, <3>7, <4>1
    <3>9. \A i \in 1 .. Len(w) - 1 : w[i] >= 128
      <4> TAKE i \in 1 .. Len(w) - 1
      <4>1. CASE i = 1
        BY <3>5, <3>6, <4>1
      <4>2. CASE i # 1
        <5>1. i - 1 \in 1 .. Len(v) - 1 /\ i - 1 \in 1 .. Len(v) /\ (i - 1) + 1 = i
          <6>1. i \in Nat /\ i >= 1 /\ i <= Len(v)
            BY <3>6, <3>7
          <6> QED
            BY <3>7, <4>2, <6>1
        <5>2. w[(i - 1) + 1] = v[i - 1] /\ v[i - 1] >= 128
          BY <3>6, <3>7, <5>1
        <5> QED
          BY <5>1, <5>2
      <4> QED
        BY <4>1, <4>2
    <3>10. w[Len(w)] < 128
      <4>1. Len(v) \in 1 .. Len(v)
        BY <3>7
      <4>2. w[Len(v) + 1] = v[Len(v)]
        BY <3>6, <4>1
      <4> QED
        BY <3>6, <3>7, <4>2
    <3>11. Len(w) = VarintSize[k] /\ Len(w) >= 1
      BY <3>4, <3>6, <3>7
    <3> QED
      BY <3>1, <3>8, <3>9, <3>10, <3>11 DEF Shaped
  <2> QED
    BY <2>1, <2>2
<1>2. \A k \in Nat : k \in S
  <2>1. \A k \in Nat : (\A j \in Nat : j < k => j \in S) => k \in S
    BY <1>1
  <2> HIDE DEF S
  <2> QED
    BY <2>1, NumberInduction
<1> QED
  BY <1>2

\* Larger numbers take no fewer octets.
LEMMA VarintSizeGrows ==
  ASSUME NEW n \in Nat, NEW m \in Nat, m <= n
  PROVE  VarintSize[m] <= VarintSize[n] /\ 1 <= VarintSize[m]
<1> DEFINE S == {k \in Nat : \A j \in 0 .. k : 1 <= VarintSize[j] /\ VarintSize[j] <= VarintSize[k]}
<1>1. ASSUME NEW k \in Nat, \A j \in Nat : j < k => j \in S,
             NEW j \in 0 .. k
      PROVE  1 <= VarintSize[j] /\ VarintSize[j] <= VarintSize[k]
  <2>1. j \in Nat /\ j <= k /\ VarintSize[j] \in Nat /\ VarintSize[k] \in Nat
    BY VarintSizeDef
  <2>2. CASE k < 128
    BY <2>1, <2>2, VarintSizeDef
  <2>3. CASE ~ (k < 128)
    <3>1. PICK q, p : q = k \div 128 /\ p = j \div 128
      OBVIOUS
    <3>2. q \in Nat /\ q < k /\ p \in Nat /\ p <= q
      BY <2>1, <2>3, <3>1
    <3>3. q \in S /\ p \in 0 .. q
      BY <1>1, <3>2
    <3>4. 1 <= VarintSize[p] /\ VarintSize[p] <= VarintSize[q]
      BY <3>3
    <3>5. VarintSize[k] = 1 + VarintSize[q]
      BY <2>3, <3>1, VarintSizeDef
    <3>6. VarintSize[j] = IF j < 128 THEN 1 ELSE 1 + VarintSize[p]
      BY <2>1, <3>1, VarintSizeDef
    <3>7. VarintSize[p] \in Nat /\ VarintSize[q] \in Nat
      BY <3>2, VarintSizeDef
    <3> QED
      BY <3>4, <3>5, <3>6, <3>7
  <2> QED
    BY <2>2, <2>3
<1>2. \A k \in Nat : k \in S
  <2>1. \A k \in Nat : (\A j \in Nat : j < k => j \in S) => k \in S
    BY <1>1
  <2> HIDE DEF S
  <2> QED
    BY <2>1, NumberInduction
<1> QED
  BY <1>2

(***************************************************************************)
(* Where octets are                                                        *)
(***************************************************************************)

Place == Nat \ {0}

\* All of s is there, from a place on, ...
Sits(octets, at, s) ==
  /\ at + Len(s) <= Len(octets) + 1
  /\ \A i \in 1 .. Len(s) : octets[at + i - 1] = s[i]

\* ... or the octets end before s does.
Torn(octets, at, s) ==
  /\ Len(octets) + 1 < at + Len(s)
  /\ \A i \in 1 .. Len(octets) + 1 - at : octets[at + i - 1] = s[i]

\* What sits at a place is what is cut out there.
LEMMA SitsCut ==
  ASSUME NEW octets \in Seq(Octet), NEW at \in Place, NEW s \in Seq(Octet),
         Sits(octets, at, s)
  PROVE  SubSeq(octets, at, at + Len(s) - 1) = s
<1>1. PICK end, c : end = at + Len(s) - 1 /\ c = SubSeq(octets, at, end)
  OBVIOUS
<1>2. at \in Nat /\ at >= 1 /\ Len(s) \in Nat /\ Len(octets) \in Nat /\ end \in Int
  BY <1>1 DEF Place
<1>3. end <= Len(octets)
  BY <1>1, <1>2 DEF Sits
<1>4. \A i \in at .. end : octets[i] \in Octet
  <2>1. \A i \in at .. end : i \in 1 .. Len(octets)
    BY <1>2, <1>3
  <2> QED
    BY <2>1, ElementOfSeq
<1>5. /\ c \in Seq(Octet) /\ Len(c) = IF at <= end THEN end - at + 1 ELSE 0
      /\ \A i \in 1 .. end - at + 1 : c[i] = octets[at + i - 1]
  BY <1>1, <1>2, <1>4, SubSeqProperties
<1>6. Len(c) = Len(s) /\ end - at + 1 = Len(s)
  BY <1>1, <1>2, <1>5
<1>7. \A i \in 1 .. Len(c) : c[i] = s[i]
  BY <1>5, <1>6 DEF Sits
<1> QED
  BY <1>1, <1>5, <1>6, <1>7, SeqEqual

\* Two pieces in a row sit at a place when the second sits behind the first.
LEMMA SitsConcat ==
  ASSUME NEW octets \in Seq(Octet), NEW at \in Place,
         NEW s \in Seq(Octet), NEW t \in Seq(Octet)
  PROVE  Sits(octets, at, s \o t) <=> Sits(octets, at, s) /\ Sits(octets, at + Len(s), t)
<1>1. PICK w : w = s \o t
  OBVIOUS
<1>2. /\ Len(w) = Len(s) + Len(t)
      /\ \A i \in 1 .. Len(s) + Len(t) : w[i] = IF i <= Len(s) THEN s[i] ELSE t[i - Len(s)]
  BY <1>1, ConcatProperties
<1>3. at \in Nat /\ Len(s) \in Nat /\ Len(t) \in Nat /\ Len(octets) \in Nat
  BY DEF Place
<1>4. ASSUME Sits(octets, at, w)
      PROVE  Sits(octets, at, s) /\ Sits(octets, at + Len(s), t)
  <2>1. at + Len(w) <= Len(octets) + 1 /\ \A i \in 1 .. Len(w) : octets[at + i - 1] = w[i]
    BY <1>4 DEF Sits
  <2>2. at + Len(s) <= Len(octets) + 1 /\ (at + Len(s)) + Len(t) <= Len(octets) + 1
    BY <1>2, <1>3, <2>1
  <2>3. \A i \in 1 .. Len(s) : octets[at + i - 1] = s[i]
    <3> TAKE i \in 1 .. Len(s)
    <3>1. i \in 1 .. Len(s) + Len(t) /\ i <= Len(s)
      BY <1>3
    <3> QED
      BY <1>2, <2>1, <3>1
  <2>4. \A i \in 1 .. Len(t) : octets[(at + Len(s)) + i - 1] = t[i]
    <3> TAKE i \in 1 .. Len(t)
    <3>1. PICK j : j = Len(s) + i
      OBVIOUS
    <3>2. /\ j \in 1 .. Len(s) + Len(t) /\ ~ (j <= Len(s)) /\ j - Len(s) = i
          /\ (at + Len(s)) + i - 1 = at + j - 1
      BY <1>3, <3>1
    <3>3. octets[at + j - 1] = w[j] /\ w[j] = t[i]
      BY <1>2, <2>1, <3>2
    <3> QED
      BY <3>2, <3>3
  <2> QED
    BY <2>2, <2>3, <2>4 DEF Sits
<1>5. ASSUME Sits(octets, at, s), Sits(octets, at + Len(s), t)
      PROVE  Sits(octets, at, w)
  <2>1. /\ (at + Len(s)) + Len(t) <= Len(octets) + 1
        /\ \A i \in 1 .. Len(s) : octets[at + i - 1] = s[i]
        /\ \A i \in 1 .. Len(t) : octets[(at + Len(s)) + i - 1] = t[i]
    BY <1>5 DEF Sits
  <2>2. at + Len(w) <= Len(octets) + 1
    BY <1>2, <1>3, <2>1
  <2>3. \A i \in 1 .. Len(w) : octets[at + i - 1] = w[i]
    <3> TAKE i \in 1 .. Len(w)
    <3>1. i \in 1 .. Len(s) + Len(t)
      BY <1>2
    <3>2. CASE i <= Len(s)
      <4>1. i \in 1 .. Len(s)
        BY <1>3, <3>1, <3>2
      <4> QED
        BY <1>2, <2>1, <3>1, <3>2, <4>1
    <3>3. CASE ~ (i <= Len(s))
      <4>1. PICK j : j = i - Len(s)
        OBVIOUS
      <4>2. j \in 1 .. Len(t) /\ (at + Len(s)) + j - 1 = at + i - 1
        BY <1>3, <3>1, <3>3, <4>1
      <4>3. octets[(at + Len(s)) + j - 1] = t[j] /\ w[i] = t[j]
        BY <1>2, <2>1, <3>1, <3>3, <4>1, <4>2
      <4> QED
        BY <4>2, <4>3
    <3> QED
      BY <3>2, <3>3
  <2> QED
    BY <2>2, <2>3 DEF Sits
<1> QED
  BY <1>1, <1>4, <1>5

\* Of two pieces in a row that are torn, the first is torn, or it is whole and
\* the second is torn.
LEMMA TornConcat ==
  ASSUME NEW octets \in Seq(Octet), NEW at \in Place,
         NEW s \in Seq(Octet), NEW t \in Seq(Octet), Torn(octets, at, s \o t)
  PROVE  Torn(octets, at, s) \/ (Sits(octets, at, s) /\ Torn(octets, at + Len(s), t))
<1>1. PICK w : w = s \o t
  OBVIOUS
<1>2. /\ Len(w) = Len(s) + Len(t)
      /\ \A i \in 1 .. Len(s) + Len(t) : w[i] = IF i <= Len(s) THEN s[i] ELSE t[i - Len(s)]
  BY <1>1, ConcatProperties
<1>3. at \in Nat /\ Len(s) \in Nat /\ Len(t) \in Nat /\ Len(octets) \in Nat
  BY DEF Place
<1>4. /\ Len(octets) + 1 < at + Len(w)
      /\ \A i \in 1 .. Len(octets) + 1 - at : octets[at + i - 1] = w[i]
  BY <1>1 DEF Torn
<1>5. CASE Len(octets) + 1 < at + Len(s)
  <2>1. \A i \in 1 .. Len(octets) + 1 - at : octets[at + i - 1] = s[i]
    <3> TAKE i \in 1 .. Len(octets) + 1 - at
    <3>1. i \in 1 .. Len(s) + Len(t) /\ i <= Len(s)
      BY <1>3, <1>5
    <3> QED
      BY <1>2, <1>4, <3>1
  <2> QED
    BY <1>5, <2>1 DEF Torn
<1>6. CASE ~ (Len(octets) + 1 < at + Len(s))
  <2>1. \A i \in 1 .. Len(s) : octets[at + i - 1] = s[i]
    <3> TAKE i \in 1 .. Len(s)
    <3>1. i \in 1 .. Len(s) + Len(t) /\ i <= Len(s) /\ i \in 1 .. Len(octets) + 1 - at
      BY <1>3, <1>6
    <3> QED
      BY <1>2, <1>4, <3>1
  <2>2. \A i \in 1 .. Len(octets) + 1 - (at + Len(s)) : octets[(at + Len(s)) + i - 1] = t[i]
    <3> TAKE i \in 1 .. Len(octets) + 1 - (at + Len(s))
    <3>1. PICK j : j = Len(s) + i
      OBVIOUS
    <3>2. i \in Nat /\ i >= 1 /\ i + (at + Len(s)) <= Len(octets) + 1
      BY <1>3
    <3>3. Len(octets) + 1 < at + (Len(s) + Len(t))
      BY <1>2, <1>4
    <3>4. /\ j \in 1 .. Len(octets) + 1 - at /\ j \in 1 .. Len(s) + Len(t)
          /\ ~ (j <= Len(s)) /\ j - Len(s) = i /\ (at + Len(s)) + i - 1 = at + j - 1
      BY <1>3, <3>1, <3>2, <3>3
    <3>5. octets[at + j - 1] = w[j] /\ w[j] = t[i]
      BY <1>2, <1>4, <3>4
    <3> QED
      BY <3>4, <3>5
  <2>3. Len(octets) + 1 < (at + Len(s)) + Len(t) /\ at + Len(s) <= Len(octets) + 1
    BY <1>2, <1>3, <1>4, <1>6
  <2> QED
    BY <2>1, <2>2, <2>3 DEF Sits, Torn
<1> QED
  BY <1>5, <1>6

(***************************************************************************)
(* Reading what was written                                                *)
(***************************************************************************)

\* Octets are natural numbers up to 255.
LEMMA OctetIsNumber ==
  \A x \in Octet : x \in Nat /\ x <= 255
BY DEF Octet

\* The least of some numbers.
LEMMA MinOf ==
  ASSUME NEW S, S \subseteq Int, NEW a \in S, \A k \in S : a <= k
  PROVE  Min(S) = a
<1>1. PICK b : b = Min(S)
  OBVIOUS
<1>2. \E x \in S : \A y \in S : x =< y
  OBVIOUS
<1>3. b \in S /\ \A y \in S : b =< y
  BY <1>1, <1>2, Zenon DEF Min
<1>4. b <= a /\ a <= b /\ a \in Int /\ b \in Int
  BY <1>3
<1> QED
  BY <1>1, <1>4

\* A varint that is there in full is read as its number, ...
LEMMA ReadVarintThere ==
  ASSUME NEW octets \in Seq(Octet), NEW at \in Place, NEW n \in Nat, n < Wide,
         Sits(octets, at, Varint[n])
  PROVE  ReadVarint(octets, at) = Got(n, at + Len(Varint[n]))
<1>1. PICK v, l, end, max :
        v = Varint[n] /\ l = Len(v) /\ end = at + l - 1 /\ max = VarintMax
  OBVIOUS
<1>2. v \in Seq(Octet) /\ Shaped(v, n) /\ at \in Nat /\ at >= 1
  <2>1. Varint[n] \in Seq(Octet) /\ Shaped(Varint[n], n)
    BY VarintDef, VarintShape
  <2> QED
    BY <1>1, <2>1 DEF Place
<1>3. l \in Nat /\ l >= 1 /\ l = VarintSize[n]
  BY <1>1, <1>2 DEF Shaped
<1>4. max \in Nat /\ l <= max
  <2>1. Wide \in Nat /\ Wide - 1 \in Nat /\ n <= Wide - 1
    BY WidthAssumption
  <2> QED
    BY <1>1, <1>3, <2>1, VarintSizeDef, VarintSizeGrows DEF VarintMax
<1>5. Len(octets) \in Nat /\ end \in Nat /\ end <= Len(octets)
  BY <1>1, <1>2, <1>3 DEF Sits
<1>6. \A i \in 1 .. l : octets[at + i - 1] = v[i]
  BY <1>1 DEF Sits
<1>7. PICK E : E = {i \in at .. at + max - 1 : i <= Len(octets) /\ octets[i] < 128}
  OBVIOUS
<1>8. end \in E
  <2>1. l \in 1 .. l /\ at + l - 1 = end
    BY <1>1, <1>3
  <2>2. octets[end] = v[l] /\ v[l] < 128
    BY <1>1, <1>2, <1>6, <2>1 DEF Shaped
  <2>3. end \in at .. at + max - 1
    BY <1>1, <1>2, <1>3, <1>4
  <2> QED
    BY <1>5, <1>7, <2>2, <2>3
<1>9. ASSUME NEW k \in E
      PROVE  end <= k
  <2>1. k \in Nat /\ at <= k /\ octets[k] < 128
    BY <1>2, <1>4, <1>7
  <2>2. CASE k < end
    <3>1. PICK i : i = k - at + 1
      OBVIOUS
    <3>2. i \in 1 .. l - 1 /\ i \in 1 .. l /\ at + i - 1 = k
      BY <1>1, <1>2, <1>3, <2>1, <2>2, <3>1
    <3>3. octets[k] = v[i] /\ v[i] >= 128
      BY <1>1, <1>2, <1>6, <3>2 DEF Shaped
    <3>4. v[i] \in Nat
      <4>1. i \in 1 .. Len(v)
        BY <1>1, <3>2
      <4>2. v[i] \in Octet
        BY <1>2, <4>1, ElementOfSeq
      <4> QED
        BY <4>2, OctetIsNumber
    <3> QED
      BY <2>1, <3>3, <3>4
  <2> QED
    BY <1>5, <2>1, <2>2
<1>10. Min(E) = end
  <2>1. E \subseteq Int
    BY <1>2, <1>4, <1>7
  <2> QED
    BY <1>8, <1>9, <2>1, MinOf
<1>11. SubSeq(octets, at, end) = v
  BY <1>1, <1>2, SitsCut
<1>12. Number[v] = n /\ n % Wide = n /\ end + 1 = at + l
  <2>1. Number[v] = n
    BY <1>2 DEF Shaped
  <2>2. n % Wide = n
    BY WidthAssumption
  <2> QED
    BY <1>1, <1>2, <1>3, <2>1, <2>2
<1>13. E # {}
  BY <1>8
<1>14. ReadVarint(octets, at) =
         IF E = {} THEN Failed
         ELSE Got(Number[SubSeq(octets, at, Min(E))] % Wide, Min(E) + 1)
  BY <1>1, <1>7, Zenon DEF ReadVarint
<1>15. ReadVarint(octets, at) = Got(Number[SubSeq(octets, at, end)] % Wide, end + 1)
  BY <1>10, <1>13, <1>14, Zenon
<1> QED
  BY <1>1, <1>11, <1>12, <1>15, Zenon

\* ... and one that is cut is not read.
LEMMA ReadVarintTorn ==
  ASSUME NEW octets \in Seq(Octet), NEW at \in Place, NEW n \in Nat,
         Torn(octets, at, Varint[n])
  PROVE  ReadVarint(octets, at) = Failed
<1>1. PICK v, max : v = Varint[n] /\ max = VarintMax
  OBVIOUS
<1>2. v \in Seq(Octet) /\ Shaped(v, n) /\ at \in Nat /\ at >= 1 /\ Len(v) \in Nat
  <2>1. Varint[n] \in Seq(Octet) /\ Shaped(Varint[n], n)
    BY VarintDef, VarintShape
  <2> QED
    BY <1>1, <2>1 DEF Place
<1>3. max \in Nat
  <2>1. Wide - 1 \in Nat
    BY WidthAssumption
  <2> QED
    BY <1>1, <2>1, VarintSizeDef DEF VarintMax
<1>4. PICK E : E = {i \in at .. at + max - 1 : i <= Len(octets) /\ octets[i] < 128}
  OBVIOUS
<1>5. ASSUME NEW k \in E
      PROVE  FALSE
  <2>1. k \in Nat /\ at <= k /\ k <= Len(octets) /\ octets[k] < 128
    BY <1>2, <1>3, <1>4
  <2>2. PICK i : i = k - at + 1
    OBVIOUS
  <2>3. Len(octets) + 1 < at + Len(v) /\ Len(octets) \in Nat
    BY <1>1 DEF Torn
  <2>4. /\ i \in 1 .. Len(octets) + 1 - at /\ i \in 1 .. Len(v) - 1
        /\ i \in 1 .. Len(v) /\ at + i - 1 = k
    BY <1>2, <2>1, <2>2, <2>3
  <2>5. octets[k] = v[i] /\ v[i] >= 128
    BY <1>1, <1>2, <2>4 DEF Torn, Shaped
  <2>6. v[i] \in Nat
    <3>1. v[i] \in Octet
      BY <1>2, <2>4, ElementOfSeq
    <3> QED
      BY <3>1, OctetIsNumber
  <2> QED
    BY <2>1, <2>5, <2>6
<1>6. E = {}
  BY <1>5
<1>7. ReadVarint(octets, at) =
        IF E = {} THEN Failed
        ELSE Got(Number[SubSeq(octets, at, Min(E))] % Wide, Min(E) + 1)
  BY <1>1, <1>4, Zenon DEF ReadVarint
<1> QED
  BY <1>6, <1>7, Zenon

\* A length and the octets it announces are as long as DelimitedSize says.
LEMMA DelimitedType ==
  ASSUME NEW s \in Seq(Octet)
  PROVE  /\ Varint[Len(s)] \in Seq(Octet) /\ Delimited(s) \in Seq(Octet)
         /\ Len(Delimited(s)) = VarintSize[Len(s)] + Len(s)
<1>1. PICK v : v = Varint[Len(s)]
  OBVIOUS
<1>2. Len(s) \in Nat
  OBVIOUS
<1>3. v \in Seq(Octet) /\ Len(v) = VarintSize[Len(s)]
  BY <1>1, <1>2, VarintDef, VarintShape DEF Shaped
<1>4. v \o s \in Seq(Octet) /\ Len(v \o s) = Len(v) + Len(s)
  BY <1>3, ConcatProperties
<1> QED
  BY <1>1, <1>3, <1>4 DEF Delimited

\* The same of octets with their length in front.
LEMMA ReadDelimitedThere ==
  ASSUME NEW octets \in Seq(Octet), Len(octets) < Wide, NEW at \in Place,
         NEW s \in Seq(Octet), Sits(octets, at, Delimited(s))
  PROVE  ReadDelimited(octets, at) = Got(s, at + Len(Delimited(s)))
<1>1. PICK n, v, next : n = Len(s) /\ v = Varint[n] /\ next = at + Len(v)
  OBVIOUS
<1>2. /\ n \in Nat /\ v \in Seq(Octet) /\ Len(v) \in Nat /\ Len(octets) \in Nat
      /\ at \in Nat /\ at >= 1
  <2>1. v \in Seq(Octet)
    BY <1>1, DelimitedType
  <2>2. n \in Nat /\ Len(octets) \in Nat
    BY <1>1
  <2>3. at \in Nat /\ at >= 1
    BY DEF Place
  <2> QED
    BY <2>1, <2>2, <2>3
<1>3. Sits(octets, at, v) /\ Sits(octets, next, s)
  BY <1>1, <1>2, SitsConcat DEF Delimited
<1>4. next \in Place /\ next \in Nat
  BY <1>1, <1>2 DEF Place
<1>5. next + n <= Len(octets) + 1 /\ n < Wide
  <2>1. next + n <= Len(octets) + 1
    BY <1>1, <1>3 DEF Sits
  <2>2. next >= 1 /\ Wide \in Nat
    BY <1>1, <1>2, WidthAssumption
  <2> QED
    BY <1>2, <1>4, <2>1, <2>2
<1>6. ReadVarint(octets, at) = Got(n, next)
  BY <1>1, <1>2, <1>3, <1>5, ReadVarintThere
<1>7. SubSeq(octets, next, next + n - 1) = s
  BY <1>1, <1>3, <1>4, SitsCut
<1>8. ReadDelimited(octets, at) =
        IF next + n - 1 > Len(octets) THEN Failed
        ELSE Got(SubSeq(octets, next, next + n - 1), next + n)
  BY <1>6 DEF ReadDelimited, Then, Got
<1>9. ~ (next + n - 1 > Len(octets)) /\ next + n = at + Len(Delimited(s))
  <2>1. Len(Delimited(s)) = Len(v) + n
    BY <1>1, <1>2, ConcatProperties DEF Delimited
  <2> QED
    BY <1>1, <1>2, <1>4, <1>5, <2>1
<1> QED
  BY <1>7, <1>8, <1>9

\* When a length or the octets behind it are cut off, reading them fails.
LEMMA ReadDelimitedTorn ==
  ASSUME NEW octets \in Seq(Octet), NEW at \in Place,
         NEW s \in Seq(Octet), Len(s) < Wide, Torn(octets, at, Delimited(s))
  PROVE  ReadDelimited(octets, at) = Failed
<1>1. PICK n, v, next : n = Len(s) /\ v = Varint[n] /\ next = at + Len(v)
  OBVIOUS
<1>2. /\ n \in Nat /\ v \in Seq(Octet) /\ Len(v) \in Nat /\ Len(octets) \in Nat
      /\ at \in Nat /\ at >= 1
  <2>1. v \in Seq(Octet)
    BY <1>1, DelimitedType
  <2>2. n \in Nat /\ Len(octets) \in Nat
    BY <1>1
  <2>3. at \in Nat /\ at >= 1
    BY DEF Place
  <2> QED
    BY <2>1, <2>2, <2>3
<1>3. Torn(octets, at, v) \/ (Sits(octets, at, v) /\ Torn(octets, next, s))
  BY <1>1, <1>2, TornConcat DEF Delimited
<1>4. CASE Torn(octets, at, v)
  <2>1. ReadVarint(octets, at) = Failed
    BY <1>1, <1>2, <1>4, ReadVarintTorn
  <2> QED
    BY <2>1 DEF ReadDelimited, Then, Failed
<1>5. CASE Sits(octets, at, v) /\ Torn(octets, next, s)
  <2>1. ReadVarint(octets, at) = Got(n, next)
    BY <1>1, <1>2, <1>5, ReadVarintThere
  <2>2. ReadDelimited(octets, at) =
          IF next + n - 1 > Len(octets) THEN Failed
          ELSE Got(SubSeq(octets, next, next + n - 1), next + n)
    BY <2>1 DEF ReadDelimited, Then, Got
  <2>3. next + n - 1 > Len(octets)
    BY <1>1, <1>2, <1>5 DEF Torn
  <2> QED
    BY <2>2, <2>3
<1> QED
  BY <1>3, <1>4, <1>5

(***************************************************************************)
(* The values of numbers                                                   *)
(***************************************************************************)

NumberTypes == {"bool", "uint32", "int32", "int64"}

\* A multiple of b and a remainder: taking the remainder finds it.
LEMMA Remainder ==
  ASSUME NEW b \in Nat, NEW k \in Int, NEW r \in Nat, r < b
  PROVE  (b * k + r) % b = r
<1>1. PICK x, q, s, d : x = b * k + r /\ q = x \div b /\ s = x % b /\ d = k - q
  OBVIOUS
<1>2. b >= 1 /\ x \in Int /\ q \in Int /\ s \in 0 .. b - 1 /\ x = b * q + s /\ d \in Int
  <2>1. b >= 1 /\ x \in Int
    BY <1>1
  <2>2. q \in Int /\ s \in 0 .. b - 1 /\ x = b * q + s
    BY <1>1, <2>1
  <2> QED
    BY <1>1, <2>1, <2>2
<1>3. b * d = s - r
  <2>1. b * (k - q) = b * k - b * q
    BY <1>2
  <2>2. b * k \in Int /\ b * q \in Int
    BY <1>2
  <2>3. x = b * k + r /\ x = b * q + s /\ d = k - q
    BY <1>1, <1>2
  <2>4. b * k - b * q = s - r
    BY <1>2, <2>2, <2>3
  <2> QED
    BY <2>1, <2>3, <2>4
<1>4. d = 0
  <2>1. CASE d >= 1
    <3>1. b * d >= b
      BY <1>2, <2>1
    <3> QED
      BY <1>2, <1>3, <3>1
  <2>2. CASE d <= -1
    <3>1. b * d <= -b
      BY <1>2, <2>2
    <3> QED
      BY <1>2, <1>3, <3>1
  <2> QED
    BY <1>2, <2>1, <2>2
<1> QED
  BY <1>1, <1>2, <1>3, <1>4

\* A wide number is some narrow ones wide.
LEMMA Widths ==
  /\ Narrow \in Nat /\ Wide \in Nat /\ 256 <= Narrow /\ Narrow <= Wide
  /\ \E q \in Nat : Wide = Narrow * q
<1>1. Narrow \in Nat /\ Wide \in Nat /\ 256 <= Narrow /\ Narrow <= Wide /\ Wide % Narrow = 0
  BY WidthAssumption
<1>2. Wide = Narrow * (Wide \div Narrow) + (Wide % Narrow) /\ Wide \div Narrow \in Nat
  BY <1>1
<1> QED
  BY <1>1, <1>2

\* The low half of a negative number's complement, of either width.
LEMMA Complement ==
  ASSUME NEW width \in {Narrow, Wide}, NEW v \in Signed(width)
  PROVE  LET n   == IF v < 0 THEN v + Wide ELSE v
             low == n % width
         IN  /\ n \in Nat /\ n < Wide
             /\ (IF 2 * low >= width THEN low - width ELSE low) = v
<1>1. PICK q \in Nat : Wide = Narrow * q
  BY Widths
<1>2. width \in Nat /\ 256 <= width /\ width <= Wide /\ Wide \in Nat /\ Narrow \in Nat
  BY Widths
<1>3. PICK h : h = width \div 2
  OBVIOUS
<1>4. h \in Nat /\ 2 * h <= width /\ width <= 2 * h + 1
  BY <1>2, <1>3
<1>5. v \in Int /\ -h <= v /\ v <= h - 1
  BY <1>3, <1>4 DEF Signed
<1>6. CASE v >= 0
  <2>1. v \in Nat /\ v < width /\ v % width = v
    BY <1>2, <1>4, <1>5, <1>6
  <2> QED
    BY <1>2, <1>4, <1>5, <1>6, <2>1
<1>7. CASE v < 0
  <2>1. PICK n, r : n = v + Wide /\ r = v + width
    OBVIOUS
  <2>2. n \in Nat /\ n < Wide /\ r \in Nat /\ r < width
    BY <1>2, <1>4, <1>5, <1>7, <2>1
  <2>3. \E k \in Int : n = width * k + r
    <3>1. CASE width = Wide
      BY <1>2, <1>5, <2>1, <3>1
    <3>2. CASE width = Narrow
      <4>1. Narrow * (q - 1) = Narrow * q - Narrow
        BY <1>1, <1>2
      <4>2. n = Narrow * (q - 1) + r /\ q - 1 \in Int
        BY <1>1, <1>2, <1>5, <2>1, <3>2, <4>1
      <4> QED
        BY <3>2, <4>2
    <3> QED
      BY <3>1, <3>2
  <2>4. n % width = r
    <3>1. PICK k \in Int : n = width * k + r
      BY <2>3
    <3> QED
      BY <1>2, <2>2, <3>1, Remainder
  <2>5. 2 * r >= width /\ r - width = v
    BY <1>2, <1>4, <1>5, <2>1
  <2> QED
    BY <1>7, <2>1, <2>2, <2>4, <2>5
<1> QED
  BY <1>5, <1>6, <1>7

\* A bool goes out as 0 or 1.
LEMMA UnsignedBool ==
  ASSUME NEW v \in BOOLEAN
  PROVE  Unsigned("bool", v) = IF v THEN 1 ELSE 0
BY Zenon DEF Unsigned

\* A number goes out as it is, or as its complement to Wide.
LEMMA UnsignedNumber ==
  ASSUME NEW type, type # "bool", NEW v
  PROVE  Unsigned(type, v) = IF v < 0 THEN v + Wide ELSE v
BY Zenon DEF Unsigned

\* A bool is read as whether the number differs from 0.
LEMMA FromBool ==
  ASSUME NEW n
  PROVE  FromUnsigned("bool", n) = (n # 0)
BY Zenon DEF FromUnsigned

\* An unsigned number is read without what is above 32 bits.
LEMMA FromUint32 ==
  ASSUME NEW n
  PROVE  FromUnsigned("uint32", n) = n % Narrow
<1>1. "uint32" # "bool" /\ "uint32" # "int64"
  OBVIOUS
<1> QED
  BY <1>1, Zenon DEF FromUnsigned

\* A signed number is read without what is above its width, and negative when its
\* top bit is set.
LEMMA FromSigned ==
  ASSUME NEW type \in {"int32", "int64"}, NEW n, NEW width,
         width = IF type = "int64" THEN Wide ELSE Narrow
  PROVE  FromUnsigned(type, n) =
           IF 2 * (n % width) >= width THEN (n % width) - width ELSE n % width
<1>1. type # "bool" /\ type # "uint32"
  OBVIOUS
<1> QED
  BY <1>1, Zenon DEF FromUnsigned

\* What is written of a number gives the number again.
LEMMA NumberBack ==
  ASSUME NEW type \in NumberTypes, NEW v \in Element(type)
  PROVE  /\ Unsigned(type, v) \in Nat /\ Unsigned(type, v) < Wide
         /\ FromUnsigned(type, Unsigned(type, v)) = v
<1>0. Narrow \in Nat /\ Wide \in Nat /\ 256 <= Narrow /\ Narrow <= Wide
  BY Widths
<1>1. CASE type = "bool"
  <2>1. v \in BOOLEAN
    BY <1>1 DEF Element
  <2>2. PICK n : n = Unsigned("bool", v)
    OBVIOUS
  <2>3. n = IF v THEN 1 ELSE 0
    BY <2>1, <2>2, UnsignedBool
  <2>4. n \in Nat /\ n < Wide
    BY <1>0, <2>3
  <2>5. FromUnsigned("bool", n) = (n # 0)
    BY FromBool
  <2>6. (n # 0) = v
    <3>1. n # 0 <=> v
      BY <2>1, <2>3
    <3>2. (n # 0) \in BOOLEAN
      OBVIOUS
    <3> QED
      BY <2>1, <3>1, <3>2
  <2> QED
    BY <1>1, <2>2, <2>4, <2>5, <2>6
<1>2. CASE type = "uint32"
  <2>1. v \in 0 .. Narrow - 1
    BY <1>2 DEF Element
  <2>2. v \in Nat /\ v < Narrow /\ ~ (v < 0) /\ v % Narrow = v /\ v < Wide
    BY <1>0, <2>1
  <2>3. Unsigned(type, v) = v
    BY <1>2, <2>2, UnsignedNumber
  <2>4. FromUnsigned("uint32", v) = v % Narrow
    BY FromUint32
  <2> QED
    BY <1>2, <2>2, <2>3, <2>4
<1>3. CASE type \in {"int32", "int64"}
  <2>1. PICK width : width = IF type = "int64" THEN Wide ELSE Narrow
    OBVIOUS
  <2>2. v \in Signed(width) /\ width \in {Narrow, Wide}
    <3>1. CASE type = "int32"
      BY <2>1, <3>1 DEF Element
    <3>2. CASE type = "int64"
      BY <2>1, <3>2 DEF Element
    <3> QED
      BY <1>3, <3>1, <3>2
  <2>3. PICK n : n = IF v < 0 THEN v + Wide ELSE v
    OBVIOUS
  <2>4. /\ n \in Nat /\ n < Wide
        /\ (IF 2 * (n % width) >= width THEN (n % width) - width ELSE n % width) = v
    BY <2>2, <2>3, Complement
  <2>5. Unsigned(type, v) = n
    BY <1>3, <2>3, UnsignedNumber
  <2>6. FromUnsigned(type, n) = v
    BY <1>3, <2>1, <2>4, FromSigned
  <2> QED
    BY <2>4, <2>5, <2>6
<1> QED
  BY <1>1, <1>2, <1>3 DEF NumberTypes

\* A number of any type that is there in full is read as it was written.
LEMMA ReadNumberThere ==
  ASSUME NEW type \in NumberTypes, NEW v \in Element(type),
         NEW octets \in Seq(Octet), NEW at \in Place,
         Sits(octets, at, Varint[Unsigned(type, v)])
  PROVE  ReadNumber(type, octets, at) = Got(v, at + Len(Varint[Unsigned(type, v)]))
<1>1. PICK n : n = Unsigned(type, v)
  OBVIOUS
<1>2. n \in Nat /\ n < Wide /\ FromUnsigned(type, n) = v
  BY <1>1, NumberBack
<1>3. ReadVarint(octets, at) = Got(n, at + Len(Varint[n]))
  BY <1>1, <1>2, ReadVarintThere
<1>4. ReadNumber(type, octets, at) = Got(FromUnsigned(type, n), at + Len(Varint[n]))
  BY <1>3 DEF ReadNumber, Then, Got
<1> QED
  BY <1>1, <1>2, <1>4

\* A number that is cut off is not read.
LEMMA ReadNumberTorn ==
  ASSUME NEW type \in NumberTypes, NEW v \in Element(type),
         NEW octets \in Seq(Octet), NEW at \in Place,
         Torn(octets, at, Varint[Unsigned(type, v)])
  PROVE  ReadNumber(type, octets, at) = Failed
<1>1. ReadVarint(octets, at) = Failed
  BY NumberBack, ReadVarintTorn
<1> QED
  BY <1>1 DEF ReadNumber, Then, Failed

(***************************************************************************)
(* Pieces put together                                                     *)
(***************************************************************************)

\* g[k] is the first k of the n pieces, one after the other.
Joins(g, n, pieces) ==
  /\ \A k \in 0 .. n : g[k] \in Seq(Octet)
  /\ \A k \in 1 .. n : pieces[k] \in Seq(Octet)
  /\ g[0] = <<>>
  /\ \A k \in 1 .. n : g[k] = g[k - 1] \o pieces[k]

\* h[k] is the sum of the first k of the n numbers.
Sums(h, n, sizes) ==
  /\ \A k \in 0 .. n : h[k] \in Nat
  /\ \A k \in 1 .. n : sizes[k] \in Nat
  /\ h[0] = 0
  /\ \A k \in 1 .. n : h[k] = h[k - 1] + sizes[k]

\* FlattenSeq joins the pieces from the first to the last.
LEMMA Flattening ==
  ASSUME NEW n \in Nat, NEW pieces \in [1 .. n -> Seq(Octet)]
  PROVE  \E g : Joins(g, n, pieces) /\ g[n] = FlattenSeq(pieces)
<1>1. Len(pieces) = n
  <2>1. pieces \in Seq(Seq(Octet)) /\ DOMAIN pieces = 1 .. n
    OBVIOUS
  <2> QED
    BY <2>1
<1>2. CASE n = 0
  <2>1. pieces = <<>>
    BY <1>2
  <2>2. PICK g : g = [k \in 0 .. 0 |-> <<>>]
    OBVIOUS
  <2>3. g[0] = <<>> /\ <<>> \in Seq(Octet)
    BY <2>2
  <2>4. Joins(g, n, pieces)
    <3>1. 0 .. n = {0} /\ 1 .. n = {}
      BY <1>2
    <3> QED
      BY <2>3, <3>1, Zenon DEF Joins
  <2>5. FlattenSeq(pieces) = pieces
    BY <1>1, <1>2, Zenon DEF FlattenSeq
  <2> QED
    BY <1>2, <2>1, <2>3, <2>4, <2>5
<1>3. CASE n # 0
  <2> DEFINE Def(f) ==
        [i \in 1 .. Len(pieces) |-> IF i = 1 THEN pieces[i] ELSE f[i - 1] \o pieces[i]]
  <2>1. \E f \in [1 .. n -> Seq(Octet)] : f = Def(f)
    <3>1. PICK D, T, rank, B, pred, step :
            /\ D = 1 .. n /\ T = Seq(Octet) /\ rank = [k \in D |-> k] /\ B = {1}
            /\ pred = [k \in D |-> IF k = 1 THEN 1 ELSE k - 1]
            /\ step = [p \in D \X T |-> p[2] \o pieces[p[1]]]
      OBVIOUS
    <3>2. rank \in [D -> Nat] /\ pred \in [D -> D] /\ pieces \in [D -> T]
      BY <1>3, <3>1
    <3>3. step \in [D \X T -> T]
      <4>1. \A k \in D, s \in T : s \o pieces[k] \in T
        BY <3>1, ConcatProperties
      <4> QED
        BY <3>1, <4>1
    <3>4. Lowers(rank, D, B, pred)
      BY <3>1 DEF Lowers
    <3>5. PICK f \in [D -> T] : Satisfies(f, D, B, pieces, pred, step)
      BY <3>2, <3>3, <3>4, Recursion
    <3>6. ASSUME NEW i \in 1 .. n
          PROVE  f[i] = IF i = 1 THEN pieces[i] ELSE f[i - 1] \o pieces[i]
      <4>1. f[i] = IF i \in B THEN pieces[i] ELSE step[<<i, f[pred[i]]>>]
        BY <3>1, <3>5 DEF Satisfies
      <4>2. i \in B <=> i = 1
        BY <3>1
      <4>3. i # 1 => pred[i] = i - 1 /\ pred[i] \in D /\ f[pred[i]] \in T
        BY <3>1
      <4>4. ASSUME NEW s \in T
            PROVE  step[<<i, s>>] = s \o pieces[i]
        BY <3>1
      <4> QED
        BY <4>1, <4>2, <4>3, <4>4
    <3>7. f = Def(f)
      BY <1>1, <3>1, <3>6
    <3> QED
      BY <3>1, <3>7
  <2>2. PICK f : f = CHOOSE x : x = Def(x)
    OBVIOUS
  <2>3. f = Def(f)
    BY <2>1, <2>2, Zenon
  <2>4. FlattenSeq(pieces) = f[n]
    <3>1. Len(pieces) # 0
      BY <1>1, <1>3
    <3> QED
      BY <1>1, <2>2, <3>1, Zenon DEF FlattenSeq
  <2>5. \A i \in 1 .. n : f[i] = IF i = 1 THEN pieces[i] ELSE f[i - 1] \o pieces[i]
    BY <1>1, <2>3
  <2>6. \A i \in Nat : i \in 1 .. n => f[i] \in Seq(Octet)
    <3> DEFINE S == {i \in Nat : i \in 1 .. n => f[i] \in Seq(Octet)}
    <3>1. 0 \in S
      OBVIOUS
    <3>2. ASSUME NEW i \in Nat, i \in S
          PROVE  i + 1 \in S
      <4> SUFFICES ASSUME i + 1 \in 1 .. n
                   PROVE  f[i + 1] \in Seq(Octet)
        OBVIOUS
      <4>1. CASE i = 0
        BY <2>5, <4>1
      <4>2. CASE i # 0
        <5>1. i \in 1 .. n /\ (i + 1) - 1 = i /\ i + 1 # 1
          BY <4>2
        <5>2. f[i] \in Seq(Octet) /\ f[i + 1] = f[i] \o pieces[i + 1]
          BY <2>5, <3>2, <5>1
        <5> QED
          BY <5>2, ConcatProperties
      <4> QED
        BY <4>1, <4>2
    <3> HIDE DEF S
    <3>3. \A i \in Nat : i \in S
      BY <3>1, <3>2, StepInduction
    <3> QED
      BY <3>3 DEF S
  <2>7. PICK g : g = [k \in 0 .. n |-> IF k = 0 THEN <<>> ELSE f[k]]
    OBVIOUS
  <2>8. Joins(g, n, pieces)
    <3>1. \A k \in 0 .. n : g[k] \in Seq(Octet)
      <4> TAKE k \in 0 .. n
      <4>1. <<>> \in Seq(Octet)
        OBVIOUS
      <4>2. k # 0 => f[k] \in Seq(Octet)
        BY <2>6
      <4> QED
        BY <2>7, <4>1, <4>2
    <3>2. g[0] = <<>>
      BY <2>7
    <3>3. \A k \in 1 .. n : g[k] = g[k - 1] \o pieces[k]
      <4> TAKE k \in 1 .. n
      <4>1. g[k] = f[k]
        BY <2>7
      <4>2. CASE k = 1
        <5>1. g[k - 1] = <<>> /\ f[k] = pieces[k] /\ pieces[k] \in Seq(Octet)
          BY <2>5, <2>7, <4>2
        <5>2. <<>> \o pieces[k] = pieces[k]
          BY <5>1
        <5> QED
          BY <4>1, <5>1, <5>2
      <4>3. CASE k # 1
        <5>1. k - 1 \in 0 .. n /\ k - 1 # 0
          BY <4>3
        <5>2. g[k - 1] = f[k - 1]
          BY <2>7, <5>1
        <5>3. f[k] = f[k - 1] \o pieces[k]
          BY <2>5, <4>3
        <5> QED
          BY <4>1, <5>2, <5>3
      <4> QED
        BY <4>2, <4>3
    <3> QED
      BY <3>1, <3>2, <3>3 DEF Joins
  <2>9. g[n] = f[n]
    BY <1>3, <2>7
  <2> QED
    BY <2>4, <2>8, <2>9
<1> QED
  BY <1>2, <1>3

\* Total adds the sizes from the first to the last.
LEMMA Totalling ==
  ASSUME NEW n \in Nat, NEW sizes \in [1 .. n -> Nat]
  PROVE  \E h : Sums(h, n, sizes) /\ h[n] = Total(sizes)
<1>1. Len(sizes) = n
  <2>1. sizes \in Seq(Nat) /\ DOMAIN sizes = 1 .. n
    OBVIOUS
  <2> QED
    BY <2>1
<1> DEFINE Def(f) ==
      [i \in 0 .. Len(sizes) |-> IF i = 0 THEN 0 ELSE f[i - 1] + sizes[i]]
<1>2. \E f \in [0 .. n -> Nat] : f = Def(f)
  <2>1. PICK D, T, rank, B, base, pred, step :
          /\ D = 0 .. n /\ T = Nat /\ rank = [k \in D |-> k] /\ B = {0}
          /\ base = [k \in D |-> 0]
          /\ pred = [k \in D |-> IF k = 0 THEN 0 ELSE k - 1]
          /\ step = [p \in D \X T |-> p[2] + (IF p[1] = 0 THEN 0 ELSE sizes[p[1]])]
    OBVIOUS
  <2>2. rank \in [D -> Nat] /\ base \in [D -> T]
    BY <2>1
  <2>3. pred \in [D -> D]
    BY <2>1
  <2>4. step \in [D \X T -> T]
    <3>1. \A k \in D, s \in T : s + (IF k = 0 THEN 0 ELSE sizes[k]) \in T
      <4> TAKE k \in D, s \in T
      <4>1. k # 0 => k \in 1 .. n
        BY <2>1
      <4>2. k # 0 => sizes[k] \in Nat
        BY <4>1
      <4> QED
        BY <2>1, <4>2
    <3> QED
      BY <2>1, <3>1
  <2>5. Lowers(rank, D, B, pred)
    BY <2>1 DEF Lowers
  <2>6. PICK f \in [D -> T] : Satisfies(f, D, B, base, pred, step)
    BY <2>2, <2>3, <2>4, <2>5, Recursion
  <2>7. ASSUME NEW i \in 0 .. n
        PROVE  f[i] = IF i = 0 THEN 0 ELSE f[i - 1] + sizes[i]
    <3>1. f[i] = IF i \in B THEN base[i] ELSE step[<<i, f[pred[i]]>>]
      BY <2>1, <2>6 DEF Satisfies
    <3>2. (i \in B <=> i = 0) /\ base[i] = 0
      BY <2>1
    <3>3. i # 0 => pred[i] = i - 1 /\ pred[i] \in D /\ f[pred[i]] \in T
      BY <2>1
    <3>4. ASSUME NEW s \in T, i # 0
          PROVE  step[<<i, s>>] = s + sizes[i]
      BY <2>1, <3>4
    <3> QED
      BY <3>1, <3>2, <3>3, <3>4
  <2>8. f = Def(f)
    BY <1>1, <2>1, <2>7
  <2> QED
    BY <2>1, <2>8
<1>3. PICK h : h = CHOOSE x : x = Def(x)
  OBVIOUS
<1>4. h = Def(h)
  BY <1>2, <1>3, Zenon
<1>5. Total(sizes) = h[n]
  BY <1>1, <1>3, Zenon DEF Total
<1>6. \A i \in 0 .. n : h[i] = IF i = 0 THEN 0 ELSE h[i - 1] + sizes[i]
  BY <1>1, <1>4
<1>7. \A i \in Nat : i \in 0 .. n => h[i] \in Nat
  <2> DEFINE S == {i \in Nat : i \in 0 .. n => h[i] \in Nat}
  <2>1. 0 \in S
    BY <1>6
  <2>2. ASSUME NEW i \in Nat, i \in S
        PROVE  i + 1 \in S
    <3> SUFFICES ASSUME i + 1 \in 0 .. n
                 PROVE  h[i + 1] \in Nat
      OBVIOUS
    <3>1. i \in 0 .. n /\ (i + 1) - 1 = i /\ i + 1 # 0 /\ i + 1 \in 1 .. n
      OBVIOUS
    <3>2. h[i] \in Nat /\ h[i + 1] = h[i] + sizes[i + 1] /\ sizes[i + 1] \in Nat
      BY <1>6, <2>2, <3>1
    <3> QED
      BY <3>2
  <2> HIDE DEF S
  <2>3. \A i \in Nat : i \in S
    BY <2>1, <2>2, StepInduction
  <2> QED
    BY <2>3 DEF S
<1>8. Sums(h, n, sizes)
  <2>1. \A k \in 0 .. n : h[k] \in Nat
    BY <1>7
  <2>2. h[0] = 0 /\ \A k \in 1 .. n : h[k] = h[k - 1] + sizes[k]
    BY <1>6
  <2> QED
    BY <2>1, <2>2 DEF Sums
<1> QED
  BY <1>5, <1>8

\* Pieces are together as long as their lengths add up to.
LEMMA JoinedLength ==
  ASSUME NEW n \in Nat, NEW pieces, NEW g, Joins(g, n, pieces),
         NEW sizes, NEW h, Sums(h, n, sizes),
         \A k \in 1 .. n : Len(pieces[k]) = sizes[k]
  PROVE  \A k \in 0 .. n : Len(g[k]) = h[k]
<1> DEFINE S == {k \in Nat : k \in 0 .. n => Len(g[k]) = h[k]}
<1>1. 0 \in S
  BY DEF Joins, Sums
<1>2. ASSUME NEW k \in Nat, k \in S
      PROVE  k + 1 \in S
  <2> SUFFICES ASSUME k + 1 \in 0 .. n
               PROVE  Len(g[k + 1]) = h[k + 1]
    OBVIOUS
  <2>1. PICK j : j = k + 1
    OBVIOUS
  <2>2. k \in 0 .. n /\ j \in 1 .. n /\ j - 1 = k
    BY <2>1
  <2>3. /\ g[k] \in Seq(Octet) /\ pieces[j] \in Seq(Octet) /\ g[j] = g[k] \o pieces[j]
        /\ h[j] = h[k] + sizes[j] /\ Len(g[k]) = h[k] /\ Len(pieces[j]) = sizes[j]
    BY <1>2, <2>2 DEF Joins, Sums
  <2>4. Len(g[k] \o pieces[j]) = Len(g[k]) + Len(pieces[j])
    BY <2>3, ConcatProperties
  <2> QED
    BY <2>1, <2>3, <2>4
<1> HIDE DEF S
<1>3. \A k \in Nat : k \in S
  BY <1>1, <1>2, StepInduction
<1> QED
  BY <1>3 DEF S

\* Pieces that are there together are there one after the other, ...
OneByOne(octets, at, n, pieces, g) ==
  \A k \in 1 .. n :
    /\ at + Len(g[k - 1]) \in Place
    /\ Sits(octets, at + Len(g[k - 1]), pieces[k])
    /\ at + Len(g[k]) = (at + Len(g[k - 1])) + Len(pieces[k])

\* When the joined pieces sit somewhere, each of them sits behind those before
\* it.
LEMMA SitsPieces ==
  ASSUME NEW octets \in Seq(Octet), NEW at \in Place, NEW n \in Nat,
         NEW pieces, NEW g, Joins(g, n, pieces), Sits(octets, at, g[n])
  PROVE  OneByOne(octets, at, n, pieces, g)
<1>1. ASSUME NEW j \in 1 .. n
      PROVE  /\ g[j - 1] \in Seq(Octet) /\ pieces[j] \in Seq(Octet)
             /\ g[j] = g[j - 1] \o pieces[j]
  <2>1. j - 1 \in 0 .. n
    OBVIOUS
  <2> QED
    BY <2>1 DEF Joins
<1> DEFINE S == {i \in Nat : i <= n => Sits(octets, at, g[n - i])}
<1>2. 0 \in S
  OBVIOUS
<1>3. ASSUME NEW i \in Nat, i \in S
      PROVE  i + 1 \in S
  <2> SUFFICES ASSUME i + 1 <= n
               PROVE  Sits(octets, at, g[n - (i + 1)])
    OBVIOUS
  <2>1. PICK j : j = n - i
    OBVIOUS
  <2>2. j \in 1 .. n /\ j - 1 = n - (i + 1) /\ Sits(octets, at, g[j])
    BY <1>3, <2>1
  <2>3. Sits(octets, at, g[j - 1])
    <3>1. PICK s, t : s = g[j - 1] /\ t = pieces[j]
      OBVIOUS
    <3>2. s \in Seq(Octet) /\ t \in Seq(Octet) /\ Sits(octets, at, s \o t)
      BY <1>1, <2>2, <3>1
    <3>3. Sits(octets, at, s)
      BY <3>2, SitsConcat
    <3> QED
      BY <3>1, <3>3
  <2> QED
    BY <2>2, <2>3
<1>4. \A i \in Nat : i \in S
  <2> HIDE DEF S
  <2> QED
    BY <1>2, <1>3, StepInduction
<1>5. ASSUME NEW k \in 1 .. n
      PROVE  /\ at + Len(g[k - 1]) \in Place
             /\ Sits(octets, at + Len(g[k - 1]), pieces[k])
             /\ at + Len(g[k]) = (at + Len(g[k - 1])) + Len(pieces[k])
  <2>1. n - k \in Nat /\ n - k <= n /\ n - (n - k) = k
    OBVIOUS
  <2>2. Sits(octets, at, g[k])
    BY <1>4, <2>1
  <2>3. PICK s, t : s = g[k - 1] /\ t = pieces[k]
    OBVIOUS
  <2>4. s \in Seq(Octet) /\ t \in Seq(Octet) /\ g[k] = s \o t
    BY <1>1, <2>3
  <2>5. Sits(octets, at + Len(s), t)
    BY <2>2, <2>4, SitsConcat
  <2>6. Len(s \o t) = Len(s) + Len(t) /\ Len(s) \in Nat /\ Len(t) \in Nat
    BY <2>4, ConcatProperties
  <2>7. at \in Nat /\ at # 0
    BY DEF Place
  <2>8. at + Len(s) \in Place /\ at + Len(g[k]) = (at + Len(s)) + Len(t)
    BY <2>4, <2>6, <2>7 DEF Place
  <2> QED
    BY <2>3, <2>5, <2>8
<1> QED
  BY <1>5 DEF OneByOne

\* ... and when the octets end before them, they end within one of them.
LEMMA TornPieces ==
  ASSUME NEW octets \in Seq(Octet), NEW at \in Place, at <= Len(octets) + 1,
         NEW n \in Nat, NEW pieces, NEW g, Joins(g, n, pieces), Torn(octets, at, g[n])
  PROVE  \E k \in 1 .. n :
           /\ Sits(octets, at, g[k - 1])
           /\ Torn(octets, at + Len(g[k - 1]), pieces[k])
<1> DEFINE Within(k) == /\ Sits(octets, at, g[k - 1])
                        /\ Torn(octets, at + Len(g[k - 1]), pieces[k])
           S == {m \in Nat : m <= n /\ Torn(octets, at, g[m]) => \E k \in 1 .. m : Within(k)}
<1>1. 0 \in S
  <2>1. ~ Torn(octets, at, g[0])
    BY DEF Torn, Joins, Place
  <2> QED
    BY <2>1
<1>2. ASSUME NEW m \in Nat, m \in S
      PROVE  m + 1 \in S
  <2> SUFFICES ASSUME m + 1 <= n, Torn(octets, at, g[m + 1])
               PROVE  \E k \in 1 .. m + 1 : Within(k)
    OBVIOUS
  <2>1. PICK j : j = m + 1
    OBVIOUS
  <2>2. j \in 1 .. n /\ m \in 0 .. n /\ j - 1 = m
    BY <2>1
  <2>3. g[m] \in Seq(Octet) /\ pieces[j] \in Seq(Octet) /\ g[j] = g[m] \o pieces[j]
    BY <2>2 DEF Joins
  <2>4. \/ Torn(octets, at, g[m])
        \/ Sits(octets, at, g[m]) /\ Torn(octets, at + Len(g[m]), pieces[j])
    BY <2>1, <2>3, TornConcat
  <2>5. CASE Torn(octets, at, g[m])
    <3>1. \E k \in 1 .. m : Within(k)
      BY <1>2, <2>2, <2>5
    <3>2. 1 .. m \subseteq 1 .. m + 1
      OBVIOUS
    <3> HIDE DEF Within
    <3> QED
      BY <3>1, <3>2
  <2>6. CASE Sits(octets, at, g[m]) /\ Torn(octets, at + Len(g[m]), pieces[j])
    <3>1. Within(j)
      BY <2>2, <2>6
    <3>2. j \in 1 .. m + 1
      BY <2>1, <2>2
    <3> HIDE DEF Within
    <3> QED
      BY <3>1, <3>2
  <2> QED
    BY <2>4, <2>5, <2>6
<1>3. \A m \in Nat : m \in S
  <2> HIDE DEF S
  <2> QED
    BY <1>1, <1>2, StepInduction
<1>4. n \in S
  BY <1>3
<1> QED
  BY <1>4

(***************************************************************************)
(* The loop                                                                *)
(***************************************************************************)

\* What turns[i] is after each turn i of the loop of MergePartialFromCodedStream.
Reads(table, octets, nested, turns) ==
  \A i \in 1 .. Len(octets) :
    turns[i] = IF Ended(octets, turns[i - 1]) THEN turns[i - 1]
               ELSE ReadTagged(table, octets, turns[i - 1], nested)

\* The loop comes to `at' with the object x; a turn consumes an octet or more.
Stands(octets, turns, x, at) ==
  at \in Place /\ \E i \in 0 .. Len(octets) : i < at /\ turns[i] = Got(x, at)

\* The turns of the loop are what their recursive definition says.
LEMMA TurnsDef ==
  ASSUME NEW table, NEW octets \in Seq(Octet), NEW m, NEW nested,
         NEW turns, turns = Turns(table, octets, m, nested)
  PROVE  /\ Reads(table, octets, nested, turns) /\ turns[0] = Got(m, 1)
         /\ Merge(table, octets, m, nested) = turns[Len(octets)]
<1> DEFINE Step(s) == IF Ended(octets, s) THEN s ELSE ReadTagged(table, octets, s, nested)
           Good(f, n) == f = [i \in 0 .. n |-> IF i = 0 THEN Got(m, 1) ELSE Step(f[i - 1])]
<1>1. \A n \in Nat : \E f : Good(f, n)
  <2> HIDE DEF Step
  <2> DEFINE S == {n \in Nat : \E f : Good(f, n)}
  <2>1. 0 \in S
    <3>1. PICK f : f = [i \in 0 .. 0 |-> Got(m, 1)]
      OBVIOUS
    <3>2. Good(f, 0)
      BY <3>1
    <3> QED
      BY <3>2
  <2>2. ASSUME NEW n \in Nat, n \in S
        PROVE  n + 1 \in S
    <3>1. PICK f : Good(f, n)
      BY <2>2
    <3>2. \A i \in 0 .. n : f[i] = IF i = 0 THEN Got(m, 1) ELSE Step(f[i - 1])
      BY <3>1
    <3>3. PICK g : g = [i \in 0 .. n + 1 |-> IF i = n + 1 THEN Step(f[n]) ELSE f[i]]
      OBVIOUS
    <3>4. ASSUME NEW i \in 0 .. n + 1
          PROVE  g[i] = IF i = 0 THEN Got(m, 1) ELSE Step(g[i - 1])
      <4>1. CASE i = n + 1
        <5>1. n \in 0 .. n + 1 /\ n # n + 1 /\ i - 1 = n /\ i # 0
          BY <4>1
        <5>2. g[n] = f[n] /\ g[i] = Step(f[n])
          BY <3>3, <4>1, <5>1
        <5> QED
          BY <5>1, <5>2
      <4>2. CASE i # n + 1
        <5>1. i \in 0 .. n /\ (i # 0 => i - 1 \in 0 .. n + 1 /\ i - 1 # n + 1)
          BY <4>2
        <5>2. g[i] = f[i] /\ (i # 0 => g[i - 1] = f[i - 1])
          BY <3>3, <4>2, <5>1
        <5> QED
          BY <3>2, <5>1, <5>2
      <4> QED
        BY <4>1, <4>2
    <3>5. Good(g, n + 1)
      BY <3>3, <3>4
    <3> HIDE DEF Good
    <3> QED
      BY <3>5
  <2>3. \A n \in Nat : n \in S
    <3> HIDE DEF S
    <3> QED
      BY <2>1, <2>2, StepInduction
  <2> HIDE DEF Good
  <2> QED
    BY <2>3
<1>2. Good(turns, Len(octets))
  <2>1. \E f : Good(f, Len(octets))
    BY <1>1
  <2>2. turns = CHOOSE f : Good(f, Len(octets))
    BY Zenon DEF Turns
  <2> HIDE DEF Good
  <2> QED
    BY <2>1, <2>2
<1>3. \A i \in 0 .. Len(octets) : turns[i] = IF i = 0 THEN Got(m, 1) ELSE Step(turns[i - 1])
  <2> HIDE DEF Step
  <2> QED
    BY <1>2
<1>4. \A i \in 1 .. Len(octets) : turns[i] = Step(turns[i - 1])
  <2> HIDE DEF Step
  <2>1. \A i \in 1 .. Len(octets) : i \in 0 .. Len(octets) /\ i # 0
    OBVIOUS
  <2> QED
    BY <1>3, <2>1
<1>5. turns[0] = Got(m, 1)
  <2> HIDE DEF Step
  <2>1. 0 \in 0 .. Len(octets)
    OBVIOUS
  <2> QED
    BY <1>3, <2>1
<1> QED
  BY <1>4, <1>5, Zenon DEF Reads, Merge

\* The loop starts at the first octet, ...
LEMMA LoopStarts ==
  ASSUME NEW octets \in Seq(Octet), NEW turns, NEW m, turns[0] = Got(m, 1)
  PROVE  Stands(octets, turns, m, 1)
BY DEF Stands, Place

\* ... stops where it is through, ...
LEMMA LoopStays ==
  ASSUME NEW table, NEW octets \in Seq(Octet), NEW nested, NEW turns,
         Reads(table, octets, nested, turns),
         NEW i \in 0 .. Len(octets), Ended(octets, turns[i])
  PROVE  turns[Len(octets)] = turns[i]
<1> DEFINE S == {k \in Nat : i + k <= Len(octets) => turns[i + k] = turns[i]}
<1>1. 0 \in S
  OBVIOUS
<1>2. ASSUME NEW k \in Nat, k \in S
      PROVE  k + 1 \in S
  <2> SUFFICES ASSUME i + (k + 1) <= Len(octets)
               PROVE  turns[i + (k + 1)] = turns[i]
    OBVIOUS
  <2>1. PICK j : j = i + (k + 1)
    OBVIOUS
  <2>2. j \in 1 .. Len(octets) /\ j - 1 = i + k /\ i + k <= Len(octets)
    BY <2>1
  <2>3. turns[j - 1] = turns[i]
    BY <1>2, <2>2
  <2>4. turns[j] = turns[j - 1]
    BY <2>2, <2>3, Zenon DEF Reads
  <2> QED
    BY <2>1, <2>3, <2>4
<1>3. \A k \in Nat : k \in S
  <2> HIDE DEF S
  <2> QED
    BY <1>1, <1>2, StepInduction
<1>4. PICK k : k = Len(octets) - i
  OBVIOUS
<1>5. k \in Nat /\ i + k = Len(octets) /\ i + k <= Len(octets)
  BY <1>4
<1>6. k \in S
  BY <1>3, <1>5
<1>7. turns[i + k] = turns[i]
  BY <1>5, <1>6
<1> QED
  BY <1>5, <1>7

\* Once it is past the last octet, the loop keeps what it has to its last turn.
LEMMA LoopEnds ==
  ASSUME NEW table, NEW octets \in Seq(Octet), NEW nested, NEW turns,
         Reads(table, octets, nested, turns),
         NEW x, NEW at, at > Len(octets), Stands(octets, turns, x, at)
  PROVE  turns[Len(octets)] = Got(x, at)
<1>1. PICK i \in 0 .. Len(octets) : turns[i] = Got(x, at)
  BY DEF Stands
<1>2. Ended(octets, turns[i])
  BY <1>1 DEF Ended, Got
<1> QED
  BY <1>1, <1>2, LoopStays

\* ... and otherwise takes a turn.
LEMMA LoopGoesOn ==
  ASSUME NEW table, NEW octets \in Seq(Octet), NEW nested, NEW turns,
         Reads(table, octets, nested, turns),
         NEW x, NEW at, at <= Len(octets), Stands(octets, turns, x, at),
         NEW y, NEW next \in Nat, at < next,
         ReadTagged(table, octets, Got(x, at), nested) = Got(y, next)
  PROVE  Stands(octets, turns, y, next)
<1>1. PICK i \in 0 .. Len(octets) : i < at /\ turns[i] = Got(x, at)
  BY DEF Stands
<1>2. at \in Nat /\ at >= 1
  BY DEF Stands, Place
<1>3. ~ Ended(octets, turns[i])
  BY <1>1, <1>2 DEF Ended, Got
<1>4. i + 1 \in 1 .. Len(octets) /\ (i + 1) - 1 = i /\ i + 1 < next
  BY <1>1, <1>2
<1>5. turns[i + 1] = ReadTagged(table, octets, turns[i], nested)
  BY <1>3, <1>4 DEF Reads
<1>6. next \in Place /\ i + 1 \in 0 .. Len(octets)
  BY <1>2, <1>4 DEF Place
<1> QED
  BY <1>1, <1>4, <1>5, <1>6 DEF Stands

\* Once a turn fails, the loop has failed at its last turn.
LEMMA LoopFails ==
  ASSUME NEW table, NEW octets \in Seq(Octet), NEW nested, NEW turns,
         Reads(table, octets, nested, turns),
         NEW x, NEW at, at <= Len(octets), Stands(octets, turns, x, at),
         ReadTagged(table, octets, Got(x, at), nested) = Failed
  PROVE  turns[Len(octets)] = Failed
<1>1. PICK i \in 0 .. Len(octets) : i < at /\ turns[i] = Got(x, at)
  BY DEF Stands
<1>2. at \in Nat /\ at >= 1
  BY DEF Stands, Place
<1>3. ~ Ended(octets, turns[i])
  BY <1>1, <1>2 DEF Ended, Got
<1>4. i + 1 \in 1 .. Len(octets) /\ (i + 1) - 1 = i /\ i + 1 \in 0 .. Len(octets)
  BY <1>1, <1>2
<1>5. turns[i + 1] = Failed
  BY <1>1, <1>3, <1>4 DEF Reads
<1>6. Ended(octets, turns[i + 1])
  BY <1>5 DEF Ended, Failed
<1> QED
  BY <1>4, <1>5, <1>6, LoopStays

(***************************************************************************)
(* The tables                                                              *)
(***************************************************************************)

\* The kinds of fields the classes have.
GoodField(f) ==
  /\ f.num \in 1 .. 14 /\ f.repeated \in BOOLEAN
  /\ f.type \in NumberTypes \cup {"string", "bytes", "EtcdAddr"}
  /\ f.type = "EtcdAddr" => f.repeated
  /\ f.type \in {"string", "bytes"} => ~ f.repeated

\* What protoc makes sure of: numbers and names are unique.  No number is so
\* large that its tag takes two octets.
GoodTable(table) ==
  /\ Len(table) \in Nat /\ DOMAIN table = 1 .. Len(table)
  /\ \A i \in DOMAIN table : GoodField(table[i])
  /\ \A i, j \in DOMAIN table :
       i # j => table[i].num # table[j].num /\ table[i].name # table[j].name

\* The rows of the tables that are not repeated are good fields,
\* ...
LEMMA OptionalGood ==
  ASSUME NEW num \in 1 .. 14, NEW name,
         NEW type \in NumberTypes \cup {"string", "bytes"}
  PROVE  /\ GoodField(Optional(num, name, type))
         /\ Optional(num, name, type).num = num /\ Optional(num, name, type).name = name
<1>1. type # "EtcdAddr"
  BY DEF NumberTypes
<1> QED
  BY <1>1 DEF GoodField, Optional

\* ... and the repeated ones.
LEMMA RepeatedGood ==
  ASSUME NEW num \in 1 .. 14, NEW name,
         NEW type \in NumberTypes \cup {"EtcdAddr"}
  PROVE  /\ GoodField(Repeated(num, name, type))
         /\ Repeated(num, name, type).num = num /\ Repeated(num, name, type).name = name
<1>1. type \notin {"string", "bytes"}
  BY DEF NumberTypes
<1> QED
  BY <1>1 DEF GoodField, Repeated

\* Numbers in a row are unique.
LEMMA InARow ==
  ASSUME NEW table, NEW n \in Nat, Len(table) = n /\ DOMAIN table = 1 .. n,
         \A i \in 1 .. n : GoodField(table[i]) /\ table[i].num = i,
         \A i, j \in 1 .. n : i # j => table[i].name # table[j].name
  PROVE  GoodTable(table)
BY DEF GoodTable

\* Each table is one of a generated class: UpstreamACK, ...
LEMMA UpstreamACKGood ==
  GoodTable(UpstreamACK)
<1>1. Len(UpstreamACK) = 3 /\ DOMAIN UpstreamACK = 1 .. 3
  BY DEF UpstreamACK
<1>2. GoodField(UpstreamACK[1]) /\ UpstreamACK[1].num = 1 /\ UpstreamACK[1].name = "MsgID"
  <2>1. UpstreamACK[1] = Optional(1, "MsgID", "uint32")
    BY DEF UpstreamACK
  <2>2. 1 \in 1 .. 14 /\ "uint32" \in NumberTypes \cup {"string", "bytes", "EtcdAddr"}
    BY DEF NumberTypes
  <2> QED
    BY <2>1, <2>2, OptionalGood
<1>3. GoodField(UpstreamACK[2]) /\ UpstreamACK[2].num = 2 /\ UpstreamACK[2].name = "Data"
  <2>1. UpstreamACK[2] = Optional(2, "Data", "bytes")
    BY DEF UpstreamACK
  <2>2. 2 \in 1 .. 14 /\ "bytes" \in NumberTypes \cup {"string", "bytes", "EtcdAddr"}
    BY DEF NumberTypes
  <2> QED
    BY <2>1, <2>2, OptionalGood
<1>4. GoodField(UpstreamACK[3]) /\ UpstreamACK[3].num = 3 /\ UpstreamACK[3].name = "ClientID"
  <2>1. UpstreamACK[3] = Optional(3, "ClientID", "int64")
    BY DEF UpstreamACK
  <2>2. 3 \in 1 .. 14 /\ "int64" \in NumberTypes \cup {"string", "bytes", "EtcdAddr"}
    BY DEF NumberTypes
  <2> QED
    BY <2>1, <2>2, OptionalGood
<1>5. \A i \in 1 .. 3 : GoodField(UpstreamACK[i]) /\ UpstreamACK[i].num = i
  BY <1>2, <1>3, <1>4
<1>6. \A i, j \in 1 .. 3 : i # j => UpstreamACK[i].name # UpstreamACK[j].name
  BY <1>2, <1>3, <1>4
<1> QED
  BY <1>1, <1>5, <1>6, InARow

\* ... CloseClientACK, ...
LEMMA CloseClientACKGood ==
  GoodTable(CloseClientACK)
<1>1. Len(CloseClientACK) = 1 /\ DOMAIN CloseClientACK = 1 .. 1
  BY DEF CloseClientACK
<1>2. GoodField(CloseClientACK[1]) /\ CloseClientACK[1].num = 1 /\ CloseClientACK[1].name = "ClientID"
  <2>1. CloseClientACK[1] = Optional(1, "ClientID", "int64")
    BY DEF CloseClientACK
  <2>2. 1 \in 1 .. 14 /\ "int64" \in NumberTypes \cup {"string", "bytes", "EtcdAddr"}
    BY DEF NumberTypes
  <2> QED
    BY <2>1, <2>2, OptionalGood
<1>3. \A i \in 1 .. 1 : GoodField(CloseClientACK[i]) /\ CloseClientACK[i].num = i
  BY <1>2
<1>4. \A i, j \in 1 .. 1 : i # j => CloseClientACK[i].name # CloseClientACK[j].name
  BY <1>2
<1> QED
  BY <1>1, <1>3, <1>4, InARow

\* ... DownstreamACK, ...
LEMMA DownstreamACKGood ==
  GoodTable(DownstreamACK)
<1>1. Len(DownstreamACK) = 3 /\ DOMAIN DownstreamACK = 1 .. 3
  BY DEF DownstreamACK
<1>2. GoodField(DownstreamACK[1]) /\ DownstreamACK[1].num = 1 /\ DownstreamACK[1].name = "MsgID"
  <2>1. DownstreamACK[1] = Optional(1, "MsgID", "uint32")
    BY DEF DownstreamACK
  <2>2. 1 \in 1 .. 14 /\ "uint32" \in NumberTypes \cup {"string", "bytes", "EtcdAddr"}
    BY DEF NumberTypes
  <2> QED
    BY <2>1, <2>2, OptionalGood
<1>3. GoodField(DownstreamACK[2]) /\ DownstreamACK[2].num = 2 /\ DownstreamACK[2].name = "Data"
  <2>1. DownstreamACK[2] = Optional(2, "Data", "bytes")
    BY DEF DownstreamACK
  <2>2. 2 \in 1 .. 14 /\ "bytes" \in NumberTypes \cup {"string", "bytes", "EtcdAddr"}
    BY DEF NumberTypes
  <2> QED
    BY <2>1, <2>2, OptionalGood
<1>4. GoodField(DownstreamACK[3]) /\ DownstreamACK[3].num = 3 /\ DownstreamACK[3].name = "ClientID"
  <2>1. DownstreamACK[3] = Repeated(3, "ClientID", "int64")
    BY DEF DownstreamACK
  <2>2. 3 \in 1 .. 14 /\ "int64" \in NumberTypes \cup {"string", "bytes", "EtcdAddr"}
    BY DEF NumberTypes
  <2> QED
    BY <2>1, <2>2, RepeatedGood
<1>5. \A i \in 1 .. 3 : GoodField(DownstreamACK[i]) /\ DownstreamACK[i].num = i
  BY <1>2, <1>3, <1>4
<1>6. \A i, j \in 1 .. 3 : i # j => DownstreamACK[i].name # DownstreamACK[j].name
  BY <1>2, <1>3, <1>4
<1> QED
  BY <1>1, <1>5, <1>6, InARow

\* ... LogicServerLogin, ...
LEMMA LogicServerLoginGood ==
  GoodTable(LogicServerLogin)
<1>1. Len(LogicServerLogin) = 2 /\ DOMAIN LogicServerLogin = 1 .. 2
  BY DEF LogicServerLogin
<1>2. GoodField(LogicServerLogin[1]) /\ LogicServerLogin[1].num = 1 /\ LogicServerLogin[1].name = "id"
  <2>1. LogicServerLogin[1] = Optional(1, "id", "int32")
    BY DEF LogicServerLogin
  <2>2. 1 \in 1 .. 14 /\ "int32" \in NumberTypes \cup {"string", "bytes", "EtcdAddr"}
    BY DEF NumberTypes
  <2> QED
    BY <2>1, <2>2, OptionalGood
<1>3. GoodField(LogicServerLogin[2]) /\ LogicServerLogin[2].num = 2 /\ LogicServerLogin[2].name = "isPrimary"
  <2>1. LogicServerLogin[2] = Optional(2, "isPrimary", "bool")
    BY DEF LogicServerLogin
  <2>2. 2 \in 1 .. 14 /\ "bool" \in NumberTypes \cup {"string", "bytes", "EtcdAddr"}
    BY DEF NumberTypes
  <2> QED
    BY <2>1, <2>2, OptionalGood
<1>4. \A i \in 1 .. 2 : GoodField(LogicServerLogin[i]) /\ LogicServerLogin[i].num = i
  BY <1>2, <1>3
<1>5. \A i, j \in 1 .. 2 : i # j => LogicServerLogin[i].name # LogicServerLogin[j].name
  BY <1>2, <1>3
<1> QED
  BY <1>1, <1>4, <1>5, InARow

\* ... LogicServerLoginReply, ...
LEMMA LogicServerLoginReplyGood ==
  GoodTable(LogicServerLoginReply)
<1>1. Len(LogicServerLoginReply) = 2 /\ DOMAIN LogicServerLoginReply = 1 .. 2
  BY DEF LogicServerLoginReply
<1>2. GoodField(LogicServerLoginReply[1]) /\ LogicServerLoginReply[1].num = 1 /\ LogicServerLoginReply[1].name = "isSuccess"
  <2>1. LogicServerLoginReply[1] = Optional(1, "isSuccess", "bool")
    BY DEF LogicServerLoginReply
  <2>2. 1 \in 1 .. 14 /\ "bool" \in NumberTypes \cup {"string", "bytes", "EtcdAddr"}
    BY DEF NumberTypes
  <2> QED
    BY <2>1, <2>2, OptionalGood
<1>3. GoodField(LogicServerLoginReply[2]) /\ LogicServerLoginReply[2].num = 2 /\ LogicServerLoginReply[2].name = "id"
  <2>1. LogicServerLoginReply[2] = Optional(2, "id", "int32")
    BY DEF LogicServerLoginReply
  <2>2. 2 \in 1 .. 14 /\ "int32" \in NumberTypes \cup {"string", "bytes", "EtcdAddr"}
    BY DEF NumberTypes
  <2> QED
    BY <2>1, <2>2, OptionalGood
<1>4. \A i \in 1 .. 2 : GoodField(LogicServerLoginReply[i]) /\ LogicServerLoginReply[i].num = i
  BY <1>2, <1>3
<1>5. \A i, j \in 1 .. 2 : i # j => LogicServerLoginReply[i].name # LogicServerLoginReply[j].name
  BY <1>2, <1>3
<1> QED
  BY <1>1, <1>4, <1>5, InARow

\* ... LogicServerKickPlayer, ...
LEMMA LogicServerKickPlayerGood ==
  GoodTable(LogicServerKickPlayer)
<1>1. Len(LogicServerKickPlayer) = 1 /\ DOMAIN LogicServerKickPlayer = 1 .. 1
  BY DEF LogicServerKickPlayer
<1>2. GoodField(LogicServerKickPlayer[1]) /\ LogicServerKickPlayer[1].num = 1 /\ LogicServerKickPlayer[1].name = "RoleRuntimeID"
  <2>1. LogicServerKickPlayer[1] = Optional(1, "RoleRuntimeID", "int64")
    BY DEF LogicServerKickPlayer
  <2>2. 1 \in 1 .. 14 /\ "int64" \in NumberTypes \cup {"string", "bytes", "EtcdAddr"}
    BY DEF NumberTypes
  <2> QED
    BY <2>1, <2>2, OptionalGood
<1>3. \A i \in 1 .. 1 : GoodField(LogicServerKickPlayer[i]) /\ LogicServerKickPlayer[i].num = i
  BY <1>2
<1>4. \A i, j \in 1 .. 1 : i # j => LogicServerKickPlayer[i].name # LogicServerKickPlayer[j].name
  BY <1>2
<1> QED
  BY <1>1, <1>3, <1>4, InARow

\* ... LogicServerSetRoleSlave, ...
LEMMA LogicServerSetRoleSlaveGood ==
  GoodTable(LogicServerSetRoleSlave)
<1>1. Len(LogicServerSetRoleSlave) = 2 /\ DOMAIN LogicServerSetRoleSlave = 1 .. 2
  BY DEF LogicServerSetRoleSlave
<1>2. GoodField(LogicServerSetRoleSlave[1]) /\ LogicServerSetRoleSlave[1].num = 1 /\ LogicServerSetRoleSlave[1].name = "RoleRuntimeID"
  <2>1. LogicServerSetRoleSlave[1] = Optional(1, "RoleRuntimeID", "int64")
    BY DEF LogicServerSetRoleSlave
  <2>2. 1 \in 1 .. 14 /\ "int64" \in NumberTypes \cup {"string", "bytes", "EtcdAddr"}
    BY DEF NumberTypes
  <2> QED
    BY <2>1, <2>2, OptionalGood
<1>3. GoodField(LogicServerSetRoleSlave[2]) /\ LogicServerSetRoleSlave[2].num = 2 /\ LogicServerSetRoleSlave[2].name = "willSet"
  <2>1. LogicServerSetRoleSlave[2] = Optional(2, "willSet", "bool")
    BY DEF LogicServerSetRoleSlave
  <2>2. 2 \in 1 .. 14 /\ "bool" \in NumberTypes \cup {"string", "bytes", "EtcdAddr"}
    BY DEF NumberTypes
  <2> QED
    BY <2>1, <2>2, OptionalGood
<1>4. \A i \in 1 .. 2 : GoodField(LogicServerSetRoleSlave[i]) /\ LogicServerSetRoleSlave[i].num = i
  BY <1>2, <1>3
<1>5. \A i, j \in 1 .. 2 : i # j => LogicServerSetRoleSlave[i].name # LogicServerSetRoleSlave[j].name
  BY <1>2, <1>3
<1> QED
  BY <1>1, <1>4, <1>5, InARow

\* ... LogicServerSetRolePrimary, ...
LEMMA LogicServerSetRolePrimaryGood ==
  GoodTable(LogicServerSetRolePrimary)
<1>1. Len(LogicServerSetRolePrimary) = 1 /\ DOMAIN LogicServerSetRolePrimary = 1 .. 1
  BY DEF LogicServerSetRolePrimary
<1>2. GoodField(LogicServerSetRolePrimary[1]) /\ LogicServerSetRolePrimary[1].num = 1 /\ LogicServerSetRolePrimary[1].name = "RoleRuntimeID"
  <2>1. LogicServerSetRolePrimary[1] = Optional(1, "RoleRuntimeID", "int64")
    BY DEF LogicServerSetRolePrimary
  <2>2. 1 \in 1 .. 14 /\ "int64" \in NumberTypes \cup {"string", "bytes", "EtcdAddr"}
    BY DEF NumberTypes
  <2> QED
    BY <2>1, <2>2, OptionalGood
<1>3. \A i \in 1 .. 1 : GoodField(LogicServerSetRolePrimary[i]) /\ LogicServerSetRolePrimary[i].num = i
  BY <1>2
<1>4. \A i, j \in 1 .. 1 : i # j => LogicServerSetRolePrimary[i].name # LogicServerSetRolePrimary[j].name
  BY <1>2
<1> QED
  BY <1>1, <1>3, <1>4, InARow

\* ... CenterServerConfig, ...
LEMMA CenterServerConfigGood ==
  GoodTable(CenterServerConfig)
<1>1. Len(CenterServerConfig) = 4 /\ DOMAIN CenterServerConfig = 1 .. 4
  BY DEF CenterServerConfig
<1>2. GoodField(CenterServerConfig[1]) /\ CenterServerConfig[1].num = 1 /\ CenterServerConfig[1].name = "enableIPV6"
  <2>1. CenterServerConfig[1] = Optional(1, "enableIPV6", "bool")
    BY DEF CenterServerConfig
  <2>2. 1 \in 1 .. 14 /\ "bool" \in NumberTypes \cup {"string", "bytes", "EtcdAddr"}
    BY DEF NumberTypes
  <2> QED
    BY <2>1, <2>2, OptionalGood
<1>3. GoodField(CenterServerConfig[2]) /\ CenterServerConfig[2].num = 2 /\ CenterServerConfig[2].name = "bindIP"
  <2>1. CenterServerConfig[2] = Optional(2, "bindIP", "string")
    BY DEF CenterServerConfig
  <2>2. 2 \in 1 .. 14 /\ "string" \in NumberTypes \cup {"string", "bytes", "EtcdAddr"}
    BY DEF NumberTypes
  <2> QED
    BY <2>1, <2>2, OptionalGood
<1>4. GoodField(CenterServerConfig[3]) /\ CenterServerConfig[3].num = 3 /\ CenterServerConfig[3].name = "listenPort"
  <2>1. CenterServerConfig[3] = Optional(3, "listenPort", "int32")
    BY DEF CenterServerConfig
  <2>2. 3 \in 1 .. 14 /\ "int32" \in NumberTypes \cup {"string", "bytes", "EtcdAddr"}
    BY DEF NumberTypes
  <2> QED
    BY <2>1, <2>2, OptionalGood
<1>5. GoodField(CenterServerConfig[4]) /\ CenterServerConfig[4].num = 4 /\ CenterServerConfig[4].name = "logicServerLoginPassword"
  <2>1. CenterServerConfig[4] = Optional(4, "logicServerLoginPassword", "string")
    BY DEF CenterServerConfig
  <2>2. 4 \in 1 .. 14 /\ "string" \in NumberTypes \cup {"string", "bytes", "EtcdAddr"}
    BY DEF NumberTypes
  <2> QED
    BY <2>1, <2>2, OptionalGood
<1>6. \A i \in 1 .. 4 : GoodField(CenterServerConfig[i]) /\ CenterServerConfig[i].num = i
  BY <1>2, <1>3, <1>4, <1>5
<1>7. \A i, j \in 1 .. 4 : i # j => CenterServerConfig[i].name # CenterServerConfig[j].name
  BY <1>2, <1>3, <1>4, <1>5
<1> QED
  BY <1>1, <1>6, <1>7, InARow

\* ... EtcdAddr, ...
LEMMA EtcdAddrGood ==
  GoodTable(EtcdAddr)
<1>1. Len(EtcdAddr) = 2 /\ DOMAIN EtcdAddr = 1 .. 2
  BY DEF EtcdAddr
<1>2. GoodField(EtcdAddr[1]) /\ EtcdAddr[1].num = 1 /\ EtcdAddr[1].name = "ip"
  <2>1. EtcdAddr[1] = Optional(1, "ip", "string")
    BY DEF EtcdAddr
  <2>2. 1 \in 1 .. 14 /\ "string" \in NumberTypes \cup {"string", "bytes", "EtcdAddr"}
    BY DEF NumberTypes
  <2> QED
    BY <2>1, <2>2, OptionalGood
<1>3. GoodField(EtcdAddr[2]) /\ EtcdAddr[2].num = 2 /\ EtcdAddr[2].name = "port"
  <2>1. EtcdAddr[2] = Optional(2, "port", "int32")
    BY DEF EtcdAddr
  <2>2. 2 \in 1 .. 14 /\ "int32" \in NumberTypes \cup {"string", "bytes", "EtcdAddr"}
    BY DEF NumberTypes
  <2> QED
    BY <2>1, <2>2, OptionalGood
<1>4. \A i \in 1 .. 2 : GoodField(EtcdAddr[i]) /\ EtcdAddr[i].num = i
  BY <1>2, <1>3
<1>5. \A i, j \in 1 .. 2 : i # j => EtcdAddr[i].name # EtcdAddr[j].name
  BY <1>2, <1>3
<1> QED
  BY <1>1, <1>4, <1>5, InARow

\* ... ConnectionServerConfig, ...
LEMMA ConnectionServerConfigGood ==
  GoodTable(ConnectionServerConfig)
<1>1. Len(ConnectionServerConfig) = 7 /\ DOMAIN ConnectionServerConfig = 1 .. 7
  BY DEF ConnectionServerConfig
<1>2. GoodField(ConnectionServerConfig[1]) /\ ConnectionServerConfig[1].num = 1 /\ ConnectionServerConfig[1].name = "enableIPV6"
  <2>1. ConnectionServerConfig[1] = Optional(1, "enableIPV6", "bool")
    BY DEF ConnectionServerConfig
  <2>2. 1 \in 1 .. 14 /\ "bool" \in NumberTypes \cup {"string", "bytes", "EtcdAddr"}
    BY DEF NumberTypes
  <2> QED
    BY <2>1, <2>2, OptionalGood
<1>3. GoodField(ConnectionServerConfig[2]) /\ ConnectionServerConfig[2].num = 2 /\ ConnectionServerConfig[2].name = "bindIP"
  <2>1. ConnectionServerConfig[2] = Optional(2, "bindIP", "string")
    BY DEF ConnectionServerConfig
  <2>2. 2 \in 1 .. 14 /\ "string" \in NumberTypes \cup {"string", "bytes", "EtcdAddr"}
    BY DEF NumberTypes
  <2> QED
    BY <2>1, <2>2, OptionalGood
<1>4. GoodField(ConnectionServerConfig[3]) /\ ConnectionServerConfig[3].num = 3 /\ ConnectionServerConfig[3].name = "portForClient"
  <2>1. ConnectionServerConfig[3] = Optional(3, "portForClient", "int32")
    BY DEF ConnectionServerConfig
  <2>2. 3 \in 1 .. 14 /\ "int32" \in NumberTypes \cup {"string", "bytes", "EtcdAddr"}
    BY DEF NumberTypes
  <2> QED
    BY <2>1, <2>2, OptionalGood
<1>5. GoodField(ConnectionServerConfig[4]) /\ ConnectionServerConfig[4].num = 4 /\ ConnectionServerConfig[4].name = "portForLogicServer"
  <2>1. ConnectionServerConfig[4] = Optional(4, "portForLogicServer", "int32")
    BY DEF ConnectionServerConfig
  <2>2. 4 \in 1 .. 14 /\ "int32" \in NumberTypes \cup {"string", "bytes", "EtcdAddr"}
    BY DEF NumberTypes
  <2> QED
    BY <2>1, <2>2, OptionalGood
<1>6. GoodField(ConnectionServerConfig[5]) /\ ConnectionServerConfig[5].num = 5 /\ ConnectionServerConfig[5].name = "id"
  <2>1. ConnectionServerConfig[5] = Optional(5, "id", "int32")
    BY DEF ConnectionServerConfig
  <2>2. 5 \in 1 .. 14 /\ "int32" \in NumberTypes \cup {"string", "bytes", "EtcdAddr"}
    BY DEF NumberTypes
  <2> QED
    BY <2>1, <2>2, OptionalGood
<1>7. GoodField(ConnectionServerConfig[6]) /\ ConnectionServerConfig[6].num = 6 /\ ConnectionServerConfig[6].name = "etcdservers"
  <2>1. ConnectionServerConfig[6] = Repeated(6, "etcdservers", "EtcdAddr")
    BY DEF ConnectionServerConfig
  <2>2. 6 \in 1 .. 14 /\ "EtcdAddr" \in NumberTypes \cup {"string", "bytes", "EtcdAddr"}
    BY DEF NumberTypes
  <2> QED
    BY <2>1, <2>2, RepeatedGood
<1>8. GoodField(ConnectionServerConfig[7]) /\ ConnectionServerConfig[7].num = 7 /\ ConnectionServerConfig[7].name = "logicServerLoginPassword"
  <2>1. ConnectionServerConfig[7] = Optional(7, "logicServerLoginPassword", "string")
    BY DEF ConnectionServerConfig
  <2>2. 7 \in 1 .. 14 /\ "string" \in NumberTypes \cup {"string", "bytes", "EtcdAddr"}
    BY DEF NumberTypes
  <2> QED
    BY <2>1, <2>2, OptionalGood
<1>9. \A i \in 1 .. 7 : GoodField(ConnectionServerConfig[i]) /\ ConnectionServerConfig[i].num = i
  BY <1>2, <1>3, <1>4, <1>5, <1>6, <1>7, <1>8
<1>10. \A i, j \in 1 .. 7 : i # j => ConnectionServerConfig[i].name # ConnectionServerConfig[j].name
  BY <1>2, <1>3, <1>4, <1>5, <1>6, <1>7, <1>8
<1> QED
  BY <1>1, <1>9, <1>10, InARow

\* ... and LogicServerConfig.
LEMMA LogicServerConfigGood ==
  GoodTable(LogicServerConfig)
<1>1. Len(LogicServerConfig) = 3 /\ DOMAIN LogicServerConfig = 1 .. 3
  BY DEF LogicServerConfig
<1>2. GoodField(LogicServerConfig[1]) /\ LogicServerConfig[1].num = 1 /\ LogicServerConfig[1].name = "id"
  <2>1. LogicServerConfig[1] = Optional(1, "id", "int32")
    BY DEF LogicServerConfig
  <2>2. 1 \in 1 .. 14 /\ "int32" \in NumberTypes \cup {"string", "bytes", "EtcdAddr"}
    BY DEF NumberTypes
  <2> QED
    BY <2>1, <2>2, OptionalGood
<1>3. GoodField(LogicServerConfig[2]) /\ LogicServerConfig[2].num = 2 /\ LogicServerConfig[2].name = "isPrimary"
  <2>1. LogicServerConfig[2] = Optional(2, "isPrimary", "bool")
    BY DEF LogicServerConfig
  <2>2. 2 \in 1 .. 14 /\ "bool" \in NumberTypes \cup {"string", "bytes", "EtcdAddr"}
    BY DEF NumberTypes
  <2> QED
    BY <2>1, <2>2, OptionalGood
<1>4. GoodField(LogicServerConfig[3]) /\ LogicServerConfig[3].num = 3 /\ LogicServerConfig[3].name = "etcdservers"
  <2>1. LogicServerConfig[3] = Repeated(3, "etcdservers", "EtcdAddr")
    BY DEF LogicServerConfig
  <2>2. 3 \in 1 .. 14 /\ "EtcdAddr" \in NumberTypes \cup {"string", "bytes", "EtcdAddr"}
    BY DEF NumberTypes
  <2> QED
    BY <2>1, <2>2, RepeatedGood
<1>5. \A i \in 1 .. 3 : GoodField(LogicServerConfig[i]) /\ LogicServerConfig[i].num = i
  BY <1>2, <1>3, <1>4
<1>6. \A i, j \in 1 .. 3 : i # j => LogicServerConfig[i].name # LogicServerConfig[j].name
  BY <1>2, <1>3, <1>4
<1> QED
  BY <1>1, <1>5, <1>6, InARow

\* So every table is.
LEMMA TablesGood ==
  ASSUME NEW c \in DOMAIN Table
  PROVE  GoodTable(Table[c])
BY UpstreamACKGood, CloseClientACKGood, DownstreamACKGood, LogicServerLoginGood,
   LogicServerLoginReplyGood, LogicServerKickPlayerGood, LogicServerSetRoleSlaveGood,
   LogicServerSetRolePrimaryGood, CenterServerConfigGood, EtcdAddrGood,
   ConnectionServerConfigGood, LogicServerConfigGood
   DEF Table

\* The field of a name is the row that has it.
LEMMA FieldOfName ==
  ASSUME NEW table, GoodTable(table), NEW k \in DOMAIN table
  PROVE  FieldOf(table, table[k].name) = table[k]
<1>1. PICK i : i = CHOOSE j \in DOMAIN table : table[j].name = table[k].name
  OBVIOUS
<1>2. i \in DOMAIN table /\ table[i].name = table[k].name
  BY <1>1
<1>3. i = k
  BY <1>2 DEF GoodTable
<1>4. FieldOf(table, table[k].name) = table[i]
  BY <1>1, Zenon DEF FieldOf
<1> QED
  BY <1>3, <1>4

\* The tags that a case of the switch takes.
TagsOf(f) ==
  {Tag(f)} \cup (IF f.repeated /\ f.type # "EtcdAddr" THEN {8 * f.num} ELSE {})

\* A tag is the number of the field and its wire type, in one octet.
LEMMA TagForms ==
  ASSUME NEW f, GoodField(f)
  PROVE  /\ Tag(f) = IF f.repeated \/ ~ (f.type \in NumberTypes) THEN 8 * f.num + 2
                     ELSE 8 * f.num
         /\ 8 * f.num \in 8 .. 112 /\ (8 * f.num) % 8 = 0
         /\ 8 * f.num + 2 \in 8 .. 114 /\ (8 * f.num + 2) % 8 = 2
<1>1. f.type \in NumberTypes \cup {"string", "bytes", "EtcdAddr"} /\ f.repeated \in BOOLEAN
  BY DEF GoodField
<1>2. IsDelimited(f.type) <=> ~ (f.type \in NumberTypes)
  BY <1>1 DEF IsDelimited, IsChars, NumberTypes
<1>3. PICK num \in 1 .. 14 : num = f.num
  BY DEF GoodField
<1>4. Tag(f) = IF f.repeated \/ ~ (f.type \in NumberTypes) THEN 8 * num + 2 ELSE 8 * num
  BY <1>1, <1>2, <1>3 DEF Tag
<1>5. 8 * num \in 8 .. 112 /\ (8 * num) % 8 = 0
  OBVIOUS
<1>6. 8 * num + 2 \in 8 .. 114 /\ (8 * num + 2) % 8 = 2
  OBVIOUS
<1> QED
  BY <1>3, <1>4, <1>5, <1>6

\* The switch of the loop takes the case of the field the tag is of.
LEMMA CaseTaken ==
  ASSUME NEW table, GoodTable(table), NEW k \in DOMAIN table,
         NEW tag \in TagsOf(table[k])
  PROVE  /\ CasesOf(table, tag) # {}
         /\ (CHOOSE i \in CasesOf(table, tag) : TRUE) = k
         /\ tag \in 8 .. 114 /\ tag % 8 \in {0, 2}
<1>1. \A i \in DOMAIN table : GoodField(table[i])
  BY DEF GoodTable
<1>2. tag \in 8 .. 114 /\ tag % 8 \in {0, 2} /\ tag \in {8 * table[k].num, 8 * table[k].num + 2}
  BY <1>1, TagForms DEF TagsOf
<1>3. k \in CasesOf(table, tag)
  BY DEF CasesOf, TagsOf
<1>4. ASSUME NEW i \in CasesOf(table, tag)
      PROVE  i = k
  <2>1. i \in DOMAIN table /\ tag \in TagsOf(table[i])
    BY DEF CasesOf, TagsOf
  <2>2. tag \in {8 * table[i].num, 8 * table[i].num + 2}
    BY <1>1, <2>1, TagForms DEF TagsOf
  <2>3. PICK a \in 1 .. 14, b \in 1 .. 14 : a = table[i].num /\ b = table[k].num
    BY <1>1, <2>1 DEF GoodField
  <2>4. a = b
    BY <1>2, <2>2, <2>3
  <2> QED
    BY <2>1, <2>3, <2>4 DEF GoodTable
<1>5. (CHOOSE i \in CasesOf(table, tag) : TRUE) \in CasesOf(table, tag)
  BY <1>3
<1> QED
  BY <1>2, <1>3, <1>4, <1>5

\* A tag of no field takes no case.
LEMMA NoCaseTaken ==
  ASSUME NEW table, GoodTable(table), NEW tag \in 115 .. 127
  PROVE  CasesOf(table, tag) = {}
<1>1. ASSUME NEW i \in CasesOf(table, tag)
      PROVE  FALSE
  <2>1. i \in DOMAIN table /\ tag \in TagsOf(table[i])
    BY DEF CasesOf, TagsOf
  <2>2. GoodField(table[i])
    BY <2>1 DEF GoodTable
  <2>3. tag \in 8 .. 114
    BY <2>1, <2>2, TagForms DEF TagsOf
  <2> QED
    BY <2>3
<1> QED
  BY <1>1

(***************************************************************************)
(* A turn of the loop                                                      *)
(***************************************************************************)

\* A tag of one octet.
LEMMA ReadTag ==
  ASSUME NEW octets \in Seq(Octet), NEW at \in Place, NEW tag \in 0 .. 127,
         Sits(octets, at, <<tag>>)
  PROVE  ReadVarint(octets, at) = Got(tag, at + 1) /\ at + 1 \in Place
<1>1. Varint[tag] = <<tag>> /\ tag \in Nat /\ Len(<<tag>>) = 1
  <2>1. Varint[tag] = <<tag>>
    BY VarintShort
  <2>2. tag \in Nat
    OBVIOUS
  <2>3. Len(<<tag>>) = 1
    OBVIOUS
  <2> QED
    BY <2>1, <2>2, <2>3
<1>2. tag < Wide
  BY Widths
<1>3. ReadVarint(octets, at) = Got(tag, at + Len(<<tag>>))
  BY <1>1, <1>2, ReadVarintThere
<1>4. at + 1 \in Place
  BY DEF Place
<1> QED
  BY <1>1, <1>3, <1>4

\* A turn of the loop at the tag of a field is the case of that field.
LEMMA TurnOfField ==
  ASSUME NEW table, GoodTable(table), NEW k \in DOMAIN table,
         NEW tag \in TagsOf(table[k]),
         NEW octets \in Seq(Octet), NEW at \in Place, Sits(octets, at, <<tag>>),
         NEW x, NEW nested
  PROVE  /\ at + 1 \in Place
         /\ ReadTagged(table, octets, Got(x, at), nested) =
              ReadField(table[k], tag % 8, octets, at + 1, x, nested)
<1>1. /\ CasesOf(table, tag) # {}
      /\ (CHOOSE i \in CasesOf(table, tag) : TRUE) = k
      /\ tag \in 8 .. 114 /\ tag % 8 \in {0, 2}
  BY CaseTaken
<1>2. tag \in 0 .. 127
  BY <1>1
<1>3. ReadVarint(octets, at) = Got(tag, at + 1) /\ at + 1 \in Place
  BY <1>2, ReadTag
<1>4. Got(x, at).next = at /\ Got(x, at).value = x
  BY DEF Got
<1>5. Got(tag, at + 1).ok /\ Got(tag, at + 1).value = tag /\ Got(tag, at + 1).next = at + 1
  BY DEF Got
<1>6. ~ (tag = 0 \/ tag % 8 = 4)
  BY <1>1
<1>7. ReadTagged(table, octets, Got(x, at), nested) =
        ReadField(table[CHOOSE i \in CasesOf(table, tag) : TRUE], tag % 8,
                  octets, at + 1, x, nested)
  BY <1>1, <1>3, <1>4, <1>5, <1>6, Zenon DEF ReadTagged, Then
<1> QED
  BY <1>1, <1>3, <1>7

\* What no case takes is passed over, up to next.
Passes(octets, at, tag, next) ==
  \E value : Skip(tag % 8, octets, at) = Got(value, next)

\* A turn at a tag of no field skips what it announces.
LEMMA TurnOfUnknown ==
  ASSUME NEW table, GoodTable(table), NEW tag \in {120, 121, 122, 125},
         NEW octets \in Seq(Octet), NEW at \in Place, Sits(octets, at, <<tag>>),
         NEW x, NEW nested, NEW next, Passes(octets, at + 1, tag, next)
  PROVE  ReadTagged(table, octets, Got(x, at), nested) = Got(x, next)
<1>0. PICK value : Skip(tag % 8, octets, at + 1) = Got(value, next)
  BY DEF Passes
<1>1. CasesOf(table, tag) = {} /\ tag \in 0 .. 127
  BY NoCaseTaken
<1>2. ReadVarint(octets, at) = Got(tag, at + 1)
  BY <1>1, ReadTag
<1>3. Got(x, at).next = at /\ Got(x, at).value = x
  BY DEF Got
<1>4. Got(tag, at + 1).ok /\ Got(tag, at + 1).value = tag /\ Got(tag, at + 1).next = at + 1
  BY DEF Got
<1>5. ~ (tag = 0 \/ tag % 8 = 4)
  OBVIOUS
<1>6. Got(value, next).ok /\ Got(value, next).next = next
  BY DEF Got
<1>7. ReadTagged(table, octets, Got(x, at), nested) =
        IF Skip(tag % 8, octets, at + 1).ok
        THEN Got(x, Skip(tag % 8, octets, at + 1).next) ELSE Failed
  BY <1>1, <1>2, <1>3, <1>4, <1>5, ZenonT(60) DEF ReadTagged, Then
<1> QED
  BY <1>0, <1>6, <1>7

(***************************************************************************)
(* A field                                                                 *)
(***************************************************************************)

\* A field read and set to w.
Put(x, f, w) == [x EXCEPT ![f.name] = w]

\* What the case of a field does, by the kind of the field.
LEMMA ReadFieldAddress ==
  ASSUME NEW f, f.type = "EtcdAddr",
         NEW wire, NEW octets, NEW at, NEW x, NEW nested,
         NEW o, NEW next, ReadDelimited(octets, at) = Got(o, next),
         NEW a, NEW end, nested[o] = Got(a, end)
  PROVE  ReadField(f, wire, octets, at, x, nested) =
           Got(Put(x, f, Append(x[f.name], a)), next)
<1>1. ~ IsChars(f.type) /\ IsDelimited(f.type)
  BY DEF IsChars, IsDelimited
<1>2. Got(o, next).ok /\ Got(o, next).value = o /\ Got(o, next).next = next
  BY DEF Got
<1>3. Got(a, end).ok /\ Got(a, end).value = a
  BY DEF Got
<1> QED
  BY <1>1, <1>2, <1>3, Zenon DEF ReadField, Then, Put

\* The case of an address fails when its octets are not there.
LEMMA ReadFieldAddressFails ==
  ASSUME NEW f, f.type = "EtcdAddr",
         NEW wire, NEW octets, NEW at, NEW x, NEW nested, ReadDelimited(octets, at) = Failed
  PROVE  ReadField(f, wire, octets, at, x, nested) = Failed
<1>1. ~ IsChars(f.type) /\ IsDelimited(f.type)
  BY DEF IsChars, IsDelimited
<1>2. ~ Failed.ok
  BY DEF Failed
<1> QED
  BY <1>1, <1>2, Zenon DEF ReadField, Then, Put

\* The case of a string stores the octets, if they are UTF-8.
LEMMA ReadFieldChars ==
  ASSUME NEW f, f.type \in {"string", "bytes"},
         NEW wire, NEW octets, NEW at, NEW x, NEW nested,
         NEW o, NEW next, ReadDelimited(octets, at) = Got(o, next),
         VerifyUtf8String(f.type, o)
  PROVE  ReadField(f, wire, octets, at, x, nested) = Got(Put(x, f, o), next)
<1>1. IsChars(f.type) /\ IsDelimited(f.type) /\ f.type # "EtcdAddr"
  BY DEF IsChars, IsDelimited
<1>2. Got(o, next).ok /\ Got(o, next).value = o /\ Got(o, next).next = next
  BY DEF Got
<1> QED
  BY <1>1, <1>2, Zenon DEF ReadField, Then, Put

\* It fails when they are not there.
LEMMA ReadFieldCharsFails ==
  ASSUME NEW f, f.type \in {"string", "bytes"},
         NEW wire, NEW octets, NEW at, NEW x, NEW nested, ReadDelimited(octets, at) = Failed
  PROVE  ReadField(f, wire, octets, at, x, nested) = Failed
<1>1. IsChars(f.type) /\ IsDelimited(f.type) /\ f.type # "EtcdAddr"
  BY DEF IsChars, IsDelimited
<1>2. ~ Failed.ok
  BY DEF Failed
<1> QED
  BY <1>1, <1>2, Zenon DEF ReadField, Then, Put

\* The case of a packed field appends the numbers.
LEMMA ReadFieldPacked ==
  ASSUME NEW f, f.type \in NumberTypes, f.repeated,
         NEW octets, NEW at, NEW x, NEW nested,
         NEW o, NEW next, ReadDelimited(octets, at) = Got(o, next),
         NEW all, NEW end, ReadPacked(f.type, o) = Got(all, end)
  PROVE  ReadField(f, 2, octets, at, x, nested) =
           Got(Put(x, f, x[f.name] \o all), next)
<1>1. ~ IsChars(f.type) /\ ~ IsDelimited(f.type) /\ f.type # "EtcdAddr"
  BY DEF IsChars, IsDelimited, NumberTypes
<1>2. Got(o, next).ok /\ Got(o, next).value = o /\ Got(o, next).next = next
  BY DEF Got
<1>3. Got(all, end).ok /\ Got(all, end).value = all
  BY DEF Got
<1> QED
  BY <1>1, <1>2, <1>3, Zenon DEF ReadField, Then, Put

\* It fails when its octets are not there.
LEMMA ReadFieldPackedFails ==
  ASSUME NEW f, f.type \in NumberTypes, f.repeated,
         NEW octets, NEW at, NEW x, NEW nested, ReadDelimited(octets, at) = Failed
  PROVE  ReadField(f, 2, octets, at, x, nested) = Failed
<1>1. ~ IsChars(f.type) /\ ~ IsDelimited(f.type) /\ f.type # "EtcdAddr"
  BY DEF IsChars, IsDelimited, NumberTypes
<1>2. ~ Failed.ok
  BY DEF Failed
<1> QED
  BY <1>1, <1>2, Zenon DEF ReadField, Then, Put

\* The case of a number stores it, or appends it to a repeated field.
LEMMA ReadFieldNumber ==
  ASSUME NEW f, f.type \in NumberTypes, NEW wire, ~ f.repeated \/ wire # 2,
         NEW octets, NEW at, NEW x, NEW nested, NEW r, r = ReadNumber(f.type, octets, at)
  PROVE  ReadField(f, wire, octets, at, x, nested) =
           IF r.ok
           THEN Got([x EXCEPT ![f.name] = IF f.repeated THEN Append(x[f.name], r.value)
                                          ELSE r.value], r.next)
           ELSE Failed
<1>1. ~ IsChars(f.type) /\ ~ IsDelimited(f.type) /\ f.type # "EtcdAddr"
  BY DEF IsChars, IsDelimited, NumberTypes
<1> QED
  BY <1>1, Zenon DEF ReadField, Then

\* The first k elements of a sequence, one k after the other.
LEMMA PrefixFacts ==
  ASSUME NEW S, NEW v \in Seq(S)
  PROVE  /\ SubSeq(v, 1, 0) = <<>> /\ SubSeq(v, 1, Len(v)) = v
         /\ \A k \in 1 .. Len(v) : SubSeq(v, 1, k) = Append(SubSeq(v, 1, k - 1), v[k])
         /\ \A k \in 0 .. Len(v) : SubSeq(v, 1, k) \in Seq(S) /\ Len(SubSeq(v, 1, k)) = k
         /\ \A k \in 1 .. Len(v) : v[k] \in S
<1>1. \A k \in 1 .. Len(v) : v[k] \in S
  BY ElementOfSeq
<1>2. ASSUME NEW k \in 0 .. Len(v)
      PROVE  /\ SubSeq(v, 1, k) \in Seq(S) /\ Len(SubSeq(v, 1, k)) = k
             /\ \A i \in 1 .. k : SubSeq(v, 1, k)[i] = v[i]
  <2>1. \A i \in 1 .. k : v[i] \in S
    BY <1>1
  <2>2. /\ SubSeq(v, 1, k) \in Seq(S)
        /\ Len(SubSeq(v, 1, k)) = IF 1 <= k THEN k - 1 + 1 ELSE 0
        /\ \A i \in 1 .. k - 1 + 1 : SubSeq(v, 1, k)[i] = v[1 + i - 1]
    BY <2>1, SubSeqProperties
  <2>3. \A i \in 1 .. k : i \in 1 .. k - 1 + 1 /\ 1 + i - 1 = i
    OBVIOUS
  <2> QED
    BY <2>2, <2>3
<1>3. SubSeq(v, 1, 0) = <<>>
  <2>1. SubSeq(v, 1, 0) \in Seq(S) /\ Len(SubSeq(v, 1, 0)) = 0
    BY <1>2
  <2> QED
    BY <2>1
<1>4. SubSeq(v, 1, Len(v)) = v
  <2>1. PICK s : s = SubSeq(v, 1, Len(v))
    OBVIOUS
  <2>2. s \in Seq(S) /\ Len(s) = Len(v) /\ \A i \in 1 .. Len(v) : s[i] = v[i]
    BY <1>2, <2>1
  <2> QED
    BY <2>1, <2>2, SeqEqual
<1>5. ASSUME NEW k \in 1 .. Len(v)
      PROVE  SubSeq(v, 1, k) = Append(SubSeq(v, 1, k - 1), v[k])
  <2>1. PICK s, t, w : s = SubSeq(v, 1, k) /\ t = SubSeq(v, 1, k - 1) /\ w = Append(t, v[k])
    OBVIOUS
  <2>2. k - 1 \in 0 .. Len(v) /\ k \in 0 .. Len(v)
    OBVIOUS
  <2>3. s \in Seq(S) /\ Len(s) = k /\ \A i \in 1 .. k : s[i] = v[i]
    BY <1>2, <2>1, <2>2
  <2>4. t \in Seq(S) /\ Len(t) = k - 1 /\ \A i \in 1 .. k - 1 : t[i] = v[i]
    BY <1>2, <2>1, <2>2
  <2>5. w \in Seq(S) /\ Len(w) = k /\ \A i \in 1 .. k : w[i] = IF i = k THEN v[k] ELSE t[i]
    BY <1>1, <2>1, <2>4
  <2>6. \A i \in 1 .. k : s[i] = w[i]
    <3> TAKE i \in 1 .. k
    <3>1. i # k => i \in 1 .. k - 1
      OBVIOUS
    <3> QED
      BY <2>3, <2>4, <2>5, <3>1
  <2> QED
    BY <2>1, <2>3, <2>5, <2>6, SeqEqual
<1> QED
  BY <1>1, <1>2, <1>3, <1>4, <1>5

\* The numbers of a packed field are pieces of an octet or more.
Packs(type, v, n, pieces) ==
  /\ n \in Nat /\ n = Len(v) /\ pieces \in [1 .. n -> Seq(Octet)]
  /\ \A k \in 1 .. n :
       /\ v[k] \in Element(type) /\ pieces[k] = Varint[Unsigned(type, v[k])]
       /\ Len(pieces[k]) \in Nat /\ Len(pieces[k]) >= 1
       /\ Len(pieces[k]) = VarintSize[Unsigned(type, v[k])]

\* The pieces of a packed field are varints, one for each number.
LEMMA PackedPieces ==
  ASSUME NEW type \in NumberTypes, NEW v \in Seq(Element(type)),
         NEW pieces, pieces = [i \in DOMAIN v |-> Varint[Unsigned(type, v[i])]]
  PROVE  Packs(type, v, Len(v), pieces)
<1>1. Len(v) \in Nat /\ DOMAIN v = 1 .. Len(v)
  OBVIOUS
<1>2. ASSUME NEW k \in 1 .. Len(v)
      PROVE  /\ v[k] \in Element(type) /\ pieces[k] = Varint[Unsigned(type, v[k])]
             /\ pieces[k] \in Seq(Octet)
             /\ Len(pieces[k]) \in Nat /\ Len(pieces[k]) >= 1
             /\ Len(pieces[k]) = VarintSize[Unsigned(type, v[k])]
  <2>1. PICK a, n : a = v[k] /\ n = Unsigned(type, a)
    OBVIOUS
  <2>2. a \in Element(type)
    BY <2>1, ElementOfSeq
  <2>3. n \in Nat
    BY <2>1, <2>2, NumberBack
  <2>4. Varint[n] \in Seq(Octet) /\ Shaped(Varint[n], n)
    BY <2>3, VarintDef, VarintShape
  <2>5. Len(Varint[n]) \in Nat /\ Len(Varint[n]) >= 1 /\ Len(Varint[n]) = VarintSize[n]
    BY <2>4 DEF Shaped
  <2>6. pieces[k] = Varint[n]
    BY <1>1, <2>1
  <2> QED
    BY <2>1, <2>2, <2>4, <2>5, <2>6
<1>3. pieces \in [1 .. Len(v) -> Seq(Octet)]
  BY <1>1, <1>2
<1> QED
  BY <1>1, <1>2, <1>3 DEF Packs

\* The loop over the numbers of a packed field is what its recursive definition
\* says.
LEMMA PackedTurns ==
  ASSUME NEW type, NEW octets \in Seq(Octet)
  PROVE  \E turns :
           /\ turns[0] = Got(<<>>, 1)
           /\ \A i \in 1 .. Len(octets) :
                turns[i] = IF Ended(octets, turns[i - 1]) THEN turns[i - 1]
                           ELSE ReadOnePacked(type, octets, turns[i - 1])
           /\ ReadPacked(type, octets) = turns[Len(octets)]
<1> DEFINE Step(s) == IF Ended(octets, s) THEN s ELSE ReadOnePacked(type, octets, s)
           Good(f, n) == f = [i \in 0 .. n |-> IF i = 0 THEN Got(<<>>, 1) ELSE Step(f[i - 1])]
<1>1. \A n \in Nat : \E f : Good(f, n)
  <2> HIDE DEF Step
  <2> DEFINE S == {n \in Nat : \E f : Good(f, n)}
  <2>1. 0 \in S
    <3>1. PICK f : f = [i \in 0 .. 0 |-> Got(<<>>, 1)]
      OBVIOUS
    <3>2. Good(f, 0)
      BY <3>1
    <3> QED
      BY <3>2
  <2>2. ASSUME NEW n \in Nat, n \in S
        PROVE  n + 1 \in S
    <3>1. PICK f : Good(f, n)
      BY <2>2
    <3>2. \A i \in 0 .. n : f[i] = IF i = 0 THEN Got(<<>>, 1) ELSE Step(f[i - 1])
      BY <3>1
    <3>3. PICK g : g = [i \in 0 .. n + 1 |-> IF i = n + 1 THEN Step(f[n]) ELSE f[i]]
      OBVIOUS
    <3>4. ASSUME NEW i \in 0 .. n + 1
          PROVE  g[i] = IF i = 0 THEN Got(<<>>, 1) ELSE Step(g[i - 1])
      <4>1. CASE i = n + 1
        <5>1. n \in 0 .. n + 1 /\ n # n + 1 /\ i - 1 = n /\ i # 0
          BY <4>1
        <5>2. g[n] = f[n] /\ g[i] = Step(f[n])
          BY <3>3, <4>1, <5>1
        <5> QED
          BY <5>1, <5>2
      <4>2. CASE i # n + 1
        <5>1. i \in 0 .. n /\ (i # 0 => i - 1 \in 0 .. n + 1 /\ i - 1 # n + 1)
          BY <4>2
        <5>2. g[i] = f[i] /\ (i # 0 => g[i - 1] = f[i - 1])
          BY <3>3, <4>2, <5>1
        <5> QED
          BY <3>2, <5>1, <5>2
      <4> QED
        BY <4>1, <4>2
    <3>5. Good(g, n + 1)
      BY <3>3, <3>4
    <3> HIDE DEF Good
    <3> QED
      BY <3>5
  <2>3. \A n \in Nat : n \in S
    <3> HIDE DEF S
    <3> QED
      BY <2>1, <2>2, StepInduction
  <2> HIDE DEF Good
  <2> QED
    BY <2>3
<1>2. PICK turns : turns = CHOOSE f : Good(f, Len(octets))
  OBVIOUS
<1>3. Good(turns, Len(octets))
  <2>1. \E f : Good(f, Len(octets))
    BY <1>1
  <2> HIDE DEF Good
  <2> QED
    BY <1>2, <2>1
<1>4. ReadPacked(type, octets) = turns[Len(octets)]
  BY <1>2, Zenon DEF ReadPacked
<1>5. \A i \in 0 .. Len(octets) : turns[i] = IF i = 0 THEN Got(<<>>, 1) ELSE Step(turns[i - 1])
  <2> HIDE DEF Step
  <2> QED
    BY <1>3
<1>6. \A i \in 1 .. Len(octets) : turns[i] = Step(turns[i - 1])
  <2> HIDE DEF Step
  <2>1. \A i \in 1 .. Len(octets) : i \in 0 .. Len(octets) /\ i # 0
    OBVIOUS
  <2> QED
    BY <1>5, <2>1
<1>7. turns[0] = Got(<<>>, 1)
  <2> HIDE DEF Step
  <2>1. 0 \in 0 .. Len(octets)
    OBVIOUS
  <2> QED
    BY <1>5, <2>1
<1> QED
  BY <1>4, <1>6, <1>7, Zenon

\* What is written of a packed field is read as its numbers.
LEMMA ReadPackedThere ==
  ASSUME NEW type \in NumberTypes, NEW v \in Seq(Element(type)), NEW octets,
         octets = FlattenSeq([i \in DOMAIN v |-> Varint[Unsigned(type, v[i])]])
  PROVE  /\ octets \in Seq(Octet)
         /\ ReadPacked(type, octets) = Got(v, Len(octets) + 1)
<1>1. PICK n, pieces : n = Len(v) /\ pieces = [i \in DOMAIN v |-> Varint[Unsigned(type, v[i])]]
  OBVIOUS
<1>2. /\ n \in Nat /\ pieces \in [1 .. n -> Seq(Octet)]
      /\ \A k \in 1 .. n :
           /\ v[k] \in Element(type) /\ pieces[k] = Varint[Unsigned(type, v[k])]
           /\ Len(pieces[k]) \in Nat /\ Len(pieces[k]) >= 1
  <2>1. Packs(type, v, n, pieces)
    BY <1>1, PackedPieces
  <2> QED
    BY <2>1 DEF Packs
<1>3. PICK g : Joins(g, n, pieces) /\ g[n] = octets
  BY <1>1, <1>2, Flattening
<1>4. /\ octets \in Seq(Octet) /\ Len(octets) \in Nat /\ g[0] = <<>>
      /\ \A k \in 0 .. n : Len(g[k]) \in Nat
  BY <1>2, <1>3 DEF Joins
<1>5. Sits(octets, 1, octets) /\ 1 \in Place
  BY <1>4 DEF Sits, Place
<1>6. \A k \in 1 .. n :
        /\ 1 + Len(g[k - 1]) \in Place
        /\ Sits(octets, 1 + Len(g[k - 1]), pieces[k])
        /\ 1 + Len(g[k]) = (1 + Len(g[k - 1])) + Len(pieces[k])
  <2>1. Sits(octets, 1, g[n])
    BY <1>3, <1>5
  <2> QED
    <3>1. OneByOne(octets, 1, n, pieces, g)
      BY <1>2, <1>3, <1>4, <1>5, <2>1, SitsPieces
    <3> QED
      BY <3>1 DEF OneByOne
<1>7. PICK turns :
        /\ turns[0] = Got(<<>>, 1)
        /\ \A i \in 1 .. Len(octets) :
             turns[i] = IF Ended(octets, turns[i - 1]) THEN turns[i - 1]
                        ELSE ReadOnePacked(type, octets, turns[i - 1])
        /\ ReadPacked(type, octets) = turns[Len(octets)]
  BY <1>4, PackedTurns
<1> DEFINE S == {k \in Nat : k <= n => /\ turns[k] = Got(SubSeq(v, 1, k), 1 + Len(g[k]))
                                       /\ k <= Len(g[k]) /\ k <= Len(octets)}
<1>8. 0 \in S
  <2>1. SubSeq(v, 1, 0) = <<>>
    BY PrefixFacts
  <2>2. Len(g[0]) = 0 /\ 1 + Len(g[0]) = 1
    BY <1>4
  <2>3. turns[0] = Got(SubSeq(v, 1, 0), 1 + Len(g[0]))
    BY <1>7, <2>1, <2>2
  <2> QED
    BY <1>4, <2>2, <2>3
<1>9. ASSUME NEW k \in Nat, k \in S
      PROVE  k + 1 \in S
  <2> SUFFICES ASSUME k + 1 <= n
               PROVE  /\ turns[k + 1] = Got(SubSeq(v, 1, k + 1), 1 + Len(g[k + 1]))
                      /\ k + 1 <= Len(g[k + 1]) /\ k + 1 <= Len(octets)
    OBVIOUS
  <2>1. PICK j, at, s : j = k + 1 /\ at = 1 + Len(g[k]) /\ s = SubSeq(v, 1, k)
    OBVIOUS
  <2>2. j \in 1 .. n /\ j - 1 = k /\ k \in 0 .. n
    BY <1>2, <2>1
  <2>3. turns[k] = Got(s, at) /\ k <= Len(g[k])
    BY <1>9, <2>1, <2>2
  <2>4. /\ at \in Place /\ Sits(octets, at, pieces[j]) /\ 1 + Len(g[j]) = at + Len(pieces[j])
        /\ Len(pieces[j]) >= 1 /\ Len(pieces[j]) \in Nat
    BY <1>2, <1>6, <2>1, <2>2
  <2>5. v[j] \in Element(type) /\ pieces[j] = Varint[Unsigned(type, v[j])]
    BY <1>2, <2>2
  <2>6. ReadNumber(type, octets, at) = Got(v[j], at + Len(pieces[j]))
    BY <1>4, <2>4, <2>5, ReadNumberThere
  <2>7. at + Len(pieces[j]) <= Len(octets) + 1 /\ at \in Nat
    BY <2>4 DEF Sits, Place
  <2>8. ~ Ended(octets, turns[k]) /\ j \in 1 .. Len(octets)
    <3>1. at <= Len(octets) /\ Len(g[k]) \in Nat
      BY <1>4, <2>2, <2>4, <2>7
    <3>2. j <= Len(octets)
      BY <1>4, <2>1, <2>2, <2>3, <3>1
    <3>3. Got(s, at).ok /\ Got(s, at).next = at
      BY DEF Got
    <3> QED
      BY <2>2, <2>3, <2>7, <3>1, <3>2, <3>3, <1>2, <1>4 DEF Ended
  <2>9. turns[j] = ReadOnePacked(type, octets, Got(s, at))
    BY <1>7, <2>2, <2>3, <2>8
  <2>10. ReadOnePacked(type, octets, Got(s, at)) = Got(Append(s, v[j]), at + Len(pieces[j]))
    <3>1. PICK a, next : a = v[j] /\ next = at + Len(pieces[j])
      OBVIOUS
    <3>2. Got(s, at).value = s /\ Got(s, at).next = at
      BY DEF Got
    <3>3. Got(a, next).ok /\ Got(a, next).value = a /\ Got(a, next).next = next
      BY DEF Got
    <3>4. ReadNumber(type, octets, at) = Got(a, next)
      BY <2>6, <3>1
    <3>5. ReadOnePacked(type, octets, Got(s, at)) = Got(Append(s, a), next)
      BY <3>2, <3>3, <3>4, Zenon DEF ReadOnePacked, Then
    <3> QED
      BY <3>1, <3>5
  <2>11. Append(s, v[j]) = SubSeq(v, 1, j)
    BY <1>1, <2>1, <2>2, PrefixFacts
  <2>12. j <= Len(g[j])
    <3>1. Len(g[j]) \in Nat /\ Len(g[k]) \in Nat
      BY <1>4, <2>2
    <3>2. 1 + Len(g[j]) = (1 + Len(g[k])) + Len(pieces[j])
      BY <2>1, <2>4
    <3>3. PICK a \in Nat, b \in Nat, c \in Nat :
            a = Len(g[k]) /\ b = Len(g[j]) /\ c = Len(pieces[j])
      BY <2>4, <3>1
    <3>4. k <= a /\ c >= 1
      BY <2>3, <2>4, <3>3
    <3>5. 1 + b = (1 + a) + c
      BY <3>2, <3>3
    <3>6. j <= b
      BY <2>1, <3>4, <3>5
    <3> QED
      BY <3>3, <3>6
  <2>13. turns[j] = Got(SubSeq(v, 1, j), 1 + Len(g[j])) /\ j <= Len(octets)
    BY <1>4, <2>4, <2>8, <2>9, <2>10, <2>11
  <2> QED
    BY <2>1, <2>12, <2>13
<1>10. \A k \in Nat : k \in S
  <2> HIDE DEF S
  <2> QED
    BY <1>8, <1>9, StepInduction
<1>11. turns[n] = Got(v, Len(octets) + 1) /\ n <= Len(octets)
  <2>1. n \in S
    BY <1>2, <1>10
  <2>2. SubSeq(v, 1, n) = v
    BY <1>1, PrefixFacts
  <2>3. turns[n] = Got(SubSeq(v, 1, n), 1 + Len(g[n])) /\ n <= Len(octets)
    BY <1>2, <2>1
  <2>4. 1 + Len(g[n]) = Len(octets) + 1
    BY <1>3, <1>4
  <2> QED
    BY <2>2, <2>3, <2>4
<1> DEFINE U == {k \in Nat : n + k <= Len(octets) => turns[n + k] = turns[n]}
<1>12. 0 \in U
  BY <1>2
<1>13. ASSUME NEW k \in Nat, k \in U
       PROVE  k + 1 \in U
  <2> SUFFICES ASSUME n + (k + 1) <= Len(octets)
               PROVE  turns[n + (k + 1)] = turns[n]
    OBVIOUS
  <2>1. PICK j : j = n + (k + 1)
    OBVIOUS
  <2>2. j \in 1 .. Len(octets) /\ j - 1 = n + k /\ n + k <= Len(octets)
    BY <1>2, <1>4, <2>1
  <2>3. turns[j - 1] = turns[n]
    BY <1>13, <2>2
  <2>4. Ended(octets, turns[j - 1])
    BY <1>4, <1>11, <2>3 DEF Ended, Got
  <2> QED
    BY <1>7, <2>1, <2>2, <2>3, <2>4
<1>14. turns[Len(octets)] = turns[n]
  <2>1. \A k \in Nat : k \in U
    <3> HIDE DEF U
    <3> QED
      BY <1>12, <1>13, StepInduction
  <2>2. PICK k : k = Len(octets) - n
    OBVIOUS
  <2>3. k \in Nat /\ n + k = Len(octets)
    BY <1>2, <1>4, <1>11, <2>2
  <2>4. k \in U
    BY <2>1, <2>3
  <2> QED
    BY <1>4, <2>3, <2>4
<1> QED
  BY <1>4, <1>7, <1>11, <1>14

(***************************************************************************)
(* One occurrence of a field: a tag and what belongs to it                 *)
(***************************************************************************)

\* A tag with something behind it: both are there, ...
LEMMA HeadThere ==
  ASSUME NEW octets \in Seq(Octet), NEW at \in Place, NEW tag \in Octet,
         NEW rest \in Seq(Octet), Sits(octets, at, <<tag>> \o rest)
  PROVE  /\ Sits(octets, at, <<tag>>) /\ Sits(octets, at + 1, rest)
         /\ at <= Len(octets) /\ at + Len(<<tag>> \o rest) = (at + 1) + Len(rest)
         /\ (at + 1) + Len(rest) \in Nat /\ at < (at + 1) + Len(rest)
<1>1. <<tag>> \in Seq(Octet) /\ Len(<<tag>>) = 1
  OBVIOUS
<1>2. Sits(octets, at, <<tag>>) /\ Sits(octets, at + 1, rest)
  BY <1>1, SitsConcat
<1>3. Len(<<tag>> \o rest) = 1 + Len(rest) /\ Len(rest) \in Nat
  BY <1>1, ConcatProperties
<1>4. at \in Nat /\ Len(octets) \in Nat
  BY DEF Place
<1>5. at + 1 <= Len(octets) + 1
  BY <1>1, <1>2 DEF Sits
<1> QED
  BY <1>2, <1>3, <1>4, <1>5

\* ... or the tag is and what is behind it is torn.
LEMMA HeadTorn ==
  ASSUME NEW octets \in Seq(Octet), NEW at \in Place, at <= Len(octets),
         NEW tag \in Octet, NEW rest \in Seq(Octet), Torn(octets, at, <<tag>> \o rest)
  PROVE  Sits(octets, at, <<tag>>) /\ Torn(octets, at + 1, rest)
<1>1. <<tag>> \in Seq(Octet) /\ Len(<<tag>>) = 1
  OBVIOUS
<1>2. at \in Nat /\ Len(octets) \in Nat
  BY DEF Place
<1>3. ~ Torn(octets, at, <<tag>>)
  BY <1>1, <1>2 DEF Torn
<1>4. \/ Torn(octets, at, <<tag>>)
      \/ Sits(octets, at, <<tag>>) /\ Torn(octets, at + Len(<<tag>>), rest)
  BY <1>1, TornConcat
<1> QED
  BY <1>1, <1>3, <1>4

\* The tags a field is read by are octets.
LEMMA TagIsOctet ==
  ASSUME NEW table, GoodTable(table), NEW k \in DOMAIN table, NEW tag \in TagsOf(table[k])
  PROVE  tag \in Octet
<1>1. tag \in 8 .. 114
  BY CaseTaken
<1> QED
  BY <1>1 DEF Octet

\* The loop takes an occurrence that is there in one turn, ...
LEMMA UnitThere ==
  ASSUME NEW table, GoodTable(table), NEW k \in DOMAIN table, NEW tag \in TagsOf(table[k]),
         NEW octets \in Seq(Octet), NEW nested, NEW turns,
         Reads(table, octets, nested, turns),
         NEW x, NEW at, Stands(octets, turns, x, at),
         NEW rest \in Seq(Octet), Sits(octets, at, <<tag>> \o rest),
         NEW y, ReadField(table[k], tag % 8, octets, at + 1, x, nested) =
                  Got(y, (at + 1) + Len(rest))
  PROVE  Stands(octets, turns, y, at + Len(<<tag>> \o rest))
<1>1. at \in Place /\ tag \in Octet
  BY TagIsOctet DEF Stands
<1>2. PICK next : next = (at + 1) + Len(rest)
  OBVIOUS
<1>3. /\ Sits(octets, at, <<tag>>) /\ at <= Len(octets)
      /\ at + Len(<<tag>> \o rest) = next /\ next \in Nat /\ at < next
  BY <1>1, <1>2, HeadThere
<1>4. ReadTagged(table, octets, Got(x, at), nested) = Got(y, next)
  BY <1>1, <1>2, <1>3, TurnOfField
<1>5. Stands(octets, turns, y, next)
  BY <1>3, <1>4, LoopGoesOn
<1> QED
  BY <1>3, <1>5

\* ... and fails at one that is cut.
LEMMA UnitTorn ==
  ASSUME NEW table, GoodTable(table), NEW k \in DOMAIN table, NEW tag \in TagsOf(table[k]),
         NEW octets \in Seq(Octet), NEW nested, NEW turns,
         Reads(table, octets, nested, turns),
         NEW x, NEW at, Stands(octets, turns, x, at), at <= Len(octets),
         NEW rest \in Seq(Octet), Torn(octets, at, <<tag>> \o rest),
         ReadField(table[k], tag % 8, octets, at + 1, x, nested) = Failed
  PROVE  turns[Len(octets)] = Failed
<1>1. at \in Place /\ tag \in Octet
  BY TagIsOctet DEF Stands
<1>2. Sits(octets, at, <<tag>>)
  BY <1>1, HeadTorn
<1>3. ReadTagged(table, octets, Got(x, at), nested) = Failed
  BY <1>1, <1>2, TurnOfField
<1> QED
  BY <1>3, LoopFails

\* A number that is not packed.
PlainTag(f, tag) == tag \in TagsOf(f) /\ (~ f.repeated \/ tag = 8 * f.num)

Stored(x, f, v) == Put(x, f, IF f.repeated THEN Append(x[f.name], v) ELSE v)

\* A number with its tag in front is read into the field.
LEMMA NumberThere ==
  ASSUME NEW table, GoodTable(table), NEW k \in DOMAIN table, NEW tag, NEW f, f = table[k],
         PlainTag(f, tag), f.type \in NumberTypes, NEW v \in Element(f.type),
         NEW octets \in Seq(Octet), NEW nested, NEW turns,
         Reads(table, octets, nested, turns),
         NEW x, NEW at, Stands(octets, turns, x, at),
         NEW rest, rest = Varint[Unsigned(f.type, v)], Sits(octets, at, <<tag>> \o rest)
  PROVE  Stands(octets, turns, Stored(x, f, v), at + Len(<<tag>> \o rest))
<1>1. tag \in TagsOf(table[k]) /\ at \in Place /\ tag \in Octet /\ at + 1 \in Place
  BY TagIsOctet DEF PlainTag, Stands, Place
<1>2. rest \in Seq(Octet)
  BY NumberBack, VarintDef
<1>3. Sits(octets, at + 1, rest)
  BY <1>1, <1>2, HeadThere
<1>4. ~ f.repeated \/ tag % 8 # 2
  BY TagForms DEF GoodTable, PlainTag
<1>5. PICK next : next = (at + 1) + Len(rest)
  OBVIOUS
<1>6. ReadNumber(f.type, octets, at + 1) = Got(v, next)
  BY <1>1, <1>3, <1>5, ReadNumberThere
<1>7. Got(v, next).ok /\ Got(v, next).value = v /\ Got(v, next).next = next
  BY DEF Got
<1>8. ReadField(f, tag % 8, octets, at + 1, x, nested) = Got(Stored(x, f, v), next)
  BY <1>4, <1>6, <1>7, ReadFieldNumber DEF Stored, Put
<1> QED
  BY <1>1, <1>2, <1>5, <1>8, UnitThere

\* A number with its tag in front.
OneNumber(f, v, tag, w) == w = <<tag>> \o Varint[Unsigned(f.type, v)]

\* When it is cut off, the loop fails, or ends before the number.
LEMMA NumberTorn ==
  ASSUME NEW table, GoodTable(table), NEW k \in DOMAIN table, NEW tag, NEW f, f = table[k],
         PlainTag(f, tag), f.type \in NumberTypes, NEW v \in Element(f.type),
         NEW octets \in Seq(Octet), NEW nested, NEW turns,
         Reads(table, octets, nested, turns),
         NEW x, NEW at \in Place, Stands(octets, turns, x, at), at <= Len(octets),
         NEW w, OneNumber(f, v, tag, w), Torn(octets, at, w)
  PROVE  turns[Len(octets)] = Failed
<1>0. PICK rest : rest = Varint[Unsigned(f.type, v)] /\ w = <<tag>> \o rest
  BY DEF OneNumber
<1>1. tag \in TagsOf(table[k]) /\ at \in Place /\ tag \in Octet /\ at + 1 \in Place
  BY TagIsOctet DEF PlainTag, Stands, Place
<1>2. rest \in Seq(Octet)
  BY <1>0, NumberBack, VarintDef
<1>3. Torn(octets, at + 1, rest)
  BY <1>0, <1>1, <1>2, HeadTorn
<1>4. ~ f.repeated \/ tag % 8 # 2
  BY TagForms DEF GoodTable, PlainTag
<1>5. ReadNumber(f.type, octets, at + 1) = Failed
  BY <1>0, <1>1, <1>3, ReadNumberTorn
<1>6. ReadField(f, tag % 8, octets, at + 1, x, nested) = Failed
  BY <1>4, <1>5, ReadFieldNumber DEF Failed
<1> QED
  BY <1>0, <1>1, <1>2, <1>6, UnitTorn

\* A field with a length in front: characters, packed numbers, an address.  What
\* its octets o stand for is its own.
LEMMA DelimitedThere ==
  ASSUME NEW table, GoodTable(table), NEW k \in DOMAIN table, NEW f, f = table[k],
         NEW octets \in Seq(Octet), Len(octets) < Wide, NEW nested, NEW turns,
         Reads(table, octets, nested, turns),
         NEW x, NEW at, Stands(octets, turns, x, at),
         NEW o \in Seq(Octet), Sits(octets, at, <<Tag(f)>> \o Delimited(o)),
         NEW y, \A next : ReadDelimited(octets, at + 1) = Got(o, next) =>
                  ReadField(f, Tag(f) % 8, octets, at + 1, x, nested) = Got(y, next)
  PROVE  Stands(octets, turns, y, at + Len(<<Tag(f)>> \o Delimited(o)))
<1>1. PICK tag, rest, next :
        tag = Tag(f) /\ rest = Delimited(o) /\ next = (at + 1) + Len(rest)
  OBVIOUS
<1>2. tag \in TagsOf(table[k]) /\ at \in Place /\ tag \in Octet /\ at + 1 \in Place
  BY <1>1, TagIsOctet DEF Stands, Place, TagsOf
<1>3. rest \in Seq(Octet)
  BY <1>1, DelimitedType
<1>4. Sits(octets, at + 1, rest)
  BY <1>1, <1>2, <1>3, HeadThere
<1>5. ReadDelimited(octets, at + 1) = Got(o, next)
  BY <1>1, <1>2, <1>4, ReadDelimitedThere
<1>6. ReadField(f, tag % 8, octets, at + 1, x, nested) = Got(y, next)
  BY <1>1, <1>5
<1>7. Stands(octets, turns, y, at + Len(<<tag>> \o rest))
  BY <1>1, <1>2, <1>3, <1>6, UnitThere
<1> QED
  BY <1>1, <1>7

\* When the octets of a delimited field are cut off behind its tag, they cannot
\* be read.
LEMMA DelimitedTorn ==
  ASSUME NEW table, GoodTable(table), NEW k \in DOMAIN table, NEW f, f = table[k],
         NEW octets \in Seq(Octet), NEW nested, NEW turns,
         Reads(table, octets, nested, turns),
         NEW x, NEW at, Stands(octets, turns, x, at), at <= Len(octets),
         NEW o \in Seq(Octet), Len(o) < Wide, Torn(octets, at, <<Tag(f)>> \o Delimited(o)),
         ReadDelimited(octets, at + 1) = Failed =>
           ReadField(f, Tag(f) % 8, octets, at + 1, x, nested) = Failed
  PROVE  turns[Len(octets)] = Failed
<1>1. PICK tag, rest : tag = Tag(f) /\ rest = Delimited(o)
  OBVIOUS
<1>2. tag \in TagsOf(table[k]) /\ at \in Place /\ tag \in Octet /\ at + 1 \in Place
  BY <1>1, TagIsOctet DEF Stands, Place, TagsOf
<1>3. rest \in Seq(Octet)
  BY <1>1, DelimitedType
<1>4. Torn(octets, at + 1, rest)
  BY <1>1, <1>2, <1>3, HeadTorn
<1>5. ReadDelimited(octets, at + 1) = Failed
  BY <1>1, <1>2, <1>4, ReadDelimitedTorn
<1>6. ReadField(f, tag % 8, octets, at + 1, x, nested) = Failed
  BY <1>1, <1>5
<1> QED
  BY <1>1, <1>2, <1>3, <1>6, UnitTorn

\* Characters, ...
LEMMA CharsThere ==
  ASSUME NEW table, GoodTable(table), NEW k \in DOMAIN table, NEW f, f = table[k],
         f.type \in {"string", "bytes"},
         NEW octets \in Seq(Octet), Len(octets) < Wide, NEW nested, NEW turns,
         Reads(table, octets, nested, turns),
         NEW x, NEW at, Stands(octets, turns, x, at),
         NEW o \in Seq(Octet), VerifyUtf8String(f.type, o),
         Sits(octets, at, <<Tag(f)>> \o Delimited(o))
  PROVE  Stands(octets, turns, Put(x, f, o), at + Len(<<Tag(f)>> \o Delimited(o)))
<1>1. PICK y : y = Put(x, f, o)
  OBVIOUS
<1>2. ASSUME NEW next, ReadDelimited(octets, at + 1) = Got(o, next)
      PROVE  ReadField(f, Tag(f) % 8, octets, at + 1, x, nested) = Got(y, next)
  BY <1>1, <1>2, ReadFieldChars
<1>3. Stands(octets, turns, y, at + Len(<<Tag(f)>> \o Delimited(o)))
  BY <1>2, DelimitedThere
<1> QED
  BY <1>1, <1>3

\* Then the loop fails: for a string, ...
LEMMA CharsTorn ==
  ASSUME NEW table, GoodTable(table), NEW k \in DOMAIN table, NEW f, f = table[k],
         f.type \in {"string", "bytes"},
         NEW octets \in Seq(Octet), NEW nested, NEW turns,
         Reads(table, octets, nested, turns),
         NEW x, NEW at, Stands(octets, turns, x, at), at <= Len(octets),
         NEW o \in Seq(Octet), Len(o) < Wide, Torn(octets, at, <<Tag(f)>> \o Delimited(o))
  PROVE  turns[Len(octets)] = Failed
<1>1. ReadDelimited(octets, at + 1) = Failed =>
        ReadField(f, Tag(f) % 8, octets, at + 1, x, nested) = Failed
  BY ReadFieldCharsFails
<1> QED
  BY <1>1, DelimitedTorn

\* ... numbers in a run, ...
LEMMA PackedThere ==
  ASSUME NEW table, GoodTable(table), NEW k \in DOMAIN table, NEW f, f = table[k],
         f.type \in NumberTypes, f.repeated, NEW v \in Seq(Element(f.type)),
         NEW octets \in Seq(Octet), Len(octets) < Wide, NEW nested, NEW turns,
         Reads(table, octets, nested, turns),
         NEW x, NEW at, Stands(octets, turns, x, at),
         NEW o, o = Packed(f, v), Sits(octets, at, <<Tag(f)>> \o Delimited(o))
  PROVE  Stands(octets, turns, Put(x, f, x[f.name] \o v),
            at + Len(<<Tag(f)>> \o Delimited(o)))
<1>1. PICK y : y = Put(x, f, x[f.name] \o v)
  OBVIOUS
<1>2. o \in Seq(Octet) /\ ReadPacked(f.type, o) = Got(v, Len(o) + 1)
  BY ReadPackedThere DEF Packed
<1>3. Tag(f) % 8 = 2
  BY TagForms DEF GoodTable
<1>4. ASSUME NEW next, ReadDelimited(octets, at + 1) = Got(o, next)
      PROVE  ReadField(f, Tag(f) % 8, octets, at + 1, x, nested) = Got(y, next)
  <2>1. ReadField(f, 2, octets, at + 1, x, nested) = Got(y, next)
    BY <1>1, <1>2, <1>4, ReadFieldPacked
  <2> QED
    BY <1>3, <2>1
<1>5. Stands(octets, turns, y, at + Len(<<Tag(f)>> \o Delimited(o)))
  BY <1>2, <1>4, DelimitedThere
<1> QED
  BY <1>1, <1>5

\* ... for packed numbers, ...
LEMMA PackedTorn ==
  ASSUME NEW table, GoodTable(table), NEW k \in DOMAIN table, NEW f, f = table[k],
         f.type \in NumberTypes, f.repeated,
         NEW octets \in Seq(Octet), NEW nested, NEW turns,
         Reads(table, octets, nested, turns),
         NEW x, NEW at, Stands(octets, turns, x, at), at <= Len(octets),
         NEW o \in Seq(Octet), Len(o) < Wide, Torn(octets, at, <<Tag(f)>> \o Delimited(o))
  PROVE  turns[Len(octets)] = Failed
<1>1. Tag(f) % 8 = 2
  BY TagForms DEF GoodTable
<1>2. ReadDelimited(octets, at + 1) = Failed =>
        ReadField(f, Tag(f) % 8, octets, at + 1, x, nested) = Failed
  BY <1>1, ReadFieldPackedFails
<1> QED
  BY <1>2, DelimitedTorn

\* ... and an address whose octets are understood.
LEMMA AddressThere ==
  ASSUME NEW table, GoodTable(table), NEW k \in DOMAIN table, NEW f, f = table[k],
         f.type = "EtcdAddr",
         NEW octets \in Seq(Octet), Len(octets) < Wide, NEW nested, NEW turns,
         Reads(table, octets, nested, turns),
         NEW x, NEW at, Stands(octets, turns, x, at),
         NEW o \in Seq(Octet), NEW a, NEW end, nested[o] = Got(a, end),
         Sits(octets, at, <<Tag(f)>> \o Delimited(o))
  PROVE  Stands(octets, turns, Put(x, f, Append(x[f.name], a)),
            at + Len(<<Tag(f)>> \o Delimited(o)))
<1>1. PICK y : y = Put(x, f, Append(x[f.name], a))
  OBVIOUS
<1>2. ASSUME NEW next, ReadDelimited(octets, at + 1) = Got(o, next)
      PROVE  ReadField(f, Tag(f) % 8, octets, at + 1, x, nested) = Got(y, next)
  BY <1>1, <1>2, ReadFieldAddress
<1>3. Stands(octets, turns, y, at + Len(<<Tag(f)>> \o Delimited(o)))
  BY <1>2, DelimitedThere
<1> QED
  BY <1>1, <1>3

\* ... and for an address.
LEMMA AddressTorn ==
  ASSUME NEW table, GoodTable(table), NEW k \in DOMAIN table, NEW f, f = table[k],
         f.type = "EtcdAddr",
         NEW octets \in Seq(Octet), NEW nested, NEW turns,
         Reads(table, octets, nested, turns),
         NEW x, NEW at, Stands(octets, turns, x, at), at <= Len(octets),
         NEW o \in Seq(Octet), Len(o) < Wide, Torn(octets, at, <<Tag(f)>> \o Delimited(o))
  PROVE  turns[Len(octets)] = Failed
<1>1. ReadDelimited(octets, at + 1) = Failed =>
        ReadField(f, Tag(f) % 8, octets, at + 1, x, nested) = Failed
  BY ReadFieldAddressFails
<1> QED
  BY <1>1, DelimitedTorn

(***************************************************************************)
(* Fields written in several pieces                                        *)
(***************************************************************************)

\* x is an object with fields of these names.
HasFields(table, x) == x = [name \in FieldNames(table) |-> x[name]]

\* Storing into one field of an object.
LEMMA PutFacts ==
  ASSUME NEW table, NEW k \in DOMAIN table, NEW f, f = table[k],
         NEW x, HasFields(table, x), NEW w
  PROVE  /\ HasFields(table, Put(x, f, w)) /\ Put(x, f, w)[f.name] = w
         /\ \A u : Put(Put(x, f, w), f, u) = Put(x, f, u)
         /\ Put(x, f, x[f.name]) = x
         /\ \A name \in FieldNames(table) : name # f.name => Put(x, f, w)[name] = x[name]
<1>1. f.name \in FieldNames(table)
  BY DEF FieldNames
<1>2. PICK D : D = FieldNames(table)
  OBVIOUS
<1> QED
  BY <1>1, <1>2 DEF Put, HasFields

\* r is s behind b, and u is s with c at its end.
Behind(r, b, s) == r = b \o s
Extends(u, s, c) == u = Append(s, c)

\* Appending to two sequences in a row is appending to the second.
LEMMA AppendToJoined ==
  ASSUME NEW S, NEW b \in Seq(S), NEW s \in Seq(S), NEW c \in S,
         NEW r, Behind(r, b, s), NEW u, Extends(u, r, c), NEW t, Extends(t, s, c)
  PROVE  u = b \o t
<1>1. u = Append(b \o s, c) /\ t = Append(s, c)
  BY DEF Extends, Behind
<1>2. /\ b \o s \in Seq(S) /\ Len(b \o s) = Len(b) + Len(s)
      /\ \A i \in 1 .. Len(b) + Len(s) :
           (b \o s)[i] = IF i <= Len(b) THEN b[i] ELSE s[i - Len(b)]
  BY ConcatProperties
<1>3. t \in Seq(S) /\ Len(t) = Len(s) + 1 /\ t[Len(t)] = c /\ \A i \in 1 .. Len(s) : t[i] = s[i]
  BY <1>1
<1>4. /\ b \o t \in Seq(S) /\ Len(b \o t) = Len(b) + Len(t)
      /\ \A i \in 1 .. Len(b) + Len(t) :
           (b \o t)[i] = IF i <= Len(b) THEN b[i] ELSE t[i - Len(b)]
  BY <1>3, ConcatProperties
<1>5. /\ u \in Seq(S) /\ Len(u) = Len(b) + Len(s) + 1 /\ u[Len(u)] = c
      /\ \A i \in 1 .. Len(b) + Len(s) : u[i] = (b \o s)[i]
  BY <1>1, <1>2
<1>6. Len(b) \in Nat /\ Len(s) \in Nat
  OBVIOUS
<1>7. ASSUME NEW i \in 1 .. Len(u)
      PROVE  u[i] = (b \o t)[i]
  <2>1. i \in 1 .. Len(b) + Len(t)
    BY <1>3, <1>5, <1>6
  <2>2. CASE i = Len(u)
    <3>1. ~ (i <= Len(b)) /\ i - Len(b) = Len(t)
      BY <1>3, <1>5, <1>6, <2>2
    <3> QED
      BY <1>3, <1>4, <1>5, <2>1, <2>2, <3>1
  <2>3. CASE i # Len(u)
    <3>1. i \in 1 .. Len(b) + Len(s)
      <4>1. Len(u) = Len(b) + Len(s) + 1
        BY <1>5
      <4>2. i \in Nat /\ 1 <= i /\ i <= Len(b) + Len(s) + 1
        BY <1>6, <4>1
      <4>3. i # Len(b) + Len(s) + 1
        BY <2>3, <4>1
      <4> QED
        BY <1>6, <4>2, <4>3
    <3>2. ~ (i <= Len(b)) => i - Len(b) \in 1 .. Len(s)
      BY <1>6, <3>1
    <3> QED
      BY <1>2, <1>3, <1>4, <1>5, <2>1, <3>1, <3>2
  <2> QED
    BY <2>2, <2>3
<1>8. Len(u) = Len(b \o t)
  BY <1>3, <1>4, <1>5, <1>6
<1> QED
  BY <1>4, <1>5, <1>7, <1>8, SeqEqual

\* When the loop appends v[j] for piece j, it appends all of v.
Appends(octets, turns, f, v, n, pieces) ==
  \A j \in 1 .. n : \A y, p :
    Stands(octets, turns, y, p) /\ Sits(octets, p, pieces[j]) =>
      Stands(octets, turns, Put(y, f, Append(y[f.name], v[j])), p + Len(pieces[j]))

\* A loop that appends each element reads them all, in their order.
LEMMA ElementsThere ==
  ASSUME NEW table, NEW k \in DOMAIN table, NEW f, f = table[k],
         NEW octets \in Seq(Octet), NEW turns,
         NEW x, HasFields(table, x), NEW S, x[f.name] \in Seq(S), NEW v \in Seq(S),
         NEW n \in 0 .. Len(v), NEW pieces, NEW g, Joins(g, n, pieces),
         NEW at, Stands(octets, turns, x, at), OneByOne(octets, at, n, pieces, g),
         Appends(octets, turns, f, v, n, pieces)
  PROVE  \A j \in 0 .. n :
           Stands(octets, turns, Put(x, f, x[f.name] \o SubSeq(v, 1, j)), at + Len(g[j]))
<1> DEFINE y(j) == Put(x, f, x[f.name] \o SubSeq(v, 1, j))
           T == {j \in Nat : j <= n => Stands(octets, turns, y(j), at + Len(g[j]))}
<1>1. 0 \in T
  <2>1. SubSeq(v, 1, 0) = <<>> /\ x[f.name] \o <<>> = x[f.name]
    BY PrefixFacts
  <2>2. y(0) = x
    <3>1. Put(x, f, x[f.name]) = x
      BY PutFacts
    <3> QED
      BY <2>1, <3>1
  <2>3. at \in Nat /\ g[0] = <<>>
    BY DEF Stands, Place, Joins
  <2>4. at + Len(g[0]) = at
    BY <2>3
  <2> QED
    BY <2>2, <2>4
<1>2. ASSUME NEW i \in Nat, i \in T
      PROVE  i + 1 \in T
  <2> SUFFICES ASSUME i + 1 <= n
               PROVE  Stands(octets, turns, y(i + 1), at + Len(g[i + 1]))
    OBVIOUS
  <2>1. PICK j, p, s, r : /\ j = i + 1 /\ p = at + Len(g[i]) /\ s = SubSeq(v, 1, i)
                          /\ r = x[f.name] \o s
    OBVIOUS
  <2>2. j \in 1 .. n /\ j - 1 = i /\ j \in 1 .. Len(v) /\ i \in 0 .. Len(v)
    BY <2>1
  <2>3. Stands(octets, turns, Put(x, f, r), p)
    BY <1>2, <2>1
  <2>4. Sits(octets, p, pieces[j]) /\ at + Len(g[j]) = p + Len(pieces[j])
    BY <2>1, <2>2 DEF OneByOne
  <2>5. Put(x, f, r)[f.name] = r
    BY PutFacts
  <2>6. Stands(octets, turns, Put(Put(x, f, r), f, Append(r, v[j])), p + Len(pieces[j]))
    BY <2>2, <2>3, <2>4, <2>5 DEF Appends
  <2>7. Put(Put(x, f, r), f, Append(r, v[j])) = Put(x, f, Append(r, v[j]))
    BY PutFacts
  <2>8. Append(r, v[j]) = x[f.name] \o SubSeq(v, 1, j)
    <3>1. SubSeq(v, 1, j) = Append(s, v[j]) /\ s \in Seq(S) /\ v[j] \in S
      BY <2>1, <2>2, PrefixFacts
    <3>2. PICK b, c : b = x[f.name] /\ c = v[j]
      OBVIOUS
    <3>3. b \in Seq(S) /\ c \in S
      BY <3>1, <3>2
    <3>4. PICK u, t : Extends(u, r, c) /\ Extends(t, s, c)
      BY DEF Extends
    <3>5. u = b \o t
      <4>1. Behind(r, b, s) /\ s \in Seq(S)
        BY <2>1, <3>1, <3>2 DEF Behind
      <4> QED
        BY <3>3, <3>4, <4>1, AppendToJoined
    <3> QED
      BY <3>1, <3>2, <3>4, <3>5 DEF Extends
  <2> QED
    BY <2>1, <2>4, <2>6, <2>7, <2>8
<1>3. \A j \in Nat : j \in T
  <2> HIDE DEF T
  <2> QED
    BY <1>1, <1>2, StepInduction
<1>4. \A j \in 0 .. n : j \in Nat /\ j <= n
  OBVIOUS
<1> QED
  BY <1>3, <1>4

(***************************************************************************)
(* What is written of a field                                              *)
(***************************************************************************)

\* The kinds of fields.
Kind(f) ==
  \/ f.type = "EtcdAddr" /\ f.repeated
  \/ f.type \in NumberTypes /\ f.repeated
  \/ f.type \in NumberTypes /\ ~ f.repeated
  \/ f.type \in {"string", "bytes"} /\ ~ f.repeated

\* Every field is of one of the four kinds.
LEMMA FieldKinds ==
  ASSUME NEW f, GoodField(f)
  PROVE  Kind(f) /\ f.repeated \in BOOLEAN
BY DEF GoodField, Kind

\* The empty sequence is UTF-8.
LEMMA EmptyUtf8 ==
  <<>> \in Utf8
<1>1. IsUtf8(<<>>)
  BY DEF IsUtf8
<1>2. <<>> \in Seq(Octet)
  OBVIOUS
<1> QED
  BY <1>1, <1>2 DEF Utf8

\* The values of a string are octets that pass its reader's check.
LEMMA CharsElement ==
  ASSUME NEW f, f.type \in {"string", "bytes"}, ~ f.repeated
  PROVE  /\ <<>> \in Value(f)
         /\ \A v \in Value(f) : v \in Seq(Octet) /\ VerifyUtf8String(f.type, v)
<1>1. f.type \notin {"bool", "uint32", "int32", "int64", "EtcdAddr"}
  OBVIOUS
<1>2. Value(f) = Element(f.type)
  BY DEF Value
<1>3. CASE f.type = "string"
  <2>1. Value(f) = Utf8
    BY <1>1, <1>2, <1>3, Zenon DEF Element
  <2>2. \A v \in Utf8 : v \in Seq(Octet) /\ IsUtf8(v)
    BY DEF Utf8
  <2> QED
    BY <2>1, <2>2, EmptyUtf8, Zenon DEF VerifyUtf8String
<1>4. CASE f.type # "string"
  <2>1. f.type = "bytes"
    BY <1>4
  <2>2. Value(f) = Seq(Octet)
    BY <1>1, <1>2, <1>4, <2>1, Zenon DEF Element
  <2>3. <<>> \in Seq(Octet)
    OBVIOUS
  <2> QED
    BY <1>4, <2>2, <2>3, Zenon DEF VerifyUtf8String
<1> QED
  BY <1>3, <1>4

\* An address has a string for its ip and a signed number for its port.
LEMMA AddressElement ==
  Element("EtcdAddr") = [ip : Utf8, port : Signed(Narrow)]
<1>1. "EtcdAddr" \notin {"bool", "uint32", "int32", "int64", "string", "bytes"}
  OBVIOUS
<1> QED
  BY <1>1, Zenon DEF Element

\* A field that is not repeated is not written when it has its default.
LEMMA CharsWritten ==
  ASSUME NEW f, f.type \in {"string", "bytes"}, ~ f.repeated, NEW v
  PROVE  /\ WriteField(f, v) = IF v = <<>> THEN <<>> ELSE <<Tag(f)>> \o Delimited(v)
         /\ Default(f) = <<>>
<1>1. IsChars(f.type) /\ IsDelimited(f.type) /\ f.type # "EtcdAddr"
  BY DEF IsChars, IsDelimited
<1>2. Default(f) = <<>>
  BY <1>1, Zenon DEF Default
<1>3. WriteField(f, v) = Singular(f, v)
  BY <1>1, Zenon DEF WriteField
<1>4. Singular(f, v) = IF v = <<>> THEN <<>> ELSE <<Tag(f)>> \o Delimited(v)
  BY <1>1, <1>2, Zenon DEF Singular
<1> QED
  BY <1>2, <1>3, <1>4

\* A number is its tag and a varint.
LEMMA NumberWritten ==
  ASSUME NEW f, f.type \in NumberTypes, ~ f.repeated, NEW v
  PROVE  WriteField(f, v) = IF v = Default(f) THEN <<>>
                            ELSE <<Tag(f)>> \o Varint[Unsigned(f.type, v)]
<1>1. ~ IsChars(f.type) /\ f.type # "EtcdAddr"
  BY DEF IsChars, NumberTypes
<1>2. WriteField(f, v) = Singular(f, v)
  BY <1>1, Zenon DEF WriteField
<1>3. Singular(f, v) = IF v = Default(f) THEN <<>>
                       ELSE <<Tag(f)>> \o Varint[Unsigned(f.type, v)]
  BY <1>1, Zenon DEF Singular
<1> QED
  BY <1>2, <1>3

\* Packed numbers are a tag and their octets with the length in front.
LEMMA PackedWritten ==
  ASSUME NEW f, f.type \in NumberTypes, f.repeated, NEW v
  PROVE  /\ WriteField(f, v) = IF v = <<>> THEN <<>>
                               ELSE <<Tag(f)>> \o Delimited(Packed(f, v))
         /\ Default(f) = <<>>
<1>1. f.type # "EtcdAddr"
  BY DEF NumberTypes
<1> QED
  BY <1>1, Zenon DEF WriteField, Default

\* An address in a field is a tag and its octets with their length in front.
AddressPieces(f, v) ==
  [i \in DOMAIN v |-> <<Tag(f)>> \o Delimited(Serialize(EtcdAddr, v[i]))]

\* What is written of an element of a repeated message is what its class
\* serializes.
LEMMA AddressSerialized ==
  ASSUME NEW a
  PROVE  FlattenSeq([j \in DOMAIN EtcdAddr |->
                       Singular(EtcdAddr[j], a[EtcdAddr[j].name])]) = Serialize(EtcdAddr, a)
<1>1. ASSUME NEW j \in DOMAIN EtcdAddr
      PROVE  WriteField(EtcdAddr[j], a[EtcdAddr[j].name]) =
               Singular(EtcdAddr[j], a[EtcdAddr[j].name])
  <2>1. j \in {1, 2}
    BY DEF EtcdAddr
  <2>2. EtcdAddr[j].type # "EtcdAddr" /\ ~ EtcdAddr[j].repeated
    BY <2>1 DEF EtcdAddr, Optional
  <2> QED
    BY <2>2, Zenon DEF WriteField
<1>2. [j \in DOMAIN EtcdAddr |-> Singular(EtcdAddr[j], a[EtcdAddr[j].name])] =
      [j \in DOMAIN EtcdAddr |-> WriteField(EtcdAddr[j], a[EtcdAddr[j].name])]
  BY <1>1, Zenon
<1> QED
  BY <1>2, Zenon DEF Serialize

\* Addresses are written one after the other.
LEMMA AddressesWritten ==
  ASSUME NEW f, f.type = "EtcdAddr", f.repeated, NEW v
  PROVE  WriteField(f, v) = FlattenSeq(AddressPieces(f, v)) /\ Default(f) = <<>>
<1>1. WriteField(f, v) = Addresses(f, v) /\ Default(f) = <<>>
  BY Zenon DEF WriteField, Default
<1>2. Addresses(f, v) = FlattenSeq(AddressPieces(f, v))
  BY AddressSerialized, Zenon DEF Addresses, AddressPieces
<1> QED
  BY <1>1, <1>2

\* A tag is one octet.
LEMMA TagSequence ==
  ASSUME NEW f, GoodField(f)
  PROVE  Tag(f) \in 8 .. 114 /\ Tag(f) \in Octet /\ <<Tag(f)>> \in Seq(Octet)
<1>1. PICK tag : tag = Tag(f)
  OBVIOUS
<1>2. tag \in 8 .. 114
  BY <1>1, TagForms
<1>3. tag \in Octet
  BY <1>2 DEF Octet
<1>4. <<tag>> \in Seq(Octet)
  BY <1>3
<1> QED
  BY <1>1, <1>2, <1>3, <1>4

\* What is written is octets: of a field that is not an address, ...
LEMMA PlainType ==
  ASSUME NEW f, GoodField(f), f.type # "EtcdAddr", NEW v \in Value(f)
  PROVE  WriteField(f, v) \in Seq(Octet)
<1>1. Kind(f)
  BY FieldKinds
<1>3. PICK tag : tag = Tag(f)
  OBVIOUS
<1>4. <<tag>> \in Seq(Octet) /\ <<>> \in Seq(Octet)
  <2>1. <<tag>> \in Seq(Octet)
    BY <1>3, TagSequence
  <2>2. <<>> \in Seq(Octet)
    OBVIOUS
  <2> QED
    BY <2>1, <2>2
<1>5. \A s \in Seq(Octet) : <<tag>> \o s \in Seq(Octet)
  <2> TAKE s \in Seq(Octet)
  <2> QED
    BY <1>4, ConcatProperties
<1>6. CASE f.type \in NumberTypes /\ f.repeated
  <2>1. v \in Seq(Element(f.type))
    BY <1>6 DEF Value
  <2>2. PICK o : o = Packed(f, v)
    OBVIOUS
  <2>3. o \in Seq(Octet)
    BY <1>6, <2>1, <2>2, ReadPackedThere DEF Packed
  <2>4. PICK d : d = Delimited(o)
    OBVIOUS
  <2>5. <<tag>> \o d \in Seq(Octet)
    BY <1>5, <2>3, <2>4, DelimitedType
  <2> QED
    BY <1>3, <1>4, <1>6, <2>2, <2>4, <2>5, PackedWritten
<1>7. CASE f.type \in NumberTypes /\ ~ f.repeated
  <2>1. v \in Element(f.type)
    BY <1>7 DEF Value
  <2>2. PICK n, d : n = Unsigned(f.type, v) /\ d = Varint[n]
    OBVIOUS
  <2>3. d \in Seq(Octet)
    BY <1>7, <2>1, <2>2, NumberBack, VarintDef
  <2>4. <<tag>> \o d \in Seq(Octet)
    BY <1>5, <2>3
  <2> QED
    BY <1>3, <1>4, <1>7, <2>2, <2>4, NumberWritten
<1>8. CASE f.type \in {"string", "bytes"} /\ ~ f.repeated
  <2>1. v \in Seq(Octet)
    BY <1>8, CharsElement
  <2>2. PICK d : d = Delimited(v)
    OBVIOUS
  <2>3. <<tag>> \o d \in Seq(Octet)
    BY <1>5, <2>1, <2>2, DelimitedType
  <2>4. WriteField(f, v) = IF v = <<>> THEN <<>> ELSE <<Tag(f)>> \o Delimited(v)
    BY <1>8, CharsWritten
  <2> QED
    BY <1>3, <1>4, <2>2, <2>3, <2>4
<1> QED
  BY <1>1, <1>6, <1>7, <1>8 DEF Kind

\* ... of an object whose fields are octets, ...
FieldPieces(table, a) == [i \in DOMAIN table |-> WriteField(table[i], a[table[i].name])]

\* What is written of an object is the joined fields.
LEMMA SerializeJoins ==
  ASSUME NEW table, GoodTable(table), NEW a,
         \A i \in DOMAIN table : WriteField(table[i], a[table[i].name]) \in Seq(Octet)
  PROVE  \E g : Joins(g, Len(table), FieldPieces(table, a))
                /\ g[Len(table)] = Serialize(table, a)
<1>1. PICK n, pieces : n = Len(table) /\ pieces = FieldPieces(table, a)
  OBVIOUS
<1>2. n \in Nat /\ pieces \in [1 .. n -> Seq(Octet)]
  BY <1>1, Zenon DEF FieldPieces, GoodTable
<1>3. PICK g : Joins(g, n, pieces) /\ g[n] = FlattenSeq(pieces)
  BY <1>2, Flattening
<1> QED
  BY <1>1, <1>3, Zenon DEF Serialize, FieldPieces

\* ... an address, ...
LEMMA AddressIsMessage ==
  ASSUME NEW a \in Element("EtcdAddr")
  PROVE  IsMessage(EtcdAddr, a)
<1>1. a \in [ip : Utf8, port : Signed(Narrow)]
  BY AddressElement
<1>2. DOMAIN EtcdAddr = {1, 2}
  BY DEF EtcdAddr
<1>3. /\ EtcdAddr[1].name = "ip" /\ EtcdAddr[1].type = "string" /\ ~ EtcdAddr[1].repeated
      /\ EtcdAddr[2].name = "port" /\ EtcdAddr[2].type = "int32" /\ ~ EtcdAddr[2].repeated
  BY DEF EtcdAddr, Optional
<1>4. FieldNames(EtcdAddr) = {"ip", "port"}
  BY <1>2, <1>3 DEF FieldNames
<1>5. a = [name \in FieldNames(EtcdAddr) |-> a[name]]
  BY <1>1, <1>4
<1>6. a["ip"] \in Value(EtcdAddr[1])
  <2>1. Element("string") = Utf8
    <3>1. "string" \notin {"bool", "uint32", "int32", "int64", "bytes", "EtcdAddr"}
      OBVIOUS
    <3> QED
      BY <3>1, Zenon DEF Element
  <2> QED
    BY <1>1, <1>3, <2>1 DEF Value
<1>7. a["port"] \in Value(EtcdAddr[2])
  <2>1. Element("int32") = Signed(Narrow)
    <3>1. "int32" \notin {"bool", "uint32", "int64", "string", "bytes", "EtcdAddr"}
      OBVIOUS
    <3> QED
      BY <3>1, Zenon DEF Element
  <2> QED
    BY <1>1, <1>3, <2>1 DEF Value
<1>8. \A i \in DOMAIN EtcdAddr : a[EtcdAddr[i].name] \in Value(EtcdAddr[i])
  BY <1>2, <1>3, <1>6, <1>7
<1> QED
  BY <1>5, <1>8 DEF IsMessage

\* What is written of an address is octets.
LEMMA AddressType ==
  ASSUME NEW a \in Element("EtcdAddr")
  PROVE  Serialize(EtcdAddr, a) \in Seq(Octet)
<1>1. GoodTable(EtcdAddr) /\ IsMessage(EtcdAddr, a)
  BY EtcdAddrGood, AddressIsMessage
<1>2. \A i \in DOMAIN EtcdAddr : EtcdAddr[i].type # "EtcdAddr"
  BY DEF EtcdAddr, Optional
<1>3. \A i \in DOMAIN EtcdAddr :
        WriteField(EtcdAddr[i], a[EtcdAddr[i].name]) \in Seq(Octet)
  BY <1>1, <1>2, PlainType DEF IsMessage, GoodTable
<1>4. PICK n, g, pieces : /\ n = Len(EtcdAddr) /\ Joins(g, n, pieces)
                          /\ g[n] = Serialize(EtcdAddr, a)
  BY <1>1, <1>3, SerializeJoins
<1>5. n \in 0 .. n
  BY <1>1, <1>4 DEF GoodTable
<1> QED
  BY <1>4, <1>5 DEF Joins

\* ... a field of addresses, and so of every object.
LEMMA AddressPiecesType ==
  ASSUME NEW f, GoodField(f), NEW v \in Seq(Element("EtcdAddr"))
  PROVE  /\ AddressPieces(f, v) \in [1 .. Len(v) -> Seq(Octet)] /\ Len(v) \in Nat
         /\ \A i \in 1 .. Len(v) :
              /\ v[i] \in Element("EtcdAddr") /\ Serialize(EtcdAddr, v[i]) \in Seq(Octet)
              /\ AddressPieces(f, v)[i] = <<Tag(f)>> \o Delimited(Serialize(EtcdAddr, v[i]))
<1>1. Len(v) \in Nat /\ DOMAIN v = 1 .. Len(v)
  OBVIOUS
<1>0. PICK tag : tag = Tag(f)
  OBVIOUS
<1>2. ASSUME NEW i \in 1 .. Len(v)
      PROVE  /\ v[i] \in Element("EtcdAddr") /\ Serialize(EtcdAddr, v[i]) \in Seq(Octet)
             /\ <<tag>> \o Delimited(Serialize(EtcdAddr, v[i])) \in Seq(Octet)
  <2>1. v[i] \in Element("EtcdAddr")
    BY ElementOfSeq
  <2>2. PICK o, d : o = Serialize(EtcdAddr, v[i]) /\ d = Delimited(o)
    OBVIOUS
  <2>3. o \in Seq(Octet) /\ d \in Seq(Octet)
    BY <2>1, <2>2, AddressType, DelimitedType
  <2>4. <<tag>> \in Seq(Octet)
    BY <1>0, TagSequence
  <2>6. <<tag>> \o d \in Seq(Octet)
    BY <2>3, <2>4, ConcatProperties
  <2> QED
    BY <2>1, <2>2, <2>3, <2>6
<1>3. AddressPieces(f, v) \in [1 .. Len(v) -> Seq(Octet)]
  BY <1>0, <1>1, <1>2, Zenon DEF AddressPieces
<1>4. \A i \in 1 .. Len(v) :
        AddressPieces(f, v)[i] = <<Tag(f)>> \o Delimited(Serialize(EtcdAddr, v[i]))
  BY <1>1, Zenon DEF AddressPieces
<1> QED
  BY <1>1, <1>2, <1>3, <1>4

\* What is written of any field is octets.
LEMMA FieldType ==
  ASSUME NEW f, GoodField(f), NEW v \in Value(f)
  PROVE  WriteField(f, v) \in Seq(Octet)
<1>1. CASE f.type = "EtcdAddr"
  <2>1. f.repeated /\ v \in Seq(Element("EtcdAddr"))
    BY <1>1 DEF GoodField, Value
  <2>2. PICK n, pieces : n = Len(v) /\ pieces = AddressPieces(f, v)
    OBVIOUS
  <2>3. n \in Nat /\ pieces \in [1 .. n -> Seq(Octet)]
    BY <2>1, <2>2, AddressPiecesType
  <2>4. PICK g : Joins(g, n, pieces) /\ g[n] = FlattenSeq(pieces)
    BY <2>3, Flattening
  <2>5. g[n] \in Seq(Octet)
    BY <2>3, <2>4 DEF Joins
  <2> QED
    BY <1>1, <2>1, <2>2, <2>4, <2>5, AddressesWritten
<1>2. CASE f.type # "EtcdAddr"
  BY <1>2, PlainType
<1> QED
  BY <1>1, <1>2

\* What is written of each field of an object is octets, ...
LEMMA WrittenType ==
  ASSUME NEW table, GoodTable(table), NEW a, IsMessage(table, a)
  PROVE  \A i \in DOMAIN table : WriteField(table[i], a[table[i].name]) \in Seq(Octet)
<1> TAKE i \in DOMAIN table
<1>1. GoodField(table[i]) /\ a[table[i].name] \in Value(table[i])
  BY DEF GoodTable, IsMessage
<1> QED
  BY <1>1, FieldType

\* ... and so is what is written of the object.
LEMMA SerializeType ==
  ASSUME NEW table, GoodTable(table), NEW a, IsMessage(table, a)
  PROVE  Serialize(table, a) \in Seq(Octet)
<1>1. PICK n, g : n = Len(table) /\ Joins(g, n, FieldPieces(table, a)) /\ g[n] = Serialize(table, a)
  BY SerializeJoins, WrittenType
<1>2. n \in 0 .. n
  BY <1>1 DEF GoodTable
<1> QED
  BY <1>1, <1>2 DEF Joins

\* A piece is no longer than all of them.
LEMMA PieceFits ==
  ASSUME NEW n \in Nat, NEW pieces, NEW g, Joins(g, n, pieces), NEW j \in 1 .. n
  PROVE  Len(pieces[j]) \in Nat /\ Len(g[n]) \in Nat /\ Len(pieces[j]) <= Len(g[n])
<1> DEFINE T == {k \in Nat : j <= k /\ k <= n => Len(pieces[j]) <= Len(g[k])}
<1>1. 0 \in T
  OBVIOUS
<1>2. ASSUME NEW i \in Nat, i \in T
      PROVE  i + 1 \in T
  <2> SUFFICES ASSUME j <= i + 1, i + 1 <= n
               PROVE  Len(pieces[j]) <= Len(g[i + 1])
    OBVIOUS
  <2>1. PICK k : k = i + 1
    OBVIOUS
  <2>2. k \in 1 .. n /\ k - 1 = i /\ i \in 0 .. n
    BY <2>1
  <2>3. /\ g[i] \in Seq(Octet) /\ pieces[k] \in Seq(Octet) /\ pieces[j] \in Seq(Octet)
        /\ g[k] = g[i] \o pieces[k]
    BY <2>2 DEF Joins
  <2>4. Len(g[k]) = Len(g[i]) + Len(pieces[k])
    BY <2>3, ConcatProperties
  <2>5. Len(g[i]) \in Nat /\ Len(pieces[k]) \in Nat /\ Len(pieces[j]) \in Nat
    BY <2>3
  <2>6. Len(g[i]) <= Len(g[k]) /\ Len(pieces[k]) <= Len(g[k]) /\ Len(g[k]) \in Nat
    <3>1. PICK l, p, q : l = Len(g[k]) /\ p = Len(g[i]) /\ q = Len(pieces[k])
      OBVIOUS
    <3>2. p \in Nat /\ q \in Nat /\ l = p + q
      BY <2>4, <2>5, <3>1
    <3>3. p <= l /\ q <= l /\ l \in Nat
      BY <3>2
    <3> QED
      BY <3>1, <3>3
  <2>7. Len(pieces[j]) <= Len(g[k])
    <3>1. CASE j = k
      BY <2>6, <3>1
    <3>2. CASE j # k
      <4>1. j <= i /\ i <= n
        BY <2>1, <3>2
      <4>2. Len(pieces[j]) <= Len(g[i])
        BY <1>2, <4>1
      <4> QED
        BY <2>5, <2>6, <4>2
    <3> QED
      BY <3>1, <3>2
  <2> QED
    BY <2>1, <2>7
<1>3. n \in T
  <2> HIDE DEF T
  <2> QED
    BY <1>1, <1>2, StepInduction
<1>4. g[n] \in Seq(Octet) /\ pieces[j] \in Seq(Octet)
  BY DEF Joins
<1> QED
  BY <1>3, <1>4

(***************************************************************************)
(* ByteSize                                                                *)
(***************************************************************************)

\* Sizes add up to the length of pieces that have them.
LEMMA TotalIsLength ==
  ASSUME NEW n \in Nat, NEW pieces, NEW g, Joins(g, n, pieces),
         NEW sizes \in [1 .. n -> Nat], \A i \in 1 .. n : Len(pieces[i]) = sizes[i]
  PROVE  Total(sizes) = Len(g[n]) /\ Len(g[n]) \in Nat
<1>1. PICK h : Sums(h, n, sizes) /\ h[n] = Total(sizes)
  BY Totalling
<1>2. n \in 0 .. n
  OBVIOUS
<1>3. Len(g[n]) = h[n]
  BY <1>1, <1>2, JoinedLength
<1>4. h[n] \in Nat
  BY <1>1, <1>2 DEF Sums
<1> QED
  BY <1>1, <1>3, <1>4

\* A tag adds one to the size of what is behind it.
LEMMA TaggedLength ==
  ASSUME NEW f, GoodField(f), NEW tag, tag = Tag(f), NEW d \in Seq(Octet)
  PROVE  Len(<<tag>> \o d) = 1 + Len(d) /\ Len(d) \in Nat
<1>1. <<tag>> \in Seq(Octet) /\ Len(<<tag>>) = 1
  BY TagSequence
<1> QED
  BY <1>1, ConcatProperties

\* The size of a string is the length of what is written of it, ...
LEMMA CharsSize ==
  ASSUME NEW f, GoodField(f), f.type \in {"string", "bytes"}, ~ f.repeated,
         NEW v \in Seq(Octet)
  PROVE  SingularSize(f, v) = Len(WriteField(f, v)) /\ FieldSize(f, v) = SingularSize(f, v)
<1>1. IsChars(f.type) /\ f.type # "EtcdAddr" /\ IsDelimited(f.type)
  BY DEF IsChars, IsDelimited
<1>2. /\ WriteField(f, v) = IF v = <<>> THEN <<>> ELSE <<Tag(f)>> \o Delimited(v)
      /\ Default(f) = <<>>
  <2>1. f.type \in {"string", "bytes"} /\ ~ f.repeated
    OBVIOUS
  <2>2. WriteField(f, v) = IF v = <<>> THEN <<>> ELSE <<Tag(f)>> \o Delimited(v)
    BY <2>1, CharsWritten
  <2>3. Default(f) = <<>>
    BY <1>1, Zenon DEF Default
  <2> QED
    BY <2>2, <2>3
<1>3. SingularSize(f, v) = IF v = <<>> THEN 0 ELSE 1 + DelimitedSize(Len(v))
  BY <1>1, <1>2, Zenon DEF SingularSize
<1>4. PICK tag, d : tag = Tag(f) /\ d = Delimited(v)
  OBVIOUS
<1>5. d \in Seq(Octet) /\ Len(d) = DelimitedSize(Len(v))
  BY <1>4, DelimitedType DEF DelimitedSize
<1>6. Len(<<tag>> \o d) = 1 + Len(d)
  BY <1>4, <1>5, TaggedLength
<1>7. FieldSize(f, v) = SingularSize(f, v)
  BY <1>1, Zenon DEF FieldSize
<1>8. CASE v = <<>>
  BY <1>2, <1>3, <1>7, <1>8
<1>9. CASE v # <<>>
  <2>1. WriteField(f, v) = <<tag>> \o d /\ SingularSize(f, v) = 1 + Len(d)
    BY <1>2, <1>3, <1>4, <1>5, <1>9
  <2> QED
    BY <1>6, <1>7, <2>1
<1> QED
  BY <1>8, <1>9

\* ... and so is that of a number, ...
LEMMA NumberSize ==
  ASSUME NEW f, GoodField(f), f.type \in NumberTypes, ~ f.repeated, NEW v \in Element(f.type)
  PROVE  SingularSize(f, v) = Len(WriteField(f, v)) /\ FieldSize(f, v) = SingularSize(f, v)
<1>1. ~ IsChars(f.type) /\ f.type # "EtcdAddr"
  BY DEF IsChars, NumberTypes
<1>2. WriteField(f, v) = IF v = Default(f) THEN <<>>
                         ELSE <<Tag(f)>> \o Varint[Unsigned(f.type, v)]
  BY NumberWritten
<1>3. PICK tag, n, d : tag = Tag(f) /\ n = Unsigned(f.type, v) /\ d = Varint[n]
  OBVIOUS
<1>4. n \in Nat /\ d \in Seq(Octet) /\ Len(d) = VarintSize[n]
  <2>1. n \in Nat
    BY <1>3, NumberBack
  <2> QED
    BY <1>3, <2>1, VarintDef, VarintShape DEF Shaped
<1>5. Len(<<tag>> \o d) = 1 + Len(d)
  BY <1>3, <1>4, TaggedLength
<1>6. SingularSize(f, v) = IF v = Default(f) THEN 0 ELSE 1 + VarintSize[n]
  <2>1. CASE f.type = "bool"
    <3>1. v \in BOOLEAN
      BY <2>1 DEF Element
    <3>2. n = IF v THEN 1 ELSE 0
      BY <1>3, <2>1, <3>1, UnsignedBool
    <3>3. n \in 0 .. 127
      BY <3>1, <3>2
    <3>4. VarintSize[n] = 1
      BY <3>3, VarintShort
    <3>5. SingularSize(f, v) = IF v = Default(f) THEN 0 ELSE 1 + 1
      BY <1>1, <2>1, Zenon DEF SingularSize
    <3> QED
      BY <3>4, <3>5
  <2>2. CASE f.type # "bool"
    BY <1>1, <1>3, <2>2, Zenon DEF SingularSize
  <2> QED
    BY <2>1, <2>2
<1>7. FieldSize(f, v) = SingularSize(f, v)
  BY <1>1, Zenon DEF FieldSize
<1>8. CASE v = Default(f)
  BY <1>2, <1>6, <1>7, <1>8
<1>9. CASE v # Default(f)
  <2>1. WriteField(f, v) = <<tag>> \o d /\ SingularSize(f, v) = 1 + Len(d)
    BY <1>2, <1>3, <1>4, <1>6, <1>9
  <2> QED
    BY <1>5, <1>7, <2>1
<1> QED
  BY <1>8, <1>9

\* ... that of packed numbers, ...
LEMMA PackedSize ==
  ASSUME NEW f, GoodField(f), f.type \in NumberTypes, f.repeated,
         NEW v \in Seq(Element(f.type))
  PROVE  FieldSize(f, v) = Len(WriteField(f, v))
<1>1. f.type # "EtcdAddr"
  BY DEF NumberTypes
<1>2. PICK n, pieces, sizes, o, data :
        /\ n = Len(v) /\ pieces = [i \in DOMAIN v |-> Varint[Unsigned(f.type, v[i])]]
        /\ sizes = [i \in DOMAIN v |-> VarintSize[Unsigned(f.type, v[i])]]
        /\ o = Packed(f, v) /\ data = Total(sizes)
  OBVIOUS
<1>3. /\ n \in Nat /\ pieces \in [1 .. n -> Seq(Octet)]
      /\ \A k \in 1 .. n :
           /\ Len(pieces[k]) \in Nat /\ Len(pieces[k]) >= 1
           /\ Len(pieces[k]) = VarintSize[Unsigned(f.type, v[k])]
  <2>1. Packs(f.type, v, n, pieces)
    BY <1>2, PackedPieces
  <2> QED
    BY <2>1, Zenon DEF Packs
<1>4. DOMAIN v = 1 .. n
  BY <1>2
<1>5. \A k \in 1 .. n : sizes[k] = Len(pieces[k])
  BY <1>2, <1>3, <1>4, Zenon
<1>6. sizes \in [1 .. n -> Nat]
  BY <1>2, <1>3, <1>4
<1>7. PICK g : Joins(g, n, pieces) /\ g[n] = o
  <2>1. o = FlattenSeq(pieces)
    BY <1>2 DEF Packed
  <2> QED
    BY <1>3, <2>1, Flattening
<1>8. data = Len(o) /\ Len(o) \in Nat
  <2>1. n \in Nat /\ \A i \in 1 .. n : Len(pieces[i]) = sizes[i]
    BY <1>3, <1>5
  <2>2. Total(sizes) = Len(g[n]) /\ Len(g[n]) \in Nat
    BY <1>6, <1>7, <2>1, TotalIsLength, Zenon
  <2>3. data = Total(sizes)
    BY <1>2
  <2> QED
    BY <1>7, <2>2, <2>3
<1>9. FieldSize(f, v) = data + (IF data > 0 THEN 1 + VarintSize[data] ELSE 0)
  BY <1>1, <1>2, Zenon DEF FieldSize
<1>10. WriteField(f, v) = IF v = <<>> THEN <<>> ELSE <<Tag(f)>> \o Delimited(o)
  BY <1>2, PackedWritten
<1>11. CASE v = <<>>
  <2>1. n = 0 /\ g[0] = <<>>
    BY <1>2, <1>7, <1>11 DEF Joins
  <2>2. data = 0
    BY <1>7, <1>8, <2>1
  <2> QED
    BY <1>9, <1>10, <1>11, <2>2
<1>12. CASE v # <<>>
  <2>1. 1 \in 1 .. n
    BY <1>2, <1>12
  <2>2. Len(pieces[1]) <= Len(g[n]) /\ Len(pieces[1]) >= 1 /\ Len(pieces[1]) \in Nat
    BY <1>3, <1>7, <2>1, PieceFits
  <2>3. data > 0
    BY <1>7, <1>8, <2>2
  <2>4. PICK tag, d : tag = Tag(f) /\ d = Delimited(o)
    OBVIOUS
  <2>5. o \in Seq(Octet)
    BY <1>2, ReadPackedThere DEF Packed
  <2>6. d \in Seq(Octet) /\ Len(d) = VarintSize[data] + data
    BY <1>8, <2>4, <2>5, DelimitedType
  <2>7. Len(<<tag>> \o d) = 1 + Len(d)
    BY <2>4, <2>6, TaggedLength
  <2>8. VarintSize[data] \in Nat
    BY <1>8, VarintSizeDef
  <2>9. FieldSize(f, v) = data + (1 + VarintSize[data])
    BY <1>9, <2>3
  <2>10. WriteField(f, v) = <<tag>> \o d
    BY <1>10, <1>12, <2>4
  <2>11. data + (1 + VarintSize[data]) = 1 + (VarintSize[data] + data)
    BY <1>8, <2>8
  <2> QED
    BY <2>6, <2>7, <2>9, <2>10, <2>11
<1> QED
  BY <1>11, <1>12

\* ... that of all but addresses.
LEMMA PlainSize ==
  ASSUME NEW f, GoodField(f), f.type # "EtcdAddr", NEW v \in Value(f)
  PROVE  /\ FieldSize(f, v) = Len(WriteField(f, v))
         /\ ~ f.repeated => SingularSize(f, v) = Len(WriteField(f, v))
<1>1. Kind(f)
  BY FieldKinds
<1>2. CASE f.type \in NumberTypes /\ f.repeated
  <2>1. v \in Seq(Element(f.type))
    BY <1>2 DEF Value
  <2> QED
    BY <1>2, <2>1, PackedSize
<1>3. CASE f.type \in NumberTypes /\ ~ f.repeated
  <2>1. v \in Element(f.type)
    BY <1>3 DEF Value
  <2> QED
    BY <1>3, <2>1, NumberSize
<1>4. CASE f.type \in {"string", "bytes"} /\ ~ f.repeated
  <2>1. v \in Seq(Octet)
    BY <1>4, CharsElement
  <2> QED
    BY <1>4, <2>1, CharsSize
<1> QED
  BY <1>1, <1>2, <1>3, <1>4 DEF Kind

\* The sizes of its fields add up to the length of an encoding.
LEMMA SizesAdd ==
  ASSUME NEW table, GoodTable(table), NEW a,
         \A i \in DOMAIN table : WriteField(table[i], a[table[i].name]) \in Seq(Octet),
         NEW sizes, DOMAIN sizes = DOMAIN table, sizes = [i \in DOMAIN sizes |-> sizes[i]],
         \A i \in DOMAIN table : sizes[i] = Len(WriteField(table[i], a[table[i].name]))
  PROVE  Total(sizes) = Len(Serialize(table, a))
<1>1. PICK n, pieces : n = Len(table) /\ pieces = FieldPieces(table, a)
  OBVIOUS
<1>2. n \in Nat /\ DOMAIN table = 1 .. n
  BY <1>1 DEF GoodTable
<1>3. PICK g : Joins(g, n, pieces) /\ g[n] = Serialize(table, a)
  BY <1>1, SerializeJoins
<1>4. ASSUME NEW i \in 1 .. n
      PROVE  sizes[i] \in Nat /\ Len(pieces[i]) = sizes[i]
  <2>1. PICK w : w = WriteField(table[i], a[table[i].name])
    OBVIOUS
  <2>2. w \in Seq(Octet) /\ sizes[i] = Len(w)
    BY <1>2, <2>1
  <2>3. pieces[i] = w
    BY <1>1, <1>2, <2>1, Zenon DEF FieldPieces
  <2> QED
    BY <2>2, <2>3
<1>5. sizes \in [1 .. n -> Nat]
  BY <1>2, <1>4
<1>6. Total(sizes) = Len(g[n])
  BY <1>2, <1>3, <1>4, <1>5, TotalIsLength
<1> QED
  BY <1>3, <1>6

\* The size of an address is the length of its encoding, ...
LEMMA AddressSizes ==
  ASSUME NEW a \in Element("EtcdAddr")
  PROVE  AddressSize(a) = Len(Serialize(EtcdAddr, a))
<1>1. GoodTable(EtcdAddr) /\ IsMessage(EtcdAddr, a)
  BY EtcdAddrGood, AddressIsMessage
<1>2. \A i \in DOMAIN EtcdAddr : EtcdAddr[i].type # "EtcdAddr" /\ ~ EtcdAddr[i].repeated
  BY DEF EtcdAddr, Optional
<1>3. PICK sizes : sizes = [j \in DOMAIN EtcdAddr |->
                              SingularSize(EtcdAddr[j], a[EtcdAddr[j].name])]
  OBVIOUS
<1>4. DOMAIN sizes = DOMAIN EtcdAddr /\ sizes = [i \in DOMAIN sizes |-> sizes[i]]
  BY <1>3, Zenon
<1>5. ASSUME NEW i \in DOMAIN EtcdAddr
      PROVE  /\ WriteField(EtcdAddr[i], a[EtcdAddr[i].name]) \in Seq(Octet)
             /\ sizes[i] = Len(WriteField(EtcdAddr[i], a[EtcdAddr[i].name]))
  <2>1. PICK f, v : f = EtcdAddr[i] /\ v = a[f.name]
    OBVIOUS
  <2>2. GoodField(f) /\ v \in Value(f) /\ f.type # "EtcdAddr" /\ ~ f.repeated
    BY <1>1, <1>2, <2>1 DEF GoodTable, IsMessage
  <2>3. SingularSize(f, v) = Len(WriteField(f, v)) /\ WriteField(f, v) \in Seq(Octet)
    BY <2>2, PlainSize, PlainType
  <2>4. sizes[i] = SingularSize(f, v)
    BY <1>3, <2>1, Zenon
  <2> QED
    BY <2>1, <2>3, <2>4, Zenon
<1>6. Total(sizes) = Len(Serialize(EtcdAddr, a))
  BY <1>1, <1>4, <1>5, SizesAdd
<1> QED
  BY <1>3, <1>6, Zenon DEF AddressSize

\* One more in front of each of n pieces is n more.
OneMore(n, sizes, more) == \A i \in 1 .. n : more[i] = 1 + sizes[i]

\* So the sum of the sizes with a tag each.
LEMMA SumsShifted ==
  ASSUME NEW n \in Nat, NEW sizes \in [1 .. n -> Nat], NEW more \in [1 .. n -> Nat],
         OneMore(n, sizes, more)
  PROVE  Total(more) = n + Total(sizes)
<1>1. PICK h : Sums(h, n, sizes) /\ h[n] = Total(sizes)
  BY Totalling
<1>2. PICK e : Sums(e, n, more) /\ e[n] = Total(more)
  BY Totalling
<1> DEFINE S == {k \in Nat : k \in 0 .. n => e[k] = k + h[k]}
<1>3. 0 \in S
  BY <1>1, <1>2 DEF Sums
<1>4. ASSUME NEW k \in Nat, k \in S
      PROVE  k + 1 \in S
  <2> SUFFICES ASSUME k + 1 \in 0 .. n
               PROVE  e[k + 1] = (k + 1) + h[k + 1]
    OBVIOUS
  <2>1. k \in 0 .. n /\ k + 1 \in 1 .. n /\ (k + 1) - 1 = k
    OBVIOUS
  <2>2. e[k] = k + h[k]
    BY <1>4, <2>1
  <2>3. h[k + 1] = h[k] + sizes[k + 1] /\ h[k] \in Nat /\ h[k + 1] \in Nat
    BY <1>1, <2>1 DEF Sums
  <2>4. e[k + 1] = e[k] + more[k + 1] /\ e[k] \in Nat
    BY <1>2, <2>1 DEF Sums
  <2>5. more[k + 1] = 1 + sizes[k + 1] /\ sizes[k + 1] \in Nat
    BY <2>1 DEF OneMore
  <2>6. PICK e0, e1, h0, h1, s : /\ e0 = e[k] /\ e1 = e[k + 1] /\ h0 = h[k] /\ h1 = h[k + 1]
                                 /\ s = sizes[k + 1]
    OBVIOUS
  <2>7. /\ e0 = k + h0 /\ h1 = h0 + s /\ e1 = e0 + (1 + s)
        /\ h0 \in Nat /\ e0 \in Nat /\ s \in Nat
    BY <2>2, <2>3, <2>4, <2>5, <2>6
  <2>8. e1 = (k + 1) + h1
    BY <2>7
  <2> QED
    BY <2>6, <2>8
<1> HIDE DEF S
<1>5. Nat \subseteq S
  BY <1>3, <1>4, StepInduction
<1> QED
  BY <1>1, <1>2, <1>5 DEF S

\* ... and the size of a field of addresses that of what is written of it.
LEMMA AddressesSize ==
  ASSUME NEW f, GoodField(f), f.type = "EtcdAddr", f.repeated,
         NEW v \in Seq(Element("EtcdAddr"))
  PROVE  FieldSize(f, v) = Len(WriteField(f, v))
<1>1. PICK n, pieces, sizes, more :
        /\ n = Len(v) /\ pieces = AddressPieces(f, v)
        /\ sizes = [i \in DOMAIN v |-> DelimitedSize(AddressSize(v[i]))]
        /\ more = [i \in DOMAIN v |-> 1 + DelimitedSize(AddressSize(v[i]))]
  OBVIOUS
<1>2. /\ n \in Nat /\ pieces \in [1 .. n -> Seq(Octet)] /\ DOMAIN v = 1 .. n
      /\ \A i \in 1 .. n :
           /\ v[i] \in Element("EtcdAddr") /\ Serialize(EtcdAddr, v[i]) \in Seq(Octet)
           /\ pieces[i] = <<Tag(f)>> \o Delimited(Serialize(EtcdAddr, v[i]))
  <2>1. /\ AddressPieces(f, v) \in [1 .. Len(v) -> Seq(Octet)] /\ Len(v) \in Nat
        /\ \A i \in 1 .. Len(v) :
             /\ v[i] \in Element("EtcdAddr") /\ Serialize(EtcdAddr, v[i]) \in Seq(Octet)
             /\ AddressPieces(f, v)[i] = <<Tag(f)>> \o Delimited(Serialize(EtcdAddr, v[i]))
    BY AddressPiecesType
  <2>2. DOMAIN v = 1 .. Len(v)
    OBVIOUS
  <2> QED
    BY <1>1, <2>1, <2>2, Zenon
<1>3. ASSUME NEW i \in 1 .. n
      PROVE  /\ sizes[i] \in Nat /\ more[i] = 1 + sizes[i]
             /\ Len(pieces[i]) = more[i]
  <2>1. PICK o, d, tag : o = Serialize(EtcdAddr, v[i]) /\ d = Delimited(o) /\ tag = Tag(f)
    OBVIOUS
  <2>2. o \in Seq(Octet) /\ pieces[i] = <<tag>> \o d
    BY <1>2, <2>1
  <2>3. AddressSize(v[i]) = Len(o)
    BY <1>2, <2>1, AddressSizes
  <2>4. d \in Seq(Octet) /\ Len(d) = VarintSize[Len(o)] + Len(o)
    BY <2>1, <2>2, DelimitedType
  <2>5. Len(<<tag>> \o d) = 1 + Len(d) /\ Len(d) \in Nat
    BY <2>1, <2>4, TaggedLength
  <2>6. sizes[i] = DelimitedSize(Len(o)) /\ more[i] = 1 + DelimitedSize(Len(o))
    BY <1>1, <1>2, <2>3, Zenon
  <2>7. DelimitedSize(Len(o)) = Len(d)
    BY <2>4 DEF DelimitedSize
  <2>8. sizes[i] = Len(d) /\ more[i] = 1 + Len(d)
    BY <2>6, <2>7
  <2> QED
    BY <2>2, <2>5, <2>8
<1>4. sizes \in [1 .. n -> Nat] /\ more \in [1 .. n -> Nat]
  BY <1>1, <1>2, <1>3
<1>5. Total(more) = n + Total(sizes)
  <2>1. OneMore(n, sizes, more)
    BY <1>3 DEF OneMore
  <2> QED
    BY <1>2, <1>4, <2>1, SumsShifted
<1>6. PICK g : Joins(g, n, pieces) /\ g[n] = WriteField(f, v)
  <2>1. WriteField(f, v) = FlattenSeq(pieces)
    BY <1>1, AddressesWritten
  <2> QED
    BY <1>2, <2>1, Flattening
<1>7. Total(more) = Len(g[n])
  <2>1. n \in Nat /\ \A i \in 1 .. n : Len(pieces[i]) = more[i]
    BY <1>2, <1>3
  <2>2. more \in [1 .. n -> Nat]
    BY <1>4
  <2>3. Total(more) = Len(g[n]) /\ Len(g[n]) \in Nat
    BY <1>6, <2>1, <2>2, TotalIsLength, Zenon
  <2> QED
    BY <2>3
<1>8. FieldSize(f, v) = n + Total(sizes)
  BY <1>1, Zenon DEF FieldSize
<1> QED
  BY <1>5, <1>6, <1>7, <1>8

\* ByteSize() is the number of octets written.
LEMMA ByteSizeWritten ==
  ASSUME NEW table, GoodTable(table), NEW a, IsMessage(table, a)
  PROVE  ByteSize(table, a) = Len(Serialize(table, a))
<1>1. PICK sizes : sizes = [i \in DOMAIN table |-> FieldSize(table[i], a[table[i].name])]
  OBVIOUS
<1>2. DOMAIN sizes = DOMAIN table /\ sizes = [i \in DOMAIN sizes |-> sizes[i]]
  BY <1>1, Zenon
<1>3. ASSUME NEW i \in DOMAIN table
      PROVE  sizes[i] = Len(WriteField(table[i], a[table[i].name]))
  <2>1. PICK f, v : f = table[i] /\ v = a[f.name]
    OBVIOUS
  <2>2. GoodField(f) /\ v \in Value(f)
    BY <2>1 DEF GoodTable, IsMessage
  <2>3. FieldSize(f, v) = Len(WriteField(f, v))
    <3>1. CASE f.type = "EtcdAddr"
      <4>1. f.repeated /\ v \in Seq(Element("EtcdAddr"))
        BY <2>2, <3>1 DEF GoodField, Value
      <4> QED
        BY <2>2, <3>1, <4>1, AddressesSize
    <3>2. CASE f.type # "EtcdAddr"
      BY <2>2, <3>2, PlainSize
    <3> QED
      BY <3>1, <3>2
  <2> QED
    BY <1>1, <2>1, <2>3, Zenon
<1>4. \A i \in DOMAIN table : WriteField(table[i], a[table[i].name]) \in Seq(Octet)
  BY WrittenType
<1>5. Total(sizes) = Len(Serialize(table, a))
  BY <1>2, <1>3, <1>4, SizesAdd
<1> QED
  BY <1>1, <1>5, Zenon DEF ByteSize
=============================================================================
