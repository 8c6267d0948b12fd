-------------------------- MODULE WireFormatProofs --------------------------
(***************************************************************************)
(* That what fits the buffer is decoded as it was encoded, for every size  *)
(* of the buffer, every string and every list of rooms.  Both sides go     *)
(* through the fields one behind the other, so the argument is induction   *)
(* over their number: the first part derives induction and recursion over  *)
(* sets of natural numbers from the well-foundedness of finite sets.       *)
(***************************************************************************)
EXTENDS WireFormat, FiniteSetTheorems, SequenceTheorems, TLAPS

-----------------------------------------------------------------------------
(* Induction and recursion.                                                 *)

LEMMA LeastNumber == ASSUME NEW T \in SUBSET Nat, T # {} PROVE \E m \in T : \A n \in T : m <= n
<1> DEFINE F == FiniteSubsetsOf(Nat)
           R == StrictSubsetOrdering(Nat)
           I == {0..m : m \in T}
<1>1. IsWellFoundedOn(R, F)
  BY FS_StrictSubsetOrderingWellFounded
<1>2. I \subseteq F /\ I # {}
  <2>1. \A m \in T : IsFiniteSet(0..m) /\ 0..m \in SUBSET Nat
    BY FS_Interval
  <2>2. \A m \in T : 0..m \in F
    BY <2>1 DEF FiniteSubsetsOf
  <2> QED
    BY <2>2
<1>3. ASSUME NEW m \in T, NEW n \in T, n < m PROVE <<0..n, 0..m>> \in R
  <2>1. 0..n \in SUBSET Nat /\ 0..m \in SUBSET Nat /\ 0..n \subseteq 0..m /\ m \in 0..m /\ m \notin 0..n
    BY <1>3
  <2> QED
    BY <2>1 DEF StrictSubsetOrdering
<1> HIDE DEF R, F
<1>4. \E x \in I : \A y \in I : ~ (<<y, x>> \in R)
  <2> HIDE DEF I
  <2> QED
    BY <1>1, <1>2, WFMin
<1>5. PICK m \in T : \A n \in T : ~ (<<0..n, 0..m>> \in R)
  BY <1>4
<1>6. \A n \in T : ~(n < m)
  BY <1>5, <1>3
<1>7. \A n \in T : m <= n
  BY <1>6
<1> QED
  BY <1>7

LEMMA Induction == ASSUME NEW S \in SUBSET Nat, 0 \in S, \A n \in S : n + 1 \in S PROVE S = Nat
<1> DEFINE T == Nat \ S
<1> SUFFICES ASSUME T # {} PROVE FALSE
  OBVIOUS
<1>1. PICK m \in T : \A n \in T : m <= n
  <2>1. T \in SUBSET Nat
    OBVIOUS
  <2> HIDE DEF T
  <2> QED
    BY <2>1, LeastNumber
<1>2. m - 1 \in S
  BY <1>1
<1> QED
  BY <1>1, <1>2

\* Induction up to m.
LEMMA Counting ==
  ASSUME NEW m \in Nat, NEW S, 0 \in S, \A i \in 0..(m - 1) : i \in S => i + 1 \in S
  PROVE  0..m \subseteq S
<1> DEFINE T == {i \in Nat : i <= m => i \in S}
<1>1. 0 \in T
  OBVIOUS
<1>2. ASSUME NEW i \in T PROVE i + 1 \in T
  <2>1. i + 1 <= m => i + 1 \in S
    BY <1>2
  <2> QED
    BY <2>1
<1>3. T = Nat
  <2>1. T \in SUBSET Nat
    OBVIOUS
  <2> HIDE DEF T
  <2> QED
    BY <1>1, <1>2, <2>1, Induction
<1> QED
  BY <1>3

\* There is a function that starts at x and follows step.
LEMMA Recursion ==
  ASSUME NEW X, NEW x \in X, NEW m \in Nat, NEW step \in [1..m -> [X -> X]]
  PROVE  \E f \in [0..m -> X] : f[0] = x /\ \A i \in 1..m : f[i] = step[i][f[i - 1]]
<1> DEFINE Follows(f, k) == f[0] = x /\ \A i \in 1..k : f[i] = step[i][f[i - 1]]
           S == {k \in Nat : k <= m => \E f \in [0..k -> X] : Follows(f, k)}
<1>1. 0 \in S
  <2>1. [i \in 0..0 |-> x] \in [0..0 -> X] /\ Follows([i \in 0..0 |-> x], 0)
    OBVIOUS
  <2> QED
    BY <2>1
<1>2. ASSUME NEW k \in S PROVE k + 1 \in S
  <2>1. ASSUME k + 1 <= m PROVE \E f \in [0..(k + 1) -> X] : Follows(f, k + 1)
    <3>1. PICK f \in [0..k -> X] : Follows(f, k)
      BY <1>2, <2>1
    <3> DEFINE g == [i \in 0..(k + 1) |-> IF i <= k THEN f[i] ELSE step[k + 1][f[k]]]
    <3>2. f[k] \in X /\ step[k + 1] \in [X -> X] /\ step[k + 1][f[k]] \in X
      BY <1>2, <2>1
    <3>3. g \in [0..(k + 1) -> X]
      BY <3>2
    <3>4. g[0] = x
      BY <3>1, <1>2
    <3>5. ASSUME NEW i \in 1..(k + 1) PROVE g[i] = step[i][g[i - 1]]
      <4>1. CASE i <= k
        BY <4>1, <3>1, <1>2
      <4>2. CASE i = k + 1
        BY <4>2, <1>2
      <4> QED
        BY <4>1, <4>2, <1>2
    <3> QED
      BY <3>3, <3>4, <3>5
  <2>2. k + 1 \in Nat
    BY <1>2
  <2> HIDE DEF Follows
  <2> QED
    BY <2>1, <2>2
<1>3. S = Nat
  <2> HIDE DEF S
  <2>1. S \in SUBSET Nat
    BY DEF S
  <2> QED
    BY <1>1, <1>2, <2>1, Induction
<1>4. m \in S
  BY <1>3
<1> QED
  BY <1>4

-----------------------------------------------------------------------------
(* Fields.                                                                  *)

Byte == 0..255
Texts == Seq(1..255)
Streams == Seq(Byte)

WidthType == {0, 2, 4}
FieldType == [width : {2, 4}, value : Nat] \cup [width : {0}, value : Texts]

LEMMA IsByte == ASSUME NEW v \in Nat, NEW w \in {1, 256, 65536, 16777216} PROVE (v \div w) % 256 \in Byte
<1>1. CASE w = 1
  BY <1>1 DEF Byte
<1>2. CASE w = 256
  BY <1>2 DEF Byte
<1>3. CASE w = 65536
  BY <1>3 DEF Byte
<1>4. CASE w = 16777216
  BY <1>4 DEF Byte
<1> QED
  BY <1>1, <1>2, <1>3, <1>4

\* Numbers of 16 and of 32 bits are what their bytes count.
LEMMA TwoBytes == ASSUME NEW v \in Nat, v < 65536 PROVE v = (v % 256) + 256 * ((v \div 256) % 256)
OBVIOUS

LEMMA FourBytes ==
  ASSUME NEW v \in Nat, v \div 65536 < 65536
  PROVE  v = (v % 256) + 256 * ((v \div 256) % 256)
               + (65536 * ((v \div 65536) % 256) + 16777216 * ((v \div 16777216) % 256))
<1> DEFINE low == v % 65536
           high == v \div 65536
<1>1. low \in Nat /\ low < 65536 /\ high \in Nat /\ high < 65536 /\ v = 65536 * high + low
  OBVIOUS
<1>2. /\ low % 256 = v % 256 /\ (low \div 256) % 256 = (v \div 256) % 256
      /\ high % 256 = (v \div 65536) % 256 /\ (high \div 256) % 256 = (v \div 16777216) % 256
  OBVIOUS
<1> HIDE DEF low, high
<1>3. low = (low % 256) + 256 * ((low \div 256) % 256) /\ high = (high % 256) + 256 * ((high \div 256) % 256)
  BY <1>1, TwoBytes
<1> QED
  BY <1>1, <1>2, <1>3

\* The bytes of a field that fits.
FieldBytes(f) == IF f.width = 0 THEN Append(f.value, 0)
                 ELSE [i \in 1..f.width |-> (f.value \div Weight[i]) % 256]

\* A number that its bytes can count, or a string that is not empty.
Proper(f) ==
  /\ f.width = 2 => f.value < 65536
  /\ f.width = 4 => f.value \div 65536 < 65536
  /\ f.width = 0 => f.value # <<>>

LEMMA FieldBytesType ==
  ASSUME NEW f \in FieldType
  PROVE  FieldBytes(f) \in Streams /\ Len(FieldBytes(f)) = Bytes(f) /\ Bytes(f) \in Nat \ {0}
<1>1. CASE f.width = 0
  <2>1. f.value \in Seq(1..255)
    BY <1>1 DEF FieldType, Texts
  <2>2. Append(f.value, 0) \in Seq(Byte) /\ Len(Append(f.value, 0)) = Len(f.value) + 1 /\ Len(f.value) \in Nat
    BY <2>1 DEF Byte
  <2> QED
    BY <1>1, <2>2 DEF FieldBytes, Bytes, Streams
<1>2. CASE f.width \in {2, 4}
  <2>1. f.value \in Nat
    BY <1>2 DEF FieldType
  <2>2. \A i \in 1..f.width : Weight[i] \in {1, 256, 65536, 16777216}
    BY <1>2 DEF Weight
  <2>3. \A i \in 1..f.width : (f.value \div Weight[i]) % 256 \in Byte
    BY <2>1, <2>2, IsByte
  <2>4. FieldBytes(f) = [i \in 1..f.width |-> (f.value \div Weight[i]) % 256]
    BY <1>2 DEF FieldBytes
  <2>5. FieldBytes(f) \in Seq(Byte) /\ Len(FieldBytes(f)) = f.width
    <3> DEFINE n == f.width
               g == [i \in 1..n |-> (f.value \div Weight[i]) % 256]
    <3>1. n \in Nat /\ g \in [1..n -> Byte]
      BY <1>2, <2>3
    <3>2. g \in Seq(Byte) /\ Len(g) = n
      <4> HIDE DEF g, n
      <4> QED
        BY <3>1
    <3> QED
      BY <3>2, <2>4
  <2> QED
    BY <1>2, <2>5 DEF Bytes, Streams
<1> QED
  BY <1>1, <1>2 DEF FieldType

LEMMA ExtentDef ==
  ASSUME NEW fs \in Seq(FieldType)
  PROVE  /\ Extent(fs) \in [0..Len(fs) -> Nat]
         /\ Extent(fs)[0] = 0
         /\ \A i \in 1..Len(fs) : Extent(fs)[i] = Extent(fs)[i - 1] + Bytes(fs[i])
<1> DEFINE m == Len(fs)
           step == [i \in 1..m |-> [n \in Nat |-> n + Bytes(fs[i])]]
           Def(g) == g = [i \in 0..m |-> IF i = 0 THEN 0 ELSE g[i - 1] + Bytes(fs[i])]
<1>1. m \in Nat /\ \A i \in 1..m : fs[i] \in FieldType /\ Bytes(fs[i]) \in Nat
  BY FieldBytesType
<1>2. step \in [1..m -> [Nat -> Nat]]
  BY <1>1
<1>3. PICK f \in [0..m -> Nat] : f[0] = 0 /\ \A i \in 1..m : f[i] = step[i][f[i - 1]]
  <2> DEFINE X == Nat
             x == 0
  <2>1. m \in Nat /\ x \in X /\ step \in [1..m -> [X -> X]]
    BY <1>1, <1>2
  <2> HIDE DEF step, m, X, x
  <2>2. \E f \in [0..m -> X] : f[0] = x /\ \A i \in 1..m : f[i] = step[i][f[i - 1]]
    BY <2>1, Recursion
  <2> QED
    BY <2>2 DEF X, x
<1>4. ASSUME NEW i \in 1..m PROVE f[i] = f[i - 1] + Bytes(fs[i])
  <2>1. f[i - 1] \in Nat
    BY <1>1
  <2>2. step[i][f[i - 1]] = f[i - 1] + Bytes(fs[i])
    BY <2>1
  <2> QED
    BY <1>3, <2>2
<1>5. Def(f)
  BY <1>1, <1>3, <1>4
<1>6. Extent(fs) = CHOOSE g : Def(g)
  BY DEF Extent
<1>7. Def(Extent(fs))
  <2> HIDE DEF Def
  <2> QED
    BY <1>5, <1>6
<1> QED
  <2> DEFINE e == Extent(fs)
  <2>1. e = [i \in 0..m |-> IF i = 0 THEN 0 ELSE e[i - 1] + Bytes(fs[i])]
    BY <1>7
  <2> HIDE DEF e
  <2>2. e[0] = 0 /\ \A i \in 1..m : e[i] = e[i - 1] + Bytes(fs[i])
    BY <1>1, <2>1
  <2> DEFINE S == {i \in 0..m : e[i] \in Nat}
  <2>3. 0 \in S
    BY <1>1, <2>2
  <2>4. ASSUME NEW i \in 0..(m - 1), i \in S PROVE i + 1 \in S
    BY <1>1, <2>2, <2>4
  <2>5. 0..m \subseteq S
    <3> HIDE DEF S, m
    <3> QED
      BY <1>1, <2>3, <2>4, Counting
  <2>6. e \in [0..m -> Nat]
    <3>1. \A i \in 0..m : e[i] \in Nat
      BY <2>5
    <3> HIDE DEF m
    <3> QED
      BY <2>1, <3>1
  <2> QED
    BY <2>2, <2>6 DEF e

\* A part of a sequence.
LEMMA Joined ==
  ASSUME NEW S, NEW s \in Seq(S), NEW t \in Seq(S)
  PROVE  /\ s \o t \in Seq(S) /\ Len(s \o t) = Len(s) + Len(t)
         /\ \A i \in 1..Len(s) : (s \o t)[i] = s[i]
         /\ \A i \in 1..Len(t) : (s \o t)[Len(s) + i] = t[i]
<1>1. Len(s) \in Nat /\ Len(t) \in Nat
  OBVIOUS
<1>2. /\ s \o t \in Seq(S) /\ Len(s \o t) = Len(s) + Len(t)
      /\ \A i \in 1..(Len(s) + Len(t)) : (s \o t)[i] = IF i <= Len(s) THEN s[i] ELSE t[i - Len(s)]
  BY ConcatProperties
<1> DEFINE m == Len(s)
           n == Len(t)
           u == s \o t
<1> HIDE DEF m, n, u
<1>3. /\ m \in Nat /\ n \in Nat
      /\ \A i \in 1..(m + n) : u[i] = IF i <= m THEN s[i] ELSE t[i - m]
  BY <1>1, <1>2 DEF m, n, u
<1>4. \A i \in 1..m : u[i] = s[i]
  BY <1>3
<1>5. ASSUME NEW i \in 1..n PROVE u[m + i] = t[i]
  <2>1. m + i \in 1..(m + n) /\ ~(m + i <= m) /\ (m + i) - m = i
    BY <1>3
  <2> QED
    BY <1>3, <2>1
<1> QED
  BY <1>2, <1>4, <1>5 DEF m, n, u

LEMMA PartOf ==
  ASSUME NEW S, NEW s \in Seq(S), NEW m \in Nat, NEW n \in Nat, m <= n, n <= Len(s)
  PROVE  /\ SubSeq(s, m + 1, n) \in Seq(S)
         /\ Len(SubSeq(s, m + 1, n)) = n - m
         /\ \A i \in 1..(n - m) : SubSeq(s, m + 1, n)[i] = s[m + i]
<1>1. Len(s) \in Nat
  OBVIOUS
<1>2. m + 1 \in Int /\ n \in Int /\ \A i \in (m + 1)..n : s[i] \in S
  BY <1>1, ElementOfSeq
<1>3. /\ SubSeq(s, m + 1, n) \in Seq(S)
      /\ Len(SubSeq(s, m + 1, n)) = IF m + 1 <= n THEN n - (m + 1) + 1 ELSE 0
      /\ \A i \in 1..(n - (m + 1) + 1) : SubSeq(s, m + 1, n)[i] = s[(m + 1) + i - 1]
  BY <1>2, SubSeqProperties
<1> QED
  BY <1>3

Buffers == {s \in Streams : Len(s) <= SOCKBUF_SIZE}

LEMMA WriteFieldType ==
  ASSUME NEW s \in Buffers, NEW f \in FieldType
  PROVE  /\ WriteField(s, f) \in Buffers
         /\ Len(s) + Bytes(f) <= SOCKBUF_SIZE => WriteField(s, f) = s \o FieldBytes(f)
<1>1. /\ s \in Seq(Byte) /\ Len(s) \in Nat /\ Len(s) <= SOCKBUF_SIZE /\ SOCKBUF_SIZE \in Nat
      /\ FieldBytes(f) \in Seq(Byte) /\ Len(FieldBytes(f)) = Bytes(f) /\ Bytes(f) \in Nat
  BY FieldBytesType, SizeAssumption DEF Buffers, Streams
<1>2. CASE f.width = 0
  <2> DEFINE bytes == Append(f.value, 0)
             n == Smaller(Len(bytes), SOCKBUF_SIZE - Len(s))
  <2>1. bytes = FieldBytes(f) /\ WriteField(s, f) = s \o SubSeq(bytes, 1, n)
    BY <1>2 DEF FieldBytes, WriteField, WriteString
  <2> HIDE DEF bytes
  <2>2. n \in Nat /\ n <= Len(bytes) /\ n <= SOCKBUF_SIZE - Len(s)
        /\ (Len(s) + Bytes(f) <= SOCKBUF_SIZE => n = Len(bytes))
    <3>1. Len(bytes) \in Nat /\ Len(bytes) = Bytes(f) /\ SOCKBUF_SIZE - Len(s) \in Nat
      BY <1>1, <2>1
    <3> QED
      BY <1>1, <3>1 DEF Smaller
  <2> HIDE DEF n
  <2> DEFINE part == SubSeq(bytes, 1, n)
  <2>3. part \in Seq(Byte) /\ Len(part) = n /\ (n = Len(bytes) => part = bytes)
    <3>1. bytes \in Seq(Byte) /\ Len(bytes) \in Nat
      BY <1>1, <2>1
    <3>2. part \in Seq(Byte) /\ Len(part) = n /\ \A i \in 1..n : part[i] = bytes[i]
      <4>0. 0 \in Nat
        OBVIOUS
      <4>1. /\ SubSeq(bytes, 0 + 1, n) \in Seq(Byte) /\ Len(SubSeq(bytes, 0 + 1, n)) = n - 0
            /\ \A i \in 1..(n - 0) : SubSeq(bytes, 0 + 1, n)[i] = bytes[0 + i]
        BY <2>2, <3>1, <4>0, PartOf
      <4> QED
        BY <2>2, <4>1
    <3>3. n = Len(bytes) => part = bytes
      BY <3>1, <3>2, SeqEqual
    <3> QED
      BY <3>2, <3>3
  <2> HIDE DEF part
  <2>4. s \o part \in Seq(Byte) /\ Len(s \o part) = Len(s) + n
    BY <1>1, <2>2, <2>3, ConcatProperties
  <2>5. WriteField(s, f) = s \o part /\ Len(s) + n <= SOCKBUF_SIZE
    BY <1>1, <2>1, <2>2 DEF part
  <2>6. WriteField(s, f) \in Buffers
    BY <2>4, <2>5 DEF Buffers, Streams
  <2> QED
    BY <2>1, <2>2, <2>3, <2>5, <2>6
<1>3. CASE f.width # 0
  <2>1. f.width = Bytes(f)
    BY <1>3 DEF Bytes
  <2>2. WriteField(s, f) = IF Len(s) + Bytes(f) <= SOCKBUF_SIZE THEN s \o FieldBytes(f) ELSE s
    BY <1>3, <2>1 DEF WriteField, WriteInt, checkWriteBound, FieldBytes
  <2>3. s \o FieldBytes(f) \in Seq(Byte) /\ Len(s \o FieldBytes(f)) = Len(s) + Bytes(f)
    BY <1>1
  <2> QED
    BY <1>1, <2>2, <2>3 DEF Buffers, Streams
<1> QED
  BY <1>2, <1>3

LEMMA WrittenDef ==
  ASSUME NEW fs \in Seq(FieldType)
  PROVE  /\ Written(fs) \in [0..Len(fs) -> Buffers]
         /\ Written(fs)[0] = <<>>
         /\ \A i \in 1..Len(fs) : Written(fs)[i] = WriteField(Written(fs)[i - 1], fs[i])
<1> DEFINE m == Len(fs)
           step == [i \in 1..m |-> [s \in Buffers |-> WriteField(s, fs[i])]]
           Def(g) == g = [i \in 0..m |-> IF i = 0 THEN <<>> ELSE WriteField(g[i - 1], fs[i])]
<1>1. m \in Nat /\ \A i \in 1..m : fs[i] \in FieldType
  OBVIOUS
<1>2. step \in [1..m -> [Buffers -> Buffers]]
  BY <1>1, WriteFieldType
<1>3. <<>> \in Buffers
  BY SizeAssumption DEF Buffers, Streams
<1>4. PICK f \in [0..m -> Buffers] : f[0] = <<>> /\ \A i \in 1..m : f[i] = step[i][f[i - 1]]
  <2> DEFINE X == Buffers
             x == <<>>
  <2>1. m \in Nat /\ x \in X /\ step \in [1..m -> [X -> X]]
    BY <1>1, <1>2, <1>3
  <2> HIDE DEF step, m, X, x
  <2>2. \E f \in [0..m -> X] : f[0] = x /\ \A i \in 1..m : f[i] = step[i][f[i - 1]]
    BY <2>1, Recursion
  <2> QED
    BY <2>2 DEF X, x
<1>5. ASSUME NEW i \in 1..m PROVE f[i] = WriteField(f[i - 1], fs[i])
  <2>1. f[i - 1] \in Buffers
    BY <1>1
  <2>2. step[i][f[i - 1]] = WriteField(f[i - 1], fs[i])
    BY <2>1
  <2> QED
    BY <1>4, <2>2
<1>6. Def(f)
  BY <1>1, <1>4, <1>5
<1>7. Written(fs) = CHOOSE g : Def(g)
  BY DEF Written
<1>8. Def(Written(fs))
  <2> HIDE DEF Def
  <2> QED
    BY <1>6, <1>7
<1> DEFINE w == Written(fs)
<1>9. w = [i \in 0..m |-> IF i = 0 THEN <<>> ELSE WriteField(w[i - 1], fs[i])]
  BY <1>8
<1> HIDE DEF w
<1>10. w[0] = <<>> /\ \A i \in 1..m : w[i] = WriteField(w[i - 1], fs[i])
  BY <1>1, <1>9
<1> DEFINE S == {i \in 0..m : w[i] \in Buffers}
<1>11. 0 \in S
  BY <1>1, <1>3, <1>10
<1>12. ASSUME NEW i \in 0..(m - 1), i \in S PROVE i + 1 \in S
  <2>1. i + 1 \in 1..m /\ w[i] \in Buffers /\ (i + 1) - 1 = i
    BY <1>1, <1>12
  <2>2. w[i + 1] = WriteField(w[i], fs[i + 1])
    BY <1>10, <2>1
  <2> QED
    BY <1>1, <2>1, <2>2, WriteFieldType
<1>13. \A i \in 0..m : w[i] \in Buffers
  <2>1. 0..m \subseteq S
    <3> HIDE DEF S, m
    <3> QED
      BY <1>1, <1>11, <1>12, Counting
  <2> QED
    BY <2>1
<1>14. w \in [0..m -> Buffers]
  <2> HIDE DEF m
  <2> QED
    BY <1>9, <1>13
<1> QED
  BY <1>10, <1>14 DEF w

-----------------------------------------------------------------------------
(* Writing.                                                                 *)

LEMMA ExtentGrows ==
  ASSUME NEW fs \in Seq(FieldType), NEW i \in 0..Len(fs)
  PROVE  \A j \in i..Len(fs) : Extent(fs)[i] <= Extent(fs)[j]
<1> DEFINE m == Len(fs)
           e == Extent(fs)
           S == {j \in 0..m : j >= i => e[i] <= e[j]}
<1>1. /\ m \in Nat /\ e \in [0..m -> Nat]
      /\ \A j \in 1..m : e[j] = e[j - 1] + Bytes(fs[j])
      /\ \A j \in 1..m : Bytes(fs[j]) \in Nat
  BY ExtentDef, FieldBytesType
<1> HIDE DEF e, m
<1>2. i \in 0..m
  BY DEF m
<1>3. 0 \in S
  BY <1>1, <1>2
<1>4. ASSUME NEW j \in 0..(m - 1), j \in S PROVE j + 1 \in S
  <2>1. j + 1 \in 1..m /\ e[j + 1] = e[j] + Bytes(fs[j + 1]) /\ e[j] \in Nat /\ e[i] \in Nat /\ e[j + 1] \in Nat
    BY <1>1, <1>2
  <2> QED
    <3>1. CASE i <= j
      <4>1. e[i] <= e[j] /\ Bytes(fs[j + 1]) \in Nat
        BY <1>1, <1>4, <2>1, <3>1
      <4>2. e[i] <= e[j + 1]
        BY <2>1, <4>1
      <4> QED
        BY <2>1, <4>2
    <3>2. CASE i = j + 1
      BY <2>1, <3>2, <1>1
    <3>3. CASE i > j + 1
      BY <2>1, <3>3, <1>1, <1>2
    <3> QED
      BY <3>1, <3>2, <3>3, <1>1, <1>2
<1>5. 0..m \subseteq S
  <2> HIDE DEF S
  <2> QED
    BY <1>1, <1>3, <1>4, Counting
<1>6. ASSUME NEW j \in i..m PROVE e[i] <= e[j]
  <2>1. j \in 0..m /\ j >= i
    BY <1>1, <1>2
  <2> QED
    BY <1>5, <2>1
<1> QED
  BY <1>6 DEF m, e

\* What fits is written one field behind the other.
LEMMA WrittenInLine ==
  ASSUME NEW fs \in Seq(FieldType), Extent(fs)[Len(fs)] <= SOCKBUF_SIZE
  PROVE  LET s == Written(fs)[Len(fs)]
         IN  /\ s \in Streams /\ Len(s) = Extent(fs)[Len(fs)]
             /\ \A i \in 1..Len(fs) : \A k \in 1..Bytes(fs[i]) :
                  s[Extent(fs)[i - 1] + k] = FieldBytes(fs[i])[k]
<1> DEFINE m == Len(fs)
           e == Extent(fs)
           w == Written(fs)
           InLine(s, j) == \A i \in 1..j : \A k \in 1..Bytes(fs[i]) : s[e[i - 1] + k] = FieldBytes(fs[i])[k]
           S == {j \in 0..m : Len(w[j]) = e[j] /\ InLine(w[j], j)}
<1>1. /\ m \in Nat /\ e \in [0..m -> Nat] /\ e[0] = 0
      /\ \A j \in 1..m : e[j] = e[j - 1] + Bytes(fs[j])
      /\ \A j \in 1..m : /\ fs[j] \in FieldType /\ Bytes(fs[j]) \in Nat
                         /\ FieldBytes(fs[j]) \in Streams /\ Len(FieldBytes(fs[j])) = Bytes(fs[j])
      /\ e[m] <= SOCKBUF_SIZE
  BY ExtentDef, FieldBytesType
<1>2. /\ w \in [0..m -> Buffers] /\ w[0] = <<>>
      /\ \A j \in 1..m : w[j] = WriteField(w[j - 1], fs[j])
  BY WrittenDef
<1>3. \A i \in 0..m : \A j \in i..m : e[i] <= e[j]
  BY ExtentGrows
<1> HIDE DEF e, w, m
<1>4. 0 \in S
  BY <1>1, <1>2
<1>5. ASSUME NEW j \in 0..(m - 1), j \in S PROVE j + 1 \in S
  <2> DEFINE f == fs[j + 1]
  <2>1. /\ j + 1 \in 1..m /\ j \in 0..m /\ e[j + 1] = e[j] + Bytes(f) /\ e[j + 1] <= e[m]
        /\ w[j + 1] = WriteField(w[j], f) /\ Len(w[j]) = e[j] /\ InLine(w[j], j)
    BY <1>1, <1>2, <1>3, <1>5
  <2>2. w[j] \in Buffers /\ f \in FieldType /\ Bytes(f) \in Nat /\ e[j] \in Nat /\ e[m] \in Nat
        /\ FieldBytes(f) \in Streams /\ Len(FieldBytes(f)) = Bytes(f)
    BY <1>1, <1>2, <2>1
  <2>3. w[j + 1] = w[j] \o FieldBytes(f)
    <3>1. Len(w[j]) + Bytes(f) <= SOCKBUF_SIZE
      BY <1>1, <2>1, <2>2, SizeAssumption
    <3> QED
      BY <2>1, <2>2, <3>1, WriteFieldType
  <2> HIDE DEF f
  <2>4. w[j] \in Seq(Byte) /\ FieldBytes(f) \in Seq(Byte)
    BY <2>2 DEF Buffers, Streams
  <2>5. Len(w[j + 1]) = e[j + 1]
    <3>1. Len(w[j] \o FieldBytes(f)) = Len(w[j]) + Len(FieldBytes(f))
      BY <2>4
    <3> QED
      BY <2>1, <2>2, <2>3, <3>1
  <2>6. ASSUME NEW i \in 1..(j + 1), NEW k \in 1..Bytes(fs[i])
        PROVE  w[j + 1][e[i - 1] + k] = FieldBytes(fs[i])[k]
    <3>1. CASE i <= j
      <4>1. i \in 1..j /\ i \in 1..m /\ e[i] = e[i - 1] + Bytes(fs[i]) /\ e[i] <= e[j] /\ e[i - 1] \in Nat /\ Bytes(fs[i]) \in Nat
        BY <1>1, <1>3, <3>1, <2>1
      <4>2. e[i - 1] + k \in 1..Len(w[j])
        <5>1. Len(w[j]) = e[j] /\ e[j] \in Nat /\ e[i] \in Nat
          BY <1>1, <2>1, <2>2, <4>1
        <5>2. k \in Nat /\ 1 <= k /\ k <= Bytes(fs[i])
          BY <4>1
        <5> QED
          BY <4>1, <5>1, <5>2
      <4>3. w[j + 1][e[i - 1] + k] = w[j][e[i - 1] + k]
        BY <2>3, <2>4, <4>2
      <4> QED
        BY <2>1, <4>1, <4>3
    <3>2. CASE i = j + 1
      <4>1. fs[i] = f /\ e[i - 1] = Len(w[j])
        BY <3>2, <2>1 DEF f
      <4>2. k \in 1..Len(FieldBytes(f))
        BY <4>1, <2>2
      <4>3. w[j + 1][Len(w[j]) + k] = FieldBytes(f)[k]
        <5>1. Len(w[j]) + k \in 1..(Len(w[j]) + Len(FieldBytes(f)))
              /\ ~(Len(w[j]) + k <= Len(w[j])) /\ (Len(w[j]) + k) - Len(w[j]) = k
          BY <2>4, <4>2
        <5> QED
          BY <2>3, <2>4, <5>1, ConcatProperties
      <4> QED
        BY <4>1, <4>3
    <3> QED
      BY <3>1, <3>2
  <2> QED
    BY <2>1, <2>5, <2>6
<1>6. m \in S
  <2> HIDE DEF S
  <2>1. 0..m \subseteq S
    BY <1>1, <1>4, <1>5, Counting
  <2> QED
    BY <1>1, <2>1
<1>7. w[m] \in Streams
  BY <1>1, <1>2 DEF Buffers
<1> QED
  BY <1>6, <1>7 DEF e, w, m

-----------------------------------------------------------------------------
(* Reading.                                                                 *)

ReadType == [value : Nat \cup Streams, last : Int, pos : Nat]

LEMMA ByteAtType == ASSUME NEW b \in Streams, NEW i \in Nat PROVE ByteAt(b, i) \in Byte
<1>1. b \in Seq(Byte) /\ Len(b) \in Nat
  BY DEF Streams
<1>2. i < Len(b) => i + 1 \in 1..Len(b)
  BY <1>1
<1>3. i < Len(b) => b[i + 1] \in Byte
  BY <1>1, <1>2, ElementOfSeq
<1> QED
  BY <1>3 DEF ByteAt, Byte

\* Where a string ends, if not before its second byte.
EndsAt(b, pos, k) ==
  /\ ByteAt(b, pos + k) = 0 \/ pos + k >= SOCKBUF_SIZE
  /\ \A j \in 1..(k - 1) : ByteAt(b, pos + j) # 0 /\ pos + j < SOCKBUF_SIZE

LEMMA StringEnds ==
  ASSUME NEW b, NEW pos \in Nat
  PROVE  \E k \in 1..SOCKBUF_SIZE : EndsAt(b, pos, k)
<1> DEFINE T == {k \in 1..SOCKBUF_SIZE : ByteAt(b, pos + k) = 0 \/ pos + k >= SOCKBUF_SIZE}
<1>1. T \in SUBSET Nat
  OBVIOUS
<1>2. SOCKBUF_SIZE \in T
  BY SizeAssumption
<1>3. PICK k \in T : \A j \in T : k <= j
  <2> HIDE DEF T
  <2> QED
    BY <1>1, <1>2, LeastNumber
<1>4. ASSUME NEW j \in 1..(k - 1) PROVE ByteAt(b, pos + j) # 0 /\ pos + j < SOCKBUF_SIZE
  <2>1. j \in 1..SOCKBUF_SIZE /\ ~(k <= j)
    BY <1>3, SizeAssumption
  <2>2. j \notin T
    BY <1>3, <2>1
  <2> QED
    BY <2>1, <2>2, SizeAssumption
<1> QED
  BY <1>3, <1>4 DEF EndsAt

LEMMA StringEndsOnce ==
  ASSUME NEW b, NEW pos \in Nat, NEW k \in 1..SOCKBUF_SIZE, NEW l \in 1..SOCKBUF_SIZE,
         EndsAt(b, pos, k), EndsAt(b, pos, l)
  PROVE  k = l
<1>1. k \in Nat /\ l \in Nat /\ k >= 1 /\ l >= 1
  BY SizeAssumption
<1>2. ~(k < l)
  <2> SUFFICES ASSUME k < l PROVE FALSE
    OBVIOUS
  <2>1. k \in 1..(l - 1)
    BY <1>1
  <2> QED
    BY <1>1, <2>1, SizeAssumption DEF EndsAt
<1>3. ~(l < k)
  <2> SUFFICES ASSUME l < k PROVE FALSE
    OBVIOUS
  <2>1. l \in 1..(k - 1)
    BY <1>1
  <2> QED
    BY <1>1, <2>1, SizeAssumption DEF EndsAt
<1> QED
  BY <1>1, <1>2, <1>3

\* A string has at least one byte, whatever is in the buffer.
LEMMA ReadStringDef ==
  ASSUME NEW b, NEW pos \in Nat
  PROVE  \E k \in 1..SOCKBUF_SIZE :
           /\ EndsAt(b, pos, k)
           /\ ReadString(b, pos) = Read([i \in 1..k |-> ByteAt(b, pos + i - 1)], pos + k, pos + k + 1)
<1> DEFINE k == CHOOSE l \in 1..SOCKBUF_SIZE : EndsAt(b, pos, l)
<1>1. k \in 1..SOCKBUF_SIZE /\ EndsAt(b, pos, k)
  <2> HIDE DEF k
  <2> QED
    BY StringEnds DEF k
<1>2. ReadString(b, pos) = Read([i \in 1..k |-> ByteAt(b, pos + i - 1)], pos + k, pos + k + 1)
  BY DEF ReadString, EndsAt
<1> HIDE DEF k
<1> QED
  BY <1>1, <1>2

LEMMA ReadFieldType ==
  ASSUME NEW b \in Streams, NEW pos \in Nat, NEW width \in WidthType
  PROVE  ReadField(b, pos, width) \in ReadType /\ (width = 0 => ReadField(b, pos, width).value # <<>>)
<1>1. \A i \in Nat : ByteAt(b, i) \in Byte
  BY ByteAtType
<1>2. CASE width = 0
  <2>1. PICK k \in 1..SOCKBUF_SIZE :
          ReadString(b, pos) = Read([i \in 1..k |-> ByteAt(b, pos + i - 1)], pos + k, pos + k + 1)
    BY ReadStringDef
  <2> DEFINE text == [i \in 1..k |-> ByteAt(b, pos + i - 1)]
  <2>2. k \in Nat /\ k >= 1 /\ \A i \in 1..k : ByteAt(b, pos + i - 1) \in Byte
    BY <1>1, SizeAssumption
  <2>3. text \in Streams /\ Len(text) = k
    BY <2>2 DEF Streams
  <2>4. ReadField(b, pos, width) = Read(text, pos + k, pos + k + 1)
    BY <1>2, <2>1 DEF ReadField
  <2> HIDE DEF text
  <2>5. text # <<>>
    BY <2>2, <2>3
  <2>6. pos + k \in Int /\ pos + k + 1 \in Nat
    BY <2>2
  <2> QED
    BY <2>3, <2>4, <2>5, <2>6 DEF Read, ReadType
<1>3. CASE width \in {2, 4}
  <2>1. /\ ByteAt(b, pos) \in Nat /\ ByteAt(b, pos + 1) \in Nat
        /\ ByteAt(b, pos + 2) \in Nat /\ ByteAt(b, pos + 3) \in Nat
    BY <1>1 DEF Byte
  <2>2. ReadInt(b, pos, width).value \in Nat
    BY <2>1 DEF ReadInt, Read, Weight
  <2>3. ReadField(b, pos, width) = ReadInt(b, pos, width)
    BY <1>3 DEF ReadField
  <2>4. /\ ReadInt(b, pos, width) = Read(ReadInt(b, pos, width).value, pos + width - 1, pos + width)
        /\ pos + width - 1 \in Int /\ pos + width \in Nat
    BY <1>3 DEF ReadInt, Read
  <2> QED
    BY <1>3, <2>2, <2>3, <2>4 DEF Read, ReadType
<1> QED
  BY <1>2, <1>3 DEF WidthType

LEMMA ReadsInt ==
  ASSUME NEW b \in Streams, NEW pos \in Nat, NEW f \in FieldType, f.width # 0, Proper(f),
         pos + Bytes(f) <= Len(b), \A k \in 1..Bytes(f) : b[pos + k] = FieldBytes(f)[k]
  PROVE  ReadInt(b, pos, f.width) = Read(f.value, pos + Bytes(f) - 1, pos + Bytes(f))
<1> DEFINE v == f.value
<1>1. f.width \in {2, 4} /\ v \in Nat /\ Bytes(f) = f.width /\ Len(b) \in Nat
  BY DEF FieldType, Bytes, Streams
<1>2. ASSUME NEW k \in 1..f.width PROVE ByteAt(b, pos + k - 1) = (v \div Weight[k]) % 256
  <2>1. pos + k - 1 < Len(b) /\ (pos + k - 1) + 1 = pos + k /\ k \in 1..Bytes(f)
    BY <1>1
  <2>2. FieldBytes(f)[k] = (v \div Weight[k]) % 256
    BY <1>1 DEF FieldBytes
  <2> QED
    BY <2>1, <2>2 DEF ByteAt
<1>3. ByteAt(b, pos) = v % 256 /\ ByteAt(b, pos + 1) = (v \div 256) % 256
  <2>1. 1 \in 1..f.width /\ 2 \in 1..f.width /\ pos + 1 - 1 = pos /\ pos + 2 - 1 = pos + 1
    BY <1>1
  <2>2. ByteAt(b, pos) = (v \div 1) % 256 /\ ByteAt(b, pos + 1) = (v \div 256) % 256
    BY <1>2, <2>1 DEF Weight
  <2> QED
    BY <1>1, <2>2
<1>4. f.width = 4 => ByteAt(b, pos + 2) = (v \div 65536) % 256 /\ ByteAt(b, pos + 3) = (v \div 16777216) % 256
  <2> SUFFICES ASSUME f.width = 4
               PROVE  ByteAt(b, pos + 2) = (v \div 65536) % 256 /\ ByteAt(b, pos + 3) = (v \div 16777216) % 256
    OBVIOUS
  <2>1. 3 \in 1..f.width /\ 4 \in 1..f.width /\ pos + 3 - 1 = pos + 2 /\ pos + 4 - 1 = pos + 3
    OBVIOUS
  <2> QED
    BY <1>2, <2>1 DEF Weight
<1> HIDE DEF v
<1>5. v < 65536 => v = (v % 256) + 256 * ((v \div 256) % 256)
  BY <1>1, TwoBytes
<1>6. v \div 65536 < 65536 =>
        v = (v % 256) + 256 * ((v \div 256) % 256)
              + (65536 * ((v \div 65536) % 256) + 16777216 * ((v \div 16777216) % 256))
  BY <1>1, FourBytes
<1>7. ReadInt(b, pos, f.width).value = v
  BY <1>1, <1>3, <1>4, <1>5, <1>6 DEF ReadInt, Read, Weight, Proper, v
<1>8. ReadInt(b, pos, f.width) = Read(ReadInt(b, pos, f.width).value, pos + f.width - 1, pos + f.width)
  BY DEF ReadInt, Read
<1> QED
  BY <1>1, <1>7, <1>8 DEF v

LEMMA ReadsString ==
  ASSUME NEW b \in Streams, NEW pos \in Nat, NEW f \in FieldType, f.width = 0, Proper(f),
         pos + Bytes(f) <= Len(b), Len(b) <= SOCKBUF_SIZE,
         \A k \in 1..Bytes(f) : b[pos + k] = FieldBytes(f)[k]
  PROVE  ReadString(b, pos) = Read(f.value, pos + Bytes(f) - 1, pos + Bytes(f))
<1> DEFINE text == f.value
           n == Len(text)
<1>1. /\ text \in Seq(1..255) /\ n \in Nat /\ n >= 1 /\ Bytes(f) = n + 1 /\ Len(b) \in Nat
      /\ FieldBytes(f) = Append(text, 0)
  BY DEF FieldType, Texts, Bytes, Streams, FieldBytes, Proper
<1> HIDE DEF text
<1>2. \A i \in 1..n : FieldBytes(f)[i] = text[i] /\ text[i] # 0
  <2>1. \A i \in 1..n : Append(text, 0)[i] = text[i]
    BY <1>1
  <2>2. \A i \in 1..n : text[i] \in 1..255
    BY <1>1, ElementOfSeq
  <2>3. \A x \in 1..255 : x # 0
    OBVIOUS
  <2>4. \A i \in 1..n : text[i] # 0
    BY <2>2, <2>3
  <2> QED
    BY <1>1, <2>1, <2>4
<1>3. FieldBytes(f)[n + 1] = 0
  BY <1>1
<1> HIDE DEF n
<1>4. ASSUME NEW i \in 1..n PROVE ByteAt(b, pos + i - 1) = text[i]
  <2>1. pos + i - 1 < Len(b) /\ (pos + i - 1) + 1 = pos + i /\ i \in 1..Bytes(f)
    BY <1>1
  <2> QED
    BY <1>2, <2>1 DEF ByteAt
<1>5. EndsAt(b, pos, n) /\ n \in 1..SOCKBUF_SIZE
  <2>1. pos + n < Len(b) /\ n + 1 \in 1..Bytes(f) /\ (pos + n) + 1 = pos + (n + 1) /\ n <= SOCKBUF_SIZE
    BY <1>1, SizeAssumption
  <2>2. ByteAt(b, pos + n) = 0
    BY <1>3, <2>1 DEF ByteAt
  <2>3. ASSUME NEW j \in 1..(n - 1) PROVE ByteAt(b, pos + j) # 0 /\ pos + j < SOCKBUF_SIZE
    <3>1. j + 1 \in 1..n /\ pos + (j + 1) - 1 = pos + j /\ pos + j < SOCKBUF_SIZE
      BY <1>1, <2>1, SizeAssumption
    <3>2. ByteAt(b, pos + j) = text[j + 1] /\ text[j + 1] # 0
      <4>1. ByteAt(b, pos + (j + 1) - 1) = text[j + 1]
        BY <1>4, <3>1
      <4> QED
        BY <1>2, <3>1, <4>1
    <3> QED
      BY <3>1, <3>2
  <2> QED
    BY <1>1, <2>1, <2>2, <2>3, SizeAssumption DEF EndsAt
<1>6. PICK k \in 1..SOCKBUF_SIZE :
        /\ EndsAt(b, pos, k)
        /\ ReadString(b, pos) = Read([i \in 1..k |-> ByteAt(b, pos + i - 1)], pos + k, pos + k + 1)
  BY ReadStringDef
<1>7. k = n
  BY <1>5, <1>6, StringEndsOnce
<1>8. [i \in 1..n |-> ByteAt(b, pos + i - 1)] = text
  BY <1>1, <1>4 DEF n
<1>9. pos + n = pos + Bytes(f) - 1 /\ pos + n + 1 = pos + Bytes(f)
  BY <1>1
<1> QED
  BY <1>6, <1>7, <1>8, <1>9 DEF text

\* A field in the buffer is read as it was written, up to its last byte.
LEMMA ReadsField ==
  ASSUME NEW b \in Streams, NEW pos \in Nat, NEW f \in FieldType, Proper(f),
         pos + Bytes(f) <= Len(b), Len(b) <= SOCKBUF_SIZE,
         \A k \in 1..Bytes(f) : b[pos + k] = FieldBytes(f)[k]
  PROVE  ReadField(b, pos, f.width) = Read(f.value, pos + Bytes(f) - 1, pos + Bytes(f))
BY ReadsInt, ReadsString DEF ReadField

LEMMA ReadsFollow ==
  ASSUME NEW m \in Nat, NEW step \in [1..m -> [ReadType -> ReadType]]
  PROVE  \E f \in [0..m -> ReadType] : f[0] = Read(0, 0, 0) /\ \A i \in 1..m : f[i] = step[i][f[i - 1]]
<1>1. Read(0, 0, 0) \in ReadType
  BY DEF Read, ReadType
<1> QED
  BY <1>1, Recursion

LEMMA ReadDef ==
  ASSUME NEW b \in Streams, NEW ws \in Seq(WidthType)
  PROVE  /\ ReadFields(b, ws) \in [0..Len(ws) -> ReadType]
         /\ ReadFields(b, ws)[0] = Read(0, 0, 0)
         /\ \A i \in 1..Len(ws) : ReadFields(b, ws)[i] = ReadField(b, ReadFields(b, ws)[i - 1].pos, ws[i])
<1> DEFINE m == Len(ws)
           step == [i \in 1..m |-> [r \in ReadType |-> ReadField(b, r.pos, ws[i])]]
           Def(g) == g = [i \in 0..m |-> IF i = 0 THEN Read(0, 0, 0) ELSE ReadField(b, g[i - 1].pos, ws[i])]
<1>1. m \in Nat /\ \A i \in 1..m : ws[i] \in WidthType
  OBVIOUS
<1>2. \A r \in ReadType : r.pos \in Nat
  BY DEF ReadType
<1>3. \A i \in 1..m : \A r \in ReadType : ReadField(b, r.pos, ws[i]) \in ReadType
  BY <1>1, <1>2, ReadFieldType
<1>4. step \in [1..m -> [ReadType -> ReadType]]
  BY <1>3
<1>5. Read(0, 0, 0) \in ReadType
  BY DEF Read, ReadType
<1>6. PICK f \in [0..m -> ReadType] : f[0] = Read(0, 0, 0) /\ \A i \in 1..m : f[i] = step[i][f[i - 1]]
  <2> HIDE DEF step, m
  <2> QED
    BY ONLY <1>1, <1>4, ReadsFollow
<1>7. ASSUME NEW i \in 1..m PROVE f[i] = ReadField(b, f[i - 1].pos, ws[i])
  <2>1. f[i - 1] \in ReadType
    BY <1>1
  <2>2. step[i][f[i - 1]] = ReadField(b, f[i - 1].pos, ws[i])
    BY <2>1
  <2> QED
    BY <1>6, <2>2
<1>8. Def(f)
  BY <1>1, <1>6, <1>7
<1>9. ReadFields(b, ws) = CHOOSE g : Def(g)
  BY DEF ReadFields
<1>10. Def(ReadFields(b, ws))
  <2> HIDE DEF Def
  <2> QED
    BY <1>8, <1>9
<1> DEFINE r == ReadFields(b, ws)
<1>11. r = [i \in 0..m |-> IF i = 0 THEN Read(0, 0, 0) ELSE ReadField(b, r[i - 1].pos, ws[i])]
  BY <1>10
<1> HIDE DEF r
<1>12. r[0] = Read(0, 0, 0) /\ \A i \in 1..m : r[i] = ReadField(b, r[i - 1].pos, ws[i])
  BY <1>1, <1>11
<1> DEFINE S == {i \in 0..m : r[i] \in ReadType}
<1>13. 0 \in S
  BY <1>1, <1>5, <1>12
<1>14. ASSUME NEW i \in 0..(m - 1), i \in S PROVE i + 1 \in S
  <2>1. i + 1 \in 1..m /\ r[i] \in ReadType /\ (i + 1) - 1 = i
    BY <1>1, <1>14
  <2>2. r[i + 1] = ReadField(b, r[i].pos, ws[i + 1])
    BY <1>12, <2>1
  <2> QED
    BY <1>1, <1>3, <2>1, <2>2
<1>15. \A i \in 0..m : r[i] \in ReadType
  <2>1. 0..m \subseteq S
    <3> HIDE DEF S, m
    <3> QED
      BY <1>1, <1>13, <1>14, Counting
  <2> QED
    BY <2>1
<1>16. r \in [0..m -> ReadType]
  <2> HIDE DEF m
  <2> QED
    BY <1>11, <1>15
<1> QED
  BY <1>12, <1>16 DEF r

\* No string is read empty, whatever is in the buffer.
LEMMA NoneEmpty ==
  ASSUME NEW b \in Streams, NEW ws \in Seq(WidthType), NEW i \in 1..Len(ws), ws[i] = 0
  PROVE  ReadFields(b, ws)[i].value # <<>>
<1> DEFINE r == ReadFields(b, ws)
<1>1. i - 1 \in 0..Len(ws) /\ r \in [0..Len(ws) -> ReadType] /\ r[i] = ReadField(b, r[i - 1].pos, ws[i])
  BY ReadDef
<1> HIDE DEF r
<1>2. r[i - 1].pos \in Nat
  BY <1>1 DEF ReadType
<1>3. ReadField(b, r[i - 1].pos, ws[i]).value # <<>>
  BY <1>2, ReadFieldType
<1> QED
  BY <1>1, <1>3 DEF r

\* The fields fs of a packet are read as they were written, by a reader that knows
\* their widths and has all bytes but the header's.
LEMMA ReadsFields ==
  ASSUME NEW fs \in Seq(FieldType), fs # <<>>, Bytes(fs[1]) = Header,
         \A i \in 1..Len(fs) : Proper(fs[i]),
         NEW b \in Streams, Len(b) <= SOCKBUF_SIZE, Extent(fs)[Len(fs)] <= Len(b) + Header,
         \A i \in 2..Len(fs) : \A k \in 1..Bytes(fs[i]) : b[Extent(fs)[i - 1] - Header + k] = FieldBytes(fs[i])[k],
         NEW ws \in Seq(WidthType), Len(ws) = Len(fs) - 1, \A i \in 1..Len(ws) : ws[i] = fs[i + 1].width
  PROVE  \A i \in 1..Len(ws) : /\ ReadFields(b, ws)[i].value = fs[i + 1].value
                                /\ ReadFields(b, ws)[i].last + 1 <= Len(b)
<1> DEFINE m == Len(ws)
           e == Extent(fs)
           r == ReadFields(b, ws)
           S == {i \in 0..m : /\ r[i].pos = e[i + 1] - Header
                              /\ i > 0 => r[i].value = fs[i + 1].value /\ r[i].last + 1 <= Len(b)}
<1>1. /\ m \in Nat /\ Len(fs) = m + 1 /\ Len(b) \in Nat /\ Header = 4
      /\ \A i \in 1..(m + 1) : fs[i] \in FieldType /\ Bytes(fs[i]) \in Nat
  BY FieldBytesType DEF Streams, Header
<1>2. /\ e \in [0..(m + 1) -> Nat] /\ e[0] = 0 /\ \A i \in 1..(m + 1) : e[i] = e[i - 1] + Bytes(fs[i])
      /\ \A i \in 0..(m + 1) : \A j \in i..(m + 1) : e[i] <= e[j]
  BY <1>1, ExtentDef, ExtentGrows
<1>3. /\ r \in [0..m -> ReadType] /\ r[0] = Read(0, 0, 0)
      /\ \A i \in 1..m : r[i] = ReadField(b, r[i - 1].pos, ws[i])
  BY ReadDef
<1>4. e[m + 1] <= Len(b) + Header
  BY <1>1
<1>5. \A i \in 2..(m + 1) : \A k \in 1..Bytes(fs[i]) : b[e[i - 1] - Header + k] = FieldBytes(fs[i])[k]
  BY <1>1
<1>6. \A i \in 1..m : ws[i] = fs[i + 1].width
  OBVIOUS
<1> HIDE DEF e, r, m
<1>7. 0 \in S
  <2>1. e[1] = Header
    BY <1>1, <1>2
  <2>2. r[0].pos = 0
    BY <1>3 DEF Read
  <2> QED
    BY <1>1, <2>1, <2>2
<1>8. ASSUME NEW i \in 0..(m - 1), i \in S PROVE i + 1 \in S
  <2> DEFINE f == fs[i + 2]
             pos == e[i + 1] - Header
  <2>1. /\ i \in Nat /\ i + 1 \in 1..m /\ (i + 1) - 1 = i /\ (i + 1) + 1 = i + 2 /\ i + 2 \in 2..(m + 1)
        /\ (i + 2) - 1 = i + 1 /\ i + 1 \in 0..(m + 1) /\ 1 \in 0..(m + 1) /\ i + 1 \in 1..(m + 1)
        /\ i + 2 \in 1..(m + 1) /\ m + 1 \in (i + 2)..(m + 1) /\ i + 2 \in 0..(m + 1)
    <3>1. m \in Nat /\ i \in Nat /\ i <= m - 1
      BY <1>1
    <3> QED
      BY <3>1
  <2>2. f \in FieldType /\ Proper(f) /\ Bytes(f) \in Nat /\ ws[i + 1] = f.width
    BY <1>1, <1>6, <2>1
  <2>3. e[1] = Header /\ e[1] <= e[i + 1] /\ e[i + 1] \in Nat /\ e[i + 2] = e[i + 1] + Bytes(f)
        /\ e[i + 2] <= e[m + 1] /\ e[m + 1] \in Nat /\ e[i + 2] \in Nat
    <3>1. e[1] = Header
      BY <1>1, <1>2
    <3>2. e[1] <= e[i + 1]
      BY <1>1, <1>2, <2>1
    <3>3. e[i + 2] = e[i + 1] + Bytes(f)
      BY <1>2, <2>1
    <3>4. e[i + 2] <= e[m + 1]
      BY <1>2, <2>1
    <3> QED
      BY <3>1, <3>2, <3>3, <3>4, <1>1, <1>2, <2>1
  <2>4. \A k \in 1..Bytes(f) : b[pos + k] = FieldBytes(f)[k]
    BY <1>5, <2>1
  <2>5. pos \in Nat /\ pos + Bytes(f) <= Len(b) /\ e[i + 2] - Header = pos + Bytes(f)
    <3> DEFINE h == Header
               from == e[i + 1]
               bytes == Bytes(f)
               to == e[i + 2]
               end == e[m + 1]
               len == Len(b)
    <3>1. h \in Nat /\ len \in Nat /\ h <= from
      BY <1>1, <2>3
    <3>2. from \in Nat /\ bytes \in Nat /\ to \in Nat /\ end \in Nat
      BY <2>2, <2>3
    <3>3. to = from + bytes /\ to <= end /\ end <= len + h
      BY <1>4, <2>3
    <3> HIDE DEF h, from, bytes, to, end, len
    <3>4. from - h \in Nat /\ (from - h) + bytes <= len /\ to - h = (from - h) + bytes
      BY <3>1, <3>2, <3>3
    <3> QED
      BY <3>4 DEF h, from, bytes, to, len
  <2>6. r[i].pos = pos
    BY <1>8
  <2>7. r[i + 1] = ReadField(b, pos, f.width)
    BY <1>3, <2>1, <2>2, <2>6
  <2> HIDE DEF pos, f
  <2>8. r[i + 1] = Read(f.value, pos + Bytes(f) - 1, pos + Bytes(f))
    BY <2>2, <2>4, <2>5, <2>7, ReadsField
  <2>9. r[i + 1].pos = e[i + 2] - Header /\ r[i + 1].value = f.value /\ r[i + 1].last + 1 <= Len(b)
    BY <2>2, <2>5, <2>8, <1>1 DEF Read
  <2> QED
    BY <2>1, <2>9 DEF f
<1>9. \A i \in 0..m : i \in S
  <2>1. 0..m \subseteq S
    <3> HIDE DEF S
    <3> QED
      BY <1>1, <1>7, <1>8, Counting
  <2> QED
    BY <2>1
<1>10. \A i \in 1..m : i \in 0..m /\ i > 0
  BY <1>1
<1> QED
  BY <1>9, <1>10 DEF r, m

-----------------------------------------------------------------------------
(* The packets.                                                             *)

\* Numbers their bytes can count.
Counted(f) == (f.width = 2 => f.value < 65536) /\ (f.width = 4 => f.value \div 65536 < 65536)

LEMMA FieldTypes ==
  /\ \A v \in Nat : v < 65536 => Field(2, v) \in FieldType /\ Counted(Field(2, v))
  /\ \A v \in Nat : v \div 65536 < 65536 => Field(4, v) \in FieldType /\ Counted(Field(4, v))
  /\ \A v \in Texts : Field(0, v) \in FieldType /\ Counted(Field(0, v))
<1>1. ASSUME NEW v \in Nat, v < 65536 PROVE Field(2, v) \in FieldType /\ Counted(Field(2, v))
  BY <1>1 DEF Field, FieldType, Counted
<1>2. ASSUME NEW v \in Nat, v \div 65536 < 65536 PROVE Field(4, v) \in FieldType /\ Counted(Field(4, v))
  BY <1>2 DEF Field, FieldType, Counted
<1>3. ASSUME NEW v \in Texts PROVE Field(0, v) \in FieldType /\ Counted(Field(0, v))
  BY DEF Field, FieldType, Counted
<1> QED
  BY <1>1, <1>2, <1>3

CountedType == {f \in FieldType : Counted(f)}

LEMMA FieldsCount ==
  /\ \A v \in Strings \cup {RoomName} : Field(0, v) \in CountedType
  /\ \A v \in RoomIds : Field(2, v) \in CountedType
  /\ \A v \in UserIds : Field(4, v) \in CountedType
<1>1. \A v \in Strings \cup {RoomName} : v \in Texts
  BY StringsAssumption DEF Texts
<1>2. \A v \in RoomIds : v \in Nat /\ v < 65536
  BY RoomIdsAssumption
<1> QED
  BY <1>1, <1>2, FieldTypes, UserIdsAssumption DEF CountedType

\* A list of rooms is their number, their ids, and as many names.
LEMMA ListBody ==
  ASSUME NEW p \in Packets, p.type = "S_LOBBY_ROOM_INFO"
  PROVE  LET n == Len(p.roomId)
         IN  /\ n \in Nat
             /\ Body(p) \in Seq(CountedType) /\ Len(Body(p)) = 1 + 2 * n
             /\ Body(p)[1] = Field(2, n)
             /\ \A i \in 1..n : Body(p)[1 + i].width = 2 /\ Body(p)[(1 + n) + i].width = 0
<1>1. /\ p.roomId \in RoomLists
      /\ p.roomName = [i \in DOMAIN p.roomId |-> RoomName]
  BY DEF Packets
<1> DEFINE n == Len(p.roomId)
           ids == [i \in DOMAIN p.roomId |-> Field(2, p.roomId[i])]
           names == [i \in DOMAIN p.roomName |-> Field(0, p.roomName[i])]
           head == Field(2, n)
           front == <<head>> \o ids
           all == front \o names
<1>2. n \in Nat /\ n < 65536 /\ DOMAIN p.roomId = 1..n /\ \A i \in 1..n : p.roomId[i] \in RoomIds
  BY <1>1, RoomListsAssumption
<1>3. Len(p.roomName) = n /\ DOMAIN p.roomName = 1..n /\ \A i \in 1..n : p.roomName[i] = RoomName
  BY <1>1, <1>2
<1>4. Body(p) = all
  BY <1>3 DEF Body
<1>5. ids \in Seq(CountedType) /\ Len(ids) = n /\ \A i \in 1..n : ids[i].width = 2
  BY <1>2, FieldsCount DEF Field
<1>6. names \in Seq(CountedType) /\ Len(names) = n /\ \A i \in 1..n : names[i].width = 0
  BY <1>2, <1>3, FieldsCount DEF Field
<1> HIDE DEF n
<1>7. head \in CountedType
  BY <1>2, FieldTypes DEF CountedType
<1> HIDE DEF ids, names, head
<1>8. <<head>> \in Seq(CountedType) /\ Len(<<head>>) = 1 /\ <<head>>[1] = head
  BY <1>7
<1>9. /\ front \in Seq(CountedType) /\ Len(front) = 1 + n
      /\ \A i \in 1..1 : front[i] = <<head>>[i]
      /\ \A i \in 1..n : front[1 + i] = ids[i]
  BY <1>5, <1>8, Joined
<1> HIDE DEF front
<1>10. /\ all \in Seq(CountedType) /\ Len(all) = Len(front) + Len(names)
       /\ \A i \in 1..Len(front) : all[i] = front[i]
       /\ \A i \in 1..Len(names) : all[Len(front) + i] = names[i]
  <2>1. front \in Seq(CountedType) /\ names \in Seq(CountedType)
    BY <1>6, <1>9
  <2> QED
    BY <2>1, Joined
<1> HIDE DEF all
<1>11. 1 \in 1..(1 + n) /\ 1 \in 1..1 /\ \A i \in 1..n : 1 + i \in 1..(1 + n)
  BY <1>2
<1>12. Len(all) = 1 + 2 * n
  BY <1>2, <1>6, <1>9, <1>10
<1>13. all[1] = head
  BY <1>8, <1>9, <1>10, <1>11
<1>14. ASSUME NEW i \in 1..n PROVE all[1 + i].width = 2 /\ all[(1 + n) + i].width = 0
  BY <1>5, <1>6, <1>9, <1>10, <1>11
<1> QED
  BY <1>2, <1>4, <1>10, <1>12, <1>13, <1>14 DEF head, n

LEMMA BodyType ==
  ASSUME NEW p \in Packets
  PROVE  Body(p) \in Seq(FieldType) /\ \A i \in 1..Len(Body(p)) : Counted(Body(p)[i])
<1>1. Body(p) \in Seq(CountedType)
  <2>1. CASE p.type \in {"C_SERVER_EXIT", "S_UNICAST_NO"}
    <3>1. Body(p) = <<>>
      BY <2>1 DEF Body
    <3> QED
      BY <3>1
  <2>2. CASE p.type = "C_ROOM_ENTER"
    <3>1. p.rid \in RoomIds /\ Body(p) = <<Field(2, p.rid)>>
      BY <2>2 DEF Packets, Body
    <3>2. Field(2, p.rid) \in CountedType
      BY <3>1, FieldsCount
    <3> QED
      BY <3>1, <3>2
  <2>3. CASE p.type = "S_ROOM_ENTER"
    <3>1. p.uid \in UserIds /\ p.name \in Strings /\ Body(p) = <<Field(4, p.uid), Field(0, p.name)>>
      BY <2>3 DEF Packets, Body
    <3>2. Field(4, p.uid) \in CountedType /\ Field(0, p.name) \in CountedType
      BY <3>1, FieldsCount
    <3> QED
      BY <3>1, <3>2
  <2>4. CASE p.type = "C_UNICAST"
    <3>1. p.recver \in Strings /\ p.text \in Strings /\ Body(p) = <<Field(0, p.recver), Field(0, p.text)>>
      BY <2>4 DEF Packets, Body
    <3>2. Field(0, p.recver) \in CountedType /\ Field(0, p.text) \in CountedType
      BY <3>1, FieldsCount
    <3> QED
      BY <3>1, <3>2
  <2>5. CASE p.type = "S_LOBBY_ROOM_INFO"
    BY <2>5, ListBody
  <2>6. CASE p.type = "C_SERVER_ENTER"
    <3>1. p.nickname \in Strings /\ Body(p) = <<Field(0, p.nickname)>>
      BY <2>6 DEF Packets, Body
    <3>2. Field(0, p.nickname) \in CountedType
      BY <3>1, FieldsCount
    <3> QED
      BY <3>1, <3>2
  <2>7. CASE p.type = "S_ROOM_NAME"
    <3>1. p.roomName = RoomName /\ Body(p) = <<Field(0, p.roomName)>>
      BY <2>7 DEF Packets, Body
    <3>2. Field(0, p.roomName) \in CountedType
      BY <3>1, FieldsCount
    <3> QED
      BY <3>1, <3>2
  <2>8. CASE p.type = "S_ROOM_EXIT"
    <3>1. p.uid \in UserIds /\ Body(p) = <<Field(4, p.uid)>>
      BY <2>8 DEF Packets, Body
    <3>2. Field(4, p.uid) \in CountedType
      BY <3>1, FieldsCount
    <3> QED
      BY <3>1, <3>2
  <2>9. CASE p.type = "S_MULTICAST"
    <3>1. p.nickname \in Strings /\ p.text \in Strings /\ Body(p) = <<Field(0, p.nickname), Field(0, p.text)>>
      BY <2>9 DEF Packets, Body
    <3>2. Field(0, p.nickname) \in CountedType /\ Field(0, p.text) \in CountedType
      BY <3>1, FieldsCount
    <3> QED
      BY <3>1, <3>2
  <2> QED
    BY <2>1, <2>2, <2>3, <2>4, <2>5, <2>6, <2>7, <2>8, <2>9 DEF Packets
<1>2. CountedType \subseteq FieldType /\ \A f \in CountedType : Counted(f)
  BY DEF CountedType
<1>3. \A i \in 1..Len(Body(p)) : Body(p)[i] \in CountedType
  BY <1>1
<1> QED
  BY <1>1, <1>2, <1>3

LEMMA FieldsType ==
  ASSUME NEW p \in Packets
  PROVE  /\ Fields(p) \in Seq(FieldType)
         /\ Len(Fields(p)) = Len(Body(p)) + 1
         /\ Fields(p)[1] = Field(Header, TypeCode(p.type)) /\ Proper(Fields(p)[1])
         /\ \A i \in 1..Len(Body(p)) : Fields(p)[i + 1] = Body(p)[i]
<1> DEFINE head == Field(Header, TypeCode(p.type))
           body == Body(p)
<1>1. TypeCode(p.type) \in {101, 102, 110, 114, 203, 207, 208, 209, 211, 213}
  BY DEF Packets, TypeCode
<1>2. head \in FieldType /\ Proper(head)
  <2> DEFINE v == TypeCode(p.type)
  <2>1. v \in Nat /\ v < 65536
    BY <1>1
  <2> HIDE DEF v
  <2>2. v \div 65536 < 65536
    BY <2>1
  <2> QED
    BY <2>1, <2>2 DEF Field, FieldType, Proper, Header, v
<1>3. body \in Seq(FieldType) /\ Fields(p) = <<head>> \o body
  BY BodyType DEF Fields
<1> HIDE DEF head, body
<1>4. <<head>> \in Seq(FieldType) /\ Len(<<head>>) = 1 /\ <<head>>[1] = head
  BY <1>2
<1>5. /\ Fields(p) \in Seq(FieldType)
      /\ Len(Fields(p)) = 1 + Len(body)
      /\ \A i \in 1..1 : Fields(p)[i] = <<head>>[i]
      /\ \A i \in 1..Len(body) : Fields(p)[1 + i] = body[i]
  BY <1>3, <1>4, Joined
<1>6. Len(body) \in Nat
  BY <1>3
<1> QED
  BY <1>2, <1>4, <1>5, <1>6 DEF head, body

\* What arrives is what was encoded, with at most some bytes behind it.
LEMMA TransmitType ==
  ASSUME NEW p \in Packets
  PROVE  /\ Transmit(p) \in Buffers
         /\ Len(Encode(p)) <= Len(Transmit(p))
         /\ \A i \in 1..Len(Encode(p)) : Transmit(p)[i] = Encode(p)[i]
<1> DEFINE s == Encode(p)
           n == Smaller(Trailer, SOCKBUF_SIZE - Len(s))
           zeros == [i \in 1..n |-> 0]
<1>1. s \in Buffers
  <2>1. Fields(p) \in Seq(FieldType) /\ Len(Fields(p)) \in 0..Len(Fields(p))
    BY FieldsType
  <2> QED
    BY <2>1, WrittenDef DEF Encode
<1>2. Transmit(p) = IF FromServer(p) THEN s \o zeros ELSE s
  BY DEF Transmit
<1> HIDE DEF s
<1>3. s \in Seq(Byte) /\ Len(s) \in Nat /\ Len(s) <= SOCKBUF_SIZE /\ SOCKBUF_SIZE \in Nat
  BY <1>1, SizeAssumption DEF Buffers, Streams
<1>4. n \in Nat /\ Len(s) + n <= SOCKBUF_SIZE
  BY <1>3 DEF Smaller, Trailer
<1> HIDE DEF n
<1>5. 0 \in Byte
  BY DEF Byte
<1>6. zeros \in Seq(Byte) /\ Len(zeros) = n
  BY <1>4, <1>5
<1> HIDE DEF zeros
<1>7. /\ s \o zeros \in Seq(Byte) /\ Len(s \o zeros) = Len(s) + n
      /\ \A i \in 1..Len(s) : (s \o zeros)[i] = s[i]
  <2>1. /\ s \o zeros \in Seq(Byte) /\ Len(s \o zeros) = Len(s) + Len(zeros)
        /\ \A i \in 1..Len(s) : (s \o zeros)[i] = s[i]
    BY <1>3, <1>6, Joined
  <2> QED
    BY <1>6, <2>1
<1>8. s \o zeros \in Buffers
  BY <1>4, <1>7 DEF Buffers, Streams
<1> QED
  BY <1>1, <1>2, <1>3, <1>4, <1>7, <1>8 DEF s

\* The bytes behind the type.
Data(raw) == SubSeq(raw, Header + 1, Len(raw))

LEMMA DataType ==
  ASSUME NEW raw \in Buffers
  PROVE  /\ Data(raw) \in Streams /\ Len(Data(raw)) <= SOCKBUF_SIZE
         /\ Header <= Len(raw) =>
              /\ Len(Data(raw)) = Len(raw) - Header
              /\ \A i \in 1..Len(Data(raw)) : Data(raw)[i] = raw[Header + i]
<1>1. raw \in Seq(Byte) /\ Len(raw) \in Nat /\ Len(raw) <= SOCKBUF_SIZE /\ SOCKBUF_SIZE \in Nat /\ Header \in Nat
  BY SizeAssumption DEF Buffers, Streams, Header
<1>2. CASE Header <= Len(raw)
  <2>1. /\ Data(raw) \in Seq(Byte) /\ Len(Data(raw)) = Len(raw) - Header
        /\ \A i \in 1..(Len(raw) - Header) : Data(raw)[i] = raw[Header + i]
    BY <1>1, <1>2, PartOf DEF Data
  <2> QED
    BY <1>1, <2>1 DEF Streams
<1>3. CASE ~(Header <= Len(raw))
  <2> DEFINE n == Len(raw)
             h == Header + 1
  <2>1. h \in Int /\ n \in Int /\ n < h /\ \A i \in h..n : raw[i] \in Byte
    BY <1>1, <1>3
  <2> HIDE DEF n, h
  <2>2. SubSeq(raw, h, n) \in Seq(Byte) /\ Len(SubSeq(raw, h, n)) = 0
    BY <2>1, SubSeqProperties
  <2> QED
    BY <1>1, <1>3, <2>2 DEF Streams, Data, h, n
<1> QED
  BY <1>2, <1>3

LEMMA TimesType ==
  ASSUME NEW n \in Nat, NEW width \in WidthType
  PROVE  /\ Times(n, width) \in Seq(WidthType) /\ Len(Times(n, width)) = n
         /\ \A i \in 1..n : Times(n, width)[i] = width
BY DEF Times

\* The widths of a list: of the count, of n ids and of n names.
ListWidths(n) == <<2>> \o Times(n, 2) \o Times(n, 0)

LEMMA ListWidthsType ==
  ASSUME NEW n \in Nat
  PROVE  /\ ListWidths(n) \in Seq(WidthType) /\ Len(ListWidths(n)) = 1 + 2 * n
         /\ ListWidths(n)[1] = 2
         /\ \A i \in 1..n : ListWidths(n)[1 + i] = 2 /\ ListWidths(n)[(1 + n) + i] = 0
<1> DEFINE ids == Times(n, 2)
           names == Times(n, 0)
<1>1. 2 \in WidthType /\ 0 \in WidthType
  BY DEF WidthType
<1>2. /\ ids \in Seq(WidthType) /\ Len(ids) = n /\ \A i \in 1..n : ids[i] = 2
      /\ names \in Seq(WidthType) /\ Len(names) = n /\ \A i \in 1..n : names[i] = 0
  BY <1>1, TimesType
<1>3. <<2>> \in Seq(WidthType) /\ Len(<<2>>) = 1 /\ <<2>>[1] = 2
  BY <1>1
<1> HIDE DEF ids, names
<1> DEFINE front == <<2>> \o ids
<1>4. /\ front \in Seq(WidthType) /\ Len(front) = 1 + n
      /\ \A i \in 1..1 : front[i] = 2
      /\ \A i \in 1..n : front[1 + i] = 2
  BY <1>2, <1>3, Joined
<1> HIDE DEF front
<1>5. /\ front \o names \in Seq(WidthType)
      /\ Len(front \o names) = (1 + n) + n
      /\ \A i \in 1..(1 + n) : (front \o names)[i] = front[i]
      /\ \A i \in 1..n : (front \o names)[(1 + n) + i] = 0
  <2>1. /\ front \o names \in Seq(WidthType)
        /\ Len(front \o names) = Len(front) + Len(names)
        /\ \A i \in 1..Len(front) : (front \o names)[i] = front[i]
        /\ \A i \in 1..Len(names) : (front \o names)[Len(front) + i] = names[i]
    <3>1. front \in Seq(WidthType) /\ names \in Seq(WidthType)
      BY <1>2, <1>4
    <3> QED
      BY <3>1, Joined
  <2> QED
    BY <1>2, <1>4, <2>1
<1> DEFINE all == front \o names
<1>6. ListWidths(n) = all
  BY DEF ListWidths, ids, names, front
<1> HIDE DEF all
<1>7. 1 \in 1..(1 + n) /\ \A i \in 1..n : 1 + i \in 1..(1 + n)
  OBVIOUS
<1>8. 1 \in 1..1
  OBVIOUS
<1>9. /\ all \in Seq(WidthType) /\ Len(all) = 1 + 2 * n
      /\ all[1] = 2
      /\ \A i \in 1..n : all[1 + i] = 2 /\ all[(1 + n) + i] = 0
  <2>1. all \in Seq(WidthType) /\ Len(all) = (1 + n) + n
    BY <1>5 DEF all
  <2>2. all[1] = 2
    BY <1>4, <1>5, <1>7, <1>8 DEF all
  <2>3. ASSUME NEW i \in 1..n PROVE all[1 + i] = 2 /\ all[(1 + n) + i] = 0
    BY <1>4, <1>5, <1>7 DEF all
  <2> QED
    BY <2>1, <2>2, <2>3
<1> QED
  BY <1>6, <1>9

LEMMA WidthsType ==
  ASSUME NEW b \in Streams, NEW type
  PROVE  ReadInt(b, 0, 2).value \in Nat /\ Widths(type, b) \in Seq(WidthType)
<1> DEFINE n == ReadInt(b, 0, 2).value
<1>1. n \in Nat
  <2>1. ByteAt(b, 0) \in Nat /\ ByteAt(b, 0 + 1) \in Nat
    BY ByteAtType DEF Byte
  <2> QED
    BY <2>1 DEF ReadInt, Read, Weight
<1>2. ListWidths(n) \in Seq(WidthType)
  BY <1>1, ListWidthsType
<1>3. 0 \in WidthType /\ 2 \in WidthType /\ 4 \in WidthType
  BY DEF WidthType
<1>4. /\ <<2>> \in Seq(WidthType) /\ <<4>> \in Seq(WidthType) /\ <<0>> \in Seq(WidthType)
      /\ <<4, 0>> \in Seq(WidthType) /\ <<0, 0>> \in Seq(WidthType) /\ <<>> \in Seq(WidthType)
  BY <1>3
<1>5. Widths(type, b) \in {<<2>>, <<4>>, <<0>>, <<4, 0>>, <<0, 0>>, <<>>, ListWidths(n)}
  BY DEF Widths, ListWidths
<1> HIDE DEF n
<1> QED
  BY <1>1, <1>2, <1>4, <1>5 DEF n

\* Decode knows the widths of what was encoded, once it has read how long a list is.
LEMMA WidthsOfBody ==
  ASSUME NEW p \in Packets, NEW b \in Streams,
         p.type = "S_LOBBY_ROOM_INFO" => ReadInt(b, 0, 2).value = Body(p)[1].value
  PROVE  LET ws == Widths(TypeCode(p.type), b)
         IN  Len(ws) = Len(Body(p)) /\ \A i \in 1..Len(ws) : ws[i] = Body(p)[i].width
<1> DEFINE ws == Widths(TypeCode(p.type), b)
<1>1. CASE p.type \in {"C_SERVER_EXIT", "S_UNICAST_NO"}
  <2>1. TypeCode(p.type) = 102 \/ TypeCode(p.type) = 213
    <3>1. CASE p.type = "C_SERVER_EXIT"
      BY <3>1 DEF TypeCode
    <3>2. CASE p.type = "S_UNICAST_NO"
      BY <3>2 DEF TypeCode
    <3> QED
      BY <1>1, <3>1, <3>2
  <2>2. ws = <<>>
    BY <2>1 DEF Widths
  <2>3. Body(p) = <<>>
    BY <1>1 DEF Body
  <2> QED
    BY <2>2, <2>3
<1>2. CASE p.type = "C_ROOM_ENTER"
  <2>1. Body(p) = <<Field(2, p.rid)>> /\ ws = <<2>>
    BY <1>2 DEF Body, Widths, TypeCode
  <2> QED
    BY <2>1 DEF Field
<1>3. CASE p.type = "S_ROOM_ENTER"
  <2>1. Body(p) = <<Field(4, p.uid), Field(0, p.name)>> /\ ws = <<4, 0>>
    BY <1>3 DEF Body, Widths, TypeCode
  <2> QED
    BY <2>1 DEF Field
<1>4. CASE p.type = "C_UNICAST"
  <2>1. Body(p) = <<Field(0, p.recver), Field(0, p.text)>> /\ ws = <<0, 0>>
    BY <1>4 DEF Body, Widths, TypeCode
  <2> QED
    BY <2>1 DEF Field
<1>5. CASE p.type = "S_LOBBY_ROOM_INFO"
  <2> DEFINE n == Len(p.roomId)
             body == Body(p)
  <2>1. /\ n \in Nat /\ Len(body) = 1 + 2 * n /\ body[1] = Field(2, n)
        /\ \A i \in 1..n : body[1 + i].width = 2 /\ body[(1 + n) + i].width = 0
    BY <1>5, ListBody
  <2>2. body[1].value = n /\ body[1].width = 2
    BY <2>1 DEF Field
  <2>3. ws = ListWidths(n)
    BY <1>5, <2>2 DEF Widths, TypeCode, ListWidths
  <2> HIDE DEF n, body, ws
  <2>4. /\ Len(ws) = 1 + 2 * n /\ ws[1] = 2
        /\ \A i \in 1..n : ws[1 + i] = 2 /\ ws[(1 + n) + i] = 0
    BY <2>1, <2>3, ListWidthsType
  <2>5. ASSUME NEW i \in 1..(1 + 2 * n) PROVE ws[i] = body[i].width
    <3>1. CASE i = 1
      BY <2>2, <2>4, <3>1
    <3>2. CASE i \in 2..(1 + n)
      <4> DEFINE j == i - 1
      <4>1. j \in 1..n /\ i = 1 + j
        BY <2>1, <3>2
      <4> HIDE DEF j
      <4> QED
        BY <2>1, <2>4, <4>1
    <3>3. CASE i \in (2 + n)..(1 + 2 * n)
      <4> DEFINE j == i - (1 + n)
      <4>1. j \in 1..n /\ i = (1 + n) + j
        BY <2>1, <3>3
      <4> HIDE DEF j
      <4> QED
        BY <2>1, <2>4, <4>1
    <3> QED
      BY <2>1, <3>1, <3>2, <3>3
  <2> QED
    BY <2>1, <2>4, <2>5 DEF ws, body
<1>6. CASE p.type = "C_SERVER_ENTER"
  <2>1. Body(p) = <<Field(0, p.nickname)>> /\ ws = <<0>>
    BY <1>6 DEF Body, Widths, TypeCode
  <2> QED
    BY <2>1 DEF Field
<1>7. CASE p.type = "S_ROOM_NAME"
  <2>1. Body(p) = <<Field(0, p.roomName)>> /\ ws = <<0>>
    BY <1>7 DEF Body, Widths, TypeCode
  <2> QED
    BY <2>1 DEF Field
<1>8. CASE p.type = "S_ROOM_EXIT"
  <2>1. Body(p) = <<Field(4, p.uid)>> /\ ws = <<4>>
    BY <1>8 DEF Body, Widths, TypeCode
  <2> QED
    BY <2>1 DEF Field
<1>9. CASE p.type = "S_MULTICAST"
  <2>1. Body(p) = <<Field(0, p.nickname), Field(0, p.text)>> /\ ws = <<0, 0>>
    BY <1>9 DEF Body, Widths, TypeCode
  <2> QED
    BY <2>1 DEF Field
<1> QED
  BY <1>1, <1>2, <1>3, <1>4, <1>5, <1>6, <1>7, <1>8, <1>9 DEF Packets

\* A packet that fits, with no empty string in it, is decoded as it was encoded.
LEMMA Decoded ==
  ASSUME NEW p \in Packets, Length(p) <= SOCKBUF_SIZE, \A i \in 1..Len(Body(p)) : Body(p)[i].width = 0 => Body(p)[i].value # <<>>
  PROVE  LET got == GetPacket(Transmit(p))
         IN  /\ got.code = TypeCode(p.type)
             /\ got.values = [i \in DOMAIN Body(p) |-> Body(p)[i].value]
             /\ \A i \in DOMAIN got.reach : got.reach[i] <= got.data
<1> DEFINE fs == Fields(p)
           body == Body(p)
           m == Len(body)
           raw == Transmit(p)
           s == Encode(p)
           e == Extent(fs)
           b == Data(raw)
           type == ReadInt(raw, 0, Header).value
           ws == Widths(type, b)
           reads == ReadFields(b, ws)
           got == GetPacket(raw)
<1>1. /\ fs \in Seq(FieldType) /\ Len(fs) = m + 1 /\ m \in Nat
      /\ fs[1] = Field(Header, TypeCode(p.type)) /\ Proper(fs[1])
      /\ \A i \in 1..m : fs[i + 1] = body[i]
      /\ body \in Seq(FieldType) /\ \A i \in 1..m : Counted(body[i])
  <2> HIDE DEF raw, s, e, b, type, ws, reads, got
  <2>1. body \in Seq(FieldType) /\ \A i \in 1..m : Counted(body[i])
    BY BodyType
  <2>2. m \in Nat
    BY <2>1
  <2>3. /\ fs \in Seq(FieldType) /\ Len(fs) = m + 1
        /\ fs[1] = Field(Header, TypeCode(p.type)) /\ Proper(fs[1])
        /\ \A i \in 1..m : fs[i + 1] = body[i]
    BY FieldsType
  <2> QED
    BY <2>1, <2>2, <2>3
<1>2. /\ raw \in Buffers /\ Len(s) <= Len(raw) /\ \A i \in 1..Len(s) : raw[i] = s[i]
  BY TransmitType
<1>3. e[Len(fs)] <= SOCKBUF_SIZE
  BY DEF Length
<1>4. /\ s \in Streams /\ Len(s) = e[Len(fs)]
      /\ \A i \in 1..Len(fs) : \A k \in 1..Bytes(fs[i]) : s[e[i - 1] + k] = FieldBytes(fs[i])[k]
  BY <1>1, <1>3, WrittenInLine DEF Encode
<1>5. /\ e \in [0..(m + 1) -> Nat] /\ e[0] = 0 /\ \A i \in 1..(m + 1) : e[i] = e[i - 1] + Bytes(fs[i])
      /\ \A i \in 0..(m + 1) : \A j \in i..(m + 1) : e[i] <= e[j]
  BY <1>1, ExtentDef, ExtentGrows
<1>6. \A i \in 1..m : body[i].width = 0 => body[i].value # <<>>
  OBVIOUS
<1>7. got = [code |-> type, widths |-> ws, values |-> [i \in DOMAIN ws |-> reads[i].value],
             reach |-> [i \in DOMAIN ws |-> reads[i].last + 1], data |-> Len(b)]
  BY DEF GetPacket, Data
<1> HIDE DEF fs, raw, s, e, b, body, m
<1>8. \A i \in 1..(m + 1) : fs[i] \in FieldType /\ Bytes(fs[i]) \in Nat /\ Proper(fs[i])
  <2>1. \A i \in 1..(m + 1) : fs[i] \in FieldType /\ Bytes(fs[i]) \in Nat
    BY <1>1, FieldBytesType
  <2>2. ASSUME NEW i \in 1..(m + 1), i # 1 PROVE Proper(fs[i])
    <3>1. i - 1 \in 1..m /\ (i - 1) + 1 = i
      BY <1>1, <2>2
    <3>2. fs[i] = body[i - 1] /\ Counted(body[i - 1]) /\ (body[i - 1].width = 0 => body[i - 1].value # <<>>)
      BY <1>1, <1>6, <3>1
    <3> QED
      BY <3>2 DEF Counted, Proper
  <2> QED
    BY <1>1, <2>1, <2>2
<1>9. raw \in Streams /\ Len(raw) \in Nat /\ Len(raw) <= SOCKBUF_SIZE
  BY <1>2 DEF Buffers, Streams
<1>10. /\ e[1] = Header /\ Bytes(fs[1]) = Header /\ Header = 4 /\ 1 \in 1..(m + 1)
       /\ fs[1].width = Header /\ fs[1].value = TypeCode(p.type)
  <2>1. 1 \in 1..(m + 1) /\ 1 - 1 = 0 /\ Header = 4
    BY <1>1 DEF Header
  <2>2. fs[1].width = Header /\ fs[1].value = TypeCode(p.type)
    BY <1>1 DEF Field
  <2>3. Bytes(fs[1]) = Header
    BY <2>1, <2>2 DEF Bytes
  <2>4. e[1] = e[0] + Bytes(fs[1])
    BY <1>5, <2>1
  <2>5. e[1] = Header
    BY <1>5, <2>1, <2>3, <2>4
  <2> QED
    BY <2>1, <2>2, <2>3, <2>5
<1>11. e[m + 1] = Len(s) /\ Len(s) \in Nat /\ 4 <= Len(s)
  <2>1. 1 \in 0..(m + 1) /\ m + 1 \in 1..(m + 1)
    BY <1>1
  <2>2. e[1] <= e[m + 1]
    BY <1>5, <2>1
  <2> QED
    BY <1>1, <1>4, <1>10, <2>2 DEF Streams
<1>12. \A i \in 1..(m + 1) : \A k \in 1..Bytes(fs[i]) : raw[e[i - 1] + k] = FieldBytes(fs[i])[k]
  <2> SUFFICES ASSUME NEW i \in 1..(m + 1), NEW k \in 1..Bytes(fs[i])
               PROVE  raw[e[i - 1] + k] = FieldBytes(fs[i])[k]
    OBVIOUS
  <2>1. e[i - 1] \in Nat /\ Bytes(fs[i]) \in Nat /\ e[i] <= e[m + 1] /\ e[i] = e[i - 1] + Bytes(fs[i])
    <3>1. i - 1 \in 0..(m + 1) /\ i \in 0..(m + 1) /\ m + 1 \in i..(m + 1)
      BY <1>1
    <3> QED
      BY <1>5, <1>8, <3>1
  <2> DEFINE pos == e[i - 1]
             n == Bytes(fs[i])
  <2>2. pos + k \in 1..Len(s)
    <3>1. pos \in Nat /\ n \in Nat /\ k \in 1..n /\ pos + n <= Len(s) /\ Len(s) \in Nat
      BY <1>11, <2>1
    <3> HIDE DEF pos, n
    <3> QED
      BY <3>1
  <2>3. s[pos + k] = FieldBytes(fs[i])[k]
    BY <1>1, <1>4
  <2> QED
    BY <1>2, <2>2, <2>3
<1>13. type = TypeCode(p.type)
  <2> DEFINE f == fs[1]
  <2>1. /\ f \in FieldType /\ f.width # 0 /\ Proper(f) /\ f.width = Header /\ f.value = TypeCode(p.type)
        /\ 0 + Bytes(f) <= Len(raw)
    BY <1>2, <1>8, <1>9, <1>10, <1>11
  <2>2. \A k \in 1..Bytes(f) : raw[0 + k] = FieldBytes(f)[k]
    BY <1>5, <1>10, <1>12
  <2> HIDE DEF f
  <2>3. ReadInt(raw, 0, f.width) = Read(f.value, 0 + Bytes(f) - 1, 0 + Bytes(f))
    BY <1>9, <2>1, <2>2, ReadsInt
  <2> QED
    BY <2>1, <2>3 DEF Read
<1>14. /\ b \in Streams /\ Len(b) <= SOCKBUF_SIZE /\ Len(b) = Len(raw) - 4
       /\ \A i \in 1..Len(b) : b[i] = raw[4 + i]
  BY <1>2, <1>9, <1>10, <1>11, DataType DEF b
<1>15. Len(b) \in Nat
  BY <1>14 DEF Streams
<1>16. \A i \in 2..(m + 1) : \A k \in 1..Bytes(fs[i]) : b[e[i - 1] - Header + k] = FieldBytes(fs[i])[k]
  <2> SUFFICES ASSUME NEW i \in 2..(m + 1), NEW k \in 1..Bytes(fs[i])
               PROVE  b[e[i - 1] - Header + k] = FieldBytes(fs[i])[k]
    OBVIOUS
  <2> DEFINE pos == e[i - 1]
             n == Bytes(fs[i])
  <2>1. i \in 1..(m + 1) /\ 1 \in 0..(m + 1) /\ i - 1 \in 1..(m + 1) /\ i - 1 \in 0..(m + 1) /\ i \in 0..(m + 1) /\ m + 1 \in i..(m + 1)
    BY <1>1
  <2>2. pos \in Nat /\ n \in Nat /\ e[i] <= e[m + 1] /\ e[i] = pos + n /\ e[1] <= pos
    BY <1>5, <1>8, <2>1
  <2>3. raw[pos + k] = FieldBytes(fs[i])[k]
    BY <1>12, <2>1
  <2>4. (pos - 4) + k \in 1..Len(b) /\ 4 + ((pos - 4) + k) = pos + k
    <3>1. /\ pos \in Nat /\ n \in Nat /\ k \in 1..n /\ pos + n <= Len(raw) /\ Len(raw) \in Nat
          /\ 4 <= pos /\ Len(b) = Len(raw) - 4
      BY <1>2, <1>9, <1>10, <1>11, <1>14, <2>2
    <3> HIDE DEF pos, n
    <3> QED
      BY <3>1
  <2> DEFINE at == (pos - 4) + k
  <2> HIDE DEF pos, n
  <2>5. b[at] = raw[4 + at]
    BY <1>14, <2>4
  <2>6. pos - Header + k = at
    BY <1>10
  <2> QED
    BY <2>3, <2>4, <2>5, <2>6 DEF pos
<1>17. p.type = "S_LOBBY_ROOM_INFO" => ReadInt(b, 0, 2).value = body[1].value
  <2> SUFFICES ASSUME p.type = "S_LOBBY_ROOM_INFO" PROVE ReadInt(b, 0, 2).value = body[1].value
    OBVIOUS
  <2> DEFINE f == fs[2]
  <2>1. m >= 1 /\ body[1].width = 2
    <3>1. PICK n \in Nat : Len(Body(p)) = 1 + 2 * n /\ Body(p)[1] = Field(2, n)
      BY ListBody
    <3>2. Len(Body(p)) >= 1
      BY <3>1
    <3> QED
      BY <3>1, <3>2 DEF body, m, Field
  <2>2. 2 \in 2..(m + 1) /\ 2 \in 1..(m + 1) /\ 2 - 1 = 1 /\ 1 \in 1..m /\ 1 + 1 = 2 /\ m + 1 \in 2..(m + 1) /\ 2 \in 0..(m + 1)
    BY <1>1, <2>1
  <2>3. f = body[1] /\ f \in FieldType /\ Proper(f) /\ Bytes(f) \in Nat
    BY <1>1, <1>8, <2>2
  <2>4. e[2] <= e[m + 1] /\ e[2] = e[1] + Bytes(f) /\ e[2] \in Nat
    BY <1>5, <2>2
  <2>5. 0 + Bytes(f) <= Len(b)
    BY <1>2, <1>9, <1>10, <1>11, <1>14, <2>3, <2>4
  <2>6. \A k \in 1..Bytes(f) : b[0 + k] = FieldBytes(f)[k]
    <3>1. \A k \in 1..Bytes(f) : b[e[1] - Header + k] = FieldBytes(f)[k]
      BY <1>16, <2>2
    <3>2. e[1] - Header = 0
      BY <1>10
    <3> QED
      BY <3>1, <3>2
  <2> HIDE DEF f
  <2>7. f.width # 0 /\ 0 \in Nat
    BY <2>1, <2>3
  <2>8. ReadInt(b, 0, f.width) = Read(f.value, 0 + Bytes(f) - 1, 0 + Bytes(f))
    BY <1>14, <2>3, <2>5, <2>6, <2>7, ReadsInt
  <2> QED
    BY <2>1, <2>3, <2>8 DEF Read
<1> HIDE DEF type, ws, got
<1>18. ws = Widths(TypeCode(p.type), b)
  BY <1>13 DEF ws
<1>19. ws \in Seq(WidthType)
  BY <1>14, <1>18, WidthsType
<1>20. Len(ws) = m /\ \A i \in 1..Len(ws) : ws[i] = body[i].width
  BY <1>14, <1>17, <1>18, WidthsOfBody DEF body, m
<1>21. Len(ws) = Len(fs) - 1 /\ \A i \in 1..Len(ws) : ws[i] = fs[i + 1].width
  <2>1. Len(ws) = Len(fs) - 1
    BY <1>1, <1>20
  <2>2. ASSUME NEW i \in 1..m PROVE ws[i] = fs[i + 1].width
    BY <1>1, <1>20
  <2> QED
    BY <1>20, <2>1, <2>2
<1>22. e[Len(fs)] <= Len(b) + Header
  BY <1>1, <1>2, <1>9, <1>10, <1>11, <1>14
<1>23. \A i \in 1..Len(ws) : reads[i].value = fs[i + 1].value /\ reads[i].last + 1 <= Len(b)
  <2>1. /\ fs \in Seq(FieldType) /\ fs # <<>> /\ Bytes(fs[1]) = Header
        /\ \A i \in 1..Len(fs) : Proper(fs[i])
    BY <1>1, <1>8, <1>10
  <2>2. Extent(fs)[Len(fs)] <= Len(b) + Header
    BY <1>22 DEF e
  <2>3. \A i \in 2..Len(fs) : \A k \in 1..Bytes(fs[i]) : b[Extent(fs)[i - 1] - Header + k] = FieldBytes(fs[i])[k]
    BY <1>1, <1>16 DEF e
  <2> QED
    BY <1>14, <1>19, <1>21, <2>1, <2>2, <2>3, ReadsFields
<1> HIDE DEF reads
<1>24. DOMAIN ws = 1..m /\ DOMAIN body = 1..m
  BY <1>1, <1>19, <1>20 DEF m
<1>25. got.code = TypeCode(p.type) /\ got.data = Len(b)
  BY <1>7, <1>13
<1>26. got.values = [i \in DOMAIN body |-> body[i].value]
  <2>1. got.values = [i \in 1..m |-> reads[i].value]
    BY <1>7, <1>24
  <2>2. \A i \in 1..m : reads[i].value = body[i].value
    BY <1>1, <1>20, <1>23
  <2> QED
    BY <1>24, <2>1, <2>2
<1>27. \A i \in DOMAIN got.reach : got.reach[i] <= got.data
  <2>1. got.reach = [i \in 1..m |-> reads[i].last + 1]
    BY <1>7, <1>24
  <2> QED
    BY <1>20, <1>23, <1>25, <2>1
<1> QED
  BY <1>25, <1>26, <1>27 DEF got, raw, body

\* No string of what is decoded is empty, whatever was received.
LEMMA DecodedNotEmpty ==
  ASSUME NEW raw \in Buffers
  PROVE  LET got == GetPacket(raw) IN ~HasEmpty(got.values, got.widths)
<1> DEFINE b == Data(raw)
           type == ReadInt(raw, 0, Header).value
           ws == Widths(type, b)
           reads == ReadFields(b, ws)
           got == GetPacket(raw)
<1>1. got.widths = ws /\ got.values = [i \in DOMAIN ws |-> reads[i].value]
  BY DEF GetPacket, Data
<1>2. b \in Streams
  BY DataType
<1>3. ws \in Seq(WidthType)
  BY <1>2, WidthsType
<1> HIDE DEF b, ws, reads, got
<1>4. \A i \in 1..Len(ws) : ws[i] = 0 => reads[i].value # <<>>
  BY <1>2, <1>3, NoneEmpty DEF reads
<1>5. DOMAIN ws = 1..Len(ws)
  BY <1>3
<1>6. DOMAIN got.values = 1..Len(ws) /\ \A i \in 1..Len(ws) : got.values[i] = reads[i].value
  BY <1>1, <1>5
<1> QED
  BY <1>1, <1>4, <1>6 DEF HasEmpty, got

-----------------------------------------------------------------------------
(* The specification.                                                       *)

\* Nothing is on its way, or what arrives is what was sent, and what was received
\* is made of it.
IInv ==
  \/ Init
  \/ /\ packet \in Packets
     /\ buffer = Transmit(packet)
     /\ received \in {None, GetPacket(buffer)}

LEMMA Sending == IInv /\ [Next]_vars => IInv'
<1> SUFFICES ASSUME IInv, [Next]_vars PROVE IInv'
  OBVIOUS
<1>1. \A p \in Packets : p # None
  BY DEF Packets, None
<1>2. CASE Send
  BY <1>1, <1>2 DEF IInv, Init, Send
<1>3. CASE Recv
  BY <1>3 DEF IInv, Init, Recv
<1>4. CASE Forget
  BY <1>4 DEF IInv, Init, Forget
<1>5. CASE UNCHANGED vars
  BY <1>5 DEF IInv, Init, vars
<1> QED
  BY <1>2, <1>3, <1>4, <1>5 DEF Next

LEMMA ReceivedAsSent == IInv => RoundTrip
<1> SUFFICES ASSUME IInv, received # None PROVE RoundTrip
  BY DEF RoundTrip
<1>1. packet \in Packets /\ received = GetPacket(Transmit(packet))
  BY DEF IInv, Init
<1>2. ~HasEmpty(received.values, received.widths)
  <2>1. Transmit(packet) \in Buffers
    BY <1>1, TransmitType
  <2> QED
    BY <1>1, <2>1, DecodedNotEmpty
<1>3. ASSUME Length(packet) <= SOCKBUF_SIZE, ~HasEmpty(Sent, SentWidths)
      PROVE  /\ received.code = TypeCode(packet.type)
             /\ received.values = Sent
             /\ \A i \in DOMAIN received.reach : received.reach[i] <= received.data
  <2> DEFINE body == Body(packet)
  <2>1. body \in Seq(FieldType)
    BY <1>1, BodyType
  <2>2. Sent = [i \in DOMAIN body |-> body[i].value] /\ SentWidths = [i \in DOMAIN body |-> body[i].width]
    BY DEF Sent, SentWidths
  <2>3. \A i \in 1..Len(body) : body[i].width = 0 => body[i].value # <<>>
    <3> HIDE DEF body
    <3>1. DOMAIN body = 1..Len(body)
      BY <2>1
    <3> QED
      BY <1>3, <2>2, <3>1 DEF HasEmpty
  <2> QED
    BY <1>1, <1>3, <2>2, <2>3, Decoded
<1> QED
  BY <1>2, <1>3 DEF RoundTrip

\* What fits a Stream and carries no empty string is received as it was sent,
\* and decoding looks at nothing behind it; no string is ever read empty: for
\* every size of the buffer, every set of strings and every list of rooms.
THEOREM RoundTripAlways == Spec => []RoundTrip
<1>1. Init => IInv
  BY DEF IInv
<1> QED
  BY <1>1, Sending, ReceivedAsSent, PTL DEF Spec
=============================================================================
