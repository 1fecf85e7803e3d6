---------------------------- MODULE ByteSequences ----------------------------
(***************************************************************************)
(* Sequences of numbered bytes, as the input streams of the ports and of   *)
(* the mock pair cut them, glue them together and drop a part of them.     *)
(***************************************************************************)
EXTENDS Integers, Sequences, SequenceTheorems, TLAPS

ElementsOf(s) == {s[i] : i \in 1..Len(s)}

\* The elements of a concatenation.
LEMMA ConcatElements ==
  ASSUME NEW a \in Seq(Nat), NEW b \in Seq(Nat)
  PROVE  ElementsOf(a \o b) = ElementsOf(a) \cup ElementsOf(b)
<1>1. ASSUME NEW x \in ElementsOf(a \o b) PROVE x \in ElementsOf(a) \cup ElementsOf(b)
  <2>1. PICK i \in 1..Len(a \o b) : x = (a \o b)[i]
    BY DEF ElementsOf
  <2>2. /\ i \in 1..(Len(a) + Len(b))
        /\ x = IF i <= Len(a) THEN a[i] ELSE b[i - Len(a)]
    BY <2>1, ConcatProperties
  <2>3. CASE i <= Len(a)
    BY <2>2, <2>3 DEF ElementsOf
  <2>4. CASE i > Len(a)
    <3>1. i - Len(a) \in 1..Len(b) /\ x = b[i - Len(a)]
      BY <2>2, <2>4
    <3> QED
      BY <3>1 DEF ElementsOf
  <2> QED
    BY <2>2, <2>3, <2>4
<1>2. ASSUME NEW x \in ElementsOf(a) PROVE x \in ElementsOf(a \o b)
  <2>1. PICK i \in 1..Len(a) : x = a[i]
    BY DEF ElementsOf
  <2>2. i \in 1..Len(a \o b) /\ (a \o b)[i] = a[i]
    BY <2>1, ConcatProperties
  <2> QED
    BY <2>1, <2>2 DEF ElementsOf
<1>3. ASSUME NEW x \in ElementsOf(b) PROVE x \in ElementsOf(a \o b)
  <2>1. PICK i \in 1..Len(b) : x = b[i]
    BY DEF ElementsOf
  <2>2. i + Len(a) \in 1..Len(a \o b) /\ (a \o b)[i + Len(a)] = b[i]
    BY <2>1, ConcatProperties
  <2> QED
    BY <2>1, <2>2 DEF ElementsOf
<1> QED
  BY <1>1, <1>2, <1>3

\* Cutting a sequence in two and gluing it together gives it back.
LEMMA CutAndGlue ==
  ASSUME NEW s \in Seq(Nat), NEW k \in Nat, k <= Len(s)
  PROVE  /\ SubSeq(s, 1, k) \in Seq(Nat)
         /\ SubSeq(s, k + 1, Len(s)) \in Seq(Nat)
         /\ SubSeq(s, 1, k) \o SubSeq(s, k + 1, Len(s)) = s
<1>1. Len(s) \in Nat /\ \A i \in 1..Len(s) : s[i] \in Nat
  OBVIOUS
<1>2. SubSeq(s, 1, k) \in Seq(Nat)
  <2>1. \A i \in 1..k : s[i] \in Nat
    BY <1>1
  <2> QED
    BY <2>1, SubSeqProperties
<1>3. SubSeq(s, k + 1, Len(s)) \in Seq(Nat)
  <2>1. \A i \in (k + 1)..Len(s) : s[i] \in Nat
    BY <1>1
  <2>2. k + 1 \in Int /\ Len(s) \in Int
    BY <1>1
  <2> QED
    BY <2>1, <2>2, SubSeqProperties
<1>4. SubSeq(s, 1, k) \o SubSeq(s, k + 1, Len(s)) = SubSeq(s, 1, Len(s))
  <2>1. /\ 1 \in 1..(Len(s) + 1) /\ k \in (1 - 1)..Len(s)
        /\ Len(s) \in k..Len(s)
    BY <1>1
  <2> QED
    BY <2>1, ConcatAdjacentSubSeq, Zenon
<1>5. SubSeq(s, 1, Len(s)) = s
  BY SubSeqFull
<1> QED
  BY <1>2, <1>3, <1>4, <1>5

\* Concatenation is associative.
LEMMA GlueAssociative ==
  ASSUME NEW s \in Seq(Nat), NEW u \in Seq(Nat), NEW v \in Seq(Nat)
  PROVE  (s \o u) \o v = s \o (u \o v)
BY ConcatAssociative, SMTT(60)

\* The elements of a sequence with one more element.
LEMMA AppendElements ==
  ASSUME NEW s \in Seq(Nat), NEW x \in Nat
  PROVE  ElementsOf(Append(s, x)) = ElementsOf(s) \cup {x}
<1>1. /\ Len(Append(s, x)) = Len(s) + 1
      /\ \A i \in 1..Len(s) : Append(s, x)[i] = s[i]
      /\ Append(s, x)[Len(s) + 1] = x
  BY AppendProperties
<1>2. ASSUME NEW y \in ElementsOf(Append(s, x)) PROVE y \in ElementsOf(s) \cup {x}
  <2>1. PICK i \in 1..(Len(s) + 1) : y = Append(s, x)[i]
    BY <1>1 DEF ElementsOf
  <2> QED
    BY <1>1, <2>1 DEF ElementsOf
<1>3. ASSUME NEW y \in ElementsOf(s) PROVE y \in ElementsOf(Append(s, x))
  <2>1. PICK i \in 1..Len(s) : y = s[i]
    BY DEF ElementsOf
  <2>2. i \in 1..Len(Append(s, x)) /\ Append(s, x)[i] = y
    BY <1>1, <2>1
  <2> QED
    BY <2>2 DEF ElementsOf
<1>4. x \in ElementsOf(Append(s, x))
  <2>1. Len(s) + 1 \in 1..Len(Append(s, x))
    BY <1>1
  <2> QED
    BY <1>1, <2>1 DEF ElementsOf
<1> QED
  BY <1>2, <1>3, <1>4

\* The first and the second part of a concatenation.
LEMMA Parts ==
  ASSUME NEW a \in Seq(Nat), NEW b \in Seq(Nat)
  PROVE  /\ a \o b \in Seq(Nat) /\ Len(a \o b) = Len(a) + Len(b)
         /\ SubSeq(a \o b, 1, Len(a)) = a
         /\ SubSeq(a \o b, Len(a) + 1, Len(a \o b)) = b
<1>1. a \o b \in Seq(Nat) /\ Len(a \o b) = Len(a) + Len(b)
  BY ConcatProperties
<1>2. Len(a) \in Nat /\ Len(b) \in Nat
  OBVIOUS
<1>3. SubSeq(a \o b, 1, Len(a)) = a
  <2>1. CASE Len(a) = 0
    BY <2>1, SubSeqEmpty
  <2>2. CASE Len(a) # 0
    <3>1. 1 \in 1..Len(a) /\ Len(a) \in 1..Len(a)
      BY <1>2, <2>2
    <3>2. SubSeq(a \o b, 1, Len(a)) = SubSeq(a, 1, Len(a))
      BY <3>1, SubSeqOfConcat1, Zenon
    <3> QED
      BY <3>2, SubSeqFull, Zenon
  <2> QED
    BY <2>1, <2>2
<1>4. SubSeq(a \o b, Len(a) + 1, Len(a \o b)) = b
  <2>1. CASE Len(b) = 0
    <3>1. Len(a) + 1 \in Int /\ Len(a \o b) \in Int /\ Len(a \o b) < Len(a) + 1
      BY <1>1, <1>2, <2>1
    <3>2. SubSeq(a \o b, Len(a) + 1, Len(a \o b)) = <<>>
      BY <3>1, SubSeqEmpty, Zenon
    <3>3. b = <<>>
      BY <2>1
    <3> QED
      BY <3>2, <3>3
  <2>2. CASE Len(b) # 0
    <3>1. PICK m, n : m = Len(a) + 1 /\ n = Len(a) + Len(b)
      OBVIOUS
    <3>2. m \in Len(a)+1 .. Len(a)+Len(b) /\ n \in Len(a)+1 .. Len(a)+Len(b)
      BY <1>2, <2>2, <3>1
    <3>3. SubSeq(a \o b, m, n) = SubSeq(b, m - Len(a), n - Len(a))
      BY <3>2, SubSeqOfConcat2, Zenon
    <3>4. m - Len(a) = 1 /\ n - Len(a) = Len(b)
      BY <1>2, <3>1
    <3> QED
      BY <1>1, <3>1, <3>3, <3>4, SubSeqFull
  <2> QED
    BY <2>1, <2>2
<1> QED
  BY <1>1, <1>3, <1>4

\* rest is s without the elements gone, which are neighbours.
CutsOut(s, rest, gone) ==
  \E i, j \in 1..Len(s) :
    /\ i <= j
    /\ rest = SubSeq(s, 1, i - 1) \o SubSeq(s, j + 1, Len(s))
    /\ gone = {s[n] : n \in i..j}

\* What the loss of the middle part leaves.
LEMMA MiddleLost ==
  ASSUME NEW a \in Seq(Nat), NEW m \in Seq(Nat), NEW z \in Seq(Nat), m # <<>>,
         NEW s \in Seq(Nat), s = a \o (m \o z)
  PROVE  CutsOut(s, a \o z, ElementsOf(m))
<1> DEFINE w == m \o z
           v == a \o m
<1>1. w \in Seq(Nat) /\ v \in Seq(Nat) /\ Len(a) \in Nat /\ Len(m) \in Nat /\ Len(z) \in Nat
  BY ConcatProperties
<1>2. Len(m) > 0
  OBVIOUS
<1>3. /\ Len(w) = Len(m) + Len(z) /\ Len(v) = Len(a) + Len(m)
      /\ \A n \in 1..(Len(m) + Len(z)) : w[n] = IF n <= Len(m) THEN m[n] ELSE z[n - Len(m)]
  BY ConcatProperties
<1>4. a \o w = v \o z
  BY GlueAssociative, Zenon
<1>5. s = a \o w
  OBVIOUS
<1> HIDE DEF w, v
<1>6. /\ Len(s) = Len(a) + Len(w) /\ SubSeq(s, 1, Len(a)) = a
      /\ \A n \in 1..(Len(a) + Len(w)) : s[n] = IF n <= Len(a) THEN a[n] ELSE w[n - Len(a)]
  BY <1>1, <1>5, ConcatProperties, Parts
<1>7. SubSeq(s, Len(v) + 1, Len(s)) = z
  BY <1>1, <1>4, <1>5, Parts
<1>8. PICK i, j : i = Len(a) + 1 /\ j = Len(a) + Len(m)
  OBVIOUS
<1>14. Len(s) = Len(a) + (Len(m) + Len(z)) /\ Len(v) = Len(a) + Len(m)
  BY <1>3, <1>6
<1>9. i \in 1..Len(s) /\ j \in 1..Len(s) /\ i <= j /\ i - 1 = Len(a) /\ j = Len(v)
  <2>1. PICK x \in Nat, y \in Nat, u \in Nat : x = Len(a) /\ y = Len(m) /\ u = Len(z)
    BY <1>1
  <2>2. y > 0 /\ i = x + 1 /\ j = x + y /\ Len(s) = x + (y + u) /\ Len(v) = x + y
    BY <1>2, <1>8, <1>14, <2>1
  <2>3. i \in 1..(x + (y + u)) /\ j \in 1..(x + (y + u)) /\ i <= j /\ i - 1 = x
    BY <2>2
  <2> QED
    BY <2>1, <2>2, <2>3
<1>10. a \o z = SubSeq(s, 1, i - 1) \o SubSeq(s, j + 1, Len(s))
  BY <1>6, <1>7, <1>9
<1>11. ASSUME NEW n \in 1..Len(m)
       PROVE  Len(a) + n \in i..j /\ s[Len(a) + n] = m[n]
  <2>1. /\ Len(a) + n \in i..j /\ Len(a) + n \in 1..(Len(a) + Len(w))
        /\ ~(Len(a) + n <= Len(a)) /\ (Len(a) + n) - Len(a) = n
        /\ n \in 1..(Len(m) + Len(z)) /\ n <= Len(m)
    <3>1. PICK x \in Nat, y \in Nat, u \in Nat : x = Len(a) /\ y = Len(m) /\ u = Len(z)
      BY <1>1
    <3>2. n \in 1..y /\ i = x + 1 /\ j = x + y /\ Len(w) = y + u
      BY <1>3, <1>8, <3>1
    <3>3. /\ x + n \in i..j /\ x + n \in 1..(x + (y + u)) /\ ~(x + n <= x)
          /\ (x + n) - x = n /\ n \in 1..(y + u) /\ n <= y
      BY <3>2
    <3> QED
      BY <3>1, <3>2, <3>3
  <2> QED
    BY <1>3, <1>6, <2>1
<1>12. ElementsOf(m) = {s[n] : n \in i..j}
  <2>1. ASSUME NEW x \in ElementsOf(m) PROVE x \in {s[n] : n \in i..j}
    <3>1. PICK n \in 1..Len(m) : x = m[n]
      BY <2>1 DEF ElementsOf
    <3> QED
      BY <1>11, <3>1
  <2>2. ASSUME NEW n \in i..j PROVE s[n] \in ElementsOf(m)
    <3>1. n - Len(a) \in 1..Len(m) /\ Len(a) + (n - Len(a)) = n
      BY <1>1, <1>8, <2>2
    <3>2. s[n] = m[n - Len(a)]
      BY <1>11, <3>1
    <3> QED
      BY <3>1, <3>2 DEF ElementsOf
  <2> QED
    BY <2>1, <2>2
<1> QED
  BY <1>9, <1>10, <1>12, Zenon DEF CutsOut
=============================================================================
