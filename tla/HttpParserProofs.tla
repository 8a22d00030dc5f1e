------------------------- MODULE HttpParserProofs -------------------------
(***************************************************************************)
(* Theorems about HttpParser, for any limits, any messages of HTTP and any *)
(* way of cutting them into segments.                                      *)
(***************************************************************************)
EXTENDS HttpParser, SequenceTheorems, WellFoundedInduction, TLAPS

-----------------------------------------------------------------------------
(***************************************************************************)
(* Sequences                                                               *)
(***************************************************************************)
(* s stands in t behind the first p elements. *)
Stands(t, p, s) == \A j \in 1..Len(s) : t[p + j] = s[j]

LEMMA Upwards == ASSUME NEW S, 0 \in S, \A j \in Nat : j \in S => j + 1 \in S PROVE \A j \in Nat : j \in S
<1> DEFINE T == {j \in Nat : j \notin S}
<1> SUFFICES ASSUME T # {} PROVE FALSE
  OBVIOUS
<1>1. PICK x \in T : \A y \in T : ~(<<y, x>> \in OpToRel(<, Nat))
  BY NatLessThanWellFounded, WFMin
<1>2. \A y \in T : ~(y < x)
  BY <1>1 DEF OpToRel
<1>3. x \in Nat /\ x # 0 /\ x - 1 \in Nat /\ (x - 1) + 1 = x
  OBVIOUS
<1>4. x - 1 \in S
  BY <1>2, <1>3
<1> QED BY <1>3, <1>4

LEMMA Joined ==
  ASSUME NEW S, NEW s \in Seq(S), NEW t \in Seq(S)
  PROVE  /\ s \o t \in Seq(S) /\ Len(s \o t) = Len(s) + Len(t)
         /\ Stands(s \o t, 0, s) /\ Stands(s \o t, Len(s), t)
<1>1. /\ s \o t \in Seq(S) /\ Len(s \o t) = Len(s) + Len(t) /\ Len(s) \in Nat /\ Len(t) \in Nat
      /\ \A i \in 1..(Len(s) + Len(t)) : (s \o t)[i] = IF i <= Len(s) THEN s[i] ELSE t[i - Len(s)]
  BY ConcatProperties, LenProperties
<1> DEFINE w == s \o t
<1> HIDE DEF w
<1>2. ASSUME NEW j \in 1..Len(s) PROVE w[0 + j] = s[j]
  BY <1>1 DEF w
<1>3. ASSUME NEW j \in 1..Len(t) PROVE w[Len(s) + j] = t[j]
  <2>1. Len(s) + j \in 1..(Len(s) + Len(t)) /\ ~(Len(s) + j <= Len(s)) /\ Len(s) + j - Len(s) = j
    BY <1>1
  <2> QED BY <1>1, <2>1 DEF w
<1> QED BY <1>1, <1>2, <1>3 DEF w, Stands

LEMMA Inner ==
  ASSUME NEW t, NEW p \in Nat, NEW S, NEW s \in Seq(S), NEW q \in Nat, NEW w, Len(w) \in Nat,
         q + Len(w) <= Len(s), Stands(t, p, s), Stands(s, q, w)
  PROVE  Stands(t, p + q, w)
<1>1. ASSUME NEW j \in 1..Len(w) PROVE t[(p + q) + j] = w[j]
  <2>1. q + j \in 1..Len(s) /\ (p + q) + j = p + (q + j)
    BY LenProperties
  <2>2. t[p + (q + j)] = s[q + j] /\ s[q + j] = w[j]
    BY <2>1 DEF Stands
  <2> QED BY <2>1, <2>2
<1> QED BY <1>1 DEF Stands

LEMMA Equal ==
  ASSUME NEW S, NEW s \in Seq(S), NEW t \in Seq(S), Len(s) = Len(t), Stands(s, 0, t) PROVE s = t
<1>1. \A i \in 1..Len(s) : s[i] = t[i]
  BY LenProperties DEF Stands
<1> QED BY <1>1, SeqEqual

(* The first k elements of s. *)
LEMMA Firsts ==
  ASSUME NEW S, NEW s \in Seq(S), NEW k \in 0..Len(s)
  PROVE  /\ SubSeq(s, 1, k) \in Seq(S) /\ Len(SubSeq(s, 1, k)) = k
         /\ \A i \in 1..k : SubSeq(s, 1, k)[i] = s[i]
<1>1. Len(s) \in Nat /\ \A i \in 1..k : s[i] \in S
  BY LenProperties, ElementOfSeq
<1>2. 1 \in Int /\ k \in Int /\ k - 1 + 1 = k /\ \A i \in 1..k : 1 + i - 1 = i
  BY <1>1
<1>3. /\ SubSeq(s, 1, k) \in Seq(S) /\ Len(SubSeq(s, 1, k)) = IF 1 <= k THEN k - 1 + 1 ELSE 0
      /\ \A i \in 1..(k - 1 + 1) : SubSeq(s, 1, k)[i] = s[1 + i - 1]
  BY <1>1, <1>2, SubSeqProperties
<1> QED BY <1>1, <1>2, <1>3

LEMMA FirstsAll == ASSUME NEW S, NEW s \in Seq(S) PROVE SubSeq(s, 1, Len(s)) = s /\ SubSeq(s, 1, 0) = <<>>
<1>1. Len(s) \in 0..Len(s) /\ 0 \in 0..Len(s)
  BY LenProperties
<1>2. SubSeq(s, 1, Len(s)) = s
  BY <1>1, Firsts, SeqEqual
<1>3. SubSeq(s, 1, 0) \in Seq(S) /\ Len(SubSeq(s, 1, 0)) = 0
  BY <1>1, Firsts
<1> QED BY <1>2, <1>3, EmptySeq

(* One element more. *)
LEMMA FirstsGrow ==
  ASSUME NEW S, NEW s \in Seq(S), NEW k \in Nat, k < Len(s)
  PROVE  Append(SubSeq(s, 1, k), s[k + 1]) = SubSeq(s, 1, k + 1)
<1> DEFINE a == SubSeq(s, 1, k)
           b == SubSeq(s, 1, k + 1)
<1>1. Len(s) \in Nat /\ k \in 0..Len(s) /\ k + 1 \in 0..Len(s) /\ k + 1 \in 1..Len(s)
  BY LenProperties
<1>2. a \in Seq(S) /\ Len(a) = k /\ \A i \in 1..k : a[i] = s[i]
  BY <1>1, Firsts
<1>3. b \in Seq(S) /\ Len(b) = k + 1 /\ \A i \in 1..(k + 1) : b[i] = s[i]
  BY <1>1, Firsts
<1>4. s[k + 1] \in S
  BY <1>1, ElementOfSeq
<1> HIDE DEF a, b
<1>5. /\ Append(a, s[k + 1]) \in Seq(S) /\ Len(Append(a, s[k + 1])) = k + 1
      /\ \A i \in 1..k : Append(a, s[k + 1])[i] = a[i]
      /\ Append(a, s[k + 1])[k + 1] = s[k + 1]
  BY <1>2, <1>4, AppendProperties
<1>6. \A i \in 1..(k + 1) : Append(a, s[k + 1])[i] = b[i]
  <2> TAKE i \in 1..(k + 1)
  <2>1. CASE i = k + 1
    BY <1>3, <1>5, <2>1
  <2>2. CASE i # k + 1
    <3>1. i \in 1..k
      BY <2>2
    <3> QED BY <1>2, <1>3, <1>5, <3>1
  <2> QED BY <2>1, <2>2
<1>7. Append(a, s[k + 1]) = b
  BY <1>3, <1>5, <1>6, SeqEqual
<1> QED BY <1>7 DEF a, b

-----------------------------------------------------------------------------
(***************************************************************************)
(* The rows, one behind the other                                          *)
(***************************************************************************)
Flattened(g, ss, n) == g = [i \in 1..n |-> IF i = 1 THEN ss[i] ELSE g[i - 1] \o ss[i]]

LEMMA FlattenExists == ASSUME NEW ss, NEW n \in Nat PROVE \E g : Flattened(g, ss, n)
<1> DEFINE S == {j \in Nat : \E g : Flattened(g, ss, j)}
<1>1. 0 \in S
  <2> DEFINE g == [i \in 1..0 |-> <<>>]
  <2>1. Flattened(g, ss, 0)
    BY DEF Flattened
  <2> QED BY <2>1
<1>2. ASSUME NEW j \in Nat, j \in S PROVE j + 1 \in S
  <2>1. PICK g : Flattened(g, ss, j)
    BY <1>2
  <2>2. \A i \in 1..j : g[i] = IF i = 1 THEN ss[i] ELSE g[i - 1] \o ss[i]
    BY <2>1 DEF Flattened
  <2> DEFINE h == [i \in 1..(j + 1) |-> IF i = 1 THEN ss[i] ELSE g[i - 1] \o ss[i]]
  <2>3. \A i \in 1..j : h[i] = g[i]
    BY <2>2
  <2>4. \A i \in 1..(j + 1) : h[i] = IF i = 1 THEN ss[i] ELSE h[i - 1] \o ss[i]
    <3> TAKE i \in 1..(j + 1)
    <3>1. CASE i = 1
      BY <3>1
    <3>2. CASE i # 1
      <4>1. i - 1 \in 1..j
        BY <3>2
      <4>2. h[i] = g[i - 1] \o ss[i]
        BY <3>2
      <4>3. h[i - 1] = g[i - 1]
        BY <2>3, <4>1
      <4> QED BY <3>2, <4>2, <4>3
    <3> QED BY <3>1, <3>2
  <2>5. h = [i \in 1..(j + 1) |-> h[i]]
    OBVIOUS
  <2> HIDE DEF h
  <2>6. Flattened(h, ss, j + 1)
    BY <2>4, <2>5 DEF Flattened
  <2> QED BY <2>6
<1>3. \A j \in Nat : j \in S
  <2> HIDE DEF S
  <2> QED BY <1>1, <1>2, Upwards
<1> QED BY <1>3

(* fl[i] is the first i sequences of ss in one. *)
Flat(fl, ss) ==
  /\ fl[0] = <<>>
  /\ \A i \in 1..Len(ss) : fl[i] = fl[i - 1] \o ss[i]
  /\ FlattenSeq(ss) = fl[Len(ss)]

LEMMA FlattenIs ==
  ASSUME NEW S, NEW ss \in Seq(Seq(S))
  PROVE  \E fl : Flat(fl, ss) /\ \A i \in 0..Len(ss) : fl[i] \in Seq(S)
<1> DEFINE n == Len(ss)
<1>1. n \in Nat /\ \A i \in 1..n : ss[i] \in Seq(S)
  BY LenProperties, ElementOfSeq
<1>2. CASE n = 0
  <2> DEFINE fl == [i \in 0..0 |-> <<>>]
  <2>1. FlattenSeq(ss) = <<>>
    BY <1>2, EmptySeq DEF FlattenSeq
  <2>2. Flat(fl, ss) /\ \A i \in 0..Len(ss) : fl[i] \in Seq(S)
    BY <1>2, <2>1 DEF Flat
  <2> QED BY <2>2
<1>3. CASE n # 0
  <2> DEFINE g == CHOOSE g : Flattened(g, ss, n)
  <2>1. Flattened(g, ss, n)
    BY <1>1, FlattenExists
  <2>2. FlattenSeq(ss) = g[n]
    BY <1>3 DEF FlattenSeq, Flattened
  <2>3. \A i \in 1..n : g[i] = IF i = 1 THEN ss[i] ELSE g[i - 1] \o ss[i]
    BY <2>1 DEF Flattened
  <2> HIDE DEF g
  <2> DEFINE fl == [i \in 0..n |-> IF i = 0 THEN <<>> ELSE g[i]]
             T == {j \in Nat : j <= n => fl[j] \in Seq(S)}
  <2>4. fl[0] = <<>> /\ \A i \in 1..n : fl[i] = g[i]
    BY <1>1
  <2>5. fl[n] = g[n]
    BY <1>1, <1>3
  <2> HIDE DEF fl
  <2>6. \A i \in 1..n : fl[i] = fl[i - 1] \o ss[i]
    <3> TAKE i \in 1..n
    <3>1. CASE i = 1
      <4>1. fl[i] = ss[i] /\ fl[i - 1] = <<>> /\ ss[i] \in Seq(S)
        BY <1>1, <2>3, <2>4, <3>1
      <4> QED BY <4>1, ConcatEmptySeq
    <3>2. CASE i # 1
      <4>1. i - 1 \in 1..n
        BY <1>1, <3>2
      <4> QED BY <2>3, <2>4, <3>2, <4>1
    <3> QED BY <3>1, <3>2
  <2>7. 0 \in T
    <3>1. <<>> \in Seq(S)
      BY EmptySeq
    <3> QED BY <2>4, <3>1
  <2>8. ASSUME NEW j \in Nat, j \in T PROVE j + 1 \in T
    <3> SUFFICES ASSUME j + 1 <= n PROVE fl[j + 1] \in Seq(S)
      OBVIOUS
    <3>1. j + 1 \in 1..n /\ (j + 1) - 1 = j /\ j <= n
      BY <1>1
    <3>2. fl[j] \in Seq(S)
      BY <2>8, <3>1
    <3>3. fl[j + 1] = fl[j] \o ss[j + 1] /\ ss[j + 1] \in Seq(S)
      BY <1>1, <2>6, <3>1
    <3> QED BY <3>2, <3>3, ConcatProperties
  <2>9. \A j \in Nat : j \in T
    <3> HIDE DEF T
    <3> QED BY <2>7, <2>8, Upwards
  <2>10. \A i \in 0..n : fl[i] \in Seq(S)
    BY <1>1, <2>9
  <2>11. Flat(fl, ss)
    BY <2>2, <2>4, <2>5, <2>6 DEF Flat
  <2> QED BY <2>10, <2>11
<1> QED BY <1>2, <1>3

-----------------------------------------------------------------------------
(***************************************************************************)
(* Numbers: below LongSize, ParseLong is the number that the digits stand  *)
(* for                                                                     *)
(***************************************************************************)
LEMMA DigitValue == ASSUME NEW ch, IsDigit(ch) PROVE Value(ch) \in Nat
<1>1. PICK i \in DOMAIN Digits : Digits[i] = ch
  BY DEF IsDigit, ToSet
<1>2. i \in 1..10
  BY DEF Digits
<1>3. i - 1 \in 0..9 /\ (i - 1) + 1 = i
  BY <1>2
<1>4. \E v \in 0..9 : Digits[v + 1] = ch
  BY <1>1, <1>3, Zenon
<1>5. Value(ch) \in 0..9
  BY <1>4, Zenon DEF Value
<1> QED BY <1>5

Counted(f, s, n) == f = [k \in 0..n |-> IF k = 0 THEN 0 ELSE 10 * f[k - 1] + Value(s[k])]
CountedLong(f, s, n) == f = [k \in 0..n |-> IF k = 0 THEN 0 ELSE (10 * f[k - 1] + Value(s[k])) % LongSize]

LEMMA CountExists == ASSUME NEW s, NEW n \in Nat PROVE \E f : Counted(f, s, n)
<1> DEFINE S == {j \in Nat : \E f : Counted(f, s, j)}
<1>1. 0 \in S
  <2> DEFINE f == [k \in 0..0 |-> 0]
  <2>1. Counted(f, s, 0)
    BY DEF Counted
  <2> QED BY <2>1
<1>2. ASSUME NEW j \in Nat, j \in S PROVE j + 1 \in S
  <2>1. PICK f : Counted(f, s, j)
    BY <1>2
  <2>2. \A k \in 0..j : f[k] = IF k = 0 THEN 0 ELSE 10 * f[k - 1] + Value(s[k])
    BY <2>1 DEF Counted
  <2> DEFINE g == [k \in 0..(j + 1) |-> IF k = 0 THEN 0 ELSE 10 * f[k - 1] + Value(s[k])]
  <2>3. \A k \in 0..j : g[k] = f[k]
    BY <2>2
  <2>4. \A k \in 0..(j + 1) : g[k] = IF k = 0 THEN 0 ELSE 10 * g[k - 1] + Value(s[k])
    <3> TAKE k \in 0..(j + 1)
    <3>1. CASE k = 0
      BY <3>1
    <3>2. CASE k # 0
      <4>1. k - 1 \in 0..j
        BY <3>2
      <4>2. g[k] = 10 * f[k - 1] + Value(s[k])
        BY <3>2
      <4>3. g[k - 1] = f[k - 1]
        BY <2>3, <4>1
      <4> QED BY <3>2, <4>2, <4>3
    <3> QED BY <3>1, <3>2
  <2>5. g = [k \in 0..(j + 1) |-> g[k]]
    OBVIOUS
  <2> HIDE DEF g
  <2>6. Counted(g, s, j + 1)
    BY <2>4, <2>5 DEF Counted
  <2> QED BY <2>6
<1>3. \A j \in Nat : j \in S
  <2> HIDE DEF S
  <2> QED BY <1>1, <1>2, Upwards
<1> QED BY <1>3

LEMMA ModSmall == ASSUME NEW x \in Nat, NEW n \in Nat, x < n PROVE x % n = x
OBVIOUS

(* A number grows with every digit. *)
LEMMA CountGrows ==
  ASSUME NEW s, NEW n \in Nat, NEW f, Counted(f, s, n), \A k \in 1..n : Value(s[k]) \in Nat
  PROVE  /\ f[0] = 0 /\ \A k \in 1..n : f[k] = 10 * f[k - 1] + Value(s[k])
         /\ \A k \in 0..n : f[k] \in Nat
         /\ \A k \in 1..n : f[k - 1] <= f[k]
<1>1. f[0] = 0
  BY DEF Counted
<1>2. \A k \in 1..n : f[k] = 10 * f[k - 1] + Value(s[k])
  <2> TAKE k \in 1..n
  <2>1. k \in 0..n /\ k # 0
    OBVIOUS
  <2> QED BY <2>1 DEF Counted
<1> DEFINE S == {j \in Nat : j <= n => f[j] \in Nat}
<1>3. 0 \in S
  BY <1>1
<1>4. ASSUME NEW j \in Nat, j \in S PROVE j + 1 \in S
  <2> SUFFICES ASSUME j + 1 <= n PROVE f[j + 1] \in Nat
    OBVIOUS
  <2>1. j + 1 \in 1..n /\ (j + 1) - 1 = j /\ f[j] \in Nat
    BY <1>4
  <2>2. f[j + 1] = 10 * f[j] + Value(s[j + 1]) /\ Value(s[j + 1]) \in Nat
    BY <1>2, <2>1
  <2> QED BY <2>1, <2>2
<1>5. \A j \in Nat : j \in S
  <2> HIDE DEF S
  <2> QED BY <1>3, <1>4, Upwards
<1>6. \A k \in 0..n : f[k] \in Nat
  BY <1>5
<1>7. ASSUME NEW k \in 1..n PROVE f[k - 1] <= f[k]
  <2>1. k - 1 \in 0..n
    OBVIOUS
  <2>2. f[k] = 10 * f[k - 1] + Value(s[k]) /\ Value(s[k]) \in Nat /\ f[k - 1] \in Nat
    BY <1>2, <1>6, <2>1
  <2> QED BY <2>2
<1> QED BY <1>1, <1>2, <1>6, <1>7

(* No part of a number exceeds it. *)
LEMMA CountBelow ==
  ASSUME NEW n \in Nat, NEW f, \A k \in 0..n : f[k] \in Nat, \A k \in 1..n : f[k - 1] <= f[k]
  PROVE  \A k \in 0..n : f[k] <= f[n]
<1> DEFINE S == {j \in Nat : j <= n => f[n - j] <= f[n]}
<1>1. 0 \in S
  <2>1. n - 0 = n /\ f[n] \in Nat
    OBVIOUS
  <2> QED BY <2>1
<1>2. ASSUME NEW j \in Nat, j \in S PROVE j + 1 \in S
  <2> SUFFICES ASSUME j + 1 <= n PROVE f[n - (j + 1)] <= f[n]
    OBVIOUS
  <2>1. n - j \in 1..n /\ (n - j) - 1 = n - (j + 1) /\ n - (j + 1) \in 0..n /\ n - j \in 0..n /\ n \in 0..n
    OBVIOUS
  <2>2. f[n - (j + 1)] <= f[n - j]
    BY <2>1
  <2>3. f[n - j] <= f[n]
    BY <1>2
  <2>4. f[n - (j + 1)] \in Nat /\ f[n - j] \in Nat /\ f[n] \in Nat
    BY <2>1
  <2> QED BY <2>2, <2>3, <2>4
<1>3. \A j \in Nat : j \in S
  <2> HIDE DEF S
  <2> QED BY <1>1, <1>2, Upwards
<1>4. ASSUME NEW k \in 0..n PROVE f[k] <= f[n]
  <2>1. n - k \in Nat /\ n - k <= n /\ n - (n - k) = k
    OBVIOUS
  <2>2. n - k \in S
    BY <1>3, <2>1
  <2> QED BY <2>1, <2>2
<1> QED BY <1>4

LEMMA NumberIsNat ==
  ASSUME NEW s, Len(s) \in Nat, DOMAIN s = 1..Len(s), IsNumber(s) PROVE Number(s) \in Nat
<1>1. PICK n \in Nat : n = Len(s)
  OBVIOUS
<1>2. \A k \in 1..n : Value(s[k]) \in Nat
  BY <1>1, DigitValue DEF IsNumber
<1> DEFINE f == CHOOSE f : Counted(f, s, n)
<1>3. Counted(f, s, n)
  BY CountExists
<1>4. Number(s) = f[n]
  BY <1>1 DEF Number, Counted
<1> HIDE DEF f
<1>5. \A k \in 0..n : f[k] \in Nat
  BY <1>2, <1>3, CountGrows
<1> QED BY <1>4, <1>5

LEMMA ParseLongIs ==
  ASSUME NEW s, Len(s) \in Nat, DOMAIN s = 1..Len(s), IsNumber(s), Number(s) < LongSize
  PROVE  ParseLong(s) = Number(s)
<1>1. PICK n \in Nat : n = Len(s)
  OBVIOUS
<1>2. \A k \in 1..n : Value(s[k]) \in Nat
  BY <1>1, DigitValue DEF IsNumber
<1> DEFINE f == CHOOSE f : Counted(f, s, n)
           g == CHOOSE g : CountedLong(g, s, n)
<1>3. Counted(f, s, n)
  BY CountExists
<1>4. Number(s) = f[n] /\ ParseLong(s) = g[n]
  BY <1>1 DEF Number, ParseLong, Counted, CountedLong
<1> HIDE DEF f
<1>5. /\ f[0] = 0 /\ \A k \in 1..n : f[k] = 10 * f[k - 1] + Value(s[k])
      /\ \A k \in 0..n : f[k] \in Nat
      /\ \A k \in 1..n : f[k - 1] <= f[k]
  BY <1>2, <1>3, CountGrows
<1>6. \A k \in 0..n : f[k] <= f[n]
  BY <1>5, CountBelow
<1>7. LongSize \in Nat /\ f[n] \in Nat /\ f[n] < LongSize
  BY <1>4, <1>5, LimitAssumption
<1>8. ASSUME NEW k \in 1..n PROVE (10 * f[k - 1] + Value(s[k])) % LongSize = f[k]
  <2>1. f[k] \in Nat /\ f[k] <= f[n] /\ f[k] = 10 * f[k - 1] + Value(s[k])
    BY <1>5, <1>6
  <2>2. f[k] < LongSize
    BY <1>7, <2>1
  <2> QED BY <1>7, <2>1, <2>2, ModSmall
<1>9. \A k \in 0..n : f[k] = IF k = 0 THEN 0 ELSE (10 * f[k - 1] + Value(s[k])) % LongSize
  <2> TAKE k \in 0..n
  <2>1. CASE k = 0
    BY <1>5, <2>1
  <2>2. CASE k # 0
    <3>1. k \in 1..n
      BY <2>2
    <3> QED BY <1>8, <2>2, <3>1
  <2> QED BY <2>1, <2>2
<1>10. f = [k \in 0..n |-> f[k]]
  BY <1>3 DEF Counted
<1>11. CountedLong(f, s, n)
  BY <1>9, <1>10 DEF CountedLong
<1>12. CountedLong(g, s, n)
  BY <1>11
<1> HIDE DEF g
<1>13. \A k \in 0..n : g[k] = IF k = 0 THEN 0 ELSE (10 * g[k - 1] + Value(s[k])) % LongSize
  BY <1>12 DEF CountedLong
<1> DEFINE S == {j \in Nat : j <= n => g[j] = f[j]}
<1>14. 0 \in S
  BY <1>5, <1>13
<1>15. ASSUME NEW j \in Nat, j \in S PROVE j + 1 \in S
  <2> SUFFICES ASSUME j + 1 <= n PROVE g[j + 1] = f[j + 1]
    OBVIOUS
  <2>1. j + 1 \in 0..n /\ j + 1 \in 1..n /\ j + 1 # 0 /\ (j + 1) - 1 = j /\ g[j] = f[j]
    BY <1>15
  <2>2. g[j + 1] = (10 * g[j] + Value(s[j + 1])) % LongSize
    BY <1>13, <2>1
  <2>3. f[j + 1] = (10 * f[j] + Value(s[j + 1])) % LongSize
    BY <1>8, <2>1
  <2> QED BY <2>1, <2>2, <2>3
<1>16. \A j \in Nat : j \in S
  <2> HIDE DEF S
  <2> QED BY <1>14, <1>15, Upwards
<1>17. g[n] = f[n]
  BY <1>16
<1> QED BY <1>4, <1>7, <1>17

-----------------------------------------------------------------------------
(***************************************************************************)
(* Where the parts of a message stand in its text                          *)
(***************************************************************************)
Composed(S, t, a, b, c, d, e) ==
  /\ t \in Seq(S) /\ Len(t) = Len(a) + Len(b) + Len(c) + Len(d) + Len(e)
  /\ Stands(t, 0, a) /\ Stands(t, Len(a), b) /\ Stands(t, Len(a) + Len(b), c)
  /\ Stands(t, Len(a) + Len(b) + Len(c), d) /\ Stands(t, Len(a) + Len(b) + Len(c) + Len(d), e)

LEMMA FiveJoined ==
  ASSUME NEW S, NEW a \in Seq(S), NEW b \in Seq(S), NEW c \in Seq(S), NEW d \in Seq(S), NEW e \in Seq(S),
         NEW t, t = a \o b \o c \o d \o e
  PROVE  Composed(S, t, a, b, c, d, e)
<1> DEFINE ab == a \o b
           abc == ab \o c
           abcd == abc \o d
<1>1. /\ Len(a) \in Nat /\ Len(b) \in Nat /\ Len(c) \in Nat /\ Len(d) \in Nat /\ Len(e) \in Nat
  BY LenProperties
<1>2. /\ ab \in Seq(S) /\ Len(ab) = Len(a) + Len(b)
      /\ Stands(ab, 0, a) /\ Stands(ab, Len(a), b)
  BY Joined
<1>0. t = abcd \o e
  OBVIOUS
<1> HIDE DEF ab
<1>3. /\ abc \in Seq(S) /\ Len(abc) = Len(ab) + Len(c)
      /\ Stands(abc, 0, ab) /\ Stands(abc, Len(ab), c)
  BY <1>2, Joined
<1> HIDE DEF abc
<1>4. /\ abcd \in Seq(S) /\ Len(abcd) = Len(abc) + Len(d)
      /\ Stands(abcd, 0, abc) /\ Stands(abcd, Len(abc), d)
  BY <1>3, Joined
<1> HIDE DEF abcd
<1>5. /\ t \in Seq(S) /\ Len(t) = Len(abcd) + Len(e)
      /\ Stands(t, 0, abcd) /\ Stands(t, Len(abcd), e)
  <2>1. /\ abcd \o e \in Seq(S) /\ Len(abcd \o e) = Len(abcd) + Len(e)
        /\ Stands(abcd \o e, 0, abcd) /\ Stands(abcd \o e, Len(abcd), e)
    BY <1>4, Joined
  <2> QED BY <1>0, <2>1
<1>6. Stands(t, 0, abc) /\ Stands(t, Len(abc), d)
  <2>1. /\ 0 + Len(abc) <= Len(abcd) /\ Len(abc) + Len(d) <= Len(abcd) /\ Len(abc) \in Nat
        /\ 0 + 0 = 0 /\ 0 + Len(abc) = Len(abc)
    BY <1>1, <1>2, <1>3, <1>4
  <2>2. Stands(t, 0 + 0, abc)
    BY <1>4, <1>5, <2>1, Inner
  <2>3. Stands(t, 0 + Len(abc), d)
    BY <1>1, <1>4, <1>5, <2>1, Inner
  <2> QED BY <2>1, <2>2, <2>3
<1>7. Stands(t, 0, ab) /\ Stands(t, Len(ab), c)
  <2>1. /\ 0 + Len(ab) <= Len(abc) /\ Len(ab) + Len(c) <= Len(abc) /\ Len(ab) \in Nat
        /\ 0 + 0 = 0 /\ 0 + Len(ab) = Len(ab)
    BY <1>1, <1>2, <1>3
  <2>2. Stands(t, 0 + 0, ab)
    BY <1>3, <1>6, <2>1, Inner
  <2>3. Stands(t, 0 + Len(ab), c)
    BY <1>1, <1>3, <1>6, <2>1, Inner
  <2> QED BY <2>1, <2>2, <2>3
<1>8. Stands(t, 0, a) /\ Stands(t, Len(a), b)
  <2>1. /\ 0 + Len(a) <= Len(ab) /\ Len(a) + Len(b) <= Len(ab)
        /\ 0 + 0 = 0 /\ 0 + Len(a) = Len(a)
    BY <1>1, <1>2
  <2>2. Stands(t, 0 + 0, a)
    BY <1>1, <1>2, <1>7, <2>1, Inner
  <2>3. Stands(t, 0 + Len(a), b)
    BY <1>1, <1>2, <1>7, <2>1, Inner
  <2> QED BY <2>1, <2>2, <2>3
<1> QED BY <1>1, <1>2, <1>3, <1>4, <1>5, <1>6, <1>7, <1>8 DEF Composed

LineEnd(m) == Len(FirstLine(m))
HeaderEnd(m) == LineEnd(m) + Len(m.eol) + Len(Rows(m)) + Len(m.eol)

Lines(m) == [k \in DOMAIN m.rows |-> m.rows[k] \o m.eol]

CharsAre == {CR, LF, " ", "A"} \subseteq Chars /\ InLine \subseteq Chars /\ CR \notin InLine /\ LF \notin InLine

LEMMA CharFacts == CharsAre /\ " " \in InLine /\ "A" \in InLine /\ CR # LF /\ CR # " " /\ LF # " "
  BY DEF CharsAre, Chars, InLine, CR, LF

LEMMA WiderSeq == ASSUME NEW S, NEW T, S \subseteq T, NEW s \in Seq(S) PROVE s \in Seq(T)
<1>1. Len(s) \in Nat /\ s = [i \in 1..Len(s) |-> s[i]] /\ \A i \in 1..Len(s) : s[i] \in T
  BY LenProperties, ElementOfSeq
<1>2. [i \in 1..Len(s) |-> s[i]] \in Seq(T)
  BY <1>1, IsASeq
<1> QED BY <1>1, <1>2

(* The end of a line. *)
LEMMA Eols ==
  ASSUME NEW m, WellFormed(m)
  PROVE  /\ m.eol \in Seq(Chars) /\ Len(m.eol) \in {1, 2}
         /\ \/ m.eol = <<CR>> /\ Len(m.eol) = 1 /\ m.eol[1] = CR
            \/ m.eol = <<LF>> /\ Len(m.eol) = 1 /\ m.eol[1] = LF
            \/ m.eol = <<CR, LF>> /\ Len(m.eol) = 2 /\ m.eol[1] = CR /\ m.eol[2] = LF
<1>1. m.eol \in {<<CR>>, <<LF>>, <<CR, LF>>}
  BY DEF WellFormed
<1>2. CR \in Chars /\ LF \in Chars
  BY CharFacts DEF CharsAre
<1>3. CASE m.eol = <<CR>>
  BY <1>2, <1>3
<1>4. CASE m.eol = <<LF>>
  BY <1>2, <1>4
<1>5. CASE m.eol = <<CR, LF>>
  BY <1>2, <1>5
<1> QED BY <1>1, <1>3, <1>4, <1>5

LEMMA LineFacts ==
  ASSUME NEW m, WellFormed(m)
  PROVE  /\ m.rows \in Seq(Seq(InLine) \ {<<>>}) /\ Lines(m) \in Seq(Seq(Chars)) /\ Len(Lines(m)) = Len(m.rows)
         /\ \A k \in 1..Len(m.rows) : /\ m.rows[k] \in Seq(InLine) /\ m.rows[k] # <<>>
                                     /\ Lines(m)[k] = m.rows[k] \o m.eol
<1>1. m.rows \in Seq(Seq(InLine) \ {<<>>})
  BY DEF WellFormed
<1>2. /\ Len(m.rows) \in Nat /\ DOMAIN m.rows = 1..Len(m.rows)
      /\ \A k \in 1..Len(m.rows) : m.rows[k] \in Seq(InLine) /\ m.rows[k] # <<>>
  BY <1>1, LenProperties, ElementOfSeq
<1>3. ASSUME NEW k \in 1..Len(m.rows) PROVE m.rows[k] \o m.eol \in Seq(Chars)
  <2>1. InLine \subseteq Chars
    BY CharFacts DEF CharsAre
  <2>2. m.rows[k] \in Seq(Chars)
    BY <1>2, <2>1, WiderSeq
  <2> QED BY <2>2, Eols, ConcatProperties
<1>4. Lines(m) \in [1..Len(m.rows) -> Seq(Chars)]
  BY <1>2, <1>3 DEF Lines
<1>5. Lines(m) \in Seq(Seq(Chars)) /\ Len(Lines(m)) = Len(m.rows)
  <2>1. Lines(m) \in Seq(Seq(Chars))
    BY <1>2, <1>4, SeqDef
  <2>2. Len(Lines(m)) \in Nat /\ DOMAIN Lines(m) = 1..Len(Lines(m))
    BY <2>1, LenProperties
  <2> QED BY <1>2, <1>4, <2>1, <2>2
<1> QED BY <1>1, <1>2, <1>5 DEF Lines

LEMMA RowsFlat ==
  ASSUME NEW m, WellFormed(m)
  PROVE  Rows(m) \in Seq(Chars) /\ \E fl : Flat(fl, Lines(m)) /\ \A i \in 0..Len(m.rows) : fl[i] \in Seq(Chars)
<1>1. PICK fl : Flat(fl, Lines(m)) /\ \A i \in 0..Len(m.rows) : fl[i] \in Seq(Chars)
  BY LineFacts, FlattenIs
<1>2. Rows(m) = fl[Len(m.rows)] /\ Len(m.rows) \in 0..Len(m.rows)
  BY <1>1, LineFacts, LenProperties DEF Flat, Rows, Lines
<1> QED BY <1>1, <1>2

Laid(m) ==
  /\ Text(m) \in Seq(Chars) /\ Len(Text(m)) = HeaderEnd(m) + Len(m.body)
  /\ Stands(Text(m), 0, FirstLine(m)) /\ Stands(Text(m), LineEnd(m), m.eol)
  /\ Stands(Text(m), LineEnd(m) + Len(m.eol), Rows(m))
  /\ Stands(Text(m), LineEnd(m) + Len(m.eol) + Len(Rows(m)), m.eol)
  /\ Stands(Text(m), HeaderEnd(m), m.body)

LEMMA FirstLineType == ASSUME NEW m, WellFormed(m) PROVE FirstLine(m) \in Seq(Chars)
<1>0. " " \in Chars /\ InLine \subseteq Chars /\ {"A"} \subseteq Chars
  BY CharFacts DEF CharsAre
<1>1. InLine \subseteq Chars /\ Word \subseteq Chars /\ {"A"} \subseteq Chars /\ <<" ">> \in Seq(Chars)
  <2>1. \A x \in Chars : <<x>> \in Seq(Chars)
    OBVIOUS
  <2>2. Word \subseteq Chars
    BY <1>0 DEF Word
  <2> QED BY <1>0, <2>1, <2>2, Zenon
<1>2. m.version \in Seq(Chars)
  BY <1>1, WiderSeq DEF WellFormed
<1>3. CASE m.kind = "request"
  <2>1. m.method \in Seq(Chars) /\ m.url \in Seq(Chars)
    BY <1>1, <1>3, WiderSeq DEF WellFormed, RequestLine
  <2>2. FirstLine(m) = m.method \o <<" ">> \o m.url \o <<" ">> \o m.version
    BY <1>3 DEF FirstLine
  <2> QED BY <1>1, <1>2, <2>1, <2>2, FiveJoined DEF Composed
<1>4. CASE m.kind = "response"
  <2>1. m.code \in Seq(Chars) /\ m.status \in Seq(Chars)
    BY <1>1, <1>4, WiderSeq DEF WellFormed, ResponseLine
  <2>2. FirstLine(m) = m.version \o <<" ">> \o m.code \o <<" ">> \o m.status
    BY <1>4 DEF FirstLine
  <2> QED BY <1>1, <1>2, <2>1, <2>2, FiveJoined DEF Composed
<1> QED BY <1>3, <1>4 DEF WellFormed

LEMMA TextLaid == ASSUME NEW m, WellFormed(m) PROVE Laid(m)
<1>1. m.body \in Seq(Chars)
  BY DEF WellFormed
<1>2. Text(m) = FirstLine(m) \o m.eol \o Rows(m) \o m.eol \o m.body
  BY DEF Text
<1>3. FirstLine(m) \in Seq(Chars) /\ m.eol \in Seq(Chars) /\ Rows(m) \in Seq(Chars)
  BY FirstLineType, Eols, RowsFlat
<1> DEFINE t == Text(m)
<1>4. t = FirstLine(m) \o m.eol \o Rows(m) \o m.eol \o m.body
  BY <1>2
<1> HIDE DEF t
<1>5. Composed(Chars, t, FirstLine(m), m.eol, Rows(m), m.eol, m.body)
  BY <1>1, <1>3, <1>4, FiveJoined
<1> QED BY <1>5 DEF t, Laid, Composed, LineEnd, HeaderEnd

-----------------------------------------------------------------------------
(***************************************************************************)
(* Rows and their ends                                                     *)
(***************************************************************************)
(* s is made of rows that are not empty and have the end eol: each end is  *)
(* whole and behind a character of a row, and the last character is one.   *)
Lined(s, eol) ==
  /\ s # <<>> => s[Len(s)] = eol[Len(eol)]
  /\ \A j \in 1..Len(s) :
       /\ s[j] = eol[1] => j > 1 /\ s[j - 1] \in InLine
       /\ s[j] \notin InLine => \/ s[j] = eol[1]
                                \/ Len(eol) = 2 /\ s[j] = eol[2] /\ j > 1 /\ s[j - 1] = eol[1]
       /\ Len(eol) = 2 /\ s[j] = eol[1] => j < Len(s) /\ s[j + 1] = eol[2]

LEMMA LinedMore ==
  ASSUME NEW m, WellFormed(m), NEW s \in Seq(Chars), Lined(s, m.eol), NEW row \in Seq(InLine), row # <<>>
  PROVE  Lined(s \o (row \o m.eol), m.eol)
<1> DEFINE eol == m.eol
           t == s \o (row \o eol)
           p == Len(s)
           n == Len(row)
           e == Len(eol)
<1>1. p \in Nat /\ n \in Nat /\ n # 0 /\ e \in {1, 2} /\ eol \in Seq(Chars)
  BY LenProperties, EmptySeq, Eols
<1>2. /\ eol[1] \notin InLine /\ (e = 2 => eol[2] \notin InLine /\ eol[2] # eol[1])
  <2>1. CR \notin InLine /\ LF \notin InLine /\ CR # LF
    BY CharFacts DEF CharsAre
  <2>2. \/ eol[1] = CR /\ e = 1
        \/ eol[1] = LF /\ e = 1
        \/ eol[1] = CR /\ eol[2] = LF
    BY Eols
  <2> HIDE DEF eol, e
  <2> QED BY <2>1, <2>2
<1>3. row \in Seq(Chars) /\ \A j \in 1..n : row[j] \in InLine
  BY LenProperties, ElementOfSeq, WiderSeq, CharFacts DEF CharsAre
<1>4. row \o eol \in Seq(Chars) /\ Len(row \o eol) = n + e /\ Stands(row \o eol, 0, row) /\ Stands(row \o eol, n, eol)
  BY <1>1, <1>3, Joined
<1>5. t \in Seq(Chars) /\ Len(t) = p + (n + e) /\ Stands(t, 0, s) /\ Stands(t, p, row \o eol)
  BY <1>4, Joined
<1>6. \A j \in 1..p : t[j] = s[j]
  BY <1>1, <1>5 DEF Stands
<1>7. Stands(t, p + 0, row) /\ Stands(t, p + n, eol)
  <2>1. 0 + n <= n + e /\ n + e <= n + e
    BY <1>1
  <2> HIDE DEF t, p, n, e, eol
  <2>2. Stands(t, p + 0, row)
    BY <1>1, <1>4, <1>5, <2>1, Inner DEF n
  <2>3. Stands(t, p + n, eol)
    <3>1. Len(eol) \in Nat /\ n + Len(eol) <= Len(row \o eol)
      BY <1>1, <1>4, <2>1 DEF e
    <3> QED BY <1>1, <1>4, <1>5, <3>1, Inner
  <2> QED BY <2>2, <2>3
<1> HIDE DEF t, p, n, e, eol
<1>8. \A j \in 1..n : t[p + j] \in InLine
  <2>1. \A j \in 1..n : t[p + 0 + j] = row[j] /\ p + 0 + j = p + j
    BY <1>1, <1>7 DEF Stands, n
  <2> QED BY <1>1, <1>3, <2>1
<1>9. t[p + n + 1] = eol[1] /\ (e = 2 => t[p + n + 2] = eol[2])
  BY <1>1, <1>7 DEF Stands, e
<1>10. \A j \in 1..p : /\ s[j] = eol[1] => j > 1 /\ s[j - 1] \in InLine
                       /\ s[j] \notin InLine => \/ s[j] = eol[1]
                                                \/ e = 2 /\ s[j] = eol[2] /\ j > 1 /\ s[j - 1] = eol[1]
                       /\ e = 2 /\ s[j] = eol[1] => j < p /\ s[j + 1] = eol[2]
  BY DEF Lined, p, e, eol
<1>11. ASSUME NEW j \in 1..(p + (n + e))
       PROVE  /\ t[j] = eol[1] => j > 1 /\ t[j - 1] \in InLine
              /\ t[j] \notin InLine => \/ t[j] = eol[1]
                                       \/ e = 2 /\ t[j] = eol[2] /\ j > 1 /\ t[j - 1] = eol[1]
              /\ e = 2 /\ t[j] = eol[1] => j < p + (n + e) /\ t[j + 1] = eol[2]
  <2>1. CASE j <= p
    <3>1. j \in 1..p /\ (j > 1 => j - 1 \in 1..p) /\ (j < p => j + 1 \in 1..p)
      BY <1>1, <2>1
    <3>2. t[j] = s[j] /\ (j > 1 => t[j - 1] = s[j - 1]) /\ (j < p => t[j + 1] = s[j + 1])
      BY <1>6, <3>1
    <3>3. /\ s[j] = eol[1] => j > 1 /\ s[j - 1] \in InLine
          /\ s[j] \notin InLine => \/ s[j] = eol[1]
                                   \/ e = 2 /\ s[j] = eol[2] /\ j > 1 /\ s[j - 1] = eol[1]
          /\ e = 2 /\ s[j] = eol[1] => j < p /\ s[j + 1] = eol[2]
      BY <1>10, <3>1
    <3>4. j < p => j < p + (n + e)
      BY <1>1, <3>1
    <3> QED BY <3>2, <3>3, <3>4
  <2>2. CASE j > p /\ j <= p + n
    <3>1. j - p \in 1..n /\ p + (j - p) = j
      BY <1>1, <2>2
    <3>2. t[j] \in InLine
      BY <1>8, <3>1
    <3> QED BY <1>2, <3>2
  <2>3. CASE j = p + n + 1
    <3>1. j > 1 /\ j - 1 = p + n /\ n \in 1..n /\ (e = 2 => j < p + (n + e) /\ j + 1 = p + n + 2)
      BY <1>1, <2>3
    <3>2. t[j - 1] \in InLine
      BY <1>8, <3>1
    <3> QED BY <1>9, <2>3, <3>1, <3>2
  <2>4. CASE e = 2 /\ j = p + n + 2
    <3>1. j > 1 /\ j - 1 = p + n + 1
      BY <1>1, <2>4
    <3> QED BY <1>2, <1>9, <2>4, <3>1
  <2> QED BY <1>1, <2>1, <2>2, <2>3, <2>4
<1>12. t[p + (n + e)] = eol[e]
  <2>1. CASE e = 1
    <3>1. p + (n + e) = p + n + 1
      BY <1>1, <2>1
    <3> QED BY <1>9, <2>1, <3>1
  <2>2. CASE e = 2
    <3>1. p + (n + e) = p + n + 2
      BY <1>1, <2>2
    <3> QED BY <1>9, <2>2, <3>1
  <2> QED BY <1>1, <2>1, <2>2
<1>13. Lined(t, eol)
  BY <1>5, <1>11, <1>12 DEF Lined, e
<1> QED BY <1>13 DEF t, eol

LEMMA RowsLined == ASSUME NEW m, WellFormed(m) PROVE Lined(Rows(m), m.eol)
<1> DEFINE n == Len(m.rows)
<1>1. PICK fl : Flat(fl, Lines(m)) /\ \A i \in 0..n : fl[i] \in Seq(Chars)
  BY RowsFlat
<1>2. n \in Nat /\ Len(Lines(m)) = n /\ Rows(m) = fl[n] /\ fl[0] = <<>>
  BY <1>1, LineFacts, LenProperties DEF Flat, Rows, Lines
<1>3. \A k \in 1..n : m.rows[k] \in Seq(InLine) /\ m.rows[k] # <<>> /\ fl[k] = fl[k - 1] \o (m.rows[k] \o m.eol)
  BY <1>1, <1>2, LineFacts DEF Flat
<1> HIDE DEF n
<1> DEFINE S == {j \in Nat : j <= n => Lined(fl[j], m.eol)}
<1>4. 0 \in S
  <2>1. Len(fl[0]) = 0 /\ 1..0 = {}
    BY <1>2
  <2> QED BY <1>2, <2>1 DEF Lined
<1>5. ASSUME NEW j \in Nat, j \in S PROVE j + 1 \in S
  <2> SUFFICES ASSUME j + 1 <= n PROVE Lined(fl[j + 1], m.eol)
    OBVIOUS
  <2>1. j \in 0..n /\ j + 1 \in 1..n /\ (j + 1) - 1 = j /\ j <= n
    BY <1>2
  <2>2. Lined(fl[j], m.eol) /\ fl[j] \in Seq(Chars)
    BY <1>1, <1>5, <2>1
  <2>3. fl[j + 1] = fl[j] \o (m.rows[j + 1] \o m.eol) /\ m.rows[j + 1] \in Seq(InLine) /\ m.rows[j + 1] # <<>>
    BY <1>3, <2>1
  <2> QED BY <2>2, <2>3, LinedMore
<1>6. \A j \in Nat : j \in S
  <2> HIDE DEF S
  <2> QED BY <1>4, <1>5, Upwards
<1> QED BY <1>2, <1>6

-----------------------------------------------------------------------------
(***************************************************************************)
(* The header, byte by byte                                                *)
(***************************************************************************)
Fields == {"state", "answer", "method", "url", "status", "code", "headers", "body"}

(* The parser has read the first line of m. *)
Began(p, m, state, headers) ==
  /\ DOMAIN p = Fields
  /\ p.state = state /\ p.answer = "" /\ p.headers = headers /\ p.body = <<>>
  /\ IF m.kind = "request" THEN p.method = m.method /\ p.url = m.url
     ELSE p.status = m.status /\ p.code = ParseLong(m.code)

(* The first line of m can be kept. *)
Fits(m) ==
  IF m.kind = "request" THEN Len(m.method) <= MaxMethod /\ Len(m.url) <= MaxUrl
  ELSE Len(m.code) < MaxStatus /\ Len(m.status) < MaxStatus

Broken(p, m) == p.answer = Fault(m) /\ Fault(m) # "" /\ p.state # "END_MESSAGE"

(* The state behind i characters of the rows. *)
RowState(m, i) ==
  IF i = 0 THEN IF Len(m.eol) = 2 THEN "WIN_END" ELSE IF m.eol[1] = CR THEN "MAC_END" ELSE "LINUX_END"
  ELSE IF Rows(m)[i] = CR THEN "MAC_END"
  ELSE IF Rows(m)[i] = LF THEN IF Len(m.eol) = 2 THEN "WIN_END" ELSE "LINUX_END"
  ELSE "HEADER"

HeaderStates == {"HEADER", "LINUX_END", "MAC_END", "WIN_END", "WIN_END2"}

LEMMA Updates ==
  ASSUME NEW p, NEW m, NEW state, NEW headers, Began(p, m, state, headers), NEW t
  PROVE  /\ Began([p EXCEPT !.state = t], m, t, headers) /\ Began([p EXCEPT !.headers = t], m, state, t)
         /\ DOMAIN Failed(p, t) = Fields /\ Failed(p, t).answer = t /\ Failed(p, t).state = state
<1>1. Began([p EXCEPT !.state = t], m, t, headers)
  BY DEF Began, Fields
<1>2. Began([p EXCEPT !.headers = t], m, state, t)
  BY DEF Began, Fields
<1>3. DOMAIN Failed(p, t) = Fields /\ Failed(p, t).answer = t /\ Failed(p, t).state = state
  BY DEF Began, Fields, Failed
<1> QED BY <1>1, <1>2, <1>3

(* What is read after the first line is read by HttpParseHeader. *)
LEMMA HeaderByte ==
  ASSUME NEW m, m = message, WellFormed(m), NEW p, p.state \in HeaderStates, NEW ch
  PROVE  ParseHeader(p, ch) =
           IF m.kind = "request" \/ HttpParseHeader(p, ch).answer = "" THEN HttpParseHeader(p, ch)
           ELSE Failed(HttpParseHeader(p, ch), "failed")
<1> DEFINE q == HttpParseHeader(p, ch)
<1>1. p.state \notin {"START", "METHOD", "URL", "VERSION", "CODE", "MESSAGE"}
  BY DEF HeaderStates
<1>2. message.kind = m.kind /\ m.kind \in {"request", "response"}
  BY DEF WellFormed
<1>3. CASE m.kind = "request"
  <2>1. ParseHeader(p, ch) = HttpParseRequestHeader(p, ch)
    BY <1>2, <1>3 DEF ParseHeader
  <2>2. HttpParseRequestHeader(p, ch) = HttpParseHeader(p, ch)
    BY <1>1 DEF HttpParseRequestHeader
  <2> QED BY <1>3, <2>1, <2>2
<1>4. CASE m.kind = "response"
  <2>1. ParseHeader(p, ch) = HttpParseResponseHeader(p, ch)
    BY <1>2, <1>4 DEF ParseHeader
  <2>2. HttpParseResponseHeader(p, ch) = IF q.answer = "" THEN q ELSE Failed(q, "failed")
    BY <1>1 DEF HttpParseResponseHeader
  <2> QED BY <1>4, <2>1, <2>2
<1> QED BY <1>2, <1>3, <1>4

LEMMA CharKept ==
  ASSUME NEW p, NEW m, NEW state, NEW headers \in Seq(Chars), Began(p, m, state, headers), NEW ch,
         Len(headers) < MaxHeaders, ch \in {CR, LF} => headers # <<>>
  PROVE  Began(HttpHeadersPutChar(p, ch), m, state, Append(headers, ch))
<1>1. Len(headers) \in Nat /\ MaxHeaders \in Nat
  BY LenProperties, LimitAssumption
<1>2. Len(headers) \in Room
  BY <1>1 DEF Room
<1>3. p.headers = headers
  BY DEF Began
<1>4. PICK h : h = Append(headers, ch)
  OBVIOUS
<1>5. HttpHeadersPutChar(p, ch) = [p EXCEPT !.headers = h]
  BY <1>2, <1>3, <1>4 DEF HttpHeadersPutChar
<1>6. Began([p EXCEPT !.headers = h], m, state, h)
  BY Updates
<1> QED BY <1>4, <1>5, <1>6

LEMMA CharRefused ==
  ASSUME NEW p, NEW m, NEW state, NEW headers \in Seq(Chars), Began(p, m, state, headers), NEW ch,
         ~(Len(headers) < MaxHeaders)
  PROVE  HttpHeadersPutChar(p, ch) = Failed(p, "431")
<1>1. Len(headers) \in Nat /\ MaxHeaders \in Nat /\ MaxHeaders # 0
  BY LenProperties, LimitAssumption
<1>2. Len(headers) \notin Room /\ headers # <<>>
  BY <1>1 DEF Room
<1>3. p.headers = headers
  BY DEF Began
<1> QED BY <1>2, <1>3 DEF HttpHeadersPutChar

(* A header that is too large is the fault of a message whose first line   *)
(* is not too large.                                                       *)
LEMMA RowsFault ==
  ASSUME NEW m, WellFormed(m), Fits(m)
  PROVE  Len(Rows(m)) > MaxHeaders => Fault(m) = IF m.kind = "request" THEN "431" ELSE "failed"
<1>2. m.kind \in {"request", "response"}
  BY DEF WellFormed
<1>3. IF m.kind = "request" THEN ~(Len(m.method) > MaxMethod) /\ ~(Len(m.url) > MaxUrl)
      ELSE ~(Len(m.code) >= MaxStatus) /\ ~(Len(m.status) >= MaxStatus)
  <2>1. {MaxMethod, MaxUrl, MaxStatus} \subseteq Nat
    BY LimitAssumption
  <2>2. CASE m.kind = "request"
    <3>1. Len(m.method) \in Nat /\ Len(m.url) \in Nat
      BY <2>2, LenProperties DEF WellFormed, RequestLine
    <3> QED BY <2>1, <2>2, <3>1 DEF Fits
  <2>3. CASE m.kind = "response"
    <3>1. Len(m.code) \in Nat /\ Len(m.status) \in Nat
      BY <2>3, LenProperties DEF WellFormed, ResponseLine
    <3> QED BY <2>1, <2>3, <3>1 DEF Fits
  <2> QED BY <1>2, <2>2, <2>3
<1> QED BY <1>2, <1>3 DEF Fault

(* A row is read on. *)
LEMMA RowByte ==
  ASSUME NEW m, m = message, WellFormed(m), Fits(m), NEW i \in Nat, i < Len(Rows(m)), i <= MaxHeaders,
         NEW p, Began(p, m, RowState(m, i), SubSeq(Rows(m), 1, i)), NEW q, q = ParseHeader(p, Rows(m)[i + 1])
  PROVE  IF i < MaxHeaders THEN Began(q, m, RowState(m, i + 1), SubSeq(Rows(m), 1, i + 1)) ELSE Broken(q, m)
<1> DEFINE L == Rows(m)
           s == RowState(m, i)
           n == RowState(m, i + 1)
           h == SubSeq(L, 1, i)
           ch == L[i + 1]
           e == Len(m.eol)
<1>1. L \in Seq(Chars) /\ Len(L) \in Nat /\ i + 1 \in 1..Len(L) /\ i \in 0..Len(L)
  BY RowsFlat, LenProperties
<1>2. h \in Seq(Chars) /\ Len(h) = i
  BY <1>1, Firsts
<1>3. /\ CR \notin InLine /\ LF \notin InLine /\ CR # LF
      /\ \/ e = 1 /\ m.eol[1] = CR
         \/ e = 1 /\ m.eol[1] = LF
         \/ e = 2 /\ m.eol[1] = CR /\ m.eol[2] = LF
  BY Eols, CharFacts DEF CharsAre
<1>4. /\ ch = m.eol[1] => i + 1 > 1 /\ L[i + 1 - 1] \in InLine
      /\ ch \notin InLine => \/ ch = m.eol[1]
                             \/ e = 2 /\ ch = m.eol[2] /\ i + 1 > 1 /\ L[i + 1 - 1] = m.eol[1]
  BY <1>1, RowsLined DEF Lined
<1>5. i + 1 - 1 = i /\ (i + 1 > 1 => i # 0)
  OBVIOUS
<1>6. /\ s = IF i = 0 THEN IF e = 2 THEN "WIN_END" ELSE IF m.eol[1] = CR THEN "MAC_END" ELSE "LINUX_END"
             ELSE IF L[i] = CR THEN "MAC_END"
             ELSE IF L[i] = LF THEN IF e = 2 THEN "WIN_END" ELSE "LINUX_END"
             ELSE "HEADER"
      /\ n = IF ch = CR THEN "MAC_END" ELSE IF ch = LF THEN IF e = 2 THEN "WIN_END" ELSE "LINUX_END" ELSE "HEADER"
  BY DEF RowState
<1>7. Began(p, m, s, h) /\ q = ParseHeader(p, ch)
  OBVIOUS
<1>8. Began(p, m, s, h) => p.state = s
  BY DEF Began
<1>9. s \in HeaderStates
  BY <1>6 DEF HeaderStates
<1> HIDE DEF L, s, n, h, ch, e
<1>10. /\ ch \in {CR, LF} => i # 0 /\ s \in {"HEADER", "MAC_END"} /\ (s = "MAC_END" => ch = LF /\ n = "WIN_END")
       /\ s = "HEADER" /\ ch = LF => n = "LINUX_END"
  BY <1>3, <1>4, <1>5, <1>6
<1>11. PICK r : r = [p EXCEPT !.state = n]
  OBVIOUS
<1>12. Began(r, m, n, h)
  BY <1>7, <1>11, Updates
<1>13. HttpParseHeader(p, ch) = HttpHeadersPutChar(r, ch)
  <2>2. ~EndsRow(p.state, ch)
    BY <1>3, <1>7, <1>8, <1>10 DEF EndsRow
  <2>3. ~(p.state = "WIN_END" /\ ch = CR)
    BY <1>7, <1>8, <1>10
  <2>4. CASE p.state = "MAC_END" /\ ch = LF
    <3>1. HttpParseHeader(p, ch) = HttpHeadersPutChar([p EXCEPT !.state = "WIN_END"], ch)
      BY <2>2, <2>4 DEF HttpParseHeader
    <3>2. n = "WIN_END"
      BY <1>7, <1>8, <1>10, <2>4
    <3> QED BY <1>11, <3>1, <3>2
  <2>5. CASE ~(p.state = "MAC_END" /\ ch = LF)
    <3>1. HttpParseHeader(p, ch) =
            HttpHeadersPutChar(
              [p EXCEPT !.state = CASE ch = CR -> "MAC_END" [] ch = LF -> "LINUX_END" [] OTHER -> "HEADER"], ch)
      BY <2>2, <2>3, <2>5 DEF HttpParseHeader
    <3>2. (CASE ch = CR -> "MAC_END" [] ch = LF -> "LINUX_END" [] OTHER -> "HEADER") = n
      BY <1>3, <1>6, <1>7, <1>8, <1>10, <2>5
    <3> QED BY <1>11, <3>1, <3>2
  <2> QED BY <2>4, <2>5
<1>14. PICK w : w = HttpParseHeader(p, ch)
  OBVIOUS
<1>15. q = IF m.kind = "request" \/ w.answer = "" THEN w ELSE Failed(w, "failed")
  <2>1. p.state \in HeaderStates
    BY <1>7, <1>8, <1>9
  <2> QED BY <1>7, <1>14, <2>1, HeaderByte
<1>16. CASE i < MaxHeaders
  <2>1. ch \in {CR, LF} => h # <<>>
    BY <1>2, <1>10, EmptySeq
  <2>2. Began(w, m, n, Append(h, ch))
    BY <1>2, <1>12, <1>13, <1>14, <1>16, <2>1, CharKept
  <2>3. Append(h, ch) = SubSeq(L, 1, i + 1)
    BY <1>1, FirstsGrow DEF h, ch, L
  <2>4. w.answer = ""
    BY <2>2 DEF Began
  <2> QED BY <1>15, <1>16, <2>2, <2>3, <2>4 DEF n, L
<1>17. CASE ~(i < MaxHeaders)
  <2>1. w = Failed(r, "431")
    BY <1>2, <1>12, <1>13, <1>14, <1>17, CharRefused
  <2>2. DOMAIN w = Fields /\ w.answer = "431" /\ w.state = n
    BY <1>12, <2>1, Updates
  <2>3. Failed(w, "failed").answer = "failed" /\ Failed(w, "failed").state = n
    BY <2>2 DEF Failed, Fields
  <2>4. q.answer = (IF m.kind = "request" THEN "431" ELSE "failed") /\ q.state = n
    BY <1>15, <2>2, <2>3
  <2>5. Fault(m) = IF m.kind = "request" THEN "431" ELSE "failed"
    <3>1. Len(Rows(m)) > MaxHeaders
      BY <1>1, <1>17, LimitAssumption DEF L
    <3> QED BY <3>1, RowsFault
  <2>6. n # "END_MESSAGE"
    BY <1>6
  <2> QED BY <1>17, <2>4, <2>5, <2>6 DEF Broken
<1> QED BY <1>16, <1>17

(* Behind the last row, as before the first, a line end has been read. *)
LEMMA LastState ==
  ASSUME NEW m, WellFormed(m)
  PROVE  RowState(m, Len(Rows(m))) =
           IF Len(m.eol) = 2 THEN "WIN_END" ELSE IF m.eol[1] = CR THEN "MAC_END" ELSE "LINUX_END"
<1> DEFINE L == Rows(m)
           n == Len(L)
<1>1. n \in Nat /\ (n # 0 => L # <<>>)
  BY RowsFlat, LenProperties
<1>2. n # 0 => L[n] = m.eol[Len(m.eol)]
  BY <1>1, RowsLined DEF Lined
<1>3. RowState(m, n) =
        IF n = 0 THEN IF Len(m.eol) = 2 THEN "WIN_END" ELSE IF m.eol[1] = CR THEN "MAC_END" ELSE "LINUX_END"
        ELSE IF L[n] = CR THEN "MAC_END"
        ELSE IF L[n] = LF THEN IF Len(m.eol) = 2 THEN "WIN_END" ELSE "LINUX_END"
        ELSE "HEADER"
  BY DEF RowState
<1>4. CR # LF
  BY CharFacts
<1> HIDE DEF n, L
<1>5. \/ Len(m.eol) = 1 /\ m.eol[1] = CR
      \/ Len(m.eol) = 1 /\ m.eol[1] = LF
      \/ Len(m.eol) = 2 /\ m.eol[1] = CR /\ m.eol[2] = LF
  BY Eols
<1> DEFINE e == Len(m.eol)
<1> HIDE DEF e
<1>6. n # 0 => L[n] = IF e = 2 THEN LF ELSE m.eol[1]
  <2>1. e = 2 => m.eol[e] = m.eol[2]
    OBVIOUS
  <2> QED BY <1>2, <1>5, <2>1 DEF e
<1>7. RowState(m, n) = IF e = 2 THEN "WIN_END" ELSE IF m.eol[1] = CR THEN "MAC_END" ELSE "LINUX_END"
  BY <1>3, <1>4, <1>5, <1>6 DEF e
<1> QED BY <1>7 DEF n, L, e

(* The parser takes the byte for the line end s stands for. *)
LEMMA Turned ==
  ASSUME NEW m, m = message, WellFormed(m), NEW p, NEW s \in HeaderStates, NEW h, Began(p, m, s, h), NEW ch, NEW t,
         HttpParseHeader(p, ch) = [p EXCEPT !.state = t]
  PROVE  Began(ParseHeader(p, ch), m, t, h)
<1>1. PICK r : r = HttpParseHeader(p, ch)
  OBVIOUS
<1>2. Began(r, m, t, h)
  <2>1. Began([p EXCEPT !.state = t], m, t, h)
    BY Updates
  <2> QED BY <1>1, <2>1
<1>3. r.answer = "" /\ p.state \in HeaderStates
  BY <1>2 DEF Began
<1>4. ParseHeader(p, ch) = r
  BY <1>1, <1>3, HeaderByte
<1> QED BY <1>2, <1>4

LEMMA RowEnds ==
  ASSUME NEW p, NEW ch, EndsRow(p.state, ch)
  PROVE  HttpParseHeader(p, ch) = [p EXCEPT !.state = "END_HEADER"]
<1>1. ~(p.state = "MAC_END" /\ ch = LF) /\ ~(p.state = "WIN_END" /\ ch = CR)
  BY CharFacts DEF EndsRow
<1> QED BY <1>1 DEF HttpParseHeader

(* The empty line, or its first half. *)
LEMMA LastByte ==
  ASSUME NEW m, m = message, WellFormed(m), NEW p, NEW h, Began(p, m, RowState(m, Len(Rows(m))), h)
  PROVE  Began(ParseHeader(p, m.eol[1]), m, IF Len(m.eol) = 2 THEN "WIN_END2" ELSE "END_HEADER", h)
<1> DEFINE s == RowState(m, Len(Rows(m)))
           t == IF Len(m.eol) = 2 THEN "WIN_END2" ELSE "END_HEADER"
<1>1. s = IF Len(m.eol) = 2 THEN "WIN_END" ELSE IF m.eol[1] = CR THEN "MAC_END" ELSE "LINUX_END"
  BY LastState
<1>2. p.state = s
  BY DEF Began
<1>3. Began(p, m, s, h)
  OBVIOUS
<1> HIDE DEF s
<1>4. \/ Len(m.eol) = 1 /\ m.eol[1] = CR
      \/ Len(m.eol) = 1 /\ m.eol[1] = LF
      \/ Len(m.eol) = 2 /\ m.eol[1] = CR /\ m.eol[2] = LF
  BY Eols
<1>5. CR # LF
  BY CharFacts
<1>6. CASE Len(m.eol) = 2
  <2>1. s = "WIN_END" /\ m.eol[1] = CR
    BY <1>1, <1>4, <1>6
  <2>2. ~EndsRow(p.state, m.eol[1])
    BY <1>2, <2>1 DEF EndsRow
  <2>3. HttpParseHeader(p, m.eol[1]) = [p EXCEPT !.state = "WIN_END2"]
    BY <1>2, <2>1, <2>2 DEF HttpParseHeader
  <2>4. s \in HeaderStates
    BY <2>1 DEF HeaderStates
  <2> QED BY <1>3, <1>6, <2>3, <2>4, Turned
<1>7. CASE Len(m.eol) # 2
  <2>1. EndsRow(s, m.eol[1]) /\ s \in HeaderStates
    <3>1. CASE m.eol[1] = CR
      <4>1. s = "MAC_END"
        BY <1>1, <1>7, <3>1
      <4> QED BY <3>1, <4>1 DEF EndsRow, HeaderStates
    <3>2. CASE m.eol[1] = LF
      <4>1. s = "LINUX_END"
        BY <1>1, <1>5, <1>7, <3>2
      <4> QED BY <3>2, <4>1 DEF EndsRow, HeaderStates
    <3> QED BY <1>4, <3>1, <3>2
  <2>2. HttpParseHeader(p, m.eol[1]) = [p EXCEPT !.state = "END_HEADER"]
    BY <1>2, <2>1, RowEnds
  <2> QED BY <1>3, <1>7, <2>1, <2>2, Turned
<1> QED BY <1>6, <1>7

(* The second half of the empty line. *)
LEMMA WinLast ==
  ASSUME NEW m, m = message, WellFormed(m), NEW p, NEW h, Began(p, m, "WIN_END2", h)
  PROVE  Began(ParseHeader(p, LF), m, "END_HEADER", h)
<1>1. p.state = "WIN_END2"
  BY DEF Began
<1>2. EndsRow(p.state, LF)
  BY <1>1 DEF EndsRow
<1>3. HttpParseHeader(p, LF) = [p EXCEPT !.state = "END_HEADER"]
  BY <1>2, RowEnds
<1>4. "WIN_END2" \in HeaderStates
  BY DEF HeaderStates
<1> QED BY <1>3, <1>4, Turned

(* The second half of the end of the first line. *)
LEMMA WinFirst ==
  ASSUME NEW m, m = message, WellFormed(m), NEW p, Began(p, m, "MAC_END", <<>>)
  PROVE  Began(ParseHeader(p, LF), m, "WIN_END", <<>>)
<1>1. p.state = "MAC_END" /\ p.headers = <<>> /\ CR # LF
  BY CharFacts DEF Began
<1>2. PICK r : r = [p EXCEPT !.state = "WIN_END"]
  OBVIOUS
<1>3. r.headers = <<>>
  <2>1. Began([p EXCEPT !.state = "WIN_END"], m, "WIN_END", <<>>)
    BY Updates
  <2> QED BY <1>2, <2>1 DEF Began
<1>4. HttpHeadersPutChar(r, LF) = r
  BY <1>3 DEF HttpHeadersPutChar
<1>5. ~EndsRow(p.state, LF)
  BY <1>1 DEF EndsRow
<1>6. HttpParseHeader(p, LF) = [p EXCEPT !.state = "WIN_END"]
  BY <1>1, <1>2, <1>4, <1>5 DEF HttpParseHeader
<1>7. "MAC_END" \in HeaderStates
  BY DEF HeaderStates
<1> QED BY <1>6, <1>7, Turned

-----------------------------------------------------------------------------
(***************************************************************************)
(* The first line of a request                                             *)
(***************************************************************************)
(* Nothing is wrong, and nothing behind the first line has been read.      *)
Reads(p, state) ==
  DOMAIN p = Fields /\ p.state = state /\ p.answer = "" /\ p.headers = <<>> /\ p.body = <<>>

InMethod(p, m, k) ==
  /\ m.kind = "request" /\ k <= Len(m.method) /\ k <= MaxMethod
  /\ Reads(p, IF k = 0 THEN "START" ELSE "METHOD")
  /\ p.method = SubSeq(m.method, 1, k) /\ p.url = <<>>

InUrl(p, m, k) ==
  /\ m.kind = "request" /\ Len(m.method) <= MaxMethod /\ k <= Len(m.url) /\ k <= MaxUrl
  /\ Reads(p, "URL")
  /\ p.method = m.method /\ p.url = SubSeq(m.url, 1, k)

InVersion(p, m) ==
  /\ m.kind = "request" /\ Fits(m)
  /\ Reads(p, "VERSION")
  /\ p.method = m.method /\ p.url = m.url

LEMMA RequestTypes ==
  ASSUME NEW m, WellFormed(m), m.kind = "request"
  PROVE  /\ m.method \in Seq({"A"}) /\ m.url \in Seq(Word) /\ m.version \in Seq(Word)
         /\ Len(m.method) \in Nat /\ Len(m.url) \in Nat /\ Len(m.version) \in Nat
         /\ MaxMethod \in Nat /\ MaxUrl \in Nat
<1>1. m.method \in Seq({"A"}) /\ m.url \in Seq(Word) /\ m.version \in Seq(Word)
  BY DEF WellFormed, RequestLine
<1>2. Len(m.method) \in Nat /\ Len(m.url) \in Nat /\ Len(m.version) \in Nat
  BY <1>1, LenProperties
<1> QED BY <1>1, <1>2, LimitAssumption

LEMMA RequestByte ==
  ASSUME NEW m, m = message, m.kind = "request", NEW p, NEW ch
  PROVE  ParseHeader(p, ch) = HttpParseRequestHeader(p, ch)
  BY DEF ParseHeader

LEMMA FailedBroken ==
  ASSUME NEW m, NEW p, NEW state, Reads(p, state), state # "END_MESSAGE", NEW f, f # "", Fault(m) = f
  PROVE  Broken(Failed(p, f), m)
<1>1. p.state # "END_MESSAGE"
  BY DEF Reads
<1>2. Failed(p, f).answer = f /\ Failed(p, f).state = p.state
  BY DEF Failed, Reads, Fields
<1> QED BY <1>1, <1>2 DEF Broken

LEMMA MethodByte ==
  ASSUME NEW m, m = message, WellFormed(m), NEW k \in Nat, k < Len(m.method), NEW p, InMethod(p, m, k)
  PROVE  IF k < MaxMethod THEN InMethod(ParseHeader(p, m.method[k + 1]), m, k + 1)
         ELSE Broken(ParseHeader(p, m.method[k + 1]), m)
<1> DEFINE ch == m.method[k + 1]
           v == SubSeq(m.method, 1, k)
           w == SubSeq(m.method, 1, k + 1)
<1>1. m.kind = "request" /\ p.method = v /\ p.url = <<>> /\ Reads(p, IF k = 0 THEN "START" ELSE "METHOD")
  BY DEF InMethod
<1>2. p.state \in {"START", "METHOD"}
  BY <1>1 DEF Reads
<1>3. /\ m.method \in Seq({"A"}) /\ Len(m.method) \in Nat /\ MaxMethod \in Nat
      /\ k \in 0..Len(m.method) /\ k + 1 \in 1..Len(m.method)
  <2>1. m.method \in Seq({"A"}) /\ Len(m.method) \in Nat /\ MaxMethod \in Nat
    BY <1>1, RequestTypes
  <2> QED BY <2>1
<1>4. ch = "A"
  BY <1>3, ElementOfSeq
<1>5. Len(v) = k /\ Append(v, ch) = w
  BY <1>3, Firsts, FirstsGrow
<1>6. ParseHeader(p, ch) = HttpParseRequestHeader(p, ch)
  BY <1>1, RequestByte
<1>7. HttpParseRequestHeader(p, ch) =
        IF Len(v) >= MaxMethod THEN Failed(p, "431")
        ELSE [p EXCEPT !.state = "METHOD", !.method = Append(@, ch)]
  <2>1. ch # " "
    BY <1>4
  <2> HIDE DEF ch, v
  <2> QED BY <1>1, <1>2, <1>4, <2>1 DEF HttpParseRequestHeader
<1> HIDE DEF ch, v, w
<1>8. CASE k < MaxMethod
  <2>1. ParseHeader(p, ch) = [p EXCEPT !.state = "METHOD", !.method = w]
    <3>1. ~(Len(v) >= MaxMethod)
      BY <1>3, <1>5, <1>8
    <3>2. ParseHeader(p, ch) = [p EXCEPT !.state = "METHOD", !.method = Append(@, ch)]
      BY <1>6, <1>7, <3>1
    <3> QED BY <1>1, <1>5, <3>2
  <2>2. PICK q : q = [p EXCEPT !.state = "METHOD", !.method = w]
    OBVIOUS
  <2>3. Reads(q, "METHOD") /\ q.method = w /\ q.url = <<>>
    BY <1>1, <2>2 DEF Reads, Fields
  <2>4. k + 1 # 0 /\ k + 1 <= MaxMethod /\ k + 1 <= Len(m.method)
    BY <1>3, <1>8
  <2>5. InMethod(q, m, k + 1)
    BY <1>1, <2>3, <2>4 DEF InMethod, w
  <2> QED BY <1>8, <2>1, <2>2, <2>5 DEF ch
<1>9. CASE ~(k < MaxMethod)
  <2>1. ParseHeader(p, ch) = Failed(p, "431")
    BY <1>3, <1>5, <1>6, <1>7, <1>9
  <2>2. Len(m.method) > MaxMethod
    BY <1>3, <1>9
  <2>3. Fault(m) = "431"
    <3>1. ~(Len(m.method) <= MaxMethod)
      BY <1>3, <2>2
    <3> QED BY <1>1, <2>2, <3>1 DEF Fault
  <2>4. Broken(Failed(p, "431"), m)
    BY <1>1, <2>3, FailedBroken
  <2> QED BY <1>9, <2>1, <2>4 DEF ch
<1> QED BY <1>8, <1>9

LEMMA MethodOver ==
  ASSUME NEW m, m = message, WellFormed(m), NEW p, InMethod(p, m, Len(m.method))
  PROVE  InUrl(ParseHeader(p, " "), m, 0)
<1> DEFINE k == Len(m.method)
<1>1. m.kind = "request" /\ p.method = SubSeq(m.method, 1, k) /\ p.url = <<>> /\ k <= MaxMethod
      /\ Reads(p, IF k = 0 THEN "START" ELSE "METHOD")
  BY DEF InMethod
<1>2. p.state \in {"START", "METHOD"}
  BY <1>1 DEF Reads
<1>3. /\ SubSeq(m.method, 1, k) = m.method /\ SubSeq(m.url, 1, 0) = <<>> /\ 0 <= Len(m.url) /\ 0 <= MaxUrl
  <2>1. m.method \in Seq({"A"}) /\ m.url \in Seq(Word) /\ Len(m.url) \in Nat /\ MaxUrl \in Nat
    BY <1>1, RequestTypes
  <2> QED BY <2>1, FirstsAll
<1>4. ParseHeader(p, " ") = HttpParseRequestHeader(p, " ")
  BY <1>1, RequestByte
<1>5. HttpParseRequestHeader(p, " ") = [p EXCEPT !.state = "URL"]
  BY <1>2 DEF HttpParseRequestHeader
<1>6. PICK q : q = [p EXCEPT !.state = "URL"]
  OBVIOUS
<1>7. Reads(q, "URL") /\ q.method = p.method /\ q.url = p.url
  BY <1>1, <1>6 DEF Reads, Fields
<1> QED BY <1>1, <1>3, <1>4, <1>5, <1>6, <1>7 DEF InUrl

LEMMA UrlByte ==
  ASSUME NEW m, m = message, WellFormed(m), NEW k \in Nat, k < Len(m.url), NEW p, InUrl(p, m, k)
  PROVE  IF k < MaxUrl THEN InUrl(ParseHeader(p, m.url[k + 1]), m, k + 1)
         ELSE Broken(ParseHeader(p, m.url[k + 1]), m)
<1> DEFINE ch == m.url[k + 1]
           v == SubSeq(m.url, 1, k)
           w == SubSeq(m.url, 1, k + 1)
<1>1. m.kind = "request" /\ p.method = m.method /\ p.url = v /\ Reads(p, "URL") /\ Len(m.method) <= MaxMethod
  BY DEF InUrl
<1>2. p.state = "URL"
  BY <1>1 DEF Reads
<1>3. /\ m.url \in Seq(Word) /\ Len(m.url) \in Nat /\ MaxUrl \in Nat
      /\ k \in 0..Len(m.url) /\ k + 1 \in 1..Len(m.url)
  <2>1. m.url \in Seq(Word) /\ Len(m.url) \in Nat /\ MaxUrl \in Nat
    BY <1>1, RequestTypes
  <2> QED BY <2>1
<1>4. ch # " "
  <2>1. ch \in Word
    BY <1>3, ElementOfSeq
  <2> QED BY <2>1 DEF Word
<1>5. Len(v) = k /\ Append(v, ch) = w
  BY <1>3, Firsts, FirstsGrow
<1>6. ParseHeader(p, ch) = HttpParseRequestHeader(p, ch)
  BY <1>1, RequestByte
<1>7. HttpParseRequestHeader(p, ch) =
        IF Len(v) >= MaxUrl THEN Failed(p, "414") ELSE [p EXCEPT !.url = Append(@, ch)]
  <2> HIDE DEF ch, v
  <2> QED BY <1>1, <1>2, <1>4 DEF HttpParseRequestHeader
<1> HIDE DEF ch, v, w
<1>8. CASE k < MaxUrl
  <2>1. ParseHeader(p, ch) = [p EXCEPT !.url = w]
    <3>1. ~(Len(v) >= MaxUrl)
      BY <1>3, <1>5, <1>8
    <3>2. ParseHeader(p, ch) = [p EXCEPT !.url = Append(@, ch)]
      BY <1>6, <1>7, <3>1
    <3> QED BY <1>1, <1>5, <3>2
  <2>2. PICK q : q = [p EXCEPT !.url = w]
    OBVIOUS
  <2>3. Reads(q, "URL") /\ q.url = w /\ q.method = p.method
    BY <1>1, <2>2 DEF Reads, Fields
  <2>4. k + 1 <= MaxUrl /\ k + 1 <= Len(m.url)
    BY <1>3, <1>8
  <2>5. InUrl(q, m, k + 1)
    BY <1>1, <2>3, <2>4 DEF InUrl, w
  <2> QED BY <1>8, <2>1, <2>2, <2>5 DEF ch
<1>9. CASE ~(k < MaxUrl)
  <2>1. ParseHeader(p, ch) = Failed(p, "414")
    BY <1>3, <1>5, <1>6, <1>7, <1>9
  <2>2. Len(m.url) > MaxUrl /\ ~(Len(m.method) > MaxMethod)
    <3>1. Len(m.method) \in Nat /\ MaxMethod \in Nat
      BY <1>1, RequestTypes
    <3> QED BY <1>1, <1>3, <1>9, <3>1
  <2>3. Fault(m) = "414"
    BY <1>1, <2>2 DEF Fault
  <2>4. Broken(Failed(p, "414"), m)
    BY <1>1, <2>3, FailedBroken
  <2> QED BY <1>9, <2>1, <2>4 DEF ch
<1> QED BY <1>8, <1>9

LEMMA UrlOver ==
  ASSUME NEW m, m = message, WellFormed(m), NEW p, InUrl(p, m, Len(m.url))
  PROVE  InVersion(ParseHeader(p, " "), m)
<1>1. /\ m.kind = "request" /\ p.method = m.method /\ p.url = SubSeq(m.url, 1, Len(m.url)) /\ Reads(p, "URL")
      /\ Len(m.method) <= MaxMethod /\ Len(m.url) <= MaxUrl
  BY DEF InUrl
<1>2. p.state = "URL"
  BY <1>1 DEF Reads
<1>3. SubSeq(m.url, 1, Len(m.url)) = m.url
  BY <1>1, RequestTypes, FirstsAll
<1>4. ParseHeader(p, " ") = HttpParseRequestHeader(p, " ")
  BY <1>1, RequestByte
<1>5. HttpParseRequestHeader(p, " ") = [p EXCEPT !.state = "VERSION"]
  BY <1>2 DEF HttpParseRequestHeader
<1>6. PICK q : q = [p EXCEPT !.state = "VERSION"]
  OBVIOUS
<1>7. Reads(q, "VERSION") /\ q.method = p.method /\ q.url = p.url
  BY <1>1, <1>6 DEF Reads, Fields
<1> QED BY <1>1, <1>3, <1>4, <1>5, <1>6, <1>7 DEF InVersion, Fits

LEMMA VersionByte ==
  ASSUME NEW m, m = message, NEW p, InVersion(p, m), NEW ch \in InLine
  PROVE  InVersion(ParseHeader(p, ch), m)
<1>1. p.state = "VERSION" /\ m.kind = "request"
  BY DEF InVersion, Reads
<1>2. ch \notin {CR, LF}
  BY CharFacts DEF CharsAre
<1>3. ParseHeader(p, ch) = HttpParseRequestHeader(p, ch)
  BY <1>1, RequestByte
<1>4. HttpParseRequestHeader(p, ch) = p
  BY <1>1, <1>2 DEF HttpParseRequestHeader
<1> QED BY <1>3, <1>4

LEMMA RequestLineOver ==
  ASSUME NEW m, m = message, NEW p, InVersion(p, m), NEW ch \in {CR, LF}
  PROVE  Began(ParseHeader(p, ch), m, IF ch = CR THEN "MAC_END" ELSE "LINUX_END", <<>>)
<1> DEFINE s == IF ch = CR THEN "MAC_END" ELSE "LINUX_END"
<1>1. p.state = "VERSION" /\ m.kind = "request"
  BY DEF InVersion, Reads
<1>2. ParseHeader(p, ch) = HttpParseRequestHeader(p, ch)
  BY <1>1, RequestByte
<1>3. HttpParseRequestHeader(p, ch) = FirstLineEnds(p, ch)
  BY <1>1 DEF HttpParseRequestHeader
<1>4. FirstLineEnds(p, ch) = [p EXCEPT !.state = s, !.headers = <<>>]
  BY DEF FirstLineEnds
<1> HIDE DEF s
<1>5. PICK q : q = [p EXCEPT !.state = s, !.headers = <<>>]
  OBVIOUS
<1>6. Began(q, m, s, <<>>)
  BY <1>1, <1>5 DEF InVersion, Reads, Fields, Began
<1> QED BY <1>2, <1>3, <1>4, <1>5, <1>6 DEF s

-----------------------------------------------------------------------------
(***************************************************************************)
(* The first line of a response                                            *)
(***************************************************************************)
InAnswer(p, m, k) ==
  /\ m.kind = "response" /\ k <= Len(m.version)
  /\ Reads(p, IF k = 0 THEN "START" ELSE "VERSION")
  /\ p.status = <<>>

InCode(p, m, k) ==
  /\ m.kind = "response" /\ k <= Len(m.code) /\ k <= MaxStatus
  /\ Reads(p, "CODE")
  /\ p.status = SubSeq(m.code, 1, k)

InMessage(p, m, k) ==
  /\ m.kind = "response" /\ Len(m.code) < MaxStatus /\ k <= Len(m.status) /\ k <= MaxStatus
  /\ Reads(p, "MESSAGE")
  /\ p.code = ParseLong(m.code) /\ p.status = SubSeq(m.status, 1, k)

LEMMA ResponseTypes ==
  ASSUME NEW m, WellFormed(m), m.kind = "response"
  PROVE  /\ m.version \in Seq(Word) /\ m.code \in Seq(Word) /\ m.status \in Seq(InLine)
         /\ Len(m.version) \in Nat /\ Len(m.code) \in Nat /\ Len(m.status) \in Nat
         /\ MaxStatus \in Nat
<1>1. m.version \in Seq(Word) /\ m.code \in Seq(Word) /\ m.status \in Seq(InLine)
  BY DEF WellFormed, ResponseLine
<1>2. MaxStatus \in Nat
  BY LimitAssumption
<1> QED BY <1>1, <1>2, LenProperties

LEMMA ResponseByte ==
  ASSUME NEW m, m = message, m.kind = "response", NEW p, NEW ch
  PROVE  ParseHeader(p, ch) = HttpParseResponseHeader(p, ch)
  BY DEF ParseHeader

LEMMA AnswerByte ==
  ASSUME NEW m, m = message, WellFormed(m), NEW k \in Nat, k < Len(m.version), NEW p, InAnswer(p, m, k)
  PROVE  InAnswer(ParseHeader(p, m.version[k + 1]), m, k + 1)
<1> DEFINE ch == m.version[k + 1]
<1>1. m.kind = "response" /\ p.status = <<>> /\ Reads(p, IF k = 0 THEN "START" ELSE "VERSION")
  BY DEF InAnswer
<1>2. p.state \in {"START", "VERSION"}
  BY <1>1 DEF Reads
<1>3. m.version \in Seq(Word) /\ Len(m.version) \in Nat
  BY <1>1, ResponseTypes
<1>4. k + 1 \in 1..Len(m.version) /\ k + 1 # 0 /\ k + 1 <= Len(m.version)
  BY <1>3
<1>5. ch # " "
  <2>1. ch \in Word
    BY <1>3, <1>4, ElementOfSeq
  <2> QED BY <2>1 DEF Word
<1> HIDE DEF ch
<1>6. ParseHeader(p, ch) = HttpParseResponseHeader(p, ch)
  BY <1>1, ResponseByte
<1>7. HttpParseResponseHeader(p, ch) = [p EXCEPT !.state = "VERSION"]
  BY <1>2, <1>5 DEF HttpParseResponseHeader
<1>8. PICK q : q = [p EXCEPT !.state = "VERSION"]
  OBVIOUS
<1>9. Reads(q, "VERSION") /\ q.status = <<>>
  BY <1>1, <1>8 DEF Reads, Fields
<1>10. InAnswer(q, m, k + 1)
  BY <1>1, <1>4, <1>9 DEF InAnswer
<1> QED BY <1>6, <1>7, <1>8, <1>10 DEF ch

LEMMA AnswerOver ==
  ASSUME NEW m, m = message, WellFormed(m), NEW p, InAnswer(p, m, Len(m.version))
  PROVE  InCode(ParseHeader(p, " "), m, 0)
<1>1. m.kind = "response" /\ p.status = <<>> /\ Reads(p, IF Len(m.version) = 0 THEN "START" ELSE "VERSION")
  BY DEF InAnswer
<1>2. p.state \in {"START", "VERSION"}
  BY <1>1 DEF Reads
<1>3. SubSeq(m.code, 1, 0) = <<>> /\ 0 <= Len(m.code) /\ 0 <= MaxStatus
  <2>1. m.code \in Seq(Word) /\ Len(m.code) \in Nat /\ MaxStatus \in Nat
    BY <1>1, ResponseTypes
  <2> QED BY <2>1, FirstsAll
<1>4. ParseHeader(p, " ") = HttpParseResponseHeader(p, " ")
  BY <1>1, ResponseByte
<1>5. HttpParseResponseHeader(p, " ") = [p EXCEPT !.state = "CODE"]
  BY <1>2 DEF HttpParseResponseHeader
<1>6. PICK q : q = [p EXCEPT !.state = "CODE"]
  OBVIOUS
<1>7. Reads(q, "CODE") /\ q.status = <<>>
  BY <1>1, <1>6 DEF Reads, Fields
<1> QED BY <1>1, <1>3, <1>4, <1>5, <1>6, <1>7 DEF InCode

LEMMA StatusFault ==
  ASSUME NEW m, m.kind = "response", Len(m.code) >= MaxStatus \/ Len(m.status) >= MaxStatus
  PROVE  Fault(m) = "failed"
  BY DEF Fault

LEMMA CodeByte ==
  ASSUME NEW m, m = message, WellFormed(m), NEW k \in Nat, k < Len(m.code), NEW p, InCode(p, m, k)
  PROVE  IF k < MaxStatus THEN InCode(ParseHeader(p, m.code[k + 1]), m, k + 1)
         ELSE Broken(ParseHeader(p, m.code[k + 1]), m)
<1> DEFINE ch == m.code[k + 1]
           v == SubSeq(m.code, 1, k)
           w == SubSeq(m.code, 1, k + 1)
<1>1. m.kind = "response" /\ p.status = v /\ Reads(p, "CODE")
  BY DEF InCode
<1>2. p.state = "CODE"
  BY <1>1 DEF Reads
<1>3. m.code \in Seq(Word) /\ Len(m.code) \in Nat /\ MaxStatus \in Nat
  BY <1>1, ResponseTypes
<1>4. k \in 0..Len(m.code) /\ k + 1 \in 1..Len(m.code)
  BY <1>3
<1>5. ch # " "
  <2>1. ch \in Word
    BY <1>3, <1>4, ElementOfSeq
  <2> QED BY <2>1 DEF Word
<1>6. Len(v) = k /\ Append(v, ch) = w
  BY <1>3, <1>4, Firsts, FirstsGrow
<1>7. ParseHeader(p, ch) = HttpParseResponseHeader(p, ch)
  BY <1>1, ResponseByte
<1> HIDE DEF ch, v, w
<1>8. CASE k < MaxStatus
  <2>1. ~(Len(p.status) >= MaxStatus)
    BY <1>1, <1>3, <1>6, <1>8
  <2>2. HttpParseResponseHeader(p, ch) = [p EXCEPT !.status = Append(@, ch)]
    BY <1>2, <1>5, <2>1 DEF HttpParseResponseHeader
  <2>3. ParseHeader(p, ch) = [p EXCEPT !.status = w]
    BY <1>1, <1>6, <1>7, <2>2
  <2>4. PICK q : q = [p EXCEPT !.status = w]
    OBVIOUS
  <2>5. Reads(q, "CODE") /\ q.status = w
    BY <1>1, <2>4 DEF Reads, Fields
  <2>6. k + 1 <= MaxStatus /\ k + 1 <= Len(m.code)
    BY <1>3, <1>8
  <2>7. InCode(q, m, k + 1)
    BY <1>1, <2>5, <2>6 DEF InCode, w
  <2> QED BY <1>8, <2>3, <2>4, <2>7 DEF ch
<1>9. CASE ~(k < MaxStatus)
  <2>1. Len(p.status) >= MaxStatus /\ Len(m.code) >= MaxStatus
    BY <1>1, <1>3, <1>6, <1>9
  <2>2. HttpParseResponseHeader(p, ch) = Failed(p, "failed")
    BY <1>2, <2>1 DEF HttpParseResponseHeader
  <2>3. Fault(m) = "failed"
    BY <1>1, <2>1, StatusFault
  <2>4. Broken(Failed(p, "failed"), m)
    BY <1>1, <2>3, FailedBroken
  <2> QED BY <1>7, <1>9, <2>2, <2>4 DEF ch
<1> QED BY <1>8, <1>9

(* A status code is a short. *)
LEMMA CodeIs ==
  ASSUME NEW m, WellFormed(m), m.kind = "response" PROVE IsShort(m.code) /\ ParseLong(m.code) = Number(m.code)
<1>1. m.code \in Seq(Word) /\ IsNumber(m.code) /\ Number(m.code) <= 65535
  <2>1. m.code \in Seq(Word) /\ CodeIsShort(m)
    BY DEF WellFormed, ResponseLine
  <2> QED BY <2>1 DEF CodeIsShort
<1>2. Len(m.code) \in Nat /\ DOMAIN m.code = 1..Len(m.code)
  BY <1>1, LenProperties
<1>3. Number(m.code) \in Nat
  BY <1>1, <1>2, NumberIsNat
<1>4. Number(m.code) < LongSize
  BY <1>1, <1>3, LimitAssumption
<1>5. ParseLong(m.code) = Number(m.code)
  BY <1>1, <1>2, <1>4, ParseLongIs
<1> QED BY <1>1, <1>5 DEF IsShort

LEMMA CodeOver ==
  ASSUME NEW m, m = message, WellFormed(m), NEW p, InCode(p, m, Len(m.code))
  PROVE  IF Len(m.code) < MaxStatus THEN InMessage(ParseHeader(p, " "), m, 0)
         ELSE Broken(ParseHeader(p, " "), m)
<1>1. m.kind = "response" /\ p.status = SubSeq(m.code, 1, Len(m.code)) /\ Reads(p, "CODE")
  BY DEF InCode
<1>2. p.state = "CODE"
  BY <1>1 DEF Reads
<1>3. m.code \in Seq(Word) /\ Len(m.code) \in Nat /\ MaxStatus \in Nat /\ m.status \in Seq(InLine) /\ Len(m.status) \in Nat
  BY <1>1, ResponseTypes
<1>4. p.status = m.code
  BY <1>1, <1>3, FirstsAll
<1>5. SubSeq(m.status, 1, 0) = <<>> /\ 0 <= Len(m.status) /\ 0 <= MaxStatus
  BY <1>3, FirstsAll
<1>6. IsShort(m.code)
  BY <1>1, CodeIs
<1>7. ParseHeader(p, " ") = HttpParseResponseHeader(p, " ")
  BY <1>1, ResponseByte
<1>8. CASE Len(m.code) < MaxStatus
  <2>1. ~(Len(p.status) >= MaxStatus) /\ IsShort(p.status)
    BY <1>3, <1>4, <1>6, <1>8
  <2>2. HttpParseResponseHeader(p, " ") = [p EXCEPT !.state = "MESSAGE", !.code = ParseLong(p.status), !.status = <<>>]
    BY <1>2, <2>1 DEF HttpParseResponseHeader
  <2>3. PICK c : c = ParseLong(m.code)
    OBVIOUS
  <2>4. PICK q : q = [p EXCEPT !.state = "MESSAGE", !.code = c, !.status = <<>>]
    OBVIOUS
  <2>5. Reads(q, "MESSAGE") /\ q.status = <<>> /\ q.code = c
    BY <1>1, <2>4 DEF Reads, Fields
  <2>6. InMessage(q, m, 0)
    BY <1>1, <1>5, <1>8, <2>3, <2>5 DEF InMessage
  <2>7. ParseHeader(p, " ") = q
    BY <1>4, <1>7, <2>2, <2>3, <2>4
  <2> QED BY <1>8, <2>6, <2>7
<1>9. CASE ~(Len(m.code) < MaxStatus)
  <2>1. Len(p.status) >= MaxStatus /\ Len(m.code) >= MaxStatus
    BY <1>3, <1>4, <1>9
  <2>2. HttpParseResponseHeader(p, " ") = Failed(p, "failed")
    BY <1>2, <2>1 DEF HttpParseResponseHeader
  <2>3. Fault(m) = "failed"
    BY <1>1, <2>1, StatusFault
  <2>4. Broken(Failed(p, "failed"), m)
    BY <1>1, <2>3, FailedBroken
  <2> QED BY <1>7, <1>9, <2>2, <2>4
<1> QED BY <1>8, <1>9

LEMMA MessageByte ==
  ASSUME NEW m, m = message, WellFormed(m), NEW k \in Nat, k < Len(m.status), NEW p, InMessage(p, m, k)
  PROVE  IF k < MaxStatus THEN InMessage(ParseHeader(p, m.status[k + 1]), m, k + 1)
         ELSE Broken(ParseHeader(p, m.status[k + 1]), m)
<1> DEFINE ch == m.status[k + 1]
           v == SubSeq(m.status, 1, k)
           w == SubSeq(m.status, 1, k + 1)
<1>1. m.kind = "response" /\ p.status = v /\ p.code = ParseLong(m.code) /\ Len(m.code) < MaxStatus /\ Reads(p, "MESSAGE")
  BY DEF InMessage
<1>2. p.state = "MESSAGE"
  BY <1>1 DEF Reads
<1>3. m.status \in Seq(InLine) /\ Len(m.status) \in Nat /\ MaxStatus \in Nat
  BY <1>1, ResponseTypes
<1>4. k \in 0..Len(m.status) /\ k + 1 \in 1..Len(m.status)
  BY <1>3
<1>5. ch \notin {CR, LF}
  <2>1. ch \in InLine
    BY <1>3, <1>4, ElementOfSeq
  <2> QED BY <2>1, CharFacts DEF CharsAre
<1>6. Len(v) = k /\ Append(v, ch) = w
  BY <1>3, <1>4, Firsts, FirstsGrow
<1>7. ParseHeader(p, ch) = HttpParseResponseHeader(p, ch)
  BY <1>1, ResponseByte
<1> HIDE DEF ch, v, w
<1>8. CASE k < MaxStatus
  <2>1. ~(Len(p.status) >= MaxStatus)
    BY <1>1, <1>3, <1>6, <1>8
  <2>2. HttpParseResponseHeader(p, ch) = [p EXCEPT !.status = Append(@, ch)]
    BY <1>2, <1>5, <2>1 DEF HttpParseResponseHeader
  <2>3. ParseHeader(p, ch) = [p EXCEPT !.status = w]
    BY <1>1, <1>6, <1>7, <2>2
  <2>4. PICK q : q = [p EXCEPT !.status = w]
    OBVIOUS
  <2>5. Reads(q, "MESSAGE") /\ q.status = w /\ q.code = p.code
    BY <1>1, <2>4 DEF Reads, Fields
  <2>6. k + 1 <= MaxStatus /\ k + 1 <= Len(m.status)
    BY <1>3, <1>8
  <2>7. InMessage(q, m, k + 1)
    BY <1>1, <2>5, <2>6 DEF InMessage, w
  <2> QED BY <1>8, <2>3, <2>4, <2>7 DEF ch
<1>9. CASE ~(k < MaxStatus)
  <2>1. Len(p.status) >= MaxStatus /\ Len(m.status) >= MaxStatus
    BY <1>1, <1>3, <1>6, <1>9
  <2>2. HttpParseResponseHeader(p, ch) = Failed(p, "failed")
    BY <1>2, <2>1 DEF HttpParseResponseHeader
  <2>3. Fault(m) = "failed"
    BY <1>1, <2>1, StatusFault
  <2>4. Broken(Failed(p, "failed"), m)
    BY <1>1, <2>3, FailedBroken
  <2> QED BY <1>7, <1>9, <2>2, <2>4 DEF ch
<1> QED BY <1>8, <1>9

LEMMA ResponseLineOver ==
  ASSUME NEW m, m = message, WellFormed(m), NEW p, InMessage(p, m, Len(m.status)), NEW ch \in {CR, LF}
  PROVE  IF Len(m.status) < MaxStatus
         THEN Fits(m) /\ Began(ParseHeader(p, ch), m, IF ch = CR THEN "MAC_END" ELSE "LINUX_END", <<>>)
         ELSE Broken(ParseHeader(p, ch), m)
<1> DEFINE s == IF ch = CR THEN "MAC_END" ELSE "LINUX_END"
<1>1. /\ m.kind = "response" /\ p.status = SubSeq(m.status, 1, Len(m.status)) /\ p.code = ParseLong(m.code)
      /\ Len(m.code) < MaxStatus /\ Reads(p, "MESSAGE")
  BY DEF InMessage
<1>2. p.state = "MESSAGE"
  BY <1>1 DEF Reads
<1>3. MaxStatus \in Nat /\ m.status \in Seq(InLine) /\ Len(m.status) \in Nat
  BY <1>1, ResponseTypes
<1>4. p.status = m.status
  BY <1>1, <1>3, FirstsAll
<1>5. ParseHeader(p, ch) = HttpParseResponseHeader(p, ch)
  BY <1>1, ResponseByte
<1>6. CASE Len(m.status) < MaxStatus
  <2>1. ~(Len(p.status) >= MaxStatus)
    BY <1>3, <1>4, <1>6
  <2>2. HttpParseResponseHeader(p, ch) = FirstLineEnds(p, ch)
    BY <1>2, <2>1 DEF HttpParseResponseHeader
  <2>3. FirstLineEnds(p, ch) = [p EXCEPT !.state = s, !.headers = <<>>]
    BY DEF FirstLineEnds
  <2> HIDE DEF s
  <2>4. PICK q : q = [p EXCEPT !.state = s, !.headers = <<>>]
    OBVIOUS
  <2>5. /\ DOMAIN q = Fields /\ q.state = s /\ q.answer = "" /\ q.headers = <<>> /\ q.body = <<>>
        /\ q.status = p.status /\ q.code = p.code
    BY <1>1, <2>4 DEF Reads, Fields
  <2>6. Began(q, m, s, <<>>)
    BY <1>1, <1>4, <2>5 DEF Began
  <2>7. Fits(m)
    BY <1>1, <1>6 DEF Fits
  <2> QED BY <1>5, <1>6, <2>2, <2>3, <2>4, <2>6, <2>7 DEF s
<1>7. CASE ~(Len(m.status) < MaxStatus)
  <2>1. Len(p.status) >= MaxStatus /\ Len(m.status) >= MaxStatus
    BY <1>3, <1>4, <1>7
  <2>2. HttpParseResponseHeader(p, ch) = Failed(p, "failed")
    BY <1>2, <2>1 DEF HttpParseResponseHeader
  <2>3. Fault(m) = "failed"
    BY <1>1, <2>1, StatusFault
  <2>4. Broken(Failed(p, "failed"), m)
    BY <1>1, <2>3, FailedBroken
  <2> QED BY <1>5, <1>7, <2>2, <2>4
<1> QED BY <1>6, <1>7

-----------------------------------------------------------------------------
(***************************************************************************)
(* One byte of the header                                                  *)
(***************************************************************************)
(* Where the second and the third part of a first line begin. *)
Second(a) == Len(a) + 1
Third(a, b) == Len(a) + 1 + Len(b) + 1

AtLine(p, m, k) ==
  \/ InMethod(p, m, k)
  \/ \E j \in Nat : k = Second(m.method) + j /\ InUrl(p, m, j)
  \/ \E j \in Nat : k = Third(m.method, m.url) + j /\ j <= Len(m.version) /\ InVersion(p, m)
  \/ InAnswer(p, m, k)
  \/ \E j \in Nat : k = Second(m.version) + j /\ InCode(p, m, j)
  \/ \E j \in Nat : k = Third(m.version, m.code) + j /\ InMessage(p, m, j)

HalfFirst(p, m, k) ==
  Len(m.eol) = 2 /\ k = LineEnd(m) + 1 /\ Fits(m) /\ Began(p, m, "MAC_END", <<>>)

AtRow(p, m, i) ==
  i <= Len(Rows(m)) /\ i <= MaxHeaders /\ Fits(m) /\ Began(p, m, RowState(m, i), SubSeq(Rows(m), 1, i))

AtRows(p, m, k) == \E i \in Nat : k = LineEnd(m) + Len(m.eol) + i /\ AtRow(p, m, i)

HalfLast(p, m, k) ==
  /\ Len(m.eol) = 2 /\ k = LineEnd(m) + Len(m.eol) + Len(Rows(m)) + 1
  /\ Len(Rows(m)) <= MaxHeaders /\ Fits(m) /\ Began(p, m, "WIN_END2", Rows(m))

HeaderRead(p, m) == Len(Rows(m)) <= MaxHeaders /\ Fits(m) /\ Began(p, m, "END_HEADER", Rows(m))

(* k bytes have been read, and the header goes on. *)
Scanned(p, m, k) == AtLine(p, m, k) \/ HalfFirst(p, m, k) \/ AtRows(p, m, k) \/ HalfLast(p, m, k)

(* k bytes have been read, the last of them by the parser. *)
ByteRead(p, m, k) == Broken(p, m) \/ Scanned(p, m, k) \/ (k = HeaderEnd(m) /\ HeaderRead(p, m))

LEMMA Behind ==
  ASSUME NEW t, NEW p \in Nat, NEW s, Len(s) \in Nat, Stands(t, p, s), NEW j \in Nat, j < Len(s)
  PROVE  t[p + j + 1] = s[j + 1]
<1>1. j + 1 \in 1..Len(s) /\ p + (j + 1) = p + j + 1
  OBVIOUS
<1>2. t[p + (j + 1)] = s[j + 1]
  BY <1>1 DEF Stands
<1> QED BY <1>1, <1>2

Sized(m) == LineEnd(m) \in Nat /\ Len(m.eol) \in {1, 2} /\ Len(Rows(m)) \in Nat /\ Len(m.body) \in Nat

LEMMA Sizes == ASSUME NEW m, WellFormed(m) PROVE Sized(m)
<1>1. m.body \in Seq(Chars)
  BY DEF WellFormed
<1>2. FirstLine(m) \in Seq(Chars) /\ Rows(m) \in Seq(Chars) /\ Len(m.eol) \in {1, 2}
  BY FirstLineType, RowsFlat, Eols
<1> QED BY <1>1, <1>2, LenProperties DEF Sized, LineEnd

(* Where the characters of the first line are. *)
LineChars(m, a, b, c) ==
  /\ Second(a) \in Nat /\ Third(a, b) \in Nat /\ Third(a, b) = Second(a) + Len(b) + 1
  /\ LineEnd(m) = Third(a, b) + Len(c)
  /\ \A j \in Nat : j < Len(a) => Text(m)[j + 1] = a[j + 1]
  /\ Text(m)[Len(a) + 1] = " "
  /\ \A j \in Nat : j < Len(b) => Text(m)[Second(a) + j + 1] = b[j + 1]
  /\ Text(m)[Second(a) + Len(b) + 1] = " "
  /\ \A j \in Nat : j < Len(c) => Text(m)[Third(a, b) + j + 1] = c[j + 1]

Space(sp) == Len(sp) = 1 /\ sp[1] = " "

LEMMA LinePlaces ==
  ASSUME NEW m, WellFormed(m), NEW a \in Seq(Chars), NEW b \in Seq(Chars), NEW c \in Seq(Chars),
         NEW sp \in Seq(Chars), Space(sp), FirstLine(m) = a \o sp \o b \o sp \o c
  PROVE  LineChars(m, a, b, c)
<1> DEFINE t == Text(m)
           f == FirstLine(m)
<1>1. Len(sp) = 1
  BY DEF Space
<1>2. Composed(Chars, f, a, sp, b, sp, c)
  BY FiveJoined
<1>3. Stands(t, 0, f)
  BY TextLaid DEF Laid
<1>4. Len(a) \in Nat /\ Len(b) \in Nat /\ Len(c) \in Nat
  BY LenProperties
<1> HIDE DEF t, f
<1>5. /\ f \in Seq(Chars) /\ Len(f) = Len(a) + 1 + Len(b) + 1 + Len(c)
      /\ Stands(f, 0, a) /\ Stands(f, Len(a), sp) /\ Stands(f, Len(a) + 1, b)
      /\ Stands(f, Len(a) + 1 + Len(b), sp) /\ Stands(f, Len(a) + 1 + Len(b) + 1, c)
  BY <1>1, <1>2 DEF Composed
<1>6. PICK x \in Nat : x = Len(a) + 1
  BY <1>4
<1>7. PICK y \in Nat : y = x + Len(b)
  BY <1>4, <1>6
<1>8. PICK z \in Nat : z = y + 1
  BY <1>7
<1>9. Len(f) = z + Len(c) /\ Stands(f, x, b) /\ Stands(f, y, sp) /\ Stands(f, z, c)
  BY <1>5, <1>6, <1>7, <1>8
<1>10. ASSUME NEW q \in Nat, NEW s, Len(s) \in Nat, Stands(f, q, s), q + Len(s) <= Len(f), NEW j \in Nat, j < Len(s)
       PROVE  t[q + j + 1] = s[j + 1]
  <2>1. f[q + j + 1] = s[j + 1]
    BY <1>10, Behind
  <2>2. q + j \in Nat /\ q + j < Len(f) /\ Len(f) \in Nat /\ 0 \in Nat
    BY <1>10, <1>4, <1>5
  <2>3. t[0 + (q + j) + 1] = f[(q + j) + 1]
    BY <1>3, <2>2, Behind
  <2>4. 0 + (q + j) + 1 = q + j + 1
    OBVIOUS
  <2> QED BY <2>1, <2>3, <2>4
<1>11. ASSUME NEW j \in Nat, j < Len(a) PROVE t[j + 1] = a[j + 1]
  <2>1. 0 \in Nat /\ 0 + Len(a) <= Len(f) /\ 0 + j + 1 = j + 1
    BY <1>4, <1>5
  <2>2. t[0 + j + 1] = a[j + 1]
    BY <1>4, <1>5, <1>10, <1>11, <2>1
  <2> QED BY <2>1, <2>2
<1>12. ASSUME NEW j \in Nat, j < Len(b) PROVE t[x + j + 1] = b[j + 1]
  <2>1. x + Len(b) <= Len(f)
    BY <1>4, <1>7, <1>8, <1>9
  <2> QED BY <1>4, <1>9, <1>10, <1>12, <2>1
<1>13. ASSUME NEW j \in Nat, j < Len(c) PROVE t[z + j + 1] = c[j + 1]
  <2>1. z + Len(c) <= Len(f)
    BY <1>4, <1>9
  <2> QED BY <1>4, <1>9, <1>10, <1>13, <2>1
<1>14. t[x] = " " /\ t[z] = " "
  <2>0. PICK o \in Nat : o = 0
    OBVIOUS
  <2>1. /\ o < Len(sp) /\ Len(sp) \in Nat /\ o + 1 = 1 /\ Len(a) + Len(sp) <= Len(f) /\ y + Len(sp) <= Len(f)
        /\ Len(a) + o + 1 = x /\ y + o + 1 = z
    BY <1>1, <1>4, <1>6, <1>7, <1>8, <1>9, <2>0
  <2>2. t[Len(a) + o + 1] = sp[o + 1]
    BY <1>4, <1>5, <1>10, <2>1
  <2>3. t[y + o + 1] = sp[o + 1]
    <3>1. Stands(f, y, sp)
      BY <1>9
    <3>2. y + Len(sp) <= Len(f) /\ o < Len(sp) /\ Len(sp) \in Nat
      BY <2>1
    <3> QED BY <1>10, <3>1, <3>2
  <2>4. sp[1] = " "
    BY DEF Space
  <2> QED BY <2>1, <2>2, <2>3, <2>4
<1>15. LineEnd(m) = Len(f)
  BY DEF LineEnd, f
<1>16. x = Second(a) /\ z = Third(a, b) /\ z = x + Len(b) + 1 /\ LineEnd(m) = z + Len(c)
  BY <1>6, <1>7, <1>8, <1>9, <1>15 DEF Second, Third
<1>17. t[Len(a) + 1] = " " /\ t[Second(a) + Len(b) + 1] = " "
  BY <1>6, <1>14, <1>16
<1>18. \A j \in Nat : j < Len(b) => t[Second(a) + j + 1] = b[j + 1]
  BY <1>12, <1>16
<1>19. \A j \in Nat : j < Len(c) => t[Third(a, b) + j + 1] = c[j + 1]
  BY <1>13, <1>16
<1>20. /\ Second(a) \in Nat /\ Third(a, b) \in Nat /\ Third(a, b) = Second(a) + Len(b) + 1
       /\ LineEnd(m) = Third(a, b) + Len(c)
  BY <1>16
<1> QED BY <1>11, <1>17, <1>18, <1>19, <1>20 DEF t, LineChars

LEMMA FirstLineChars ==
  ASSUME NEW m, WellFormed(m)
  PROVE  IF m.kind = "request" THEN LineChars(m, m.method, m.url, m.version)
         ELSE LineChars(m, m.version, m.code, m.status)
<1>1. InLine \subseteq Chars /\ Word \subseteq Chars /\ {"A"} \subseteq Chars
  BY CharFacts DEF CharsAre, Word
<1>0. PICK sp : sp = <<" ">>
  OBVIOUS
<1>4. sp \in Seq(Chars) /\ Space(sp)
  <2>1. " " \in Chars
    BY CharFacts DEF CharsAre
  <2>2. <<" ">> \in Seq(Chars)
    <3>1. \A x \in Chars : <<x>> \in Seq(Chars)
      OBVIOUS
    <3> QED BY <2>1, <3>1, Zenon
  <2>3. Len(<<" ">>) = 1 /\ <<" ">>[1] = " "
    OBVIOUS
  <2>4. Space(<<" ">>)
    BY <2>3 DEF Space
  <2> QED BY <1>0, <2>2, <2>4
<1>2. CASE m.kind = "request"
  <2>1. m.method \in Seq(Chars) /\ m.url \in Seq(Chars) /\ m.version \in Seq(Chars)
    BY <1>1, <1>2, RequestTypes, WiderSeq
  <2>2. FirstLine(m) = m.method \o sp \o m.url \o sp \o m.version
    BY <1>0, <1>2 DEF FirstLine
  <2> QED BY <1>2, <1>4, <2>1, <2>2, LinePlaces
<1>3. CASE m.kind # "request"
  <2>1. m.kind = "response"
    BY <1>3 DEF WellFormed
  <2>2. m.version \in Seq(Chars) /\ m.code \in Seq(Chars) /\ m.status \in Seq(Chars)
    BY <1>1, <2>1, ResponseTypes, WiderSeq
  <2>3. FirstLine(m) = m.version \o sp \o m.code \o sp \o m.status
    BY <1>0, <1>3 DEF FirstLine
  <2> QED BY <1>3, <1>4, <2>2, <2>3, LinePlaces
<1> QED BY <1>2, <1>3

(* Where the characters behind the first line are. *)
HeaderChars(m) ==
  /\ Text(m)[LineEnd(m) + 1] = m.eol[1]
  /\ Len(m.eol) = 2 => Text(m)[LineEnd(m) + 1 + 1] = m.eol[2]
  /\ \A i \in Nat : i < Len(Rows(m)) => Text(m)[LineEnd(m) + Len(m.eol) + i + 1] = Rows(m)[i + 1]
  /\ Text(m)[LineEnd(m) + Len(m.eol) + Len(Rows(m)) + 1] = m.eol[1]
  /\ Len(m.eol) = 2 => Text(m)[LineEnd(m) + Len(m.eol) + Len(Rows(m)) + 1 + 1] = m.eol[2]

LEMMA HeaderPlaces == ASSUME NEW m, WellFormed(m) PROVE HeaderChars(m)
<1> DEFINE t == Text(m)
           l == LineEnd(m)
           e == Len(m.eol)
           L == Rows(m)
<1>1. l \in Nat /\ e \in {1, 2} /\ Len(L) \in Nat
  BY Sizes DEF Sized
<1>2. Stands(t, l, m.eol) /\ Stands(t, l + e, L) /\ Stands(t, l + e + Len(L), m.eol)
  BY TextLaid DEF Laid
<1>4. Len(m.eol) = e
  OBVIOUS
<1> HIDE DEF t, l, e, L
<1>3. ASSUME NEW p \in Nat, Stands(t, p, m.eol) PROVE t[p + 1] = m.eol[1] /\ (e = 2 => t[p + 1 + 1] = m.eol[2])
  <2>1. 1 \in 1..e /\ (e = 2 => 2 \in 1..e) /\ p + 2 = p + 1 + 1
    BY <1>1
  <2>2. \A j \in 1..e : t[p + j] = m.eol[j]
    BY <1>3, <1>4 DEF Stands
  <2>3. t[p + 1] = m.eol[1]
    BY <2>1, <2>2
  <2>4. ASSUME e = 2 PROVE t[p + 2] = m.eol[2]
    <3>1. PICK w \in Nat : w = 2
      OBVIOUS
    <3>2. w \in 1..e
      BY <2>4, <3>1
    <3>3. t[p + w] = m.eol[w]
      BY <2>2, <3>2
    <3> QED BY <3>1, <3>3
  <2> QED BY <2>1, <2>3, <2>4
<1>5. ASSUME NEW i \in Nat, i < Len(L) PROVE t[l + e + i + 1] = L[i + 1]
  <2>1. PICK q \in Nat : q = l + e
    BY <1>1
  <2>2. Stands(t, q, L)
    BY <1>2, <2>1
  <2>3. t[q + i + 1] = L[i + 1]
    BY <1>1, <1>5, <2>2, Behind
  <2> QED BY <2>1, <2>3
<1>6. t[l + 1] = m.eol[1] /\ (e = 2 => t[l + 1 + 1] = m.eol[2])
  BY <1>1, <1>2, <1>3
<1>7. t[l + e + Len(L) + 1] = m.eol[1] /\ (e = 2 => t[l + e + Len(L) + 1 + 1] = m.eol[2])
  <2>1. PICK q \in Nat : q = l + e + Len(L)
    BY <1>1
  <2>2. Stands(t, q, m.eol)
    BY <1>2, <2>1
  <2>3. t[q + 1] = m.eol[1] /\ (e = 2 => t[q + 1 + 1] = m.eol[2])
    BY <1>3, <2>2
  <2> QED BY <2>1, <2>3
<1> QED BY <1>5, <1>6, <1>7 DEF HeaderChars, t, l, e, L

(* The first line is over. *)
LEMMA LineOver ==
  ASSUME NEW m, WellFormed(m), Fits(m), NEW q,
         Began(q, m, IF m.eol[1] = CR THEN "MAC_END" ELSE "LINUX_END", <<>>)
  PROVE  Scanned(q, m, LineEnd(m) + 1)
<1>1. LineEnd(m) \in Nat /\ Len(Rows(m)) \in Nat /\ MaxHeaders \in Nat
  BY Sizes, LimitAssumption DEF Sized
<1>2. CASE Len(m.eol) = 2
  <2>1. m.eol[1] = CR
    BY <1>2, Eols
  <2>2. HalfFirst(q, m, LineEnd(m) + 1)
    BY <1>2, <2>1 DEF HalfFirst
  <2> QED BY <2>2 DEF Scanned
<1>3. CASE Len(m.eol) # 2
  <2>1. Len(m.eol) = 1
    BY <1>3, Eols
  <2>2. RowState(m, 0) = IF m.eol[1] = CR THEN "MAC_END" ELSE "LINUX_END"
    BY <1>3 DEF RowState
  <2>3. SubSeq(Rows(m), 1, 0) = <<>>
    BY RowsFlat, FirstsAll
  <2>4. 0 <= Len(Rows(m)) /\ 0 <= MaxHeaders /\ 0 \in Nat /\ LineEnd(m) + 1 = LineEnd(m) + 1 + 0
    BY <1>1
  <2>5. AtRow(q, m, 0)
    BY <2>2, <2>3, <2>4 DEF AtRow
  <2>6. AtRows(q, m, LineEnd(m) + 1)
    BY <2>1, <2>4, <2>5 DEF AtRows
  <2> QED BY <2>6 DEF Scanned
<1> QED BY <1>2, <1>3

LEMMA EolFirst == ASSUME NEW m, WellFormed(m) PROVE m.eol[1] \in {CR, LF}
  BY Eols

LEMMA AtMethod ==
  ASSUME NEW m, m = message, WellFormed(m), NEW p, NEW k \in Nat, InMethod(p, m, k)
  PROVE  ByteRead(ParseHeader(p, Text(m)[k + 1]), m, k + 1)
<1> DEFINE q == ParseHeader(p, Text(m)[k + 1])
<1>1. m.kind = "request" /\ k <= Len(m.method)
  BY DEF InMethod
<1>2. Len(m.method) \in Nat /\ Len(m.url) \in Nat
  BY <1>1, RequestTypes
<1>3. LineChars(m, m.method, m.url, m.version)
  BY <1>1, FirstLineChars
<1>4. CASE k < Len(m.method)
  <2>1. Text(m)[k + 1] = m.method[k + 1]
    BY <1>3, <1>4 DEF LineChars
  <2>2. IF k < MaxMethod THEN InMethod(q, m, k + 1) ELSE Broken(q, m)
    BY <1>4, <2>1, MethodByte
  <2> QED BY <2>2 DEF AtLine, Scanned, ByteRead
<1>5. CASE k = Len(m.method)
  <2>1. Text(m)[k + 1] = " "
    BY <1>3, <1>5 DEF LineChars
  <2>2. InUrl(q, m, 0)
    BY <1>5, <2>1, MethodOver
  <2>3. 0 \in Nat /\ k + 1 = Second(m.method) + 0
    BY <1>2, <1>5 DEF Second
  <2>4. AtLine(q, m, k + 1)
    BY <2>2, <2>3 DEF AtLine
  <2> QED BY <2>4 DEF Scanned, ByteRead
<1> QED BY <1>1, <1>2, <1>4, <1>5

LEMMA AtUrl ==
  ASSUME NEW m, m = message, WellFormed(m), NEW p, NEW k \in Nat, NEW j \in Nat, k = Second(m.method) + j, InUrl(p, m, j)
  PROVE  ByteRead(ParseHeader(p, Text(m)[k + 1]), m, k + 1)
<1> DEFINE q == ParseHeader(p, Text(m)[k + 1])
<1>1. m.kind = "request" /\ j <= Len(m.url)
  BY DEF InUrl
<1>2. Len(m.method) \in Nat /\ Len(m.url) \in Nat
  BY <1>1, RequestTypes
<1>3. LineChars(m, m.method, m.url, m.version)
  BY <1>1, FirstLineChars
<1>4. CASE j < Len(m.url)
  <2>1. Text(m)[k + 1] = m.url[j + 1]
    BY <1>3, <1>4 DEF LineChars
  <2>2. IF j < MaxUrl THEN InUrl(q, m, j + 1) ELSE Broken(q, m)
    BY <1>4, <2>1, UrlByte
  <2>3. j + 1 \in Nat /\ k + 1 = Second(m.method) + (j + 1)
    <3>1. PICK x \in Nat : x = Second(m.method)
      BY <1>3 DEF LineChars
    <3>2. k = x + j
      BY <3>1
    <3>3. j + 1 \in Nat /\ k + 1 = x + (j + 1)
      BY <3>2
    <3> QED BY <3>1, <3>3
  <2>4. InUrl(q, m, j + 1) => AtLine(q, m, k + 1)
    BY <2>3 DEF AtLine
  <2> QED BY <2>2, <2>4 DEF Scanned, ByteRead
<1>5. CASE j = Len(m.url)
  <2>1. Text(m)[k + 1] = " "
    BY <1>3, <1>5 DEF LineChars
  <2>2. InVersion(q, m)
    BY <1>5, <2>1, UrlOver
  <2>3. 0 \in Nat /\ k + 1 = Third(m.method, m.url) + 0
    <3>1. PICK x \in Nat : x = Second(m.method)
      BY <1>3 DEF LineChars
    <3>2. k = x + j /\ Third(m.method, m.url) = x + j + 1
      BY <1>3, <1>5, <3>1 DEF LineChars
    <3> QED BY <3>2
  <2>4. 0 <= Len(m.version)
    <3>1. Len(m.version) \in Nat
      BY <1>1, RequestTypes
    <3> QED BY <3>1
  <2>5. AtLine(q, m, k + 1)
    BY <2>2, <2>3, <2>4 DEF AtLine
  <2> QED BY <2>5 DEF Scanned, ByteRead
<1> QED BY <1>1, <1>2, <1>4, <1>5

LEMMA AtVersion ==
  ASSUME NEW m, m = message, WellFormed(m), NEW p, NEW k \in Nat, NEW j \in Nat,
         k = Third(m.method, m.url) + j, j <= Len(m.version), InVersion(p, m)
  PROVE  ByteRead(ParseHeader(p, Text(m)[k + 1]), m, k + 1)
<1> DEFINE q == ParseHeader(p, Text(m)[k + 1])
<1>1. m.kind = "request" /\ Fits(m)
  BY DEF InVersion
<1>2. Len(m.method) \in Nat /\ Len(m.url) \in Nat /\ Len(m.version) \in Nat /\ m.version \in Seq(Word)
  BY <1>1, RequestTypes
<1>3. LineChars(m, m.method, m.url, m.version)
  BY <1>1, FirstLineChars
<1>4. CASE j < Len(m.version)
  <2>1. Text(m)[k + 1] = m.version[j + 1]
    BY <1>3, <1>4 DEF LineChars
  <2>2. j + 1 \in 1..Len(m.version)
    BY <1>2, <1>4
  <2>3. m.version[j + 1] \in InLine
    BY <1>2, <2>2, ElementOfSeq DEF Word
  <2>4. InVersion(q, m)
    BY <2>1, <2>3, VersionByte
  <2>5. j + 1 \in Nat /\ k + 1 = Third(m.method, m.url) + (j + 1) /\ j + 1 <= Len(m.version)
    <3>1. PICK x \in Nat : x = Third(m.method, m.url)
      BY <1>3 DEF LineChars
    <3>2. k = x + j
      BY <3>1
    <3>3. j + 1 \in Nat /\ k + 1 = x + (j + 1)
      BY <3>2
    <3>4. j + 1 <= Len(m.version)
      BY <2>2
    <3> QED BY <3>1, <3>3, <3>4
  <2>6. AtLine(q, m, k + 1)
    BY <2>4, <2>5 DEF AtLine
  <2> QED BY <2>6 DEF Scanned, ByteRead
<1>5. CASE j = Len(m.version)
  <2>1. k = LineEnd(m)
    BY <1>3, <1>5 DEF LineChars
  <2>2. Text(m)[k + 1] = m.eol[1]
    BY <2>1, HeaderPlaces DEF HeaderChars
  <2>3. Began(q, m, IF m.eol[1] = CR THEN "MAC_END" ELSE "LINUX_END", <<>>)
    BY <2>2, EolFirst, RequestLineOver
  <2>4. Scanned(q, m, LineEnd(m) + 1)
    BY <1>1, <2>3, LineOver
  <2> QED BY <2>1, <2>4 DEF ByteRead
<1>6. j < Len(m.version) \/ j = Len(m.version)
  <2>1. PICK y \in Nat : y = Len(m.version)
    BY <1>2
  <2> QED BY <2>1
<1> QED BY <1>4, <1>5, <1>6

LEMMA AtAnswer ==
  ASSUME NEW m, m = message, WellFormed(m), NEW p, NEW k \in Nat, InAnswer(p, m, k)
  PROVE  ByteRead(ParseHeader(p, Text(m)[k + 1]), m, k + 1)
<1> DEFINE q == ParseHeader(p, Text(m)[k + 1])
<1>1. m.kind = "response" /\ k <= Len(m.version)
  BY DEF InAnswer
<1>2. Len(m.version) \in Nat /\ Len(m.code) \in Nat
  BY <1>1, ResponseTypes
<1>3. LineChars(m, m.version, m.code, m.status)
  BY <1>1, FirstLineChars
<1>4. CASE k < Len(m.version)
  <2>1. Text(m)[k + 1] = m.version[k + 1]
    BY <1>3, <1>4 DEF LineChars
  <2>2. InAnswer(q, m, k + 1)
    BY <1>4, <2>1, AnswerByte
  <2> QED BY <2>2 DEF AtLine, Scanned, ByteRead
<1>5. CASE k = Len(m.version)
  <2>1. Text(m)[k + 1] = " "
    BY <1>3, <1>5 DEF LineChars
  <2>2. InCode(q, m, 0)
    BY <1>5, <2>1, AnswerOver
  <2>3. 0 \in Nat /\ k + 1 = Second(m.version) + 0
    BY <1>2, <1>5 DEF Second
  <2>4. AtLine(q, m, k + 1)
    BY <2>2, <2>3 DEF AtLine
  <2> QED BY <2>4 DEF Scanned, ByteRead
<1> QED BY <1>1, <1>2, <1>4, <1>5

LEMMA AtCode ==
  ASSUME NEW m, m = message, WellFormed(m), NEW p, NEW k \in Nat, NEW j \in Nat, k = Second(m.version) + j, InCode(p, m, j)
  PROVE  ByteRead(ParseHeader(p, Text(m)[k + 1]), m, k + 1)
<1> DEFINE q == ParseHeader(p, Text(m)[k + 1])
<1>1. m.kind = "response" /\ j <= Len(m.code)
  BY DEF InCode
<1>2. Len(m.version) \in Nat /\ Len(m.code) \in Nat
  BY <1>1, ResponseTypes
<1>3. LineChars(m, m.version, m.code, m.status)
  BY <1>1, FirstLineChars
<1>4. CASE j < Len(m.code)
  <2>1. Text(m)[k + 1] = m.code[j + 1]
    BY <1>3, <1>4 DEF LineChars
  <2>2. IF j < MaxStatus THEN InCode(q, m, j + 1) ELSE Broken(q, m)
    BY <1>4, <2>1, CodeByte
  <2>3. j + 1 \in Nat /\ k + 1 = Second(m.version) + (j + 1)
    <3>1. PICK x \in Nat : x = Second(m.version)
      BY <1>3 DEF LineChars
    <3>2. k = x + j
      BY <3>1
    <3>3. j + 1 \in Nat /\ k + 1 = x + (j + 1)
      BY <3>2
    <3> QED BY <3>1, <3>3
  <2>4. InCode(q, m, j + 1) => AtLine(q, m, k + 1)
    BY <2>3 DEF AtLine
  <2> QED BY <2>2, <2>4 DEF Scanned, ByteRead
<1>5. CASE j = Len(m.code)
  <2>1. Text(m)[k + 1] = " "
    BY <1>3, <1>5 DEF LineChars
  <2>2. IF Len(m.code) < MaxStatus THEN InMessage(q, m, 0) ELSE Broken(q, m)
    BY <1>5, <2>1, CodeOver
  <2>3. 0 \in Nat /\ k + 1 = Third(m.version, m.code) + 0
    <3>1. PICK x \in Nat : x = Second(m.version)
      BY <1>3 DEF LineChars
    <3>2. k = x + j /\ Third(m.version, m.code) = x + j + 1
      BY <1>3, <1>5, <3>1 DEF LineChars
    <3> QED BY <3>2
  <2>4. InMessage(q, m, 0) => AtLine(q, m, k + 1)
    BY <2>3 DEF AtLine
  <2> QED BY <2>2, <2>4 DEF Scanned, ByteRead
<1> QED BY <1>1, <1>2, <1>4, <1>5

LEMMA AtMessage ==
  ASSUME NEW m, m = message, WellFormed(m), NEW p, NEW k \in Nat, NEW j \in Nat,
         k = Third(m.version, m.code) + j, InMessage(p, m, j)
  PROVE  ByteRead(ParseHeader(p, Text(m)[k + 1]), m, k + 1)
<1> DEFINE q == ParseHeader(p, Text(m)[k + 1])
<1>1. m.kind = "response" /\ j <= Len(m.status)
  BY DEF InMessage
<1>2. Len(m.version) \in Nat /\ Len(m.code) \in Nat /\ Len(m.status) \in Nat
  BY <1>1, ResponseTypes
<1>3. LineChars(m, m.version, m.code, m.status)
  BY <1>1, FirstLineChars
<1>4. CASE j < Len(m.status)
  <2>1. Text(m)[k + 1] = m.status[j + 1]
    BY <1>3, <1>4 DEF LineChars
  <2>2. IF j < MaxStatus THEN InMessage(q, m, j + 1) ELSE Broken(q, m)
    BY <1>4, <2>1, MessageByte
  <2>3. j + 1 \in Nat /\ k + 1 = Third(m.version, m.code) + (j + 1)
    <3>1. PICK x \in Nat : x = Third(m.version, m.code)
      BY <1>3 DEF LineChars
    <3>2. k = x + j
      BY <3>1
    <3>3. j + 1 \in Nat /\ k + 1 = x + (j + 1)
      BY <3>2
    <3> QED BY <3>1, <3>3
  <2>4. InMessage(q, m, j + 1) => AtLine(q, m, k + 1)
    BY <2>3 DEF AtLine
  <2> QED BY <2>2, <2>4 DEF Scanned, ByteRead
<1>5. CASE j = Len(m.status)
  <2>1. k = LineEnd(m)
    BY <1>3, <1>5 DEF LineChars
  <2>2. Text(m)[k + 1] = m.eol[1]
    BY <2>1, HeaderPlaces DEF HeaderChars
  <2>3. IF Len(m.status) < MaxStatus
        THEN Fits(m) /\ Began(q, m, IF m.eol[1] = CR THEN "MAC_END" ELSE "LINUX_END", <<>>)
        ELSE Broken(q, m)
    BY <1>5, <2>2, EolFirst, ResponseLineOver
  <2>4. CASE Len(m.status) < MaxStatus
    <3>1. Scanned(q, m, LineEnd(m) + 1)
      BY <2>3, <2>4, LineOver
    <3> QED BY <2>1, <3>1 DEF ByteRead
  <2> QED BY <2>3, <2>4 DEF ByteRead
<1>6. j < Len(m.status) \/ j = Len(m.status)
  <2>1. PICK y \in Nat : y = Len(m.status)
    BY <1>2
  <2> QED BY <1>1, <2>1
<1> QED BY <1>4, <1>5, <1>6

(* In the rows, or at their end. *)
LEMMA AtRowByte ==
  ASSUME NEW m, m = message, WellFormed(m), NEW p, NEW k \in Nat, NEW i \in Nat,
         k = LineEnd(m) + Len(m.eol) + i, AtRow(p, m, i)
  PROVE  ByteRead(ParseHeader(p, Text(m)[k + 1]), m, k + 1)
<1> DEFINE q == ParseHeader(p, Text(m)[k + 1])
           L == Rows(m)
<1>1. i <= Len(L) /\ i <= MaxHeaders /\ Fits(m) /\ Began(p, m, RowState(m, i), SubSeq(L, 1, i))
  BY DEF AtRow
<1>2. LineEnd(m) \in Nat /\ Len(m.eol) \in {1, 2} /\ Len(L) \in Nat
  BY Sizes DEF Sized
<1>3. HeaderChars(m)
  BY HeaderPlaces
<1>4. PICK x \in Nat : x = LineEnd(m) + Len(m.eol)
  BY <1>2
<1>5. k = x + i /\ k + 1 = x + (i + 1) /\ i + 1 \in Nat
  <2>1. k = x + i
    BY <1>4
  <2> QED BY <2>1
<1>6. CASE i < Len(L)
  <2>1. Text(m)[k + 1] = L[i + 1]
    BY <1>3, <1>6 DEF HeaderChars
  <2>2. IF i < MaxHeaders THEN Began(q, m, RowState(m, i + 1), SubSeq(L, 1, i + 1)) ELSE Broken(q, m)
    BY <1>1, <1>6, <2>1, RowByte
  <2>3. CASE i < MaxHeaders
    <3>1. i + 1 <= Len(L) /\ i + 1 <= MaxHeaders
      BY <1>2, <1>6, <2>3, LimitAssumption
    <3>2. AtRow(q, m, i + 1)
      BY <1>1, <2>2, <2>3, <3>1 DEF AtRow
    <3>3. AtRows(q, m, k + 1)
      BY <1>4, <1>5, <3>2 DEF AtRows
    <3> QED BY <3>3 DEF Scanned, ByteRead
  <2> QED BY <2>2, <2>3 DEF ByteRead
<1>7. CASE i = Len(L)
  <2>1. Text(m)[k + 1] = m.eol[1]
    BY <1>3, <1>7 DEF HeaderChars
  <2>2. SubSeq(L, 1, i) = L
    BY <1>7, RowsFlat, FirstsAll
  <2>3. Began(p, m, RowState(m, Len(L)), L)
    BY <1>1, <1>7, <2>2
  <2>4. Began(q, m, IF Len(m.eol) = 2 THEN "WIN_END2" ELSE "END_HEADER", L)
    BY <2>1, <2>3, LastByte
  <2>5. CASE Len(m.eol) = 2
    <3>1. k + 1 = LineEnd(m) + Len(m.eol) + Len(L) + 1
      BY <1>7
    <3>2. HalfLast(q, m, k + 1)
      BY <1>1, <1>7, <2>4, <2>5, <3>1 DEF HalfLast
    <3> QED BY <3>2 DEF Scanned, ByteRead
  <2>6. CASE Len(m.eol) # 2
    <3>1. Len(m.eol) = 1
      BY <1>2, <2>6
    <3>2. HeaderEnd(m) = k + 1
      BY <1>4, <1>5, <1>7, <3>1 DEF HeaderEnd
    <3>3. HeaderRead(q, m)
      BY <1>1, <1>7, <2>4, <2>6 DEF HeaderRead
    <3> QED BY <3>2, <3>3 DEF ByteRead
  <2> QED BY <2>5, <2>6
<1>8. i < Len(L) \/ i = Len(L)
  BY <1>1, <1>2
<1> QED BY <1>6, <1>7, <1>8

LEMMA HalfFirstByte ==
  ASSUME NEW m, m = message, WellFormed(m), NEW p, NEW k \in Nat, HalfFirst(p, m, k)
  PROVE  ByteRead(ParseHeader(p, Text(m)[k + 1]), m, k + 1)
<1> DEFINE q == ParseHeader(p, Text(m)[k + 1])
<1>1. Len(m.eol) = 2 /\ k = LineEnd(m) + 1 /\ Fits(m) /\ Began(p, m, "MAC_END", <<>>)
  BY DEF HalfFirst
<1>2. Text(m)[k + 1] = LF
  BY <1>1, HeaderPlaces, Eols DEF HeaderChars
<1>3. Began(q, m, "WIN_END", <<>>)
  BY <1>1, <1>2, WinFirst
<1>4. RowState(m, 0) = "WIN_END" /\ SubSeq(Rows(m), 1, 0) = <<>>
  BY <1>1, RowsFlat, FirstsAll DEF RowState
<1>5. 0 <= Len(Rows(m)) /\ 0 <= MaxHeaders /\ 0 \in Nat /\ LineEnd(m) \in Nat
  BY Sizes, LimitAssumption DEF Sized
<1>6. k + 1 = LineEnd(m) + 2 + 0
  BY <1>1, <1>5
<1>7. AtRow(q, m, 0)
  BY <1>1, <1>3, <1>4, <1>5 DEF AtRow
<1>8. AtRows(q, m, k + 1)
  BY <1>1, <1>5, <1>6, <1>7 DEF AtRows
<1> QED BY <1>8 DEF Scanned, ByteRead

LEMMA HalfLastByte ==
  ASSUME NEW m, m = message, WellFormed(m), NEW p, NEW k \in Nat, HalfLast(p, m, k)
  PROVE  ByteRead(ParseHeader(p, Text(m)[k + 1]), m, k + 1)
<1> DEFINE q == ParseHeader(p, Text(m)[k + 1])
<1>1. /\ Len(m.eol) = 2 /\ k = LineEnd(m) + Len(m.eol) + Len(Rows(m)) + 1
      /\ Len(Rows(m)) <= MaxHeaders /\ Fits(m) /\ Began(p, m, "WIN_END2", Rows(m))
  BY DEF HalfLast
<1>2. Text(m)[k + 1] = LF
  <2>1. Text(m)[LineEnd(m) + Len(m.eol) + Len(Rows(m)) + 1 + 1] = m.eol[2]
    BY <1>1, HeaderPlaces DEF HeaderChars
  <2>2. m.eol[2] = LF
    BY <1>1, Eols
  <2> QED BY <1>1, <2>1, <2>2
<1>3. Began(q, m, "END_HEADER", Rows(m))
  BY <1>1, <1>2, WinLast
<1>4. LineEnd(m) \in Nat /\ Len(Rows(m)) \in Nat
  BY Sizes DEF Sized
<1>5. HeaderEnd(m) = k + 1
  BY <1>1, <1>4 DEF HeaderEnd
<1> QED BY <1>1, <1>3, <1>5 DEF HeaderRead, ByteRead

(* Whatever the parser has read, it reads one byte more. *)
LEMMA ByteStep ==
  ASSUME NEW m, m = message, WellFormed(m), NEW p, NEW k \in Nat, Scanned(p, m, k)
  PROVE  ByteRead(ParseHeader(p, Text(m)[k + 1]), m, k + 1)
<1>1. CASE AtLine(p, m, k)
  BY <1>1, AtMethod, AtUrl, AtVersion, AtAnswer, AtCode, AtMessage DEF AtLine
<1>2. CASE AtRows(p, m, k)
  BY <1>2, AtRowByte DEF AtRows
<1> QED BY <1>1, <1>2, HalfFirstByte, HalfLastByte DEF Scanned

LEMMA LineEarly ==
  ASSUME NEW m, WellFormed(m), NEW p, NEW k \in Nat, AtLine(p, m, k)
  PROVE  k <= LineEnd(m)
<1>0. IF m.kind = "request" THEN LineChars(m, m.method, m.url, m.version)
      ELSE LineChars(m, m.version, m.code, m.status)
  BY FirstLineChars
<1>7. ASSUME NEW a, NEW b, NEW c, LineChars(m, a, b, c), Len(a) \in Nat, Len(b) \in Nat, Len(c) \in Nat
      PROVE  Len(a) <= LineEnd(m) /\ Second(a) + Len(b) <= LineEnd(m) /\ Third(a, b) + Len(c) <= LineEnd(m)
             /\ Second(a) \in Nat /\ Third(a, b) \in Nat
  <2>1. PICK x \in Nat : x = Second(a)
    BY <1>7 DEF LineChars
  <2>2. PICK y \in Nat : y = Third(a, b)
    BY <1>7 DEF LineChars
  <2>3. y = x + Len(b) + 1 /\ LineEnd(m) = y + Len(c) /\ x = Len(a) + 1
    BY <1>7, <2>1, <2>2 DEF LineChars, Second
  <2>4. Len(a) <= y + Len(c) /\ x + Len(b) <= y + Len(c) /\ y + Len(c) <= y + Len(c)
    BY <1>7, <2>3
  <2> QED BY <2>1, <2>2, <2>3, <2>4
<1>8. ASSUME NEW x \in Nat, NEW y \in Nat, x + y <= LineEnd(m), NEW j \in Nat, j <= y PROVE x + j <= LineEnd(m)
  <2>1. LineEnd(m) \in Nat
    BY Sizes DEF Sized
  <2> QED BY <1>8, <2>1
<1>1. CASE InMethod(p, m, k)
  <2>1. m.kind = "request" /\ k <= Len(m.method)
    BY <1>1 DEF InMethod
  <2>2. Len(m.method) \in Nat /\ Len(m.url) \in Nat /\ Len(m.version) \in Nat
    BY <2>1, RequestTypes
  <2>3. LineChars(m, m.method, m.url, m.version)
    BY <1>0, <2>1
  <2>4. Len(m.method) <= LineEnd(m) /\ LineEnd(m) \in Nat
    BY <1>7, <2>2, <2>3, Sizes DEF Sized
  <2> QED BY <2>1, <2>2, <2>4
<1>2. ASSUME NEW j \in Nat, k = Second(m.method) + j, InUrl(p, m, j) PROVE k <= LineEnd(m)
  <2>1. m.kind = "request" /\ j <= Len(m.url)
    BY <1>2 DEF InUrl
  <2>2. Len(m.method) \in Nat /\ Len(m.url) \in Nat /\ Len(m.version) \in Nat
    BY <2>1, RequestTypes
  <2>3. LineChars(m, m.method, m.url, m.version)
    BY <1>0, <2>1
  <2>4. Second(m.method) + Len(m.url) <= LineEnd(m) /\ Second(m.method) \in Nat
    BY <1>7, <2>2, <2>3
  <2> QED BY <1>2, <1>8, <2>1, <2>2, <2>4
<1>3. ASSUME NEW j \in Nat, k = Third(m.method, m.url) + j, j <= Len(m.version), InVersion(p, m) PROVE k <= LineEnd(m)
  <2>1. m.kind = "request"
    BY <1>3 DEF InVersion
  <2>2. Len(m.method) \in Nat /\ Len(m.url) \in Nat /\ Len(m.version) \in Nat
    BY <2>1, RequestTypes
  <2>3. LineChars(m, m.method, m.url, m.version)
    BY <1>0, <2>1
  <2>4. Third(m.method, m.url) + Len(m.version) <= LineEnd(m) /\ Third(m.method, m.url) \in Nat
    BY <1>7, <2>2, <2>3
  <2> QED BY <1>3, <1>8, <2>1, <2>2, <2>4
<1>4. CASE InAnswer(p, m, k)
  <2>1. m.kind = "response" /\ k <= Len(m.version)
    BY <1>4 DEF InAnswer
  <2>2. Len(m.version) \in Nat /\ Len(m.code) \in Nat /\ Len(m.status) \in Nat
    BY <2>1, ResponseTypes
  <2>3. LineChars(m, m.version, m.code, m.status)
    BY <1>0, <2>1
  <2>4. Len(m.version) <= LineEnd(m) /\ LineEnd(m) \in Nat
    BY <1>7, <2>2, <2>3, Sizes DEF Sized
  <2> QED BY <2>1, <2>2, <2>4
<1>5. ASSUME NEW j \in Nat, k = Second(m.version) + j, InCode(p, m, j) PROVE k <= LineEnd(m)
  <2>1. m.kind = "response" /\ j <= Len(m.code)
    BY <1>5 DEF InCode
  <2>2. Len(m.version) \in Nat /\ Len(m.code) \in Nat /\ Len(m.status) \in Nat
    BY <2>1, ResponseTypes
  <2>3. LineChars(m, m.version, m.code, m.status)
    BY <1>0, <2>1
  <2>4. Second(m.version) + Len(m.code) <= LineEnd(m) /\ Second(m.version) \in Nat
    BY <1>7, <2>2, <2>3
  <2> QED BY <1>5, <1>8, <2>1, <2>2, <2>4
<1>6. ASSUME NEW j \in Nat, k = Third(m.version, m.code) + j, InMessage(p, m, j) PROVE k <= LineEnd(m)
  <2>1. m.kind = "response" /\ j <= Len(m.status)
    BY <1>6 DEF InMessage
  <2>2. Len(m.version) \in Nat /\ Len(m.code) \in Nat /\ Len(m.status) \in Nat
    BY <2>1, ResponseTypes
  <2>3. LineChars(m, m.version, m.code, m.status)
    BY <1>0, <2>1
  <2>4. Third(m.version, m.code) + Len(m.status) <= LineEnd(m) /\ Third(m.version, m.code) \in Nat
    BY <1>7, <2>2, <2>3
  <2> QED BY <1>6, <1>8, <2>1, <2>2, <2>4
<1> QED BY <1>1, <1>2, <1>3, <1>4, <1>5, <1>6 DEF AtLine

(* While the header goes on, the message has not arrived. *)
LEMMA ScannedEarly ==
  ASSUME NEW m, WellFormed(m), NEW p, NEW k \in Nat, Scanned(p, m, k)
  PROVE  k < HeaderEnd(m)
<1>1. LineEnd(m) \in Nat /\ Len(m.eol) \in {1, 2} /\ Len(Rows(m)) \in Nat
  BY Sizes DEF Sized
<1>2. PICK e \in {1, 2} : e = Len(m.eol)
  BY <1>1
<1>3. HeaderEnd(m) = LineEnd(m) + e + Len(Rows(m)) + e
  BY <1>2 DEF HeaderEnd
<1>4. CASE AtLine(p, m, k)
  <2>1. k <= LineEnd(m)
    BY <1>4, LineEarly
  <2> QED BY <1>1, <1>3, <2>1
<1>5. CASE HalfFirst(p, m, k)
  BY <1>1, <1>2, <1>3, <1>5 DEF HalfFirst
<1>6. CASE AtRows(p, m, k)
  <2>1. PICK i \in Nat : k = LineEnd(m) + Len(m.eol) + i /\ AtRow(p, m, i)
    BY <1>6 DEF AtRows
  <2>2. i <= Len(Rows(m)) /\ k = LineEnd(m) + e + i
    BY <1>2, <2>1 DEF AtRow
  <2> QED BY <1>1, <1>3, <2>2
<1>7. CASE HalfLast(p, m, k)
  <2>1. k = LineEnd(m) + e + Len(Rows(m)) + 1 /\ e = 2
    BY <1>2, <1>7 DEF HalfLast
  <2> QED BY <1>1, <1>3, <2>1
<1> QED BY <1>4, <1>5, <1>6, <1>7 DEF Scanned

LEMMA ScannedGoesOn ==
  ASSUME NEW m, WellFormed(m), NEW p, NEW k, Scanned(p, m, k)
  PROVE  ~HeaderOver(p) /\ p.answer = "" /\ p.state \notin {"END_HEADER", "END_MESSAGE"}
<1>1. ASSUME NEW s, Reads(p, s), s \notin {"END_HEADER", "END_MESSAGE"}
      PROVE  p.answer = "" /\ p.state \notin {"END_HEADER", "END_MESSAGE"}
  BY <1>1 DEF Reads
<1>2. ASSUME NEW s, NEW h, Began(p, m, s, h), s \notin {"END_HEADER", "END_MESSAGE"}
      PROVE  p.answer = "" /\ p.state \notin {"END_HEADER", "END_MESSAGE"}
  BY <1>2 DEF Began
<1>3. CASE AtLine(p, m, k)
  <2>1. \E s : Reads(p, s) /\ s \notin {"END_HEADER", "END_MESSAGE"}
    BY <1>3 DEF AtLine, InMethod, InUrl, InVersion, InAnswer, InCode, InMessage
  <2> QED BY <1>1, <2>1 DEF HeaderOver
<1>4. CASE HalfFirst(p, m, k) \/ HalfLast(p, m, k)
  <2>1. p.answer = "" /\ p.state \notin {"END_HEADER", "END_MESSAGE"}
    BY <1>4 DEF HalfFirst, HalfLast, Began
  <2> QED BY <2>1 DEF HeaderOver
<1>5. CASE AtRows(p, m, k)
  <2>1. PICK i \in Nat : Began(p, m, RowState(m, i), SubSeq(Rows(m), 1, i))
    BY <1>5 DEF AtRows, AtRow
  <2>2. RowState(m, i) \notin {"END_HEADER", "END_MESSAGE"}
    BY DEF RowState
  <2> QED BY <1>2, <2>1, <2>2 DEF HeaderOver
<1> QED BY <1>3, <1>4, <1>5 DEF Scanned, HeaderOver

-----------------------------------------------------------------------------
(***************************************************************************)
(* The header bytes of a segment                                           *)
(***************************************************************************)
Read(before, ch, k) ==
  IF HeaderOver(before.parser) THEN before
  ELSE [parser |-> ParseHeader(before.parser, ch), used |-> k]

NoneRead == [parser |-> parser, used |-> 0]

Run(g, segment, n) == g = [k \in 0..n |-> IF k = 0 THEN NoneRead ELSE Read(g[k - 1], segment[k], k)]

LEMMA RunExists == ASSUME NEW segment, NEW n \in Nat PROVE \E g : Run(g, segment, n)
<1> DEFINE S == {j \in Nat : \E g : Run(g, segment, j)}
<1>1. 0 \in S
  <2> DEFINE g == [k \in 0..0 |-> NoneRead]
  <2>1. Run(g, segment, 0)
    BY DEF Run
  <2> QED BY <2>1
<1>2. ASSUME NEW j \in Nat, j \in S PROVE j + 1 \in S
  <2>1. PICK g : Run(g, segment, j)
    BY <1>2
  <2>2. \A k \in 0..j : g[k] = IF k = 0 THEN NoneRead ELSE Read(g[k - 1], segment[k], k)
    BY <2>1 DEF Run
  <2> DEFINE h == [k \in 0..(j + 1) |-> IF k = 0 THEN NoneRead ELSE Read(g[k - 1], segment[k], k)]
  <2>3. \A k \in 0..j : h[k] = g[k]
    BY <2>2
  <2>4. \A k \in 0..(j + 1) : h[k] = IF k = 0 THEN NoneRead ELSE Read(h[k - 1], segment[k], k)
    <3> TAKE k \in 0..(j + 1)
    <3>1. CASE k = 0
      BY <3>1
    <3>2. CASE k # 0
      <4>1. k - 1 \in 0..j
        BY <3>2
      <4>2. h[k] = Read(g[k - 1], segment[k], k)
        BY <3>2
      <4>3. h[k - 1] = g[k - 1]
        BY <2>3, <4>1
      <4> QED BY <3>2, <4>2, <4>3
    <3> QED BY <3>1, <3>2
  <2>5. h = [k \in 0..(j + 1) |-> h[k]]
    OBVIOUS
  <2> HIDE DEF h
  <2>6. Run(h, segment, j + 1)
    BY <2>4, <2>5 DEF Run
  <2> QED BY <2>6
<1>3. \A j \in Nat : j \in S
  <2> HIDE DEF S
  <2> QED BY <1>1, <1>2, Upwards
<1> QED BY <1>3

(* g[k] is what the first k bytes of the segment come to. *)
Ran(g, segment, n) ==
  /\ g[0] = NoneRead
  /\ \A k \in 1..n : g[k] = Read(g[k - 1], segment[k], k)
  /\ ParseHeaders(segment) = g[n]

LEMMA ParseHeadersIs ==
  ASSUME NEW segment, Len(segment) \in Nat PROVE \E g : Ran(g, segment, Len(segment))
<1> DEFINE n == Len(segment)
           g == CHOOSE g : Run(g, segment, n)
<1>1. Run(g, segment, n)
  BY RunExists
<1>2. ParseHeaders(segment) = g[n]
  BY DEF ParseHeaders, Run, NoneRead, Read
<1>3. \A k \in 0..n : g[k] = IF k = 0 THEN NoneRead ELSE Read(g[k - 1], segment[k], k)
  BY <1>1 DEF Run
<1> HIDE DEF g
<1>4. 0 \in 0..n /\ \A k \in 1..n : k \in 0..n /\ k # 0
  OBVIOUS
<1>5. g[0] = NoneRead /\ \A k \in 1..n : g[k] = Read(g[k - 1], segment[k], k)
  BY <1>3, <1>4
<1> QED BY <1>2, <1>5 DEF Ran

(* What is behind the header is not parsed. *)
LEMMA NothingParsed ==
  ASSUME NEW segment, Len(segment) \in Nat, HeaderOver(parser)
  PROVE  ParseHeaders(segment) = NoneRead
<1> DEFINE n == Len(segment)
<1>1. PICK g : Ran(g, segment, n)
  BY ParseHeadersIs
<1> DEFINE T == {k \in Nat : k <= n => g[k] = NoneRead}
<1>2. 0 \in T
  BY <1>1 DEF Ran
<1>3. ASSUME NEW k \in Nat, k \in T PROVE k + 1 \in T
  <2> SUFFICES ASSUME k + 1 <= n PROVE g[k + 1] = NoneRead
    OBVIOUS
  <2>1. k + 1 \in 1..n /\ (k + 1) - 1 = k /\ k <= n
    OBVIOUS
  <2>2. g[k] = NoneRead
    BY <1>3, <2>1
  <2>3. g[k + 1] = Read(g[k], segment[k + 1], k + 1)
    BY <1>1, <2>1 DEF Ran
  <2>4. HeaderOver(g[k].parser)
    BY <2>2 DEF NoneRead
  <2> QED BY <2>2, <2>3, <2>4 DEF Read
<1>4. \A k \in Nat : k \in T
  <2> HIDE DEF T
  <2> QED BY <1>2, <1>3, Upwards
<1>5. g[n] = NoneRead
  BY <1>4
<1> QED BY <1>1, <1>5 DEF Ran

(* k bytes of a segment whose first byte is that behind the first a of m. *)
Passed(r, m, a, k) ==
  \/ Broken(r.parser, m)
  \/ Scanned(r.parser, m, a + k)
  \/ r.used \in 1..k /\ a + r.used = HeaderEnd(m) /\ HeaderRead(r.parser, m)

LEMMA PassedOne ==
  ASSUME NEW m, m = message, WellFormed(m), NEW a \in Nat, NEW k \in Nat, NEW r, Passed(r, m, a, k),
         NEW ch, ch = Text(m)[a + (k + 1)]
  PROVE  Passed(Read(r, ch, k + 1), m, a, k + 1)
<1> DEFINE w == Read(r, ch, k + 1)
<1>1. CASE Broken(r.parser, m)
  <2>1. HeaderOver(r.parser)
    BY <1>1 DEF Broken, HeaderOver
  <2>2. w = r
    BY <2>1 DEF Read
  <2> HIDE DEF w
  <2> QED BY <1>1, <2>2 DEF Passed, w
<1>2. CASE r.used \in 1..k /\ a + r.used = HeaderEnd(m) /\ HeaderRead(r.parser, m)
  <2>1. HeaderOver(r.parser)
    BY <1>2 DEF HeaderRead, Began, HeaderOver
  <2>2. w = r
    BY <2>1 DEF Read
  <2>3. r.used \in 1..(k + 1)
    BY <1>2
  <2> HIDE DEF w
  <2> QED BY <1>2, <2>2, <2>3 DEF Passed, w
<1>3. CASE Scanned(r.parser, m, a + k)
  <2>1. ~HeaderOver(r.parser)
    BY <1>3, ScannedGoesOn
  <2>2. PICK q : q = ParseHeader(r.parser, ch)
    OBVIOUS
  <2>3. w.parser = q /\ w.used = k + 1
    BY <2>1, <2>2 DEF Read
  <2>4. a + k \in Nat /\ (a + k) + 1 = a + (k + 1)
    OBVIOUS
  <2>5. ByteRead(q, m, a + (k + 1))
    <3>1. ByteRead(ParseHeader(r.parser, Text(m)[(a + k) + 1]), m, (a + k) + 1)
      BY <1>3, <2>4, ByteStep
    <3> QED BY <2>2, <2>4, <3>1
  <2>6. k + 1 \in 1..(k + 1)
    OBVIOUS
  <2> HIDE DEF w
  <2>7. Passed(w, m, a, k + 1)
    BY <2>3, <2>5, <2>6 DEF ByteRead, Passed
  <2> QED BY <2>7 DEF w
<1> QED BY <1>1, <1>2, <1>3 DEF Passed

LEMMA SegmentPassed ==
  ASSUME NEW m, m = message, WellFormed(m), NEW a \in Nat, Scanned(parser, m, a),
         NEW segment, Len(segment) \in Nat, Stands(Text(m), a, segment)
  PROVE  Passed(ParseHeaders(segment), m, a, Len(segment))
<1> DEFINE n == Len(segment)
<1>1. PICK g : Ran(g, segment, n)
  BY ParseHeadersIs
<1> DEFINE T == {k \in Nat : k <= n => Passed(g[k], m, a, k)}
<1>2. 0 \in T
  <2>1. g[0].parser = parser /\ a + 0 = a
    BY <1>1 DEF Ran, NoneRead
  <2>2. Scanned(g[0].parser, m, a + 0)
    BY <2>1
  <2>3. Passed(g[0], m, a, 0)
    BY <2>2 DEF Passed
  <2> QED BY <2>3
<1>3. ASSUME NEW k \in Nat, k \in T PROVE k + 1 \in T
  <2> SUFFICES ASSUME k + 1 <= n PROVE Passed(g[k + 1], m, a, k + 1)
    OBVIOUS
  <2>1. k + 1 \in 1..n /\ (k + 1) - 1 = k /\ k <= n
    OBVIOUS
  <2>2. Passed(g[k], m, a, k)
    BY <1>3, <2>1
  <2>3. g[k + 1] = Read(g[k], segment[k + 1], k + 1)
    BY <1>1, <2>1 DEF Ran
  <2>4. segment[k + 1] = Text(m)[a + (k + 1)]
    BY <2>1 DEF Stands
  <2> HIDE DEF n, T
  <2>5. Passed(Read(g[k], segment[k + 1], k + 1), m, a, k + 1)
    BY <2>2, <2>4, PassedOne
  <2> QED BY <2>3, <2>5
<1>4. \A k \in Nat : k \in T
  <2> HIDE DEF T
  <2> QED BY <1>2, <1>3, Upwards
<1>5. Passed(g[n], m, a, n)
  BY <1>4
<1> QED BY <1>1, <1>5 DEF Ran

-----------------------------------------------------------------------------
(***************************************************************************)
(* The value of a header                                                   *)
(***************************************************************************)
IsKey(ch) == ch = "k"
IsColon(ch) == ch = ":"
IsSpace(ch) == ch = " "

(* The row is named by the key. *)
HasKey(row) == Len(row) >= 2 /\ IsKey(row[1]) /\ IsColon(row[2])

(* The key stands nowhere but for the name of a row. *)
KeyApart(m) ==
  \A i \in DOMAIN m.rows : \A j \in 1..Len(m.rows[i]) : IsKey(m.rows[i][j]) => j = 1 /\ HasKey(m.rows[i])

(* The elements i + 1 to j of s. *)
LEMMA Slice ==
  ASSUME NEW S, NEW s \in Seq(S), NEW i \in Nat, NEW j \in Nat, i <= j, j <= Len(s)
  PROVE  /\ SubSeq(s, i + 1, j) \in Seq(S) /\ Len(SubSeq(s, i + 1, j)) = j - i
         /\ Stands(s, i, SubSeq(s, i + 1, j))
<1> DEFINE t == SubSeq(s, i + 1, j)
<1>1. Len(s) \in Nat /\ \A k \in (i + 1)..j : s[k] \in S
  BY LenProperties, ElementOfSeq
<1>2. i + 1 \in Int /\ j \in Int
  OBVIOUS
<1>3. /\ t \in Seq(S) /\ Len(t) = IF i + 1 <= j THEN j - (i + 1) + 1 ELSE 0
      /\ \A k \in 1..(j - (i + 1) + 1) : t[k] = s[(i + 1) + k - 1]
  BY <1>1, <1>2, SubSeqProperties
<1> HIDE DEF t
<1>4. Len(t) = j - i /\ j - (i + 1) + 1 = j - i
  BY <1>3
<1>5. ASSUME NEW k \in 1..Len(t) PROVE s[i + k] = t[k]
  <2>1. k \in 1..(j - (i + 1) + 1) /\ (i + 1) + k - 1 = i + k
    BY <1>4
  <2> QED BY <1>3, <2>1
<1> QED BY <1>3, <1>4, <1>5 DEF t, Stands

SliceIs(s, i, j) ==
  /\ SubSeq(s, i + 1, j) \in Seq(Chars) /\ Len(SubSeq(s, i + 1, j)) = j - i
  /\ Stands(s, i, SubSeq(s, i + 1, j))

LEMMA RestIs == ASSUME NEW s \in Seq(Chars), NEW i \in Nat, i <= Len(s) PROVE SliceIs(s, i, Len(s))
<1>1. Len(s) \in Nat /\ Len(s) <= Len(s)
  BY LenProperties
<1>2. PICK n \in Nat : n = Len(s)
  BY <1>1
<1> QED BY <1>1, <1>2, Slice DEF SliceIs

PrefixIs(a, t) == IsPrefix(a, t) <=> (Len(a) <= Len(t) /\ Stands(t, 0, a))

LEMMA PrefixFacts == ASSUME NEW S, NEW a \in Seq(S), NEW t \in Seq(S) PROVE PrefixIs(a, t)
<1>1. Len(a) \in Nat /\ Len(t) \in Nat /\ Len(a) \in 0..Len(a)
  BY LenProperties
<1>2. SubSeq(a, 1, Len(a)) = a
  BY FirstsAll
<1>3. CASE Len(a) <= Len(t)
  <2>1. Len(a) \in 0..Len(t)
    BY <1>1, <1>3
  <2>2. PICK b : b = SubSeq(t, 1, Len(a))
    OBVIOUS
  <2>3. b \in Seq(S) /\ Len(b) = Len(a) /\ \A i \in 1..Len(a) : b[i] = t[i]
    BY <2>1, <2>2, Firsts
  <2>4. ASSUME a = b PROVE Stands(t, 0, a)
    <3>1. \A i \in 1..Len(a) : t[i] = a[i] /\ 0 + i = i
      BY <1>1, <2>3, <2>4
    <3> QED BY <3>1 DEF Stands
  <2>5. ASSUME Stands(t, 0, a) PROVE a = b
    <3>1. \A i \in 1..Len(a) : t[0 + i] = a[i] /\ 0 + i = i
      BY <1>1, <2>5 DEF Stands
    <3>2. \A i \in 1..Len(a) : a[i] = b[i]
      BY <2>3, <3>1
    <3> QED BY <2>3, <3>2, SeqEqual
  <2>6. IsPrefix(a, t) <=> a = b
    BY <1>2, <1>3, <2>2 DEF IsPrefix
  <2>7. Stands(t, 0, a) <=> a = b
    BY <2>4, <2>5, Zenon
  <2> QED BY <1>3, <2>6, <2>7, Zenon DEF PrefixIs
<1>4. CASE ~(Len(a) <= Len(t))
  <2>1. ~IsPrefix(a, t)
    BY <1>4 DEF IsPrefix
  <2> QED BY <1>4, <2>1, Zenon DEF PrefixIs
<1> QED BY <1>3, <1>4, Zenon

LEMMA KeyFacts ==
  /\ "k" \in Chars /\ ":" \in Chars /\ Key \in Seq(Chars) /\ Len(Key) = 1 /\ IsKey(Key[1])
  /\ Key \o <<":">> = <<"k", ":">> /\ <<"k", ":">> \in Seq(Chars)
  /\ Len(<<"k", ":">>) = 2 /\ IsKey(<<"k", ":">>[1]) /\ IsColon(<<"k", ":">>[2])
<1>1. "k" \in Chars /\ ":" \in Chars
  BY DEF Chars
<1>2. Len(Key) = 1 /\ IsKey(Key[1])
  BY DEF Key, IsKey
<1>3. \A x, y \in Chars : <<x>> \in Seq(Chars) /\ <<x, y>> \in Seq(Chars)
  OBVIOUS
<1>5. <<"k">> \o <<":">> = <<"k", ":">>
  <2>1. PICK a, b, c \in Seq(Chars) : a = <<"k">> /\ b = <<":">> /\ c = <<"k", ":">>
    BY <1>1, <1>3
  <2>2. Len(a) = 1 /\ Len(b) = 1 /\ Len(c) = 2 /\ a[1] = c[1] /\ b[1] = c[2]
    BY <2>1
  <2>3. a \o b \in Seq(Chars) /\ Len(a \o b) = 2 /\ (a \o b)[1] = a[1] /\ (a \o b)[2] = b[1]
    <3>1. a \o b \in Seq(Chars) /\ Len(a \o b) = Len(a) + Len(b) /\ Stands(a \o b, 0, a) /\ Stands(a \o b, Len(a), b)
      BY Joined
    <3>2. PICK c2 : c2 = a \o b
      OBVIOUS
    <3>3. Stands(c2, 0, a) /\ Stands(c2, 1, b) /\ Len(c2) = 2 /\ 0 + 1 = 1 /\ 1 + 1 = 2 /\ 1 \in 1..1
      BY <2>2, <3>1, <3>2
    <3>4. c2[1] = a[1] /\ c2[2] = b[1]
      BY <2>2, <3>3 DEF Stands
    <3> QED BY <3>1, <3>2, <3>3, <3>4
  <2>4. \A i \in 1..Len(c) : (a \o b)[i] = c[i]
    BY <2>2, <2>3
  <2>5. a \o b = c
    BY <2>2, <2>3, <2>4, SeqEqual
  <2> QED BY <2>1, <2>5, Zenon
<1>4. Len(<<"k", ":">>) = 2 /\ IsKey(<<"k", ":">>[1]) /\ IsColon(<<"k", ":">>[2])
  BY DEF IsKey, IsColon
<1> QED BY <1>1, <1>2, <1>3, <1>4, <1>5, Zenon DEF Key

LEMMA KeyPrefix ==
  ASSUME NEW t \in Seq(Chars)
  PROVE  /\ IsPrefix(Key, t) <=> Len(t) >= 1 /\ IsKey(t[1])
         /\ IsPrefix(Key \o <<":">>, t) <=> HasKey(t)
<1>1. Len(t) \in Nat
  BY LenProperties
<1>2. PICK a : a = Key
  OBVIOUS
<1>3. PICK b : b = Key \o <<":">>
  OBVIOUS
<1>4. /\ a \in Seq(Chars) /\ Len(a) = 1 /\ IsKey(a[1])
      /\ b \in Seq(Chars) /\ Len(b) = 2 /\ IsKey(b[1]) /\ IsColon(b[2])
  BY <1>2, <1>3, KeyFacts
<1>5. Stands(t, 0, a) <=> t[1] = a[1]
  BY <1>4 DEF Stands
<1>6. Stands(t, 0, b) <=> t[1] = b[1] /\ t[2] = b[2]
  <2>1. 1..2 = {1, 2} /\ 0 + 1 = 1 /\ 0 + 2 = 2
    OBVIOUS
  <2>2. Stands(t, 0, b) <=> \A j \in {1, 2} : t[0 + j] = b[j]
    BY <1>4, <2>1 DEF Stands
  <2> QED BY <2>1, <2>2
<1>7. (t[1] = a[1] <=> IsKey(t[1])) /\ (t[1] = b[1] <=> IsKey(t[1])) /\ (t[2] = b[2] <=> IsColon(t[2]))
  BY <1>4 DEF IsKey, IsColon
<1>11. PrefixIs(a, t)
  BY <1>4, PrefixFacts
<1>12. PrefixIs(b, t)
  BY <1>4, PrefixFacts
<1>8. IsPrefix(a, t) <=> 1 <= Len(t) /\ Stands(t, 0, a)
  BY <1>4, <1>11, Zenon DEF PrefixIs
<1>9. IsPrefix(b, t) <=> 2 <= Len(t) /\ Stands(t, 0, b)
  BY <1>4, <1>12, Zenon DEF PrefixIs
<1>10. (1 <= Len(t) <=> Len(t) >= 1) /\ (2 <= Len(t) <=> Len(t) >= 2)
  BY <1>1
<1> QED BY <1>2, <1>3, <1>5, <1>6, <1>7, <1>8, <1>9, <1>10 DEF HasKey

LEMMA FoundAt ==
  ASSUME NEW h \in Seq(Chars) PROVE Found(h, Key) = {k \in 1..Len(h) : IsKey(h[k])}
<1>1. Len(h) \in Nat
  BY LenProperties
<1>2. ASSUME NEW k \in 1..Len(h) PROVE IsPrefix(Key, SubSeq(h, k, Len(h))) <=> IsKey(h[k])
  <2>1. k - 1 \in Nat /\ k - 1 <= Len(h) /\ (k - 1) + 1 = k
    BY <1>1
  <2>2. PICK t : t = SubSeq(h, k, Len(h))
    OBVIOUS
  <2>3. t \in Seq(Chars) /\ Len(t) = Len(h) - (k - 1) /\ Stands(h, k - 1, t)
    <3>1. SliceIs(h, k - 1, Len(h))
      BY <2>1, RestIs
    <3> QED BY <2>1, <2>2, <3>1 DEF SliceIs
  <2>4. Len(t) >= 1 /\ 1 \in 1..Len(t)
    BY <1>1, <2>3
  <2>5. t[1] = h[k]
    BY <2>1, <2>3, <2>4 DEF Stands
  <2> QED BY <2>2, <2>3, <2>4, <2>5, KeyPrefix
<1> QED BY <1>2 DEF Found

LEMMA LeastExists == ASSUME NEW S, S \subseteq Nat, S # {} PROVE \E x \in S : \A y \in S : x <= y
<1>1. PICK x \in S : \A y \in S : ~(<<y, x>> \in OpToRel(<, Nat))
  BY NatLessThanWellFounded, WFMin
<1>2. \A y \in S : ~(y < x)
  BY <1>1 DEF OpToRel
<1> QED BY <1>2

LEMMA LeastIs == ASSUME NEW S, S \subseteq Nat, NEW x \in S, \A y \in S : x <= y PROVE LeastOf(S) = x
<1>1. LeastOf(S) \in S /\ \A y \in S : LeastOf(S) <= y
  <2>1. \E k \in S : \A l \in S : k <= l
    OBVIOUS
  <2>2. LeastOf(S) = CHOOSE k \in S : \A l \in S : k <= l
    BY DEF LeastOf
  <2> QED BY <2>1, <2>2, Zenon
<1>2. PICK y \in S : y = LeastOf(S) /\ \A z \in S : y <= z
  BY <1>1
<1>3. x <= y /\ y <= x /\ x \in Nat /\ y \in Nat
  BY <1>2
<1>4. x = y
  BY <1>3
<1> QED BY <1>2, <1>4

(* In a line the key is its first character. *)
LEMMA LineKey ==
  ASSUME NEW m, WellFormed(m), KeyApart(m), NEW i \in 1..Len(m.rows), NEW x \in 1..Len(Lines(m)[i]),
         IsKey(Lines(m)[i][x])
  PROVE  x = 1 /\ HasKey(m.rows[i])
<1>1. PICK r, l, e : r = m.rows[i] /\ l = Lines(m)[i] /\ e = m.eol
  OBVIOUS
<1>2. r \in Seq(Chars) /\ e \in Seq(Chars) /\ l = r \o e
  <2>1. r \in Seq(InLine) /\ l = r \o e
    BY <1>1, LineFacts
  <2>2. e \in Seq(Chars)
    BY <1>1, Eols
  <2> QED BY <2>1, <2>2, CharFacts, WiderSeq DEF CharsAre
<1>3. Len(r) \in Nat /\ Len(e) \in Nat /\ Len(l) = Len(r) + Len(e) /\ Stands(l, 0, r) /\ Stands(l, Len(r), e)
  BY <1>2, Joined, LenProperties
<1>4. x \in 1..Len(l) /\ IsKey(l[x])
  BY <1>1
<1>5. i \in DOMAIN m.rows
  BY LineFacts, LenProperties
<1>6. \A j \in 1..Len(r) : IsKey(r[j]) => j = 1 /\ HasKey(r)
  BY <1>1, <1>5 DEF KeyApart
<1>7. CASE x <= Len(r)
  <2>1. x \in 1..Len(r) /\ 0 + x = x
    BY <1>3, <1>4, <1>7
  <2>2. l[x] = r[x]
    BY <1>3, <2>1 DEF Stands
  <2> QED BY <1>1, <1>4, <1>6, <2>1, <2>2
<1>8. CASE ~(x <= Len(r))
  <2>5. x \in Int /\ Len(r) \in Int /\ x - Len(r) \in Nat
    BY <1>3, <1>4, <1>8
  <2>1. PICK y \in Nat : y = x - Len(r)
    BY <2>5, Zenon
  <2>2. y \in 1..Len(e) /\ Len(r) + y = x
    BY <1>3, <1>4, <1>8, <2>1
  <2>3. l[x] = e[y]
    BY <1>3, <2>2 DEF Stands
  <2>4. e[y] \in {CR, LF}
    <3>2. Len(e) = 1 \/ Len(e) = 2
      BY <1>1, Eols
    <3>1. y \in {1, 2} /\ (Len(e) = 1 => y = 1)
      <4>1. y \in 1..Len(e)
        BY <2>2
      <4>2. ASSUME NEW n, n = 1 \/ n = 2, y \in 1..n PROVE y \in {1, 2} /\ (n = 1 => y = 1)
        BY <4>2
      <4> QED BY <3>2, <4>1, <4>2
    <3> QED BY <1>1, <3>1, Eols
  <2>6. ~IsKey(e[y])
    BY <2>4 DEF IsKey, CR, LF
  <2> QED BY <1>4, <2>3, <2>6
<1> QED BY <1>7, <1>8

(* Line i of m stands in t behind the lines before it. *)
LineIn(t, fl, m, i) ==
  Stands(t, Len(fl[i - 1]), Lines(m)[i]) /\ Len(fl[i - 1]) + Len(Lines(m)[i]) <= Len(t)

(* t is made of the first j lines, and the key names some of them. *)
Lain(t, fl, m, j) ==
  /\ \A i \in 1..j : LineIn(t, fl, m, i)
  /\ \A q \in 1..Len(t) : IsKey(t[q]) => \E i \in 1..j : q = Len(fl[i - 1]) + 1 /\ HasKey(m.rows[i])

LEMMA LainMore ==
  ASSUME NEW m, WellFormed(m), KeyApart(m), NEW fl, \A i \in 0..Len(m.rows) : fl[i] \in Seq(Chars),
         NEW j \in Nat, j < Len(m.rows), Lain(fl[j], fl, m, j), fl[j + 1] = fl[j] \o Lines(m)[j + 1]
  PROVE  Lain(fl[j + 1], fl, m, j + 1)
<1>1. Len(m.rows) \in Nat /\ \A i \in 1..Len(m.rows) : Lines(m)[i] \in Seq(Chars)
  <2>1. Lines(m) \in Seq(Seq(Chars)) /\ Len(Lines(m)) = Len(m.rows) /\ m.rows \in Seq(Seq(InLine) \ {<<>>})
    BY LineFacts
  <2> QED BY <2>1, LenProperties, ElementOfSeq
<1>2. PICK s, t, l : s = fl[j] /\ t = fl[j + 1] /\ l = Lines(m)[j + 1]
  OBVIOUS
<1>3. j \in 0..Len(m.rows) /\ j + 1 \in 1..Len(m.rows) /\ j + 1 \in 0..Len(m.rows) /\ (j + 1) - 1 = j
  BY <1>1
<1>4. s \in Seq(Chars) /\ t \in Seq(Chars) /\ l \in Seq(Chars) /\ t = s \o l
  BY <1>1, <1>2, <1>3
<1>5. /\ Len(s) \in Nat /\ Len(l) \in Nat /\ Len(t) = Len(s) + Len(l)
      /\ Stands(t, 0, s) /\ Stands(t, Len(s), l)
  BY <1>4, Joined, LenProperties
<1>6. ASSUME NEW i \in 1..j PROVE LineIn(t, fl, m, i)
  <2>1. i \in 1..Len(m.rows) /\ i - 1 \in 0..Len(m.rows)
    BY <1>1, <1>3
  <2>2. PICK q \in Nat : q = Len(fl[i - 1])
    BY <2>1, LenProperties
  <2>3. PICK w \in Seq(Chars) : w = Lines(m)[i]
    BY <1>1, <2>1
  <2>4. Len(w) \in Nat
    BY <2>3, LenProperties
  <2>5. Stands(s, q, w) /\ q + Len(w) <= Len(s)
    BY <1>2, <2>2, <2>3 DEF Lain, LineIn
  <2>6. Stands(t, 0 + q, w)
    BY <1>4, <1>5, <2>4, <2>5, Inner
  <2>7. 0 + q = q /\ q + Len(w) <= Len(t)
    BY <1>5, <2>4, <2>5
  <2> QED BY <2>2, <2>3, <2>6, <2>7 DEF LineIn
<1>7. LineIn(t, fl, m, j + 1)
  BY <1>2, <1>3, <1>5 DEF LineIn
<1>8. ASSUME NEW q \in 1..Len(t), IsKey(t[q])
      PROVE  \E i \in 1..(j + 1) : q = Len(fl[i - 1]) + 1 /\ HasKey(m.rows[i])
  <2>1. CASE q <= Len(s)
    <3>1. q \in 1..Len(s) /\ 0 + q = q
      BY <1>5, <2>1
    <3>2. IsKey(s[q])
      BY <1>5, <1>8, <3>1 DEF Stands
    <3>3. PICK i \in 1..j : q = Len(fl[i - 1]) + 1 /\ HasKey(m.rows[i])
      BY <1>2, <3>1, <3>2 DEF Lain
    <3>4. i \in 1..(j + 1)
      OBVIOUS
    <3> QED BY <3>3, <3>4
  <2>2. CASE ~(q <= Len(s))
    <3>6. q - Len(s) \in Nat
      BY <1>5, <2>2
    <3>1. PICK x \in Nat : x = q - Len(s)
      BY <3>6, Zenon
    <3>2. x \in 1..Len(l) /\ Len(s) + x = q
      BY <1>5, <2>2, <3>1
    <3>3. IsKey(l[x])
      BY <1>5, <1>8, <3>2 DEF Stands
    <3>4. x = 1 /\ HasKey(m.rows[j + 1])
      BY <1>2, <1>3, <3>2, <3>3, LineKey
    <3>5. q = Len(fl[(j + 1) - 1]) + 1 /\ j + 1 \in 1..(j + 1)
      BY <1>2, <1>3, <3>2, <3>4
    <3> QED BY <3>4, <3>5
  <2> QED BY <2>1, <2>2
<1>9. ASSUME NEW i \in 1..(j + 1) PROVE LineIn(t, fl, m, i)
  <2>1. i \in 1..j \/ i = j + 1
    OBVIOUS
  <2> QED BY <1>6, <1>7, <2>1
<1> QED BY <1>2, <1>8, <1>9 DEF Lain

LEMMA LinesLain ==
  ASSUME NEW m, WellFormed(m), KeyApart(m), NEW fl, Flat(fl, Lines(m)), \A i \in 0..Len(m.rows) : fl[i] \in Seq(Chars)
  PROVE  \A j \in 0..Len(m.rows) : Lain(fl[j], fl, m, j)
<1> DEFINE S == {j \in Nat : j <= Len(m.rows) => Lain(fl[j], fl, m, j)}
<1>1. Len(Lines(m)) = Len(m.rows) /\ Len(m.rows) \in Nat
  BY LineFacts, LenProperties
<1>2. 0 \in S
  <2>1. fl[0] = <<>> /\ Len(<<>>) = 0
    BY DEF Flat
  <2>2. 1..0 = {}
    OBVIOUS
  <2>3. Lain(fl[0], fl, m, 0)
    BY <2>1, <2>2 DEF Lain
  <2> QED BY <2>3
<1>3. ASSUME NEW j \in Nat, j \in S PROVE j + 1 \in S
  <2>1. SUFFICES ASSUME j + 1 <= Len(m.rows) PROVE Lain(fl[j + 1], fl, m, j + 1)
    OBVIOUS
  <2>2. j < Len(m.rows) /\ j <= Len(m.rows) /\ j + 1 \in 1..Len(Lines(m)) /\ (j + 1) - 1 = j
    BY <1>1, <2>1
  <2>3. Lain(fl[j], fl, m, j)
    BY <1>3, <2>2
  <2>4. fl[j + 1] = fl[j] \o Lines(m)[j + 1]
    BY <2>2 DEF Flat
  <2> QED BY <2>2, <2>3, <2>4, LainMore
<1>4. \A j \in Nat : j \in S
  <2> HIDE DEF S
  <2> QED BY <1>2, <1>3, Upwards
<1> QED BY <1>1, <1>4

(* w is what row has behind its first c characters. *)
EndOf(w, row, c) == w \in Seq(Chars) /\ Len(w) = Len(row) - c /\ Stands(row, c, w)

LEMMA EndsEqual ==
  ASSUME NEW row \in Seq(Chars), NEW c \in Nat, NEW v, NEW w, EndOf(v, row, c), EndOf(w, row, c) PROVE v = w
<1>1. v \in Seq(Chars) /\ w \in Seq(Chars) /\ Len(v) = Len(w)
  BY DEF EndOf
<1>2. \A j \in 1..Len(v) : v[j] = w[j]
  BY <1>1 DEF EndOf, Stands
<1> QED BY <1>1, <1>2, SeqEqual

(* Where the value begins in a row: behind the colon and one space. *)
Cut(row) == IF Len(row) >= 3 /\ IsSpace(row[3]) THEN 3 ELSE 2

LineValue(row) ==
  LET value == SubSeq(row, 3, Len(row)) IN IF value # <<>> /\ value[1] = " " THEN Tail(value) ELSE value

LEMMA LineValueIs ==
  ASSUME NEW row \in Seq(Chars), Len(row) >= 2 PROVE EndOf(LineValue(row), row, Cut(row))
<1>1. PICK n \in Nat : n = Len(row)
  BY LenProperties
<1>2. PICK value : value = SubSeq(row, 3, Len(row))
  OBVIOUS
<1>3. value \in Seq(Chars) /\ Len(value) = n - 2 /\ Stands(row, 2, value)
  <2>1. SliceIs(row, 2, Len(row))
    BY RestIs
  <2>2. 2 + 1 = 3
    OBVIOUS
  <2> QED BY <1>1, <1>2, <2>1, <2>2 DEF SliceIs
<1>4. LineValue(row) = IF value # <<>> /\ IsSpace(value[1]) THEN Tail(value) ELSE value
  BY <1>2 DEF LineValue, IsSpace
<1>5. value # <<>> <=> n >= 3
  <2>1. value = <<>> <=> Len(value) = 0
    BY <1>3, EmptySeq
  <2> QED BY <1>1, <1>3, <2>1
<1>6. ASSUME n >= 3 PROVE value[1] = row[3]
  <2>1. 1 \in 1..Len(value) /\ 2 + 1 = 3
    BY <1>1, <1>3, <1>6
  <2> QED BY <1>3, <2>1 DEF Stands
<1>7. CASE Cut(row) = 3
  <2>1. n >= 3 /\ IsSpace(row[3])
    BY <1>1, <1>7 DEF Cut
  <2>2. PICK w : w = Tail(value)
    OBVIOUS
  <2>3. LineValue(row) = w
    BY <1>4, <1>5, <1>6, <2>1, <2>2
  <2>4. value # <<>>
    BY <1>5, <2>1
  <2>5. w \in Seq(Chars) /\ Len(w) = Len(value) - 1 /\ \A i \in 1..Len(w) : w[i] = value[i + 1]
    BY <1>3, <2>2, <2>4, HeadTailProperties
  <2>6. Len(w) = n - 3
    BY <1>1, <1>3, <2>5
  <2>7. ASSUME NEW j \in 1..Len(w) PROVE row[3 + j] = w[j]
    <3>1. j + 1 \in 1..Len(value) /\ 2 + (j + 1) = 3 + j
      BY <1>1, <1>3, <2>1, <2>6
    <3>2. row[2 + (j + 1)] = value[j + 1]
      BY <1>3, <3>1 DEF Stands
    <3> QED BY <2>5, <3>1, <3>2
  <2> QED BY <1>1, <1>7, <2>3, <2>5, <2>6, <2>7 DEF EndOf, Stands
<1>8. CASE Cut(row) # 3
  <2>1. Cut(row) = 2
    BY <1>8 DEF Cut
  <2>2. ~(n >= 3 /\ IsSpace(row[3]))
    BY <1>1, <1>8 DEF Cut
  <2>3. LineValue(row) = value
    BY <1>4, <1>5, <1>6, <2>2
  <2> QED BY <1>1, <1>3, <2>1, <2>3 DEF EndOf
<1> QED BY <1>7, <1>8

LEMMA UpToIs ==
  ASSUME NEW v \in Seq(Chars), NEW x \in Nat, x < Len(v), v[x + 1] \in {CR, LF},
         \A j \in 1..x : v[j] \notin {CR, LF}
  PROVE  UpTo(v, {CR, LF}) = SubSeq(v, 1, x)
<1> DEFINE ends == {k \in DOMAIN v : v[k] \in {CR, LF}}
<1>1. Len(v) \in Nat /\ DOMAIN v = 1..Len(v)
  BY LenProperties
<1>2. x + 1 \in ends /\ ends \subseteq Nat
  BY <1>1
<1>3. ASSUME NEW k \in ends PROVE x + 1 <= k
  <2>1. k \in Nat /\ k >= 1 /\ v[k] \in {CR, LF}
    BY <1>1
  <2>2. ~(k \in 1..x)
    BY <2>1
  <2> QED BY <2>1, <2>2
<1>4. UpTo(v, {CR, LF}) = IF ends = {} THEN v ELSE SubSeq(v, 1, LeastOf(ends) - 1)
  BY DEF UpTo
<1> HIDE DEF ends
<1>5. LeastOf(ends) = x + 1
  BY <1>2, <1>3, LeastIs
<1>6. ends # {} /\ (x + 1) - 1 = x
  BY <1>2
<1> QED BY <1>4, <1>5, <1>6

(* The row that is named first by the key ends where its line ends. *)
LEMMA LineRead ==
  ASSUME NEW h \in Seq(Chars), NEW P \in Nat, NEW row \in Seq(InLine), NEW e \in Seq({CR, LF}), Len(e) >= 1,
         NEW l, l = row \o e, Stands(h, P, l), P + Len(l) <= Len(h), HasKey(row),
         Found(h, Key) # {}, LeastOf(Found(h, Key)) = P + 1
  PROVE  EndOf(HttpParseHeaderValue(h, Key), row, Cut(row))
<1>1. row \in Seq(Chars) /\ e \in Seq(Chars) /\ l \in Seq(Chars)
  <2>1. row \in Seq(Chars) /\ e \in Seq(Chars)
    BY CharFacts, WiderSeq DEF CharsAre
  <2> QED BY <2>1, Joined
<1>2. PICK n \in Nat : n = Len(row)
  BY LenProperties
<1>3. PICK N \in Nat : N = Len(h)
  BY LenProperties
<1>4. /\ Len(e) \in Nat /\ Len(l) = n + Len(e) /\ Stands(l, 0, row) /\ Stands(l, n, e)
  BY <1>1, <1>2, Joined, LenProperties
<1>5. n >= 2 /\ Len(l) \in Nat /\ Len(l) >= n + 1 /\ P + n + 1 <= N
  BY <1>2, <1>3, <1>4 DEF HasKey
<1>6. ASSUME NEW j \in Nat, j >= 1, j <= n PROVE h[P + j] = row[j]
  <2>1. j \in 1..Len(l) /\ j \in 1..Len(row) /\ 0 + j = j
    BY <1>2, <1>5, <1>6
  <2>2. h[P + j] = l[j] /\ l[0 + j] = row[j]
    BY <1>4, <2>1 DEF Stands
  <2> QED BY <2>1, <2>2
<1>7. h[P + (n + 1)] = e[1] /\ e[1] \in {CR, LF}
  <2>1. n + 1 \in 1..Len(l) /\ 1 \in 1..Len(e)
    BY <1>4, <1>5
  <2>2. h[P + (n + 1)] = l[n + 1] /\ l[n + 1] = e[1]
    BY <1>4, <2>1 DEF Stands
  <2> QED BY <2>1, <2>2, ElementOfSeq
<1>8. PICK rest : rest = SubSeq(h, (P + 1) + Len(Key), Len(h))
  OBVIOUS
<1>9. rest \in Seq(Chars) /\ Len(rest) = N - (P + 1) /\ Stands(h, P + 1, rest)
  <2>1. P + 1 \in Nat /\ P + 1 <= N
    BY <1>5
  <2>2. SliceIs(h, P + 1, Len(h))
    BY <1>3, <2>1, RestIs
  <2>3. Len(Key) = 1
    BY KeyFacts
  <2> QED BY <1>3, <1>8, <2>2, <2>3 DEF SliceIs
<1>10. ASSUME NEW j \in Nat, j >= 1, j <= n PROVE rest[j] = h[P + (j + 1)]
  <2>1. j \in 1..Len(rest) /\ (P + 1) + j = P + (j + 1)
    BY <1>5, <1>9, <1>10
  <2> QED BY <1>9, <2>1 DEF Stands
<1>11. IsColon(rest[1]) /\ rest # <<>> /\ Len(rest) \in Nat /\ Len(rest) >= n
  <2>1. 1 >= 1 /\ 1 <= n /\ 2 >= 1 /\ 2 <= n /\ 1 + 1 = 2 /\ 1 \in Nat /\ 2 \in Nat
    BY <1>5
  <2>2. rest[1] = h[P + (1 + 1)] /\ h[P + 2] = row[2]
    BY <1>6, <1>10, <2>1
  <2>3. IsColon(row[2])
    BY DEF HasKey
  <2>4. Len(rest) \in Nat /\ Len(rest) >= n
    BY <1>5, <1>9
  <2>5. rest # <<>>
    BY <1>5, <1>9, <2>4, EmptySeq
  <2> QED BY <2>1, <2>2, <2>3, <2>4, <2>5
<1>12. PICK c \in Nat : c = Cut(row) /\ c >= 2 /\ c <= n
  BY <1>2, <1>5 DEF Cut
<1>13. ValueStart(rest) = c
  <2>1. rest[2] = h[P + 3]
    <3>1. 2 \in Nat /\ 2 >= 1 /\ 2 <= n /\ 2 + 1 = 3
      BY <1>5
    <3>2. rest[2] = h[P + (2 + 1)]
      BY <1>10, <3>1
    <3> QED BY <3>1, <3>2
  <2>2. CASE n >= 3
    <3>1. h[P + 3] = row[3]
      BY <1>6, <2>2
    <3>2. Len(rest) >= 2 /\ Len(row) >= 3
      BY <1>2, <1>11, <2>2
    <3> QED BY <1>12, <2>1, <3>1, <3>2 DEF ValueStart, Cut, IsSpace
  <2>3. CASE ~(n >= 3)
    <3>1. n = 2 /\ ~(Len(row) >= 3) /\ n + 1 = 3
      BY <1>2, <1>5, <2>3
    <3>2. h[P + 3] = e[1]
      BY <1>7, <3>1
    <3>3. rest[2] # " "
      BY <1>7, <2>1, <3>2, CharFacts
    <3>4. ValueStart(rest) = 2
      BY <3>3 DEF ValueStart
    <3>5. Cut(row) = 2
      BY <3>1 DEF Cut
    <3> QED BY <1>12, <3>4, <3>5
  <2> QED BY <2>2, <2>3
<1>14. PICK v : v = SubSeq(rest, c, Len(rest))
  OBVIOUS
<1>27. PICK r \in Nat : r = Len(rest)
  BY <1>11, Zenon
<1>28. c \in Nat /\ c >= 2 /\ c <= n /\ r >= n
  BY <1>11, <1>12, <1>27
<1>29. PICK d \in Nat : d = c - 1
  <2>1. c - 1 \in Nat
    BY <1>28
  <2> QED BY <2>1, Zenon
<1>15. v \in Seq(Chars) /\ Len(v) = r - d /\ Stands(rest, d, v)
  <2>1. d <= r /\ d + 1 = c
    BY <1>28, <1>29
  <2>2. SliceIs(rest, d, Len(rest))
    <3>1. rest \in Seq(Chars) /\ d <= Len(rest)
      BY <1>9, <1>27, <2>1
    <3> QED BY <3>1, RestIs
  <2> QED BY <1>14, <1>27, <2>1, <2>2 DEF SliceIs
<1>16. PICK x \in Nat : x = n - c
  <2>1. n - c \in Nat
    BY <1>12
  <2> QED BY <2>1, Zenon
<1>17. x < Len(v) /\ c + x = n
  <2>1. Len(v) = r - d
    BY <1>15
  <2> QED BY <1>16, <1>28, <1>29, <2>1
<1>18. ASSUME NEW j \in Nat, j >= 1, j <= x + 1 PROVE v[j] = h[P + (c + j)]
  <2>1. PICK i \in Nat : i = d + j
    BY <1>29
  <2>5. Len(v) \in Nat /\ j <= Len(v)
    BY <1>15, <1>17, <1>18, LenProperties
  <2>2. j \in 1..Len(v) /\ i >= 1 /\ i <= n /\ i + 1 = c + j
    BY <1>16, <1>18, <1>28, <1>29, <2>1, <2>5
  <2>3. rest[i] = v[j]
    BY <1>15, <2>1, <2>2 DEF Stands
  <2>4. rest[i] = h[P + (i + 1)]
    BY <1>10, <2>2
  <2> QED BY <2>2, <2>3, <2>4
<1>19. v[x + 1] \in {CR, LF}
  <2>1. x + 1 \in Nat /\ x + 1 >= 1 /\ c + (x + 1) = n + 1
    BY <1>16, <1>28
  <2>2. PICK y \in Nat : y = x + 1
    BY <2>1
  <2>3. y >= 1 /\ y <= x + 1 /\ c + y = n + 1
    BY <2>1, <2>2
  <2>4. v[y] = h[P + (c + y)]
    BY <1>18, <2>3
  <2> QED BY <1>7, <2>2, <2>3, <2>4
<1>20. ASSUME NEW j \in 1..x PROVE v[j] = row[c + j] /\ v[j] \notin {CR, LF}
  <2>1. j \in Nat /\ j >= 1 /\ j <= x + 1 /\ c + j \in Nat /\ c + j >= 1 /\ c + j <= n
    <3>1. j \in Nat /\ j >= 1 /\ j <= x
      BY <1>20
    <3>2. c + j <= c + x
      BY <1>28, <3>1
    <3> QED BY <1>17, <1>28, <3>1, <3>2
  <2>2. v[j] = h[P + (c + j)] /\ h[P + (c + j)] = row[c + j]
    BY <1>6, <1>18, <2>1
  <2>3. row[c + j] \in InLine
    BY <1>2, <2>1, ElementOfSeq
  <2> QED BY <2>2, <2>3, CharFacts DEF CharsAre
<1>21. UpTo(v, {CR, LF}) = SubSeq(v, 1, x)
  BY <1>15, <1>17, <1>19, <1>20, UpToIs
<1>22. HttpParseHeaderValue(h, Key) = SubSeq(v, 1, x)
  <2>1. rest = SubSeq(h, LeastOf(Found(h, Key)) + Len(Key), Len(h))
    BY <1>8
  <2>2. rest[1] = ":"
    BY <1>11 DEF IsColon
  <2>3. HttpParseHeaderValue(h, Key) = UpTo(SubSeq(rest, ValueStart(rest), Len(rest)), {CR, LF})
    BY <1>11, <2>1, <2>2 DEF HttpParseHeaderValue
  <2> QED BY <1>13, <1>14, <1>21, <2>3
<1>23. PICK w : w = SubSeq(v, 1, x)
  OBVIOUS
<1>24. w \in Seq(Chars) /\ Len(w) = x /\ \A j \in 1..x : w[j] = v[j]
  <2>1. x \in 0..Len(v)
    BY <1>15, <1>17, LenProperties
  <2> QED BY <1>15, <1>23, <2>1, Firsts
<1>25. Len(w) = Len(row) - c
  BY <1>2, <1>16, <1>24
<1>26. \A j \in 1..Len(w) : row[c + j] = w[j]
  BY <1>20, <1>24
<1> QED BY <1>12, <1>22, <1>23, <1>24, <1>25, <1>26 DEF EndOf, Stands

Named(m) == {k \in 1..Len(m.rows) : HasKey(m.rows[k])}

LEMMA RowValueIs ==
  ASSUME NEW m, WellFormed(m)
  PROVE  RowValue(m) = IF Named(m) = {} THEN NoValue ELSE LineValue(m.rows[LeastOf(Named(m))])
<1> DEFINE named == {k \in DOMAIN m.rows : IsPrefix(Key \o <<":">>, m.rows[k])}
<1>1. DOMAIN m.rows = 1..Len(m.rows)
  BY LineFacts, LenProperties
<1>2. ASSUME NEW k \in 1..Len(m.rows) PROVE IsPrefix(Key \o <<":">>, m.rows[k]) <=> HasKey(m.rows[k])
  <2>1. m.rows[k] \in Seq(Chars)
    BY LineFacts, CharFacts, WiderSeq DEF CharsAre
  <2> QED BY <2>1, KeyPrefix
<1>3. named = Named(m)
  BY <1>1, <1>2 DEF Named
<1>4. RowValue(m) = IF named = {} THEN NoValue ELSE
                      LET row == m.rows[LeastOf(named)]
                          value == SubSeq(row, Len(Key) + 2, Len(row))
                      IN IF value # <<>> /\ value[1] = " " THEN Tail(value) ELSE value
  BY DEF RowValue
<1>5. Len(Key) + 2 = 3
  <2>1. Len(Key) = 1
    BY KeyFacts
  <2> QED BY <2>1
<1> HIDE DEF named
<1> QED BY <1>3, <1>4, <1>5 DEF LineValue

LEMMA NamedFirst ==
  ASSUME NEW m, WellFormed(m), Named(m) # {}
  PROVE  \E i \in 1..Len(m.rows) : HasKey(m.rows[i]) /\ LeastOf(Named(m)) = i /\ \A k \in Named(m) : i <= k
<1>1. Named(m) \subseteq Nat
  BY DEF Named
<1>2. PICK i \in Named(m) : \A k \in Named(m) : i <= k
  BY <1>1, LeastExists
<1>3. LeastOf(Named(m)) = i
  BY <1>1, <1>2, LeastIs
<1>4. i \in 1..Len(m.rows) /\ HasKey(m.rows[i])
  BY DEF Named
<1> QED BY <1>2, <1>3, <1>4

(* The key is found first in the first row that it names. *)
LEMMA FoundFirst ==
  ASSUME NEW m, WellFormed(m), KeyApart(m), NEW fl, \A i \in 0..Len(m.rows) : fl[i] \in Seq(Chars),
         \A j \in 0..Len(m.rows) : Lain(fl[j], fl, m, j), NEW h, h = fl[Len(m.rows)],
         NEW i \in 1..Len(m.rows), HasKey(m.rows[i]), \A k \in Named(m) : i <= k
  PROVE  Found(h, Key) # {} /\ LeastOf(Found(h, Key)) = Len(fl[i - 1]) + 1
<1>1. PICK n \in Nat : n = Len(m.rows)
  BY LineFacts, LenProperties
<1>2. n \in 0..n /\ i \in 1..n /\ i - 1 \in 0..n
  BY <1>1
<1>3. h \in Seq(Chars) /\ Lain(h, fl, m, n) /\ Len(h) \in Nat
  BY <1>1, <1>2, LenProperties
<1>4. PICK P \in Nat : P = Len(fl[i - 1])
  BY <1>1, <1>2, LenProperties
<1>5. PICK l : l = Lines(m)[i]
  OBVIOUS
<1>6. Stands(h, P, l) /\ P + Len(l) <= Len(h)
  BY <1>2, <1>3, <1>4, <1>5 DEF Lain, LineIn
<1>7. PICK L \in Nat : L = Len(l) /\ L >= 1 /\ IsKey(l[1])
  <2>1. PICK r, e \in Seq(Chars) : r = m.rows[i] /\ l = r \o e
    <3>1. m.rows[i] \in Seq(InLine) /\ Lines(m)[i] = m.rows[i] \o m.eol
      BY LineFacts
    <3>2. m.rows[i] \in Seq(Chars) /\ m.eol \in Seq(Chars)
      BY <3>1, Eols, CharFacts, WiderSeq DEF CharsAre
    <3> QED BY <1>5, <3>1, <3>2
  <2>2. r \in Seq(Chars) /\ e \in Seq(Chars)
    BY <2>1
  <2>3. Len(l) = Len(r) + Len(e) /\ Stands(l, 0, r) /\ Len(r) \in Nat /\ Len(e) \in Nat
    BY <2>1, <2>2, Joined, LenProperties
  <2>4. Len(r) >= 2 /\ IsKey(r[1])
    BY <2>1 DEF HasKey
  <2>5. Len(l) \in Nat /\ Len(l) >= 1 /\ 1 \in 1..Len(r) /\ 0 + 1 = 1
    BY <2>3, <2>4
  <2>6. IsKey(l[1])
    BY <2>3, <2>4, <2>5 DEF Stands
  <2> QED BY <2>5, <2>6
<1>8. P + 1 \in Found(h, Key)
  <2>1. 1 \in 1..Len(l) /\ P + 1 \in 1..Len(h)
    BY <1>3, <1>6, <1>7
  <2>2. IsKey(h[P + 1])
    BY <1>6, <1>7, <2>1 DEF Stands
  <2> QED BY <1>3, <2>1, <2>2, FoundAt
<1>9. ASSUME NEW q \in Found(h, Key) PROVE P + 1 <= q
  <2>1. q \in 1..Len(h) /\ IsKey(h[q])
    BY <1>3, FoundAt
  <2>2. PICK k \in 1..n : q = Len(fl[k - 1]) + 1 /\ HasKey(m.rows[k])
    BY <1>3, <2>1 DEF Lain
  <2>3. i <= k
    BY <1>1, <2>2 DEF Named
  <2>4. k \in Nat /\ k - 1 \in 0..n
    OBVIOUS
  <2>5. PICK Q \in Nat : Q = Len(fl[k - 1])
    BY <1>1, <2>4, LenProperties
  <2>6. CASE i = k
    BY <1>4, <2>2, <2>6
  <2>7. CASE i # k
    <3>1. i \in 1..(k - 1)
      BY <2>3, <2>4, <2>7
    <3>2. LineIn(fl[k - 1], fl, m, i)
      BY <1>1, <2>4, <3>1 DEF Lain
    <3>3. P + L <= Q
      BY <1>4, <1>5, <1>7, <2>5, <3>2 DEF LineIn
    <3> QED BY <1>7, <2>2, <2>5, <3>3
  <2> QED BY <2>6, <2>7
<1>10. Found(h, Key) \subseteq Nat
  BY <1>3, FoundAt
<1>11. PICK x \in Nat : x = P + 1
  OBVIOUS
<1>12. LeastOf(Found(h, Key)) = x
  BY <1>8, <1>9, <1>10, <1>11, LeastIs
<1> QED BY <1>4, <1>8, <1>11, <1>12

LEMMA NoneFound ==
  ASSUME NEW m, WellFormed(m), NEW fl, NEW h \in Seq(Chars), Lain(h, fl, m, Len(m.rows)), Named(m) = {}
  PROVE  Found(h, Key) = {}
<1>1. ASSUME NEW q \in Found(h, Key) PROVE FALSE
  <2>1. q \in 1..Len(h) /\ IsKey(h[q])
    BY FoundAt
  <2>2. PICK k \in 1..Len(m.rows) : HasKey(m.rows[k])
    BY <2>1 DEF Lain
  <2> QED BY <2>2 DEF Named
<1> QED BY <1>1

(* What the parser takes for the value is that of the row. *)
LEMMA ValueRead ==
  ASSUME NEW m, WellFormed(m), KeyApart(m) PROVE HttpParseHeaderValue(Rows(m), Key) = RowValue(m)
<1>1. PICK fl : Flat(fl, Lines(m)) /\ \A i \in 0..Len(m.rows) : fl[i] \in Seq(Chars)
  BY RowsFlat
<1>2. \A j \in 0..Len(m.rows) : Lain(fl[j], fl, m, j)
  BY <1>1, LinesLain
<1>3. Len(Lines(m)) = Len(m.rows) /\ Len(m.rows) \in Nat /\ Len(m.rows) \in 0..Len(m.rows)
  <2>1. Len(Lines(m)) = Len(m.rows) /\ m.rows \in Seq(Seq(InLine) \ {<<>>})
    BY LineFacts
  <2>2. Len(m.rows) \in Nat
    BY <2>1, LenProperties
  <2> QED BY <2>1, <2>2
<1>4. Rows(m) = fl[Len(m.rows)]
  BY <1>1, <1>3 DEF Flat, Rows, Lines
<1>5. PICK h \in Seq(Chars) : h = Rows(m) /\ h = fl[Len(m.rows)]
  BY <1>1, <1>3, <1>4
<1>6. Lain(h, fl, m, Len(m.rows))
  BY <1>2, <1>3, <1>5
<1>7. CASE Named(m) = {}
  <2>1. Found(h, Key) = {}
    BY <1>6, <1>7, NoneFound
  <2>2. HttpParseHeaderValue(h, Key) = NoValue
    BY <2>1 DEF HttpParseHeaderValue
  <2> QED BY <1>5, <1>7, <2>2, RowValueIs
<1>8. CASE Named(m) # {}
  <2>1. PICK i \in 1..Len(m.rows) :
          HasKey(m.rows[i]) /\ LeastOf(Named(m)) = i /\ \A k \in Named(m) : i <= k
    BY <1>8, NamedFirst
  <2>2. Found(h, Key) # {} /\ LeastOf(Found(h, Key)) = Len(fl[i - 1]) + 1
    BY <1>1, <1>2, <1>5, <2>1, FoundFirst
  <2>3. PICK P \in Nat : P = Len(fl[i - 1])
    <3>1. i - 1 \in 0..Len(m.rows)
      BY <1>3
    <3> QED BY <1>1, <3>1, LenProperties
  <2>4. PICK row \in Seq(InLine), e \in Seq({CR, LF}) : row = m.rows[i] /\ e = m.eol
    <3>1. m.rows[i] \in Seq(InLine)
      BY LineFacts
    <3>2. m.eol \in Seq({CR, LF})
      <4>1. ASSUME NEW S, NEW x \in S, NEW y \in S PROVE <<x>> \in Seq(S) /\ <<x, y>> \in Seq(S)
        OBVIOUS
      <4>2. CR \in {CR, LF} /\ LF \in {CR, LF}
        OBVIOUS
      <4>3. m.eol = <<CR>> \/ m.eol = <<LF>> \/ m.eol = <<CR, LF>>
        BY DEF WellFormed
      <4> QED BY <4>1, <4>2, <4>3
    <3> QED BY <3>1, <3>2
  <2>5. PICK l : l = Lines(m)[i]
    OBVIOUS
  <2>6. l = row \o e /\ Len(e) >= 1
    <3>1. l = row \o e
      BY <2>4, <2>5, LineFacts
    <3>2. Len(e) \in {1, 2}
      BY <2>4, Eols
    <3>3. \A k \in {1, 2} : k >= 1
      OBVIOUS
    <3> QED BY <3>1, <3>2, <3>3
  <2>7. Stands(h, P, l) /\ P + Len(l) <= Len(h)
    BY <1>6, <2>3, <2>5 DEF Lain, LineIn
  <2>8. HasKey(row) /\ LeastOf(Found(h, Key)) = P + 1
    BY <2>1, <2>2, <2>3, <2>4
  <2>9. EndOf(HttpParseHeaderValue(h, Key), row, Cut(row))
    BY <2>2, <2>6, <2>7, <2>8, LineRead
  <2>10. row \in Seq(Chars) /\ Len(row) >= 2
    BY <2>8, CharFacts, WiderSeq DEF CharsAre, HasKey
  <2>11. EndOf(LineValue(row), row, Cut(row))
    BY <2>10, LineValueIs
  <2>12. Cut(row) \in Nat
    BY DEF Cut
  <2>13. HttpParseHeaderValue(h, Key) = LineValue(row)
    BY <2>9, <2>10, <2>11, <2>12, EndsEqual
  <2>14. RowValue(m) = LineValue(row)
    BY <1>8, <2>1, <2>4, RowValueIs
  <2> QED BY <1>5, <2>13, <2>14
<1> QED BY <1>7, <1>8

-----------------------------------------------------------------------------
(***************************************************************************)
(* The body                                                                *)
(***************************************************************************)
(* The header and b bytes of the body have been read. *)
BodyAt(p, m, b) ==
  /\ Len(Rows(m)) <= MaxHeaders /\ Fits(m) /\ DOMAIN p = Fields
  /\ p.state = "END_HEADER" /\ p.answer = "" /\ p.headers = Rows(m) /\ p.body = SubSeq(m.body, 1, b)
  /\ IF m.kind = "request" THEN p.method = m.method /\ p.url = m.url
     ELSE p.status = m.status /\ p.code = ParseLong(m.code)

LEMMA NoneOfBody == ASSUME NEW m, WellFormed(m), NEW p, HeaderRead(p, m) PROVE BodyAt(p, m, 0)
<1>1. SubSeq(m.body, 1, 0) = <<>>
  BY FirstsAll DEF WellFormed
<1> QED BY <1>1 DEF HeaderRead, Began, BodyAt

LEMMA HeaderEndNat == ASSUME NEW m, WellFormed(m) PROVE HeaderEnd(m) \in Nat
<1>1. LineEnd(m) \in Nat /\ Len(m.eol) \in {1, 2} /\ Len(Rows(m)) \in Nat
  BY Sizes DEF Sized
<1> QED BY <1>1 DEF HeaderEnd

(* A segment that stands at a in the text: what follows its first used     *)
(* bytes continues the body from b to c.                                   *)
Carries(segment, m, a, used, b, c) ==
  /\ segment \in Seq(Chars) /\ Stands(Text(m), a, segment)
  /\ used <= Len(segment) /\ a + used = HeaderEnd(m) + b /\ a + Len(segment) = HeaderEnd(m) + c
  /\ c <= Len(m.body)

Put(segment, m, used, b, c) ==
  /\ SubSeq(m.body, 1, b) \o SubSeq(segment, used + 1, Len(segment)) = SubSeq(m.body, 1, c)
  /\ Len(SubSeq(m.body, 1, c)) = c /\ b <= c

LEMMA BodyPut ==
  ASSUME NEW m, WellFormed(m), NEW a \in Nat, NEW used \in Nat, NEW b \in Nat, NEW c \in Nat,
         NEW segment, Carries(segment, m, a, used, b, c)
  PROVE  Put(segment, m, used, b, c)
<1>1. PICK body \in Seq(Chars) : body = m.body
  BY DEF WellFormed
<1>2. PICK N, H \in Nat : N = Len(segment) /\ H = HeaderEnd(m)
  <2>1. Len(segment) \in Nat
    BY LenProperties DEF Carries
  <2>2. HeaderEnd(m) \in Nat
    BY HeaderEndNat
  <2> QED BY <2>1, <2>2
<1>3. /\ segment \in Seq(Chars) /\ Stands(Text(m), a, segment)
      /\ used <= N /\ a + used = H + b /\ a + N = H + c /\ c <= Len(body) /\ Len(body) \in Nat
  BY <1>1, <1>2, LenProperties DEF Carries
<1>14. a + used = H + b /\ a + N = H + c /\ used <= N /\ c <= Len(body) /\ Len(body) \in Nat
  BY <1>3
<1>4. b <= c /\ N - used = c - b /\ b <= Len(body)
  BY <1>14
<1>5. PICK x, y, z : x = SubSeq(body, 1, b) /\ y = SubSeq(segment, used + 1, Len(segment)) /\ z = SubSeq(body, 1, c)
  OBVIOUS
<1>6. x \in Seq(Chars) /\ Len(x) = b /\ \A i \in 1..b : x[i] = body[i]
  <2>1. b \in 0..Len(body)
    BY <1>3, <1>4
  <2> QED BY <1>5, <2>1, Firsts
<1>7. z \in Seq(Chars) /\ Len(z) = c /\ \A i \in 1..c : z[i] = body[i]
  <2>1. c \in 0..Len(body)
    BY <1>3
  <2> QED BY <1>5, <2>1, Firsts
<1>8. y \in Seq(Chars) /\ Len(y) = N - used /\ Stands(segment, used, y)
  <2>1. segment \in Seq(Chars) /\ N <= Len(segment) /\ used <= N
    BY <1>2, <1>3
  <2>2. y = SubSeq(segment, used + 1, N)
    BY <1>2, <1>5
  <2> QED BY <2>1, <2>2, Slice
<1>9. PICK w : w = x \o y
  OBVIOUS
<1>10. w \in Seq(Chars) /\ Len(w) = c /\ Stands(w, 0, x) /\ Stands(w, b, y)
  <2>1. w \in Seq(Chars) /\ Len(w) = Len(x) + Len(y) /\ Stands(w, 0, x) /\ Stands(w, Len(x), y)
    BY <1>6, <1>8, <1>9, Joined
  <2> QED BY <1>4, <1>6, <1>8, <2>1
<1>11. Stands(Text(m), H, body)
  BY <1>1, <1>2, TextLaid DEF Laid
<1>12. ASSUME NEW i \in 1..c PROVE w[i] = z[i]
  <2>1. z[i] = body[i]
    BY <1>7
  <2>2. CASE i <= b
    <3>1. i \in 1..b /\ i \in 1..Len(x) /\ 0 + i = i
      BY <1>6, <2>2
    <3> QED BY <1>6, <1>10, <2>1, <3>1 DEF Stands
  <2>3. CASE ~(i <= b)
    <3>6. i - b \in Nat
      BY <2>3
    <3>1. PICK j \in Nat : j = i - b
      BY <3>6, Zenon
    <3>2. j >= 1 /\ b + j = i /\ j <= N - used /\ used + j \in 1..N /\ i \in 1..Len(body)
      <4>1. i \in Nat /\ i >= 1 /\ i <= c /\ b \in Nat
        BY <1>12
      <4>2. j >= 1 /\ b + j = i
        BY <2>3, <3>1, <4>1
      <4>3. j <= c - b
        BY <4>1, <4>2
      <4>4. j <= N - used /\ used + j \in 1..N
        BY <1>4, <1>14, <4>2, <4>3
      <4>5. i \in 1..Len(body)
        BY <1>14, <4>1
      <4> QED BY <4>2, <4>4, <4>5
    <3>3. w[i] = y[j] /\ y[j] = segment[used + j]
      <4>1. j \in 1..Len(y)
        BY <1>8, <3>2
      <4> QED BY <1>8, <1>10, <3>2, <4>1 DEF Stands
    <3>4. segment[used + j] = Text(m)[a + (used + j)]
      BY <1>2, <1>3, <3>2 DEF Stands
    <3>5. Text(m)[H + i] = body[i]
      BY <1>11, <3>2 DEF Stands
    <3>7. a + (used + j) = H + i
      BY <1>14, <3>2
    <3> QED BY <2>1, <3>3, <3>4, <3>5, <3>7
  <2> QED BY <2>2, <2>3
<1>13. w = z
  BY <1>7, <1>10, <1>12, SeqEqual
<1> QED BY <1>1, <1>4, <1>5, <1>7, <1>9, <1>13 DEF Put

(* The length that is stated is a long. *)
LEMMA ValueIs ==
  ASSUME NEW m, WellFormed(m), IsNumber(RowValue(m)) PROVE ParseLong(RowValue(m)) = Number(RowValue(m))
<1>1. CASE Named(m) = {}
  <2>1. RowValue(m) = NoValue
    BY <1>1, RowValueIs
  <2>2. IsDigit("none")
    BY <2>1 DEF NoValue, IsNumber
  <2> QED BY <2>2 DEF IsDigit, ToSet, Digits
<1>2. CASE Named(m) # {}
  <2>1. PICK i \in 1..Len(m.rows) : HasKey(m.rows[i]) /\ LeastOf(Named(m)) = i
    BY <1>2, NamedFirst
  <2>2. PICK row : row = m.rows[i]
    OBVIOUS
  <2>3. row \in Seq(Chars) /\ Len(row) >= 2
    <3>1. row \in Seq(Chars)
      BY <2>2, LineFacts, CharFacts, WiderSeq DEF CharsAre
    <3> QED BY <2>1, <2>2, <3>1 DEF HasKey
  <2>4. PICK v : v = RowValue(m)
    OBVIOUS
  <2>5. v = LineValue(row)
    BY <1>2, <2>1, <2>2, <2>4, RowValueIs
  <2>6. EndOf(v, row, Cut(row))
    BY <2>3, <2>5, LineValueIs
  <2>7. Len(v) \in Nat /\ DOMAIN v = 1..Len(v)
    BY <2>6, LenProperties DEF EndOf
  <2>8. IsNumber(v) /\ Number(v) < LongSize
    <3>1. LengthIsLong(m)
      BY DEF WellFormed
    <3> QED BY <2>4, <3>1 DEF LengthIsLong
  <2> QED BY <2>4, <2>7, <2>8, ParseLongIs
<1> QED BY <1>1, <1>2

(* What the value of the header says of the length of the body. *)
TooLong(v) == ParseLong(v) > MaxData
Unusable(v) == v = NoValue \/ ~IsNumber(v) \/ TooLong(v)

LEMMA BodyFault ==
  ASSUME NEW m, WellFormed(m), Fits(m), Len(Rows(m)) <= MaxHeaders
  PROVE  Fault(m) = IF m.kind = "request" /\ m.method \notin Bodyless
                    THEN IF RowValue(m) = NoValue THEN "411"
                         ELSE IF ~IsNumber(RowValue(m)) THEN "400"
                         ELSE IF TooLong(RowValue(m)) THEN "413" ELSE ""
                    ELSE ""
<1>1. Len(Rows(m)) \in Nat /\ MaxHeaders \in Nat
  BY Sizes, LimitAssumption DEF Sized
<1>2. ~(Len(Rows(m)) > MaxHeaders)
  BY <1>1
<1>3. ~(m.kind = "request" /\ Len(m.method) > MaxMethod)
  <2>1. ASSUME m.kind = "request" PROVE ~(Len(m.method) > MaxMethod)
    <3>1. Len(m.method) \in Nat /\ MaxMethod \in Nat
      BY <2>1, RequestTypes
    <3>2. Len(m.method) <= MaxMethod
      BY <2>1 DEF Fits
    <3> QED BY <3>1, <3>2
  <2> QED BY <2>1
<1>4. ~(m.kind = "request" /\ Len(m.method) <= MaxMethod /\ Len(m.url) > MaxUrl)
  <2>1. ASSUME m.kind = "request" PROVE ~(Len(m.url) > MaxUrl)
    <3>1. Len(m.url) \in Nat /\ MaxUrl \in Nat
      BY <2>1, RequestTypes
    <3>2. Len(m.url) <= MaxUrl
      BY <2>1 DEF Fits
    <3> QED BY <3>1, <3>2
  <2> QED BY <2>1
<1>5. ~(m.kind = "response" /\ (Len(m.code) >= MaxStatus \/ Len(m.status) >= MaxStatus))
  <2>1. ASSUME m.kind = "response" PROVE ~(Len(m.code) >= MaxStatus) /\ ~(Len(m.status) >= MaxStatus)
    <3>1. Len(m.code) \in Nat /\ Len(m.status) \in Nat /\ MaxStatus \in Nat
      BY <2>1, ResponseTypes
    <3>2. Len(m.code) < MaxStatus /\ Len(m.status) < MaxStatus
      BY <2>1 DEF Fits
    <3> QED BY <3>1, <3>2
  <2> QED BY <2>1
<1>6. IsNumber(RowValue(m)) => ParseLong(RowValue(m)) = Number(RowValue(m))
  BY ValueIs
<1>7. IsNumber(RowValue(m)) => (TooLong(RowValue(m)) <=> Number(RowValue(m)) > MaxData)
  BY <1>6, Zenon DEF TooLong
<1> QED BY <1>2, <1>3, <1>4, <1>5, <1>7, Zenon DEF Fault

LEMMA BodyLengthIs ==
  ASSUME NEW m, WellFormed(m)
  PROVE  BodyLength(m) = IF (m.kind = "request" /\ m.method \in Bodyless) \/ Unusable(RowValue(m)) THEN 0
                         ELSE ParseLong(RowValue(m))
<1>1. IsNumber(RowValue(m)) => ParseLong(RowValue(m)) = Number(RowValue(m))
  BY ValueIs
<1>2. CASE IsNumber(RowValue(m))
  BY <1>1, <1>2, Zenon DEF BodyLength, Unusable, TooLong
<1>3. CASE ~IsNumber(RowValue(m))
  BY <1>3, Zenon DEF BodyLength, Unusable, TooLong
<1> QED BY <1>2, <1>3

Faultless(m) == Fault(m) = ""

(* The body is over, at once or with its last byte, or goes on. *)
BodyRead(q, m, c) ==
  \/ Broken(q, m)
  \/ Faultless(m) /\ c = Len(m.body) /\ ReadAs(q, m)
  \/ Faultless(m) /\ c < Len(m.body) /\ BodyAt(q, m, c)

LEMMA BodyRefused ==
  ASSUME NEW m, NEW p, NEW b, BodyAt(p, m, b), NEW f, f # "", Fault(m) = f, NEW c
  PROVE  BodyRead(Failed(p, f), m, c)
<1>1. DOMAIN p = Fields /\ p.state = "END_HEADER"
  BY DEF BodyAt
<1>2. Failed(p, f).answer = f /\ Failed(p, f).state = "END_HEADER"
  BY <1>1 DEF Failed, Fields
<1> QED BY <1>2 DEF BodyRead, Broken

LEMMA NoBody ==
  ASSUME NEW m, WellFormed(m), Faultless(m), BodyLength(m) = 0, NEW p, NEW a \in Nat, NEW used \in Nat,
         NEW b \in Nat, NEW c \in Nat, BodyAt(p, m, b), NEW segment, Carries(segment, m, a, used, b, c)
  PROVE  BodyRead([p EXCEPT !.state = "END_MESSAGE"], m, c)
<1>1. Len(m.body) = 0
  BY DEF WellFormed, Faultless
<1>8. b <= c /\ c <= Len(m.body)
  BY BodyPut DEF Put, Carries
<1>9. c <= 0
  BY <1>1, <1>8
<1>2. b = 0 /\ c = 0
  BY <1>8, <1>9
<1>3. SubSeq(m.body, 1, 0) = m.body
  BY <1>1, FirstsAll DEF WellFormed
<1>4. PICK q : q = [p EXCEPT !.state = "END_MESSAGE"]
  OBVIOUS
<1>5. /\ q.state = "END_MESSAGE" /\ q.answer = p.answer /\ q.headers = p.headers /\ q.body = p.body
      /\ q.method = p.method /\ q.url = p.url /\ q.code = p.code /\ q.status = p.status
  BY <1>4 DEF BodyAt, Fields
<1>6. m.kind = "request" \/ m.kind = "response"
  BY DEF WellFormed
<1>7. ReadAs(q, m)
  BY <1>2, <1>3, <1>5, <1>6, CodeIs DEF BodyAt, ReadAs
<1> QED BY <1>1, <1>2, <1>4, <1>7 DEF BodyRead

LEMMA SomeBody ==
  ASSUME NEW m, WellFormed(m), Faultless(m), NEW p, NEW a \in Nat, NEW used \in Nat, NEW b \in Nat, NEW c \in Nat,
         BodyAt(p, m, b), NEW segment, Carries(segment, m, a, used, b, c), NEW length, BodyLength(m) = length
  PROVE  BodyRead(Ended(HttpMessagePutData(p, segment, used), length), m, c)
<1>1. PICK q : q = HttpMessagePutData(p, segment, used)
  OBVIOUS
<1>2. q = [p EXCEPT !.body = p.body \o SubSeq(segment, used + 1, Len(segment))]
  BY <1>1 DEF HttpMessagePutData, BodyStart
<1>3. DOMAIN p = Fields /\ p.body = SubSeq(m.body, 1, b)
  BY DEF BodyAt
<1>4. /\ DOMAIN q = Fields /\ q.body = p.body \o SubSeq(segment, used + 1, Len(segment))
      /\ q.state = p.state /\ q.answer = p.answer /\ q.headers = p.headers
      /\ q.method = p.method /\ q.url = p.url /\ q.code = p.code /\ q.status = p.status
  BY <1>2, <1>3 DEF Fields
<1>5. q.body = SubSeq(m.body, 1, c) /\ Len(q.body) = c
  <2>1. Put(segment, m, used, b, c)
    BY BodyPut
  <2> QED BY <1>3, <1>4, <2>1 DEF Put
<1>6. BodyAt(q, m, c)
  BY <1>4, <1>5 DEF BodyAt
<1>7. Len(m.body) = length /\ Len(m.body) \in Nat /\ c <= Len(m.body)
  BY LenProperties DEF WellFormed, Faultless, Carries
<1>8. CASE c = length
  <2>1. Ended(q, length) = [q EXCEPT !.state = "END_MESSAGE"]
    BY <1>5, <1>8 DEF Ended
  <2>2. PICK r : r = [q EXCEPT !.state = "END_MESSAGE"]
    OBVIOUS
  <2>3. /\ r.state = "END_MESSAGE" /\ r.answer = q.answer /\ r.headers = q.headers /\ r.body = q.body
        /\ r.method = q.method /\ r.url = q.url /\ r.code = q.code /\ r.status = q.status
    BY <1>4, <2>2 DEF Fields
  <2>4. m.kind = "request" \/ m.kind = "response"
    BY DEF WellFormed
  <2>5. q.body = m.body
    <3>1. SubSeq(m.body, 1, Len(m.body)) = m.body
      BY FirstsAll DEF WellFormed
    <3> QED BY <1>5, <1>7, <1>8, <3>1
  <2>6. ReadAs(r, m)
    BY <1>6, <2>3, <2>4, <2>5, CodeIs DEF BodyAt, ReadAs
  <2> QED BY <1>1, <1>7, <1>8, <2>1, <2>2, <2>6 DEF BodyRead
<1>9. CASE c # length
  <2>1. Ended(q, length) = q
    BY <1>5, <1>9 DEF Ended
  <2>2. c < Len(m.body)
    <3>1. Len(m.body) # c /\ Len(m.body) \in Nat /\ c <= Len(m.body)
      BY <1>7, <1>9
    <3> QED BY <3>1
  <2> QED BY <1>1, <1>6, <2>1, <2>2 DEF BodyRead
<1> QED BY <1>8, <1>9

LEMMA RequestRead ==
  ASSUME NEW m, WellFormed(m), KeyApart(m), m.kind = "request", NEW p, NEW a \in Nat, NEW used \in Nat,
         NEW b \in Nat, NEW c \in Nat, BodyAt(p, m, b), NEW segment, Carries(segment, m, a, used, b, c)
  PROVE  BodyRead(RequestBody(p, segment, used), m, c)
<1>1. PICK v : v = RowValue(m)
  OBVIOUS
<1>2. HttpParseHeaderValue(p.headers, Key) = v /\ p.method = m.method
  BY <1>1, ValueRead DEF BodyAt
<1>3. Fault(m) = IF m.method \notin Bodyless
                 THEN IF v = NoValue THEN "411" ELSE IF ~IsNumber(v) THEN "400" ELSE IF TooLong(v) THEN "413" ELSE ""
                 ELSE ""
  BY <1>1, BodyFault DEF BodyAt
<1>4. BodyLength(m) = IF m.method \in Bodyless \/ Unusable(v) THEN 0 ELSE ParseLong(v)
  BY <1>1, BodyLengthIs, Zenon
<1>6. CASE m.method \in Bodyless
  <2>1. RequestBody(p, segment, used) = [p EXCEPT !.state = "END_MESSAGE"]
    BY <1>2, <1>6 DEF RequestBody
  <2>2. Faultless(m) /\ BodyLength(m) = 0
    BY <1>3, <1>4, <1>6 DEF Faultless
  <2> QED BY <2>1, <2>2, NoBody
<1>7. CASE m.method \notin Bodyless /\ v = NoValue
  <2>1. RequestBody(p, segment, used) = Failed(p, "411")
    BY <1>2, <1>7 DEF RequestBody
  <2>2. Fault(m) = "411"
    BY <1>3, <1>7
  <2> QED BY <2>1, <2>2, BodyRefused
<1>8. CASE m.method \notin Bodyless /\ v # NoValue
  <2>1. RequestBody(p, segment, used) =
          IF ~IsNumber(v) THEN Failed(p, "400")
          ELSE IF TooLong(v) THEN Failed(p, "413")
          ELSE Ended(HttpMessagePutData(p, segment, used), ParseLong(v))
    BY <1>2, <1>8 DEF RequestBody, TooLong
  <2>2. CASE ~IsNumber(v)
    <3>1. Fault(m) = "400" /\ RequestBody(p, segment, used) = Failed(p, "400")
      BY <1>3, <1>8, <2>1, <2>2, Zenon
    <3> QED BY <3>1, BodyRefused
  <2>3. CASE IsNumber(v) /\ TooLong(v)
    <3>1. Fault(m) = "413" /\ RequestBody(p, segment, used) = Failed(p, "413")
      BY <1>3, <1>8, <2>1, <2>3, Zenon
    <3> QED BY <3>1, BodyRefused
  <2>4. CASE IsNumber(v) /\ ~TooLong(v)
    <3>1. /\ Faultless(m) /\ BodyLength(m) = ParseLong(v)
          /\ RequestBody(p, segment, used) = Ended(HttpMessagePutData(p, segment, used), ParseLong(v))
      BY <1>3, <1>4, <1>8, <2>1, <2>4, Zenon DEF Unusable, Faultless
    <3> QED BY <3>1, SomeBody
  <2> QED BY <2>2, <2>3, <2>4
<1> QED BY <1>6, <1>7, <1>8

LEMMA ResponseRead ==
  ASSUME NEW m, WellFormed(m), KeyApart(m), m.kind = "response", NEW p, NEW a \in Nat, NEW used \in Nat,
         NEW b \in Nat, NEW c \in Nat, BodyAt(p, m, b), NEW segment, Carries(segment, m, a, used, b, c)
  PROVE  BodyRead(ResponseBody(p, segment, used), m, c)
<1>1. PICK v : v = RowValue(m)
  OBVIOUS
<1>2. HttpParseHeaderValue(p.headers, Key) = v
  BY <1>1, ValueRead DEF BodyAt
<1>3. Faultless(m)
  BY BodyFault DEF BodyAt, Faultless
<1>4. PICK n : n = BodyLength(m)
  OBVIOUS
<1>5. n = IF Unusable(v) THEN 0 ELSE ParseLong(v)
  BY <1>1, <1>4, BodyLengthIs, Zenon
<1>6. n = IF v = NoValue \/ ~IsNumber(v) THEN 0 ELSE IF ParseLong(v) > MaxData THEN 0 ELSE ParseLong(v)
  BY <1>5, Zenon DEF Unusable, TooLong
<1>7. ResponseBody(p, segment, used) =
        IF n = 0 THEN [p EXCEPT !.state = "END_MESSAGE"] ELSE Ended(HttpMessagePutData(p, segment, used), n)
  BY <1>2, <1>6, Zenon DEF ResponseBody
<1>9. CASE n = 0
  <2>1. BodyLength(m) = 0 /\ ResponseBody(p, segment, used) = [p EXCEPT !.state = "END_MESSAGE"]
    BY <1>4, <1>7, <1>9
  <2> QED BY <1>3, <2>1, NoBody
<1>10. CASE n # 0
  BY <1>3, <1>4, <1>7, <1>10, SomeBody
<1> QED BY <1>9, <1>10

-----------------------------------------------------------------------------
(***************************************************************************)
(* The theorems                                                            *)
(***************************************************************************)
(* A part of the body has been read. *)
InBody(p, m, k) ==
  \E b \in Nat : b < Len(m.body) /\ k = HeaderEnd(m) + b /\ Faultless(m) /\ BodyAt(p, m, b)

AllRead(p, m, k) == k = Len(Text(m)) /\ Faultless(m) /\ ReadAs(p, m)

(* The parser has read, of what has arrived, every byte into its part. *)
Parsed(p, m, k) == Broken(p, m) \/ Scanned(p, m, k) \/ InBody(p, m, k) \/ AllRead(p, m, k)

IInv ==
  /\ message \in Messages /\ arrived \in 0..Len(Text(message))
  /\ Parsed(parser, message, arrived)

(* The hypothesis of the theorems.  HttpParseHeaderValue searches all of   *)
(* the rows for the key; without it a name that ends with the key would be *)
(* taken for it, as HttpLookup.cfg shows.                                  *)
KeysApart == \A m \in Messages : KeyApart(m)

LEMMA InitParsed == ASSUME Init PROVE IInv
<1>1. message \in Messages /\ arrived = 0
  BY DEF Init
<1>2. WellFormed(message)
  BY <1>1, MessageAssumption
<1>3. Len(Text(message)) \in Nat
  BY <1>2, TextLaid, LenProperties DEF Laid
<1>4. /\ DOMAIN parser = Fields /\ parser.state = "START" /\ parser.answer = "" /\ parser.method = <<>>
      /\ parser.url = <<>> /\ parser.status = <<>> /\ parser.headers = <<>> /\ parser.body = <<>>
  BY DEF Init, Fields
<1>5. Reads(parser, "START")
  BY <1>4 DEF Reads
<1>6. AtLine(parser, message, 0)
  <2>1. CASE message.kind = "request"
    <3>1. Len(message.method) \in Nat /\ MaxMethod \in Nat /\ message.method \in Seq({"A"})
      BY <1>2, <2>1, RequestTypes
    <3>2. 0 <= Len(message.method) /\ 0 <= MaxMethod
      BY <3>1
    <3>3. SubSeq(message.method, 1, 0) = <<>>
      BY <3>1, FirstsAll
    <3>4. InMethod(parser, message, 0)
      BY <1>4, <1>5, <2>1, <3>2, <3>3 DEF InMethod
    <3> QED BY <3>4 DEF AtLine
  <2>2. CASE message.kind = "response"
    <3>1. Len(message.version) \in Nat
      BY <1>2, <2>2, ResponseTypes
    <3>2. 0 <= Len(message.version)
      BY <3>1
    <3>3. InAnswer(parser, message, 0)
      BY <1>4, <1>5, <2>2, <3>2 DEF InAnswer
    <3> QED BY <3>3 DEF AtLine
  <2> QED BY <1>2, <2>1, <2>2 DEF WellFormed
<1>7. Parsed(parser, message, arrived)
  BY <1>1, <1>6 DEF Parsed, Scanned
<1>8. arrived \in 0..Len(Text(message))
  BY <1>1, <1>3
<1> QED BY <1>1, <1>7, <1>8 DEF IInv

(* What RequestBody or ResponseBody leaves. *)
LEMMA BodyParsed ==
  ASSUME NEW m, WellFormed(m), NEW q, NEW c \in Nat, BodyRead(q, m, c), NEW k, k = HeaderEnd(m) + c
  PROVE  Parsed(q, m, k)
<1>1. Len(Text(m)) = HeaderEnd(m) + Len(m.body)
  BY TextLaid DEF Laid
<1> QED BY <1>1 DEF BodyRead, Parsed, InBody, AllRead

(* The body part of a segment. *)
BodyOf(p, segment, used) ==
  IF message.kind = "request" THEN RequestBody(p, segment, used) ELSE ResponseBody(p, segment, used)

LEMMA SegmentBody ==
  ASSUME NEW m, m = message, WellFormed(m), KeyApart(m), NEW p, NEW a \in Nat, NEW used \in Nat, NEW b \in Nat,
         BodyAt(p, m, b), NEW segment \in Seq(Chars), Stands(Text(m), a, segment), used <= Len(segment),
         a + used = HeaderEnd(m) + b, NEW k \in Nat, k = a + Len(segment), k <= Len(Text(m))
  PROVE  Parsed(BodyOf(p, segment, used), m, k)
<1>1. PICK H \in Nat : H = HeaderEnd(m)
  <2>1. HeaderEnd(m) \in Nat
    BY HeaderEndNat
  <2> QED BY <2>1, Zenon
<1>2. PICK B \in Nat : B = Len(m.body)
  BY Sizes DEF Sized
<1>3. PICK N \in Nat : N = Len(segment)
  BY LenProperties
<1>4. Len(Text(m)) = H + B
  BY <1>1, <1>2, TextLaid DEF Laid
<1>5. used <= N /\ a + used = H + b /\ k = a + N /\ k <= H + B
  BY <1>1, <1>3, <1>4
<1>6. k - H \in Nat
  BY <1>5
<1>7. PICK c \in Nat : c = k - H
  BY <1>6, Zenon
<1>8. a + N = H + c /\ c <= B /\ k = H + c
  BY <1>5, <1>7
<1>9. Carries(segment, m, a, used, b, c)
  BY <1>1, <1>2, <1>3, <1>5, <1>8 DEF Carries
<1>10. PICK q : q = BodyOf(p, segment, used)
  OBVIOUS
<1>11. BodyRead(q, m, c)
  <2>1. CASE m.kind = "request"
    <3>1. q = RequestBody(p, segment, used)
      BY <1>10, <2>1 DEF BodyOf
    <3>2. BodyRead(RequestBody(p, segment, used), m, c)
      BY <1>9, <2>1, RequestRead
    <3> QED BY <3>1, <3>2
  <2>2. CASE m.kind = "response"
    <3>1. q = ResponseBody(p, segment, used)
      BY <1>10, <2>2 DEF BodyOf
    <3>2. BodyRead(ResponseBody(p, segment, used), m, c)
      BY <1>9, <2>2, ResponseRead
    <3> QED BY <3>1, <3>2
  <2> QED BY <2>1, <2>2 DEF WellFormed
<1>12. k = HeaderEnd(m) + c
  BY <1>1, <1>8
<1> QED BY <1>10, <1>11, <1>12, BodyParsed

LEMMA ReceiveParsed ==
  ASSUME KeysApart, IInv, NEW n \in 1..(Len(Text(message)) - arrived), Receive(n) PROVE IInv'
<1>1. PICK m : m = message
  OBVIOUS
<1>2. m \in Messages /\ WellFormed(m) /\ KeyApart(m) /\ message' = m
  BY <1>1, MessageAssumption DEF IInv, KeysApart, Receive
<1>3. PICK a, L \in Nat : a = arrived /\ L = Len(Text(m))
  <2>1. Len(Text(message)) \in Nat
    BY <1>1, <1>2, TextLaid, LenProperties DEF Laid
  <2>2. arrived \in Nat
    BY <2>1 DEF IInv
  <2> QED BY <1>1, <2>1, <2>2
<1>4. n \in 1..(L - a)
  BY <1>1, <1>3
<1>5. a + n \in Nat /\ a + n <= L
  BY <1>3, <1>4
<1>6. PICK k \in Nat : k = a + n /\ arrived' = k
  BY <1>3, <1>5 DEF Receive
<1>7. a <= k /\ k <= L /\ k - a = n /\ n \in Nat
  BY <1>3, <1>4, <1>6
<1>8. PICK segment : segment = SubSeq(Text(m), a + 1, k)
  OBVIOUS
<1>9. segment \in Seq(Chars) /\ Len(segment) = n /\ Stands(Text(m), a, segment)
  <2>1. Text(m) \in Seq(Chars)
    BY <1>2, TextLaid DEF Laid
  <2>2. /\ SubSeq(Text(m), a + 1, k) \in Seq(Chars) /\ Len(SubSeq(Text(m), a + 1, k)) = k - a
        /\ Stands(Text(m), a, SubSeq(Text(m), a + 1, k))
    BY <1>3, <1>7, <2>1, Slice
  <2> QED BY <1>7, <1>8, <2>2
<1>10. PICK h : h = ParseHeaders(segment)
  OBVIOUS
<1>11. parser' = CASE h.parser.answer # "" \/ h.parser.state # "END_HEADER" -> h.parser
                   [] message.kind = "request" /\ h.parser.answer = "" /\ h.parser.state = "END_HEADER" ->
                        RequestBody(h.parser, segment, h.used)
                   [] message.kind = "response" /\ h.parser.answer = "" /\ h.parser.state = "END_HEADER" ->
                        ResponseBody(h.parser, segment, h.used)
  BY <1>1, <1>3, <1>6, <1>8, <1>10 DEF Receive
<1>12. ASSUME h.parser.answer # "" \/ h.parser.state # "END_HEADER" PROVE parser' = h.parser
  BY <1>11, <1>12
<1>13. ASSUME h.parser.answer = "" /\ h.parser.state = "END_HEADER" PROVE parser' = BodyOf(h.parser, segment, h.used)
  <2>1. m.kind \in {"request", "response"}
    BY <1>2 DEF WellFormed
  <2>2. CASE m.kind = "request"
    BY <1>1, <1>11, <1>13, <2>2 DEF BodyOf
  <2>3. CASE m.kind = "response"
    BY <1>1, <1>11, <1>13, <2>3 DEF BodyOf
  <2> QED BY <2>1, <2>2, <2>3
<1>14. ~HeaderOver(parser) \/ (parser.state = "END_HEADER" /\ parser.answer = "")
  BY DEF Receive
<1>15. Parsed(parser, m, a)
  BY <1>1, <1>3 DEF IInv
<1>16. ~Broken(parser, m)
  BY <1>14 DEF Broken, HeaderOver
<1>17. ~AllRead(parser, m, a)
  BY <1>14 DEF AllRead, ReadAs, HeaderOver
<1>18. ASSUME Scanned(parser, m, a) PROVE Parsed(parser', m, k)
  <2>1. Passed(h, m, a, n)
    BY <1>1, <1>2, <1>7, <1>9, <1>10, <1>18, SegmentPassed
  <2>2. CASE Broken(h.parser, m)
    <3>1. parser' = h.parser
      BY <1>12, <2>2 DEF Broken
    <3> QED BY <2>2, <3>1 DEF Parsed
  <2>3. CASE Scanned(h.parser, m, a + n)
    <3>1. h.parser.state # "END_HEADER"
      BY <1>2, <2>3, ScannedGoesOn
    <3> QED BY <1>6, <1>12, <2>3, <3>1 DEF Parsed
  <2>4. CASE h.used \in 1..n /\ a + h.used = HeaderEnd(m) /\ HeaderRead(h.parser, m)
    <3>1. PICK used \in Nat : used = h.used /\ used <= n
      BY <1>7, <2>4
    <3>2. PICK p : p = h.parser
      OBVIOUS
    <3>3. BodyAt(p, m, 0)
      BY <1>2, <2>4, <3>2, NoneOfBody
    <3>4. parser' = BodyOf(p, segment, used)
      BY <1>13, <3>1, <3>2, <3>3 DEF BodyAt
    <3>5. a + used = HeaderEnd(m) + 0
      <4>1. HeaderEnd(m) = a + used
        BY <2>4, <3>1
      <4> QED BY <1>3, <3>1, <4>1
    <3>6. used <= Len(segment) /\ k = a + Len(segment) /\ k <= Len(Text(m))
      BY <1>3, <1>6, <1>7, <1>9, <3>1
    <3>7. Parsed(BodyOf(p, segment, used), m, k)
      BY <1>1, <1>2, <1>3, <1>6, <1>9, <3>1, <3>3, <3>5, <3>6, SegmentBody
    <3> QED BY <3>4, <3>7
  <2> QED BY <2>1, <2>2, <2>3, <2>4 DEF Passed
<1>19. ASSUME InBody(parser, m, a) PROVE Parsed(parser', m, k)
  <2>1. PICK b \in Nat : a = HeaderEnd(m) + b /\ BodyAt(parser, m, b)
    BY <1>19 DEF InBody
  <2>2. h = [parser |-> parser, used |-> 0]
    <3>1. HeaderOver(parser)
      BY <2>1 DEF BodyAt, HeaderOver
    <3>2. Len(segment) \in Nat
      BY <1>7, <1>9
    <3> QED BY <1>10, <3>1, <3>2, NothingParsed DEF NoneRead
  <2>3. h.parser = parser /\ h.used = 0
    BY <2>2
  <2>4. parser' = BodyOf(parser, segment, 0)
    BY <1>13, <2>1, <2>3 DEF BodyAt
  <2>5. a + 0 = HeaderEnd(m) + b
    BY <1>3, <2>1
  <2>6. 0 <= Len(segment) /\ k = a + Len(segment) /\ k <= Len(Text(m))
    BY <1>3, <1>6, <1>7, <1>9
  <2>7. Parsed(BodyOf(parser, segment, 0), m, k)
    BY <1>1, <1>2, <1>3, <1>6, <1>9, <2>1, <2>5, <2>6, SegmentBody
  <2> QED BY <2>4, <2>7
<1>20. Parsed(parser', m, k)
  BY <1>15, <1>16, <1>17, <1>18, <1>19 DEF Parsed
<1>21. k \in 0..Len(Text(m))
  BY <1>3, <1>7
<1> QED BY <1>2, <1>6, <1>20, <1>21 DEF IInv

(* Wherever the text of a message is cut, HttpTcpOnIncomingData and        *)
(* HttpParseResponse leave a parser that has every byte in its part.       *)
THEOREM ParsedThroughout == ASSUME KeysApart PROVE Spec => []IInv
<1>1. Init => IInv
  BY InitParsed
<1>2. IInv /\ [Next]_vars => IInv'
  <2> SUFFICES ASSUME IInv, [Next]_vars PROVE IInv'
    OBVIOUS
  <2>1. CASE Next
    BY <2>1, ReceiveParsed DEF Next
  <2>2. CASE UNCHANGED vars
    BY <2>2 DEF vars, IInv, Parsed
  <2> QED BY <2>1, <2>2
<1> QED BY <1>1, <1>2, PTL DEF Spec

(* However its bytes are cut into segments, a message that has arrived has *)
(* been read into its parts, or its fault was found, by the calls of       *)
(* HttpTcpOnIncomingData and HttpParseResponse.                            *)
THEOREM WholeMessageIsRead == ASSUME KeysApart PROVE Spec => []WholeMessageRead
<1>1. IInv => WholeMessageRead
  <2> SUFFICES ASSUME IInv, arrived = Len(Text(message))
               PROVE  IF Fault(message) = "" THEN ReadAs(parser, message) ELSE parser.answer = Fault(message)
    BY DEF WholeMessageRead
  <2>1. PICK m : m = message
    OBVIOUS
  <2>2. WellFormed(m) /\ Parsed(parser, m, Len(Text(m)))
    BY <2>1, MessageAssumption DEF IInv
  <2>3. Sized(m) /\ Len(Text(m)) = HeaderEnd(m) + Len(m.body)
    BY <2>2, Sizes, TextLaid DEF Laid
  <2>4. PICK H, B \in Nat : H = HeaderEnd(m) /\ B = Len(m.body)
    <3>1. HeaderEnd(m) \in Nat /\ Len(m.body) \in Nat
      BY <2>2, <2>3, HeaderEndNat DEF Sized
    <3> QED BY <3>1
  <2>5. PICK L \in Nat : L = Len(Text(m)) /\ L = H + B
    BY <2>3, <2>4
  <2>6. ~Scanned(parser, m, L)
    <3>1. Scanned(parser, m, L) => L < HeaderEnd(m)
      BY <2>2, ScannedEarly
    <3> QED BY <2>4, <2>5, <3>1
  <2>7. ~InBody(parser, m, L)
    <3>1. ASSUME NEW b \in Nat, b < Len(m.body), L = HeaderEnd(m) + b PROVE FALSE
      BY <2>4, <2>5, <3>1
    <3> QED BY <3>1 DEF InBody
  <2>8. Broken(parser, m) \/ AllRead(parser, m, L)
    BY <2>2, <2>5, <2>6, <2>7 DEF Parsed
  <2> QED BY <2>1, <2>8 DEF Broken, AllRead, Faultless
<1> QED BY <1>1, ParsedThroughout, PTL

(* Before it has arrived, the parser takes no message for read, and finds  *)
(* no fault that the message does not have.                                *)
THEOREM NothingIsReadEarly == ASSUME KeysApart PROVE Spec => []NothingReadEarly
<1>1. IInv => NothingReadEarly
  <2> SUFFICES ASSUME IInv, arrived < Len(Text(message))
               PROVE  parser.state # "END_MESSAGE" /\ parser.answer \in {"", Fault(message)}
    BY DEF NothingReadEarly
  <2>1. WellFormed(message) /\ Parsed(parser, message, arrived)
    BY MessageAssumption DEF IInv
  <2>2. Len(Text(message)) \in Nat /\ arrived \in Nat
    <3>1. Len(Text(message)) \in Nat
      BY <2>1, TextLaid, LenProperties DEF Laid
    <3> QED BY <3>1 DEF IInv
  <2>3. arrived # Len(Text(message))
    BY <2>2
  <2>4. CASE Broken(parser, message)
    BY <2>4 DEF Broken
  <2>5. CASE Scanned(parser, message, arrived)
    BY <2>1, <2>5, ScannedGoesOn
  <2>6. CASE InBody(parser, message, arrived)
    BY <2>6 DEF InBody, BodyAt
  <2> QED BY <2>1, <2>3, <2>4, <2>5, <2>6 DEF Parsed, AllRead
<1> QED BY <1>1, ParsedThroughout, PTL

(* The value that HttpParseHeaderValue finds is that of the row with the   *)
(* key for its name.                                                       *)
THEOREM ValueIsOfRow == ASSUME KeysApart PROVE Spec => []ValueOfRow
<1>1. ASSUME KeysApart, IInv PROVE ValueOfRow
  <2> SUFFICES ASSUME parser.state = "END_MESSAGE"
               PROVE  HttpParseHeaderValue(parser.headers, Key) = RowValue(message)
    BY DEF ValueOfRow
  <2>1. WellFormed(message) /\ KeyApart(message) /\ Parsed(parser, message, arrived)
    BY <1>1, MessageAssumption DEF IInv, KeysApart
  <2>2. ~Broken(parser, message)
    BY DEF Broken
  <2>3. ~Scanned(parser, message, arrived)
    BY <2>1, ScannedGoesOn
  <2>4. ~InBody(parser, message, arrived)
    BY DEF InBody, BodyAt
  <2>5. parser.headers = Rows(message)
    BY <2>1, <2>2, <2>3, <2>4 DEF Parsed, AllRead, ReadAs
  <2> QED BY <2>1, <2>5, ValueRead
<1>2. KeysApart => (IInv => ValueOfRow)
  BY <1>1
<1> QED BY <1>2, ParsedThroughout, PTL
=============================================================================
