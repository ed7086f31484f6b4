----------------------------- MODULE DataLemmas -----------------------------
(***************************************************************************)
(* Facts about data that the proofs of several modules need: the least     *)
(* number of a set, what popping and pushing does to the members of a      *)
(* sequence used as a stack, first element on top, mapping, flattening,    *)
(* and sums.                                                               *)
(***************************************************************************)
EXTENDS SequencesExt, SequenceTheorems, FiniteSetTheorems, WellFoundedInduction,
        NaturalsInduction, TLAPS

(* A set of numbers that is not empty has a least one, which Min picks.    *)
LEMMA LeastElement ==
    ASSUME NEW T \in SUBSET Nat, T # {}
    PROVE  \E m \in T : \A k \in T : m <= k
  <1>1. PICK m \in T : \A k \in T : ~(<<k, m>> \in OpToRel(<, Nat))
    BY NatLessThanWellFounded, WFMin
  <1>2. \A k \in T : ~(k < m)
    BY <1>1 DEF OpToRel
  <1>. QED  BY <1>2

LEMMA MinProperties ==
    ASSUME NEW T \in SUBSET Nat, T # {}
    PROVE  Min(T) \in T /\ \A k \in T : Min(T) <= k
  BY LeastElement DEF Min

(* A stack that is not empty, and the stack after its top has been popped. *)
LEMMA PopProperties ==
    ASSUME NEW S, NEW s \in Seq(S), s # <<>>
    PROVE  /\ Head(s) \in S /\ Head(s) = s[1] /\ 1 \in 1..Len(s)
           /\ Tail(s) \in Seq(S)
  <1>1. Tail(s) \in Seq(S) /\ Head(s) \in S
    BY HeadTailProperties
  <1>2. Len(s) \in Nat \ {0} /\ Head(s) = s[1]
    BY EmptySeq
  <1>. QED  BY <1>1, <1>2

LEMMA ToSetType ==
    ASSUME NEW S, NEW s \in Seq(S)
    PROVE  ToSet(s) \in SUBSET S
  <1>1. DOMAIN s = 1..Len(s) /\ \A i \in 1..Len(s) : s[i] \in S
    BY LenProperties, ElementOfSeq
  <1>. QED  BY <1>1 DEF ToSet

LEMMA PopMembers ==
    ASSUME NEW S, NEW s \in Seq(S), s # <<>>
    PROVE  ToSet(s) = {Head(s)} \cup ToSet(Tail(s))
  <1> DEFINE rest == Tail(s)
  <1>1. /\ Len(s) \in Nat \ {0} /\ DOMAIN s = 1..Len(s) /\ Head(s) = s[1]
        /\ rest \in Seq(S) /\ Len(rest) = Len(s) - 1 /\ DOMAIN rest = 1..Len(rest)
        /\ \A i \in 1..Len(rest) : rest[i] = s[i + 1]
    BY HeadTailProperties, LenProperties, EmptySeq
  <1> HIDE DEF rest
  <1>2. ASSUME NEW i \in DOMAIN s PROVE s[i] \in {Head(s)} \cup ToSet(rest)
    <2>1. i = 1 \/ (i - 1 \in DOMAIN rest /\ rest[i - 1] = s[i])
      BY <1>1
    <2>. QED  BY <1>1, <2>1 DEF ToSet
  <1>3. ASSUME NEW i \in DOMAIN rest PROVE rest[i] \in ToSet(s)
    <2>1. i + 1 \in DOMAIN s /\ rest[i] = s[i + 1]
      BY <1>1
    <2>. QED  BY <2>1 DEF ToSet
  <1>4. Head(s) \in ToSet(s)
    BY <1>1 DEF ToSet
  <1>. QED  BY <1>2, <1>3, <1>4 DEF ToSet, rest

LEMMA PushMembers ==
    ASSUME NEW S, NEW s \in Seq(S), NEW t \in Seq(S)
    PROVE  s \o t \in Seq(S) /\ ToSet(s \o t) = ToSet(s) \cup ToSet(t)
  <1> DEFINE pushed == s \o t
  <1>1. /\ pushed \in Seq(S) /\ Len(pushed) = Len(s) + Len(t)
        /\ \A i \in 1..(Len(s) + Len(t)) :
              pushed[i] = IF i <= Len(s) THEN s[i] ELSE t[i - Len(s)]
    BY ConcatProperties
  <1> HIDE DEF pushed
  <1>2. /\ DOMAIN pushed = 1..Len(pushed) /\ DOMAIN s = 1..Len(s) /\ DOMAIN t = 1..Len(t)
        /\ Len(s) \in Nat /\ Len(t) \in Nat
    BY <1>1, LenProperties
  <1>3. ASSUME NEW i \in DOMAIN pushed PROVE pushed[i] \in ToSet(s) \cup ToSet(t)
    <2>1. CASE i <= Len(s)
      BY <1>1, <1>2, <2>1 DEF ToSet
    <2>2. CASE ~(i <= Len(s))
      <3>1. i - Len(s) \in DOMAIN t /\ pushed[i] = t[i - Len(s)]
        BY <1>1, <1>2, <2>2
      <3>. QED  BY <3>1 DEF ToSet
    <2>. QED  BY <2>1, <2>2
  <1>4. ASSUME NEW i \in DOMAIN s PROVE s[i] \in ToSet(pushed)
    <2>1. i \in DOMAIN pushed /\ pushed[i] = s[i]
      BY <1>1, <1>2
    <2>. QED  BY <2>1 DEF ToSet
  <1>5. ASSUME NEW i \in DOMAIN t PROVE t[i] \in ToSet(pushed)
    <2>1. /\ i + Len(s) \in DOMAIN pushed /\ ~(i + Len(s) <= Len(s))
          /\ (i + Len(s)) - Len(s) = i
      BY <1>1, <1>2
    <2>2. pushed[i + Len(s)] = t[i]
      BY <1>1, <1>2, <2>1
    <2>. QED  BY <2>1, <2>2 DEF ToSet
  <1>. QED  BY <1>1, <1>3, <1>4, <1>5 DEF ToSet, pushed

LEMMA AppendMembers ==
    ASSUME NEW S, NEW s \in Seq(S), NEW x \in S
    PROVE  Append(s, x) \in Seq(S) /\ ToSet(Append(s, x)) = ToSet(s) \cup {x}
  <1> DEFINE grown == Append(s, x)
  <1>1. /\ grown \in Seq(S) /\ Len(grown) = Len(s) + 1 /\ grown[Len(s) + 1] = x
        /\ \A i \in 1..Len(s) : grown[i] = s[i]
        /\ Len(s) \in Nat /\ DOMAIN s = 1..Len(s)
    BY AppendProperties, LenProperties
  <1> HIDE DEF grown
  <1>2. DOMAIN grown = 1..(Len(s) + 1)
    BY <1>1, LenProperties
  <1>3. ASSUME NEW i \in DOMAIN grown PROVE grown[i] \in ToSet(s) \cup {x}
    <2>1. CASE i = Len(s) + 1
      BY <1>1, <2>1
    <2>2. CASE i # Len(s) + 1
      <3>1. i \in DOMAIN s /\ grown[i] = s[i]
        BY <1>1, <1>2, <2>2
      <3>. QED  BY <3>1 DEF ToSet
    <2>. QED  BY <2>1, <2>2
  <1>4. ASSUME NEW i \in DOMAIN s PROVE s[i] \in ToSet(grown)
    <2>1. i \in DOMAIN grown /\ grown[i] = s[i]
      BY <1>1, <1>2
    <2>. QED  BY <2>1 DEF ToSet
  <1>5. x \in ToSet(grown)
    BY <1>1, <1>2 DEF ToSet
  <1>. QED  BY <1>1, <1>3, <1>4, <1>5 DEF ToSet, grown

LEMMA AppendToConcat ==
    ASSUME NEW T, NEW s \in Seq(T), NEW t \in Seq(T), NEW x \in T
    PROVE  s \o Append(t, x) = Append(s \o t, x)
  <1>1. <<x>> \in Seq(T) /\ s \o t \in Seq(T)
    BY ConcatProperties
  <1>2. Append(t, x) = t \o <<x>> /\ Append(s \o t, x) = (s \o t) \o <<x>>
    BY <1>1, AppendIsConcat
  <1>3. (s \o t) \o <<x>> = s \o (t \o <<x>>)
    BY <1>1, ConcatAssociative
  <1>. QED  BY <1>2, <1>3

LEMMA HeadThenTail ==
    ASSUME NEW T, NEW s \in Seq(T), s # <<>>
    PROVE  /\ Head(s) \in T /\ Tail(s) \in Seq(T) /\ <<Head(s)>> \in Seq(T)
           /\ s = <<Head(s)>> \o Tail(s)
  <1>1. Head(s) \in T /\ Tail(s) \in Seq(T) /\ <<Head(s)>> \in Seq(T)
    BY HeadTailProperties
  <1>2. <<Head(s)>> \o Tail(s) \in Seq(T) /\ Len(<<Head(s)>> \o Tail(s)) = 1 + Len(Tail(s))
    BY <1>1, ConcatProperties
  <1>3. Len(Tail(s)) = Len(s) - 1 /\ Len(s) \in Nat \ {0}
    BY HeadTailProperties, EmptySeq
  <1>4. ASSUME NEW i \in 1..Len(s) PROVE s[i] = (<<Head(s)>> \o Tail(s))[i]
    <2>1. (<<Head(s)>> \o Tail(s))[i] = IF i <= 1 THEN <<Head(s)>>[i] ELSE Tail(s)[i - 1]
      BY <1>1, <1>3, ConcatProperties
    <2>2. CASE i = 1
      BY <2>1, <2>2
    <2>3. CASE i # 1
      <3>1. i - 1 \in 1..Len(Tail(s)) /\ ~(i <= 1)
        BY <1>3, <2>3
      <3>2. Tail(s)[i - 1] = s[(i - 1) + 1]
        BY <3>1, HeadTailProperties
      <3>. QED  BY <1>3, <2>1, <3>1, <3>2
    <2>. QED  BY <2>2, <2>3
  <1>. QED  BY <1>1, <1>2, <1>3, <1>4, SeqEqual

(* A sequence begins with whatever it is continued from. *)
LEMMA BeginsWith ==
    ASSUME NEW T, NEW s \in Seq(T), NEW t \in Seq(T)
    PROVE  IsPrefix(s, s \o t)
  <1>1. PICK n \in Nat : n = Len(s)
    BY LenProperties
  <1>2. Len(s \o t) = n + Len(t) /\ Len(t) \in Nat /\ Len(s \o t) \in Nat
    BY <1>1, ConcatProperties, LenProperties
  <1>3. SubSeq(s, 1, n) = SubSeq(s \o t, 1, n)
    <2>1. CASE n = 0
      BY <2>1, SubSeqEmpty
    <2>2. CASE n # 0
      <3>1. 1 \in 1..Len(s) /\ n \in 1..Len(s)
        BY <1>1, <2>2
      <3>. QED  BY <3>1, SubSeqOfConcat1
    <2>. QED  BY <2>1, <2>2
  <1>. QED  BY <1>1, <1>2, <1>3 DEF IsPrefix

(* What is put before a sequence is its head. *)
LEMMA ConsIs ==
    ASSUME NEW T, NEW x \in T, NEW r \in Seq(T)
    PROVE  /\ <<x>> \o r \in Seq(T) /\ <<x>> \o r # <<>>
           /\ Head(<<x>> \o r) = x /\ Tail(<<x>> \o r) = r
  <1>1. PICK one \in Seq(T) : one = <<x>>
    <2>1. <<x>> \in Seq(T)
      OBVIOUS
    <2>. QED  BY <2>1
  <1>2. PICK s \in Seq(T) : s = one \o r
    BY ConcatProperties
  <1>3. Len(s) = Len(one) + Len(r) /\ Len(r) \in Nat /\ Len(one) = 1 /\ one[1] = x
    BY <1>1, <1>2, ConcatProperties, LenProperties
  <1>4. s # <<>> /\ s[1] = x
    <2>1. Len(s) # 0 /\ 1 \in 1..(Len(one) + Len(r)) /\ 1 <= Len(one)
      BY <1>3
    <2>2. s[1] = one[1]
      BY <1>2, <2>1, ConcatProperties
    <2>. QED  BY <1>3, <2>1, <2>2
  <1>5. Head(s) = x /\ s = <<Head(s)>> \o Tail(s) /\ Tail(s) \in Seq(T)
    BY <1>4, PopProperties, HeadThenTail
  <1>6. Tail(s) = r
    BY <1>1, <1>2, <1>5, ConcatSimplifications
  <1>. QED  BY <1>1, <1>2, <1>4, <1>5, <1>6

(* What is appended comes before whatever follows. *)
LEMMA AppendThenRest ==
    ASSUME NEW T, NEW s \in Seq(T), NEW t \in Seq(T), NEW x \in T
    PROVE  Append(s, x) \o t = s \o (<<x>> \o t)
  <1>1. <<x>> \in Seq(T)
    OBVIOUS
  <1>2. Append(s, x) = s \o <<x>>
    BY AppendIsConcat
  <1>. QED  BY <1>1, <1>2, ConcatAssociative

(* A sequence with a function applied to each of its members. *)
Mapped(s, w) == [i \in DOMAIN s |-> w[s[i]]]
IsMapped(m, s, w) == Len(m) = Len(s) /\ \A i \in 1..Len(s) : m[i] = w[s[i]]

LEMMA MappedType ==
    ASSUME NEW T, NEW U, NEW w \in [T -> U], NEW s \in Seq(T)
    PROVE  Mapped(s, w) \in Seq(U) /\ IsMapped(Mapped(s, w), s, w)
  <1>1. Len(s) \in Nat /\ DOMAIN s = 1..Len(s) /\ \A i \in 1..Len(s) : s[i] \in T
    BY LenProperties, ElementOfSeq
  <1>2. PICK n \in Nat : n = Len(s)
    BY <1>1
  <1>3. Mapped(s, w) \in [1..n -> U] /\ \A i \in 1..n : Mapped(s, w)[i] = w[s[i]]
    BY <1>1, <1>2 DEF Mapped
  <1>4. Mapped(s, w) \in Seq(U)
    BY <1>3, SeqDef
  <1>5. DOMAIN Mapped(s, w) = 1..n /\ DOMAIN Mapped(s, w) = 1..Len(Mapped(s, w))
        /\ Len(Mapped(s, w)) \in Nat
    BY <1>3, <1>4, LenProperties
  <1>6. Len(Mapped(s, w)) = n
    BY <1>5
  <1>. QED  BY <1>2, <1>3, <1>4, <1>6 DEF IsMapped

LEMMA MappedEmpty == ASSUME NEW w PROVE Mapped(<<>>, w) = <<>>
  BY DEF Mapped

LEMMA MappedAppend ==
    ASSUME NEW T, NEW U, NEW w \in [T -> U], NEW s \in Seq(T), NEW x \in T
    PROVE  Mapped(Append(s, x), w) = Append(Mapped(s, w), w[x])
  <1>1. PICK t \in Seq(T) : t = Append(s, x)
    BY AppendProperties
  <1>2. PICK n \in Nat : n = Len(s)
    BY LenProperties
  <1>3. Len(t) = n + 1 /\ t[n + 1] = x /\ \A i \in 1..n : t[i] = s[i]
    BY <1>1, <1>2, AppendProperties
  <1>4. /\ Mapped(t, w) \in Seq(U) /\ Len(Mapped(t, w)) = Len(t)
        /\ \A i \in 1..Len(t) : Mapped(t, w)[i] = w[t[i]]
    <2>1. Mapped(t, w) \in Seq(U) /\ IsMapped(Mapped(t, w), t, w)
      BY MappedType
    <2>. QED  BY <2>1 DEF IsMapped
  <1>5. /\ Mapped(s, w) \in Seq(U) /\ Len(Mapped(s, w)) = Len(s)
        /\ \A i \in 1..Len(s) : Mapped(s, w)[i] = w[s[i]]
    <2>1. Mapped(s, w) \in Seq(U) /\ IsMapped(Mapped(s, w), s, w)
      BY MappedType
    <2>. QED  BY <2>1 DEF IsMapped
  <1>6. PICK m \in Seq(U) : m = Mapped(t, w)
    BY <1>4
  <1>7. PICK r \in Seq(U) : r = Mapped(s, w)
    BY <1>5
  <1>8. PICK y \in U : y = w[x]
    OBVIOUS
  <1>9. /\ Append(r, y) \in Seq(U) /\ Len(Append(r, y)) = Len(r) + 1
        /\ Append(r, y)[Len(r) + 1] = y
        /\ \A i \in 1..Len(r) : Append(r, y)[i] = r[i]
    BY AppendProperties
  <1>10. Len(m) = n + 1 /\ Len(r) = n
    BY <1>2, <1>3, <1>4, <1>5, <1>6, <1>7
  <1>11. ASSUME NEW i \in 1..Len(m) PROVE m[i] = Append(r, y)[i]
    <2>1. m[i] = w[t[i]]
      BY <1>3, <1>4, <1>6, <1>10
    <2>2. CASE i = n + 1
      BY <1>3, <1>8, <1>9, <1>10, <2>1, <2>2
    <2>3. CASE i # n + 1
      <3>1. i \in 1..n
        BY <1>10, <2>3
      <3>. QED  BY <1>2, <1>3, <1>5, <1>7, <1>9, <1>10, <2>1, <3>1
    <2>. QED  BY <2>2, <2>3
  <1>12. m = Append(r, y)
    BY <1>9, <1>10, <1>11, SeqEqual
  <1>. QED  BY <1>1, <1>6, <1>7, <1>8, <1>12

LEMMA MappedConcat ==
    ASSUME NEW T, NEW U, NEW w \in [T -> U], NEW s \in Seq(T), NEW t \in Seq(T)
    PROVE  Mapped(s \o t, w) = Mapped(s, w) \o Mapped(t, w)
  <1>1. PICK m \in Nat : m = Len(s)
    BY LenProperties
  <1>2. PICK n \in Nat : n = Len(t)
    BY LenProperties
  <1>3. PICK u \in Seq(T) : u = s \o t
    BY ConcatProperties
  <1>4. /\ Len(u) = m + n
        /\ \A i \in 1..(m + n) : u[i] = IF i <= m THEN s[i] ELSE t[i - m]
    BY <1>1, <1>2, <1>3, ConcatProperties
  <1>5. \A q \in Seq(T) : /\ Mapped(q, w) \in Seq(U) /\ Len(Mapped(q, w)) = Len(q)
                          /\ \A i \in 1..Len(q) : Mapped(q, w)[i] = w[q[i]]
    <2>1. \A q \in Seq(T) : Mapped(q, w) \in Seq(U) /\ IsMapped(Mapped(q, w), q, w)
      BY MappedType
    <2>. QED  BY <2>1 DEF IsMapped
  <1>6. PICK x \in Seq(U) : x = Mapped(s, w)
    BY <1>5
  <1>7. PICK y \in Seq(U) : y = Mapped(t, w)
    BY <1>5
  <1>8. PICK z \in Seq(U) : z = Mapped(u, w)
    BY <1>5
  <1>9. Len(x) = m /\ Len(y) = n /\ Len(z) = m + n
    BY <1>1, <1>2, <1>4, <1>5, <1>6, <1>7, <1>8
  <1>10. /\ x \o y \in Seq(U) /\ Len(x \o y) = m + n
         /\ \A i \in 1..(m + n) : (x \o y)[i] = IF i <= m THEN x[i] ELSE y[i - m]
    BY <1>9, ConcatProperties
  <1>11. ASSUME NEW i \in 1..(m + n) PROVE z[i] = (x \o y)[i]
    <2>1. z[i] = w[u[i]]
      BY <1>4, <1>5, <1>8
    <2>2. CASE i <= m
      <3>1. i \in 1..m
        BY <2>2
      <3>2. x[i] = w[s[i]]
        BY <1>1, <1>5, <1>6, <3>1
      <3>. QED  BY <1>4, <1>10, <2>1, <2>2, <3>2
    <2>3. CASE ~(i <= m)
      <3>1. i - m \in 1..n
        BY <2>3
      <3>2. y[i - m] = w[t[i - m]]
        BY <1>2, <1>5, <1>7, <3>1
      <3>. QED  BY <1>4, <1>10, <2>1, <2>3, <3>2
    <2>. QED  BY <2>2, <2>3
  <1>12. z = x \o y
    BY <1>9, <1>10, <1>11, SeqEqual
  <1>. QED  BY <1>3, <1>6, <1>7, <1>8, <1>12

LEMMA MappedHead ==
    ASSUME NEW T, NEW U, NEW w \in [T -> U], NEW s \in Seq(T), s # <<>>
    PROVE  Mapped(s, w) = <<w[Head(s)]>> \o Mapped(Tail(s), w)
  <1>1. /\ Head(s) \in T /\ Tail(s) \in Seq(T) /\ Len(Tail(s)) = Len(s) - 1
        /\ \A i \in 1..Len(Tail(s)) : Tail(s)[i] = s[i + 1]
    BY HeadTailProperties
  <1>2. Head(s) = s[1]
    BY PopProperties
  <1>3. PICK x \in T : x = Head(s)
    BY <1>1
  <1>4. PICK r \in Seq(T) : r = Tail(s)
    BY <1>1
  <1>5. PICK n \in Nat : n = Len(r)
    BY LenProperties
  <1>6. Len(s) \in Nat /\ Len(s) = n + 1 /\ s[1] = x /\ \A i \in 1..n : r[i] = s[i + 1]
    BY <1>1, <1>2, <1>3, <1>4, <1>5, LenProperties
  <1>7. /\ Mapped(s, w) \in Seq(U) /\ Len(Mapped(s, w)) = Len(s)
        /\ \A i \in 1..Len(s) : Mapped(s, w)[i] = w[s[i]]
    <2>1. Mapped(s, w) \in Seq(U) /\ IsMapped(Mapped(s, w), s, w)
      BY MappedType
    <2>. QED  BY <2>1 DEF IsMapped
  <1>8. /\ Mapped(r, w) \in Seq(U) /\ Len(Mapped(r, w)) = Len(r)
        /\ \A i \in 1..Len(r) : Mapped(r, w)[i] = w[r[i]]
    <2>1. Mapped(r, w) \in Seq(U) /\ IsMapped(Mapped(r, w), r, w)
      BY MappedType
    <2>. QED  BY <2>1 DEF IsMapped
  <1>9. PICK m \in Seq(U) : m = Mapped(s, w)
    BY <1>7
  <1>10. PICK k \in Seq(U) : k = Mapped(r, w)
    BY <1>8
  <1>11. PICK y \in U : y = w[x]
    OBVIOUS
  <1>12. PICK first \in Seq(U) : first = <<y>> /\ Len(first) = 1 /\ first[1] = y
    <2>1. <<y>> \in Seq(U) /\ Len(<<y>>) = 1 /\ <<y>>[1] = y
      OBVIOUS
    <2>. QED  BY <2>1
  <1>13. /\ first \o k \in Seq(U) /\ Len(first \o k) = Len(first) + Len(k)
         /\ \A i \in 1..(Len(first) + Len(k)) :
               (first \o k)[i] = IF i <= Len(first) THEN first[i] ELSE k[i - Len(first)]
    BY ConcatProperties
  <1>14. Len(m) = n + 1 /\ Len(k) = n /\ Len(first) = 1
    BY <1>5, <1>6, <1>7, <1>8, <1>9, <1>10, <1>12
  <1>15. ASSUME NEW i \in 1..Len(m) PROVE m[i] = (first \o k)[i]
    <2>1. m[i] = w[s[i]] /\ i \in 1..(n + 1)
      BY <1>6, <1>7, <1>9, <1>14
    <2>2. CASE i = 1
      BY <1>6, <1>11, <1>12, <1>13, <1>14, <2>1, <2>2
    <2>3. CASE i # 1
      <3>1. PICK j \in 1..n : j = i - 1 /\ i = j + 1 /\ ~(i <= 1)
        BY <2>1, <2>3
      <3>2. (first \o k)[i] = k[j]
        BY <1>13, <1>14, <2>1, <3>1
      <3>3. k[j] = w[s[i]]
        BY <1>5, <1>6, <1>8, <1>10, <3>1
      <3>. QED  BY <2>1, <3>2, <3>3
    <2>. QED  BY <2>2, <2>3
  <1>16. Len(first \o k) = Len(m)
    BY <1>13, <1>14
  <1>17. m = first \o k
    BY <1>13, <1>15, <1>16, SeqEqual
  <1>. QED  BY <1>3, <1>4, <1>9, <1>10, <1>11, <1>12, <1>17

-----------------------------------------------------------------------------
(* Two sequences agree on their first members. *)
Alike(s, t, n) == \A i \in 1..n : s[i] = t[i]

(* FlattenSeq is a recursive function too: it exists, and flattening one   *)
(* sequence more appends it.                                               *)
IsFlatTo(g, ss, n) == g = [i \in 1..n |-> IF i = 1 THEN ss[i] ELSE g[i - 1] \o ss[i]]

LEMMA FlatUpTo ==
    ASSUME NEW T, NEW ss \in Seq(Seq(T)), NEW m \in 1..Len(ss)
    PROVE  \E g \in [1..m -> Seq(T)] : IsFlatTo(g, ss, m)
  <1> DEFINE Made(n) == \E g \in [1..n -> Seq(T)] : IsFlatTo(g, ss, n)
             bad == {n \in 1..Len(ss) : ~Made(n)}
  <1>0. Len(ss) \in Nat /\ \A i \in 1..Len(ss) : ss[i] \in Seq(T)
    BY LenProperties, ElementOfSeq
  <1>1. SUFFICES ASSUME bad # {} PROVE FALSE
    OBVIOUS
  <1>2. PICK n \in bad : \A k \in bad : n <= k
    <2>1. bad \in SUBSET Nat
      BY <1>0
    <2>. QED  BY <1>1, <2>1, LeastElement
  <1>3. n \in 1..Len(ss) /\ n \in Nat /\ ~Made(n)
    BY <1>0
  <1>4. CASE n = 1
    <2> DEFINE g == [i \in 1..n |-> ss[1]]
    <2>1. g \in [1..n -> Seq(T)]
      BY <1>0, <1>3, <1>4
    <2>2. g = [i \in 1..n |-> IF i = 1 THEN ss[i] ELSE g[i - 1] \o ss[i]]
      BY <1>4
    <2> HIDE DEF g
    <2>3. IsFlatTo(g, ss, n)
      BY <2>2 DEF IsFlatTo
    <2>. QED  BY <1>3, <2>1, <2>3
  <1>5. CASE n # 1
    <2>1. n - 1 \in 1..Len(ss) /\ n - 1 \notin bad
      <3>1. n - 1 \in 1..Len(ss) /\ ~(n <= n - 1)
        BY <1>0, <1>3, <1>5
      <3> HIDE DEF bad
      <3>. QED  BY <1>2, <3>1
    <2>2. PICK h \in [1..(n - 1) -> Seq(T)] : IsFlatTo(h, ss, n - 1)
      BY <2>1
    <2> DEFINE Body(f, i) == IF i = 1 THEN ss[i] ELSE f[i - 1] \o ss[i]
               g == [i \in 1..n |-> Body(h, i)]
    <2>3. \A i \in 1..(n - 1) : h[i] = Body(h, i)
      BY <2>2 DEF IsFlatTo
    <2>4. \A i \in 1..(n - 1) : i \in 1..n /\ g[i] = h[i]
      <3>1. \A i \in 1..n : g[i] = Body(h, i)
        OBVIOUS
      <3> HIDE DEF g, Body
      <3>. QED  BY <1>3, <2>3, <3>1
    <2>5. ASSUME NEW i \in 1..n PROVE Body(h, i) \in Seq(T) /\ Body(g, i) = Body(h, i)
      <3>1. CASE i = 1
        BY <1>0, <1>3, <3>1
      <3>2. CASE i # 1
        <4>1. i - 1 \in 1..(n - 1) /\ i \in 1..Len(ss)
          BY <1>0, <1>3, <3>2
        <4>2. h[i - 1] \in Seq(T) /\ g[i - 1] = h[i - 1] /\ ss[i] \in Seq(T)
          BY <1>0, <2>4, <4>1
        <4>3. h[i - 1] \o ss[i] \in Seq(T)
          BY <4>2, ConcatProperties
        <4> HIDE DEF g
        <4>. QED  BY <3>2, <4>2, <4>3
      <3>. QED  BY <3>1, <3>2
    <2>6. g \in [1..n -> Seq(T)]
      BY <2>5
    <2>7. g = [i \in 1..n |-> Body(g, i)]
      <3>1. g = [i \in 1..n |-> Body(h, i)]
        OBVIOUS
      <3> HIDE DEF g, Body
      <3>. QED  BY <2>5, <3>1
    <2> HIDE DEF g
    <2>8. IsFlatTo(g, ss, n)
      BY <2>7 DEF IsFlatTo
    <2>. QED  BY <1>3, <2>6, <2>8
  <1>. QED  BY <1>4, <1>5

LEMMA FlatAgree ==
    ASSUME NEW ss, NEW tt, NEW n \in Nat, NEW m \in Nat, n <= m, Alike(ss, tt, n),
           NEW g, NEW h, IsFlatTo(g, ss, n), IsFlatTo(h, tt, m)
    PROVE  \A i \in 1..n : g[i] = h[i]
  <1> DEFINE bad == {i \in 1..n : g[i] # h[i]}
  <1>1. SUFFICES ASSUME bad # {} PROVE FALSE
    OBVIOUS
  <1>2. PICK i \in bad : \A k \in bad : i <= k
    <2>1. bad \in SUBSET Nat
      OBVIOUS
    <2>. QED  BY <1>1, <2>1, LeastElement
  <1>3. i \in 1..n /\ i \in 1..m /\ g[i] # h[i]
    OBVIOUS
  <1>4. /\ g[i] = IF i = 1 THEN ss[i] ELSE g[i - 1] \o ss[i]
        /\ h[i] = IF i = 1 THEN tt[i] ELSE h[i - 1] \o tt[i]
    BY <1>3 DEF IsFlatTo
  <1>5. ss[i] = tt[i] /\ i # 1
    BY <1>3, <1>4 DEF Alike
  <1>6. i - 1 \in 1..n /\ i - 1 \notin bad
    BY <1>2, <1>3, <1>5
  <1>7. g[i - 1] = h[i - 1]
    BY <1>6
  <1>. QED  BY <1>3, <1>4, <1>5, <1>7

LEMMA FlatIs ==
    ASSUME NEW T, NEW ss \in Seq(Seq(T)), NEW n, n = Len(ss), n # 0
    PROVE  /\ FlattenSeq(ss) \in Seq(T)
           /\ \E g : IsFlatTo(g, ss, n) /\ FlattenSeq(ss) = g[n]
  <1> DEFINE picked == CHOOSE g : IsFlatTo(g, ss, n)
  <1>1. n \in Nat /\ n \in 1..Len(ss) /\ n \in 1..n
    BY LenProperties
  <1>2. PICK g \in [1..n -> Seq(T)] : IsFlatTo(g, ss, n)
    BY <1>1, FlatUpTo
  <1>3. IsFlatTo(picked, ss, n)
    BY <1>2
  <1>4. FlattenSeq(ss) = picked[n]
    BY DEF FlattenSeq, IsFlatTo
  <1> HIDE DEF picked
  <1>5. g[n] = picked[n]
    <2>1. Alike(ss, ss, n) /\ n <= n
      BY <1>1 DEF Alike
    <2>2. PICK f : f = g
      OBVIOUS
    <2>3. IsFlatTo(f, ss, n)
      BY <1>2, <2>2
    <2>4. \A i \in 1..n : f[i] = picked[i]
      BY <1>1, <1>3, <2>1, <2>3, FlatAgree
    <2>. QED  BY <1>1, <2>2, <2>4
  <1>. QED  BY <1>1, <1>2, <1>3, <1>4, <1>5

LEMMA FlatEmpty == FlattenSeq(<<>>) = <<>>
  BY EmptySeq DEF FlattenSeq

LEMMA FlatType ==
    ASSUME NEW T, NEW ss \in Seq(Seq(T))
    PROVE  FlattenSeq(ss) \in Seq(T)
  <1>1. CASE ss = <<>>
    BY <1>1, FlatEmpty, EmptySeq
  <1>2. CASE ss # <<>>
    <2>1. PICK n : n = Len(ss) /\ n # 0
      BY <1>2, EmptySeq
    <2>. QED  BY <2>1, FlatIs
  <1>. QED  BY <1>1, <1>2

LEMMA FlatAppend ==
    ASSUME NEW T, NEW ss \in Seq(Seq(T)), NEW x \in Seq(T)
    PROVE  FlattenSeq(Append(ss, x)) = FlattenSeq(ss) \o x
  <1>1. PICK n \in Nat, m \in Nat, tt \in Seq(Seq(T)) :
           /\ tt = Append(ss, x) /\ n = Len(ss) /\ m = n + 1 /\ m = Len(tt) /\ tt[m] = x
           /\ Alike(ss, tt, n)
    <2>1. /\ Append(ss, x) \in Seq(Seq(T)) /\ Len(ss) \in Nat
          /\ Len(Append(ss, x)) = Len(ss) + 1 /\ Append(ss, x)[Len(ss) + 1] = x
          /\ \A i \in 1..Len(ss) : Append(ss, x)[i] = ss[i]
      BY AppendProperties, LenProperties
    <2>2. Alike(ss, Append(ss, x), Len(ss))
      BY <2>1 DEF Alike
    <2>3. Len(ss) + 1 \in Nat
      BY <2>1
    <2>. QED  BY <2>1, <2>2, <2>3
  <1>2. PICK h : IsFlatTo(h, tt, m) /\ FlattenSeq(tt) = h[m]
    <2>1. m # 0
      BY <1>1
    <2>. QED  BY <1>1, <2>1, FlatIs
  <1>3. m \in 1..m /\ m - 1 = n
    BY <1>1
  <1>4. h[m] = IF m = 1 THEN tt[m] ELSE h[m - 1] \o tt[m]
    BY <1>2, <1>3 DEF IsFlatTo
  <1>5. CASE n = 0
    <2>1. ss = <<>> /\ m = 1
      BY <1>1, <1>5, EmptySeq
    <2>2. <<>> \o x = x
      BY ConcatEmptySeq
    <2>. QED  BY <1>1, <1>2, <1>4, <2>1, <2>2, FlatEmpty
  <1>6. CASE n # 0
    <2>1. PICK g : IsFlatTo(g, ss, n) /\ FlattenSeq(ss) = g[n]
      BY <1>1, <1>6, FlatIs
    <2>2. n <= m /\ n \in 1..n /\ m # 1
      BY <1>1, <1>6
    <2>3. \A i \in 1..n : g[i] = h[i]
      BY <1>1, <1>2, <2>1, <2>2, FlatAgree
    <2>4. g[n] = h[n]
      BY <2>2, <2>3
    <2>. QED  BY <1>1, <1>2, <1>3, <1>4, <2>1, <2>2, <2>4
  <1>. QED  BY <1>5, <1>6

LEMMA FlatConcat ==
    ASSUME NEW T, NEW s \in Seq(Seq(T)), NEW u \in Seq(Seq(T))
    PROVE  FlattenSeq(s \o u) = FlattenSeq(s) \o FlattenSeq(u)
  <1> DEFINE Joins(t) == FlattenSeq(s \o t) = FlattenSeq(s) \o FlattenSeq(t)
             bad == {n \in Nat : \E t \in Seq(Seq(T)) : Len(t) = n /\ ~Joins(t)}
  <1>0. FlattenSeq(s) \in Seq(T)
    BY FlatType
  <1>1. bad = {}
    <2>1. SUFFICES ASSUME bad # {} PROVE FALSE
      OBVIOUS
    <2>2. PICK n \in bad : \A k \in bad : n <= k
      BY <2>1, LeastElement
    <2>3. PICK t \in Seq(Seq(T)) : Len(t) = n /\ ~Joins(t)
      BY <2>2
    <2>4. CASE t = <<>>
      <3>1. s \o t = s /\ FlattenSeq(s) \o <<>> = FlattenSeq(s)
        BY <1>0, <2>4, ConcatEmptySeq
      <3>. QED  BY <2>3, <2>4, <3>1, FlatEmpty
    <2>5. CASE t # <<>>
      <3>1. PICK r \in Seq(Seq(T)), x \in Seq(T) : t = Append(r, x)
        BY <2>5, SequenceEmptyOrAppend
      <3>2. Len(r) \in Nat /\ Len(t) = Len(r) + 1
        BY <3>1, AppendProperties, LenProperties
      <3>3. Joins(r)
        <4>1. Len(r) \notin bad
          <5>1. ~(n <= Len(r))
            BY <2>3, <3>2
          <5> HIDE DEF bad
          <5>. QED  BY <2>2, <5>1
        <4>. QED  BY <3>2, <4>1
      <3>4. PICK z \in Seq(Seq(T)) : z = s \o r /\ s \o t = Append(z, x)
        <4>0. PICK U : U = Seq(T) /\ s \in Seq(U) /\ r \in Seq(U) /\ x \in U
          OBVIOUS
        <4>1. s \o Append(r, x) = Append(s \o r, x)
          BY <4>0, AppendToConcat, SMTT(30)
        <4>2. s \o r \in Seq(Seq(T))
          BY <3>1, ConcatProperties
        <4>. QED  BY <3>1, <4>1, <4>2
      <3>5. FlattenSeq(Append(z, x)) = FlattenSeq(z) \o x
        BY <3>1, FlatAppend
      <3>6. FlattenSeq(t) = FlattenSeq(r) \o x
        BY <3>1, FlatAppend
      <3>7. (FlattenSeq(s) \o FlattenSeq(r)) \o x = FlattenSeq(s) \o (FlattenSeq(r) \o x)
        <4>1. PICK a \in Seq(T), b \in Seq(T) : a = FlattenSeq(s) /\ b = FlattenSeq(r)
          BY <1>0, <3>1, FlatType
        <4>2. (a \o b) \o x = a \o (b \o x)
          <5> HIDE DEF bad, Joins
          <5>1. \A c \in Seq(T) : (a \o b) \o c = a \o (b \o c)
            BY ConcatAssociative, SMTT(30)
          <5>. QED  BY <3>1, <5>1
        <4>. QED  BY <4>1, <4>2
      <3>8. Joins(t)
        BY <3>3, <3>4, <3>5, <3>6, <3>7
      <3>. QED  BY <2>3, <3>8
    <2>. QED  BY <2>4, <2>5
  <1>2. Len(u) \in Nat /\ Len(u) \notin bad
    BY <1>1, LenProperties
  <1>3. Joins(u)
    BY <1>2
  <1>. QED  BY <1>3

LEMMA FlatHead ==
    ASSUME NEW T, NEW ss \in Seq(Seq(T)), ss # <<>>
    PROVE  FlattenSeq(ss) = Head(ss) \o FlattenSeq(Tail(ss))
  <1>1. /\ Head(ss) \in Seq(T) /\ Tail(ss) \in Seq(Seq(T)) /\ <<Head(ss)>> \in Seq(Seq(T))
        /\ ss = <<Head(ss)>> \o Tail(ss)
    BY HeadThenTail
  <1>2. FlattenSeq(ss) = FlattenSeq(<<Head(ss)>>) \o FlattenSeq(Tail(ss))
    BY <1>1, FlatConcat
  <1>3. FlattenSeq(<<Head(ss)>>) = Head(ss)
    <2>1. PICK e \in Seq(Seq(T)), x \in Seq(T) : e = <<>> /\ x = Head(ss)
      BY <1>1, EmptySeq
    <2>2. FlattenSeq(Append(e, x)) = FlattenSeq(e) \o x
      BY FlatAppend
    <2>3. Append(e, x) = <<x>> /\ FlattenSeq(e) = <<>>
      BY <2>1, FlatEmpty
    <2>4. <<>> \o x = x
      BY ConcatEmptySeq
    <2>. QED  BY <2>1, <2>2, <2>3, <2>4
  <1>. QED  BY <1>2, <1>3

-----------------------------------------------------------------------------
(* SumFunctionOnSet is a fold: it takes the members of a set one by one, in *)
(* whatever order CHOOSE gives.  Each sum over a subset is kept under it.   *)
AnyOf(s) == CHOOSE x \in s : TRUE

IsSumFold(g, w, D) ==
    g = [s \in D |-> IF s = {} THEN 0 ELSE w[AnyOf(s)] + g[s \ {AnyOf(s)}]]

SumFold(w, S) == CHOOSE g : IsSumFold(g, w, SUBSET S)

LEMMA SumIsFold ==
    ASSUME NEW w, NEW S
    PROVE  SumFunctionOnSet(w, S) = SumFold(w, S)[S]
  BY DEF SumFunctionOnSet, FoldFunctionOnSet, MapThenFoldSet, SumFold, IsSumFold, AnyOf

LEMMA OneLess ==
    ASSUME NEW s, IsFiniteSet(s), NEW x \in s
    PROVE  /\ IsFiniteSet(s \ {x}) /\ Cardinality(s) \in Nat \ {0} /\ s # {}
           /\ Cardinality(s \ {x}) \in Nat /\ Cardinality(s \ {x}) = Cardinality(s) - 1
  BY FS_RemoveElement, FS_CardinalityType, FS_EmptySet

(* The subsets of S of at most n members. *)
SubsetsUpTo(S, n) == {s \in SUBSET S : Cardinality(s) <= n}

LEMMA FoldUpTo ==
    ASSUME NEW S, IsFiniteSet(S), NEW w \in [S -> Nat], NEW m \in Nat
    PROVE  \E g \in [SubsetsUpTo(S, m) -> Nat] : IsSumFold(g, w, SubsetsUpTo(S, m))
  <1> DEFINE Made(n) ==
               \E g \in [SubsetsUpTo(S, n) -> Nat] : IsSumFold(g, w, SubsetsUpTo(S, n))
             bad == {n \in Nat : ~Made(n)}
  <1>0. \A s \in SUBSET S : IsFiniteSet(s) /\ Cardinality(s) \in Nat
    BY FS_Subset, FS_CardinalityType
  <1>1. SUFFICES ASSUME bad # {} PROVE FALSE
    OBVIOUS
  <1>2. PICK n \in bad : \A k \in bad : n <= k
    BY <1>1, LeastElement
  <1>3. n \in Nat /\ ~Made(n)
    OBVIOUS
  <1>4. CASE n = 0
    <2>1. SubsetsUpTo(S, n) = {{}}
      BY <1>0, <1>4, FS_EmptySet DEF SubsetsUpTo
    <2> DEFINE g == [s \in {{}} |-> 0]
    <2>2. g \in [SubsetsUpTo(S, n) -> Nat] /\ IsSumFold(g, w, SubsetsUpTo(S, n))
      BY <2>1 DEF IsSumFold
    <2>. QED  BY <1>3, <2>2
  <1>5. CASE n # 0
    <2>1. n - 1 \in Nat /\ n - 1 \notin bad
      BY <1>2, <1>3, <1>5
    <2> DEFINE D == SubsetsUpTo(S, n)
    <2>2. PICK h \in [SubsetsUpTo(S, n - 1) -> Nat] : IsSumFold(h, w, SubsetsUpTo(S, n - 1))
      BY <2>1
    <2> DEFINE g == [s \in D |-> IF s = {} THEN 0 ELSE w[AnyOf(s)] + h[s \ {AnyOf(s)}]]
    <2>3. ASSUME NEW s \in D, s # {}
          PROVE  AnyOf(s) \in s /\ s \ {AnyOf(s)} \in SubsetsUpTo(S, n - 1)
      <3>1. AnyOf(s) \in s
        BY <2>3 DEF AnyOf
      <3>2. /\ s \in SUBSET S /\ Cardinality(s) <= n
            /\ s \ {AnyOf(s)} \in SUBSET S
        BY DEF SubsetsUpTo
      <3>3. Cardinality(s \ {AnyOf(s)}) = Cardinality(s) - 1 /\ Cardinality(s) \in Nat
        BY <1>0, <3>1, <3>2, OneLess
      <3>. QED  BY <1>3, <3>1, <3>2, <3>3 DEF SubsetsUpTo
    <2>4. g \in [D -> Nat]
      <3>1. ASSUME NEW s \in D, s # {} PROVE w[AnyOf(s)] + h[s \ {AnyOf(s)}] \in Nat
        <4>1. AnyOf(s) \in S
          BY <2>3, <3>1 DEF SubsetsUpTo
        <4>2. w[AnyOf(s)] \in Nat /\ h[s \ {AnyOf(s)}] \in Nat
          BY <2>3, <3>1, <4>1
        <4>. QED  BY <4>2
      <3>. QED  BY <3>1
    <2>5. ASSUME NEW s \in SubsetsUpTo(S, n - 1) PROVE s \in D /\ g[s] = h[s]
      <3>1. s \in D
        BY <1>0, <1>3 DEF SubsetsUpTo
      <3>2. h[s] = IF s = {} THEN 0 ELSE w[AnyOf(s)] + h[s \ {AnyOf(s)}]
        BY <2>2 DEF IsSumFold
      <3>. QED  BY <3>1, <3>2
    <2>6. ASSUME NEW s \in D
          PROVE  g[s] = IF s = {} THEN 0 ELSE w[AnyOf(s)] + g[s \ {AnyOf(s)}]
      <3>1. CASE s = {}
        BY <3>1
      <3>2. CASE s # {}
        <4>1. g[s \ {AnyOf(s)}] = h[s \ {AnyOf(s)}]
          BY <2>3, <2>5, <3>2
        <4>. QED  BY <3>2, <4>1
      <3>. QED  BY <3>1, <3>2
    <2>7. IsSumFold(g, w, D)
      <3> DEFINE Body(s) == IF s = {} THEN 0 ELSE w[AnyOf(s)] + g[s \ {AnyOf(s)}]
      <3>1. g = [s \in D |-> g[s]]
        BY <2>4
      <3>2. \A s \in D : g[s] = Body(s)
        BY <2>6
      <3> HIDE DEF g, D, Body
      <3>3. g = [s \in D |-> Body(s)]
        BY <3>1, <3>2
      <3>. QED  BY <3>3 DEF IsSumFold, Body
    <2> HIDE DEF g
    <2>. QED  BY <1>3, <2>4, <2>7
  <1>. QED  BY <1>4, <1>5

LEMMA FoldProperties ==
    ASSUME NEW S, IsFiniteSet(S), NEW w \in [S -> Nat]
    PROVE  SumFold(w, S) \in [SUBSET S -> Nat] /\ IsSumFold(SumFold(w, S), w, SUBSET S)
  <1>1. Cardinality(S) \in Nat
    BY FS_CardinalityType
  <1>2. SubsetsUpTo(S, Cardinality(S)) = SUBSET S
    BY FS_Subset DEF SubsetsUpTo
  <1>3. \E g \in [SUBSET S -> Nat] : IsSumFold(g, w, SUBSET S)
    <2>1. \E g \in [SubsetsUpTo(S, Cardinality(S)) -> Nat] : IsSumFold(g, w, SubsetsUpTo(S, Cardinality(S)))
      BY <1>1, FoldUpTo
    <2>. QED  BY <1>2, <2>1
  <1>4. IsSumFold(SumFold(w, S), w, SUBSET S)
    BY <1>3 DEF SumFold
  <1> DEFINE f == SumFold(w, S)
             bad == {n \in Nat : \E s \in SUBSET S : Cardinality(s) = n /\ f[s] \notin Nat}
  <1>5. ASSUME NEW s \in SUBSET S
        PROVE  f[s] = IF s = {} THEN 0 ELSE w[AnyOf(s)] + f[s \ {AnyOf(s)}]
    BY <1>4 DEF IsSumFold
  <1> HIDE DEF f
  <1>6. bad = {}
    <2> SUFFICES ASSUME bad # {} PROVE FALSE
      OBVIOUS
    <2>1. PICK n \in bad : \A k \in bad : n <= k
      BY LeastElement
    <2>2. PICK s \in SUBSET S : Cardinality(s) = n /\ f[s] \notin Nat
      OBVIOUS
    <2>3. s # {} /\ AnyOf(s) \in s
      BY <1>5, <2>2 DEF AnyOf
    <2>4. IsFiniteSet(s)
      BY FS_Subset
    <2>5. Cardinality(s \ {AnyOf(s)}) \in Nat /\ Cardinality(s \ {AnyOf(s)}) < n
      BY <2>2, <2>3, <2>4, OneLess
    <2>6. f[s \ {AnyOf(s)}] \in Nat
      BY <2>1, <2>5
    <2>7. w[AnyOf(s)] \in Nat
      BY <2>3
    <2>. QED  BY <1>5, <2>2, <2>3, <2>6, <2>7
  <1>7. \A s \in SUBSET S : f[s] \in Nat
    BY <1>6, FS_Subset, FS_CardinalityType
  <1>8. f = [s \in SUBSET S |-> f[s]]
    BY <1>4 DEF IsSumFold, f
  <1>9. f \in [SUBSET S -> Nat]
    BY <1>7, <1>8
  <1>. QED  BY <1>4, <1>9 DEF f

(* A fold does not depend on the order: any member may be taken first.     *)
LEMMA FoldAnyOrder ==
    ASSUME NEW S, IsFiniteSet(S), NEW w \in [S -> Nat],
           NEW s \in SUBSET S, NEW y \in s
    PROVE  SumFold(w, S)[s] = w[y] + SumFold(w, S)[s \ {y}]
  <1> DEFINE f == SumFold(w, S)
             Splits(t, z) == f[t] = w[z] + f[t \ {z}]
             bad == {n \in Nat : \E t \in SUBSET S :
                       Cardinality(t) = n /\ \E z \in t : ~Splits(t, z)}
  <1>1. f \in [SUBSET S -> Nat]
    BY FoldProperties
  <1>2. ASSUME NEW t \in SUBSET S, t # {} PROVE AnyOf(t) \in t /\ Splits(t, AnyOf(t))
    <2>1. AnyOf(t) \in t
      BY <1>2 DEF AnyOf
    <2>2. IsSumFold(f, w, SUBSET S)
      BY FoldProperties
    <2>. QED  BY <1>2, <2>1, <2>2 DEF IsSumFold
  <1>3. \A t \in SUBSET S : IsFiniteSet(t) /\ Cardinality(t) \in Nat
    BY FS_Subset, FS_CardinalityType
  <1> HIDE DEF f
  <1>4. bad = {}
    <2> SUFFICES ASSUME bad # {} PROVE FALSE
      OBVIOUS
    <2>1. PICK n \in bad : \A k \in bad : n <= k
      BY LeastElement
    <2>2. PICK t \in SUBSET S : Cardinality(t) = n /\ \E z \in t : ~Splits(t, z)
      OBVIOUS
    <2>3. PICK z \in t : ~Splits(t, z)
      BY <2>2
    <2> DEFINE x == AnyOf(t)
    <2>4. x \in t /\ Splits(t, x) /\ x # z
      BY <1>2, <2>3
    <2> HIDE DEF x
    <2>5. /\ Cardinality(t \ {x}) \in Nat /\ Cardinality(t \ {x}) < n
          /\ Cardinality(t \ {z}) \in Nat /\ Cardinality(t \ {z}) < n
      BY <1>3, <2>2, <2>4, OneLess
    <2>6. \A k \in Nat : k < n => k \notin bad
      <3>1. n \in Nat
        OBVIOUS
      <3> HIDE DEF bad
      <3>. QED  BY <2>1, <3>1
    <2>7. Splits(t \ {x}, z) /\ Splits(t \ {z}, x)
      <3>1. t \ {x} \in SUBSET S /\ z \in t \ {x} /\ t \ {z} \in SUBSET S /\ x \in t \ {z}
        BY <2>4
      <3> HIDE DEF Splits
      <3>. QED  BY <2>5, <2>6, <3>1
    <2>8. (t \ {x}) \ {z} = (t \ {z}) \ {x}
      OBVIOUS
    <2> DEFINE u == (t \ {z}) \ {x}
    <2>9. /\ w[x] \in Nat /\ w[z] \in Nat /\ f[t] = w[x] + f[t \ {x}]
          /\ f[t \ {x}] = w[z] + f[u] /\ f[t \ {z}] = w[x] + f[u] /\ f[u] \in Nat
      BY <1>1, <2>4, <2>7, <2>8
    <2> HIDE DEF u
    <2>10. f[t] = w[z] + f[t \ {z}]
      BY <2>9
    <2>. QED  BY <2>3, <2>10
  <1>5. Splits(s, y)
    BY <1>3, <1>4
  <1>. QED  BY <1>5 DEF f

LEMMA FoldsAgree ==
    ASSUME NEW S, IsFiniteSet(S), NEW w \in [S -> Nat],
           NEW T \in SUBSET S, NEW v \in [T -> Nat], \A x \in T : v[x] = w[x]
    PROVE  \A s \in SUBSET T : SumFold(v, T)[s] = SumFold(w, S)[s]
  <1> DEFINE f == SumFold(w, S)
             g == SumFold(v, T)
             bad == {n \in Nat : \E s \in SUBSET T : Cardinality(s) = n /\ g[s] # f[s]}
  <1>0. IsFiniteSet(T)
    BY FS_Subset
  <1>1. ASSUME NEW s \in SUBSET T
        PROVE  /\ f[s] = IF s = {} THEN 0 ELSE w[AnyOf(s)] + f[s \ {AnyOf(s)}]
               /\ g[s] = IF s = {} THEN 0 ELSE v[AnyOf(s)] + g[s \ {AnyOf(s)}]
    <2>1. IsSumFold(f, w, SUBSET S) /\ IsSumFold(g, v, SUBSET T)
      BY <1>0, FoldProperties
    <2>2. s \in SUBSET S
      OBVIOUS
    <2> HIDE DEF f, g
    <2>. QED  BY <2>1, <2>2 DEF IsSumFold
  <1>2. \A s \in SUBSET T : IsFiniteSet(s) /\ Cardinality(s) \in Nat
    BY <1>0, FS_Subset, FS_CardinalityType
  <1> HIDE DEF f, g
  <1>3. bad = {}
    <2> SUFFICES ASSUME bad # {} PROVE FALSE
      OBVIOUS
    <2>1. PICK n \in bad : \A k \in bad : n <= k
      BY LeastElement
    <2>2. PICK s \in SUBSET T : Cardinality(s) = n /\ g[s] # f[s]
      OBVIOUS
    <2>3. s # {} /\ AnyOf(s) \in s
      BY <1>1, <2>2 DEF AnyOf
    <2>5. Cardinality(s \ {AnyOf(s)}) \in Nat /\ Cardinality(s \ {AnyOf(s)}) < n
      BY <1>2, <2>2, <2>3, OneLess
    <2>6. g[s \ {AnyOf(s)}] = f[s \ {AnyOf(s)}]
      BY <2>1, <2>5
    <2>. QED  BY <1>1, <2>2, <2>3, <2>6
  <1>4. \A s \in SUBSET T : g[s] = f[s]
    BY <1>2, <1>3
  <1>. QED  BY <1>4 DEF f, g

LEMMA EmptySum == ASSUME NEW w PROVE SumFunctionOnSet(w, {}) = 0
  <1> DEFINE g == [s \in SUBSET {} |-> 0]
  <1>1. IsSumFold(g, w, SUBSET {})
    BY DEF IsSumFold
  <1>2. IsSumFold(SumFold(w, {}), w, SUBSET {})
    BY <1>1 DEF SumFold
  <1>3. SumFold(w, {})[{}] = 0
    BY <1>2 DEF IsSumFold
  <1>. QED  BY <1>3, SumIsFold

LEMMA SumType ==
    ASSUME NEW S, IsFiniteSet(S), NEW w \in [S -> Nat]
    PROVE  SumFunctionOnSet(w, S) \in Nat
  <1>1. SumFold(w, S) \in [SUBSET S -> Nat] /\ S \in SUBSET S
    BY FoldProperties
  <1>2. SumFold(w, S)[S] \in Nat
    BY <1>1
  <1>. QED  BY <1>2, SumIsFold

(* One more number is added to a sum.                                      *)
LEMMA SumAdds ==
    ASSUME NEW S, IsFiniteSet(S), NEW w \in [S -> Nat], NEW b, b \notin S,
           NEW v \in [S \cup {b} -> Nat], \A x \in S : v[x] = w[x]
    PROVE  SumFunctionOnSet(v, S \cup {b}) = SumFunctionOnSet(w, S) + v[b]
  <1> DEFINE T == S \cup {b}
  <1>1. IsFiniteSet(T) /\ b \in T /\ T \in SUBSET T /\ T \ {b} = S /\ S \in SUBSET T
    BY FS_AddElement
  <1>2. SumFold(v, T)[T] = v[b] + SumFold(v, T)[S]
    <2>1. v \in [T -> Nat]
      OBVIOUS
    <2> HIDE DEF T
    <2>2. SumFold(v, T)[T] = v[b] + SumFold(v, T)[T \ {b}]
      BY <1>1, <2>1, FoldAnyOrder, SMTT(30)
    <2>. QED  BY <1>1, <2>2
  <1>3. SumFold(w, S)[S] = SumFold(v, T)[S]
    BY <1>1, FoldsAgree
  <1>4. SumFold(w, S)[S] \in Nat /\ v[b] \in Nat
    BY SumType, SumIsFold
  <1>. QED  BY <1>2, <1>3, <1>4, SumIsFold

(* The sum of a sequence of numbers. *)
LEMMA TotalEmpty == SumFunction(<<>>) = 0
  <1>1. DOMAIN <<>> = {}
    OBVIOUS
  <1>. QED  BY <1>1, EmptySum DEF SumFunction

LEMMA TotalAppend ==
    ASSUME NEW s \in Seq(Nat), NEW x \in Nat
    PROVE  SumFunction(s) \in Nat /\ SumFunction(Append(s, x)) = SumFunction(s) + x
  <1>1. PICK n \in Nat : n = Len(s) /\ DOMAIN s = 1..n
    BY LenProperties
  <1>2. IsFiniteSet(1..n) /\ n + 1 \notin 1..n /\ 1..(n + 1) = 1..n \cup {n + 1}
    <2>1. IsFiniteSet(1..n)
      BY FS_Interval
    <2>2. n + 1 \notin 1..n /\ 1..(n + 1) = 1..n \cup {n + 1}
      OBVIOUS
    <2>. QED  BY <2>1, <2>2
  <1>3. s \in [1..n -> Nat]
    <2>1. \A i \in 1..n : s[i] \in Nat
      BY <1>1, ElementOfSeq
    <2>2. s = [i \in 1..n |-> s[i]]
      BY <1>1, SeqDef
    <2>. QED  BY <2>1, <2>2
  <1>4. PICK t \in Seq(Nat) : /\ t = Append(s, x) /\ Len(t) = n + 1 /\ t[n + 1] = x
                              /\ \A i \in 1..n : t[i] = s[i]
    <2>1. /\ Append(s, x) \in Seq(Nat) /\ Len(Append(s, x)) = Len(s) + 1
          /\ Append(s, x)[Len(s) + 1] = x
          /\ \A i \in 1..Len(s) : Append(s, x)[i] = s[i]
      BY AppendProperties
    <2>. QED  BY <1>1, <2>1
  <1>5. DOMAIN t = 1..(n + 1) /\ t \in [1..n \cup {n + 1} -> Nat]
    <2>1. DOMAIN t = 1..(n + 1)
      BY <1>4, LenProperties
    <2>2. \A i \in 1..(n + 1) : t[i] \in Nat
      BY <1>4, ElementOfSeq
    <2>3. t = [i \in 1..Len(t) |-> t[i]]
      BY SeqDef
    <2>. QED  BY <1>2, <1>4, <2>1, <2>2, <2>3
  <1>6. SumFunctionOnSet(t, 1..n \cup {n + 1}) = SumFunctionOnSet(s, 1..n) + t[n + 1]
    <2>1. PICK b : b = n + 1
      OBVIOUS
    <2>2. b \notin 1..n /\ t \in [1..n \cup {b} -> Nat]
      BY <1>2, <1>5, <2>1
    <2>3. PICK S : S = 1..n
      OBVIOUS
    <2>4. IsFiniteSet(S) /\ s \in [S -> Nat] /\ b \notin S /\ t \in [S \cup {b} -> Nat]
          /\ \A i \in S : t[i] = s[i]
      BY <1>2, <1>3, <1>4, <2>2, <2>3
    <2>5. SumFunctionOnSet(t, S \cup {b}) = SumFunctionOnSet(s, S) + t[b]
      BY <2>4, SumAdds
    <2>. QED  BY <2>1, <2>3, <2>5
  <1>7. SumFunction(s) \in Nat
    BY <1>1, <1>2, <1>3, SumType DEF SumFunction
  <1>. QED  BY <1>1, <1>2, <1>4, <1>5, <1>6, <1>7 DEF SumFunction

LEMMA MappedTotal ==
    ASSUME NEW T, NEW w \in [T -> Nat], NEW s \in Seq(T), NEW x \in T
    PROVE  /\ SumFunction(Mapped(s, w)) \in Nat
           /\ SumFunction(Mapped(Append(s, x), w)) = SumFunction(Mapped(s, w)) + w[x]
  <1>1. Mapped(s, w) \in Seq(Nat) /\ w[x] \in Nat
    BY MappedType
  <1>2. Mapped(Append(s, x), w) = Append(Mapped(s, w), w[x])
    BY MappedAppend
  <1>. QED  BY <1>1, <1>2, TotalAppend

LEMMA FrontAppend ==
    ASSUME NEW T, NEW s \in Seq(T), NEW x \in T
    PROVE  Front(s \o <<x>>) = s
  <1>1. PICK n \in Nat : n = Len(s)
    BY LenProperties
  <1>2. PICK one \in Seq(T) : one = <<x>> /\ Len(one) = 1
    <2>1. <<x>> \in Seq(T) /\ Len(<<x>>) = 1
      OBVIOUS
    <2>. QED  BY <2>1
  <1>3. Len(s \o one) = n + 1
    BY <1>1, <1>2, ConcatProperties
  <1>4. Front(s \o one) = SubSeq(s \o one, 1, n)
    <2>1. (n + 1) - 1 = n
      OBVIOUS
    <2>. QED  BY <1>3, <2>1 DEF Front
  <1>5. CASE n = 0
    <2>1. SubSeq(s \o one, 1, n) = <<>>
      BY <1>5, SubSeqEmpty
    <2>. QED  BY <1>1, <1>2, <1>4, <1>5, <2>1, EmptySeq
  <1>6. CASE n # 0
    <2>1. 1 \in 1..Len(s) /\ n \in 1..Len(s)
      BY <1>1, <1>6
    <2>2. SubSeq(s \o one, 1, n) = SubSeq(s, 1, n)
      BY <2>1, SubSeqOfConcat1
    <2>. QED  BY <1>1, <1>2, <1>4, <2>2, SubSeqFull
  <1>. QED  BY <1>5, <1>6

-----------------------------------------------------------------------------
(* The first members of a sequence, and one member more.                   *)
LEMMA CutThenAppend ==
    ASSUME NEW S, NEW T, S \subseteq T, NEW s \in Seq(S), NEW n \in 1..Len(s), NEW x \in T
    PROVE  /\ Append(SubSeq(s, 1, n - 1), x) \in Seq(T)
           /\ Len(Append(SubSeq(s, 1, n - 1), x)) = n
           /\ Append(SubSeq(s, 1, n - 1), x)[n] = x
           /\ \A i \in 1..(n - 1) : Append(SubSeq(s, 1, n - 1), x)[i] = s[i]
  <1>1. Len(s) \in Nat /\ n \in Nat /\ n - 1 \in Nat /\ n - 1 \in 0..Len(s)
    BY LenProperties
  <1>2. /\ SubSeq(s, 1, n - 1) \in Seq(S) /\ Len(SubSeq(s, 1, n - 1)) = n - 1
        /\ \A i \in 1..(n - 1) : SubSeq(s, 1, n - 1)[i] = s[i]
    BY <1>1, SubSeqProperties
  <1>3. PICK r : r = SubSeq(s, 1, n - 1)
    OBVIOUS
  <1>4. r \in Seq(S) /\ Len(r) = n - 1 /\ \A i \in 1..(n - 1) : r[i] = s[i]
    BY <1>2, <1>3
  <1>5. r \in Seq(T)
    BY <1>4
  <1>6. /\ Append(r, x) \in Seq(T) /\ Len(Append(r, x)) = Len(r) + 1
        /\ Append(r, x)[Len(r) + 1] = x
        /\ \A i \in 1..Len(r) : Append(r, x)[i] = r[i]
    BY <1>5, AppendProperties
  <1>7. Len(r) + 1 = n
    BY <1>1, <1>4
  <1>. QED  BY <1>3, <1>4, <1>6, <1>7

(* A function that is defined by recursion on the natural numbers exists.  *)
IsRecursion(f, base, step, m) ==
    f = [n \in 0..m |-> IF n = 0 THEN base ELSE step[n][f[n - 1]]]

LEMMA RecursionExists ==
    ASSUME NEW S, NEW base \in S, NEW step \in [Nat -> [S -> S]], NEW m \in Nat
    PROVE  \E f \in [0..m -> S] : IsRecursion(f, base, step, m)
  <1> DEFINE Made(n) == \E f \in [0..n -> S] : IsRecursion(f, base, step, n)
             bad == {n \in Nat : ~Made(n)}
  <1>1. SUFFICES ASSUME bad # {} PROVE FALSE
    OBVIOUS
  <1>2. PICK n \in bad : \A k \in bad : n <= k
    BY <1>1, LeastElement
  <1>3. CASE n = 0
    <2>1. PICK f \in [0..0 -> S] : f = [k \in 0..0 |-> base]
      OBVIOUS
    <2>2. IsRecursion(f, base, step, 0)
      BY <2>1 DEF IsRecursion
    <2>. QED  BY <1>3, <2>2
  <1>4. CASE n # 0
    <2>1. PICK k \in Nat : n = k + 1
      <3>1. n - 1 \in Nat /\ n = (n - 1) + 1
        BY <1>4
      <3>. QED  BY <3>1
    <2>2. k \notin bad
      BY <1>2, <2>1
    <2>3. PICK g \in [0..k -> S] : IsRecursion(g, base, step, k)
      BY <2>2
    <2>4. PICK last \in S : last = step[n][g[k]]
      <3>1. k \in 0..k /\ g[k] \in S /\ step[n] \in [S -> S]
        BY <2>1
      <3>. QED  BY <3>1
    <2> HIDE DEF bad, Made
    <2>5. PICK f \in [0..n -> S] : f = [i \in 0..n |-> IF i = n THEN last ELSE g[i]]
      <3>1. \A i \in 0..n : i # n => i \in 0..k
        BY <2>1
      <3>. QED  BY <3>1
    <2>6. \A i \in 0..n : f[i] = IF i = 0 THEN base ELSE step[i][f[i - 1]]
      <3> SUFFICES ASSUME NEW i \in 0..n
                   PROVE  f[i] = IF i = 0 THEN base ELSE step[i][f[i - 1]]
        OBVIOUS
      <3>1. \A j \in 0..k : g[j] = IF j = 0 THEN base ELSE step[j][g[j - 1]]
        BY <2>3 DEF IsRecursion
      <3>2. \A j \in 0..k : j \in 0..n /\ j # n /\ f[j] = g[j]
        BY <2>1, <2>5
      <3>3. CASE i = n
        <4>1. i # 0 /\ i - 1 = k /\ k \in 0..k
          BY <2>1, <3>3
        <4>. QED  BY <2>4, <2>5, <3>2, <3>3, <4>1
      <3>4. CASE i # n
        <4>1. i \in 0..k /\ (i # 0 => i - 1 \in 0..k)
          BY <2>1, <3>4
        <4>. QED  BY <3>1, <3>2, <4>1
      <3>. QED  BY <3>3, <3>4
    <2>7. IsRecursion(f, base, step, n)
      <3>1. f = [i \in 0..n |-> f[i]]
        OBVIOUS
      <3>. QED  BY <2>6, <3>1 DEF IsRecursion
    <2>8. n \notin bad
      BY <2>7 DEF bad, Made
    <2>. QED  BY <2>8
  <1>. QED  BY <1>3, <1>4

-----------------------------------------------------------------------------
(* Induction over the natural numbers and over sequences, for a property   *)
(* given as the set of what has it.                                        *)
LEMMA NatInduct ==
    ASSUME NEW Good, 0 \in Good, \A n \in Nat : n \in Good => n + 1 \in Good
    PROVE  \A n \in Nat : n \in Good
  <1> DEFINE bad == {n \in Nat : n \notin Good}
  <1>1. SUFFICES ASSUME bad # {} PROVE FALSE
    OBVIOUS
  <1>2. PICK n \in bad : \A k \in bad : n <= k
    BY <1>1, LeastElement
  <1>3. PICK k \in Nat : n = k + 1
    <2>1. n \in Nat /\ n # 0
      OBVIOUS
    <2>2. n - 1 \in Nat /\ n = (n - 1) + 1
      BY <2>1
    <2>. QED  BY <2>2
  <1>4. k \in Good
    <2>1. ~(n <= k)
      BY <1>3
    <2>. QED  BY <1>2, <2>1
  <1>. QED  BY <1>3, <1>4

LEMMA SeqInduct ==
    ASSUME NEW T, NEW Good, <<>> \in Good,
           \A s \in Seq(T), x \in T : s \in Good => Append(s, x) \in Good
    PROVE  \A s \in Seq(T) : s \in Good
  <1> DEFINE Fine == {n \in Nat : \A s \in Seq(T) : Len(s) = n => s \in Good}
  <1>1. 0 \in Fine
    BY EmptySeq
  <1>2. ASSUME NEW n \in Nat, n \in Fine PROVE n + 1 \in Fine
    <2> SUFFICES ASSUME NEW s \in Seq(T), Len(s) = n + 1 PROVE s \in Good
      OBVIOUS
    <2>1. s # <<>>
      BY EmptySeq
    <2>2. PICK r \in Seq(T), x \in T : s = Append(r, x)
      BY <2>1, SequenceEmptyOrAppend
    <2>3. Len(r) \in Nat /\ Len(s) = Len(r) + 1
      BY <2>2, AppendProperties, LenProperties
    <2>4. r \in Good
      BY <1>2, <2>3
    <2>. QED  BY <2>2, <2>4
  <1> HIDE DEF Fine
  <1>3. \A n \in Nat : n \in Fine
    BY <1>1, <1>2, NatInduct
  <1>. QED  BY <1>3, LenProperties DEF Fine

-----------------------------------------------------------------------------
(* What a function gives for the members of a sequence, put in a row.      *)
Spread(s, w) == FlattenSeq(Mapped(s, w))

LEMMA SpreadType ==
    ASSUME NEW T, NEW U, NEW w \in [T -> Seq(U)], NEW s \in Seq(T)
    PROVE  Spread(s, w) \in Seq(U)
  BY MappedType, FlatType DEF Spread

LEMMA SpreadEmpty == ASSUME NEW w PROVE Spread(<<>>, w) = <<>>
  BY MappedEmpty, FlatEmpty DEF Spread

LEMMA SpreadAppend ==
    ASSUME NEW T, NEW U, NEW w \in [T -> Seq(U)], NEW s \in Seq(T), NEW x \in T
    PROVE  Spread(Append(s, x), w) = Spread(s, w) \o w[x]
  <1>1. Mapped(s, w) \in Seq(Seq(U)) /\ w[x] \in Seq(U)
    BY MappedType
  <1>2. Mapped(Append(s, x), w) = Append(Mapped(s, w), w[x])
    <2>1. PICK V : V = Seq(U) /\ w \in [T -> V]
      OBVIOUS
    <2>. QED  BY <2>1, MappedAppend, ZenonT(60)
  <1>. QED  BY <1>1, <1>2, FlatAppend DEF Spread

LEMMA SpreadConcat ==
    ASSUME NEW T, NEW U, NEW w \in [T -> Seq(U)], NEW s \in Seq(T), NEW t \in Seq(T)
    PROVE  Spread(s \o t, w) = Spread(s, w) \o Spread(t, w)
  <1>1. Mapped(s \o t, w) = Mapped(s, w) \o Mapped(t, w)
    <2>1. PICK V : V = Seq(U) /\ w \in [T -> V]
      OBVIOUS
    <2>. QED  BY <2>1, MappedConcat
  <1>2. Mapped(s, w) \in Seq(Seq(U)) /\ Mapped(t, w) \in Seq(Seq(U))
    BY MappedType
  <1>. QED  BY <1>1, <1>2, FlatConcat DEF Spread

LEMMA SpreadHead ==
    ASSUME NEW T, NEW U, NEW w \in [T -> Seq(U)], NEW s \in Seq(T), s # <<>>
    PROVE  Spread(s, w) = w[Head(s)] \o Spread(Tail(s), w)
  <1>1. Mapped(s, w) = <<w[Head(s)]>> \o Mapped(Tail(s), w)
    <2>1. PICK V : V = Seq(U) /\ w \in [T -> V]
      OBVIOUS
    <2>. QED  BY <2>1, MappedHead
  <1>2. Head(s) \in T /\ Tail(s) \in Seq(T)
    BY PopProperties
  <1>3. w[Head(s)] \in Seq(U) /\ Mapped(Tail(s), w) \in Seq(Seq(U))
    BY <1>2, MappedType
  <1>4. PICK ss \in Seq(Seq(U)) :
           ss = Mapped(s, w) /\ ss # <<>> /\ Head(ss) = w[Head(s)] /\ Tail(ss) = Mapped(Tail(s), w)
    BY <1>1, <1>3, ConsIs
  <1>5. FlattenSeq(ss) = Head(ss) \o FlattenSeq(Tail(ss))
    BY <1>4, FlatHead
  <1>. QED  BY <1>4, <1>5 DEF Spread

LEMMA SpreadOne ==
    ASSUME NEW T, NEW U, NEW w \in [T -> Seq(U)], NEW x \in T
    PROVE  Spread(<<x>>, w) = w[x]
  <1>1. PICK e \in Seq(T) : e = <<>>
    BY EmptySeq
  <1>2. Append(e, x) = <<x>>
    BY <1>1
  <1>3. Spread(Append(e, x), w) = Spread(e, w) \o w[x]
    BY SpreadAppend
  <1>4. Spread(e, w) = <<>> /\ w[x] \in Seq(U)
    BY <1>1, SpreadEmpty
  <1>. QED  BY <1>2, <1>3, <1>4, ConcatEmptySeq

LEMMA SpreadMembers ==
    ASSUME NEW T, NEW U, NEW w \in [T -> Seq(U)], NEW s \in Seq(T)
    PROVE  ToSet(Spread(s, w)) = UNION {ToSet(w[x]) : x \in ToSet(s)}
  <1> DEFINE Good == {t \in Seq(T) : ToSet(Spread(t, w)) = UNION {ToSet(w[x]) : x \in ToSet(t)}}
  <1>1. <<>> \in Good
    <2>1. ToSet(<<>>) = {}
      BY DEF ToSet
    <2>. QED  BY <2>1, SpreadEmpty, EmptySeq
  <1>2. ASSUME NEW t \in Seq(T), NEW x \in T, t \in Good PROVE Append(t, x) \in Good
    <2>1. Spread(Append(t, x), w) = Spread(t, w) \o w[x] /\ Spread(t, w) \in Seq(U) /\ w[x] \in Seq(U)
      BY SpreadAppend, SpreadType
    <2>2. ToSet(Spread(Append(t, x), w)) = ToSet(Spread(t, w)) \cup ToSet(w[x])
      BY <2>1, PushMembers
    <2>3. ToSet(Append(t, x)) = ToSet(t) \cup {x} /\ Append(t, x) \in Seq(T)
      BY AppendMembers, AppendProperties
    <2>. QED  BY <1>2, <2>2, <2>3
  <1> HIDE DEF Good
  <1>3. s \in Good
    BY <1>1, <1>2, SeqInduct
  <1>. QED  BY <1>3 DEF Good

(* What is spread of what is spread.                                       *)
Twice(T, w, v) == [x \in T |-> Spread(w[x], v)]
InTurn(T, U, V, w, v) == w \in [T -> Seq(U)] /\ v \in [U -> Seq(V)]

LEMMA SpreadTwice ==
    ASSUME NEW T, NEW U, NEW V, NEW w, NEW v, InTurn(T, U, V, w, v), NEW s \in Seq(T)
    PROVE  Spread(Spread(s, w), v) = Spread(s, Twice(T, w, v))
  <1>0. w \in [T -> Seq(U)] /\ v \in [U -> Seq(V)]
    BY DEF InTurn
  <1>1. PICK both \in [T -> Seq(V)] : both = Twice(T, w, v)
    <2>1. ASSUME NEW x \in T PROVE Spread(w[x], v) \in Seq(V)
      <3>1. w[x] \in Seq(U)
        BY <1>0
      <3>. QED  BY <1>0, <3>1, SpreadType
    <2>. QED  BY <2>1 DEF Twice
  <1>2. \A x \in T : both[x] = Spread(w[x], v)
    BY <1>1 DEF Twice
  <1> DEFINE Good == {t \in Seq(T) : Spread(Spread(t, w), v) = Spread(t, both)}
  <1>3. <<>> \in Good
    BY SpreadEmpty, EmptySeq
  <1>4. ASSUME NEW t \in Seq(T), NEW x \in T, t \in Good PROVE Append(t, x) \in Good
    <2>1. /\ Spread(Append(t, x), w) = Spread(t, w) \o w[x]
          /\ Spread(t, w) \in Seq(U) /\ w[x] \in Seq(U)
      BY <1>0, SpreadAppend, SpreadType
    <2>2. Spread(Spread(t, w) \o w[x], v) = Spread(Spread(t, w), v) \o Spread(w[x], v)
      BY <1>0, <2>1, SpreadConcat, ZenonT(60)
    <2>3. Spread(Append(t, x), both) = Spread(t, both) \o both[x]
      BY SpreadAppend
    <2>4. Append(t, x) \in Seq(T)
      BY AppendProperties
    <2>. QED  BY <1>2, <1>4, <2>1, <2>2, <2>3, <2>4
  <1> HIDE DEF Good
  <1>5. s \in Good
    BY <1>3, <1>4, SeqInduct
  <1>. QED  BY <1>1, <1>5 DEF Good

-----------------------------------------------------------------------------
(* A tree that is unfolded level by level: below[n][x] is x and what is    *)
(* under it, in pre-order, with n levels left; here[n][x] stands for x.    *)
IsUnfolded(below, Node, kids, here, m) ==
    below = [n \in 0..m |->
                [x \in Node |-> <<here[n][x]>> \o
                                (IF n = 0 THEN <<>> ELSE Spread(kids[x], below[n - 1]))]]

LEMMA UnfoldingExists ==
    ASSUME NEW Node, NEW Item, NEW kids \in [Node -> Seq(Node)], NEW m \in Nat,
           NEW here \in [Nat -> [Node -> Item]]
    PROVE  \E below \in [0..m -> [Node -> Seq(Item)]] : IsUnfolded(below, Node, kids, here, m)
  <1> DEFINE S == [Node -> Seq(Item)]
             More(n, g, x) == <<here[n][x]>> \o Spread(kids[x], g)
  <1>1. ASSUME NEW n \in Nat, NEW x \in Node PROVE <<here[n][x]>> \in Seq(Item)
    BY <1>1
  <1>2. ASSUME NEW n \in Nat, NEW g \in S, NEW x \in Node PROVE More(n, g, x) \in Seq(Item)
    <2>1. Spread(kids[x], g) \in Seq(Item)
      BY SpreadType
    <2>. QED  BY <1>1, <2>1, ConcatProperties
  <1> HIDE DEF More
  <1>3. PICK base \in S : base = [x \in Node |-> <<here[0][x]>>]
    BY <1>1
  <1>4. PICK step \in [Nat -> [S -> S]] :
           step = [n \in Nat |-> [g \in S |-> [x \in Node |-> More(n, g, x)]]]
    BY <1>2
  <1>5. PICK below \in [0..m -> S] : IsRecursion(below, base, step, m)
    BY RecursionExists
  <1>6. ASSUME NEW n \in 0..m
        PROVE  below[n] = [x \in Node |-> <<here[n][x]>> \o
                                (IF n = 0 THEN <<>> ELSE Spread(kids[x], below[n - 1]))]
    <2>1. below[n] = IF n = 0 THEN base ELSE step[n][below[n - 1]]
      BY <1>5 DEF IsRecursion
    <2>2. CASE n = 0
      <3>1. \A x \in Node : <<here[0][x]>> \o <<>> = <<here[0][x]>>
        BY <1>1, ConcatEmptySeq
      <3>. QED  BY <1>3, <2>1, <2>2, <3>1
    <2>3. CASE n # 0
      <3>1. n \in Nat /\ n - 1 \in 0..m
        BY <2>3
      <3>2. below[n - 1] \in S
        BY <3>1
      <3>3. below[n] = [x \in Node |-> More(n, below[n - 1], x)]
        BY <1>4, <2>1, <2>3, <3>1, <3>2
      <3>. QED  BY <2>3, <3>3 DEF More
    <2>. QED  BY <2>2, <2>3
  <1>7. below = [n \in 0..m |-> below[n]]
    OBVIOUS
  <1>8. IsUnfolded(below, Node, kids, here, m)
    BY <1>6, <1>7 DEF IsUnfolded
  <1>. QED  BY <1>8

LEMMA UnfoldingIs ==
    ASSUME NEW Node, NEW Item, NEW kids \in [Node -> Seq(Node)], NEW m \in Nat,
           NEW here \in [Nat -> [Node -> Item]],
           NEW below, IsUnfolded(below, Node, kids, here, m)
    PROVE  /\ below \in [0..m -> [Node -> Seq(Item)]]
           /\ \A x \in Node : below[0][x] = <<here[0][x]>>
           /\ \A n \in 1..m, x \in Node :
                 /\ n - 1 \in 0..m /\ below[n - 1] \in [Node -> Seq(Item)]
                 /\ below[n][x] = <<here[n][x]>> \o Spread(kids[x], below[n - 1])
                 /\ Spread(kids[x], below[n - 1]) \in Seq(Item)
  <1> DEFINE Good == {n \in Nat : n <= m => below[n] \in [Node -> Seq(Item)]}
             Row(n) == [x \in Node |-> <<here[n][x]>> \o
                                (IF n = 0 THEN <<>> ELSE Spread(kids[x], below[n - 1]))]
  <1>1. \A n \in 0..m : below[n] = Row(n)
    BY DEF IsUnfolded
  <1>2. ASSUME NEW n \in Nat, NEW x \in Node PROVE <<here[n][x]>> \in Seq(Item)
    BY <1>2
  <1>3. \A x \in Node : below[0][x] = <<here[0][x]>>
    <2>1. \A x \in Node : <<here[0][x]>> \o <<>> = <<here[0][x]>>
      BY <1>2, ConcatEmptySeq
    <2>2. below[0] = Row(0)
      <3>1. 0 \in 0..m
        OBVIOUS
      <3>. QED  BY <1>1, <3>1
    <2>. QED  BY <2>1, <2>2
  <1>4. 0 \in Good
    <2>1. below[0] = [x \in Node |-> below[0][x]]
      <3>1. below[0] = Row(0)
        <4>1. 0 \in 0..m
          OBVIOUS
        <4>. QED  BY <1>1, <4>1
      <3>. QED  BY <3>1
    <2>2. \A x \in Node : below[0][x] \in Seq(Item)
      BY <1>2, <1>3
    <2>. QED  BY <2>1, <2>2
  <1>5. ASSUME NEW n \in Nat, n \in Good PROVE n + 1 \in Good
    <2> SUFFICES ASSUME n + 1 <= m PROVE below[n + 1] \in [Node -> Seq(Item)]
      OBVIOUS
    <2>1. n + 1 \in 0..m /\ n + 1 # 0 /\ (n + 1) - 1 = n /\ n <= m
      OBVIOUS
    <2>2. below[n] \in [Node -> Seq(Item)]
      BY <1>5, <2>1
    <2>3. \A x \in Node : Spread(kids[x], below[n]) \in Seq(Item)
      BY <2>2, SpreadType
    <2>4. \A x \in Node : <<here[n + 1][x]>> \o Spread(kids[x], below[n]) \in Seq(Item)
      BY <1>2, <2>3, ConcatProperties
    <2>5. below[n + 1] = [x \in Node |-> <<here[n + 1][x]>> \o Spread(kids[x], below[n])]
      BY <1>1, <2>1
    <2>. QED  BY <2>4, <2>5
  <1> HIDE DEF Good
  <1>6. \A n \in Nat : n \in Good
    BY <1>4, <1>5, NatInduct
  <1>7. \A n \in 0..m : below[n] \in [Node -> Seq(Item)]
    BY <1>6 DEF Good
  <1>8. below = [n \in 0..m |-> below[n]]
    BY DEF IsUnfolded
  <1>9. ASSUME NEW n \in 1..m, NEW x \in Node
        PROVE  /\ n - 1 \in 0..m /\ below[n - 1] \in [Node -> Seq(Item)]
               /\ below[n][x] = <<here[n][x]>> \o Spread(kids[x], below[n - 1])
               /\ Spread(kids[x], below[n - 1]) \in Seq(Item)
    <2>1. n - 1 \in 0..m /\ n \in 0..m /\ n # 0
      OBVIOUS
    <2>2. below[n - 1] \in [Node -> Seq(Item)]
      BY <1>7, <2>1
    <2>3. Spread(kids[x], below[n - 1]) \in Seq(Item)
      BY <2>2, SpreadType
    <2>. QED  BY <1>1, <2>1, <2>2, <2>3
  <1>. QED  BY <1>3, <1>7, <1>8, <1>9

(* What is spread is at least as long as each of its parts.                *)
LEMMA SpreadLength ==
    ASSUME NEW T, NEW U, NEW w \in [T -> Seq(U)], NEW s \in Seq(T)
    PROVE  \A x \in ToSet(s) : Len(w[x]) <= Len(Spread(s, w))
  <1> DEFINE Good == {t \in Seq(T) : \A x \in ToSet(t) : Len(w[x]) <= Len(Spread(t, w))}
  <1>1. <<>> \in Good
    <2>1. ToSet(<<>>) = {}
      BY DEF ToSet
    <2>. QED  BY <2>1, EmptySeq
  <1>2. ASSUME NEW t \in Seq(T), NEW y \in T, t \in Good PROVE Append(t, y) \in Good
    <2>1. PICK a \in Seq(U), b \in Seq(U) : a = Spread(t, w) /\ b = w[y]
      BY SpreadType
    <2>2. Spread(Append(t, y), w) = a \o b
      BY <2>1, SpreadAppend
    <2>3. Len(a \o b) = Len(a) + Len(b) /\ Len(a) \in Nat /\ Len(b) \in Nat
      BY ConcatProperties, LenProperties
    <2>4. ToSet(Append(t, y)) = ToSet(t) \cup {y}
      BY AppendMembers
    <2>5. ASSUME NEW x \in ToSet(Append(t, y)) PROVE Len(w[x]) <= Len(Spread(Append(t, y), w))
      <3>1. CASE x = y
        BY <2>1, <2>2, <2>3, <3>1
      <3>2. CASE x \in ToSet(t)
        <4>1. Len(w[x]) <= Len(a)
          BY <1>2, <2>1, <3>2
        <4>2. Len(w[x]) \in Nat
          <5>1. x \in T
            BY <3>2, ToSetType
          <5>. QED  BY <5>1, LenProperties
        <4>. QED  BY <2>2, <2>3, <4>1, <4>2
      <3>. QED  BY <2>4, <2>5, <3>1, <3>2
    <2>6. Append(t, y) \in Seq(T)
      BY AppendProperties
    <2>. QED  BY <2>5, <2>6
  <1> HIDE DEF Good
  <1>3. s \in Good
    BY <1>1, <1>2, SeqInduct
  <1>. QED  BY <1>3 DEF Good

(* The total of two parts.                                                 *)
LEMMA TotalConcat ==
    ASSUME NEW T, NEW w \in [T -> Nat], NEW s \in Seq(T), NEW t \in Seq(T)
    PROVE  /\ SumFunction(Mapped(s, w)) \in Nat /\ SumFunction(Mapped(t, w)) \in Nat
           /\ SumFunction(Mapped(s \o t, w))
                 = SumFunction(Mapped(s, w)) + SumFunction(Mapped(t, w))
  <1> DEFINE Of(u) == SumFunction(Mapped(u, w))
             Good == {u \in Seq(T) : Of(u) \in Nat /\ Of(s \o u) = Of(s) + Of(u)}
  <1>1. \A u \in Seq(T), x \in T : Of(u) \in Nat /\ Of(Append(u, x)) = Of(u) + w[x]
    BY MappedTotal
  <1>2. <<>> \in Good /\ Of(s) \in Nat
    <2>1. Of(<<>>) = 0
      BY MappedEmpty, TotalEmpty
    <2>2. Of(s) \in Nat
      <3>1. CASE s = <<>>
        BY <2>1, <3>1
      <3>2. CASE s # <<>>
        <4>1. PICK x \in T : x = Head(s)
          BY <3>2, PopProperties
        <4>. QED  BY <1>1, <4>1
      <3>. QED  BY <3>1, <3>2
    <2>. QED  BY <2>1, <2>2, EmptySeq, ConcatEmptySeq
  <1>3. ASSUME NEW u \in Seq(T), NEW x \in T, u \in Good PROVE Append(u, x) \in Good
    <2>1. s \o Append(u, x) = Append(s \o u, x) /\ s \o u \in Seq(T) /\ Append(u, x) \in Seq(T)
      BY AppendToConcat, ConcatProperties, AppendProperties
    <2>2. /\ Of(s \o Append(u, x)) = Of(s \o u) + w[x] /\ Of(Append(u, x)) = Of(u) + w[x]
          /\ w[x] \in Nat /\ Of(u) \in Nat /\ Of(s) \in Nat /\ Of(s \o u) = Of(s) + Of(u)
      BY <1>1, <1>2, <1>3, <2>1
    <2>3. /\ Of(Append(u, x)) \in Nat
          /\ Of(s \o Append(u, x)) = Of(s) + Of(Append(u, x))
      <3> HIDE DEF Of
      <3>. QED  BY <2>2
    <2>. QED  BY <2>1, <2>3
  <1> HIDE DEF Good
  <1>4. t \in Good
    BY <1>2, <1>3, SeqInduct
  <1>. QED  BY <1>2, <1>4 DEF Good

=============================================================================
