---------------------------- MODULE StatementsProofs ----------------------------
(***************************************************************************)
(* Proofs about Statements: every pass follows the program in the order of *)
(* the source, whatever its size and however it was put together.          *)
(***************************************************************************)
EXTENDS Statements, Recursion

-----------------------------------------------------------------------------
(* Sequences put together.                                                 *)

\* No sequences put together are none.
LEMMA FlattenEmpty == FlattenSeq(<<>>) = <<>>
BY DEF FlattenSeq

\* FlattenSeq puts the sequences together from the first one on.
LEMMA FlattenUnfold ==
  ASSUME NEW S, NEW ss \in Seq(Seq(S)), ss # <<>>
  PROVE  \E f \in [1 .. Len(ss) -> Seq(S)] :
           /\ \A i \in 1 .. Len(ss) : f[i] = IF i = 1 THEN ss[i] ELSE f[i - 1] \o ss[i]
           /\ FlattenSeq(ss) = f[Len(ss)]
<1> DEFINE n == Len(ss)
           D == 1 .. n
           V == Seq(S)
           step == [f \in [D -> V] |-> [i \in D |-> IF i = 1 THEN ss[i] ELSE f[i - 1] \o ss[i]]]
           Eq(f) == f = [i \in D |-> IF i = 1 THEN ss[i] ELSE f[i - 1] \o ss[i]]
<1>1. n \in Nat /\ V # {}
  OBVIOUS
<1>2. \A f \in [D -> V], i \in D :
        step[f][i] = IF i = 1 THEN ss[i] ELSE f[i - 1] \o ss[i]
  OBVIOUS
<1>3. step \in [[D -> V] -> [D -> V]]
  <2>1. \A f \in [D -> V], i \in D : step[f][i] \in V
    <3>1. ASSUME NEW f \in [D -> V], NEW i \in D PROVE step[f][i] \in V
      <4>1. ss[i] \in V
        OBVIOUS
      <4>2. i # 1 => f[i - 1] \in V
        <5>1. i # 1 => i - 1 \in D
          BY <1>1
        <5> HIDE DEF D, V
        <5>2. QED
          BY <5>1
      <4>3. i # 1 => f[i - 1] \o ss[i] \in V
        BY <4>1, <4>2, ConcatProperties
      <4>4. QED
        BY <1>2, <4>1, <4>3
    <3>2. QED
      BY <3>1
  <2>2. QED
    BY <2>1
<1>4. \A f, g \in [D -> V], i \in D :
        (\A j \in 1 .. i - 1 : f[j] = g[j]) => step[f][i] = step[g][i]
  <2>1. ASSUME NEW f \in [D -> V], NEW g \in [D -> V], NEW i \in D,
               \A j \in 1 .. i - 1 : f[j] = g[j]
        PROVE  step[f][i] = step[g][i]
    <3>1. i # 1 => f[i - 1] = g[i - 1]
      BY <2>1
    <3>2. QED
      BY <1>2, <3>1
  <2>2. QED
    BY <2>1
<1>5. \E f : IsSolution(1, n, V, step, f)
  <2>1. Recursive(1, n, V, step)
    BY <1>3, <1>4 DEF Recursive
  <2>2. 1 \in Nat
    OBVIOUS
  <2> HIDE DEF step, n, V
  <2>3. QED
    BY <1>1, <2>1, <2>2, Solution, Zenon
<1>6. \E f : Eq(f)
  <2>1. PICK g \in [D -> V] : \A i \in D : g[i] = step[g][i]
    BY <1>5 DEF IsSolution
  <2>2. \A i \in D : g[i] = IF i = 1 THEN ss[i] ELSE g[i - 1] \o ss[i]
    BY <1>2, <2>1
  <2>3. QED
    BY <2>2
<1> DEFINE f == CHOOSE f : Eq(f)
<1>7. Eq(f)
  BY <1>6
<1>8. FlattenSeq(ss) = f[n]
  <2>1. n # 0
    BY EmptySeq
  <2>2. QED
    BY <2>1 DEF FlattenSeq
<1> HIDE DEF f
<1>9. \A i \in D : f[i] = IF i = 1 THEN ss[i] ELSE f[i - 1] \o ss[i]
  BY <1>7
<1>10. f \in [D -> V]
  <2> DEFINE P == {i \in D : f[i] \in V}
  <2>1. ASSUME NEW i \in D, \A j \in 1 .. i - 1 : j \in P PROVE i \in P
    <3>1. ss[i] \in V
      OBVIOUS
    <3>2. i # 1 => f[i - 1] \in V
      BY <2>1
    <3>3. i # 1 => f[i - 1] \o ss[i] \in V
      BY <3>1, <3>2, ConcatProperties
    <3>4. QED
      BY <1>9, <3>1, <3>3
  <2>2. 1 .. n \subseteq P
    <3> HIDE DEF P, n
    <3>1. QED
      BY <1>1, <2>1, Between DEF n
  <2>3. QED
    BY <1>7, <2>2
<1>11. QED
  BY <1>8, <1>9, <1>10

\* What is flattened from sequences over S is a sequence over S.
LEMMA FlattenTyped ==
  ASSUME NEW S, NEW ss \in Seq(Seq(S))
  PROVE  FlattenSeq(ss) \in Seq(S)
<1>1. CASE ss = <<>>
  <2>1. <<>> \in Seq(S)
    OBVIOUS
  <2>2. QED
    BY <1>1, <2>1, FlattenEmpty
<1>2. CASE ss # <<>>
  <2>1. PICK f \in [1 .. Len(ss) -> Seq(S)] : FlattenSeq(ss) = f[Len(ss)]
    BY <1>2, FlattenUnfold
  <2>2. Len(ss) \in 1 .. Len(ss)
    BY <1>2, EmptySeq
  <2>3. QED
    BY <2>1, <2>2
<1>3. QED
  BY <1>1, <1>2

\* A sequence appended to the list comes last in what is flattened.
LEMMA FlattenAppend ==
  ASSUME NEW S, NEW ss \in Seq(Seq(S)), NEW s \in Seq(S)
  PROVE  FlattenSeq(Append(ss, s)) = FlattenSeq(ss) \o s
<1> DEFINE n == Len(ss)
           tt == Append(ss, s)
<1>1. /\ n \in Nat /\ tt \in Seq(Seq(S)) /\ tt # <<>> /\ Len(tt) = n + 1
      /\ tt[n + 1] = s /\ \A i \in 1 .. n : tt[i] = ss[i]
  BY AppendProperties
<1>2. PICK g \in [1 .. Len(tt) -> Seq(S)] :
        /\ \A i \in 1 .. Len(tt) : g[i] = IF i = 1 THEN tt[i] ELSE g[i - 1] \o tt[i]
        /\ FlattenSeq(tt) = g[Len(tt)]
  <2> HIDE DEF n, tt
  <2>1. QED
    BY <1>1, FlattenUnfold
<1> HIDE DEF tt
<1>3. CASE ss = <<>>
  <2>1. n = 0 /\ FlattenSeq(tt) = s
    BY <1>1, <1>2, <1>3
  <2>2. <<>> \o s = s
    BY ConcatEmptySeq
  <2>3. QED
    BY <1>3, <2>1, <2>2, FlattenEmpty DEF tt
<1>4. CASE ss # <<>>
  <2>1. PICK f \in [1 .. n -> Seq(S)] :
          /\ \A i \in 1 .. n : f[i] = IF i = 1 THEN ss[i] ELSE f[i - 1] \o ss[i]
          /\ FlattenSeq(ss) = f[n]
    BY <1>4, FlattenUnfold
  <2> DEFINE P == {i \in 1 .. n : f[i] = g[i]}
  <2>2. ASSUME NEW i \in 1 .. n, \A j \in 1 .. i - 1 : j \in P PROVE i \in P
    <3>1. g[i] = IF i = 1 THEN ss[i] ELSE g[i - 1] \o ss[i]
      <4>1. i \in 1 .. Len(tt) /\ tt[i] = ss[i]
        BY <1>1
      <4>2. QED
        BY <1>2, <4>1
    <3>2. i # 1 => f[i - 1] = g[i - 1]
      BY <1>1, <2>2
    <3>3. QED
      BY <2>1, <3>1, <3>2
  <2>3. 1 .. n \subseteq P
    <3>1. 1 \in Nat /\ n \in Nat
      BY <1>1
    <3> HIDE DEF P, n
    <3>2. QED
      BY <3>1, <2>2, Between
  <2>4. n # 0
    BY <1>4, EmptySeq
  <2>5. f[n] = g[n]
    <3>1. n \in 1 .. n
      BY <1>1, <2>4
    <3>2. QED
      BY <2>3, <3>1
  <2>6. g[n + 1] = g[n] \o s
    <3> DEFINE m == n + 1
    <3>1. m \in 1 .. Len(tt) /\ m # 1 /\ m - 1 = n /\ tt[m] = s
      BY <1>1, <2>4
    <3> HIDE DEF m, n
    <3>2. g[m] = g[m - 1] \o tt[m]
      BY <1>2, <3>1
    <3>3. g[m] = g[n] \o s
      BY <3>1, <3>2
    <3>4. QED
      BY <3>3 DEF m
  <2>7. QED
    BY <1>1, <1>2, <2>1, <2>5, <2>6 DEF tt
<1>5. QED
  BY <1>3, <1>4

\* What is put together of one sequence, and of those of two sequences.
LEMMA FlattenOne ==
  ASSUME NEW S, NEW s \in Seq(S)
  PROVE  FlattenSeq(<<s>>) = s
<1>1. <<s>> = Append(<<>>, s) /\ <<>> \in Seq(Seq(S))
  OBVIOUS
<1>2. FlattenSeq(<<s>>) = FlattenSeq(<<>>) \o s
  BY <1>1, FlattenAppend
<1>3. <<>> \o s = s
  BY ConcatEmptySeq
<1>4. QED
  BY <1>2, <1>3, FlattenEmpty

\* Appending to the second of two sequences appends to both.
LEMMA AppendOfConcat ==
  ASSUME NEW S, NEW s \in Seq(S), NEW t \in Seq(S), NEW e \in S
  PROVE  s \o Append(t, e) = Append(s \o t, e)
<1>1. Append(t, e) = t \o <<e>> /\ <<e>> \in Seq(S) /\ s \o t \in Seq(S)
  BY AppendIsConcat, ConcatProperties
<1>2. Append(s \o t, e) = (s \o t) \o <<e>>
  BY <1>1, AppendIsConcat
<1>3. QED
  BY <1>1, <1>2, ConcatAssociative

\* Flattening goes over concatenation.
LEMMA FlattenConcat ==
  ASSUME NEW S, NEW ss \in Seq(Seq(S)), NEW tt \in Seq(Seq(S))
  PROVE  FlattenSeq(ss \o tt) = FlattenSeq(ss) \o FlattenSeq(tt)
<1> DEFINE P == {uu \in Seq(Seq(S)) : FlattenSeq(ss \o uu) = FlattenSeq(ss) \o FlattenSeq(uu)}
<1>1. <<>> \in P
  <2>1. ss \o <<>> = ss /\ <<>> \in Seq(Seq(S))
    BY ConcatEmptySeq
  <2>2. FlattenSeq(ss) \o <<>> = FlattenSeq(ss)
    BY FlattenTyped, ConcatEmptySeq
  <2>3. QED
    BY <2>1, <2>2, FlattenEmpty
<1>2. ASSUME NEW uu \in Seq(Seq(S)), NEW e \in Seq(S), uu \in P PROVE Append(uu, e) \in P
  <2>1. Append(uu, e) \in Seq(Seq(S)) /\ ss \o uu \in Seq(Seq(S))
    BY AppendProperties, ConcatProperties
  <2>2. FlattenSeq(ss) \in Seq(S) /\ FlattenSeq(uu) \in Seq(S)
    BY FlattenTyped
  <2>3. FlattenSeq(ss \o Append(uu, e)) = FlattenSeq(ss \o uu) \o e
    <3>1. ss \o Append(uu, e) = Append(ss \o uu, e)
      BY AppendOfConcat
    <3>2. FlattenSeq(Append(ss \o uu, e)) = FlattenSeq(ss \o uu) \o e
      BY <2>1, FlattenAppend
    <3>3. QED
      BY <3>1, <3>2
  <2>4. FlattenSeq(ss \o uu) = FlattenSeq(ss) \o FlattenSeq(uu)
    BY <1>2
  <2>5. (FlattenSeq(ss) \o FlattenSeq(uu)) \o e = FlattenSeq(ss) \o (FlattenSeq(uu) \o e)
    BY <2>2, ConcatAssociative
  <2>6. FlattenSeq(uu) \o e = FlattenSeq(Append(uu, e))
    BY FlattenAppend
  <2>7. QED
    BY <2>1, <2>3, <2>4, <2>5, <2>6
<1>3. Seq(Seq(S)) \subseteq P
  <2> HIDE DEF P
  <2>1. QED
    BY <1>1, <1>2, ByAppend
<1>4. QED
  BY <1>3

-----------------------------------------------------------------------------
(* Lists that are put together of others.                                  *)

\* What f gives for the elements of S is a sequence over T.
Gives(f, S, T) == \A c \in S : f[c] \in Seq(T)

\* The pieces of Each are sequences.
LEMMA EachPieces ==
  ASSUME NEW S, NEW T, NEW f, Gives(f, S, T), NEW l \in Seq(S)
  PROVE  /\ [k \in DOMAIN l |-> f[l[k]]] \in Seq(Seq(T))
         /\ DOMAIN l = 1 .. Len(l) /\ Len(l) \in Nat
         /\ Len([k \in DOMAIN l |-> f[l[k]]]) = Len(l)
<1>1. DOMAIN l = 1 .. Len(l) /\ Len(l) \in Nat /\ \A k \in DOMAIN l : l[k] \in S
  OBVIOUS
<1>2. \A k \in 1 .. Len(l) : f[l[k]] \in Seq(T)
  BY <1>1 DEF Gives
<1>3. [k \in 1 .. Len(l) |-> f[l[k]]] \in Seq(Seq(T))
  BY <1>1, <1>2
<1>4. QED
  BY <1>1, <1>3

\* Each gives a sequence.
LEMMA EachTyped ==
  ASSUME NEW S, NEW T, NEW f, Gives(f, S, T), NEW l \in Seq(S)
  PROVE  Each(f, l) \in Seq(T)
<1>1. [k \in DOMAIN l |-> f[l[k]]] \in Seq(Seq(T))
  BY EachPieces
<1>2. QED
  BY <1>1, FlattenTyped DEF Each

\* Nothing is gathered from an empty list.
LEMMA EachEmpty ==
  ASSUME NEW f
  PROVE  Each(f, <<>>) = <<>>
<1>1. [k \in DOMAIN <<>> |-> f[<<>>[k]]] = <<>>
  OBVIOUS
<1>2. QED
  BY <1>1, FlattenEmpty DEF Each

\* Each of a longer list adds what f gives for the last element.
LEMMA EachAppend ==
  ASSUME NEW S, NEW T, NEW f, Gives(f, S, T), NEW l \in Seq(S), NEW e \in S
  PROVE  Each(f, Append(l, e)) = Each(f, l) \o f[e]
<1> DEFINE m == Append(l, e)
           one == [k \in DOMAIN l |-> f[l[k]]]
           two == [k \in DOMAIN m |-> f[m[k]]]
<1>1. /\ m \in Seq(S) /\ Len(m) = Len(l) + 1 /\ m[Len(l) + 1] = e
      /\ \A k \in 1 .. Len(l) : m[k] = l[k]
  BY AppendProperties
<1>2. /\ one \in Seq(Seq(T)) /\ two \in Seq(Seq(T))
      /\ Len(one) = Len(l) /\ Len(two) = Len(m)
      /\ DOMAIN l = 1 .. Len(l) /\ DOMAIN m = 1 .. Len(m) /\ Len(l) \in Nat
  <2> HIDE DEF m
  <2>1. one \in Seq(Seq(T)) /\ DOMAIN l = 1 .. Len(l) /\ Len(l) \in Nat /\ Len(one) = Len(l)
    BY EachPieces
  <2>2. two \in Seq(Seq(T)) /\ DOMAIN m = 1 .. Len(m) /\ Len(two) = Len(m)
    <3>1. m \in Seq(S)
      BY <1>1
    <3>2. QED
      BY <3>1, EachPieces
  <2>3. QED
    BY <2>1, <2>2
<1>3. f[e] \in Seq(T)
  BY DEF Gives
<1>4. two = Append(one, f[e])
  <2>1. /\ Append(one, f[e]) \in Seq(Seq(T)) /\ Len(Append(one, f[e])) = Len(l) + 1
        /\ \A k \in 1 .. Len(l) : Append(one, f[e])[k] = one[k]
        /\ Append(one, f[e])[Len(l) + 1] = f[e]
    <3> HIDE DEF one
    <3>1. QED
      BY <1>2, <1>3, AppendProperties
  <2> HIDE DEF m
  <2>2. \A k \in 1 .. Len(l) + 1 : two[k] = f[m[k]]
    BY <1>1, <1>2
  <2>3. \A k \in 1 .. Len(l) : one[k] = f[l[k]]
    BY <1>2
  <2>4. \A k \in 1 .. Len(l) + 1 : two[k] = Append(one, f[e])[k]
    <3> HIDE DEF one, two
    <3>1. ASSUME NEW k \in 1 .. Len(l) PROVE two[k] = Append(one, f[e])[k]
      <4>1. k \in 1 .. Len(l) + 1
        BY <1>2
      <4>2. two[k] = f[m[k]] /\ m[k] = l[k] /\ one[k] = f[l[k]]
        BY <1>1, <2>2, <2>3, <4>1
      <4>3. Append(one, f[e])[k] = one[k]
        BY <2>1
      <4>4. QED
        BY <4>2, <4>3
    <3>2. two[Len(l) + 1] = Append(one, f[e])[Len(l) + 1]
      <4>1. Len(l) + 1 \in 1 .. Len(l) + 1
        BY <1>2
      <4>2. two[Len(l) + 1] = f[m[Len(l) + 1]]
        BY <2>2, <4>1
      <4>3. QED
        BY <1>1, <2>1, <4>2
    <3>3. \A k \in 1 .. Len(l) + 1 : k \in 1 .. Len(l) \/ k = Len(l) + 1
      BY <1>2
    <3>4. QED
      BY <3>1, <3>2, <3>3
  <2>5. QED
    <3> HIDE DEF one, two
    <3>1. QED
      BY <1>1, <1>2, <2>1, <2>4, SeqEqual
<1>5. FlattenSeq(two) = FlattenSeq(one) \o f[e]
  <2> HIDE DEF one, two, m
  <2>1. QED
    BY <1>2, <1>3, <1>4, FlattenAppend
<1>6. QED
  BY <1>5 DEF Each

\* Each depends on f at the elements of the list only.
LEMMA EachSame ==
  ASSUME NEW S, NEW l \in Seq(S), NEW f, NEW g, \A c \in Range(l) : f[c] = g[c]
  PROVE  Each(f, l) = Each(g, l)
<1>1. [k \in DOMAIN l |-> f[l[k]]] = [k \in DOMAIN l |-> g[l[k]]]
  BY DEF Range
<1>2. QED
  BY <1>1 DEF Each

\* Each of a list of one element, and of two lists together.
LEMMA EachOne ==
  ASSUME NEW S, NEW T, NEW f, Gives(f, S, T), NEW e \in S
  PROVE  Each(f, <<e>>) = f[e]
<1>1. Append(<<>>, e) = <<e>> /\ <<>> \in Seq(S) /\ f[e] \in Seq(T)
  BY DEF Gives
<1>2. Each(f, Append(<<>>, e)) = Each(f, <<>>) \o f[e]
  BY <1>1, EachAppend
<1>3. <<>> \o f[e] = f[e]
  BY <1>1, ConcatEmptySeq
<1>4. QED
  BY <1>1, <1>2, <1>3, EachEmpty

\* Gathering goes over concatenation.
LEMMA EachConcat ==
  ASSUME NEW S, NEW T, NEW f, Gives(f, S, T), NEW l \in Seq(S), NEW m \in Seq(S)
  PROVE  Each(f, l \o m) = Each(f, l) \o Each(f, m)
<1> DEFINE P == {r \in Seq(S) : Each(f, l \o r) = Each(f, l) \o Each(f, r)}
<1>1. <<>> \in P
  <2>1. l \o <<>> = l /\ <<>> \in Seq(S)
    BY ConcatEmptySeq
  <2>2. Each(f, l) \o <<>> = Each(f, l)
    BY EachTyped, ConcatEmptySeq
  <2>3. QED
    BY <2>1, <2>2, EachEmpty
<1>2. ASSUME NEW r \in Seq(S), NEW e \in S, r \in P PROVE Append(r, e) \in P
  <2>1. Append(r, e) \in Seq(S) /\ l \o r \in Seq(S)
    BY AppendProperties, ConcatProperties
  <2>2. Each(f, l) \in Seq(T) /\ Each(f, r) \in Seq(T) /\ f[e] \in Seq(T)
    BY EachTyped DEF Gives
  <2>3. Each(f, l \o Append(r, e)) = Each(f, l \o r) \o f[e]
    <3>1. l \o Append(r, e) = Append(l \o r, e)
      BY AppendOfConcat
    <3> DEFINE q == l \o r
    <3>2. q \in Seq(S)
      BY <2>1
    <3> HIDE DEF q
    <3>3. Each(f, Append(q, e)) = Each(f, q) \o f[e]
      BY <3>2, EachAppend
    <3>4. QED
      BY <3>1, <3>3, Zenon DEF q
  <2>4. Each(f, l \o r) = Each(f, l) \o Each(f, r)
    BY <1>2
  <2>5. (Each(f, l) \o Each(f, r)) \o f[e] = Each(f, l) \o (Each(f, r) \o f[e])
    <3> DEFINE a == Each(f, l)
               b == Each(f, r)
               c == f[e]
    <3>1. a \in Seq(T) /\ b \in Seq(T) /\ c \in Seq(T)
      BY <2>2
    <3> HIDE DEF a, b, c
    <3>2. (a \o b) \o c = a \o (b \o c)
      BY <3>1, ConcatAssociative, SMTT(30)
    <3>3. QED
      BY <3>2 DEF a, b, c
  <2>6. Each(f, r) \o f[e] = Each(f, Append(r, e))
    BY EachAppend
  <2>7. QED
    BY <2>1, <2>3, <2>4, <2>5, <2>6
<1>3. Seq(S) \subseteq P
  <2> HIDE DEF P
  <2>1. QED
    BY <1>1, <1>2, ByAppend
<1>4. QED
  BY <1>3

\* What is in a sequence put together is in one of the pieces.
LEMMA EachRange ==
  ASSUME NEW S, NEW T, NEW f, Gives(f, S, T), NEW l \in Seq(S)
  PROVE  \A x : x \in Range(Each(f, l)) <=> \E c \in Range(l) : x \in Range(f[c])
<1> DEFINE Parts_(r) == UNION {Range(f[c]) : c \in Range(r)}
           P == {r \in Seq(S) : Range(Each(f, r)) = Parts_(r)}
<1>1. <<>> \in P
  <2>1. Range(<<>>) = {} /\ <<>> \in Seq(S)
    BY DEF Range
  <2>2. QED
    BY <2>1, EachEmpty
<1>2. ASSUME NEW r \in Seq(S), NEW e \in S, r \in P PROVE Append(r, e) \in P
  <2>1. /\ Append(r, e) \in Seq(S) /\ Append(r, e) = r \o <<e>> /\ <<e>> \in Seq(S)
    BY AppendProperties, AppendIsConcat
  <2>2. Each(f, r) \in Seq(T) /\ f[e] \in Seq(T)
    BY EachTyped DEF Gives
  <2>3. Range(Each(f, Append(r, e))) = Range(Each(f, r)) \cup Range(f[e])
    <3>1. Each(f, Append(r, e)) = Each(f, r) \o f[e]
      BY EachAppend
    <3>2. Range(Each(f, r) \o f[e]) = Range(Each(f, r)) \cup Range(f[e])
      BY <2>2, RangeConcatenation
    <3>3. QED
      BY <3>1, <3>2
  <2>4. Range(<<e>>) = {e}
    BY DEF Range
  <2>5. Range(Append(r, e)) = Range(r) \cup {e}
    <3> DEFINE d == <<e>>
    <3>1. d \in Seq(S)
      BY <2>1
    <3> HIDE DEF d
    <3>2. Range(r \o d) = Range(r) \cup Range(d)
      BY <3>1, RangeConcatenation
    <3>3. QED
      BY <2>1, <2>4, <3>2 DEF d
  <2>6. Parts_(Append(r, e)) = Parts_(r) \cup Range(f[e])
    BY <2>5
  <2>7. Range(Each(f, r)) = Parts_(r)
    BY <1>2
  <2>8. QED
    BY <2>1, <2>3, <2>6, <2>7
<1>3. Seq(S) \subseteq P
  <2> HIDE DEF P
  <2>1. QED
    BY <1>1, <1>2, ByAppend
<1>4. Range(Each(f, l)) = Parts_(l)
  BY <1>3
<1>5. QED
  BY <1>4

\* Only as an instance of Each.
Whether(S, K) == [x \in S |-> IF x \in K THEN <<x>> ELSE <<>>]

\* Only gathers, for each element, the element or nothing.
LEMMA OnlyIs ==
  ASSUME NEW S, NEW K, NEW l \in Seq(S)
  PROVE  /\ Only(l, K) = Each(Whether(S, K), l)
         /\ Gives(Whether(S, K), S, S)
<1>1. \A k \in DOMAIN l : l[k] \in S
  OBVIOUS
<1>2. [k \in DOMAIN l |-> IF l[k] \in K THEN <<l[k]>> ELSE <<>>]
      = [k \in DOMAIN l |-> Whether(S, K)[l[k]]]
  BY <1>1 DEF Whether
<1>3. \A x \in S : Whether(S, K)[x] \in Seq(S)
  BY DEF Whether
<1>4. QED
  BY <1>2, <1>3 DEF Only, Each, Gives

\* What is left of a list, of one element, and of two lists together.
LEMMA OnlyTyped ==
  ASSUME NEW S, NEW K, NEW l \in Seq(S)
  PROVE  Only(l, K) \in Seq(S)
<1>1. Only(l, K) = Each(Whether(S, K), l) /\ Gives(Whether(S, K), S, S)
  BY OnlyIs
<1> DEFINE w == Whether(S, K)
<1> HIDE DEF w
<1>2. Gives(w, S, S) => Each(w, l) \in Seq(S)
  BY EachTyped
<1>3. QED
  BY <1>1, <1>2 DEF w

\* Nothing is kept of an empty list.
LEMMA OnlyEmpty == ASSUME NEW K PROVE Only(<<>>, K) = <<>>
<1>1. [k \in DOMAIN <<>> |-> IF <<>>[k] \in K THEN <<<<>>[k]>> ELSE <<>>] = <<>>
  OBVIOUS
<1>2. QED
  BY <1>1, FlattenEmpty DEF Only

\* What is kept of a longer list ends with its last element, when that is kept.
LEMMA OnlyAppend ==
  ASSUME NEW S, NEW K, NEW l \in Seq(S), NEW e \in S
  PROVE  Only(Append(l, e), K) = Only(l, K) \o (IF e \in K THEN <<e>> ELSE <<>>)
<1> DEFINE w == Whether(S, K)
           m == Append(l, e)
<1>1. m \in Seq(S)
  BY AppendProperties
<1>2. w[e] = IF e \in K THEN <<e>> ELSE <<>>
  BY DEF Whether
<1> HIDE DEF m
<1>3. Only(l, K) = Each(w, l) /\ Only(m, K) = Each(w, m) /\ Gives(w, S, S)
  BY <1>1, OnlyIs
<1> HIDE DEF w
<1>4. Each(w, Append(l, e)) = Each(w, l) \o w[e]
  BY <1>3, EachAppend
<1>5. QED
  BY <1>2, <1>3, <1>4 DEF m

\* What is kept of a list of one element.
LEMMA OnlyOne ==
  ASSUME NEW S, NEW K, NEW e \in S
  PROVE  Only(<<e>>, K) = IF e \in K THEN <<e>> ELSE <<>>
<1> DEFINE r == IF e \in K THEN <<e>> ELSE <<>>
<1>1. Append(<<>>, e) = <<e>> /\ <<>> \in Seq(S) /\ r \in Seq(S)
  OBVIOUS
<1>2. Only(Append(<<>>, e), K) = Only(<<>>, K) \o r
  <2> DEFINE z == <<>>
  <2>1. z \in Seq(S)
    BY <1>1
  <2> HIDE DEF z
  <2>2. Only(Append(z, e), K) = Only(z, K) \o r
    BY <2>1, OnlyAppend
  <2>3. QED
    BY <2>2 DEF z
<1> HIDE DEF r
<1>3. <<>> \o r = r
  BY <1>1, ConcatEmptySeq
<1>4. QED
  BY <1>1, <1>2, <1>3, OnlyEmpty DEF r

\* Keeping goes over concatenation.
LEMMA OnlyConcat ==
  ASSUME NEW S, NEW K, NEW l \in Seq(S), NEW m \in Seq(S)
  PROVE  Only(l \o m, K) = Only(l, K) \o Only(m, K)
<1> DEFINE w == Whether(S, K)
           r == l \o m
<1>1. r \in Seq(S)
  BY ConcatProperties
<1> HIDE DEF r
<1>2. Only(l, K) = Each(w, l) /\ Only(m, K) = Each(w, m) /\ Only(r, K) = Each(w, r) /\ Gives(w, S, S)
  BY <1>1, OnlyIs
<1> HIDE DEF w
<1>3. Each(w, l \o m) = Each(w, l) \o Each(w, m)
  BY <1>2, EachConcat
<1>4. QED
  BY <1>2, <1>3 DEF r

\* What is kept of a list is what the list and the set share.
LEMMA OnlyRange ==
  ASSUME NEW S, NEW K, NEW l \in Seq(S)
  PROVE  Range(Only(l, K)) = Range(l) \cap K
<1> DEFINE w == Whether(S, K)
<1>1. Only(l, K) = Each(w, l) /\ Gives(w, S, S)
  BY OnlyIs
<1>2. \A c \in S : Range(w[c]) = {c} \cap K
  BY DEF Whether, Range
<1>3. \A c \in Range(l) : c \in S
  BY RangeOfSeq
<1> HIDE DEF w
<1>4. \A x : x \in Range(Each(w, l)) <=> \E c \in Range(l) : x \in Range(w[c])
  BY <1>1, EachRange
<1>5. QED
  BY <1>1, <1>2, <1>3, <1>4

\* Two sets that agree on a list keep the same of it.
LEMMA OnlySame ==
  ASSUME NEW S, NEW K, NEW L, NEW l \in Seq(S), \A x \in Range(l) : x \in K <=> x \in L
  PROVE  Only(l, K) = Only(l, L)
<1>1. [k \in DOMAIN l |-> IF l[k] \in K THEN <<l[k]>> ELSE <<>>]
      = [k \in DOMAIN l |-> IF l[k] \in L THEN <<l[k]>> ELSE <<>>]
  BY DEF Range
<1>2. QED
  BY <1>1 DEF Only

\* All of a list, and nothing of it.
LEMMA OnlyAll ==
  ASSUME NEW S, NEW K, NEW l \in Seq(S), Range(l) \subseteq K
  PROVE  Only(l, K) = l
<1> DEFINE P == {r \in Seq(S) : Only(r, S) = r}
<1>1. <<>> \in P
  BY OnlyEmpty
<1>2. ASSUME NEW r \in Seq(S), NEW e \in S, r \in P PROVE Append(r, e) \in P
  <2>1. Append(r, e) \in Seq(S) /\ Append(r, e) = r \o <<e>>
    BY AppendProperties, AppendIsConcat
  <2>2. Only(Append(r, e), S) = Only(r, S) \o <<e>>
    BY OnlyAppend
  <2>3. QED
    BY <1>2, <2>1, <2>2
<1>3. Seq(S) \subseteq P
  <2> HIDE DEF P
  <2>1. QED
    BY <1>1, <1>2, ByAppend
<1>4. Only(l, S) = l
  BY <1>3
<1>5. \A x \in Range(l) : x \in K <=> x \in S
  BY RangeOfSeq
<1>6. Only(l, K) = Only(l, S)
  BY <1>5, OnlySame
<1>7. QED
  BY <1>4, <1>6

\* A set that shares nothing with a list keeps nothing of it.
LEMMA OnlyNone ==
  ASSUME NEW S, NEW K, NEW l \in Seq(S), Range(l) \cap K = {}
  PROVE  Only(l, K) = <<>>
<1>1. Only(l, K) \in Seq(S) /\ Range(Only(l, K)) = {}
  BY OnlyTyped, OnlyRange
<1> DEFINE r == Only(l, K)
<1> HIDE DEF r
<1>2. r \in Seq(S) /\ Range(r) = {}
  BY <1>1 DEF r
<1>3. ASSUME r # <<>> PROVE FALSE
  <2>1. Len(r) \in Nat \ {0} /\ DOMAIN r = 1 .. Len(r)
    BY <1>2, <1>3, EmptySeq, LenProperties
  <2>2. r[1] \in Range(r)
    BY <2>1 DEF Range
  <2>3. QED
    BY <1>2, <2>2
<1>4. QED
  BY <1>3 DEF r

\* What is kept of what was kept.
LEMMA OnlyTwice ==
  ASSUME NEW S, NEW K, NEW L, NEW l \in Seq(S)
  PROVE  Only(Only(l, K), L) = Only(l, K \cap L)
<1> DEFINE M == K \cap L
           P == {r \in Seq(S) : Only(Only(r, K), L) = Only(r, M)}
<1>1. <<>> \in P
  BY OnlyEmpty
<1>2. ASSUME NEW r \in Seq(S), NEW e \in S, r \in P PROVE Append(r, e) \in P
  <2> DEFINE a == Only(r, K)
             d == IF e \in K THEN <<e>> ELSE <<>>
  <2>1. Append(r, e) \in Seq(S)
    BY AppendProperties
  <2>2. a \in Seq(S) /\ d \in Seq(S)
    BY OnlyTyped
  <2>3. Only(Append(r, e), K) = a \o d
    BY OnlyAppend
  <2>4. Only(Append(r, e), M) = Only(r, M) \o (IF e \in M THEN <<e>> ELSE <<>>)
    BY OnlyAppend
  <2>5. Only(d, L) = IF e \in M THEN <<e>> ELSE <<>>
    <3>1. CASE e \in K
      BY <3>1, OnlyOne
    <3>2. CASE e \notin K
      BY <3>2, OnlyEmpty
    <3>3. QED
      BY <3>1, <3>2
  <2>6. Only(a, L) = Only(r, M)
    BY <1>2
  <2> HIDE DEF a, d, M
  <2>7. Only(a \o d, L) = Only(a, L) \o Only(d, L)
    BY <2>2, OnlyConcat
  <2>8. QED
    BY <2>1, <2>3, <2>4, <2>5, <2>6, <2>7
<1>3. Seq(S) \subseteq P
  <2> HIDE DEF P
  <2>1. QED
    BY <1>1, <1>2, ByAppend
<1>4. QED
  BY <1>3

\* No list becomes longer by leaving elements out.
LEMMA OnlyLen ==
  ASSUME NEW S, NEW K, NEW l \in Seq(S)
  PROVE  Len(Only(l, K)) <= Len(l)
<1> DEFINE P == {r \in Seq(S) : Len(Only(r, K)) <= Len(r)}
<1>1. <<>> \in P
  BY OnlyEmpty
<1>2. ASSUME NEW r \in Seq(S), NEW e \in S, r \in P PROVE Append(r, e) \in P
  <2> DEFINE o == Only(r, K)
             d == IF e \in K THEN <<e>> ELSE <<>>
  <2>1. Append(r, e) \in Seq(S) /\ Len(Append(r, e)) = Len(r) + 1 /\ Len(r) \in Nat
    BY AppendProperties
  <2>2. Only(Append(r, e), K) = o \o d
    BY OnlyAppend
  <2>3. o \in Seq(S) /\ d \in Seq(S) /\ Len(d) <= 1 /\ Len(d) \in Nat /\ Len(o) \in Nat
    <3>1. o \in Seq(S)
      BY OnlyTyped
    <3>2. d \in Seq(S) /\ Len(d) <= 1 /\ Len(d) \in Nat
      OBVIOUS
    <3>3. QED
      BY <3>1, <3>2, LenProperties
  <2>4. Len(o) <= Len(r)
    BY <1>2
  <2> HIDE DEF o, d, P
  <2>5. Len(o \o d) = Len(o) + Len(d)
    BY <2>3, ConcatProperties
  <2>6. Len(Only(Append(r, e), K)) <= Len(Append(r, e))
    BY <2>1, <2>2, <2>3, <2>4, <2>5
  <2>7. QED
    BY <2>1, <2>6 DEF P
<1>3. Seq(S) \subseteq P
  <2> HIDE DEF P
  <2>1. QED
    BY <1>1, <1>2, ByAppend
<1>4. QED
  BY <1>3

\* Leaving out of what is put together is putting together what is left.
LEMMA OnlyEach ==
  ASSUME NEW S, NEW T, NEW f, NEW K, Gives(f, S, T), NEW l \in Seq(S),
         NEW g, \A c \in S : g[c] = Only(f[c], K)
  PROVE  Only(Each(f, l), K) = Each(g, l)
<1> DEFINE P == {r \in Seq(S) : Only(Each(f, r), K) = Each(g, r)}
<1>1. Gives(g, S, T)
  <2>1. ASSUME NEW c \in S PROVE Only(f[c], K) \in Seq(T)
    <3> DEFINE s == f[c]
    <3>1. s \in Seq(T)
      BY DEF Gives
    <3> HIDE DEF s
    <3>2. Only(s, K) \in Seq(T)
      BY <3>1, OnlyTyped
    <3>3. QED
      BY <3>2 DEF s
  <2>2. QED
    BY <2>1 DEF Gives
<1>3. <<>> \in P
  BY EachEmpty, OnlyEmpty
<1>4. ASSUME NEW r \in Seq(S), NEW e \in S, r \in P PROVE Append(r, e) \in P
  <2> DEFINE a == Each(f, r)
             b == f[e]
  <2>1. Append(r, e) \in Seq(S)
    BY AppendProperties
  <2>2. a \in Seq(T) /\ b \in Seq(T)
    BY EachTyped DEF Gives
  <2>3. Each(f, Append(r, e)) = a \o b
    BY EachAppend
  <2>4. Each(g, Append(r, e)) = Each(g, r) \o g[e]
    BY <1>1, EachAppend
  <2>5. Only(a, K) = Each(g, r) /\ Only(b, K) = g[e]
    BY <1>4
  <2> HIDE DEF a, b
  <2>6. Only(a \o b, K) = Only(a, K) \o Only(b, K)
    BY <2>2, OnlyConcat
  <2>7. QED
    BY <2>1, <2>3, <2>4, <2>5, <2>6
<1>5. Seq(S) \subseteq P
  <2> HIDE DEF P
  <2>1. QED
    BY <1>3, <1>4, ByAppend
<1>6. QED
  BY <1>5

-----------------------------------------------------------------------------
(* The inductive invariant.                                                *)

Kinds == {"VALUE", "FUNCTION", "PLAIN", "EXPR", "RETURN", "PRINT", "BLOCK"} \cup Branching

Nodes == [kind : Kinds, refused : BOOLEAN, silent : BOOLEAN, body : Seq(Nat), else_body : Seq(Nat)]

\* The parts of node i.
Kids(h, i) == h[i].body \o h[i].else_body

\* No node is in two of the list, with all that each is made of.
Apart(t, list) ==
  \A j, k \in DOMAIN list : j # k => Range(t[list[j]]) \cap Range(t[list[k]]) = {}

\* Node i was created after its parts, no two of which share anything, and its
\* text says what it is made of.
Placed(h, t, i) ==
  /\ h[i].body \in Seq(1 .. i - 1) /\ h[i].else_body \in Seq(1 .. i - 1)
  /\ t[i] = <<i>> \o Each(t, Kids(h, i))
  /\ Apart(t, Kids(h, i))

Forest(h, t) ==
  /\ h \in Seq(Nodes) /\ t \in Seq(Seq(Nat)) /\ Len(t) = Len(h)
  /\ \A i \in 1 .. Len(h) : Placed(h, t, i)

\* What the parser puts on its stack: one statement, or a list of prints.
Chain(h, list) ==
  list # <<>> /\ (Len(list) = 1 \/ \A k \in DOMAIN list : h[list[k]].kind = "PRINT")

\* Node i has the parts that a node of its kind can have.
Formed(h, i) ==
  /\ h[i].refused => h[i].kind \in Declarations
  /\ h[i].kind \notin Branching => h[i].else_body = <<>>
  /\ h[i].kind \notin Branching \cup {"BLOCK", "FUNCTION"} => h[i].body = <<>>
  /\ h[i].kind = "FUNCTION" => Chain(h, h[i].body)

Shaped(h) == \A i \in 1 .. Len(h) : Formed(h, i)

\* A list with all that its elements are made of is all there is, once.
Complete(h, t, list) ==
  /\ list \in Seq(1 .. Len(h))
  /\ Apart(t, list)
  /\ 1 .. Len(h) \subseteq Range(Each(t, list))
  /\ Len(Each(t, list)) = Len(h)

Parsing ==
  phase = "parse" =>
    /\ stack \in Seq(Seq(1 .. Len(node)))
    /\ \A k \in DOMAIN stack : Chain(node, stack[k])
    /\ Complete(node, text, FlattenSeq(stack))
    /\ program = <<>>

Later == {"parsed", "resolved", "checked", "folded", "generated"}

Followed ==
  phase \in Later =>
    /\ stack = <<>>
    /\ Complete(node, text, program)
    /\ \A k \in DOMAIN program : node[program[k]].kind \in Declarations
    /\ source = Each(text, program)

Gone ==
  phase \in {"failed", "crashed", "undefined"} => node = <<>> /\ stack = <<>> /\ program = <<>> /\ text = <<>>

Passes == {"resolve", "typecheck", "fold"}

\* What the passes leave: nothing yet, or what the properties say.
Results ==
  /\ visited \in [Passes -> Seq(Nat)]
  /\ \A pass \in Passes : phase \notin Since(pass) => visited[pass] = <<>>
  /\ phase # "generated" => generated = <<>>
  /\ WalkedInOrder /\ GeneratedInOrder

IInv ==
  /\ phase \in Phases /\ Len(node) <= MaxNodes
  /\ Forest(node, text) /\ Shaped(node)
  /\ Parsing /\ Followed /\ Gone /\ Results

-----------------------------------------------------------------------------
(* Forests.                                                                *)

\* The parts of a node were created before it.
LEMMA ForestFacts ==
  ASSUME NEW h, NEW t, Forest(h, t)
  PROVE  /\ Len(h) \in Nat
         /\ Gives(t, 1 .. Len(h), Nat)
         /\ \A i \in 1 .. Len(h) :
              /\ Kids(h, i) \in Seq(1 .. i - 1) /\ Kids(h, i) \in Seq(1 .. Len(h))
              /\ \A c \in Range(Kids(h, i)) : c \in 1 .. i - 1 /\ c \in 1 .. Len(h)
<1>1. h \in Seq(Nodes) /\ t \in Seq(Seq(Nat)) /\ Len(t) = Len(h)
  BY DEF Forest, Placed
<1>2. Len(h) \in Nat /\ Len(t) \in Nat
  BY <1>1
<1>3. Gives(t, 1 .. Len(h), Nat)
  BY <1>1 DEF Gives
<1>4. ASSUME NEW i \in 1 .. Len(h)
      PROVE  /\ Kids(h, i) \in Seq(1 .. i - 1) /\ Kids(h, i) \in Seq(1 .. Len(h))
             /\ \A c \in Range(Kids(h, i)) : c \in 1 .. i - 1 /\ c \in 1 .. Len(h)
  <2> DEFINE a == h[i].body
             b == h[i].else_body
             l == Kids(h, i)
             D == 1 .. i - 1
  <2>1. a \in Seq(D) /\ b \in Seq(D)
    BY DEF Forest, Placed
  <2>2. l = a \o b
    BY DEF Kids
  <2>3. D \subseteq 1 .. Len(h)
    BY <1>2
  <2> HIDE DEF a, b, l, D
  <2>4. l \in Seq(D)
    BY <2>1, <2>2, ConcatProperties
  <2>5. l \in Seq(1 .. Len(h))
    BY <2>3, <2>4, SeqMonotonic
  <2>6. Range(l) \in SUBSET D
    BY <2>4, RangeOfSeq
  <2>7. QED
    BY <2>3, <2>4, <2>5, <2>6 DEF D, l
<1>5. QED
  BY <1>2, <1>3, <1>4

\* What a node is made of: itself, and what its parts are made of.
LEMMA TextRange ==
  ASSUME NEW h, NEW t, Forest(h, t), NEW i \in 1 .. Len(h)
  PROVE  /\ Each(t, Kids(h, i)) \in Seq(Nat) /\ t[i] = <<i>> \o Each(t, Kids(h, i))
         /\ t[i] \in Seq(Nat)
         /\ Range(t[i]) = {i} \cup Range(Each(t, Kids(h, i)))
         /\ \A x : x \in Range(Each(t, Kids(h, i))) <=> \E c \in Range(Kids(h, i)) : x \in Range(t[c])
<1> DEFINE l == Kids(h, i)
           e == Each(t, l)
           D == 1 .. Len(h)
           one == <<i>>
<1>1. l \in Seq(D) /\ Gives(t, D, Nat) /\ i \in Nat
  BY ForestFacts
<1>2. t[i] = one \o e
  BY DEF Forest, Placed
<1>3. one \in Seq(Nat) /\ Range(one) = {i}
  BY <1>1 DEF Range
<1> HIDE DEF l, D
<1>4. e \in Seq(Nat) /\ \A x : x \in Range(e) <=> \E c \in Range(l) : x \in Range(t[c])
  BY <1>1, EachTyped, EachRange
<1> HIDE DEF e, one
<1>5. Range(one \o e) = Range(one) \cup Range(e) /\ one \o e \in Seq(Nat)
  BY <1>3, <1>4, RangeConcatenation, ConcatProperties
<1>6. QED
  BY <1>2, <1>3, <1>4, <1>5 DEF e, l, one

\* A node is made of nodes that were not created after it, and of all that these
\* are made of.
LEMMA TextWithin ==
  ASSUME NEW h, NEW t, Forest(h, t), NEW i \in 1 .. Len(h)
  PROVE  /\ i \in Range(t[i])
         /\ \A x \in Range(t[i]) : x \in 1 .. i /\ x \in 1 .. Len(h)
<1> DEFINE n == Len(h)
           P == {j \in 1 .. n : \A x \in Range(t[j]) : x \in 1 .. j}
<1>1. n \in Nat /\ 1 \in Nat
  BY ForestFacts
<1>2. ASSUME NEW j \in 1 .. n, \A k \in 1 .. j - 1 : k \in P PROVE j \in P
  <2>1. ASSUME NEW x \in Range(t[j]), x # j PROVE x \in 1 .. j
    <3>0. /\ Range(t[j]) = {j} \cup Range(Each(t, Kids(h, j)))
          /\ \A y : y \in Range(Each(t, Kids(h, j))) <=> \E c \in Range(Kids(h, j)) : y \in Range(t[c])
      BY TextRange
    <3>1. PICK c \in Range(Kids(h, j)) : x \in Range(t[c])
      BY <2>1, <3>0
    <3>2. c \in 1 .. j - 1
      BY ForestFacts
    <3>3. x \in 1 .. c
      BY <1>2, <3>1, <3>2
    <3>4. QED
      BY <3>2, <3>3
  <2>2. j \in 1 .. j
    OBVIOUS
  <2>3. QED
    BY <2>1, <2>2
<1>3. 1 .. n \subseteq P
  <2> HIDE DEF P, n
  <2>1. QED
    BY <1>1, <1>2, Between
<1>4. i \in Range(t[i])
  <2>1. Range(t[i]) = {i} \cup Range(Each(t, Kids(h, i)))
    BY TextRange
  <2>2. QED
    BY <2>1
<1>5. QED
  BY <1>1, <1>3, <1>4

\* What is written inside a part of a statement is written inside the statement.
LEMMA TextNested ==
  ASSUME NEW h, NEW t, Forest(h, t), NEW i \in 1 .. Len(h), NEW j \in Range(t[i])
  PROVE  Range(t[j]) \subseteq Range(t[i])
<1> DEFINE n == Len(h)
           P == {k \in 1 .. n : \A m \in Range(t[k]) : Range(t[m]) \subseteq Range(t[k])}
<1>1. n \in Nat /\ 1 \in Nat
  BY ForestFacts
<1>2. ASSUME NEW k \in 1 .. n, \A c \in 1 .. k - 1 : c \in P PROVE k \in P
  <2>1. ASSUME NEW m \in Range(t[k]), m # k PROVE Range(t[m]) \subseteq Range(t[k])
    <3>0. /\ Range(t[k]) = {k} \cup Range(Each(t, Kids(h, k)))
          /\ \A y : y \in Range(Each(t, Kids(h, k))) <=> \E c \in Range(Kids(h, k)) : y \in Range(t[c])
      BY TextRange
    <3>1. PICK c \in Range(Kids(h, k)) : m \in Range(t[c])
      BY <2>1, <3>0
    <3>2. c \in P
      BY <1>2, ForestFacts
    <3>3. Range(t[m]) \subseteq Range(t[c])
      BY <3>1, <3>2
    <3>4. Range(t[c]) \subseteq Range(t[k])
      BY <3>0
    <3>5. QED
      BY <3>3, <3>4
  <2>2. QED
    BY <2>1
<1>3. 1 .. n \subseteq P
  <2> HIDE DEF P, n
  <2>1. QED
    BY <1>1, <1>2, Between
<1>4. QED
  BY <1>3

-----------------------------------------------------------------------------
(* What a node stands in.                                                  *)

\* The nodes of S that node x is a part of.
Above(t, S, x) == {j \in S \ {x} : x \in Range(t[j])}

\* In a list, they are those of the element that x is in.
LEMMA AboveList ==
  ASSUME NEW h, NEW t, Forest(h, t), NEW l \in Seq(1 .. Len(h)), Apart(t, l),
         NEW c \in Range(l), NEW x \in Range(t[c])
  PROVE  Above(t, Range(Each(t, l)), x) = Above(t, Range(t[c]), x)
<1> DEFINE D == 1 .. Len(h)
<1>1. Gives(t, D, Nat) /\ \A d \in Range(l) : d \in D
  BY ForestFacts, RangeOfSeq
<1>2. \A y : y \in Range(Each(t, l)) <=> \E d \in Range(l) : y \in Range(t[d])
  <2> HIDE DEF D
  <2>1. l \in Seq(D)
    BY DEF D
  <2>2. QED
    BY <1>1, <2>1, EachRange
<1>3. ASSUME NEW d \in Range(l), NEW y \in Range(t[d]), x \in Range(t[y])
      PROVE  y \in Range(t[c])
  <2>1. x \in Range(t[d])
    BY <1>1, <1>3, TextNested
  <2>2. PICK k \in DOMAIN l : c = l[k]
    BY DEF Range
  <2>3. PICK j \in DOMAIN l : d = l[j]
    BY DEF Range
  <2>4. j = k
    BY <2>1, <2>2, <2>3 DEF Apart
  <2>5. QED
    BY <2>2, <2>3, <2>4
<1>4. QED
  BY <1>2, <1>3 DEF Above

\* A node is in none that it is made of.
LEMMA AboveSelf ==
  ASSUME NEW h, NEW t, Forest(h, t), NEW i \in 1 .. Len(h)
  PROVE  Above(t, Range(t[i]), i) = {}
<1>1. ASSUME NEW j \in Range(t[i]), j # i, i \in Range(t[j]) PROVE FALSE
  <2>1. j \in 1 .. i /\ j \in 1 .. Len(h)
    BY TextWithin
  <2>2. i \in 1 .. j
    BY <1>1, <2>1, TextWithin
  <2>3. Len(h) \in Nat
    BY ForestFacts
  <2>4. QED
    BY <1>1, <2>1, <2>2, <2>3
<1>2. QED
  BY <1>1 DEF Above

\* What is in a part of a node is in one more, the node.
LEMMA AboveNode ==
  ASSUME NEW h, NEW t, Forest(h, t), NEW i \in 1 .. Len(h),
         NEW c \in Range(Kids(h, i)), NEW x \in Range(t[c])
  PROVE  x # i /\ Above(t, Range(t[i]), x) = {i} \cup Above(t, Range(t[c]), x)
<1> DEFINE l == Kids(h, i)
<1>1. /\ Len(h) \in Nat /\ l \in Seq(1 .. Len(h)) /\ Apart(t, l)
      /\ c \in 1 .. i - 1 /\ c \in 1 .. Len(h)
  BY ForestFacts DEF Forest, Placed
<1>2. x \in 1 .. c
  BY <1>1, TextWithin
<1>3. x # i
  BY <1>1, <1>2
<1>4. /\ Range(t[i]) = {i} \cup Range(Each(t, l))
      /\ \A y : y \in Range(Each(t, l)) <=> \E d \in Range(l) : y \in Range(t[d])
  BY TextRange
<1>5. x \in Range(t[i])
  BY <1>4
<1>6. Above(t, Range(t[i]), x) = {i} \cup Above(t, Range(Each(t, l)), x)
  BY <1>3, <1>4, <1>5 DEF Above
<1>7. Above(t, Range(Each(t, l)), x) = Above(t, Range(t[c]), x)
  <2> HIDE DEF l
  <2>1. c \in Range(l)
    BY DEF l
  <2>2. QED
    BY <1>1, <2>1, AboveList
<1>8. QED
  BY <1>3, <1>6, <1>7

-----------------------------------------------------------------------------
(* What follows a program, and leaves out what is inside some nodes.       *)

\* The elements of K that no node of S in Bad has as a part.
Outside(t, S, Bad, K) == {x \in K : Above(t, S, x) \cap Bad = {}}

\* F gives, of the nodes in K, those a node is made of that are not inside one
\* in Bad.
Gathers(t, F, Bad, K, c) == Only(F[c], K) = Only(t[c], Outside(t, Range(t[c]), Bad, K))

GathersAll(t, F, Bad, K, l) == \A c \in Range(l) : Gathers(t, F, Bad, K, c)

\* Of what an element of a list is made of, G is what is not inside one in Bad.
Parted(t, Bad, K, G, l) ==
  \A c \in Range(l) : \A x \in Range(t[c]) : x \in G <=> x \in Outside(t, Range(t[c]), Bad, K)

\* What F gathers from the elements of a list, together.
LEMMA GathersEach ==
  ASSUME NEW h, NEW t, Forest(h, t), NEW l \in Seq(1 .. Len(h)),
         NEW F, Gives(F, 1 .. Len(h), Nat), NEW Bad, NEW K, NEW G,
         GathersAll(t, F, Bad, K, l), Parted(t, Bad, K, G, l)
  PROVE  Only(Each(F, l), K) = Only(Each(t, l), G)
<1> DEFINE D == 1 .. Len(h)
           f == [c \in D |-> Only(F[c], K)]
           g == [c \in D |-> Only(t[c], G)]
<1>1. Gives(t, D, Nat) /\ \A c \in Range(l) : c \in D
  BY ForestFacts, RangeOfSeq
<1>2. \A c \in Range(l) : f[c] = g[c]
  <2>1. ASSUME NEW c \in Range(l) PROVE Only(F[c], K) = Only(t[c], G)
    <3> DEFINE s == t[c]
               O == Outside(t, Range(t[c]), Bad, K)
    <3>1. s \in Seq(Nat)
      BY <1>1 DEF Gives
    <3>2. \A x \in Range(s) : x \in O <=> x \in G
      BY DEF Parted
    <3>3. Only(F[c], K) = Only(s, O)
      BY DEF Gathers, GathersAll
    <3> HIDE DEF s, O
    <3>4. Only(s, O) = Only(s, G)
      BY <3>1, <3>2, OnlySame
    <3>5. QED
      BY <3>3, <3>4 DEF s
  <2>2. QED
    BY <1>1, <2>1
<1>3. Each(f, l) = Each(g, l)
  <2> HIDE DEF f, g
  <2>1. QED
    BY <1>2, EachSame
<1>4. Only(Each(F, l), K) = Each(f, l) /\ Only(Each(t, l), G) = Each(g, l)
  <2>1. /\ \A c \in D : f[c] = Only(F[c], K)
        /\ \A c \in D : g[c] = Only(t[c], G)
    OBVIOUS
  <2> HIDE DEF f, g
  <2>2. Only(Each(F, l), K) = Each(f, l)
    BY <2>1, OnlyEach
  <2>3. Only(Each(t, l), G) = Each(g, l)
    BY <1>1, <2>1, OnlyEach
  <2>4. QED
    BY <2>2, <2>3
<1>5. QED
  BY <1>3, <1>4

\* The same, where nothing but the list is looked at.
LEMMA GathersList ==
  ASSUME NEW h, NEW t, Forest(h, t), NEW l \in Seq(1 .. Len(h)), Apart(t, l),
         NEW F, Gives(F, 1 .. Len(h), Nat), NEW Bad, NEW K,
         GathersAll(t, F, Bad, K, l)
  PROVE  Only(Each(F, l), K) = Only(Each(t, l), Outside(t, Range(Each(t, l)), Bad, K))
<1> DEFINE G == Outside(t, Range(Each(t, l)), Bad, K)
<1>1. Parted(t, Bad, K, G, l)
  BY AboveList DEF Outside, Parted
<1> HIDE DEF G
<1>2. Only(Each(F, l), K) = Only(Each(t, l), G)
  BY <1>1, GathersEach
<1>3. QED
  BY <1>2 DEF G

\* What is outside of a node in Bad is nothing but the node; the parts of any other
\* are looked at one by one.
LEMMA OutsideNode ==
  ASSUME NEW h, NEW t, Forest(h, t), NEW i \in 1 .. Len(h), NEW Bad, NEW K
  PROVE  LET G == Outside(t, Range(t[i]), Bad, K)
         IN  /\ i \in G <=> i \in K
             /\ i \in Bad => Range(Each(t, Kids(h, i))) \cap G = {}
             /\ i \notin Bad => Parted(t, Bad, K, G, Kids(h, i))
<1> DEFINE G == Outside(t, Range(t[i]), Bad, K)
<1>1. Above(t, Range(t[i]), i) = {}
  BY AboveSelf
<1>2. ASSUME NEW c \in Range(Kids(h, i)), NEW x \in Range(t[c])
      PROVE  Above(t, Range(t[i]), x) = {i} \cup Above(t, Range(t[c]), x)
  BY AboveNode
<1>3. \A x : x \in Range(Each(t, Kids(h, i))) <=> \E c \in Range(Kids(h, i)) : x \in Range(t[c])
  BY TextRange
<1>4. i \in G <=> i \in K
  BY <1>1 DEF Outside
<1>5. i \in Bad => Range(Each(t, Kids(h, i))) \cap G = {}
  BY <1>2, <1>3 DEF Outside
<1>6. i \notin Bad => Parted(t, Bad, K, G, Kids(h, i))
  BY <1>2 DEF Outside, Parted
<1>7. QED
  BY <1>4, <1>5, <1>6

\* A function that takes a node, and what it gives for the parts unless the node
\* is in Bad, gathers what is outside of Bad.
LEMMA GathersNode ==
  ASSUME NEW h, NEW t, Forest(h, t), NEW F, Gives(F, 1 .. Len(h), Nat), NEW Bad, NEW K,
         \A i \in 1 .. Len(h) :
           Only(F[i], K) = Only(<<i>>, K) \o
                           (IF i \in Bad THEN <<>> ELSE Only(Each(F, Kids(h, i)), K)),
         NEW m \in 1 .. Len(h)
  PROVE  Gathers(t, F, Bad, K, m)
<1> DEFINE n == Len(h)
           P == {i \in 1 .. n : Gathers(t, F, Bad, K, i)}
<1>1. n \in Nat /\ 1 \in Nat
  BY ForestFacts
<1>2. ASSUME NEW i \in 1 .. n, \A c \in 1 .. i - 1 : c \in P PROVE i \in P
  <2> DEFINE l == Kids(h, i)
             G == Outside(t, Range(t[i]), Bad, K)
             e == Each(t, l)
             one == <<i>>
  <2>1. /\ l \in Seq(1 .. n) /\ \A c \in Range(l) : c \in 1 .. i - 1 /\ c \in 1 .. n
    BY ForestFacts
  <2>2. /\ e \in Seq(Nat) /\ t[i] = one \o e
        /\ \A x : x \in Range(e) <=> \E c \in Range(l) : x \in Range(t[c])
    BY TextRange
  <2>3. one \in Seq(Nat)
    BY <1>1
  <2>4. Only(t[i], G) = Only(one, G) \o Only(e, G)
    <3> HIDE DEF e, one, G
    <3>1. QED
      BY <2>2, <2>3, OnlyConcat
  <2>5. /\ i \in G <=> i \in K
        /\ i \in Bad => Range(e) \cap G = {}
        /\ i \notin Bad => Parted(t, Bad, K, G, l)
    BY OutsideNode
  <2>6. Only(one, G) = Only(one, K)
    <3>1. Range(one) = {i}
      BY DEF Range
    <3>2. i \in G <=> i \in K
      BY <2>5
    <3> HIDE DEF one, G
    <3>3. QED
      BY <2>3, <3>1, <3>2, OnlySame
  <2>7. CASE i \in Bad
    <3>1. Range(e) \cap G = {}
      BY <2>5, <2>7
    <3>2. Only(e, G) = <<>>
      <4> HIDE DEF e, G
      <4>1. QED
        BY <2>2, <3>1, OnlyNone
    <3>3. Only(F[i], K) = Only(one, K) \o <<>>
      BY <2>7
    <3>4. QED
      BY <2>4, <2>6, <3>2, <3>3 DEF Gathers
  <2>8. CASE i \notin Bad
    <3>1. GathersAll(t, F, Bad, K, l)
      BY <1>2, <2>1 DEF GathersAll
    <3>2. Parted(t, Bad, K, G, l)
      BY <2>5, <2>8
    <3>3. Only(Each(F, l), K) = Only(e, G)
      <4> HIDE DEF l, G
      <4>1. QED
        BY <2>1, <3>1, <3>2, GathersEach
    <3>4. Only(F[i], K) = Only(one, K) \o Only(Each(F, l), K)
      BY <2>8
    <3>5. QED
      BY <2>4, <2>6, <3>3, <3>4 DEF Gathers
  <2>9. QED
    BY <2>7, <2>8
<1>3. 1 .. n \subseteq P
  <2> HIDE DEF P, n
  <2>1. QED
    BY <1>1, <1>2, Between
<1>4. QED
  BY <1>3

-----------------------------------------------------------------------------
(* The recursive functions.                                                *)

\* The parts of each number up to n are smaller than it.
Downward(n, parts) == \A i \in 1 .. n : parts[i] \in Seq(1 .. i - 1)

\* F puts what it gives for the parts of a number after the number's own.
Gathered(n, own, parts, F) ==
  F \in [1 .. n -> Seq(Nat)] /\ \A i \in 1 .. n : F[i] = own[i] \o Each(F, parts[i])

\* There is such a function.
LEMMA Gathering ==
  ASSUME NEW n \in Nat, NEW own, Gives(own, 1 .. n, Nat), NEW parts, Downward(n, parts)
  PROVE  \E F : Gathered(n, own, parts, F)
<1> USE DEF Downward
<1> DEFINE D == 1 .. n
           V == Seq(Nat)
           step == [f \in [D -> V] |-> [i \in D |-> own[i] \o Each(f, parts[i])]]
<1>1. \A f \in [D -> V], i \in D : step[f][i] = own[i] \o Each(f, parts[i])
  OBVIOUS
<1>2. ASSUME NEW i \in D PROVE parts[i] \in Seq(D)
  <2> DEFINE l == parts[i]
             C == 1 .. i - 1
  <2>1. l \in Seq(C) /\ C \subseteq D
    OBVIOUS
  <2> HIDE DEF l, C, D
  <2>2. l \in Seq(D)
    BY <2>1, SeqMonotonic
  <2>3. QED
    BY <2>2 DEF l
<1>3. ASSUME NEW f \in [D -> V], NEW i \in D PROVE step[f][i] \in V
  <2> DEFINE l == parts[i]
             e == Each(f, l)
             o == own[i]
  <2>1. Gives(f, D, Nat)
    BY DEF Gives
  <2>2. l \in Seq(D)
    BY <1>2
  <2>3. o \in Seq(Nat)
    BY DEF Gives
  <2> HIDE DEF l, D
  <2>4. e \in Seq(Nat)
    BY <2>1, <2>2, EachTyped
  <2> HIDE DEF e, o
  <2>5. o \o e \in Seq(Nat)
    BY <2>3, <2>4, ConcatProperties
  <2>6. QED
    BY <1>1, <2>5 DEF o, e, l
<1>4. step \in [[D -> V] -> [D -> V]]
  <2>1. \A f \in [D -> V] : [i \in D |-> own[i] \o Each(f, parts[i])] \in [D -> V]
    BY <1>1, <1>3
  <2> HIDE DEF D, V
  <2>2. QED
    BY <2>1
<1>5. ASSUME NEW f \in [D -> V], NEW g \in [D -> V], NEW i \in D,
             \A j \in 1 .. i - 1 : f[j] = g[j]
      PROVE  step[f][i] = step[g][i]
  <2> DEFINE l == parts[i]
             C == 1 .. i - 1
  <2>1. l \in Seq(C)
    OBVIOUS
  <2>2. \A c \in Range(l) : c \in C
    <3> HIDE DEF l, C
    <3>1. QED
      BY <2>1, RangeOfSeq
  <2>3. \A c \in Range(l) : f[c] = g[c]
    BY <1>5, <2>2
  <2>4. Each(f, l) = Each(g, l)
    <3> HIDE DEF l, C
    <3>1. QED
      BY <2>1, <2>3, EachSame
  <2>5. QED
    BY <1>1, <2>4
<1>6. \E F : IsSolution(1, n, V, step, F)
  <2>1. <<>> \in V /\ 1 \in Nat
    OBVIOUS
  <2>2. Recursive(1, n, V, step)
    <3> HIDE DEF step, V
    <3>1. QED
      BY <1>4, <1>5 DEF Recursive
  <2> HIDE DEF step, V
  <2>3. QED
    BY <2>1, <2>2, Solution, Zenon
<1>7. QED
  <2>1. PICK F : IsSolution(1, n, V, step, F)
    BY <1>6
  <2>2. F \in [D -> V] /\ \A i \in D : F[i] = step[F][i]
    BY <2>1 DEF IsSolution
  <2>3. Gathered(n, own, parts, F)
    BY <1>1, <2>2 DEF Gathered
  <2>4. QED
    BY <2>3

\* Two functions are the same, if they are at a number the same whenever they are
\* so at the smaller ones.
Together(n, f, g) ==
  /\ f = [i \in 1 .. n |-> f[i]] /\ g = [i \in 1 .. n |-> g[i]]
  /\ \A i \in 1 .. n : (\A j \in 1 .. i - 1 : f[j] = g[j]) => f[i] = g[i]

\* Two functions that determine each next value from the values before it are equal.
LEMMA SameFunctions ==
  ASSUME NEW n \in Nat, NEW f, NEW g, Together(n, f, g)
  PROVE  f = g
<1> USE DEF Together
<1> DEFINE P == {i \in 1 .. n : f[i] = g[i]}
<1>1. ASSUME NEW i \in 1 .. n, \A j \in 1 .. i - 1 : j \in P PROVE i \in P
  BY <1>1
<1>2. 1 .. n \subseteq P
  <2>1. 1 \in Nat
    OBVIOUS
  <2> HIDE DEF P
  <2>2. QED
    BY <1>1, <2>1, Between
<1>3. \A i \in 1 .. n : f[i] = g[i]
  BY <1>2
<1>4. [i \in 1 .. n |-> f[i]] = [i \in 1 .. n |-> g[i]]
  BY <1>3
<1>5. QED
  BY <1>4

\* A walk visits a node, and then its parts.
LEMMA WalkUnfold ==
  ASSUME NEW h, NEW t, Forest(h, t), NEW pass
  PROVE  /\ Walk(h, pass) \in [1 .. Len(h) -> Seq(Nat)]
         /\ \A i \in 1 .. Len(h) :
              Walk(h, pass)[i] = <<i>> \o Each(Walk(h, pass), Parts(pass, h[i]))
<1> DEFINE n == Len(h)
           own == [i \in 1 .. n |-> <<i>>]
           parts == [i \in 1 .. n |-> Parts(pass, h[i])]
           Eq(f) == f = [i \in 1 .. n |-> WalkNode(h, pass, f, i)]
<1>1. n \in Nat
  BY ForestFacts
<1>2. \A i \in 1 .. n : parts[i] \in Seq(1 .. i - 1)
  <2>1. ASSUME NEW i \in 1 .. n PROVE Parts(pass, h[i]) \in Seq(1 .. i - 1)
    <3>1. Kids(h, i) \in Seq(1 .. i - 1)
      BY ForestFacts
    <3>2. <<>> \in Seq(1 .. i - 1)
      OBVIOUS
    <3>3. QED
      BY <3>1, <3>2 DEF Parts, Kids
  <2>2. QED
    BY <2>1
<1>3. Gives(own, 1 .. n, Nat)
  <2>1. \A i \in 1 .. n : <<i>> \in Seq(Nat)
    BY <1>1
  <2>2. QED
    BY <2>1 DEF Gives
<1>4. \A f : \A i \in 1 .. n : WalkNode(h, pass, f, i) = own[i] \o Each(f, parts[i])
  BY DEF WalkNode
<1>5. PICK F \in [1 .. n -> Seq(Nat)] : \A i \in 1 .. n : F[i] = own[i] \o Each(F, parts[i])
  <2>1. Downward(n, parts)
    BY <1>2 DEF Downward
  <2> HIDE DEF n, own, parts
  <2>2. \E F : Gathered(n, own, parts, F)
    BY <1>1, <1>3, <2>1, Gathering, Zenon
  <2>3. QED
    BY <2>2 DEF Gathered
<1>6. Eq(F)
  <2>1. F = [i \in 1 .. n |-> F[i]]
    OBVIOUS
  <2>2. \A i \in 1 .. n : F[i] = WalkNode(h, pass, F, i)
    BY <1>4, <1>5
  <2> HIDE DEF n
  <2>3. QED
    BY <2>1, <2>2
<1> DEFINE w == Walk(h, pass)
<1>7. Eq(w)
  <2>1. w = CHOOSE walk : Eq(walk)
    BY DEF Walk
  <2> HIDE DEF w, Eq
  <2>2. QED
    BY <1>6, <2>1
<1> HIDE DEF w
<1>8. w = F
  <2>1. w = [i \in 1 .. n |-> w[i]] /\ F = [i \in 1 .. n |-> F[i]]
    BY <1>7
  <2>2. ASSUME NEW i \in 1 .. n, \A j \in 1 .. i - 1 : w[j] = F[j] PROVE w[i] = F[i]
    <3> DEFINE l == parts[i]
    <3>1. l \in Seq(1 .. i - 1)
      BY <1>2
    <3>2. w[i] = own[i] \o Each(w, l)
      BY <1>4, <1>7
    <3>3. F[i] = own[i] \o Each(F, l)
      BY <1>5
    <3> HIDE DEF l
    <3>4. Each(w, l) = Each(F, l)
      <4> HIDE DEF n, own, parts, Eq
      <4>1. \A k \in DOMAIN l : w[l[k]] = F[l[k]]
        BY <2>2, <3>1
      <4>2. [k \in DOMAIN l |-> w[l[k]]] = [k \in DOMAIN l |-> F[l[k]]]
        BY <4>1
      <4>3. QED
        BY <4>2 DEF Each
    <3>5. QED
      BY <3>2, <3>3, <3>4
  <2> HIDE DEF n
  <2>3. Together(n, w, F)
    BY <2>1, <2>2 DEF Together
  <2>4. QED
    BY <1>1, <2>3, SameFunctions
<1>9. \A i \in 1 .. n : F[i] = <<i>> \o Each(F, Parts(pass, h[i]))
  BY <1>5
<1>10. QED
  BY <1>8, <1>9 DEF w

Plainly(h, i) == h[i].kind \notin Branching \cup {"FUNCTION", "BLOCK"}

\* What generation reaches as it is.
Shown(h, i) == h[i].kind \notin Branching \cup {"BLOCK"}

\* Generation gives a statement, or those of a block.
LEMMA CodeUnfold ==
  ASSUME NEW h, NEW t, Forest(h, t)
  PROVE  /\ stmt_codegen(h) \in [1 .. Len(h) -> Seq(Nat)]
         /\ \A i \in 1 .. Len(h) :
              stmt_codegen(h)[i]
              = (IF Shown(h, i) THEN <<i>> ELSE <<>>)
                \o Each(stmt_codegen(h), IF h[i].kind = "BLOCK" THEN h[i].body ELSE <<>>)
<1> DEFINE n == Len(h)
           Own(i) == IF Shown(h, i) THEN <<i>> ELSE <<>>
           Inner(i) == IF h[i].kind = "BLOCK" THEN h[i].body ELSE <<>>
           own == [i \in 1 .. n |-> Own(i)]
           parts == [i \in 1 .. n |-> Inner(i)]
           Eq(f) == f = [i \in 1 .. n |-> StatementCode(h, f, i)]
<1>1. n \in Nat
  BY ForestFacts
<1>2. \A i \in 1 .. n : parts[i] \in Seq(1 .. i - 1) /\ parts[i] = Inner(i) /\ own[i] = Own(i)
  <2>1. ASSUME NEW i \in 1 .. n PROVE Inner(i) \in Seq(1 .. i - 1)
    <3>1. h[i].body \in Seq(1 .. i - 1)
      BY DEF Forest, Placed
    <3>2. <<>> \in Seq(1 .. i - 1)
      OBVIOUS
    <3>3. QED
      BY <3>1, <3>2
  <2>2. QED
    BY <2>1
<1>3. Gives(own, 1 .. n, Nat)
  <2>1. \A i \in 1 .. n : <<i>> \in Seq(Nat) /\ <<>> \in Seq(Nat)
    BY <1>1
  <2>2. QED
    BY <2>1 DEF Gives
<1>4. PICK F \in [1 .. n -> Seq(Nat)] : \A i \in 1 .. n : F[i] = own[i] \o Each(F, parts[i])
  <2>1. Downward(n, parts)
    BY <1>2 DEF Downward
  <2> HIDE DEF n, own, parts
  <2>2. \E F : Gathered(n, own, parts, F)
    BY <1>1, <1>3, <2>1, Gathering, Zenon
  <2>3. QED
    BY <2>2 DEF Gathered
<1>5. ASSUME NEW i \in 1 .. n PROVE F[i] = StatementCode(h, F, i)
  <2>1. F[i] \in Seq(Nat) /\ F[i] = Own(i) \o Each(F, Inner(i))
    BY <1>2, <1>4
  <2>2. CASE h[i].kind = "BLOCK"
    <3> DEFINE e == Each(F, h[i].body)
    <3>1. F[i] = <<>> \o e
      BY <2>1, <2>2 DEF Shown
    <3>2. e \in Seq(Nat)
      <4> DEFINE D == 1 .. n
                 b == h[i].body
      <4>1. b \in Seq(1 .. i - 1)
        BY DEF Forest, Placed
      <4>5. 1 .. i - 1 \subseteq D
        BY <1>1
      <4>2. Gives(F, D, Nat)
        BY DEF Gives
      <4> HIDE DEF D, b
      <4>3. b \in Seq(D)
        BY <4>1, <4>5, SeqMonotonic
      <4>4. Each(F, b) \in Seq(Nat)
        BY <4>2, <4>3, EachTyped
      <4>6. QED
        BY <4>4 DEF b
    <3>3. StatementCode(h, F, i) = e
      BY <2>2 DEF StatementCode, Branching
    <3> HIDE DEF e
    <3>4. <<>> \o e = e
      BY <3>2, ConcatEmptySeq
    <3>5. QED
      BY <3>1, <3>3, <3>4
  <2>3. CASE h[i].kind \in Branching
    <3>1. F[i] = <<>> \o Each(F, <<>>)
      BY <2>1, <2>3 DEF Shown, Branching
    <3>2. StatementCode(h, F, i) = <<>>
      BY <2>3 DEF StatementCode, Branching
    <3>3. Each(F, <<>>) = <<>> /\ <<>> \o <<>> = <<>>
      BY EachEmpty
    <3>4. QED
      BY <3>1, <3>2, <3>3
  <2>4. CASE Shown(h, i)
    <3>1. F[i] = <<i>> \o Each(F, <<>>)
      BY <2>1, <2>4 DEF Shown
    <3>2. StatementCode(h, F, i) = <<i>>
      BY <2>4 DEF StatementCode, Shown
    <3>3. Each(F, <<>>) = <<>> /\ <<i>> \o <<>> = <<i>>
      BY EachEmpty
    <3>4. QED
      BY <3>1, <3>2, <3>3
  <2>5. QED
    BY <2>2, <2>3, <2>4 DEF Shown
<1>6. Eq(F)
  <2>1. F = [i \in 1 .. n |-> F[i]]
    OBVIOUS
  <2> HIDE DEF n
  <2>2. QED
    BY <1>5, <2>1
<1> DEFINE w == stmt_codegen(h)
<1>7. Eq(w)
  <2>1. w = CHOOSE code : Eq(code)
    BY DEF stmt_codegen
  <2> HIDE DEF w, Eq
  <2>2. QED
    BY <1>6, <2>1
<1> HIDE DEF w
<1>8. w = F
  <2>1. w = [i \in 1 .. n |-> w[i]] /\ F = [i \in 1 .. n |-> F[i]]
    BY <1>7
  <2>2. ASSUME NEW i \in 1 .. n, \A j \in 1 .. i - 1 : w[j] = F[j] PROVE w[i] = F[i]
    <3> DEFINE l == h[i].body
    <3>1. l \in Seq(1 .. i - 1)
      BY DEF Forest, Placed
    <3>2. w[i] = StatementCode(h, w, i) /\ F[i] = StatementCode(h, F, i)
      BY <1>5, <1>7
    <3>3. Each(w, l) = Each(F, l)
      <4> HIDE DEF l, n, Eq
      <4>1. \A k \in DOMAIN l : w[l[k]] = F[l[k]]
        BY <2>2, <3>1
      <4>2. [k \in DOMAIN l |-> w[l[k]]] = [k \in DOMAIN l |-> F[l[k]]]
        BY <4>1
      <4>3. QED
        BY <4>2 DEF Each
    <3>4. StatementCode(h, w, i) = StatementCode(h, F, i)
      BY <3>3 DEF StatementCode
    <3>5. QED
      BY <3>2, <3>4
  <2> HIDE DEF n
  <2>3. Together(n, w, F)
    BY <2>1, <2>2 DEF Together
  <2>4. QED
    BY <1>1, <2>3, SameFunctions
<1>9. \A i \in 1 .. n : F[i] = Own(i) \o Each(F, Inner(i))
  BY <1>2, <1>4
<1>10. QED
  BY <1>8, <1>9 DEF w

-----------------------------------------------------------------------------
(* What the passes visit.                                                  *)

\* Where a walk does not enter.
Closed(h, pass) == {j \in 1 .. Len(h) : pass = "resolve" /\ h[j].refused}

\* A pass meets, of what is written in a statement, all that no refused declaration encloses,
\* and in the order it is written.
LEMMA WalkGathers ==
  ASSUME NEW h, NEW t, Forest(h, t), NEW pass, NEW m \in 1 .. Len(h)
  PROVE  Gathers(t, Walk(h, pass), Closed(h, pass), Nat, m)
<1> DEFINE n == Len(h)
           F == Walk(h, pass)
           Bad == Closed(h, pass)
<1>1. F \in [1 .. n -> Seq(Nat)] /\ \A i \in 1 .. n : F[i] = <<i>> \o Each(F, Parts(pass, h[i]))
  BY WalkUnfold
<1>2. Gives(F, 1 .. n, Nat) /\ n \in Nat
  BY <1>1, ForestFacts DEF Gives
<1>3. ASSUME NEW i \in 1 .. n
      PROVE  Only(F[i], Nat) = Only(<<i>>, Nat) \o
                               (IF i \in Bad THEN <<>> ELSE Only(Each(F, Kids(h, i)), Nat))
  <2> DEFINE one == <<i>>
             e == Each(F, Kids(h, i))
  <2>1. one \in Seq(Nat)
    BY <1>2
  <2>2. CASE i \in Bad
    <3>1. F[i] = one \o Each(F, <<>>)
      BY <1>1, <2>2 DEF Parts, Closed
    <3>2. Each(F, <<>>) = <<>> /\ one \o <<>> = one
      BY EachEmpty
    <3>3. F[i] = one
      BY <3>1, <3>2
    <3> HIDE DEF F, one
    <3>4. Only(one, Nat) \in Seq(Nat)
      BY <2>1, OnlyTyped
    <3>5. Only(one, Nat) \o <<>> = Only(one, Nat)
      BY <3>4, ConcatEmptySeq
    <3>6. QED
      BY <2>2, <3>3, <3>5 DEF one
  <2>3. CASE i \notin Bad
    <3>1. F[i] = one \o e
      BY <1>1, <2>3 DEF Parts, Closed, Kids
    <3>2. e \in Seq(Nat)
      <4> DEFINE D == 1 .. n
                 l == Kids(h, i)
      <4>1. l \in Seq(D) /\ Gives(F, D, Nat)
        BY <1>2, ForestFacts
      <4> HIDE DEF l, D, F
      <4>2. Each(F, l) \in Seq(Nat)
        BY <4>1, EachTyped
      <4>3. QED
        BY <4>2 DEF l
    <3> HIDE DEF F, one, e, Bad
    <3>3. Only(one \o e, Nat) = Only(one, Nat) \o Only(e, Nat)
      BY <2>1, <3>2, OnlyConcat
    <3>4. QED
      BY <2>3, <3>1, <3>3 DEF one, e
  <2>4. QED
    BY <2>2, <2>3
<1>4. QED
  <2> HIDE DEF F, Bad
  <2>1. Gathers(t, F, Bad, Nat, m)
    BY <1>2, <1>3, GathersNode
  <2>2. QED
    BY <2>1 DEF F, Bad

\* The text of a complete list has every node in it.
LEMMA CompleteText ==
  ASSUME NEW h, NEW t, Forest(h, t), NEW list, Complete(h, t, list)
  PROVE  /\ Each(t, list) \in Seq(Nat)
         /\ Range(Each(t, list)) = 1 .. Len(h)
         /\ Each(t, list) \in Seq(1 .. Len(h))
<1> DEFINE D == 1 .. Len(h)
           s == Each(t, list)
<1>1. Gives(t, D, Nat) /\ list \in Seq(D) /\ Len(h) \in Nat
  BY ForestFacts DEF Complete
<1>2. D \subseteq Range(s)
  BY DEF Complete
<1>3. \A c \in D : \A x \in Range(t[c]) : x \in D
  BY TextWithin
<1> HIDE DEF D
<1>4. \A c \in Range(list) : c \in D
  BY <1>1, RangeOfSeq
<1>5. s \in Seq(Nat) /\ \A x : x \in Range(s) <=> \E c \in Range(list) : x \in Range(t[c])
  BY <1>1, EachTyped, EachRange
<1>6. Range(s) = D
  BY <1>2, <1>3, <1>4, <1>5
<1> HIDE DEF s
<1>7. s \in Seq(D)
  BY <1>5, <1>6, SeqOfRange
<1>8. QED
  BY <1>5, <1>6, <1>7 DEF D, s

\* The nodes that are inside no refused declaration.
Reachable(h, t) ==
  {i \in DOMAIN h : \A j \in DOMAIN h \ {i} : h[j].refused => i \notin Range(t[j])}

\* A pass visits the nodes in the order of the source, except that resolution
\* leaves out what is inside refused declarations.
LEMMA WalkedList ==
  ASSUME NEW h, NEW t, Forest(h, t), NEW list, Complete(h, t, list), NEW pass
  PROVE  Each(Walk(h, pass), list)
         = IF pass = "resolve" THEN Only(Each(t, list), Reachable(h, t)) ELSE Each(t, list)
<1> DEFINE D == 1 .. Len(h)
           F == Walk(h, pass)
           Bad == Closed(h, pass)
           s == Each(t, list)
           w == Each(F, list)
           O == Outside(t, Range(s), Bad, Nat)
<1>1. list \in Seq(D) /\ Apart(t, list)
  BY DEF Complete
<1>2. Gives(F, D, Nat)
  BY WalkUnfold DEF Gives
<1>3. GathersAll(t, F, Bad, Nat, list)
  <2>1. \A c \in Range(list) : c \in D
    <3> HIDE DEF D
    <3>1. QED
      BY <1>1, RangeOfSeq
  <2>2. QED
    BY <2>1, WalkGathers DEF GathersAll
<1>4. Only(w, Nat) = Only(s, O)
  <2> HIDE DEF F, Bad
  <2>1. QED
    BY <1>1, <1>2, <1>3, GathersList
<1>5. w \in Seq(Nat)
  <2> HIDE DEF F, D
  <2>1. QED
    BY <1>1, <1>2, EachTyped
<1>6. s \in Seq(Nat) /\ Range(s) = D
  BY CompleteText
<1>7. DOMAIN h = D /\ Len(h) \in Nat
  BY DEF Forest, Placed
<1>8. Only(w, Nat) = w
  <2> HIDE DEF w
  <2>1. Range(w) \subseteq Nat
    BY <1>5, RangeOfSeq
  <2>2. QED
    BY <1>5, <2>1, OnlyAll
<1>9. CASE pass = "resolve"
  <2> DEFINE R == Reachable(h, t)
  <2>1. \A x \in Range(s) : x \in O <=> x \in R
    <3>1. ASSUME NEW x \in D PROVE x \in O <=> x \in R
      <4>1. Above(t, Range(s), x) = {j \in D \ {x} : x \in Range(t[j])}
        BY <1>6 DEF Above
      <4>2. Bad = {j \in D : h[j].refused}
        BY <1>9 DEF Closed
      <4>3. x \in Nat
        BY <1>7
      <4>4. x \in O <=> \A j \in D \ {x} : h[j].refused => x \notin Range(t[j])
        BY <4>1, <4>2, <4>3 DEF Outside
      <4>5. QED
        BY <1>7, <4>4 DEF Reachable
    <3>2. QED
      BY <1>6, <3>1
  <2> HIDE DEF s, O, R
  <2>2. Only(s, O) = Only(s, R)
    BY <1>6, <2>1, OnlySame
  <2>3. w = Only(s, R)
    BY <1>4, <1>8, <2>2
  <2>4. QED
    BY <1>9, <2>3 DEF s, R
<1>10. CASE pass # "resolve"
  <2>1. Range(s) \subseteq O
    <3>1. Bad = {}
      BY <1>10 DEF Closed
    <3>2. QED
      BY <1>6, <1>7, <3>1 DEF Outside
  <2> HIDE DEF s, O
  <2>2. Only(s, O) = s
    BY <1>6, <2>1, OnlyAll
  <2>3. QED
    BY <1>4, <1>8, <1>10, <2>2 DEF s
<1>11. QED
  BY <1>9, <1>10

-----------------------------------------------------------------------------
(* What is generated.                                                      *)

\* The statements code is generated for, and those it stops at.
OfInterest(h) == {i \in 1 .. Len(h) : h[i].kind \in Generated}
Passed(h) == {i \in 1 .. Len(h) : h[i].kind \in Branching \cup {"FUNCTION"}}

\* A node without parts is made of itself.
LEMMA LeafText ==
  ASSUME NEW h, NEW t, Forest(h, t), NEW i \in 1 .. Len(h), Kids(h, i) = <<>>
  PROVE  t[i] = <<i>> /\ Range(t[i]) = {i}
<1>1. t[i] = <<i>> \o Each(t, <<>>)
  BY DEF Forest, Placed
<1>2. Each(t, <<>>) = <<>> /\ <<i>> \o <<>> = <<i>>
  BY EachEmpty
<1>3. t[i] = <<i>>
  BY <1>1, <1>2
<1>4. Range(<<i>>) = {i}
  BY DEF Range
<1>5. QED
  BY <1>3, <1>4

\* The parts of each kind of node.
LEMMA KidsOf ==
  ASSUME NEW h, NEW t, Forest(h, t), Shaped(h), NEW i \in 1 .. Len(h)
  PROVE  /\ h[i].kind \in Kinds /\ h[i].refused \in BOOLEAN
         /\ Plainly(h, i) => Kids(h, i) = <<>>
         /\ h[i].kind \in {"BLOCK", "FUNCTION"} => Kids(h, i) = h[i].body
<1>1. h[i] \in Nodes
  BY DEF Forest, Placed
<1>2. h[i].body \in Seq(Nat)
  BY <1>1 DEF Nodes
<1>3. Plainly(h, i) => Kids(h, i) = <<>>
  <2>1. Plainly(h, i) => h[i].body = <<>> /\ h[i].else_body = <<>>
    BY DEF Plainly, Shaped, Formed
  <2>2. <<>> \o <<>> = <<>>
    OBVIOUS
  <2>3. QED
    BY <2>1, <2>2 DEF Kids
<1>4. h[i].kind \in {"BLOCK", "FUNCTION"} => Kids(h, i) = h[i].body
  <2>1. h[i].kind \in {"BLOCK", "FUNCTION"} => h[i].else_body = <<>>
    BY DEF Shaped, Formed, Branching
  <2> DEFINE b == h[i].body
  <2>2. b \in Seq(Nat)
    BY <1>2
  <2> HIDE DEF b
  <2>3. b \o <<>> = b
    BY <2>2, ConcatEmptySeq
  <2>4. QED
    BY <2>1, <2>3 DEF Kids, b
<1>5. QED
  BY <1>1, <1>3, <1>4 DEF Nodes

\* Generation of a statement gathers what is in no branch and no function.
LEMMA CodeGathers ==
  ASSUME NEW h, NEW t, Forest(h, t), Shaped(h), NEW m \in 1 .. Len(h)
  PROVE  Gathers(t, stmt_codegen(h), Passed(h), OfInterest(h), m)
<1> DEFINE n == Len(h)
           F == stmt_codegen(h)
           Bad == Passed(h)
           K == OfInterest(h)
<1>1. /\ F \in [1 .. n -> Seq(Nat)]
      /\ \A i \in 1 .. n :
           F[i] = (IF Shown(h, i) THEN <<i>> ELSE <<>>)
                  \o Each(F, IF h[i].kind = "BLOCK" THEN h[i].body ELSE <<>>)
  BY CodeUnfold
<1>2. Gives(F, 1 .. n, Nat) /\ n \in Nat
  BY <1>1, ForestFacts DEF Gives
<1>3. ASSUME NEW i \in 1 .. n
      PROVE  Only(F[i], K) = Only(<<i>>, K) \o
                             (IF i \in Bad THEN <<>> ELSE Only(Each(F, Kids(h, i)), K))
  <2> DEFINE one == <<i>>
             e == Each(F, Kids(h, i))
  <2>1. one \in Seq(Nat) /\ Only(<<>>, K) = <<>> /\ Each(F, <<>>) = <<>>
    BY <1>2, OnlyEmpty, EachEmpty
  <2>2. Only(one, K) = IF i \in K THEN one ELSE <<>>
    <3>1. i \in Nat
      BY <1>2
    <3> HIDE DEF K
    <3>2. QED
      BY <3>1, OnlyOne
  <2>3. Only(one, K) \in Seq(Nat)
    <3> HIDE DEF one, K
    <3>1. QED
      BY <2>1, OnlyTyped
  <2>4. CASE Plainly(h, i)
    <3>1. F[i] = one \o Each(F, <<>>)
      BY <1>1, <2>4 DEF Plainly, Shown
    <3>2. one \o <<>> = one
      OBVIOUS
    <3>3. F[i] = one
      BY <2>1, <3>1, <3>2
    <3>4. i \notin Bad /\ Kids(h, i) = <<>>
      BY <2>4, KidsOf DEF Plainly, Passed
    <3>5. Only(e, K) = <<>>
      BY <2>1, <3>4
    <3>6. Only(one, K) \o <<>> = Only(one, K)
      BY <2>3, ConcatEmptySeq
    <3>7. QED
      BY <3>3, <3>4, <3>5, <3>6
  <2>5. CASE h[i].kind \in Branching
    <3>1. F[i] = <<>> \o Each(F, <<>>)
      BY <1>1, <2>5 DEF Shown, Branching
    <3>2. <<>> \o <<>> = <<>>
      OBVIOUS
    <3>3. F[i] = <<>>
      BY <2>1, <3>1, <3>2
    <3>4. i \in Bad /\ i \notin K
      BY <2>5 DEF Passed, OfInterest, Generated, Branching
    <3>5. QED
      BY <2>1, <2>2, <3>2, <3>3, <3>4
  <2>6. CASE h[i].kind = "BLOCK"
    <3>1. F[i] = <<>> \o Each(F, h[i].body)
      BY <1>1, <2>6 DEF Shown
    <3>2. Kids(h, i) = h[i].body
      BY <2>6, KidsOf
    <3>3. e \in Seq(Nat)
      <4> DEFINE D == 1 .. n
                 l == Kids(h, i)
      <4>1. l \in Seq(D) /\ Gives(F, D, Nat)
        BY <1>2, ForestFacts
      <4> HIDE DEF l, D, F
      <4>2. Each(F, l) \in Seq(Nat)
        BY <4>1, EachTyped
      <4>3. QED
        BY <4>2 DEF l
    <3>4. i \notin Bad /\ i \notin K
      BY <2>6 DEF Passed, OfInterest, Generated, Branching
    <3>5. F[i] = <<>> \o e
      BY <3>1, <3>2
    <3> HIDE DEF e, F, K
    <3>6. <<>> \o e = e
      BY <3>3, ConcatEmptySeq
    <3>7. Only(e, K) \in Seq(Nat)
      BY <3>3, OnlyTyped
    <3>8. <<>> \o Only(e, K) = Only(e, K)
      BY <3>7, ConcatEmptySeq
    <3>9. QED
      BY <2>2, <3>4, <3>5, <3>6, <3>8 DEF e
  <2>7. CASE h[i].kind = "FUNCTION"
    <3>1. F[i] = one \o Each(F, <<>>)
      BY <1>1, <2>7 DEF Shown, Branching
    <3>2. one \o <<>> = one /\ <<>> \o <<>> = <<>>
      OBVIOUS
    <3>3. F[i] = one
      BY <2>1, <3>1, <3>2
    <3>4. i \in Bad /\ i \notin K
      BY <2>7 DEF Passed, OfInterest, Generated
    <3>5. QED
      BY <2>2, <3>2, <3>3, <3>4
  <2>8. QED
    BY <2>4, <2>5, <2>6, <2>7 DEF Plainly
<1>4. QED
  <2> HIDE DEF F, Bad, K
  <2>1. Gathers(t, F, Bad, K, m)
    BY <1>2, <1>3, GathersNode
  <2>2. QED
    BY <2>1 DEF F, Bad, K

\* The least of a set of numbers.
LEMMA MinFacts ==
  ASSUME NEW S \in SUBSET Nat, S # {}
  PROVE  Min(S) \in S /\ \A x \in S : Min(S) <= x
<1>1. \E d \in S : \A c \in S : ~(c < d)
  BY Least
<1>2. \E d \in S : \A c \in S : d <= c
  BY <1>1
<1>3. QED
  BY <1>2 DEF Min

\* Every node before the one FirstOf finds is of another kind.
LEMMA FirstFacts ==
  ASSUME NEW h, NEW kind, NEW list \in Seq(Nat)
  PROVE  /\ FirstOf(h, kind, list) \in 1 .. Len(list) + 1
         /\ \A k \in 1 .. Len(list) : k < FirstOf(h, kind, list) => h[list[k]].kind # kind
         /\ FirstOf(h, kind, list) <= Len(list) => h[list[FirstOf(h, kind, list)]].kind = kind
<1> DEFINE S == {k \in DOMAIN list : h[list[k]].kind = kind} \cup {Len(list) + 1}
           f == FirstOf(h, kind, list)
<1>1. Len(list) \in Nat /\ DOMAIN list = 1 .. Len(list)
  OBVIOUS
<1>2. S \in SUBSET Nat /\ S # {} /\ S \subseteq 1 .. Len(list) + 1
  BY <1>1
<1>3. f = Min(S)
  BY DEF FirstOf
<1>4. f \in S /\ \A x \in S : f <= x
  <2> HIDE DEF S, f
  <2>1. QED
    BY <1>2, <1>3, MinFacts
<1> HIDE DEF f
<1>5. f \in 1 .. Len(list) + 1
  BY <1>2, <1>4
<1>6. ASSUME NEW k \in 1 .. Len(list), k < f PROVE h[list[k]].kind # kind
  BY <1>1, <1>4, <1>5, <1>6
<1>7. f <= Len(list) => h[list[f]].kind = kind
  BY <1>1, <1>4
<1>8. QED
  BY <1>5, <1>6, <1>7 DEF f

\* Nothing of a body that the parser can make is left out of its block.
LEMMA BlockOfChain ==
  ASSUME NEW h, NEW list \in Seq(Nat), Chain(h, list)
  PROVE  BlockOf(h, list) = list
<1> DEFINE f == FirstOf(h, "RETURN", list)
           S == {f, Len(list)}
<1>1. /\ f \in 1 .. Len(list) + 1
      /\ f <= Len(list) => h[list[f]].kind = "RETURN"
  BY FirstFacts
<1> HIDE DEF f
<1>2. Len(list) \in Nat \ {0} /\ DOMAIN list = 1 .. Len(list)
  BY EmptySeq DEF Chain
<1>3. f >= Len(list)
  <2>1. CASE Len(list) = 1
    BY <1>1, <1>2, <2>1
  <2>2. CASE \A k \in DOMAIN list : h[list[k]].kind = "PRINT"
    BY <1>1, <1>2, <2>2
  <2>3. QED
    BY <2>1, <2>2 DEF Chain
<1>4. Min(S) = Len(list)
  <2>1. S \in SUBSET Nat /\ S # {}
    BY <1>1, <1>2
  <2>2. Min(S) \in S /\ \A x \in S : Min(S) <= x
    <3> HIDE DEF S
    <3>1. QED
      BY <2>1, MinFacts
  <2>3. QED
    BY <1>1, <1>2, <1>3, <2>2
<1>5. BlockOf(h, list) = SubSeq(list, 1, Len(list))
  BY <1>4 DEF BlockOf, f
<1>6. QED
  BY <1>5, SubSeqFull

\* What is left of the pieces is put together.
LEMMA OnlyParts ==
  ASSUME NEW S, NEW F, Gives(F, S, Nat), NEW t, Gives(t, S, Nat), NEW l \in Seq(S),
         NEW K, NEW G, \A c \in Range(l) : Only(F[c], K) = Only(t[c], G)
  PROVE  Only(Each(F, l), K) = Only(Each(t, l), G)
<1> DEFINE f == [c \in S |-> Only(F[c], K)]
           g == [c \in S |-> Only(t[c], G)]
<1>1. \A c \in Range(l) : c \in S
  BY RangeOfSeq
<1>2. \A c \in Range(l) : f[c] = g[c]
  BY <1>1
<1>3. /\ \A c \in S : f[c] = Only(F[c], K)
      /\ \A c \in S : g[c] = Only(t[c], G)
  OBVIOUS
<1> HIDE DEF f, g
<1>4. Each(f, l) = Each(g, l)
  BY <1>2, EachSame
<1>5. Only(Each(F, l), K) = Each(f, l)
  BY <1>3, OnlyEach
<1>6. Only(Each(t, l), G) = Each(g, l)
  BY <1>3, OnlyEach
<1>7. QED
  BY <1>4, <1>5, <1>6

\* What the graphs are to give for the nodes of S: what is of interest, in no
\* branch, and in one function at most.
Target(h, t, S) ==
  {x \in OfInterest(h) :
     /\ \A j \in Above(t, S, x) : h[j].kind \notin Branching
     /\ \A j, k \in Above(t, S, x) : h[j].kind = "FUNCTION" /\ h[k].kind = "FUNCTION" => j = k}

\* A declaration's graph gives that.
LEMMA GraphGathers ==
  ASSUME NEW h, NEW t, Forest(h, t), Shaped(h),
         NEW d \in 1 .. Len(h), h[d].kind \in Declarations
  PROVE  /\ cfg_codegen(h)[d] \in Seq(Nat)
         /\ Only(cfg_codegen(h)[d], OfInterest(h)) = Only(t[d], Target(h, t, Range(t[d])))
<1> DEFINE n == Len(h)
           D == 1 .. n
           K == OfInterest(h)
           G == Target(h, t, Range(t[d]))
           one == <<d>>
           C == stmt_codegen(h)
           l == h[d].body
<1>1. DOMAIN h = D /\ n \in Nat /\ one \in Seq(Nat) /\ Range(one) = {d}
  BY ForestFacts DEF Forest, Placed, Range
<1>2. cfg_codegen(h)[d] = one \o (IF h[d].kind = "FUNCTION" THEN Each(C, BlockOf(h, l)) ELSE <<>>)
  BY <1>1 DEF cfg_codegen
<1>3. Above(t, Range(t[d]), d) = {}
  BY AboveSelf
<1>4. d \in G <=> d \in K
  BY <1>3 DEF Target
<1>5. CASE h[d].kind # "FUNCTION"
  <2>1. Plainly(h, d)
    BY <1>5 DEF Plainly, Declarations, Branching
  <2>2. Kids(h, d) = <<>>
    BY <2>1, KidsOf
  <2>3. t[d] = one
    BY <2>2, LeafText
  <2>4. Only(one, K) = Only(one, G)
    <3> HIDE DEF one, K, G
    <3>1. QED
      BY <1>1, <1>4, OnlySame
  <2>5. cfg_codegen(h)[d] = one
    <3>1. one \o <<>> = one
      OBVIOUS
    <3>2. QED
      BY <1>2, <1>5, <3>1
  <2>6. QED
    BY <1>1, <2>3, <2>4, <2>5
<1>6. CASE h[d].kind = "FUNCTION"
  <2> DEFINE e == Each(t, l)
             Bad == Passed(h)
  <2>1. Kids(h, d) = l
    BY <1>6, KidsOf
  <2>2. /\ l \in Seq(D) /\ \A c \in Range(l) : c \in 1 .. d - 1 /\ c \in D
    BY <2>1, ForestFacts
  <2>3. e \in Seq(Nat) /\ t[d] = one \o e
    BY <2>1, TextRange
  <2>4. BlockOf(h, l) = l
    <3>1. Chain(h, l)
      BY <1>6 DEF Shaped, Formed
    <3>2. D \subseteq Nat
      BY <1>1
    <3> HIDE DEF l, D
    <3>3. l \in Seq(Nat)
      BY <2>2, <3>2, SeqMonotonic
    <3>4. QED
      BY <3>1, <3>3, BlockOfChain
  <2>5. Gives(C, D, Nat)
    BY CodeUnfold DEF Gives
  <2>6. Each(C, l) \in Seq(Nat)
    <3> HIDE DEF C, D, l
    <3>1. QED
      BY <2>2, <2>5, EachTyped
  <2>7. GathersAll(t, C, Bad, K, l)
    BY <2>2, CodeGathers DEF GathersAll
  <2>8. Parted(t, Bad, K, G, l)
    <3>1. ASSUME NEW c \in Range(l), NEW x \in Range(t[c])
          PROVE  x \in G <=> x \in Outside(t, Range(t[c]), Bad, K)
      <4> DEFINE A == Above(t, Range(t[c]), x)
      <4>1. Above(t, Range(t[d]), x) = {d} \cup A
        <5>1. c \in Range(Kids(h, d))
          BY <2>1
        <5> HIDE DEF l
        <5>2. QED
          BY <5>1, AboveNode
      <4>2. A \subseteq D
        <5>1. \A y \in Range(t[c]) : y \in D
          BY <2>2, TextWithin
        <5>2. QED
          BY <5>1 DEF Above
      <4>3. d \notin A
        <5>1. \A y \in Range(t[c]) : y \in 1 .. c
          BY <2>2, TextWithin
        <5>2. d \notin Range(t[c])
          BY <1>1, <2>2, <5>1
        <5>3. QED
          BY <5>2 DEF Above
      <4>4. x \in Outside(t, Range(t[c]), Bad, K)
            <=> x \in K /\ \A j \in A : h[j].kind \notin Branching /\ h[j].kind # "FUNCTION"
        BY <4>2 DEF Outside, Passed
      <4>5. x \in G <=> /\ x \in K
                        /\ \A j \in {d} \cup A : h[j].kind \notin Branching
                        /\ \A j, k \in {d} \cup A :
                             h[j].kind = "FUNCTION" /\ h[k].kind = "FUNCTION" => j = k
        BY <4>1 DEF Target
      <4> HIDE DEF A, G, K
      <4>6. h[d].kind \notin Branching
        BY <1>6 DEF Branching
      <4>7. QED
        BY <1>6, <4>3, <4>4, <4>5, <4>6
    <3>2. QED
      BY <3>1 DEF Parted
  <2>9. Only(Each(C, l), K) = Only(e, G)
    <3> HIDE DEF C, l, G, K, Bad
    <3>1. QED
      BY <2>2, <2>5, <2>7, <2>8, GathersEach
  <2>10. Only(one, G) = <<>> /\ Only(one, K) = <<>>
    <3>1. d \notin K
      BY <1>6 DEF OfInterest, Generated
    <3>2. Range(one) \cap G = {} /\ Range(one) \cap K = {}
      BY <1>1, <1>4, <3>1
    <3> HIDE DEF one, G, K
    <3>3. QED
      BY <1>1, <3>2, OnlyNone
  <2>11. Only(t[d], G) = Only(e, G)
    <3> HIDE DEF one, e, G
    <3>1. Only(one \o e, G) = Only(one, G) \o Only(e, G)
      BY <1>1, <2>3, OnlyConcat
    <3>2. Only(e, G) \in Seq(Nat)
      BY <2>3, OnlyTyped
    <3>3. <<>> \o Only(e, G) = Only(e, G)
      BY <3>2, ConcatEmptySeq
    <3>4. QED
      BY <2>3, <2>10, <3>1, <3>3
  <2>12. /\ one \o Each(C, l) \in Seq(Nat)
         /\ Only(one \o Each(C, l), K) = Only(Each(C, l), K)
    <3> DEFINE r == Each(C, l)
    <3>1. r \in Seq(Nat)
      BY <2>6
    <3> HIDE DEF one, r, K
    <3>2. one \o r \in Seq(Nat) /\ Only(one \o r, K) = Only(one, K) \o Only(r, K)
      BY <1>1, <3>1, OnlyConcat, ConcatProperties
    <3>3. Only(r, K) \in Seq(Nat)
      BY <3>1, OnlyTyped
    <3>4. <<>> \o Only(r, K) = Only(r, K)
      BY <3>3, ConcatEmptySeq
    <3>5. QED
      BY <2>10, <3>2, <3>4 DEF r
  <2>13. cfg_codegen(h)[d] = one \o Each(C, l)
    BY <1>2, <1>6, <2>4
  <2>14. QED
    BY <2>9, <2>11, <2>12, <2>13
<1>7. QED
  BY <1>5, <1>6

\* The declarations for which there is a graph are some of the program's.
LEMMA GraphsOf ==
  ASSUME NEW h, NEW S, S \subseteq Nat, NEW list \in Seq(S)
  PROVE  /\ cfg_construct(h, list) \in Seq(S)
         /\ Range(cfg_construct(h, list)) \subseteq Range(list)
<1> DEFINE f == FirstOf(h, "PLAIN", list)
           n == Len(list)
           g == SubSeq(list, 1, f - 1)
<1>1. list \in Seq(Nat)
  BY SeqMonotonic
<1>2. f \in 1 .. n + 1
  BY <1>1, FirstFacts
<1>3. cfg_construct(h, list) = g
  BY DEF cfg_construct
<1>4. n \in Nat /\ DOMAIN list = 1 .. n /\ \A k \in 1 .. n : list[k] \in S
  OBVIOUS
<1> HIDE DEF f, n
<1>5. f - 1 \in 0 .. n
  BY <1>2, <1>4
<1>6. \A k \in 1 .. f - 1 : k \in 1 .. n /\ list[k] \in S
  BY <1>4, <1>5
<1>7. /\ g \in Seq(S) /\ Len(g) = IF 1 <= f - 1 THEN f - 1 - 1 + 1 ELSE 0
      /\ \A k \in 1 .. f - 1 - 1 + 1 : g[k] = list[1 + k - 1]
  <2>1. 1 \in Int /\ f - 1 \in Int
    BY <1>5
  <2> DEFINE b == f - 1
  <2> HIDE DEF b, g
  <2>2. g = SubSeq(list, 1, b) /\ b \in Int /\ \A k \in 1 .. b : list[k] \in S
    BY <1>6, <2>1 DEF b, g
  <2>3. /\ SubSeq(list, 1, b) \in Seq(S)
        /\ Len(SubSeq(list, 1, b)) = IF 1 <= b THEN b - 1 + 1 ELSE 0
        /\ \A k \in 1 .. b - 1 + 1 : SubSeq(list, 1, b)[k] = list[1 + k - 1]
    BY <2>2, SubSeqProperties
  <2>4. QED
    BY <2>2, <2>3 DEF b
<1> HIDE DEF g
<1>8. Len(g) = f - 1 /\ DOMAIN g = 1 .. f - 1 /\ \A k \in 1 .. f - 1 : g[k] = list[k]
  <2>1. Len(g) = f - 1 /\ DOMAIN g = 1 .. Len(g)
    BY <1>5, <1>7
  <2>2. \A k \in 1 .. f - 1 : k \in 1 .. f - 1 - 1 + 1 /\ 1 + k - 1 = k
    BY <1>5
  <2>3. QED
    BY <1>7, <2>1, <2>2
<1>9. Range(g) \subseteq Range(list)
  BY <1>4, <1>6, <1>8 DEF Range
<1>10. QED
  BY <1>3, <1>7, <1>9

\* What is reached of the graphs stands in the order of the source.
LEMMA GeneratedList ==
  ASSUME NEW h, NEW t, Forest(h, t), Shaped(h), NEW list, Complete(h, t, list),
         \A k \in DOMAIN list : h[list[k]].kind \in Declarations
  PROVE  LET graphs == cfg_construct(h, list)
         IN  /\ Each(cfg_codegen(h), graphs) \in Seq(Nat)
             /\ Each(t, graphs) \in Seq(Nat)
             /\ Range(Each(t, graphs)) \subseteq 1 .. Len(h)
             /\ Only(Each(cfg_codegen(h), graphs), OfInterest(h))
                = Only(Each(t, graphs), Target(h, t, 1 .. Len(h)))
<1> DEFINE n == Len(h)
           D == 1 .. n
           K == OfInterest(h)
           G == Target(h, t, D)
           F == cfg_codegen(h)
           Decls == {d \in D : h[d].kind \in Declarations}
           graphs == cfg_construct(h, list)
<1>1. list \in Seq(D) /\ Apart(t, list) /\ n \in Nat
  BY ForestFacts DEF Complete
<1>2. Gives(t, D, Nat)
  BY ForestFacts
<1>3. Gives(F, Decls, Nat)
  BY GraphGathers DEF Gives
<1>4. list \in Seq(Decls)
  <2> DEFINE m == Len(list)
  <2>1. DOMAIN list = 1 .. m /\ m \in Nat /\ \A k \in 1 .. m : list[k] \in D
    BY <1>1
  <2>2. \A k \in 1 .. m : list[k] \in Decls
    BY <2>1
  <2>3. list \in [1 .. m -> Decls]
    <3>1. list = [k \in 1 .. m |-> list[k]]
      BY <1>1
    <3> HIDE DEF Decls, m
    <3>2. QED
      BY <2>2, <3>1
  <2> HIDE DEF Decls, m
  <2>4. QED
    BY <2>1, <2>3, SeqDef
<1>5. graphs \in Seq(Decls) /\ Range(graphs) \subseteq Range(list)
  <2>1. Decls \subseteq Nat
    BY <1>1
  <2> HIDE DEF Decls
  <2>2. QED
    BY <1>4, <2>1, GraphsOf
<1> HIDE DEF graphs
<1>6. \A c \in Range(graphs) : c \in Decls /\ c \in Range(list)
  <2> HIDE DEF Decls
  <2>1. QED
    BY <1>5, RangeOfSeq
<1>7. ASSUME NEW c \in Range(graphs) PROVE Only(F[c], K) = Only(t[c], G)
  <2> DEFINE s == t[c]
             H == Target(h, t, Range(t[c]))
  <2>1. Only(F[c], K) = Only(s, H)
    BY <1>6, <1>7, GraphGathers
  <2>2. s \in Seq(Nat)
    BY <1>2, <1>6, <1>7 DEF Gives
  <2>3. ASSUME NEW x \in Range(s) PROVE x \in H <=> x \in G
    <3>1. Above(t, Range(Each(t, list)), x) = Above(t, Range(t[c]), x)
      BY <1>1, <1>6, <1>7, AboveList
    <3>2. Range(Each(t, list)) = D
      BY CompleteText
    <3>3. Above(t, D, x) = Above(t, Range(t[c]), x)
      BY <3>1, <3>2
    <3>4. QED
      BY <3>3 DEF Target
  <2> HIDE DEF s, H, G
  <2>4. Only(s, H) = Only(s, G)
    BY <2>2, <2>3, OnlySame
  <2>5. QED
    BY <2>1, <2>4 DEF s
<1>8. Gives(t, Decls, Nat)
  BY <1>2 DEF Gives
<1>9. Only(Each(F, graphs), K) = Only(Each(t, graphs), G)
  <2> HIDE DEF F, K, G, Decls
  <2>1. QED
    BY <1>3, <1>5, <1>7, <1>8, OnlyParts
<1>10. /\ Each(F, graphs) \in Seq(Nat) /\ Each(t, graphs) \in Seq(Nat)
       /\ \A x : x \in Range(Each(t, graphs)) <=> \E c \in Range(graphs) : x \in Range(t[c])
  <2> HIDE DEF F, Decls
  <2>1. QED
    BY <1>3, <1>5, <1>8, EachTyped, EachRange
<1>11. Range(Each(t, graphs)) \subseteq D
  <2>1. \A c \in Range(graphs) : \A x \in Range(t[c]) : x \in D
    BY <1>6, TextWithin
  <2>2. QED
    BY <1>10, <2>1
<1>12. QED
  BY <1>9, <1>10, <1>11 DEF graphs

-----------------------------------------------------------------------------
(* What the parser makes.                                                  *)

\* A list the parser makes is followed by the rest as a whole.
LEMMA LinkedChain ==
  ASSUME NEW h, NEW list \in Seq(Nat), Chain(h, list), NEW rest \in Seq(Nat)
  PROVE  Linked(h, list, rest) = list \o rest
<1>1. Len(list) \in Nat \ {0} /\ DOMAIN list = 1 .. Len(list)
  BY EmptySeq DEF Chain
<1>2. CASE h[list[1]].kind = "PRINT"
  BY <1>2 DEF Linked, stmt_print_pushback
<1>3. CASE h[list[1]].kind # "PRINT"
  <2>1. 1 \in DOMAIN list
    BY <1>1
  <2>2. Len(list) = 1
    BY <1>3, <2>1 DEF Chain
  <2>3. list = <<list[1]>>
    BY <2>2
  <2>4. Linked(h, list, rest) = <<list[1]>> \o rest
    BY <1>3 DEF Linked
  <2>5. QED
    BY <2>3, <2>4
<1>4. QED
  BY <1>2, <1>3

\* So the list made of several has all that they have.
LEMMA ListOfChains ==
  ASSUME NEW h, NEW lists \in Seq(Seq(Nat)), \A k \in DOMAIN lists : Chain(h, lists[k])
  PROVE  List(h, lists) = FlattenSeq(lists)
<1> DEFINE m == Len(lists)
           Rest(k) == SubSeq(lists, m - k + 1, m)
           F == [k \in 0 .. m |-> FlattenSeq(Rest(k))]
           Eq(f) == f = [k \in 0 .. m |->
                           IF k = 0 THEN <<>> ELSE Linked(h, lists[m - k + 1], f[k - 1])]
           w == CHOOSE list : Eq(list)
<1>1. m \in Nat /\ DOMAIN lists = 1 .. m
  OBVIOUS
<1>2. List(h, lists) = w[m]
  BY DEF List
<1>3. ASSUME NEW k \in 0 .. m PROVE Rest(k) \in Seq(Seq(Nat))
  <2>1. \A i \in m - k + 1 .. m : lists[i] \in Seq(Nat)
    BY <1>1
  <2>2. m - k + 1 \in Int /\ m \in Int
    BY <1>1
  <2> HIDE DEF m
  <2>3. QED
    BY <2>1, <2>2, SubSeqProperties
<1>4. F[0] = <<>>
  <2>1. Rest(0) = <<>>
    <3>1. m < m - 0 + 1 /\ m - 0 + 1 \in Int /\ m \in Int
      BY <1>1
    <3> HIDE DEF m
    <3>2. QED
      BY <3>1, SubSeqEmpty
  <2>2. 0 \in 0 .. m
    BY <1>1
  <2>3. QED
    BY <2>1, <2>2, FlattenEmpty
<1>5. ASSUME NEW k \in 1 .. m PROVE F[k] = Linked(h, lists[m - k + 1], F[k - 1])
  <2> DEFINE j == m - k + 1
             l == lists[j]
             one == <<l>>
  <2>1. j \in 1 .. m /\ m \in j .. m /\ m - (k - 1) + 1 = j + 1 /\ k - 1 \in 0 .. m /\ k \in 0 .. m
    BY <1>1
  <2>2. l \in Seq(Nat) /\ Chain(h, l)
    <3>1. j \in DOMAIN lists
      BY <1>1, <2>1
    <3> HIDE DEF j
    <3>2. QED
      BY <3>1
  <2>3. F[k] = FlattenSeq(SubSeq(lists, j, m)) /\ F[k - 1] = FlattenSeq(SubSeq(lists, j + 1, m))
    BY <2>1
  <2> DEFINE r == SubSeq(lists, j + 1, m)
  <2>4. SubSeq(lists, j, m) = one \o r
    <3> HIDE DEF j
    <3>1. QED
      BY <2>1, SubSeqRecursiveFirst
  <2>5. r \in Seq(Seq(Nat))
    <3>1. Rest(k - 1) = r
      BY <2>1
    <3>2. QED
      BY <1>3, <2>1, <3>1
  <2> HIDE DEF r, l, j
  <2>6. one \in Seq(Seq(Nat)) /\ FlattenSeq(one) = l
    BY <2>2, FlattenOne
  <2> HIDE DEF one, F
  <2>7. FlattenSeq(one \o r) = FlattenSeq(one) \o FlattenSeq(r)
    BY <2>5, <2>6, FlattenConcat
  <2>8. FlattenSeq(r) \in Seq(Nat)
    BY <2>5, FlattenTyped
  <2>9. Linked(h, l, FlattenSeq(r)) = l \o FlattenSeq(r)
    BY <2>2, <2>8, LinkedChain
  <2>10. QED
    BY <2>3, <2>4, <2>6, <2>7, <2>9 DEF r, l, j
<1>6. Eq(F)
  <2>1. \A k \in 0 .. m : F[k] = IF k = 0 THEN <<>> ELSE Linked(h, lists[m - k + 1], F[k - 1])
    <3> HIDE DEF F, m
    <3>1. QED
      BY <1>1, <1>4, <1>5
  <2>2. F = [k \in 0 .. m |-> F[k]]
    OBVIOUS
  <2> HIDE DEF F, m
  <2>3. QED
    BY <2>1, <2>2
<1>7. Eq(w)
  <2> HIDE DEF F, Eq
  <2>1. QED
    BY <1>6
<1> HIDE DEF w, F
<1>8. w[m] = F[m]
  <2> DEFINE P == {k \in 0 .. m : w[k] = F[k]}
  <2>1. ASSUME NEW k \in 0 .. m, \A j \in 0 .. k - 1 : j \in P PROVE k \in P
    <3>1. k # 0 => w[k - 1] = F[k - 1]
      BY <1>1, <2>1
    <3>2. QED
      BY <1>6, <1>7, <3>1
  <2>2. 0 .. m \subseteq P
    <3> HIDE DEF P, m
    <3>1. QED
      BY <1>1, <2>1, UpTo
  <2>3. m \in 0 .. m
    BY <1>1
  <2>4. QED
    BY <2>2, <2>3
<1>9. F[m] = FlattenSeq(lists)
  <2>1. m - m + 1 = 1 /\ m \in 0 .. m
    BY <1>1
  <2>2. SubSeq(lists, 1, m) = lists
    BY SubSeqFull
  <2>3. QED
    BY <2>1, <2>2 DEF F
<1>10. QED
  BY <1>2, <1>8, <1>9

\* Two lists together.
LEMMA ApartConcat ==
  ASSUME NEW t, NEW S, NEW l \in Seq(S), NEW m \in Seq(S)
  PROVE  Apart(t, l \o m) <=>
           /\ Apart(t, l) /\ Apart(t, m)
           /\ \A c \in Range(l), d \in Range(m) : Range(t[c]) \cap Range(t[d]) = {}
<1> DEFINE r == l \o m
           a == Len(l)
           b == Len(m)
<1>1. /\ a \in Nat /\ b \in Nat
      /\ DOMAIN l = 1 .. a /\ DOMAIN m = 1 .. b /\ DOMAIN r = 1 .. a + b
      /\ \A i \in 1 .. a : r[i] = l[i]
      /\ \A i \in 1 .. b : r[a + i] = m[i]
  <2>1. /\ r \in Seq(S) /\ Len(r) = a + b
        /\ \A i \in 1 .. a + b : r[i] = IF i <= a THEN l[i] ELSE m[i - a]
    BY ConcatProperties
  <2>2. a \in Nat /\ b \in Nat /\ DOMAIN l = 1 .. a /\ DOMAIN m = 1 .. b
    OBVIOUS
  <2> HIDE DEF r, a, b
  <2>3. DOMAIN r = 1 .. a + b
    BY <2>1, LenProperties
  <2>4. \A i \in 1 .. a : r[i] = l[i]
    BY <2>1, <2>2
  <2>5. ASSUME NEW i \in 1 .. b PROVE r[a + i] = m[i]
    <3>1. a + i \in 1 .. a + b /\ ~(a + i <= a) /\ (a + i) - a = i
      BY <2>2
    <3>2. QED
      BY <2>1, <3>1
  <2>6. QED
    BY <2>2, <2>3, <2>4, <2>5
<1> HIDE DEF r, a, b
<1>2. ASSUME Apart(t, r)
      PROVE  /\ Apart(t, l) /\ Apart(t, m)
             /\ \A c \in Range(l), d \in Range(m) : Range(t[c]) \cap Range(t[d]) = {}
  <2>1. ASSUME NEW i \in DOMAIN l, NEW j \in DOMAIN l, i # j
        PROVE  Range(t[l[i]]) \cap Range(t[l[j]]) = {}
    <3>1. i \in DOMAIN r /\ j \in DOMAIN r /\ r[i] = l[i] /\ r[j] = l[j]
      BY <1>1
    <3>2. Range(t[r[i]]) \cap Range(t[r[j]]) = {}
      BY <1>2, <2>1, <3>1 DEF Apart
    <3>3. QED
      BY <3>1, <3>2
  <2>2. ASSUME NEW i \in DOMAIN m, NEW j \in DOMAIN m, i # j
        PROVE  Range(t[m[i]]) \cap Range(t[m[j]]) = {}
    <3>1. a + i \in DOMAIN r /\ a + j \in DOMAIN r /\ a + i # a + j
      BY <1>1, <2>2
    <3>2. r[a + i] = m[i] /\ r[a + j] = m[j]
      BY <1>1
    <3>3. Range(t[r[a + i]]) \cap Range(t[r[a + j]]) = {}
      BY <1>2, <3>1 DEF Apart
    <3>4. QED
      BY <3>2, <3>3
  <2>3. ASSUME NEW i \in DOMAIN l, NEW j \in DOMAIN m
        PROVE  Range(t[l[i]]) \cap Range(t[m[j]]) = {}
    <3>1. i \in DOMAIN r /\ a + j \in DOMAIN r /\ i # a + j
      BY <1>1
    <3>2. r[i] = l[i] /\ r[a + j] = m[j]
      BY <1>1
    <3>3. Range(t[r[i]]) \cap Range(t[r[a + j]]) = {}
      BY <1>2, <3>1 DEF Apart
    <3>4. QED
      BY <3>2, <3>3
  <2>4. Apart(t, l)
    BY <2>1 DEF Apart
  <2>5. Apart(t, m)
    BY <2>2 DEF Apart
  <2>6. ASSUME NEW c \in Range(l), NEW d \in Range(m) PROVE Range(t[c]) \cap Range(t[d]) = {}
    <3>1. PICK i \in DOMAIN l : c = l[i]
      BY DEF Range
    <3>2. PICK j \in DOMAIN m : d = m[j]
      BY DEF Range
    <3>3. QED
      BY <2>3, <3>1, <3>2
  <2>7. QED
    BY <2>4, <2>5, <2>6
<1>3. ASSUME Apart(t, l), Apart(t, m),
             \A c \in Range(l), d \in Range(m) : Range(t[c]) \cap Range(t[d]) = {}
      PROVE  Apart(t, r)
  <2>1. ASSUME NEW i \in DOMAIN l, NEW j \in DOMAIN m
        PROVE  Range(t[l[i]]) \cap Range(t[m[j]]) = {}
    <3>1. l[i] \in Range(l) /\ m[j] \in Range(m)
      BY DEF Range
    <3>2. QED
      BY <1>3, <3>1
  <2>2. ASSUME NEW i \in DOMAIN r, NEW j \in DOMAIN r, i # j
        PROVE  Range(t[r[i]]) \cap Range(t[r[j]]) = {}
    <3>1. \A k \in DOMAIN r : \/ k \in DOMAIN l /\ r[k] = l[k]
                              \/ k - a \in DOMAIN m /\ r[k] = m[k - a]
      <4>1. ASSUME NEW k \in DOMAIN r, ~(k <= a)
            PROVE  k - a \in DOMAIN m /\ r[k] = m[k - a]
        <5>1. k - a \in 1 .. b /\ a + (k - a) = k
          BY <1>1, <4>1
        <5>2. QED
          BY <1>1, <5>1
      <4>2. QED
        BY <1>1, <4>1
    <3>2. CASE i \in DOMAIN l /\ r[i] = l[i] /\ j \in DOMAIN l /\ r[j] = l[j]
      BY <1>3, <2>2, <3>2 DEF Apart
    <3>3. CASE i \in DOMAIN l /\ r[i] = l[i] /\ j - a \in DOMAIN m /\ r[j] = m[j - a]
      BY <2>1, <3>3
    <3>4. CASE i - a \in DOMAIN m /\ r[i] = m[i - a] /\ j \in DOMAIN l /\ r[j] = l[j]
      BY <2>1, <3>4
    <3>5. CASE i - a \in DOMAIN m /\ r[i] = m[i - a] /\ j - a \in DOMAIN m /\ r[j] = m[j - a]
      <4>1. i - a # j - a
        BY <1>1, <2>2
      <4>2. QED
        BY <1>3, <3>5, <4>1 DEF Apart
    <3>6. QED
      BY <3>1, <3>2, <3>3, <3>4, <3>5
  <2>3. QED
    BY <2>2 DEF Apart
<1>4. QED
  BY <1>2, <1>3 DEF r

-----------------------------------------------------------------------------
(* Trees that grow.                                                        *)

\* Nodes are added to those there are.
Grown(h, t, h2, t2) ==
  /\ h2 \in Seq(Nodes) /\ t2 \in Seq(Seq(Nat)) /\ Len(t2) = Len(h2) /\ Len(h) <= Len(h2)
  /\ \A i \in 1 .. Len(h) : h2[i] = h[i] /\ t2[i] = t[i]

\* What was there stays as it was.
LEMMA GrownList ==
  ASSUME NEW h, NEW t, Forest(h, t), NEW h2, NEW t2, Grown(h, t, h2, t2),
         NEW l \in Seq(1 .. Len(h))
  PROVE  /\ l \in Seq(1 .. Len(h2))
         /\ Each(t2, l) = Each(t, l)
         /\ Apart(t, l) => Apart(t2, l)
         /\ Chain(h, l) => Chain(h2, l)
<1> DEFINE D == 1 .. Len(h)
<1>1. \A k \in DOMAIN l : l[k] \in D
  OBVIOUS
<1>2. \A i \in D : h2[i] = h[i] /\ t2[i] = t[i]
  BY DEF Grown
<1>3. \A c \in Range(l) : t2[c] = t[c]
  BY <1>1, <1>2 DEF Range
<1>4. Each(t2, l) = Each(t, l)
  BY <1>3, EachSame
<1>5. Apart(t, l) => Apart(t2, l)
  BY <1>1, <1>2 DEF Apart
<1>6. Chain(h, l) => Chain(h2, l)
  BY <1>1, <1>2 DEF Chain
<1>7. l \in Seq(1 .. Len(h2))
  <2>1. D \subseteq 1 .. Len(h2)
    <3>1. Len(h) \in Nat /\ Len(h2) \in Nat /\ Len(h) <= Len(h2)
      BY ForestFacts DEF Grown
    <3>2. QED
      BY <3>1
  <2> HIDE DEF D
  <2>2. l \in Seq(D)
    BY DEF D
  <2>3. QED
    BY <2>1, <2>2, SeqMonotonic
<1>8. QED
  BY <1>4, <1>5, <1>6, <1>7

\* Statements added to a forest leave it one, when the new ones are placed and formed as its own.
LEMMA GrownForest ==
  ASSUME NEW h, NEW t, Forest(h, t), Shaped(h), NEW h2, NEW t2, Grown(h, t, h2, t2),
         \A i \in Len(h) + 1 .. Len(h2) : Placed(h2, t2, i) /\ Formed(h2, i)
  PROVE  Forest(h2, t2) /\ Shaped(h2)
<1>1. Len(h) \in Nat /\ Len(h2) \in Nat /\ Len(h) <= Len(h2)
  BY ForestFacts DEF Grown
<1>2. ASSUME NEW i \in 1 .. Len(h) PROVE Placed(h2, t2, i) /\ Formed(h2, i)
  <2> DEFINE l == Kids(h, i)
             b == h[i].body
  <2>1. h2[i] = h[i] /\ t2[i] = t[i]
    BY DEF Grown
  <2>2. Placed(h, t, i) /\ Formed(h, i)
    BY DEF Forest, Shaped
  <2>3. l \in Seq(1 .. Len(h))
    BY ForestFacts
  <2>4. Each(t2, l) = Each(t, l) /\ (Apart(t, l) => Apart(t2, l))
    <3> HIDE DEF l
    <3>1. QED
      BY <2>3, GrownList
  <2>5. Kids(h2, i) = l
    BY <2>1 DEF Kids
  <2>6. b \in Seq(1 .. Len(h))
    <3> DEFINE C == 1 .. i - 1
               D == 1 .. Len(h)
    <3>1. b \in Seq(C) /\ C \subseteq D
      BY <1>1, <2>2 DEF Placed
    <3> HIDE DEF b, C, D
    <3>2. b \in Seq(D)
      BY <3>1, SeqMonotonic
    <3>3. QED
      BY <3>2 DEF D
  <2>7. Chain(h, b) => Chain(h2, b)
    <3> HIDE DEF b
    <3>1. QED
      BY <2>6, GrownList
  <2>8. Placed(h2, t2, i)
    BY <2>1, <2>2, <2>4, <2>5 DEF Placed
  <2>9. Formed(h2, i)
    BY <2>1, <2>2, <2>7 DEF Formed
  <2>10. QED
    BY <2>8, <2>9
<1>3. \A i \in 1 .. Len(h2) : i \in 1 .. Len(h) \/ i \in Len(h) + 1 .. Len(h2)
  BY <1>1
<1>4. \A i \in 1 .. Len(h2) : Placed(h2, t2, i) /\ Formed(h2, i)
  BY <1>2, <1>3
<1>5. QED
  BY <1>4 DEF Forest, Shaped, Grown

\* A node that is made of the last of a complete list stands in their place.
LEMMA Reduced ==
  ASSUME NEW h, NEW t, Forest(h, t), Shaped(h), NEW s \in Nodes,
         NEW l \in Seq(1 .. Len(h)), NEW m \in Seq(1 .. Len(h)), Complete(h, t, l \o m),
         s.body \in Seq(1 .. Len(h)), s.else_body \in Seq(1 .. Len(h)),
         s.body \o s.else_body = m,
         Formed(Append(h, s), Len(h) + 1)
  PROVE  LET h2 == Append(h, s)
             t2 == Append(t, <<Len(h) + 1>> \o Each(t, m))
         IN  /\ Grown(h, t, h2, t2) /\ Forest(h2, t2) /\ Shaped(h2)
             /\ Complete(h2, t2, l \o <<Len(h) + 1>>)
<1> DEFINE n == Len(h)
           new == n + 1
           D == 1 .. n
           one == <<new>>
           el == Each(t, l)
           em == Each(t, m)
           own == one \o em
           h2 == Append(h, s)
           t2 == Append(t, own)
<1>1. n \in Nat /\ h \in Seq(Nodes) /\ t \in Seq(Seq(Nat)) /\ Len(t) = n /\ Gives(t, D, Nat)
  BY ForestFacts DEF Forest
<1>2. el \in Seq(Nat) /\ em \in Seq(Nat)
  <2> HIDE DEF D
  <2>1. l \in Seq(D) /\ m \in Seq(D)
    BY DEF D
  <2>2. QED
    BY <1>1, <2>1, EachTyped
<1>3. one \in Seq(Nat) /\ Len(one) = 1 /\ Range(one) = {new} /\ new \in Nat
  BY <1>1 DEF Range
<1>4. own \in Seq(Nat) /\ Len(own) = 1 + Len(em) /\ Range(own) = {new} \cup Range(em)
  <2> HIDE DEF one, em
  <2>1. own \in Seq(Nat) /\ Len(own) = Len(one) + Len(em)
    BY <1>2, <1>3, ConcatProperties
  <2>2. Range(own) = Range(one) \cup Range(em)
    BY <1>2, <1>3, RangeConcatenation
  <2>3. QED
    BY <1>3, <2>1, <2>2
<1> HIDE DEF own
<1>5. /\ h2 \in Seq(Nodes) /\ Len(h2) = new /\ h2[new] = s
      /\ \A i \in 1 .. n : h2[i] = h[i]
  BY <1>1, AppendProperties
<1>6. /\ t2 \in Seq(Seq(Nat)) /\ Len(t2) = new /\ t2[new] = own
      /\ \A i \in 1 .. n : t2[i] = t[i]
  BY <1>1, <1>4, AppendProperties
<1> HIDE DEF h2, t2
<1>7. Grown(h, t, h2, t2)
  BY <1>1, <1>5, <1>6 DEF Grown
<1>8. /\ Each(t2, l) = el /\ Each(t2, m) = em /\ l \in Seq(1 .. new) /\ m \in Seq(1 .. new)
      /\ Apart(t, l) => Apart(t2, l)
      /\ Apart(t, m) => Apart(t2, m)
  <2>1. Each(t2, l) = el /\ l \in Seq(1 .. new) /\ (Apart(t, l) => Apart(t2, l))
    BY <1>5, <1>7, GrownList
  <2>2. Each(t2, m) = em /\ m \in Seq(1 .. new) /\ (Apart(t, m) => Apart(t2, m))
    BY <1>5, <1>7, GrownList
  <2>3. QED
    BY <2>1, <2>2
<1>9. /\ Apart(t, l) /\ Apart(t, m)
      /\ \A c \in Range(l), d \in Range(m) : Range(t[c]) \cap Range(t[d]) = {}
  BY ApartConcat DEF Complete
<1>10. Placed(h2, t2, new)
  <2>1. Kids(h2, new) = m /\ new - 1 = n
    <3>1. new - 1 = n
      BY <1>1
    <3> HIDE DEF new
    <3>2. Kids(h2, new) = m
      BY <1>5 DEF Kids
    <3>3. QED
      BY <3>1, <3>2
  <2>2. t2[new] = <<new>> \o Each(t2, m)
    BY <1>6, <1>8 DEF own
  <2>3. h2[new].body \in Seq(1 .. new - 1) /\ h2[new].else_body \in Seq(1 .. new - 1)
    BY <1>5, <2>1
  <2> HIDE DEF new
  <2>4. QED
    BY <1>8, <1>9, <2>1, <2>2, <2>3 DEF Placed
<1>11. Forest(h2, t2) /\ Shaped(h2)
  <2>1. Formed(h2, new)
    BY DEF h2
  <2>2. \A i \in Len(h) + 1 .. Len(h2) : Placed(h2, t2, i) /\ Formed(h2, i)
    <3>1. \A i \in Len(h) + 1 .. Len(h2) : i = new
      BY <1>1, <1>5
    <3> HIDE DEF new
    <3>2. QED
      BY <1>10, <2>1, <3>1
  <2>3. QED
    BY <1>7, <2>2, GrownForest
<1>12. Each(t, l \o m) = el \o em /\ Each(t2, l \o one) = el \o own
  <2>1. Each(t, l \o m) = el \o em
    <3> HIDE DEF D
    <3>1. l \in Seq(D) /\ m \in Seq(D)
      BY DEF D
    <3>2. QED
      BY <1>1, <3>1, EachConcat
  <2> DEFINE E == 1 .. new
  <2>2. Gives(t2, E, Nat)
    BY <1>6 DEF Gives
  <2>3. one \in Seq(E) /\ new \in E
    BY <1>1
  <2>4. l \in Seq(E)
    BY <1>8
  <2> HIDE DEF E, new
  <2>5. Each(t2, one) = t2[new]
    BY <2>2, <2>3, EachOne
  <2> HIDE DEF one
  <2>6. Each(t2, l \o one) = Each(t2, l) \o Each(t2, one)
    BY <2>2, <2>3, <2>4, EachConcat
  <2>7. QED
    BY <1>6, <1>8, <2>1, <2>5, <2>6
<1>13. Complete(h2, t2, l \o one)
  <2>1. l \o one \in Seq(1 .. new)
    <3> DEFINE E == 1 .. new
    <3>1. one \in Seq(E) /\ l \in Seq(E)
      BY <1>1, <1>8
    <3> HIDE DEF one, E
    <3>2. l \o one \in Seq(E)
      BY <3>1, ConcatProperties
    <3>3. QED
      BY <3>2 DEF E
  <2>2. Range(el \o em) = Range(el) \cup Range(em) /\ Len(el \o em) = Len(el) + Len(em)
    <3> HIDE DEF el, em
    <3>1. QED
      BY <1>2, RangeConcatenation, ConcatProperties
  <2>3. Range(el \o own) = Range(el) \cup Range(own) /\ Len(el \o own) = Len(el) + Len(own)
    <3>1. el \in Seq(Nat) /\ own \in Seq(Nat)
      BY <1>2, <1>4
    <3> HIDE DEF el
    <3>2. Range(el \o own) = Range(el) \cup Range(own)
      BY <3>1, RangeConcatenation
    <3>3. Len(el \o own) = Len(el) + Len(own)
      BY <3>1, ConcatProperties
    <3>4. QED
      BY <3>2, <3>3
  <2>4. 1 .. n \subseteq Range(el) \cup Range(em) /\ Len(el) + Len(em) = n
    BY <1>12, <2>2 DEF Complete
  <2>5. 1 .. new \subseteq Range(el \o own)
    <3>1. Range(own) = {new} \cup Range(em)
      BY <1>4
    <3>2. \A i \in 1 .. new : i \in 1 .. n \/ i = new
      BY <1>1
    <3> HIDE DEF el, em, new, n
    <3>3. QED
      BY <2>3, <2>4, <3>1, <3>2
  <2>6. Len(el \o own) = new
    <3>1. Len(el) \in Nat /\ Len(em) \in Nat
      BY <1>2, LenProperties
    <3>2. Len(own) = 1 + Len(em)
      BY <1>4
    <3>3. Len(el \o own) = Len(el) + Len(own) /\ Len(el) + Len(em) = n
      BY <2>3, <2>4
    <3> DEFINE a == Len(el)
               b == Len(em)
               c == Len(own)
               d == Len(el \o own)
    <3>4. a \in Nat /\ b \in Nat /\ n \in Nat /\ c = 1 + b /\ d = a + c /\ a + b = n
      BY <1>1, <3>1, <3>2, <3>3
    <3> HIDE DEF a, b, c, d, n
    <3>5. d = n + 1
      BY <3>4
    <3>6. QED
      BY <3>5 DEF d
  <2>7. Apart(t2, l \o one)
    <3>1. Apart(t2, l)
      BY <1>8, <1>9
    <3>2. Apart(t2, one)
      BY DEF Apart
    <3>3. \A c \in Range(l), d \in Range(one) : Range(t2[c]) \cap Range(t2[d]) = {}
      <4>1. ASSUME NEW c \in Range(l) PROVE Range(t2[c]) \cap Range(own) = {}
        <5>1. c \in D
          <6> HIDE DEF D
          <6>1. l \in Seq(D)
            BY DEF D
          <6>2. QED
            BY <6>1, RangeOfSeq
        <5>2. t2[c] = t[c]
          BY <1>6, <5>1
        <5>3. \A x \in Range(t[c]) : x \in D
          BY <5>1, TextWithin
        <5>4. new \notin D
          BY <1>1
        <5>5. \A x : x \in Range(em) => \E d \in Range(m) : x \in Range(t[d])
          <6> HIDE DEF D
          <6>1. m \in Seq(D)
            BY DEF D
          <6>2. QED
            BY <1>1, <6>1, EachRange
        <5> HIDE DEF D, new, em
        <5>6. QED
          BY <1>4, <1>9, <5>2, <5>3, <5>4, <5>5
      <4>2. QED
        BY <1>3, <1>6, <4>1
    <3> DEFINE E == 1 .. new
    <3>4. one \in Seq(E) /\ l \in Seq(E)
      BY <1>1, <1>8
    <3> HIDE DEF one, E
    <3>5. QED
      BY <3>1, <3>2, <3>3, <3>4, ApartConcat
  <2>8. QED
    BY <1>5, <1>12, <2>1, <2>5, <2>6, <2>7 DEF Complete
<1>14. QED
  BY <1>7, <1>11, <1>13 DEF h2, t2, own

\* Each of a list that is given back as it was.
LEMMA EachSelf ==
  ASSUME NEW S, NEW f, NEW l \in Seq(S), \A c \in Range(l) : f[c] = <<c>>
  PROVE  Each(f, l) = l
<1> DEFINE w == Whether(S, S)
<1>1. \A c \in Range(l) : c \in S /\ w[c] = <<c>>
  BY RangeOfSeq DEF Whether
<1>2. Only(l, S) = Each(w, l)
  BY OnlyIs
<1> HIDE DEF w
<1>3. Each(f, l) = Each(w, l)
  BY <1>1, EachSame
<1>4. Only(l, S) = l
  BY <1>1, OnlyAll
<1>5. QED
  BY <1>2, <1>3, <1>4

\* Print statements are added to a complete list.
LEMMA Printed ==
  ASSUME NEW h, NEW t, Forest(h, t), Shaped(h),
         NEW l \in Seq(1 .. Len(h)), Complete(h, t, l), NEW k \in Nat \ {0},
         NEW silent \in [1 .. k -> BOOLEAN]
  PROVE  LET items == [i \in 1 .. k |-> Len(h) + i]
             h2 == h \o [i \in 1 .. k |-> Node("PRINT", FALSE, silent[i], <<>>, <<>>)]
             t2 == t \o [i \in 1 .. k |-> <<items[i]>>]
         IN  /\ Len(h2) = Len(h) + k
             /\ Grown(h, t, h2, t2) /\ Forest(h2, t2) /\ Shaped(h2)
             /\ items \in Seq(1 .. Len(h2)) /\ Chain(h2, items)
             /\ Complete(h2, t2, l \o items)
<1> DEFINE n == Len(h)
           N == n + k
           E == 1 .. N
           items == [i \in 1 .. k |-> n + i]
           Item(i) == Node("PRINT", FALSE, silent[i], <<>>, <<>>)
           more == [i \in 1 .. k |-> Item(i)]
           texts == [i \in 1 .. k |-> <<items[i]>>]
           h2 == h \o more
           t2 == t \o texts
           el == Each(t, l)
<1>1. n \in Nat /\ N \in Nat /\ h \in Seq(Nodes) /\ t \in Seq(Seq(Nat)) /\ Len(t) = n
  BY ForestFacts DEF Forest
<1>2. \A i \in 1 .. k : /\ Item(i) \in Nodes /\ Item(i).kind = "PRINT" /\ ~Item(i).refused
                        /\ Item(i).body = <<>> /\ Item(i).else_body = <<>>
  BY DEF Node, Nodes, Kinds
<1>3. more \in Seq(Nodes) /\ Len(more) = k /\ \A i \in 1 .. k : more[i] = Item(i)
  <2> HIDE DEF Item
  <2>1. QED
    BY <1>2
<1>4. \A i \in 1 .. k : items[i] = n + i /\ items[i] \in E /\ items[i] \in Nat
  BY <1>1
<1>5. items \in Seq(E) /\ Len(items) = k /\ DOMAIN items = 1 .. k
  <2> HIDE DEF E
  <2>1. \A i \in 1 .. k : n + i \in E
    BY <1>4
  <2>2. QED
    BY <2>1
<1>6. texts \in Seq(Seq(Nat)) /\ Len(texts) = k /\ \A i \in 1 .. k : texts[i] = <<n + i>>
  <2>1. \A i \in 1 .. k : <<items[i]>> \in Seq(Nat)
    BY <1>4
  <2>2. texts \in Seq(Seq(Nat)) /\ Len(texts) = k
    <3> HIDE DEF items
    <3>1. QED
      BY <2>1
  <2>3. QED
    BY <1>4, <2>2
<1> HIDE DEF more, texts, Item
<1>7. /\ h2 \in Seq(Nodes) /\ Len(h2) = N
      /\ \A i \in E : h2[i] = IF i <= n THEN h[i] ELSE more[i - n]
  BY <1>1, <1>3, ConcatProperties
<1>8. /\ t2 \in Seq(Seq(Nat)) /\ Len(t2) = N
      /\ \A i \in E : t2[i] = IF i <= n THEN t[i] ELSE texts[i - n]
  <2>1. texts \in Seq(Seq(Nat)) /\ Len(texts) = k
    BY <1>6
  <2>2. /\ t2 \in Seq(Seq(Nat)) /\ Len(t2) = Len(t) + Len(texts)
        /\ \A i \in 1 .. Len(t) + Len(texts) : t2[i] = IF i <= Len(t) THEN t[i] ELSE texts[i - Len(t)]
    BY <1>1, <2>1, ConcatProperties
  <2>3. QED
    BY <1>1, <2>1, <2>2
<1> HIDE DEF h2, t2
<1>9. \A i \in 1 .. n : h2[i] = h[i] /\ t2[i] = t[i]
  BY <1>1, <1>7, <1>8
<1>10. \A i \in n + 1 .. N : i - n \in 1 .. k /\ h2[i] = Item(i - n) /\ t2[i] = <<i>>
  <2>1. ASSUME NEW i \in n + 1 .. N
        PROVE  i - n \in 1 .. k /\ h2[i] = Item(i - n) /\ t2[i] = <<i>>
    <3>1. i \in E /\ ~(i <= n) /\ i - n \in 1 .. k /\ n + (i - n) = i
      BY <1>1
    <3>2. h2[i] = more[i - n] /\ t2[i] = texts[i - n]
      BY <1>7, <1>8, <3>1
    <3>3. texts[i - n] = <<n + (i - n)>>
      BY <1>6, <3>1
    <3>4. QED
      BY <1>3, <3>1, <3>2, <3>3
  <2>2. QED
    BY <2>1
<1>11. Grown(h, t, h2, t2)
  BY <1>1, <1>7, <1>8, <1>9 DEF Grown
<1>12. ASSUME NEW i \in n + 1 .. N PROVE Placed(h2, t2, i) /\ Formed(h2, i)
  <2>1. h2[i].kind = "PRINT" /\ h2[i].refused = FALSE /\ h2[i].body = <<>> /\ h2[i].else_body = <<>>
    BY <1>2, <1>10
  <2>2. Kids(h2, i) = <<>>
    BY <2>1 DEF Kids
  <2>3. t2[i] = <<i>> \o Each(t2, <<>>)
    <3>1. <<i>> \o <<>> = <<i>>
      OBVIOUS
    <3>2. QED
      BY <1>10, <3>1, EachEmpty
  <2>4. <<>> \in Seq(1 .. i - 1) /\ Apart(t2, <<>>)
    BY DEF Apart
  <2>5. Placed(h2, t2, i)
    BY <2>1, <2>2, <2>3, <2>4 DEF Placed
  <2>6. Formed(h2, i)
    BY <2>1 DEF Formed
  <2>7. QED
    BY <2>5, <2>6
<1>13. Forest(h2, t2) /\ Shaped(h2)
  <2>1. \A i \in Len(h) + 1 .. Len(h2) : Placed(h2, t2, i) /\ Formed(h2, i)
    BY <1>7, <1>12
  <2>2. QED
    BY <1>11, <2>1, GrownForest
<1>14. \A i \in 1 .. k : items[i] \in n + 1 .. N
  BY <1>1
<1>15. Chain(h2, items)
  <2>1. \A i \in DOMAIN items : h2[items[i]].kind = "PRINT"
    BY <1>2, <1>5, <1>10, <1>14
  <2>2. items # <<>>
    BY <1>5
  <2>3. QED
    BY <2>1, <2>2 DEF Chain
<1>16. Range(items) = n + 1 .. N
  <2>1. \A c \in n + 1 .. N : c - n \in 1 .. k /\ items[c - n] = c
    BY <1>1
  <2> HIDE DEF items
  <2>2. QED
    BY <1>5, <1>14, <2>1 DEF Range
<1> HIDE DEF items
<1>17. Each(t2, items) = items
  BY <1>5, <1>10, <1>16, EachSelf
<1>18. Each(t2, l) = el /\ l \in Seq(E) /\ Apart(t2, l)
  <2>1. Apart(t, l)
    BY DEF Complete
  <2>2. Each(t2, l) = el /\ l \in Seq(1 .. Len(h2)) /\ (Apart(t, l) => Apart(t2, l))
    BY <1>11, GrownList
  <2>3. QED
    BY <1>7, <2>1, <2>2
<1>19. el \in Seq(Nat) /\ Range(el) = 1 .. n /\ Len(el) = n
  BY CompleteText DEF Complete
<1>20. Each(t2, l \o items) = el \o items
  <2>1. Gives(t2, E, Nat)
    BY <1>8 DEF Gives
  <2> HIDE DEF E
  <2>2. Each(t2, l \o items) = Each(t2, l) \o Each(t2, items)
    BY <1>5, <1>18, <2>1, EachConcat
  <2>3. QED
    BY <1>17, <1>18, <2>2
<1>21. items \in Seq(Nat)
  <2>1. E \subseteq Nat
    BY <1>1
  <2> HIDE DEF E
  <2>2. QED
    BY <1>5, <2>1, SeqMonotonic
<1>22. Complete(h2, t2, l \o items)
  <2>1. l \o items \in Seq(E)
    <3> HIDE DEF E
    <3>1. QED
      BY <1>5, <1>18, ConcatProperties
  <2> HIDE DEF el
  <2>2. Range(el \o items) = Range(el) \cup Range(items)
    BY <1>19, <1>21, RangeConcatenation
  <2>3. Len(el \o items) = Len(el) + Len(items)
    BY <1>19, <1>21, ConcatProperties
  <2>4. Len(el \o items) = N
    BY <1>5, <1>19, <2>3
  <2>5. 1 .. N \subseteq Range(el \o items)
    <3>1. 1 .. N \subseteq (1 .. n) \cup (n + 1 .. N)
      BY <1>1
    <3>2. QED
      BY <1>16, <1>19, <2>2, <3>1
  <2>6. Apart(t2, l \o items)
    <3>1. Apart(t2, items)
      <4>1. ASSUME NEW i \in 1 .. k, NEW j \in 1 .. k, i # j
            PROVE  Range(t2[items[i]]) \cap Range(t2[items[j]]) = {}
        <5>1. t2[items[i]] = <<items[i]>> /\ t2[items[j]] = <<items[j]>>
          BY <1>10, <1>14
        <5>2. items[i] # items[j]
          BY <1>1, <1>4, <4>1
        <5>3. QED
          BY <5>1, <5>2 DEF Range
      <4>2. QED
        BY <1>5, <4>1 DEF Apart
    <3>2. \A c \in Range(l), d \in Range(items) : Range(t2[c]) \cap Range(t2[d]) = {}
      <4>1. ASSUME NEW c \in Range(l), NEW d \in Range(items)
            PROVE  Range(t2[c]) \cap Range(t2[d]) = {}
        <5>1. c \in 1 .. n
          <6> DEFINE D == 1 .. n
          <6>1. l \in Seq(D)
            OBVIOUS
          <6> HIDE DEF D
          <6>2. c \in D
            BY <6>1, RangeOfSeq
          <6>3. QED
            BY <6>2 DEF D
        <5>2. \A x \in Range(t2[c]) : x \in 1 .. n
          BY <1>9, <5>1, TextWithin
        <5>3. d \in n + 1 .. N /\ t2[d] = <<d>>
          BY <1>10, <1>16
        <5>4. Range(t2[d]) = {d}
          BY <5>3 DEF Range
        <5>5. d \notin 1 .. n
          BY <1>1, <5>3
        <5>6. QED
          BY <5>2, <5>4, <5>5
      <4>2. QED
        BY <4>1
    <3> HIDE DEF E
    <3>3. QED
      BY <1>5, <1>18, <3>1, <3>2, ApartConcat
  <2>7. QED
    BY <1>7, <1>20, <2>1, <2>4, <2>5, <2>6 DEF Complete
<1>23. items \in Seq(1 .. Len(h2))
  BY <1>5, <1>7
<1>24. QED
  BY <1>7, <1>11, <1>13, <1>15, <1>22, <1>23 DEF items, h2, t2, more, texts, Item

-----------------------------------------------------------------------------
(* The parser.                                                             *)

Chains(h, lists) == \A k \in DOMAIN lists : Chain(h, lists[k])

\* The last n of a sequence of lists, and what is before them.
LEMMA LastOnes ==
  ASSUME NEW S, NEW ss \in Seq(Seq(S)), NEW n \in 0 .. Len(ss)
  PROVE  LET a == SubSeq(ss, 1, Len(ss) - n)
             b == SubSeq(ss, Len(ss) - n + 1, Len(ss))
         IN  /\ a \in Seq(Seq(S)) /\ Len(a) = Len(ss) - n
             /\ \A i \in 1 .. Len(ss) - n : a[i] = ss[i]
             /\ b \in Seq(Seq(S)) /\ Len(b) = n
             /\ \A i \in 1 .. n : b[i] = ss[Len(ss) - n + i] /\ b[i] \in Seq(S)
             /\ FlattenSeq(a) \in Seq(S) /\ FlattenSeq(b) \in Seq(S)
             /\ FlattenSeq(ss) = FlattenSeq(a) \o FlattenSeq(b)
<1> DEFINE m == Len(ss)
           k == m - n
           T == Seq(S)
           a == SubSeq(ss, 1, k)
           b == SubSeq(ss, k + 1, m)
<1>1. m \in Nat /\ k \in Nat /\ k <= m /\ n \in Nat /\ m - k = n
  OBVIOUS
<1>2. \A i \in 1 .. m : ss[i] \in T
  OBVIOUS
<1> HIDE DEF T
<1>3. /\ a \in Seq(T) /\ Len(a) = k
      /\ \A i \in 1 .. k : a[i] = ss[i]
  <2> HIDE DEF m, k
  <2>1. \A i \in 1 .. k : ss[i] \in T
    BY <1>1, <1>2
  <2>2. /\ a \in Seq(T) /\ Len(a) = IF 1 <= k THEN k - 1 + 1 ELSE 0
        /\ \A i \in 1 .. k - 1 + 1 : a[i] = ss[1 + i - 1]
    BY <1>1, <2>1, SubSeqProperties
  <2>3. (IF 1 <= k THEN k - 1 + 1 ELSE 0) = k
    BY <1>1
  <2>4. \A i \in 1 .. k : i \in 1 .. k - 1 + 1 /\ 1 + i - 1 = i
    BY <1>1
  <2> HIDE DEF a
  <2>5. QED
    BY <2>2, <2>3, <2>4
<1>4. /\ b \in Seq(T) /\ Len(b) = n
      /\ \A i \in 1 .. n : b[i] = ss[k + i] /\ b[i] \in T
  <2> HIDE DEF m, k
  <2>1. \A i \in k + 1 .. m : ss[i] \in T
    BY <1>1, <1>2
  <2> DEFINE k1 == k + 1
  <2>7. k1 \in Int /\ m \in Int /\ \A i \in k1 .. m : ss[i] \in T
    BY <1>1, <2>1
  <2> HIDE DEF k1
  <2>2. /\ SubSeq(ss, k1, m) \in Seq(T)
        /\ Len(SubSeq(ss, k1, m)) = IF k1 <= m THEN m - k1 + 1 ELSE 0
        /\ \A i \in 1 .. m - k1 + 1 : SubSeq(ss, k1, m)[i] = ss[k1 + i - 1]
    BY <2>7, SubSeqProperties
  <2>3. (IF k1 <= m THEN m - k1 + 1 ELSE 0) = n
    BY <1>1 DEF k1
  <2>4. \A i \in 1 .. n : i \in 1 .. m - k1 + 1 /\ k1 + i - 1 = k + i
    BY <1>1 DEF k1
  <2>5. b = SubSeq(ss, k1, m)
    BY DEF k1
  <2> HIDE DEF b
  <2>6. \A i \in 1 .. n : b[i] = ss[k + i]
    BY <2>2, <2>4, <2>5
  <2>8. b \in Seq(T) /\ Len(b) = n
    BY <2>2, <2>3, <2>5
  <2>9. \A i \in 1 .. n : b[i] \in T
    BY <2>8
  <2>10. QED
    BY <2>6, <2>8, <2>9
<1>5. ss = a \o b
  <2>1. ss \in Seq(T)
    BY DEF T
  <2>2. /\ 1 \in 1 .. Len(ss) + 1 /\ k \in 1 - 1 .. Len(ss) /\ m \in k .. Len(ss)
    BY <1>1
  <2> HIDE DEF k
  <2>3. a \o b = SubSeq(ss, 1, m)
    BY <2>1, <2>2, ConcatAdjacentSubSeq
  <2>4. SubSeq(ss, 1, m) = ss
    BY <2>1, SubSeqFull
  <2>5. QED
    BY <2>3, <2>4
<1>6. a \in Seq(Seq(S)) /\ b \in Seq(Seq(S)) /\ \A i \in 1 .. n : b[i] \in Seq(S)
  BY <1>3, <1>4 DEF T
<1> HIDE DEF a, b
<1>7. FlattenSeq(a) \in Seq(S) /\ FlattenSeq(b) \in Seq(S)
  BY <1>6, FlattenTyped
<1>8. FlattenSeq(a \o b) = FlattenSeq(a) \o FlattenSeq(b)
  BY <1>6, FlattenConcat
<1>9. FlattenSeq(ss) = FlattenSeq(a) \o FlattenSeq(b)
  BY <1>5, <1>8
<1>10. QED
  BY <1>3, <1>4, <1>6, <1>7, <1>9 DEF a, b

\* As long as no pass has ended, no pass has left anything.
LEMMA NoResults ==
  ASSUME phase' \in {"parse", "parsed", "failed", "crashed", "undefined"},
         visited' = [pass \in Passes |-> <<>>], generated' = <<>>
  PROVE  Results'
<1>1. \A pass \in Passes : phase' \notin Since(pass)
  BY DEF Passes, Since
<1>2. DOMAIN visited' = Passes /\ \A pass \in Passes : visited'[pass] = <<>>
  OBVIOUS
<1>3. WalkedInOrder'
  BY <1>1, <1>2 DEF WalkedInOrder
<1>4. GeneratedInOrder'
  BY DEF GeneratedInOrder
<1>5. visited' \in [Passes -> Seq(Nat)]
  OBVIOUS
<1>6. QED
  BY <1>1, <1>2, <1>3, <1>4, <1>5 DEF Results

\* While the parser is at work, no pass has visited anything.
LEMMA NothingVisited ==
  ASSUME Results, phase \in {"parse", "parsed"}
  PROVE  visited = [pass \in Passes |-> <<>>] /\ generated = <<>>
<1>1. \A pass \in Passes : phase \notin Since(pass)
  BY DEF Passes, Since
<1>2. \A pass \in Passes : visited[pass] = <<>>
  BY <1>1 DEF Results
<1>3. QED
  BY <1>2 DEF Results

\* A list put on the stack in the place of those above the lower ones.
LEMMA Pushed ==
  ASSUME IInv, phase = "parse",
         Grown(node, text, node', text'), Forest(node', text'), Shaped(node'),
         Len(node') <= MaxNodes,
         NEW lower \in Seq(Seq(1 .. Len(node))), Chains(node, lower),
         NEW list \in Seq(1 .. Len(node')), Chain(node', list),
         Complete(node', text', FlattenSeq(lower) \o list),
         stack' = Append(lower, list),
         UNCHANGED <<phase, program, source, visited, generated>>
  PROVE  IInv'
<1> DEFINE D == 1 .. Len(node)
           E == 1 .. Len(node')
           T == Seq(E)
<1>1. Forest(node, text) /\ Parsing /\ Results /\ program = <<>>
  BY DEF IInv, Parsing
<1>2. Len(node) \in Nat /\ Len(node') \in Nat /\ D \subseteq E
  <2>1. Len(node) \in Nat /\ Len(node') \in Nat
    BY <1>1, ForestFacts
  <2>2. QED
    BY <2>1 DEF Grown
<1>3. \A k \in 1 .. Len(lower) : lower[k] \in T /\ Chain(node', lower[k])
  <2> HIDE DEF D, T
  <2>1. ASSUME NEW k \in 1 .. Len(lower) PROVE lower[k] \in T /\ Chain(node', lower[k])
    <3> DEFINE l == lower[k]
    <3>1. l \in Seq(1 .. Len(node)) /\ Chain(node, l)
      BY DEF Chains
    <3> HIDE DEF l
    <3>2. l \in Seq(1 .. Len(node')) /\ (Chain(node, l) => Chain(node', l))
      BY <1>1, <3>1, GrownList
    <3>3. QED
      BY <3>1, <3>2 DEF l, T
  <2>2. QED
    BY <2>1
<1>4. lower \in Seq(T)
  <2> DEFINE U == Seq(D)
  <2>1. U \subseteq T
    <3> HIDE DEF D, E
    <3>1. \A l \in Seq(D) : l \in Seq(E)
      BY <1>2, SeqMonotonic
    <3>2. QED
      BY <3>1
  <2>2. lower \in Seq(U)
    OBVIOUS
  <2> HIDE DEF U, T
  <2>3. QED
    BY <2>1, <2>2, SeqMonotonic
<1>5. list \in T
  OBVIOUS
<1> HIDE DEF T
<1>6. /\ stack' \in Seq(T) /\ Len(stack') = Len(lower) + 1
      /\ \A k \in 1 .. Len(lower) : stack'[k] = lower[k]
      /\ stack'[Len(lower) + 1] = list
  BY <1>4, <1>5, AppendProperties
<1>7. ASSUME NEW k \in DOMAIN stack' PROVE Chain(node', stack'[k])
  <2>1. k \in 1 .. Len(lower) \/ k = Len(lower) + 1
    BY <1>6
  <2>2. QED
    BY <1>3, <1>6, <2>1
<1>8. FlattenSeq(stack') = FlattenSeq(lower) \o list
  <2> HIDE DEF E
  <2>1. lower \in Seq(Seq(E)) /\ list \in Seq(E)
    BY <1>4, <1>5 DEF T
  <2>2. QED
    BY <2>1, FlattenAppend
<1>9. Parsing'
  <2>1. stack' \in Seq(Seq(1 .. Len(node')))
    BY <1>6 DEF T
  <2>2. Complete(node', text', FlattenSeq(stack'))
    BY <1>8
  <2>3. program' = <<>>
    BY <1>1
  <2>4. QED
    BY <1>7, <2>1, <2>2, <2>3 DEF Parsing
<1>10. Results'
  BY <1>1, NothingVisited, NoResults
<1>11. Followed' /\ Gone'
  BY DEF Followed, Gone, Later
<1>12. phase' \in Phases
  BY DEF Phases
<1>13. QED
  BY <1>9, <1>10, <1>11, <1>12 DEF IInv

\* What the parser's steps start from.
LEMMA ParserFacts ==
  ASSUME IInv, phase = "parse"
  PROVE  /\ Forest(node, text) /\ Shaped(node) /\ Len(node) \in Nat
         /\ stack \in Seq(Seq(1 .. Len(node))) /\ Chains(node, stack)
         /\ FlattenSeq(stack) \in Seq(1 .. Len(node))
         /\ Complete(node, text, FlattenSeq(stack))
<1>1. Forest(node, text) /\ Shaped(node) /\ Parsing
  BY DEF IInv
<1>2. Len(node) \in Nat
  BY <1>1, ForestFacts
<1>3. stack \in Seq(Seq(1 .. Len(node))) /\ Chains(node, stack) /\ Complete(node, text, FlattenSeq(stack))
  BY <1>1 DEF Parsing, Chains
<1>4. QED
  BY <1>1, <1>2, <1>3 DEF Complete

\* A statement made of the topmost entries of the stack.
LEMMA ReduceStep ==
  ASSUME IInv, NEW n \in 0 .. Len(stack), NEW s \in Nodes, Reduce(n, s),
         s.body \in Seq(1 .. Len(node)), s.else_body \in Seq(1 .. Len(node)),
         s.body \o s.else_body = FlattenSeq(Topmost(n)),
         Formed(Append(node, s), Len(node) + 1)
  PROVE  IInv'
<1> DEFINE N == Len(node)
           D == 1 .. N
           lower == SubSeq(stack, 1, Len(stack) - n)
           top == Topmost(n)
           l == FlattenSeq(lower)
           m == FlattenSeq(top)
           one == <<N + 1>>
           h2 == Append(node, s)
           t2 == Append(text, one \o Each(text, m))
<1>1. /\ phase = "parse" /\ N < MaxNodes
      /\ node' = h2 /\ text' = t2 /\ stack' = Append(lower, one)
      /\ UNCHANGED <<phase, program, source, visited, generated>>
  BY DEF Reduce
<1>2. /\ Forest(node, text) /\ Shaped(node) /\ N \in Nat
      /\ stack \in Seq(Seq(D)) /\ Chains(node, stack) /\ Complete(node, text, FlattenSeq(stack))
  BY <1>1, ParserFacts
<1>3. /\ lower \in Seq(Seq(D)) /\ Len(lower) = Len(stack) - n
      /\ \A i \in 1 .. Len(stack) - n : lower[i] = stack[i]
      /\ l \in Seq(D) /\ m \in Seq(D) /\ FlattenSeq(stack) = l \o m
  <2> HIDE DEF D
  <2>1. QED
    BY <1>2, LastOnes, ZenonT(60) DEF Topmost
<1>4. Chains(node, lower)
  <2>1. Len(stack) \in Nat /\ DOMAIN stack = 1 .. Len(stack)
    BY <1>2
  <2>2. DOMAIN lower = 1 .. Len(stack) - n
    BY <1>3
  <2> HIDE DEF lower
  <2>3. ASSUME NEW k \in DOMAIN lower PROVE Chain(node, lower[k])
    <3>1. k \in 1 .. Len(stack) - n /\ k \in DOMAIN stack
      BY <2>1, <2>2
    <3>2. lower[k] = stack[k] /\ Chain(node, stack[k])
      BY <1>2, <1>3, <3>1 DEF Chains
    <3>3. QED
      BY <3>2
  <2>4. QED
    BY <2>3 DEF Chains
<1> HIDE DEF lower, top
<1>5. s.body \in Seq(D) /\ s.else_body \in Seq(D) /\ s.body \o s.else_body = m
  BY DEF top
<1>6. Complete(node, text, l \o m)
  BY <1>2, <1>3
<1>7. /\ Grown(node, text, h2, t2) /\ Forest(h2, t2) /\ Shaped(h2)
      /\ Complete(h2, t2, l \o one)
  <2> HIDE DEF l, m
  <2>1. l \in Seq(1 .. Len(node)) /\ m \in Seq(1 .. Len(node))
    BY <1>3
  <2>2. s.body \in Seq(1 .. Len(node)) /\ s.else_body \in Seq(1 .. Len(node))
    BY <1>5
  <2>3. QED
    BY <1>2, <1>5, <1>6, <2>1, <2>2, Reduced
<1>8. Len(h2) = N + 1 /\ one \in Seq(1 .. Len(h2))
  <2>1. Len(h2) = N + 1
    BY <1>2 DEF Forest
  <2>2. N + 1 \in 1 .. N + 1
    BY <1>2
  <2>3. QED
    BY <2>1, <2>2
<1>9. Chain(h2, one)
  BY DEF Chain
<1>10. Len(h2) <= MaxNodes
  BY <1>1, <1>2, <1>8, StatementsAssumption
<1> HIDE DEF h2, t2, one, l
<1>11. QED
  <2>1. /\ Grown(node, text, node', text') /\ Forest(node', text') /\ Shaped(node')
        /\ Len(node') <= MaxNodes
        /\ Chain(node', one) /\ one \in Seq(1 .. Len(node'))
        /\ Complete(node', text', FlattenSeq(lower) \o one)
    BY <1>1, <1>7, <1>8, <1>9, <1>10 DEF l
  <2>2. lower \in Seq(Seq(1 .. Len(node)))
    BY <1>3
  <2>3. QED
    BY <1>1, <1>4, <2>1, <2>2, Pushed

\* A statement without parts.
LEMMA SimpleStep ==
  ASSUME IInv, NEW kind \in {"EXPR", "RETURN", "VALUE", "PLAIN"}, NEW refused \in BOOLEAN,
         NEW silent \in BOOLEAN, refused => kind \in Declarations, Simple(kind, refused, silent)
  PROVE  IInv'
<1> DEFINE s == Node(kind, refused, silent, <<>>, <<>>)
           zero == 0
<1>1. phase = "parse" /\ Reduce(zero, s)
  BY DEF Simple, Reduce
<1>2. s \in Nodes /\ s.body = <<>> /\ s.else_body = <<>> /\ s.kind = kind /\ s.refused = refused
  BY DEF Node, Nodes, Kinds
<1>3. Forest(node, text) /\ stack \in Seq(Seq(1 .. Len(node)))
  BY <1>1, ParserFacts
<1>4. zero \in 0 .. Len(stack)
  BY <1>3
<1>5. FlattenSeq(Topmost(zero)) = <<>>
  <2> DEFINE k == Len(stack)
  <2>1. k \in Int /\ k - zero + 1 \in Int /\ k < k - zero + 1
    BY <1>3
  <2> HIDE DEF k
  <2>2. SubSeq(stack, k - zero + 1, k) = <<>>
    BY <2>1, SubSeqEmpty
  <2>3. Topmost(zero) = <<>>
    BY <2>2 DEF Topmost, k
  <2>4. QED
    BY <2>3, FlattenEmpty
<1>6. <<>> \o <<>> = <<>> /\ <<>> \in Seq(1 .. Len(node))
  OBVIOUS
<1> HIDE DEF s, zero
<1>7. Append(node, s)[Len(node) + 1] = s
  BY <1>2, <1>3 DEF Forest
<1>8. Formed(Append(node, s), Len(node) + 1)
  BY <1>2, <1>7 DEF Formed
<1>9. QED
  BY <1>1, <1>2, <1>4, <1>5, <1>6, <1>8, ReduceStep

\* A node with a body.
LEMMA BodyStep ==
  ASSUME IInv, NEW n \in 0 .. Len(stack), NEW kind \in {"BLOCK", "FUNCTION"} \cup Branching,
         NEW refused \in BOOLEAN, refused => kind \in Declarations,
         NEW body, body = FlattenSeq(Topmost(n)), kind = "FUNCTION" => Chain(node, body),
         Reduce(n, Node(kind, refused, FALSE, body, <<>>))
  PROVE  IInv'
<1> DEFINE s == Node(kind, refused, FALSE, body, <<>>)
           N == Len(node)
           D == 1 .. N
           h2 == Append(node, s)
<1>1. phase = "parse"
  BY DEF Reduce
<1>2. Forest(node, text) /\ stack \in Seq(Seq(D)) /\ N \in Nat
  BY <1>1, ParserFacts
<1>3. body \in Seq(D)
  <2> HIDE DEF D
  <2>1. QED
    BY <1>2, LastOnes, ZenonT(60) DEF Topmost
<1>4. body \in Seq(Nat)
  BY <1>3
<1>5. s \in Nodes /\ s.body = body /\ s.else_body = <<>> /\ s.kind = kind /\ s.refused = refused
  BY <1>4 DEF Node, Nodes, Kinds
<1>6. body \o <<>> = body /\ <<>> \in Seq(D)
  BY <1>4, ConcatEmptySeq
<1> HIDE DEF s
<1>7. h2[N + 1] = s /\ \A i \in D : h2[i] = node[i]
  BY <1>2, <1>5 DEF Forest
<1>8. kind = "FUNCTION" => Chain(h2, body)
  <2>1. \A k \in DOMAIN body : h2[body[k]] = node[body[k]]
    BY <1>3, <1>7
  <2>2. QED
    BY <2>1 DEF Chain
<1>9. Formed(h2, N + 1)
  BY <1>5, <1>7, <1>8 DEF Formed
<1>10. Reduce(n, s)
  BY DEF s
<1>11. QED
  BY <1>3, <1>5, <1>6, <1>9, <1>10, ReduceStep

\* The topmost entries of the stack.
LEMMA TopFacts ==
  ASSUME IInv, phase = "parse", NEW n \in 1 .. 2, n <= Len(stack)
  PROVE  /\ n \in 0 .. Len(stack)
         /\ \A i \in 1 .. n : Chain(node, Topmost(n)[i]) /\ Topmost(n)[i] \in Seq(1 .. Len(node))
         /\ n = 1 => FlattenSeq(Topmost(n)) = Topmost(n)[1]
         /\ n = 2 => FlattenSeq(Topmost(n)) = Topmost(n)[1] \o Topmost(n)[2]
<1> DEFINE D == 1 .. Len(node)
           top == Topmost(n)
<1>1. stack \in Seq(Seq(D)) /\ Chains(node, stack)
  BY ParserFacts
<1>2. n \in 0 .. Len(stack)
  BY <1>1
<1>3. top \in Seq(Seq(D)) /\ Len(top) = n /\ \A i \in 1 .. n : top[i] = stack[Len(stack) - n + i] /\ top[i] \in Seq(D)
  <2> HIDE DEF D
  <2>1. QED
    BY <1>1, <1>2, LastOnes, ZenonT(60) DEF Topmost
<1>4. \A i \in 1 .. n : Chain(node, top[i])
  <2>1. \A i \in 1 .. n : Len(stack) - n + i \in DOMAIN stack
    BY <1>1
  <2> HIDE DEF top
  <2>2. QED
    BY <1>1, <1>3, <2>1 DEF Chains
<1> HIDE DEF D, top
<1>5. n = 1 => FlattenSeq(top) = top[1]
  <2> SUFFICES ASSUME n = 1 PROVE FlattenSeq(top) = top[1]
    OBVIOUS
  <2> DEFINE a == top[1]
  <2>1. a \in Seq(D)
    BY <1>3
  <2>2. top = <<a>>
    BY <1>3
  <2> HIDE DEF a
  <2>3. FlattenSeq(<<a>>) = a
    BY <2>1, FlattenOne
  <2>4. QED
    BY <2>2, <2>3 DEF a
<1>6. n = 2 => FlattenSeq(top) = top[1] \o top[2]
  <2> SUFFICES ASSUME n = 2 PROVE FlattenSeq(top) = top[1] \o top[2]
    OBVIOUS
  <2> DEFINE a == top[1]
             b == top[2]
             one == <<a>>
  <2>1. a \in Seq(D) /\ b \in Seq(D) /\ one \in Seq(Seq(D))
    BY <1>3
  <2>2. top = Append(one, b)
    BY <1>3
  <2> HIDE DEF a, b
  <2>3. FlattenSeq(one) = a
    BY <2>1, FlattenOne
  <2> HIDE DEF one
  <2>4. FlattenSeq(Append(one, b)) = a \o b
    BY <2>1, <2>3, FlattenAppend
  <2>5. QED
    BY <2>2, <2>4 DEF a, b
<1>7. QED
  BY <1>2, <1>3, <1>4, <1>5, <1>6 DEF D, top

\* A block keeps the invariant.
LEMMA BlockStep ==
  ASSUME IInv, Block
  PROVE  IInv'
<1>1. PICK n \in 0 .. Len(stack) : Reduce(n, Node("BLOCK", FALSE, FALSE, List(node, Topmost(n)), <<>>))
  BY DEF Block
<1> DEFINE D == 1 .. Len(node)
           top == Topmost(n)
           body == List(node, top)
<1>2. phase = "parse"
  BY <1>1 DEF Reduce
<1>3. stack \in Seq(Seq(D)) /\ Chains(node, stack)
  BY <1>2, ParserFacts
<1>4. top \in Seq(Seq(D)) /\ Len(top) = n /\ \A i \in 1 .. n : top[i] = stack[Len(stack) - n + i]
  <2> HIDE DEF D
  <2>1. QED
    BY <1>3, LastOnes DEF Topmost
<1> HIDE DEF top
<1>5. ASSUME NEW k \in DOMAIN top PROVE Chain(node, top[k])
  <2>1. k \in 1 .. n /\ Len(stack) - n + k \in DOMAIN stack
    BY <1>3, <1>4
  <2>2. QED
    BY <1>3, <1>4, <2>1 DEF Chains
<1>6. top \in Seq(Seq(Nat))
  <2> DEFINE U == Seq(D)
             V == Seq(Nat)
  <2>1. U \subseteq V
    <3>0. D \subseteq Nat
      OBVIOUS
    <3> HIDE DEF D
    <3>1. \A l \in Seq(D) : l \in Seq(Nat)
      BY <3>0, SeqMonotonic
    <3>2. QED
      BY <3>1
  <2>2. top \in Seq(U)
    BY <1>4
  <2> HIDE DEF U, V
  <2>3. top \in Seq(V)
    BY <2>1, <2>2, SeqMonotonic
  <2>4. QED
    BY <2>3 DEF V
<1>7. body = FlattenSeq(top)
  BY <1>5, <1>6, ListOfChains
<1> DEFINE kind == "BLOCK"
           refused == FALSE
<1>8. /\ kind \in {"BLOCK", "FUNCTION"} \cup Branching /\ refused \in BOOLEAN
      /\ refused => kind \in Declarations
      /\ kind = "FUNCTION" => Chain(node, body)
      /\ Reduce(n, Node(kind, refused, FALSE, body, <<>>))
  BY <1>1 DEF top
<1> HIDE DEF body, kind, refused
<1>9. body = FlattenSeq(Topmost(n))
  BY <1>7 DEF top
<1>10. QED
  BY <1>8, <1>9, BodyStep

\* A condition or a loop with one body, and a function.
LEMMA OneBodyStep ==
  ASSUME IInv, stack # <<>>, NEW kind \in {"FUNCTION"} \cup Branching,
         NEW refused \in BOOLEAN, refused => kind = "FUNCTION",
         Reduce(1, Node(kind, refused, FALSE, Topmost(1)[1], <<>>))
  PROVE  IInv'
<1> DEFINE n == 1
           body == Topmost(n)[1]
<1>1. phase = "parse"
  BY DEF Reduce
<1>2. stack \in Seq(Seq(1 .. Len(node)))
  BY <1>1, ParserFacts
<1>3. n \in 1 .. 2 /\ n <= Len(stack) /\ n = 1
  BY <1>2
<1>4. /\ kind \in {"BLOCK", "FUNCTION"} \cup Branching
      /\ refused => kind \in Declarations
      /\ Reduce(n, Node(kind, refused, FALSE, body, <<>>))
  BY DEF Declarations
<1> HIDE DEF n
<1>5. n \in 0 .. Len(stack) /\ Chain(node, body) /\ FlattenSeq(Topmost(n)) = body
  BY <1>1, <1>3, TopFacts
<1> HIDE DEF body
<1>6. QED
  BY <1>4, <1>5, BodyStep

\* An if with an else keeps the invariant.
LEMMA IfElseStep ==
  ASSUME IInv, IfElse
  PROVE  IInv'
<1> DEFINE n == 2
           a == Topmost(n)[1]
           b == Topmost(n)[2]
           s == Node("IF_ELSE", FALSE, FALSE, a, b)
<1>1. phase = "parse" /\ Reduce(n, s) /\ n <= Len(stack)
  BY DEF Reduce, IfElse
<1>2. Forest(node, text) /\ Len(node) \in Nat
  BY <1>1, ParserFacts
<1>3. n \in 1 .. 2 /\ n = 2
  OBVIOUS
<1> HIDE DEF n
<1>4. /\ n \in 0 .. Len(stack)
      /\ a \in Seq(1 .. Len(node)) /\ b \in Seq(1 .. Len(node))
      /\ FlattenSeq(Topmost(n)) = a \o b
  <2>1. /\ n \in 0 .. Len(stack)
        /\ \A i \in 1 .. n : Topmost(n)[i] \in Seq(1 .. Len(node))
        /\ n = 2 => FlattenSeq(Topmost(n)) = Topmost(n)[1] \o Topmost(n)[2]
    BY <1>1, <1>3, TopFacts
  <2>2. 1 \in 1 .. n /\ 2 \in 1 .. n
    BY <1>3
  <2>3. QED
    BY <1>3, <2>1, <2>2
<1> HIDE DEF a, b
<1>5. a \in Seq(Nat) /\ b \in Seq(Nat)
  BY <1>4
<1>6. s \in Nodes /\ s.body = a /\ s.else_body = b /\ s.kind = "IF_ELSE" /\ s.refused = FALSE
  BY <1>5 DEF Node, Nodes, Kinds, Branching
<1> HIDE DEF s
<1>7. Append(node, s)[Len(node) + 1] = s
  BY <1>2, <1>6 DEF Forest
<1>8. Formed(Append(node, s), Len(node) + 1)
  BY <1>6, <1>7 DEF Formed, Branching
<1>9. QED
  BY <1>1, <1>4, <1>6, <1>8, ReduceStep

\* A print statement, a node for each item, keeps the invariant.
LEMMA PrintStep ==
  ASSUME IInv, PrintItems
  PROVE  IInv'
<1>1. PICK n \in 1 .. MaxItems : \E silent \in [1 .. n -> BOOLEAN] :
        LET items == [i \in 1 .. n |-> Len(node) + i]
        IN  /\ phase = "parse" /\ Len(node) + n <= MaxNodes
            /\ node' = node \o [i \in 1 .. n |-> Node("PRINT", FALSE, silent[i], <<>>, <<>>)]
            /\ stack' = Append(stack, items)
            /\ text' = text \o [i \in 1 .. n |-> <<items[i]>>]
            /\ UNCHANGED <<phase, program, source, visited, generated>>
  BY DEF PrintItems
<1>2. PICK silent \in [1 .. n -> BOOLEAN] :
        LET items == [i \in 1 .. n |-> Len(node) + i]
        IN  /\ phase = "parse" /\ Len(node) + n <= MaxNodes
            /\ node' = node \o [i \in 1 .. n |-> Node("PRINT", FALSE, silent[i], <<>>, <<>>)]
            /\ stack' = Append(stack, items)
            /\ text' = text \o [i \in 1 .. n |-> <<items[i]>>]
            /\ UNCHANGED <<phase, program, source, visited, generated>>
  BY <1>1
<1> DEFINE items == [i \in 1 .. n |-> Len(node) + i]
           l == FlattenSeq(stack)
<1>3. n \in Nat \ {0} /\ phase = "parse"
  BY <1>2, StatementsAssumption
<1>4. /\ Forest(node, text) /\ Shaped(node) /\ Len(node) \in Nat
      /\ stack \in Seq(Seq(1 .. Len(node))) /\ Chains(node, stack)
      /\ l \in Seq(1 .. Len(node)) /\ Complete(node, text, l)
  BY <1>3, ParserFacts
<1> HIDE DEF l
<1> DEFINE more == [i \in 1 .. n |-> Node("PRINT", FALSE, silent[i], <<>>, <<>>)]
           texts == [i \in 1 .. n |-> <<items[i]>>]
<1>10. node' = node \o more /\ text' = text \o texts
  BY <1>2
<1>5. /\ Len(node') = Len(node) + n
      /\ Grown(node, text, node', text') /\ Forest(node', text') /\ Shaped(node')
      /\ items \in Seq(1 .. Len(node')) /\ Chain(node', items)
      /\ Complete(node', text', l \o items)
  <2> DEFINE h2 == node \o more
             t2 == text \o texts
  <2>1. /\ Len(h2) = Len(node) + n
        /\ Grown(node, text, h2, t2) /\ Forest(h2, t2) /\ Shaped(h2)
        /\ items \in Seq(1 .. Len(h2)) /\ Chain(h2, items)
        /\ Complete(h2, t2, l \o items)
    BY <1>3, <1>4, Printed
  <2>2. node' = h2 /\ text' = t2
    BY <1>10
  <2> HIDE DEF h2, t2, items, more, texts
  <2>3. QED
    BY <2>1, <2>2
<1>6. stack' = Append(stack, items) /\ Len(node') <= MaxNodes
  BY <1>2, <1>5
<1> HIDE DEF items
<1>7. Complete(node', text', FlattenSeq(stack) \o items)
  BY <1>5 DEF l
<1>8. UNCHANGED <<phase, program, source, visited, generated>>
  BY <1>2
<1>9. QED
  BY <1>3, <1>4, <1>5, <1>6, <1>7, <1>8, Pushed

\* Nothing is kept of a program that is not followed any further.
LEMMA FinishStep ==
  ASSUME IInv, NEW how \in {"failed", "crashed", "undefined"}, Finish(how)
  PROVE  IInv'
<1>1. /\ phase' = how /\ node' = <<>> /\ stack' = <<>> /\ program' = <<>>
      /\ text' = <<>> /\ generated' = <<>>
      /\ visited' = [pass \in DOMAIN visited |-> <<>>]
  BY DEF Finish
<1>2. DOMAIN visited = Passes
  BY DEF IInv, Results
<1>3. Results'
  BY <1>1, <1>2, NoResults
<1>4. Forest(node', text') /\ Shaped(node')
  BY <1>1 DEF Forest, Shaped
<1>5. Parsing' /\ Followed' /\ Gone'
  BY <1>1 DEF Parsing, Followed, Gone, Later
<1>6. phase' \in Phases /\ Len(node') <= MaxNodes
  BY <1>1, StatementsAssumption DEF Phases
<1>7. QED
  BY <1>3, <1>4, <1>5, <1>6 DEF IInv

\* Every step of the parser.
LEMMA ParserStep ==
  ASSUME IInv,
         Expr \/ Return \/ Value \/ Plain \/ PrintItems \/ Block \/ If \/ IfElse \/ Function \/ ParseFailed
  PROVE  IInv'
<1>1. CASE Expr
  BY <1>1, SimpleStep DEF Expr
<1>2. CASE Return
  BY <1>2, SimpleStep DEF Return
<1>3. CASE Value \/ Plain
  BY <1>3, SimpleStep DEF Value, Plain, Declarations
<1>4. CASE PrintItems
  BY <1>4, PrintStep
<1>5. CASE Block
  BY <1>5, BlockStep
<1>6. CASE If
  <2>1. PICK kind \in Branching : Reduce(1, Node(kind, FALSE, FALSE, Topmost(1)[1], <<>>))
    BY <1>6 DEF If
  <2> DEFINE refused == FALSE
  <2>2. refused \in BOOLEAN /\ ~refused /\ Reduce(1, Node(kind, refused, FALSE, Topmost(1)[1], <<>>))
    BY <2>1
  <2> HIDE DEF refused
  <2>3. stack # <<>> /\ kind \in {"FUNCTION"} \cup Branching
    BY <1>6 DEF If
  <2>4. QED
    BY <2>2, <2>3, OneBodyStep
<1>7. CASE IfElse
  BY <1>7, IfElseStep
<1>8. CASE Function
  <2>1. PICK refused \in BOOLEAN : Reduce(1, Node("FUNCTION", refused, FALSE, Topmost(1)[1], <<>>))
    BY <1>8 DEF Function
  <2> DEFINE kind == "FUNCTION"
  <2>2. kind = "FUNCTION" /\ Reduce(1, Node(kind, refused, FALSE, Topmost(1)[1], <<>>))
    BY <2>1
  <2> HIDE DEF kind
  <2>3. stack # <<>> /\ kind \in {"FUNCTION"} \cup Branching
    BY <1>8, <2>2 DEF Function
  <2>4. QED
    BY <2>2, <2>3, OneBodyStep
<1>9. CASE ParseFailed
  BY <1>9, FinishStep DEF ParseFailed
<1>10. QED
  BY <1>1, <1>2, <1>3, <1>4, <1>5, <1>6, <1>7, <1>8, <1>9

-----------------------------------------------------------------------------
(* The passes.                                                             *)

\* What lists put together have in them.
LEMMA FlattenRange ==
  ASSUME NEW S, NEW ss \in Seq(Seq(S))
  PROVE  \A x : x \in Range(FlattenSeq(ss)) <=> \E k \in DOMAIN ss : x \in Range(ss[k])
<1> DEFINE n == Len(ss)
           D == 1 .. n
           l == [k \in D |-> k]
<1>1. n \in Nat /\ DOMAIN ss = D /\ \A k \in D : ss[k] \in Seq(S)
  OBVIOUS
<1>2. l \in Seq(D) /\ DOMAIN l = D /\ \A k \in D : l[k] = k
  BY <1>1
<1>3. Range(l) = D
  BY <1>2 DEF Range
<1>4. ss = [k \in D |-> ss[k]]
  BY <1>1
<1> HIDE DEF l, D
<1>5. [k \in DOMAIN l |-> ss[l[k]]] = ss
  BY <1>2, <1>4
<1>6. Each(ss, l) = FlattenSeq(ss)
  BY <1>5 DEF Each
<1>7. Gives(ss, D, S)
  BY <1>1 DEF Gives
<1>8. \A x : x \in Range(Each(ss, l)) <=> \E c \in Range(l) : x \in Range(ss[c])
  BY <1>2, <1>7, EachRange
<1>9. QED
  BY <1>1, <1>3, <1>6, <1>8

\* The end of the parser: the lists on the stack are the program.
LEMMA ParsedStep ==
  ASSUME IInv, Parsed
  PROVE  IInv'
<1> DEFINE D == 1 .. Len(node)
           l == FlattenSeq(stack)
<1>1. /\ phase = "parse" /\ phase' = "parsed" /\ program' = List(node, stack)
      /\ \A i \in DOMAIN stack : node[stack[i][1]].kind \in Declarations
      /\ source' = Each(text, l) /\ stack' = <<>>
      /\ UNCHANGED <<node, text, visited, generated>>
  BY DEF Parsed
<1>2. /\ Forest(node, text) /\ Shaped(node) /\ Len(node) \in Nat
      /\ stack \in Seq(Seq(D)) /\ Chains(node, stack)
      /\ l \in Seq(D) /\ Complete(node, text, l)
  BY <1>1, ParserFacts
<1>3. stack \in Seq(Seq(Nat))
  <2> DEFINE U == Seq(D)
             V == Seq(Nat)
  <2>1. U \subseteq V
    <3>0. D \subseteq Nat
      OBVIOUS
    <3> HIDE DEF D
    <3>1. \A s \in Seq(D) : s \in Seq(Nat)
      BY <3>0, SeqMonotonic
    <3>2. QED
      BY <3>1
  <2>2. stack \in Seq(U)
    BY <1>2
  <2> HIDE DEF U, V
  <2>3. stack \in Seq(V)
    BY <2>1, <2>2, SeqMonotonic
  <2>4. QED
    BY <2>3 DEF V
<1>4. program' = l
  <2>1. \A k \in DOMAIN stack : Chain(node, stack[k])
    BY <1>2 DEF Chains
  <2>2. QED
    BY <1>1, <1>3, <2>1, ListOfChains
<1>5. ASSUME NEW k \in DOMAIN l PROVE node[l[k]].kind \in Declarations
  <2>1. l[k] \in Range(l)
    BY DEF Range
  <2>2. PICK j \in DOMAIN stack : l[k] \in Range(stack[j])
    <3>1. stack \in Seq(Seq(D))
      BY <1>2
    <3> HIDE DEF D
    <3>2. QED
      BY <2>1, <3>1, FlattenRange
  <2> DEFINE s == stack[j]
  <2>3. s \in Seq(D) /\ Chain(node, s) /\ node[s[1]].kind \in Declarations
    BY <1>1, <1>2 DEF Chains
  <2>4. l[k] \in Range(s)
    BY <2>2
  <2> HIDE DEF s
  <2>5. Len(s) \in Nat /\ DOMAIN s = 1 .. Len(s) /\ s # <<>>
    BY <2>3 DEF Chain
  <2>6. Len(s) = 1
    <3>1. 1 \in DOMAIN s
      BY <2>3, <2>5
    <3>2. node[s[1]].kind # "PRINT"
      BY <2>3 DEF Declarations
    <3>3. QED
      BY <2>3, <3>1, <3>2 DEF Chain
  <2>7. l[k] = s[1]
    BY <2>4, <2>5, <2>6 DEF Range
  <2>8. QED
    BY <2>3, <2>7
<1> HIDE DEF l
<1>6. Followed'
  <2>1. Complete(node', text', program') /\ source' = Each(text', program')
    BY <1>1, <1>2, <1>4
  <2>2. \A k \in DOMAIN program' : node'[program'[k]].kind \in Declarations
    BY <1>1, <1>4, <1>5
  <2>3. QED
    BY <1>1, <2>1, <2>2 DEF Followed
<1>7. Results'
  <2>1. visited' = [pass \in Passes |-> <<>>] /\ generated' = <<>>
    BY <1>1, NothingVisited DEF IInv
  <2>2. QED
    BY <1>1, <2>1, NoResults
<1>8. Parsing' /\ Gone' /\ phase' \in Phases
  BY <1>1 DEF Parsing, Gone, Phases
<1>9. Len(node') <= MaxNodes /\ Forest(node', text') /\ Shaped(node')
  BY <1>1 DEF IInv
<1>10. QED
  BY <1>6, <1>7, <1>8, <1>9 DEF IInv

\* What the passes start from.
LEMMA FollowedFacts ==
  ASSUME IInv, phase \in Later
  PROVE  /\ Forest(node, text) /\ Shaped(node) /\ Len(node) \in Nat
         /\ DOMAIN node = 1 .. Len(node)
         /\ Complete(node, text, program) /\ source = Each(text, program)
         /\ source \in Seq(Nat) /\ source \in Seq(1 .. Len(node))
         /\ Range(source) = 1 .. Len(node) /\ Len(source) = Len(node)
         /\ Resolvable = Reachable(node, text)
<1>1. Forest(node, text) /\ Shaped(node) /\ Complete(node, text, program) /\ source = Each(text, program)
  BY DEF IInv, Followed
<1>2. Len(node) \in Nat /\ DOMAIN node = 1 .. Len(node)
  BY <1>1 DEF Forest
<1>3. /\ source \in Seq(Nat) /\ source \in Seq(1 .. Len(node))
      /\ Range(source) = 1 .. Len(node)
  BY <1>1, CompleteText
<1>4. Len(source) = Len(node)
  BY <1>1 DEF Complete
<1>5. Resolvable = Reachable(node, text)
  BY DEF Resolvable, Reachable
<1>6. QED
  BY <1>1, <1>2, <1>3, <1>4, <1>5

\* What a pass visits.
LEMMA Visits ==
  ASSUME IInv, phase \in Later, NEW pass
  PROVE  /\ Each(Walk(node, pass), program)
            = IF pass = "resolve" THEN Only(source, Resolvable) ELSE source
         /\ Each(Walk(node, pass), program) \in Seq(Nat)
<1>1. /\ Forest(node, text) /\ Complete(node, text, program) /\ source = Each(text, program)
      /\ source \in Seq(Nat) /\ Resolvable = Reachable(node, text)
  BY FollowedFacts
<1>2. Each(Walk(node, pass), program) = IF pass = "resolve" THEN Only(source, Resolvable) ELSE source
  BY <1>1, WalkedList
<1>3. Only(source, Resolvable) \in Seq(Nat)
  BY <1>1, OnlyTyped
<1>4. QED
  BY <1>1, <1>2, <1>3

\* The order of the passes.
Follows(pass, before, after) ==
  \/ pass = "resolve" /\ before = "parsed" /\ after = "resolved"
  \/ pass = "typecheck" /\ before = "resolved" /\ after = "checked"
  \/ pass = "fold" /\ before = "checked" /\ after = "folded"

\* A pass that comes to its end.
LEMMA PassStep ==
  ASSUME IInv, NEW pass, NEW before, NEW after, Follows(pass, before, after),
         Pass(pass, before, after)
  PROVE  IInv'
<1> DEFINE w == Each(Walk(node, pass), program)
<1>1. /\ phase = before /\ phase' = after
      /\ visited' = [visited EXCEPT ![pass] = w]
      /\ UNCHANGED <<node, stack, program, text, source, generated>>
  BY DEF Pass
<1>2. before \in Later /\ after \in Later /\ after # "parsed" /\ after # "generated" /\ before # "generated" /\ pass \in Passes
  BY DEF Follows, Later, Passes
<1>3. /\ after \in Since(pass)
      /\ \A p \in Passes : p # pass => (after \in Since(p) <=> before \in Since(p))
  BY DEF Follows, Passes, Since
<1>4. w = (IF pass = "resolve" THEN Only(source, Resolvable) ELSE source) /\ w \in Seq(Nat)
  BY <1>1, <1>2, Visits
<1> HIDE DEF w
<1>5. visited \in [Passes -> Seq(Nat)] /\ WalkedInOrder /\ generated = <<>>
      /\ \A p \in Passes : phase \notin Since(p) => visited[p] = <<>>
  BY <1>1, <1>2 DEF IInv, Results
<1>6. visited' \in [Passes -> Seq(Nat)] /\ visited'[pass] = w
      /\ \A p \in Passes : p # pass => visited'[p] = visited[p]
  BY <1>1, <1>2, <1>4, <1>5
<1>7. Resolvable' = Resolvable /\ source' = source
  BY <1>1 DEF Resolvable
<1>8. WalkedInOrder'
  <2>1. ASSUME NEW p \in Passes, after \in Since(p)
        PROVE  visited'[p] = IF p = "resolve" THEN Only(source, Resolvable) ELSE source
    <3>1. CASE p = pass
      BY <1>4, <1>6, <3>1
    <3>2. CASE p # pass
      <4>1. phase \in Since(p) /\ p \in DOMAIN visited
        BY <1>1, <1>3, <1>5, <2>1, <3>2
      <4>2. QED
        BY <1>5, <1>6, <3>2, <4>1 DEF WalkedInOrder
    <3>3. QED
      BY <3>1, <3>2
  <2>2. DOMAIN visited' = Passes
    BY <1>6
  <2>3. QED
    BY <1>1, <1>7, <2>1, <2>2 DEF WalkedInOrder
<1>9. \A p \in Passes : phase' \notin Since(p) => visited'[p] = <<>>
  BY <1>1, <1>3, <1>5, <1>6
<1>10. GeneratedInOrder'
  BY <1>1, <1>2 DEF GeneratedInOrder
<1>11. Results'
  BY <1>1, <1>5, <1>6, <1>8, <1>9, <1>10 DEF Results
<1>12. Followed'
  BY <1>1, <1>2 DEF IInv, Followed
<1>13. Parsing' /\ Gone' /\ phase' \in Phases
  BY <1>1, <1>2 DEF Parsing, Gone, Phases, Later
<1>14. Len(node') <= MaxNodes /\ Forest(node', text') /\ Shaped(node')
  BY <1>1 DEF IInv
<1>15. QED
  BY <1>11, <1>12, <1>13, <1>14 DEF IInv

\* The type checker keeps the invariant, whether it comes to its end or not.
LEMMA TypecheckStep ==
  ASSUME IInv, Typecheck
  PROVE  IInv'
<1> DEFINE pass == "typecheck"
           before == "resolved"
           after == "checked"
<1>1. CASE Pass(pass, before, after)
  <2>1. Follows(pass, before, after)
    BY DEF Follows
  <2> HIDE DEF pass, before, after
  <2>2. QED
    BY <1>1, <2>1, PassStep
<1>2. CASE Fault
  BY <1>2, FinishStep DEF Fault
<1>3. QED
  BY <1>1, <1>2 DEF Typecheck

\* The nodes the property names are those generation is to give.
LEMMA TargetIs ==
  ASSUME DOMAIN node = 1 .. Len(node)
  PROVE  {i \in DOMAIN node : /\ node[i].kind \in Generated
                              /\ Around(i, Branching) = {}
                              /\ \A j, k \in Around(i, {"FUNCTION"}) : j = k}
         = Target(node, text, 1 .. Len(node))
<1> DEFINE D == 1 .. Len(node)
<1>1. ASSUME NEW i \in D
      PROVE  /\ Around(i, Branching) = {} <=> \A j \in Above(text, D, i) : node[j].kind \notin Branching
             /\ (\A j, k \in Around(i, {"FUNCTION"}) : j = k)
                <=> \A j, k \in Above(text, D, i) :
                      node[j].kind = "FUNCTION" /\ node[k].kind = "FUNCTION" => j = k
  <2> DEFINE A == Above(text, D, i)
  <2>1. Around(i, Branching) = {j \in A : node[j].kind \in Branching}
    BY DEF Around, Above
  <2>2. Around(i, {"FUNCTION"}) = {j \in A : node[j].kind = "FUNCTION"}
    BY DEF Around, Above
  <2> HIDE DEF A
  <2>3. Around(i, Branching) = {} <=> \A j \in A : node[j].kind \notin Branching
    BY <2>1
  <2>4. (\A j, k \in Around(i, {"FUNCTION"}) : j = k)
        <=> \A j, k \in A : node[j].kind = "FUNCTION" /\ node[k].kind = "FUNCTION" => j = k
    BY <2>2
  <2>5. QED
    BY <2>3, <2>4 DEF A
<1>2. QED
  BY <1>1 DEF Target, OfInterest

\* A declaration without a symbol was refused, or is inside one that was.
LEMMA UnresolvedFacts ==
  ASSUME IInv, phase \in Later, NEW i \in Unresolved(node, program)
  PROVE  node[i].kind \in Declarations /\ (node[i].refused \/ i \notin Resolvable)
<1> DEFINE R == Resolvable
           w == Each(Walk(node, "resolve"), program)
<1>1. source \in Seq(Nat) /\ Range(source) = 1 .. Len(node) /\ DOMAIN node = 1 .. Len(node)
  BY FollowedFacts
<1>2. w = Only(source, R)
  BY Visits
<1> HIDE DEF R
<1>3. Range(Only(source, R)) = Range(source) \cap R
  BY <1>1, OnlyRange
<1>4. /\ i \in DOMAIN node /\ node[i].kind \in Declarations
      /\ node[i].refused \/ i \notin Range(w)
  BY DEF Unresolved
<1>5. QED
  BY <1>1, <1>2, <1>3, <1>4 DEF R

\* What the property says list is to be taken from, and which of it list may have.
Due(list) ==
  {i \in DOMAIN node :
     /\ node[i].kind \in Generated
     /\ Around(i, Branching) = {}
     /\ \A j, k \in Around(i, {"FUNCTION"}) : j = k
     /\ i \notin Mute(node, program)
     /\ \/ i \in Resolvable /\ ~node[i].refused
        \/ node[i].kind \notin Declarations
        \/ i \in Range(list)}

AsDue(list) == list = Only(Each(text, cfg_construct(node, program)), Due(list))

\* The property, said with these.
LEMMA GeneratedAsDue ==
  GeneratedInOrder <=> (phase = "generated" => AsDue(generated))
BY Zenon DEF GeneratedInOrder, AsDue, Due

\* What is left of the nodes that are to be generated when those of a type there
\* is no case for are left out, and some of those that were not resolved.
LEMMA GeneratedIs ==
  ASSUME IInv, phase = "folded", NEW lost, lost \subseteq Unresolved(node, program),
         NEW list, list = Only(Each(cfg_codegen(node), cfg_construct(node, program)),
                               {i \in DOMAIN node \ (Mute(node, program) \cup lost) :
                                  node[i].kind \in Generated})
  PROVE  AsDue(list)
<1> DEFINE D == 1 .. Len(node)
           reached == Each(cfg_codegen(node), cfg_construct(node, program))
           src == Each(text, cfg_construct(node, program))
           K == OfInterest(node)
           W == Target(node, text, D)
           Kept == D \ (Mute(node, program) \cup lost)
           Q(i) == \/ i \in Resolvable /\ ~node[i].refused
                   \/ node[i].kind \notin Declarations
                   \/ i \in Range(list)
           P == Due(list)
<1>1. phase \in Later
  BY DEF Later
<1>2. /\ Forest(node, text) /\ Shaped(node) /\ DOMAIN node = D
      /\ Complete(node, text, program)
  BY <1>1, FollowedFacts
<1>3. \A k \in DOMAIN program : node[program[k]].kind \in Declarations
  BY <1>1 DEF IInv, Followed
<1>4. /\ reached \in Seq(Nat) /\ src \in Seq(Nat) /\ Range(src) \subseteq D
      /\ Only(reached, K) = Only(src, W)
  BY <1>2, <1>3, GeneratedList
<1>5. {i \in DOMAIN node \ (Mute(node, program) \cup lost) : node[i].kind \in Generated} = K \cap Kept
  BY <1>2 DEF OfInterest
<1>6. P = {i \in W : i \notin Mute(node, program) /\ Q(i)}
  <2>1. W = {i \in DOMAIN node : /\ node[i].kind \in Generated
                                 /\ Around(i, Branching) = {}
                                 /\ \A j, k \in Around(i, {"FUNCTION"}) : j = k}
    BY <1>2, TargetIs
  <2>2. P = {i \in DOMAIN node : /\ node[i].kind \in Generated
                                 /\ Around(i, Branching) = {}
                                 /\ \A j, k \in Around(i, {"FUNCTION"}) : j = k
                                 /\ i \notin Mute(node, program)
                                 /\ Q(i)}
    BY Zenon DEF Due
  <2> HIDE DEF Q, W, P
  <2>3. QED
    BY <2>1, <2>2
<1>7. list = Only(reached, K \cap Kept)
  BY <1>5
<1> HIDE DEF reached, src, W, K, Kept, P
<1>8. list = Only(src, W \cap Kept)
  <2>1. Only(Only(reached, K), Kept) = Only(reached, K \cap Kept)
    BY <1>4, OnlyTwice
  <2>2. Only(Only(src, W), Kept) = Only(src, W \cap Kept)
    BY <1>4, OnlyTwice
  <2>3. QED
    BY <1>4, <1>7, <2>1, <2>2
<1>9. Range(list) = Range(src) \cap (W \cap Kept)
  BY <1>4, <1>8, OnlyRange
<1>10. ASSUME NEW x \in Range(src) PROVE x \in W \cap Kept <=> x \in P
  <2>1. x \in D
    BY <1>4
  <2>2. x \in lost => x \in Range(list) \/ ~Q(x)
    <3>1. x \in lost => node[x].kind \in Declarations /\ (node[x].refused \/ x \notin Resolvable)
      BY <1>1, UnresolvedFacts
    <3>2. QED
      BY <3>1
  <2>3. x \in Range(list) <=> x \in W \cap Kept
    BY <1>9
  <2>4. x \in Range(list) => Q(x)
    OBVIOUS
  <2>5. x \in P <=> x \in W /\ x \notin Mute(node, program) /\ Q(x)
    BY <1>6
  <2>6. x \in Kept <=> x \notin Mute(node, program) /\ x \notin lost
    BY <2>1 DEF Kept
  <2> HIDE DEF Q
  <2>7. QED
    BY <2>2, <2>3, <2>4, <2>5, <2>6
<1>11. Only(src, W \cap Kept) = Only(src, P)
  BY <1>4, <1>10, OnlySame
<1>12. QED
  BY <1>8, <1>11 DEF src, P, AsDue

\* The code generator keeps the invariant, whether it comes to its end or not.
LEMMA CodegenStep ==
  ASSUME IInv, Codegen
  PROVE  IInv'
<1> DEFINE U == Unresolved(node, program)
           reached == Each(cfg_codegen(node), cfg_construct(node, program))
           Left(lost) == {i \in DOMAIN node \ (Mute(node, program) \cup lost) :
                            node[i].kind \in Generated}
<1>1. CASE Fault
  BY <1>1, FinishStep DEF Fault
<1>2. CASE /\ phase = "folded" /\ phase' = "generated"
           /\ \E lost \in SUBSET (U \cap Range(reached)) : generated' = Only(reached, Left(lost))
           /\ UNCHANGED <<node, stack, program, text, source, visited>>
  <2>1. phase \in Later
    BY <1>2 DEF Later
  <2>2. /\ Forest(node, text) /\ Shaped(node)
        /\ Complete(node, text, program) /\ source = Each(text, program)
    BY <2>1, FollowedFacts
  <2>3. stack = <<>> /\ \A k \in DOMAIN program : node[program[k]].kind \in Declarations
    BY <1>2, <2>1 DEF IInv, Followed
  <2>4. GeneratedInOrder'
    <3> DEFINE list == generated'
    <3>1. PICK lost \in SUBSET (U \cap Range(reached)) : list = Only(reached, Left(lost))
      BY <1>2
    <3>2. lost \subseteq U
      OBVIOUS
    <3> HIDE DEF list
    <3>3. AsDue(list)
      BY <1>2, <3>1, <3>2, GeneratedIs
    <3>4. AsDue(generated)'
      BY <1>2, <3>3 DEF AsDue, Due, Around, Resolvable, list
    <3>5. QED
      BY <3>4, GeneratedAsDue, PTL
  <2>5. Results
    BY DEF IInv
  <2>6. WalkedInOrder'
    <3>1. \A p \in Passes : "folded" \in Since(p)
      BY DEF Passes, Since
    <3>2. DOMAIN visited = Passes /\ WalkedInOrder
      BY <2>5 DEF Results
    <3>3. \A p \in Passes : visited[p] = IF p = "resolve" THEN Only(source, Resolvable) ELSE source
      BY <1>2, <3>1, <3>2 DEF WalkedInOrder
    <3>4. Resolvable' = Resolvable
      BY <1>2 DEF Resolvable
    <3>5. QED
      BY <1>2, <3>2, <3>3, <3>4 DEF WalkedInOrder
  <2>7. Results'
    <3>1. \A p \in Passes : "generated" \in Since(p)
      BY DEF Passes, Since
    <3>2. visited' \in [Passes -> Seq(Nat)]
      BY <1>2, <2>5 DEF Results
    <3>3. QED
      BY <1>2, <2>4, <2>6, <3>1, <3>2 DEF Results
  <2>8. Followed'
    BY <1>2, <2>2, <2>3 DEF Followed
  <2>9. Parsing' /\ Gone' /\ phase' \in Phases
    BY <1>2 DEF Parsing, Gone, Phases
  <2>10. Len(node') <= MaxNodes /\ Forest(node', text') /\ Shaped(node')
    BY <1>2 DEF IInv
  <2>11. QED
    BY <2>7, <2>8, <2>9, <2>10 DEF IInv
<1>3. QED
  BY <1>1, <1>2 DEF Codegen

-----------------------------------------------------------------------------
(* The theorems.                                                           *)

\* The invariant holds of the program that has read nothing.
LEMMA Start ==
  ASSUME Init
  PROVE  IInv
<1>1. /\ node = <<>> /\ stack = <<>> /\ phase = "parse" /\ program = <<>>
      /\ text = <<>> /\ generated = <<>>
      /\ visited = [pass \in Passes |-> <<>>]
  BY DEF Init, Passes
<1>2. Forest(node, text) /\ Shaped(node)
  BY <1>1 DEF Forest, Shaped
<1>3. Complete(node, text, FlattenSeq(stack))
  <2>1. FlattenSeq(stack) = <<>> /\ Each(text, <<>>) = <<>>
    BY <1>1, FlattenEmpty, EachEmpty
  <2> DEFINE z == <<>>
  <2>2. z \in Seq(1 .. Len(node)) /\ Len(z) = 0 /\ Len(node) = 0 /\ DOMAIN z = {}
    BY <1>1
  <2>3. 1 .. Len(node) = {}
    BY <2>2
  <2>4. FlattenSeq(stack) = z /\ Each(text, z) = z
    BY <2>1
  <2> HIDE DEF z
  <2>5. Complete(node, text, z)
    BY <2>2, <2>3, <2>4 DEF Complete, Apart
  <2>6. QED
    BY <2>4, <2>5
<1>4. Parsing
  BY <1>1, <1>3 DEF Parsing
<1>5. Followed /\ Gone
  BY <1>1 DEF Followed, Gone, Later
<1>6. Results
  <2>1. \A pass \in Passes : phase \notin Since(pass)
    BY <1>1 DEF Passes, Since
  <2>2. DOMAIN visited = Passes /\ \A pass \in Passes : visited[pass] = <<>>
    BY <1>1
  <2>3. WalkedInOrder
    BY <2>1, <2>2 DEF WalkedInOrder
  <2>4. GeneratedInOrder
    BY <1>1 DEF GeneratedInOrder
  <2>5. visited \in [Passes -> Seq(Nat)]
    BY <1>1
  <2>6. QED
    BY <1>1, <2>1, <2>2, <2>3, <2>4, <2>5 DEF Results
<1>7. phase \in Phases /\ Len(node) <= MaxNodes
  BY <1>1, StatementsAssumption DEF Phases
<1>8. QED
  BY <1>2, <1>4, <1>5, <1>6, <1>7 DEF IInv

\* Every step keeps the invariant.
LEMMA Step ==
  ASSUME IInv, [Next]_vars
  PROVE  IInv'
<1>1. CASE Expr \/ Return \/ Value \/ Plain \/ PrintItems \/ Block \/ If \/ IfElse \/ Function \/ ParseFailed
  BY <1>1, ParserStep
<1>2. CASE Parsed
  BY <1>2, ParsedStep
<1>3. CASE Resolve
  <2> DEFINE pass == "resolve"
             before == "parsed"
             after == "resolved"
  <2>1. Pass(pass, before, after) /\ Follows(pass, before, after)
    BY <1>3 DEF Resolve, Follows
  <2> HIDE DEF pass, before, after
  <2>2. QED
    BY <2>1, PassStep
<1>4. CASE Typecheck
  BY <1>4, TypecheckStep
<1>5. CASE ConstantFold
  <2> DEFINE pass == "fold"
             before == "checked"
             after == "folded"
  <2>1. Pass(pass, before, after) /\ Follows(pass, before, after)
    BY <1>5 DEF ConstantFold, Follows
  <2> HIDE DEF pass, before, after
  <2>2. QED
    BY <2>1, PassStep
<1>6. CASE Codegen
  BY <1>6, CodegenStep
<1>7. CASE Stopped
  BY <1>7, FinishStep DEF Stopped, Fault
<1>8. CASE UNCHANGED vars
  <2>1. UNCHANGED <<node, stack, phase, program, text, source, visited, generated>>
    BY <1>8 DEF vars
  <2>2. Parsing' /\ Followed' /\ Gone'
    <3>1. Parsing /\ Followed /\ Gone
      BY DEF IInv
    <3>2. Parsing'
      BY <2>1, <3>1 DEF Parsing
    <3>3. Followed'
      BY <2>1, <3>1 DEF Followed
    <3>4. Gone'
      BY <2>1, <3>1 DEF Gone
    <3>5. QED
      BY <3>2, <3>3, <3>4
  <2>3. Results'
    <3>1. Results
      BY DEF IInv
    <3>2. WalkedInOrder'
      BY <2>1, <3>1 DEF Results, WalkedInOrder, Resolvable
    <3>3. GeneratedInOrder'
      <4>1. phase = "generated" => AsDue(generated)
        BY <3>1, GeneratedAsDue DEF Results
      <4> DEFINE list == generated'
      <4>2. UNCHANGED <<phase, node, text, program>> /\ list = generated
        BY <2>1
      <4> HIDE DEF list
      <4>3. ASSUME phase = "generated" PROVE AsDue(generated)'
        <5>1. AsDue(list)
          BY <4>1, <4>2, <4>3
        <5>2. QED
          BY <4>2, <5>1 DEF AsDue, Due, Around, Resolvable, list
      <4>4. (phase = "generated" => AsDue(generated))'
        BY <4>2, <4>3
      <4>5. QED
        BY <4>4, GeneratedAsDue, PTL
    <3>4. QED
      BY <2>1, <3>1, <3>2, <3>3 DEF Results
  <2>4. QED
    BY <2>1, <2>2, <2>3 DEF IInv
<1>9. CASE Ended
  BY <1>8, <1>9 DEF Ended
<1>10. QED
  BY <1>1, <1>2, <1>3, <1>4, <1>5, <1>6, <1>7, <1>8, <1>9 DEF Next

\* The inductive invariant holds: the nodes are a forest whose lists are, put
\* together, the source, and the passes have followed it.
THEOREM Invariance == Spec => []IInv
<1>1. Init => IInv
  BY Start
<1>2. IInv /\ [Next]_vars => IInv'
  BY Step
<1>3. QED
  BY <1>1, <1>2, PTL DEF Spec

\* The variables hold values of their types, and no pass visits more nodes than
\* there are: the parts of a statement were created before it, and all lists
\* are of nodes that exist.
THEOREM TypeCorrect == Spec => []TypeOK
<1>1. IInv => TypeOK
  <2> SUFFICES ASSUME IInv PROVE TypeOK
    OBVIOUS
  <2> DEFINE D == DOMAIN node
  <2>1. Forest(node, text) /\ D = 1 .. Len(node) /\ Len(node) \in Nat /\ Len(text) = Len(node)
    BY DEF IInv, Forest
  <2>2. phase \in Phases /\ Len(node) <= MaxNodes
    BY DEF IInv
  <2>3. phase = "parse" \/ phase \in Later \/ phase \in {"failed", "crashed", "undefined"}
    BY <2>2 DEF Phases, Later
  <2>4. \A i \in D : node[i].body \in Seq(1 .. i - 1) /\ node[i].else_body \in Seq(1 .. i - 1)
    BY <2>1 DEF Forest, Placed
  <2>5. stack \in Seq(Seq(D)) /\ program \in Seq(D)
    <3>1. CASE phase = "parse"
      BY <2>1, <3>1 DEF IInv, Parsing
    <3>2. CASE phase \in Later
      BY <2>1, <3>2 DEF IInv, Followed, Complete
    <3>3. CASE phase \in {"failed", "crashed", "undefined"}
      <4>1. stack = <<>> /\ program = <<>>
        BY <3>3 DEF IInv, Gone
      <4> HIDE DEF D
      <4>2. QED
        BY <4>1
    <3>4. QED
      BY <2>3, <3>1, <3>2, <3>3
  <2>6. Results /\ DOMAIN visited = Passes
    BY DEF IInv, Results
  <2>7. phase \in Later => source \in Seq(D) /\ Len(source) = Len(node)
    BY <2>1, FollowedFacts
  <2>8. ASSUME NEW pass \in Passes
        PROVE  visited[pass] \in Seq(D) /\ Len(visited[pass]) <= Len(node)
    <3>1. CASE phase \notin Since(pass)
      BY <2>1, <2>6, <3>1 DEF Results
    <3>2. CASE phase \in Since(pass)
      <4>1. phase \in Later
        BY <3>2 DEF Since, Passes, Later
      <4>2. source \in Seq(D) /\ Len(source) = Len(node)
        BY <2>7, <4>1
      <4>3. visited[pass] = IF pass = "resolve" THEN Only(source, Resolvable) ELSE source
        BY <2>6, <3>2 DEF Results, WalkedInOrder
      <4> DEFINE R == Resolvable
      <4> HIDE DEF D, R
      <4>4. Only(source, R) \in Seq(D) /\ Len(Only(source, R)) <= Len(source)
        BY <4>2, OnlyTyped, OnlyLen
      <4>5. QED
        BY <2>1, <4>2, <4>3, <4>4 DEF R
    <3>3. QED
      BY <3>1, <3>2
  <2>9. generated \in Seq(D)
    <3>1. CASE phase # "generated"
      BY <2>6, <3>1 DEF Results
    <3>2. CASE phase = "generated"
      <4> DEFINE K == {i \in DOMAIN node :
                        /\ node[i].kind \in Generated
                        /\ Around(i, Branching) = {}
                        /\ \A j, k \in Around(i, {"FUNCTION"}) : j = k
                        /\ i \notin Mute(node, program)
                        /\ \/ i \in Resolvable /\ ~node[i].refused
                           \/ node[i].kind \notin Declarations
                           \/ i \in Range(generated)}
                 src == Each(text, cfg_construct(node, program))
      <4>1. generated = Only(src, K)
        BY <2>6, <3>2 DEF Results, GeneratedInOrder
      <4>2. phase \in Later
        BY <3>2 DEF Later
      <4>3. Complete(node, text, program) /\ Shaped(node)
        BY <4>2, FollowedFacts
      <4>4. \A k \in DOMAIN program : node[program[k]].kind \in Declarations
        BY <4>2 DEF IInv, Followed
      <4>5. src \in Seq(Nat) /\ Range(src) \subseteq D
        BY <2>1, <4>3, <4>4, GeneratedList
      <4> HIDE DEF D, K, src
      <4>6. src \in Seq(D)
        BY <4>5, SeqOfRange
      <4>7. QED
        BY <4>1, <4>6, OnlyTyped
    <3>3. QED
      BY <3>1, <3>2
  <2>10. QED
    BY <2>1, <2>2, <2>4, <2>5, <2>6, <2>8, <2>9 DEF TypeOK
<1>2. QED
  BY <1>1, Invariance, PTL

\* decl_resolve, decl_typecheck and constant_fold_decl each visit every
\* declaration and statement of the program once and in the order of the
\* source, whatever lists the parser made of them; resolution leaves out what is
\* inside a refused declaration, and nothing else.
THEOREM PassesWalkInOrder == Spec => []WalkedInOrder
<1>1. IInv => WalkedInOrder
  BY DEF IInv, Results
<1>2. QED
  BY <1>1, Invariance, PTL

\* When codegen comes to its end, it has generated every global value, local
\* value, print and return in the order of the source, of the declarations up to
\* the first without value and body, except those in a branch, in a loop or in a
\* local function, and prints and globals of a type that codegen.c has no case
\* for.  Of declarations that were not resolved it says only where they stand.
THEOREM CodeFollowsSource == Spec => []GeneratedInOrder
<1>1. IInv => GeneratedInOrder
  BY DEF IInv, Results
<1>2. QED
  BY <1>1, Invariance, PTL
=============================================================================
