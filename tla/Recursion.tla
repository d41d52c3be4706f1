-------------------------------- MODULE Recursion --------------------------------
(***************************************************************************)
(* Induction over numbers and sequences, for sets, and recursion over      *)
(* numbers, for functions.                                                 *)
(***************************************************************************)
EXTENDS Integers, Sequences, SequenceTheorems, WellFoundedInduction, TLAPS

\* The least number principle, for sets.
LEMMA Least ==
  ASSUME NEW S \in SUBSET Nat, S # {}
  PROVE  \E d \in S : \A c \in S : ~(c < d)
<1> DEFINE R == OpToRel(<, Nat)
<1>1. IsWellFoundedOn(R, Nat)
  BY NatLessThanWellFounded
<1>2. \A c, d \in Nat : c < d => <<c, d>> \in R
  BY DEF OpToRel
<1> HIDE DEF R
<1>3. PICK d \in S : \A c \in S : <<c, d>> \notin R
  BY <1>1, WFMin, Zenon
<1>4. QED
  BY <1>2, <1>3

\* The numbers from k up to n are in P, when each one is whose predecessors are.
LEMMA Between ==
  ASSUME NEW k \in Nat, NEW n \in Nat, NEW P,
         \A i \in k .. n : (\A j \in k .. i - 1 : j \in P) => i \in P
  PROVE  k .. n \subseteq P
<1> DEFINE Bad == {i \in k .. n : i \notin P}
<1>1. ASSUME Bad # {} PROVE FALSE
  <2>1. Bad \in SUBSET Nat
    OBVIOUS
  <2>2. PICK i \in Bad : \A j \in Bad : ~(j < i)
    BY <1>1, <2>1, Least
  <2>3. \A j \in k .. i - 1 : j \in P
    BY <2>2
  <2>4. QED
    BY <2>2, <2>3
<1>2. QED
  BY <1>1

\* The same from zero on.
LEMMA UpTo ==
  ASSUME NEW n \in Nat, NEW P,
         \A i \in 0 .. n : (\A j \in 0 .. i - 1 : j \in P) => i \in P
  PROVE  0 .. n \subseteq P
BY Between

\* What step makes of a function is at a number what the function is at smaller
\* ones.
Recursive(k, n, V, step) ==
  /\ step \in [[k .. n -> V] -> [k .. n -> V]]
  /\ \A f, g \in [k .. n -> V], i \in k .. n :
       (\A j \in k .. i - 1 : f[j] = g[j]) => step[f][i] = step[g][i]

\* f is at every number what step makes of it.
IsSolution(k, n, V, step, f) == f \in [k .. n -> V] /\ \A i \in k .. n : f[i] = step[f][i]

\* A recursive function has a solution.
LEMMA Solution ==
  ASSUME NEW k \in Nat, NEW n \in Nat, NEW V, V # {}, NEW step, Recursive(k, n, V, step)
  PROVE  \E f : IsSolution(k, n, V, step, f)
<1> USE DEF Recursive
<1> DEFINE D == k .. n
           Holds(f, m) == \A i \in D : i <= m => f[i] = step[f][i]
           Solved == {m \in k .. n : \E f \in [D -> V] : Holds(f, m)}
<1>1. PICK v : v \in V
  OBVIOUS
<1>2. ASSUME NEW m \in k .. n, NEW f \in [D -> V], \A i \in D : i < m => f[i] = step[f][i]
      PROVE  m \in Solved
  <2> DEFINE g == [f EXCEPT ![m] = step[f][m]]
  <2>1. step[f][m] \in V /\ m \in D
    OBVIOUS
  <2>2. g \in [D -> V] /\ g[m] = step[f][m] /\ \A i \in D : i # m => g[i] = f[i]
    BY <2>1
  <2> HIDE DEF g
  <2>3. ASSUME NEW i \in D, i <= m PROVE g[i] = step[g][i]
    <3>1. \A j \in k .. i - 1 : j \in D /\ j # m
      BY <2>3
    <3>2. \A j \in k .. i - 1 : g[j] = f[j]
      BY <2>2, <3>1
    <3>3. step[g][i] = step[f][i]
      BY <2>2, <3>2
    <3>4. CASE i = m
      BY <2>2, <3>3, <3>4
    <3>5. CASE i # m
      BY <1>2, <2>2, <2>3, <3>3, <3>5
    <3>6. QED
      BY <3>4, <3>5
  <2>4. QED
    BY <2>2, <2>3
<1>3. ASSUME NEW m \in k .. n, \A j \in k .. m - 1 : j \in Solved PROVE m \in Solved
  <2>1. CASE m = k
    <3>1. [i \in D |-> v] \in [D -> V]
      BY <1>1
    <3>2. \A i \in D : ~(i < m)
      BY <2>1
    <3>3. QED
      BY <1>2, <3>1, <3>2
  <2>2. CASE m # k
    <3>1. m - 1 \in k .. m - 1
      BY <2>2
    <3>2. PICK f \in [D -> V] : Holds(f, m - 1)
      BY <1>3, <3>1
    <3>3. \A i \in D : i < m => f[i] = step[f][i]
      BY <3>2
    <3>4. QED
      BY <1>2, <3>3
  <2>3. QED
    BY <2>1, <2>2
<1>4. k .. n \subseteq Solved
  <2> HIDE DEF Solved
  <2>1. QED
    BY <1>3, Between
<1>5. CASE k <= n
  <2>1. n \in Solved
    <3>1. n \in k .. n
      BY <1>5
    <3> HIDE DEF Solved
    <3>2. QED
      BY <1>4, <3>1
  <2>2. PICK f \in [D -> V] : Holds(f, n)
    BY <2>1
  <2>3. QED
    BY <2>2 DEF IsSolution
<1>6. CASE ~(k <= n)
  <2>1. D = {} /\ [i \in D |-> v] \in [D -> V]
    BY <1>1, <1>6
  <2>2. QED
    BY <2>1 DEF IsSolution
<1>7. QED
  BY <1>5, <1>6

-----------------------------------------------------------------------------
(* Sequences.                                                              *)

\* All sequences are in P, when they are made from <<>> by appending.
LEMMA ByAppend ==
  ASSUME NEW S, NEW P, <<>> \in P,
         \A s \in Seq(S), e \in S : s \in P => Append(s, e) \in P
  PROVE  Seq(S) \subseteq P
<1> DEFINE Good == {n \in Nat : \A s \in Seq(S) : Len(s) = n => s \in P}
<1>1. ASSUME NEW n \in Nat, \A j \in 0 .. n - 1 : j \in Good PROVE n \in Good
  <2>1. ASSUME NEW s \in Seq(S), Len(s) = n PROVE s \in P
    <3>1. CASE s = <<>>
      BY <3>1
    <3>2. CASE s # <<>>
      <4>1. PICK r \in Seq(S), e \in S : s = Append(r, e)
        BY <3>2, SequenceEmptyOrAppend
      <4>2. Len(r) \in Nat /\ Len(r) = n - 1
        BY <2>1, <4>1, AppendProperties
      <4>3. Len(r) \in Good
        BY <1>1, <4>2
      <4>4. QED
        BY <4>1, <4>3
    <3>3. QED
      BY <3>1, <3>2
  <2>2. QED
    BY <2>1
<1>2. ASSUME NEW s \in Seq(S) PROVE s \in P
  <2>1. Len(s) \in Nat
    OBVIOUS
  <2> DEFINE n == Len(s)
  <2>2. \A i \in 0 .. n : (\A j \in 0 .. i - 1 : j \in Good) => i \in Good
    <3> HIDE DEF Good
    <3>1. QED
      BY <1>1, <2>1
  <2>3. 0 .. n \subseteq Good
    <3> HIDE DEF Good, n
    <3>1. n \in Nat
      BY <2>1 DEF n
    <3>2. QED
      BY <2>2, <3>1, UpTo
  <2>4. n \in Good
    <3>1. n \in 0 .. n
      BY <2>1
    <3> HIDE DEF Good, n
    <3>2. QED
      BY <2>3, <3>1
  <2>5. QED
    BY <2>4
<1>3. QED
  BY <1>2
=============================================================================
