---------------------------- MODULE ResolverProofs ----------------------------
EXTENDS Resolver, SequenceTheorems, FiniteSetTheorems, WellFoundedInduction, TLAPS

(***************************************************************************)
(* The inductive invariant.  What is left to do is well formed (`Shape`):  *)
(* every item runs inside a scope that is still to be left, a parameter    *)
(* list inside a function's, and only the next scope to be entered can be  *)
(* pending.  So the number of exits from an item on is the level of the    *)
(* scope it runs in (`Level`), whatever comes before it, and the scopes    *)
(* that lack a table stay missing (`TablesCounted`).                      *)
(***************************************************************************)
\* The items of one sort in a sequence, from the p-th on.
Places(s, what, p) == {q \in DOMAIN s : q >= p /\ s[q].what = what}
Count(s, what, p) == Cardinality(Places(s, what, p))

Level(p) == Count(todo, "exit", p)

Is(p, what) == todo[p].what = what

Shape ==
  /\ todo # <<>> => Is(Len(todo), "exit")
  /\ \A p \in DOMAIN todo :
       /\ ~Is(p, "stopped")
       /\ Is(p, "enter") => p = 1 \/ (p = 2 /\ Is(1, "expr"))
       /\ Is(p, "declare") => p = 1
       /\ Is(p, "decls") => p = Len(todo) - 1
       /\ Is(p, "params") => Level(p) >= 2
       /\ todo[p].sym # NULL /\ Is(p, "exit") => Level(p) >= 2

\* A scope without a table, or that was never pushed, is never made good.
Tabled == {j \in DOMAIN symbol_stack : symbol_stack[j] # NULL}

TablesCounted ==
  IF failed
  THEN Cardinality(Tabled) + Count(todo, "enter", 1) < Level(1)
  ELSE /\ Tabled = DOMAIN symbol_stack
       /\ Len(symbol_stack) + Count(todo, "enter", 1) = Level(1)

\* The number of a symbol tells when it was declared.
Numbered ==
  \A j \in DOMAIN symbol_stack, n \in Names : Bound(j, n) =>
    /\ symbol_stack[j][n].name = n
    /\ symbol_stack[j][n].id <= created
    /\ \A k \in DOMAIN symbol_stack :
         k > j /\ Bound(k, n) => symbol_stack[j][n].id < symbol_stack[k][n].id

\* While the value of a declaration is resolved, nothing else is declared.
Declared ==
  At("declare") =>
    LET s == Head(todo).sym IN
    /\ HasTable /\ s # NULL /\ s.kind # "PARAM" /\ s.by # "param"
    /\ s.id = created /\ scope_lookup_current(s.name) = NULL
    /\ \A j \in DOMAIN symbol_stack, n \in Names : Bound(j, n) => symbol_stack[j][n].id < created
    /\ ~failed => (s.kind = "GLOBAL" <=> scope_level = 1)

IInv ==
  /\ TypeOK /\ Numbered /\ Declared /\ KindsMatchLevels /\ OwnNameBound
  /\ ~At("stopped") => Shape /\ TablesCounted

-----------------------------------------------------------------------------
(* Counting items.                                                         *)

\* Moving a set of numbers does not change how many they are.
LEMMA MovedCount ==
  ASSUME NEW S \in SUBSET Int, IsFiniteSet(S), NEW k \in Int
  PROVE  /\ IsFiniteSet({q + k : q \in S})
         /\ Cardinality({q + k : q \in S}) = Cardinality(S)
<1> DEFINE T == {q + k : q \in S}
           f == [q \in S |-> q + k]
<1>1. f \in [S -> T] /\ \A t \in T : \E q \in S : f[q] = t
  OBVIOUS
<1>2. \A q, r \in S : f[q] = f[r] => q = r
  OBVIOUS
<1> HIDE DEF f, T
<1>3. f \in Bijection(S, T)
  BY <1>1, <1>2 DEF Bijection, Injection, Surjection, IsInjective
<1>4. ExistsBijection(S, T)
  BY <1>3 DEF ExistsBijection
<1>5. QED
  BY <1>4, FS_Bijection DEF T

LEMMA PlacesFinite ==
  ASSUME NEW S, NEW s \in Seq(S), NEW what, NEW p \in Nat
  PROVE  IsFiniteSet(Places(s, what, p)) /\ Count(s, what, p) \in Nat
<1>1. Len(s) \in Nat /\ DOMAIN s = 1 .. Len(s)
  BY LenProperties
<1>2. IsFiniteSet(1 .. Len(s))
  BY <1>1, FS_Interval
<1>3. Places(s, what, p) \in SUBSET (1 .. Len(s))
  BY <1>1 DEF Places
<1>4. QED
  BY <1>2, <1>3, FS_Subset, FS_CardinalityType DEF Count

\* In a sequence made of two, the items of the second are moved.
LEMMA CountThen ==
  ASSUME NEW S, NEW s \in Seq(S), NEW t \in Seq(S), NEW what
  PROVE  /\ \A p \in 1 .. Len(s) + 1 : Count(s \o t, what, p) = Count(s, what, p) + Count(t, what, 1)
         /\ \A p \in 1 .. Len(t) + 1 : Count(s \o t, what, Len(s) + p) = Count(t, what, p)
<1>1. /\ Len(s) \in Nat /\ Len(t) \in Nat
      /\ DOMAIN s = 1 .. Len(s) /\ DOMAIN t = 1 .. Len(t)
      /\ DOMAIN (s \o t) = 1 .. Len(s) + Len(t)
      /\ \A p \in 1 .. Len(s) : (s \o t)[p] = s[p]
      /\ \A p \in 1 .. Len(t) : (s \o t)[p + Len(s)] = t[p]
  BY ConcatProperties, LenProperties
<1> DEFINE Moved(p) == {q + Len(s) : q \in Places(t, what, p)}
<1>2. ASSUME NEW p \in 1 .. Len(t) + 1
      PROVE  /\ IsFiniteSet(Moved(p)) /\ Cardinality(Moved(p)) = Count(t, what, p)
             /\ Moved(p) \subseteq Len(s) + 1 .. Len(s) + Len(t)
  <2>1. Places(t, what, p) \in SUBSET Int /\ \A q \in Places(t, what, p) : q \in 1 .. Len(t)
    BY <1>1 DEF Places
  <2>2. IsFiniteSet(Places(t, what, p))
    BY <1>2, PlacesFinite
  <2>3. Moved(p) \subseteq Len(s) + 1 .. Len(s) + Len(t)
    BY <1>1, <2>1
  <2>4. Len(s) \in Int
    BY <1>1
  <2>5. QED
    BY <2>1, <2>2, <2>3, <2>4, MovedCount DEF Count
<1>3. ASSUME NEW p \in 1 .. Len(t) + 1
      PROVE  Count(s \o t, what, Len(s) + p) = Count(t, what, p)
  <2>1. Places(s \o t, what, Len(s) + p) \subseteq Moved(p)
    <3> SUFFICES ASSUME NEW q \in Places(s \o t, what, Len(s) + p) PROVE q \in Moved(p)
      OBVIOUS
    <3> DEFINE r == q - Len(s)
    <3>1. r \in 1 .. Len(t) /\ r >= p /\ q = r + Len(s) /\ (s \o t)[q].what = what
      BY <1>1 DEF Places
    <3> HIDE DEF r
    <3>2. r \in Places(t, what, p)
      BY <1>1, <3>1 DEF Places
    <3>3. QED
      BY <3>1, <3>2
  <2>2. Moved(p) \subseteq Places(s \o t, what, Len(s) + p)
    BY <1>1 DEF Places
  <2>3. QED
    BY <1>2, <2>1, <2>2 DEF Count
<1>4. ASSUME NEW p \in 1 .. Len(s) + 1
      PROVE  Count(s \o t, what, p) = Count(s, what, p) + Count(t, what, 1)
  <2>1. Places(s \o t, what, p) \subseteq Places(s, what, p) \cup Moved(1)
    <3> SUFFICES ASSUME NEW q \in Places(s \o t, what, p), q \notin Places(s, what, p)
                 PROVE  q \in Moved(1)
      OBVIOUS
    <3> DEFINE r == q - Len(s)
    <3>1. q \in 1 .. Len(s) + Len(t) /\ q >= p /\ (s \o t)[q].what = what
      BY <1>1 DEF Places
    <3>2. ~(q <= Len(s))
      BY <1>1, <3>1 DEF Places
    <3>3. r \in 1 .. Len(t) /\ q = r + Len(s)
      BY <1>1, <3>1, <3>2
    <3> HIDE DEF r
    <3>4. r \in Places(t, what, 1)
      BY <1>1, <3>1, <3>3 DEF Places
    <3>5. QED
      BY <3>3, <3>4
  <2>2. Places(s, what, p) \cup Moved(1) \subseteq Places(s \o t, what, p)
    BY <1>1 DEF Places
  <2>3. Places(s, what, p) \cap Moved(1) = {}
    BY <1>1, <1>2 DEF Places
  <2>4. IsFiniteSet(Places(s, what, p)) /\ Count(s, what, p) \in Nat /\ Count(t, what, 1) \in Nat
    BY PlacesFinite
  <2>5. IsFiniteSet(Moved(1)) /\ Cardinality(Moved(1)) = Count(t, what, 1)
    BY <1>1, <1>2
  <2> HIDE DEF Moved
  <2>6. Cardinality(Places(s, what, p) \cup Moved(1)) = Cardinality(Places(s, what, p)) + Cardinality(Moved(1))
    <3>1. Cardinality(Places(s, what, p) \cap Moved(1)) = 0
      BY <2>3, FS_EmptySet
    <3> DEFINE A == Places(s, what, p)
               B == Moved(1)
    <3>2. Cardinality(A) \in Nat /\ Cardinality(B) \in Nat /\ Cardinality(A \cap B) = 0
      BY <2>4, <2>5, <3>1 DEF Count
    <3>3. Cardinality(A \cup B) = Cardinality(A) + Cardinality(B) - Cardinality(A \cap B)
      BY <2>4, <2>5, FS_Union
    <3> HIDE DEF A, B
    <3>4. Cardinality(A \cup B) = Cardinality(A) + Cardinality(B)
      BY <3>2, <3>3
    <3>5. QED
      BY <3>4 DEF A, B
  <2>7. QED
    BY <2>1, <2>2, <2>5, <2>6 DEF Count
<1>5. QED
  BY <1>3, <1>4

\* Sequences with none and with one of the sort.
LEMMA CountFew ==
  ASSUME NEW S, NEW s \in Seq(S), NEW what
  PROVE  /\ (\A q \in DOMAIN s : s[q].what # what) => \A p \in Nat : Count(s, what, p) = 0
         /\ \A k \in DOMAIN s :
              (\A q \in DOMAIN s : s[q].what = what <=> q = k) =>
                \A p \in Nat : Count(s, what, p) = IF p <= k THEN 1 ELSE 0
<1>1. ASSUME \A q \in DOMAIN s : s[q].what # what, NEW p \in Nat
      PROVE  Count(s, what, p) = 0
  <2>1. Places(s, what, p) = {}
    BY <1>1 DEF Places
  <2>2. QED
    BY <2>1, FS_EmptySet DEF Count
<1>2. ASSUME NEW k \in DOMAIN s, \A q \in DOMAIN s : s[q].what = what <=> q = k, NEW p \in Nat
      PROVE  Count(s, what, p) = IF p <= k THEN 1 ELSE 0
  <2>1. k \in Nat
    BY LenProperties
  <2>2. CASE p <= k
    <3>1. Places(s, what, p) = {k}
      BY <1>2, <2>1, <2>2 DEF Places
    <3>2. QED
      BY <2>2, <3>1, FS_Singleton DEF Count
  <2>3. CASE ~(p <= k)
    <3>1. Places(s, what, p) = {}
      BY <1>2, <2>1, <2>3 DEF Places
    <3>2. QED
      BY <2>3, <3>1, FS_EmptySet DEF Count
  <2>4. QED
    BY <2>2, <2>3
<1>3. QED
  BY <1>1, <1>2

\* From an item of the sort on there is one at least.
LEMMA CountSome ==
  ASSUME NEW S, NEW s \in Seq(S), NEW what, NEW k \in DOMAIN s, s[k].what = what,
         NEW p \in Nat, p <= k
  PROVE  Count(s, what, p) >= 1
<1>1. k \in Places(s, what, p)
  BY DEF Places
<1>2. IsFiniteSet(Places(s, what, p)) /\ Count(s, what, p) \in Nat
  BY PlacesFinite
<1>3. Count(s, what, p) # 0
  BY <1>1, <1>2, FS_EmptySet DEF Count
<1>4. QED
  BY <1>2, <1>3

-----------------------------------------------------------------------------
(* What is left to do.                                                     *)

LEMMA HeadAndTail ==
  ASSUME NEW S, NEW s \in Seq(S), s # <<>>
  PROVE  s = <<Head(s)>> \o Tail(s)
<1> DEFINE h == <<Head(s)>>
           t == Tail(s)
<1>1. /\ Len(s) \in Nat /\ Head(s) = s[1] /\ Head(s) \in S /\ t \in Seq(S)
      /\ Len(t) = Len(s) - 1 /\ \A p \in 1 .. Len(t) : t[p] = s[p + 1]
  BY LenProperties, HeadTailProperties
<1>2. h \in Seq(S) /\ Len(h) = 1 /\ h[1] = s[1]
  BY <1>1
<1> HIDE DEF h, t
<1>3. /\ h \o t \in Seq(S) /\ Len(h \o t) = Len(h) + Len(t)
      /\ \A p \in 1 .. Len(h) + Len(t) : (h \o t)[p] = IF p <= Len(h) THEN h[p] ELSE t[p - Len(h)]
  <2>1. h \in Seq(S) /\ t \in Seq(S)
    BY <1>1, <1>2
  <2>2. QED
    BY <2>1, ConcatProperties
<1>4. Len(h \o t) = Len(s) /\ \A p \in 1 .. Len(s) : (h \o t)[p] = s[p]
  BY <1>1, <1>2, <1>3
<1>5. h \o t = s
  BY <1>3, <1>4, SeqEqual
<1>6. QED
  BY <1>5 DEF h, t

LEMMA CountFirst ==
  ASSUME NEW S, NEW s \in Seq(S), s # <<>>, NEW what
  PROVE  /\ Count(s, what, 1) = Count(s, what, 2) + (IF Head(s).what = what THEN 1 ELSE 0)
         /\ \A p \in 1 .. Len(Tail(s)) + 1 : Count(s, what, p + 1) = Count(Tail(s), what, p)
         /\ Count(s, what, 1) \in Nat /\ Count(s, what, 2) \in Nat
<1> DEFINE h == <<Head(s)>>
           t == Tail(s)
<1>1. s = h \o t
  BY HeadAndTail
<1>2. Head(s) \in S /\ t \in Seq(S)
  BY HeadTailProperties
<1>3. h \in Seq(S) /\ Len(h) = 1 /\ DOMAIN h = {1} /\ h[1] = Head(s)
  BY <1>2
<1>4. Count(h, what, 1) = IF Head(s).what = what THEN 1 ELSE 0
  <2>1. CASE Head(s).what = what
    <3>1. 1 \in DOMAIN h /\ \A q \in DOMAIN h : h[q].what = what <=> q = 1
      BY <1>3, <2>1
    <3>2. h \in Seq(S)
      BY <1>3
    <3> HIDE DEF h
    <3>3. Count(h, what, 1) = IF 1 <= 1 THEN 1 ELSE 0
      BY <3>1, <3>2, CountFew
    <3>4. QED
      BY <2>1, <3>3
  <2>2. CASE Head(s).what # what
    <3>1. \A q \in DOMAIN h : h[q].what # what
      BY <1>3, <2>2
    <3> HIDE DEF h
    <3>2. QED
      BY <1>3, <2>2, <3>1, CountFew
  <2>3. QED
    BY <2>1, <2>2
<1> HIDE DEF h, t
<1>5. /\ \A p \in 1 .. Len(h) + 1 : Count(h \o t, what, p) = Count(h, what, p) + Count(t, what, 1)
      /\ \A p \in 1 .. Len(t) + 1 : Count(h \o t, what, Len(h) + p) = Count(t, what, p)
  <2>1. h \in Seq(S) /\ t \in Seq(S)
    BY <1>2, <1>3
  <2>2. QED
    BY <2>1, CountThen
<1>6. Len(t) \in Nat /\ Count(t, what, 1) \in Nat
  BY <1>2, PlacesFinite, LenProperties
<1>7. \A p \in 1 .. Len(t) + 1 : Count(s, what, p + 1) = Count(t, what, p)
  BY <1>1, <1>3, <1>5
<1>8. Count(s, what, 2) = Count(t, what, 1)
  BY <1>6, <1>7
<1>9. Count(s, what, 1) = Count(h, what, 1) + Count(t, what, 1)
  BY <1>1, <1>3, <1>5
<1>10. QED
  BY <1>4, <1>6, <1>7, <1>8, <1>9 DEF t

LEMMA TodoFacts ==
  ASSUME todo \in Seq(Items), todo # <<>>
  PROVE  /\ Len(todo) \in Nat /\ Len(todo) >= 1 /\ DOMAIN todo = 1 .. Len(todo)
         /\ Head(todo) = todo[1] /\ Head(todo) \in Items
         /\ \A p \in Nat : Level(p) \in Nat
         /\ \A what \in {"enter", "exit"} :
              /\ Count(todo, what, 1) \in Nat /\ Count(todo, what, 2) \in Nat
              /\ Count(todo, what, 1) =
                   Count(todo, what, 2) + (IF Head(todo).what = what THEN 1 ELSE 0)
<1>1. /\ Len(todo) \in Nat /\ Len(todo) >= 1 /\ DOMAIN todo = 1 .. Len(todo)
      /\ Head(todo) = todo[1] /\ Head(todo) \in Items
  BY LenProperties, EmptySeq, HeadTailProperties
<1>2. \A p \in Nat : Level(p) \in Nat
  BY PlacesFinite DEF Level
<1>3. QED
  BY <1>1, <1>2, CountFirst

\* The new items come first, the others follow them at the levels they had.
LEMMA ThenFacts ==
  ASSUME todo \in Seq(Items), todo # <<>>, NEW items \in Seq(Items), Then(items)
  PROVE  /\ todo' \in Seq(Items) /\ Len(items) \in Nat
         /\ DOMAIN todo' = 1 .. Len(todo') /\ Len(todo') = Len(items) + Len(todo) - 1
         /\ \A p \in 1 .. Len(items) :
              todo'[p] = items[p] /\ Level(p)' = Count(items, "exit", p) + Level(2)
         /\ \A p \in 2 .. Len(todo) :
              todo'[Len(items) + p - 1] = todo[p] /\ Count(todo', "exit", Len(items) + p - 1) = Level(p)
         /\ \A what \in {"enter", "exit"} :
              Count(todo', what, 1) = Count(items, what, 1) + Count(todo, what, 2)
<1> DEFINE t == Tail(todo)
<1>1. /\ Len(todo) \in Nat /\ Len(todo) >= 1 /\ t \in Seq(Items)
      /\ Len(t) = Len(todo) - 1 /\ \A p \in 1 .. Len(t) : t[p] = todo[p + 1]
      /\ Len(items) \in Nat
  BY LenProperties, EmptySeq, HeadTailProperties
<1>2. todo' = items \o t
  BY DEF Then
<1>3. \A what, p : p \in 1 .. Len(t) + 1 => Count(todo, what, p + 1) = Count(t, what, p)
  BY CountFirst
<1> HIDE DEF t
<1>4. /\ todo' \in Seq(Items) /\ Len(todo') = Len(items) + Len(t)
      /\ DOMAIN todo' = 1 .. Len(todo')
      /\ \A p \in 1 .. Len(items) + Len(t) : todo'[p] = IF p <= Len(items) THEN items[p] ELSE t[p - Len(items)]
  BY <1>1, <1>2, ConcatProperties, LenProperties
<1>5. \A what, p : p \in 2 .. Len(todo) => Count(todo, what, p) = Count(t, what, p - 1)
  <2> SUFFICES ASSUME NEW what, NEW p \in 2 .. Len(todo)
               PROVE  Count(todo, what, p) = Count(t, what, p - 1)
    OBVIOUS
  <2> DEFINE q == p - 1
  <2>1. q \in 1 .. Len(t) + 1 /\ q + 1 = p
    BY <1>1
  <2> HIDE DEF q
  <2>2. Count(todo, what, q + 1) = Count(t, what, q)
    BY <1>3, <2>1
  <2>3. QED
    BY <2>1, <2>2 DEF q
<1>6. \A what : Count(todo, what, 2) = Count(t, what, 1)
  <2>1. 1 \in 1 .. Len(t) + 1 /\ 1 + 1 = 2
    BY <1>1
  <2>2. \A what : Count(todo, what, 1 + 1) = Count(t, what, 1)
    BY <1>3, <2>1
  <2>3. QED
    BY <2>1, <2>2
<1>7. \A what, p : p \in 1 .. Len(items) + 1 => Count(todo', what, p) = Count(items, what, p) + Count(todo, what, 2)
  <2> SUFFICES ASSUME NEW what, NEW p \in 1 .. Len(items) + 1
               PROVE  Count(todo', what, p) = Count(items, what, p) + Count(todo, what, 2)
    OBVIOUS
  <2>1. Count(items \o t, what, p) = Count(items, what, p) + Count(t, what, 1)
    BY <1>1, CountThen
  <2>2. QED
    BY <1>2, <1>6, <2>1
<1>8. ASSUME NEW p \in 1 .. Len(items)
      PROVE  todo'[p] = items[p] /\ Level(p)' = Count(items, "exit", p) + Level(2)
  <2>1. p \in 1 .. Len(items) + 1 /\ p \in 1 .. Len(items) + Len(t)
    BY <1>1
  <2>2. Count(todo', "exit", p) = Count(items, "exit", p) + Count(todo, "exit", 2)
    BY <1>7, <2>1
  <2>3. QED
    BY <1>4, <2>1, <2>2 DEF Level
<1>9. ASSUME NEW p \in 2 .. Len(todo)
      PROVE  todo'[Len(items) + p - 1] = todo[p] /\ Count(todo', "exit", Len(items) + p - 1) = Level(p)
  <2> DEFINE q == p - 1
  <2>1. q \in 1 .. Len(t) /\ q \in 1 .. Len(t) + 1 /\ Len(items) + q = Len(items) + p - 1 /\ q + 1 = p
    BY <1>1
  <2>2. Count(t, "exit", q) = Level(p)
    BY <1>5 DEF Level
  <2> HIDE DEF q
  <2>3. Count(items \o t, "exit", Len(items) + q) = Count(t, "exit", q)
    <3>1. items \in Seq(Items) /\ t \in Seq(Items)
      BY <1>1
    <3>2. /\ \A r \in 1 .. Len(items) + 1 :
               Count(items \o t, "exit", r) = Count(items, "exit", r) + Count(t, "exit", 1)
          /\ \A r \in 1 .. Len(t) + 1 : Count(items \o t, "exit", Len(items) + r) = Count(t, "exit", r)
      BY <3>1, CountThen
    <3>3. q \in 1 .. Len(t) + 1
      BY <2>1
    <3>4. QED
      BY <3>2, <3>3, Zenon
  <2>4. todo'[Len(items) + q] = t[q]
    <3> DEFINE m == Len(items) + q
    <3>1. m \in 1 .. Len(items) + Len(t) /\ ~(m <= Len(items)) /\ m - Len(items) = q
      BY <1>1, <2>1
    <3> HIDE DEF m
    <3>2. todo'[m] = t[q]
      BY <1>4, <3>1
    <3>3. QED
      BY <3>2 DEF m
  <2>5. QED
    BY <1>1, <1>2, <2>1, <2>2, <2>3, <2>4
<1>10. ASSUME NEW what \in {"enter", "exit"}
       PROVE  Count(todo', what, 1) = Count(items, what, 1) + Count(todo, what, 2)
  <2>1. 1 \in 1 .. Len(items) + 1
    BY <1>1
  <2>2. QED
    BY <1>7, <2>1
<1>11. QED
  BY <1>1, <1>4, <1>8, <1>9, <1>10

\* What a declaration or statement leads to: at most one scope, entered first
\* and left again.
Group(items) ==
  /\ \A p \in 1 .. Len(items) :
       /\ items[p].what # "stopped"
       /\ items[p].what = "enter" => p = 1 \/ (p = 2 /\ items[1].what = "expr")
       /\ items[p].what = "declare" => p = 1
       /\ items[p].what = "decls" => p = Len(items) /\ At("decls")
       /\ items[p].what = "params" => Count(items, "exit", p) >= 1
  /\ Count(items, "exit", 1) = Count(items, "enter", 1)
  /\ items # <<>> => Head(todo).what \in {"decls", "stmts", "stmt", "declare", "else"}

LEMMA LevelSome ==
  ASSUME todo \in Seq(Items), Shape, NEW p \in 1 .. Len(todo)
  PROVE  Level(p) >= 1
<1>1. Len(todo) \in Nat /\ Len(todo) >= 1 /\ todo # <<>> /\ DOMAIN todo = 1 .. Len(todo)
  BY LenProperties
<1>2. Len(todo) \in DOMAIN todo /\ todo[Len(todo)].what = "exit"
  BY <1>1 DEF Shape, Is
<1>3. QED
  BY <1>1, <1>2, CountSome DEF Level

\* What Shape asks of the p-th item.
PlaceOk(p) ==
  /\ ~Is(p, "stopped")
  /\ Is(p, "enter") => p = 1 \/ (p = 2 /\ Is(1, "expr"))
  /\ Is(p, "declare") => p = 1
  /\ Is(p, "decls") => p = Len(todo) - 1
  /\ Is(p, "params") => Level(p) >= 2
  /\ todo[p].sym # NULL /\ Is(p, "exit") => Level(p) >= 2

LEMMA ShapeKept ==
  ASSUME todo \in Seq(Items), todo # <<>>, Shape,
         NEW items \in Seq(Items), Group(items), Then(items)
  PROVE  Shape' /\ ~At("stopped")'
<1> DEFINE n == Len(items)
<1>1. /\ Len(todo) \in Nat /\ Len(todo) >= 1 /\ n \in Nat /\ Len(todo') = n + Len(todo) - 1
      /\ DOMAIN todo = 1 .. Len(todo) /\ DOMAIN todo' = 1 .. Len(todo')
      /\ todo' \in Seq(Items) /\ Head(todo) = todo[1] /\ DOMAIN items = 1 .. n
  BY TodoFacts, ThenFacts, LenProperties
<1>2. todo[Len(todo)].what = "exit" /\ \A p \in 1 .. Len(todo) : PlaceOk(p)
  BY <1>1 DEF Shape, PlaceOk, Is
<1>3. ASSUME n > 0
      PROVE  /\ Len(todo) >= 2 /\ todo[1].what # "expr" /\ todo[1].what # "enter"
             /\ Level(2) \in Nat /\ Level(2) >= 1
  <2>1. items # <<>>
    BY <1>3
  <2>2. todo[1].what \in {"decls", "stmts", "stmt", "declare", "else"}
    BY <1>1, <2>1 DEF Group
  <2>3. Len(todo) # 1
    BY <1>2, <2>2
  <2>4. Len(todo) >= 2 /\ 2 \in 1 .. Len(todo)
    BY <1>1, <2>3
  <2>5. Level(2) \in Nat /\ Level(2) >= 1
    BY <2>4, LevelSome, TodoFacts
  <2>6. QED
    BY <2>2, <2>4, <2>5
<1>4. ASSUME NEW p \in 1 .. n
      PROVE  PlaceOk(p)'
  <2>1. n > 0 /\ p \in Nat
    BY <1>1
  <2>2. todo'[p] = items[p] /\ Level(p)' = Count(items, "exit", p) + Level(2)
    BY ThenFacts
  <2>3. /\ items[p].what # "stopped"
        /\ items[p].what = "enter" => p = 1 \/ (p = 2 /\ items[1].what = "expr")
        /\ items[p].what = "declare" => p = 1
        /\ items[p].what = "decls" => p = n /\ Head(todo).what = "decls"
        /\ items[p].what = "params" => Count(items, "exit", p) >= 1
    BY DEF Group, At
  <2>4. items[p].what = "enter" => p = 1 \/ (p = 2 /\ todo'[1].what = "expr")
    <3>1. 1 \in 1 .. n => todo'[1] = items[1]
      BY ThenFacts
    <3>2. QED
      BY <1>1, <2>1, <2>3, <3>1
  <2>5. items[p].what = "decls" => p = Len(todo') - 1
    <3>1. ASSUME items[p].what = "decls" PROVE Len(todo) = 2
      <4>1. todo[1].what = "decls" /\ 1 \in 1 .. Len(todo)
        BY <1>1, <2>3, <3>1
      <4>2. 1 = Len(todo) - 1
        BY <1>2, <4>1 DEF PlaceOk, Is
      <4>3. Len(todo) \in Nat
        BY <1>1
      <4>4. QED
        BY <4>2, <4>3
    <3>2. ASSUME items[p].what = "decls" PROVE p = Len(todo') - 1
      <4>1. Len(todo) = 2 /\ Len(todo') = n + Len(todo) - 1 /\ p = n /\ n \in Nat
        BY <1>1, <2>3, <3>1, <3>2
      <4> HIDE DEF n
      <4>2. QED
        BY <4>1
    <3>3. QED
      BY <3>2
  <2>6. items[p].what \in {"params", "exit"} => Level(p)' >= 2
    <3>1. Count(items, "exit", p) \in Nat
      BY <2>1, PlacesFinite
    <3>2. items[p].what = "exit" => Count(items, "exit", p) >= 1
      BY <1>1, <2>1, CountSome
    <3>3. QED
      BY <1>3, <2>1, <2>2, <2>3, <3>1, <3>2
  <2>7. QED
    BY <2>2, <2>3, <2>4, <2>5, <2>6 DEF PlaceOk, Is
<1>5. ASSUME NEW p \in 2 .. Len(todo)
      PROVE  PlaceOk(n + p - 1)'
  <2> DEFINE q == n + p - 1
  <2>1. todo'[q] = todo[p] /\ Level(q)' = Level(p)
    BY ThenFacts DEF Level
  <2>2. PlaceOk(p) /\ p \in 1 .. Len(todo) /\ p \in Nat
    BY <1>1, <1>2
  <2>3. todo[p].what # "declare"
    BY <2>2 DEF PlaceOk, Is
  <2>4. todo[p].what = "enter" => q = 1
    <3>1. todo[p].what = "enter" => p = 2 /\ todo[1].what = "expr"
      BY <2>2 DEF PlaceOk, Is
    <3>2. QED
      BY <1>1, <1>3, <3>1
  <2>5. todo[p].what = "decls" => q = Len(todo') - 1
    BY <1>1, <2>2 DEF PlaceOk, Is
  <2>6. todo[p].what # "stopped"
    BY <2>2 DEF PlaceOk, Is
  <2>7. /\ todo[p].what = "params" => Level(p) >= 2
        /\ todo[p].sym # NULL /\ todo[p].what = "exit" => Level(p) >= 2
    BY <2>2 DEF PlaceOk, Is
  <2> HIDE DEF q
  <2>8. PlaceOk(q)'
    BY <2>1, <2>3, <2>4, <2>5, <2>6, <2>7 DEF PlaceOk, Is
  <2>9. QED
    BY <2>8 DEF q
<1>6. \A q \in 1 .. Len(todo') : PlaceOk(q)'
  <2> SUFFICES ASSUME NEW q \in 1 .. Len(todo') PROVE PlaceOk(q)'
    OBVIOUS
  <2>1. CASE q <= n
    BY <1>1, <1>4, <2>1
  <2>2. CASE q > n
    <3> DEFINE p == q - n + 1
    <3>1. p \in 2 .. Len(todo) /\ q = n + p - 1
      BY <1>1, <2>2
    <3> HIDE DEF p
    <3>2. QED
      BY <1>5, <3>1
  <2>3. QED
    BY <1>1, <2>1, <2>2
<1>7. ASSUME Len(todo') >= 1
      PROVE  todo'[Len(todo')].what = "exit"
  <2>1. Len(todo) >= 2
    <3>1. CASE n = 0
      BY <1>1, <1>7, <3>1
    <3>2. CASE n > 0
      BY <1>3, <3>2
    <3>3. QED
      BY <1>1, <3>1, <3>2
  <2>2. Len(todo) \in 2 .. Len(todo) /\ Len(todo') = n + Len(todo) - 1
    BY <1>1, <2>1
  <2>3. todo'[n + Len(todo) - 1] = todo[Len(todo)]
    BY <2>2, ThenFacts
  <2>4. QED
    BY <1>2, <2>2, <2>3
<1>8. Shape'
  <2>1. todo' # <<>> => Len(todo') >= 1
    BY <1>1, EmptySeq
  <2>2. QED
    BY <1>1, <1>6, <1>7, <2>1 DEF Shape, PlaceOk, Is
<1>9. ~At("stopped")'
  <2>1. todo' # <<>> => 1 \in 1 .. Len(todo') /\ Head(todo') = todo'[1]
    BY <1>1, EmptySeq
  <2>2. todo' # <<>> => PlaceOk(1)'
    BY <1>6, <2>1
  <2>3. QED
    BY <2>1, <2>2 DEF At, PlaceOk, Is
<1>10. QED
  BY <1>8, <1>9

\* A list of items before what is left of the statements or declarations.
LEMMA WithRest ==
  ASSUME todo \in Seq(Items), AtDecl, NEW items \in Seq(Items),
         Count(items, "exit", 1) = Count(items, "enter", 1),
         \A p \in 1 .. Len(items) :
           /\ items[p].what \notin {"stopped", "decls", "params"}
           /\ items[p].what = "enter" => p = 1 \/ (p = 2 /\ items[1].what = "expr")
           /\ items[p].what = "declare" => p = 1
           /\ items[p].what = "exit" => items[p].sym = NULL
  PROVE  /\ items \o Rest \in Seq(Items) /\ Group(items \o Rest)
         /\ \A p \in 1 .. Len(items \o Rest) :
              /\ (items \o Rest)[p].what = "exit" => (items \o Rest)[p].sym = NULL
              /\ (items \o Rest)[p].what = "declare" => p = 1 /\ 1 \in 1 .. Len(items)
<1> DEFINE all == items \o Rest
<1>1. /\ todo # <<>> /\ Head(todo) \in Items
      /\ Head(todo).what \in {"decls", "stmts", "stmt"}
  BY TodoFacts DEF AtDecl, At
<1>2. /\ Rest \in Seq(Items) /\ Len(Rest) \in {0, 1} /\ DOMAIN Rest = 1 .. Len(Rest)
      /\ \A p \in 1 .. Len(Rest) : p = 1 /\ Rest[p] = Head(todo) /\ Head(todo).what \in {"decls", "stmts"}
  <2>1. CASE At("stmt")
    BY <2>1, EmptySeq, LenProperties DEF Rest
  <2>2. CASE ~At("stmt")
    <3>1. Rest = <<Head(todo)>> /\ Head(todo).what \in {"decls", "stmts"}
      BY <1>1, <2>2 DEF Rest, At
    <3>2. QED
      BY <1>1, <3>1
  <2>3. QED
    BY <2>1, <2>2
<1>3. \A what \in {"enter", "exit"} : Count(Rest, what, 1) = 0
  <2> SUFFICES ASSUME NEW what \in {"enter", "exit"} PROVE Count(Rest, what, 1) = 0
    OBVIOUS
  <2>1. \A q \in DOMAIN Rest : Rest[q].what # what
    BY <1>2
  <2>2. QED
    BY <1>2, <2>1, CountFew
<1>4. /\ all \in Seq(Items) /\ Len(all) = Len(items) + Len(Rest) /\ Len(items) \in Nat
      /\ \A p \in 1 .. Len(items) + Len(Rest) :
           all[p] = IF p <= Len(items) THEN items[p] ELSE Rest[p - Len(items)]
  BY <1>2, ConcatProperties, LenProperties
<1>5. \A what \in {"enter", "exit"} : Count(all, what, 1) = Count(items, what, 1)
  <2> SUFFICES ASSUME NEW what \in {"enter", "exit"} PROVE Count(all, what, 1) = Count(items, what, 1)
    OBVIOUS
  <2>1. 1 \in 1 .. Len(items) + 1
    BY <1>4
  <2>2. Count(all, what, 1) = Count(items, what, 1) + Count(Rest, what, 1)
    BY <1>2, <2>1, CountThen
  <2>3. Count(items, what, 1) \in Nat
    BY PlacesFinite
  <2>4. QED
    BY <1>3, <2>2, <2>3
<1> HIDE DEF all
<1>6. ASSUME NEW p \in 1 .. Len(all)
      PROVE  \/ p \in 1 .. Len(items) /\ all[p] = items[p]
             \/ /\ p = Len(all) /\ all[p] = Head(todo) /\ p = Len(items) + 1
                /\ Head(todo).what \in {"decls", "stmts"}
  <2>1. CASE p <= Len(items)
    BY <1>2, <1>4, <2>1
  <2>2. CASE p > Len(items)
    <3>1. Len(Rest) = 1 /\ p = Len(items) + 1 /\ p = Len(all)
      BY <1>2, <1>4, <2>2
    <3>2. all[p] = Rest[1]
      BY <1>4, <3>1
    <3>3. QED
      BY <1>2, <3>1, <3>2
  <2>3. QED
    BY <1>4, <2>1, <2>2
<1>7. ASSUME NEW p \in 1 .. Len(all)
      PROVE  /\ all[p].what # "stopped" /\ all[p].what # "params"
             /\ all[p].what = "enter" => p = 1 \/ (p = 2 /\ all[1].what = "expr")
             /\ all[p].what = "declare" => p = 1 /\ 1 \in 1 .. Len(items)
             /\ all[p].what = "decls" => p = Len(all) /\ At("decls")
             /\ all[p].what = "exit" => all[p].sym = NULL
  <2>1. CASE p \in 1 .. Len(items) /\ all[p] = items[p]
    <3>1. 1 \in 1 .. Len(items) /\ 1 \in 1 .. Len(all)
      BY <1>4, <2>1
    <3>2. all[1] = items[1]
      BY <1>4, <3>1, <1>2
    <3>3. QED
      BY <2>1, <3>1, <3>2
  <2>2. CASE /\ p = Len(all) /\ all[p] = Head(todo) /\ p = Len(items) + 1
             /\ Head(todo).what \in {"decls", "stmts"}
    BY <1>1, <2>2 DEF At
  <2>3. QED
    BY <1>6, <2>1, <2>2
<1>8. Count(all, "exit", 1) = Count(all, "enter", 1)
  BY <1>5
<1>9. Group(all)
  BY <1>1, <1>7, <1>8 DEF Group
<1>10. QED
  BY <1>4, <1>7, <1>9 DEF all

\* A list that enters one scope and leaves it.
LEMMA OneScope ==
  ASSUME NEW items \in Seq(Items), NEW i \in DOMAIN items, NEW k \in DOMAIN items,
         \A q \in DOMAIN items : items[q].what = "enter" <=> q = i,
         \A q \in DOMAIN items : items[q].what = "exit" <=> q = k
  PROVE  /\ Count(items, "exit", 1) = 1 /\ Count(items, "enter", 1) = 1
         /\ \A p \in 1 .. k : Count(items, "exit", p) = 1
<1>1. k \in Nat /\ i \in Nat /\ k >= 1 /\ i >= 1
  BY LenProperties
<1>2. \A p \in Nat : Count(items, "exit", p) = IF p <= k THEN 1 ELSE 0
  BY CountFew
<1>3. \A p \in Nat : Count(items, "enter", p) = IF p <= i THEN 1 ELSE 0
  BY CountFew
<1>4. QED
  BY <1>1, <1>2, <1>3

\* A list without scopes.
LEMMA NoScope ==
  ASSUME NEW items \in Seq(Items),
         \A q \in DOMAIN items : items[q].what # "enter" /\ items[q].what # "exit"
  PROVE  Count(items, "exit", 1) = 0 /\ Count(items, "enter", 1) = 0
BY CountFew

LEMMA GroupEmpty ==
  /\ <<>> \in Seq(Items) /\ Group(<<>>)
  /\ \A what \in {"enter", "exit"} : Count(<<>>, what, 1) = 0
<1>1. <<>> \in Seq(Items) /\ DOMAIN <<>> = {} /\ Len(<<>>) = 0
  BY EmptySeq
<1>2. Count(<<>>, "exit", 1) = 0 /\ Count(<<>>, "enter", 1) = 0
  BY <1>1, NoScope
<1>3. QED
  BY <1>1, <1>2 DEF Group

\* What does not declare, and leaves a function in no place but the right one.
Quiet(items) ==
  /\ Group(items)
  /\ \A p \in 1 .. Len(items) : /\ items[p].what # "declare"
                                /\ items[p].what = "exit" => items[p].sym = NULL

LEMMA DoItem ==
  \A what \in {"decls", "stmts", "stmt", "else", "expr", "params", "enter", "exit", "stopped"} :
    Do(what) \in Items /\ Do(what).what = what /\ Do(what).sym = NULL
BY DEF Do, Items

\* The lists of decl_resolve, stmt_resolve and else_body.
LEMMA StatementLists ==
  ASSUME todo \in Seq(Items), AtDecl,
         NEW items \in { <<>>, <<Do("expr")>>,
                         <<Do("expr"), Do("enter"), Do("stmt"), Do("exit"), Do("else")>>,
                         <<Do("enter"), Do("expr"), Do("stmt"), Do("exit")>>,
                         <<Do("enter"), Do("stmts"), Do("exit")>> }
  PROVE  items \o Rest \in Seq(Items) /\ Quiet(items \o Rest)
<1> SUFFICES /\ items \in Seq(Items) /\ Count(items, "exit", 1) = Count(items, "enter", 1)
             /\ \A p \in 1 .. Len(items) :
                  /\ items[p].what \notin {"stopped", "decls", "params", "declare"}
                  /\ items[p].what = "enter" => p = 1 \/ (p = 2 /\ items[1].what = "expr")
                  /\ items[p].what = "exit" => items[p].sym = NULL
  <2> HIDE DEF Rest
  <2>1. /\ items \in Seq(Items) /\ Count(items, "exit", 1) = Count(items, "enter", 1)
        /\ \A p \in 1 .. Len(items) :
             /\ items[p].what \notin {"stopped", "decls", "params"}
             /\ items[p].what = "enter" => p = 1 \/ (p = 2 /\ items[1].what = "expr")
             /\ items[p].what = "declare" => p = 1
             /\ items[p].what = "exit" => items[p].sym = NULL
    OBVIOUS
  <2>2. /\ items \o Rest \in Seq(Items) /\ Group(items \o Rest)
        /\ \A p \in 1 .. Len(items \o Rest) :
             /\ (items \o Rest)[p].what = "exit" => (items \o Rest)[p].sym = NULL
             /\ (items \o Rest)[p].what = "declare" => p = 1 /\ 1 \in 1 .. Len(items)
    BY <2>1, WithRest
  <2>3. 1 \in 1 .. Len(items) => (items \o Rest)[1] = items[1]
    <3>1. items \in Seq(Items) /\ Rest \in Seq(Items)
      <4>1. todo # <<>> /\ Head(todo) \in Items
        BY TodoFacts DEF AtDecl, At
      <4>2. QED
        BY <4>1, <2>1, EmptySeq DEF Rest
    <3>2. Len(items) \in Nat /\ Len(Rest) \in Nat
      BY <3>1, LenProperties
    <3>3. \A i \in 1 .. Len(items) + Len(Rest) :
            (items \o Rest)[i] = IF i <= Len(items) THEN items[i] ELSE Rest[i - Len(items)]
      BY <3>1, ConcatProperties
    <3>4. QED
      BY <3>2, <3>3
  <2>4. QED
    BY <2>1, <2>2, <2>3 DEF Quiet
<1>1. CASE items = <<>>
  <2>1. Len(items) = 0 /\ items \in Seq(Items) /\ DOMAIN items = {}
    BY <1>1, EmptySeq
  <2>2. Count(items, "exit", 1) = 0 /\ Count(items, "enter", 1) = 0
    <3>1. \A q \in DOMAIN items : items[q].what # "enter" /\ items[q].what # "exit"
      BY <2>1
    <3>2. items \in Seq(Items)
      BY <2>1
    <3>3. QED
      BY <3>1, <3>2, NoScope
  <2>3. QED
    BY <2>1, <2>2
<1>2. CASE items = <<Do("expr")>>
  <2>1. /\ items \in Seq(Items) /\ Len(items) = 1 /\ DOMAIN items = {1} /\ items[1].what = "expr"
    BY <1>2, DoItem
  <2>2. QED
    BY <2>1, NoScope
<1>3. CASE items = <<Do("expr"), Do("enter"), Do("stmt"), Do("exit"), Do("else")>>
  <2>1. /\ items \in Seq(Items) /\ Len(items) = 5 /\ DOMAIN items = 1 .. 5
        /\ items[1].what = "expr" /\ items[2].what = "enter" /\ items[3].what = "stmt"
        /\ items[4].what = "exit" /\ items[5].what = "else" /\ items[4].sym = NULL
    BY <1>3, DoItem
  <2>2. Count(items, "exit", 1) = 1 /\ Count(items, "enter", 1) = 1
    <3>1. /\ 2 \in DOMAIN items /\ 4 \in DOMAIN items
          /\ \A q \in DOMAIN items : items[q].what = "enter" <=> q = 2
          /\ \A q \in DOMAIN items : items[q].what = "exit" <=> q = 4
      BY <2>1
    <3>2. QED
      BY <2>1, <3>1, OneScope
  <2>3. QED
    BY <2>1, <2>2
<1>4. CASE items = <<Do("enter"), Do("expr"), Do("stmt"), Do("exit")>>
  <2>1. /\ items \in Seq(Items) /\ Len(items) = 4 /\ DOMAIN items = 1 .. 4
        /\ items[1].what = "enter" /\ items[2].what = "expr" /\ items[3].what = "stmt"
        /\ items[4].what = "exit" /\ items[4].sym = NULL
    BY <1>4, DoItem
  <2>2. Count(items, "exit", 1) = 1 /\ Count(items, "enter", 1) = 1
    <3>1. /\ 1 \in DOMAIN items /\ 4 \in DOMAIN items
          /\ \A q \in DOMAIN items : items[q].what = "enter" <=> q = 1
          /\ \A q \in DOMAIN items : items[q].what = "exit" <=> q = 4
      BY <2>1
    <3>2. QED
      BY <2>1, <3>1, OneScope
  <2>3. QED
    BY <2>1, <2>2
<1>5. CASE items = <<Do("enter"), Do("stmts"), Do("exit")>>
  <2>1. /\ items \in Seq(Items) /\ Len(items) = 3 /\ DOMAIN items = 1 .. 3
        /\ items[1].what = "enter" /\ items[2].what = "stmts"
        /\ items[3].what = "exit" /\ items[3].sym = NULL
    BY <1>5, DoItem
  <2>2. Count(items, "exit", 1) = 1 /\ Count(items, "enter", 1) = 1
    <3>1. /\ 1 \in DOMAIN items /\ 3 \in DOMAIN items
          /\ \A q \in DOMAIN items : items[q].what = "enter" <=> q = 1
          /\ \A q \in DOMAIN items : items[q].what = "exit" <=> q = 3
      BY <2>1
    <3>2. QED
      BY <2>1, <3>1, OneScope
  <2>3. QED
    BY <2>1, <2>2
<1>6. QED
  BY <1>1, <1>2, <1>3, <1>4, <1>5

LEMMA ElseList ==
  ASSUME At("else")
  PROVE  LET items == <<Do("enter"), Do("stmt"), Do("exit")>> IN
         items \in Seq(Items) /\ Quiet(items)
<1> DEFINE items == <<Do("enter"), Do("stmt"), Do("exit")>>
<1>1. /\ items \in Seq(Items) /\ Len(items) = 3 /\ DOMAIN items = 1 .. 3
      /\ items[1].what = "enter" /\ items[2].what = "stmt"
      /\ items[3].what = "exit" /\ items[3].sym = NULL
  BY DoItem
<1> HIDE DEF items
<1>2. Count(items, "exit", 1) = 1 /\ Count(items, "enter", 1) = 1
  <2>1. /\ 1 \in DOMAIN items /\ 3 \in DOMAIN items
        /\ \A q \in DOMAIN items : items[q].what = "enter" <=> q = 1
        /\ \A q \in DOMAIN items : items[q].what = "exit" <=> q = 3
    BY <1>1
  <2>2. QED
    BY <1>1, <2>1, OneScope
<1>3. items \in Seq(Items) /\ Quiet(items)
  BY <1>1, <1>2 DEF Quiet, Group, At
<1>4. QED
  BY <1>3 DEF items

\* The body of a function runs one scope further in than the function.
LEMMA FunctionList ==
  ASSUME At("declare"), NEW s \in Symbols,
         NEW items, items = <<Do("enter"), Do("params"), Do("stmt"), ExitFrom(s)>>
  PROVE  /\ items \in Seq(Items) /\ Group(items) /\ Len(items) = 4
         /\ items[1].what # "declare" /\ items[4].sym = s /\ Count(items, "exit", 4) = 1
         /\ \A p \in 1 .. 4 : items[p].what = "exit" <=> p = 4
<1>1. /\ items \in Seq(Items) /\ Len(items) = 4 /\ DOMAIN items = 1 .. 4
      /\ items[1].what = "enter" /\ items[2].what = "params" /\ items[3].what = "stmt"
      /\ items[4].what = "exit" /\ items[4].sym = s
  <2>1. ExitFrom(s) \in Items /\ ExitFrom(s).what = "exit" /\ ExitFrom(s).sym = s
    BY DEF ExitFrom, Items
  <2>2. QED
    BY <2>1, DoItem
<1>2. /\ Count(items, "exit", 1) = 1 /\ Count(items, "enter", 1) = 1
      /\ \A p \in 1 .. 4 : Count(items, "exit", p) = 1
  <2>1. /\ 1 \in DOMAIN items /\ 4 \in DOMAIN items
        /\ \A q \in DOMAIN items : items[q].what = "enter" <=> q = 1
        /\ \A q \in DOMAIN items : items[q].what = "exit" <=> q = 4
    BY <1>1
  <2>2. QED
    BY <1>1, <2>1, OneScope
<1>3. QED
  BY <1>1, <1>2 DEF Group, At

\* Every step that neither declares nor binds, and is not a scope's, leads to a
\* list of items.
LEMMA QuietSteps ==
  ASSUME todo \in Seq(Items),
         \/ \E n \in Names, by \in DeclKinds : Redeclared(n, by)
         \/ End \/ stmt_resolve \/ else_body
  PROVE  /\ \E items \in Seq(Items) : Quiet(items) /\ Then(items)
         /\ todo # <<>> /\ Head(todo).what \notin {"enter", "exit"}
         /\ UNCHANGED <<symbol_stack, created, failed>>
<1>1. todo # <<>> /\ Head(todo).what \notin {"enter", "exit"} /\ UNCHANGED <<symbol_stack, created, failed>>
  BY DEF Redeclared, End, stmt_resolve, else_body, AtDecl, AtStmt, At
<1>2. <<>> \in Seq(Items) /\ Quiet(<<>>)
  BY GroupEmpty, EmptySeq DEF Quiet
<1>3. CASE \E n \in Names, by \in DeclKinds : Redeclared(n, by)
  <2>1. AtDecl /\ Then(Rest)
    BY <1>3 DEF Redeclared
  <2>2. <<>> \o Rest \in Seq(Items) /\ Quiet(<<>> \o Rest)
    BY <2>1, StatementLists
  <2>3. <<>> \o Rest = Rest
    <3>1. Rest \in Seq(Items)
      BY <1>1, TodoFacts, EmptySeq DEF Rest
    <3>2. QED
      BY <3>1, ConcatEmptySeq
  <2>4. QED
    BY <1>1, <2>1, <2>2, <2>3
<1>4. CASE End
  BY <1>1, <1>2, <1>4 DEF End
<1>5. CASE stmt_resolve
  <2>1. AtDecl
    BY <1>5 DEF stmt_resolve, AtStmt, AtDecl
  <2>2. PICK items \in { <<>>, <<Do("expr")>>,
                         <<Do("expr"), Do("enter"), Do("stmt"), Do("exit"), Do("else")>>,
                         <<Do("enter"), Do("expr"), Do("stmt"), Do("exit")>>,
                         <<Do("enter"), Do("stmts"), Do("exit")>> } : Then(items \o Rest)
    BY <1>5 DEF stmt_resolve, Simple, IfElse, For, Block
  <2>3. items \o Rest \in Seq(Items) /\ Quiet(items \o Rest)
    BY <2>1, StatementLists
  <2>4. QED
    BY <1>1, <2>2, <2>3
<1>6. CASE else_body
  BY <1>1, <1>2, <1>6, ElseList DEF else_body
<1>7. QED
  BY <1>3, <1>4, <1>5, <1>6

-----------------------------------------------------------------------------
(* The stack of tables.                                                    *)

LEMMA StackFacts ==
  ASSUME TypeOK
  PROVE  /\ Len(symbol_stack) \in Nat /\ DOMAIN symbol_stack = 1 .. Len(symbol_stack)
         /\ \A j \in DOMAIN symbol_stack :
              /\ symbol_stack[j] # NULL => symbol_stack[j] \in Tables
              /\ \A n \in Names : Bound(j, n) =>
                   symbol_stack[j][n] \in Symbols /\ symbol_stack[j][n].id \in 1 .. MaxSymbols
         /\ HasTable =>
              /\ Len(symbol_stack) >= 1 /\ symbol_stack[Len(symbol_stack)] \in Tables
              /\ symbol_stack[Len(symbol_stack)] # NULL
              /\ \A n \in Names : Bound(Len(symbol_stack), n) <=> scope_lookup_current(n) # NULL
<1>1. /\ symbol_stack \in Seq(Tables \cup {NULL})
      /\ Len(symbol_stack) \in Nat /\ DOMAIN symbol_stack = 1 .. Len(symbol_stack)
  BY LenProperties DEF TypeOK
<1>2. \A j \in DOMAIN symbol_stack : symbol_stack[j] # NULL => symbol_stack[j] \in Tables
  BY <1>1, ElementOfSeq
<1>3. ASSUME NEW j \in DOMAIN symbol_stack, NEW n \in Names, Bound(j, n)
      PROVE  symbol_stack[j][n] \in Symbols /\ symbol_stack[j][n].id \in 1 .. MaxSymbols
  <2>1. symbol_stack[j] \in Tables /\ symbol_stack[j][n] # NULL
    BY <1>2, <1>3 DEF Bound
  <2>2. symbol_stack[j][n] \in Symbols
    BY <2>1 DEF Tables
  <2>3. QED
    BY <2>2 DEF Symbols
<1>4. ASSUME HasTable
      PROVE  /\ Len(symbol_stack) >= 1 /\ symbol_stack[Len(symbol_stack)] \in Tables
             /\ symbol_stack[Len(symbol_stack)] # NULL
             /\ \A n \in Names : Bound(Len(symbol_stack), n) <=> scope_lookup_current(n) # NULL
  <2>1. Len(symbol_stack) >= 1
    BY <1>1, <1>4, EmptySeq DEF HasTable
  <2>2. symbol_stack[Len(symbol_stack)] # NULL
    BY <1>4 DEF HasTable, Last
  <2>3. QED
    BY <1>1, <1>2, <2>1, <2>2 DEF Bound, scope_lookup_current, Last
<1>5. QED
  BY <1>1, <1>2, <1>3, <1>4

\* scope_bind changes one entry of the table on top.
LEMMA BindFacts ==
  ASSUME TypeOK, HasTable, NEW s \in Symbols, scope_bind(s)
  PROVE  /\ symbol_stack' \in Seq(Tables \cup {NULL})
         /\ Len(symbol_stack') = Len(symbol_stack) /\ DOMAIN symbol_stack' = DOMAIN symbol_stack
         /\ \A j \in 1 .. Len(symbol_stack) - 1 : symbol_stack'[j] = symbol_stack[j]
         /\ \A j \in DOMAIN symbol_stack : symbol_stack'[j] # NULL <=> symbol_stack[j] # NULL
         /\ symbol_stack'[Len(symbol_stack)][s.name] = s
         /\ \A j \in DOMAIN symbol_stack, n \in Names :
              /\ Bound(j, n)' <=> Bound(j, n) \/ (j = Len(symbol_stack) /\ n = s.name)
              /\ ~(j = Len(symbol_stack) /\ n = s.name) =>
                   symbol_stack'[j][n] = symbol_stack[j][n]
<1> DEFINE L == Len(symbol_stack)
           T == symbol_stack[L]
           U == [T EXCEPT ![s.name] = s]
<1>1. /\ L \in Nat /\ L >= 1 /\ DOMAIN symbol_stack = 1 .. L /\ T \in Tables /\ T # NULL
      /\ symbol_stack \in Seq(Tables \cup {NULL})
  BY StackFacts DEF TypeOK
<1>2. s.name \in Names /\ s # NULL
  BY NullAssumption DEF Symbols
<1>3. U \in Tables /\ U # NULL /\ U[s.name] = s /\ \A n \in Names : n # s.name => U[n] = T[n]
  BY <1>1, <1>2, NullAssumption DEF Tables
<1>4. symbol_stack' = [symbol_stack EXCEPT ![L] = U]
  BY DEF scope_bind
<1> HIDE DEF U
<1>5. /\ symbol_stack' \in Seq(Tables \cup {NULL}) /\ Len(symbol_stack') = L
      /\ \A j \in 1 .. L : symbol_stack'[j] = IF j = L THEN U ELSE symbol_stack[j]
  <2>1. L \in 1 .. L /\ U \in Tables \cup {NULL}
    BY <1>1, <1>3
  <2>2. /\ [symbol_stack EXCEPT ![L] = U] \in Seq(Tables \cup {NULL})
        /\ Len([symbol_stack EXCEPT ![L] = U]) = Len(symbol_stack)
        /\ \A j \in 1 .. Len(symbol_stack) :
             [symbol_stack EXCEPT ![L] = U][j] = IF j = L THEN U ELSE symbol_stack[j]
    <3>1. /\ symbol_stack \in Seq(Tables \cup {NULL})
          /\ L \in 1 .. Len(symbol_stack) /\ U \in Tables \cup {NULL}
      BY <1>1, <2>1
    <3> HIDE DEF L
    <3>2. QED
      BY <3>1, ExceptSeq
  <2>3. QED
    BY <1>4, <2>2
<1>6. DOMAIN symbol_stack' = 1 .. L
  BY <1>5, LenProperties
<1> HIDE DEF L, T
<1>7. symbol_stack'[L] = U /\ \A j \in 1 .. L - 1 : symbol_stack'[j] = symbol_stack[j]
  BY <1>1, <1>5
<1>8. \A j \in 1 .. L : j = L \/ j \in 1 .. L - 1
  BY <1>1
<1>9. \A j \in 1 .. L : symbol_stack'[j] # NULL <=> symbol_stack[j] # NULL
  BY <1>1, <1>3, <1>7, <1>8 DEF T
<1>10. ASSUME NEW j \in 1 .. L, NEW n \in Names
       PROVE  /\ Bound(j, n)' <=> Bound(j, n) \/ (j = L /\ n = s.name)
              /\ ~(j = L /\ n = s.name) => symbol_stack'[j][n] = symbol_stack[j][n]
  <2>1. CASE j = L
    BY <1>1, <1>2, <1>3, <1>7, <2>1 DEF Bound, T
  <2>2. CASE j # L
    BY <1>7, <1>8, <2>2 DEF Bound
  <2>3. QED
    BY <2>1, <2>2
<1>11. QED
  BY <1>1, <1>3, <1>5, <1>6, <1>7, <1>9, <1>10 DEF L

LEMMA NoSymbolsFacts == NoSymbols \in Tables /\ NoSymbols # NULL /\ \A n \in Names : NoSymbols[n] = NULL
BY NullAssumption DEF NoSymbols, Tables

\* No name is bound in a new scope.
LEMMA EnterFacts ==
  ASSUME TypeOK, NEW t \in {NoSymbols, NULL}, symbol_stack' = Append(symbol_stack, t)
  PROVE  /\ symbol_stack' \in Seq(Tables \cup {NULL}) /\ Len(symbol_stack') = Len(symbol_stack) + 1
         /\ DOMAIN symbol_stack' = 1 .. Len(symbol_stack) + 1
         /\ \A j \in DOMAIN symbol_stack : symbol_stack'[j] = symbol_stack[j]
         /\ symbol_stack'[Len(symbol_stack) + 1] = t
         /\ \A j \in DOMAIN symbol_stack', n \in Names :
              Bound(j, n)' <=> j \in DOMAIN symbol_stack /\ Bound(j, n)
<1>1. Len(symbol_stack) \in Nat /\ DOMAIN symbol_stack = 1 .. Len(symbol_stack)
  BY StackFacts
<1>2. /\ symbol_stack' \in Seq(Tables \cup {NULL}) /\ Len(symbol_stack') = Len(symbol_stack) + 1
      /\ \A j \in 1 .. Len(symbol_stack) : symbol_stack'[j] = symbol_stack[j]
      /\ symbol_stack'[Len(symbol_stack) + 1] = t
  <2>1. symbol_stack \in Seq(Tables \cup {NULL}) /\ t \in Tables \cup {NULL}
    BY NoSymbolsFacts DEF TypeOK
  <2>2. QED
    BY <2>1, AppendProperties
<1>3. DOMAIN symbol_stack' = 1 .. Len(symbol_stack) + 1
  BY <1>2, LenProperties
<1>4. \A j \in 1 .. Len(symbol_stack) + 1 : j \in 1 .. Len(symbol_stack) \/ j = Len(symbol_stack) + 1
  BY <1>1
<1>5. Len(symbol_stack) + 1 \notin 1 .. Len(symbol_stack)
  BY <1>1
<1>6. \A n \in Names : t # NULL => t[n] = NULL
  BY NoSymbolsFacts
<1>7. ASSUME NEW j \in 1 .. Len(symbol_stack) + 1, NEW n \in Names
      PROVE  Bound(j, n)' <=> j \in DOMAIN symbol_stack /\ Bound(j, n)
  <2>1. CASE j \in 1 .. Len(symbol_stack)
    BY <1>1, <1>2, <2>1 DEF Bound
  <2>2. CASE j = Len(symbol_stack) + 1
    BY <1>1, <1>2, <1>5, <1>6, <2>2 DEF Bound
  <2>3. QED
    BY <1>4, <2>1, <2>2
<1>8. QED
  BY <1>1, <1>2, <1>3, <1>7

LEMMA LeaveFacts ==
  ASSUME TypeOK, HasTable, symbol_stack' = Front(symbol_stack)
  PROVE  /\ symbol_stack' \in Seq(Tables \cup {NULL}) /\ Len(symbol_stack') = Len(symbol_stack) - 1
         /\ DOMAIN symbol_stack' = 1 .. Len(symbol_stack) - 1
         /\ \A j \in DOMAIN symbol_stack' : j \in DOMAIN symbol_stack /\ symbol_stack'[j] = symbol_stack[j]
<1> DEFINE k == Len(symbol_stack) - 1
<1>1. /\ Len(symbol_stack) \in Nat /\ DOMAIN symbol_stack = 1 .. Len(symbol_stack)
      /\ k \in Nat /\ symbol_stack \in Seq(Tables \cup {NULL})
  BY StackFacts DEF TypeOK
<1>2. \A j \in 1 .. k : j \in 1 .. Len(symbol_stack) /\ symbol_stack[j] \in Tables \cup {NULL}
  BY <1>1, ElementOfSeq
<1>3. symbol_stack' = SubSeq(symbol_stack, 1, k)
  BY DEF Front
<1> HIDE DEF k
<1>4. /\ symbol_stack' \in Seq(Tables \cup {NULL})
      /\ Len(symbol_stack') = IF 1 <= k THEN k - 1 + 1 ELSE 0
      /\ \A j \in 1 .. k - 1 + 1 : symbol_stack'[j] = symbol_stack[1 + j - 1]
  <2>1. 1 \in Int /\ k \in Int /\ \A j \in 1 .. k : symbol_stack[j] \in Tables \cup {NULL}
    BY <1>1, <1>2
  <2>2. QED
    BY <1>3, <2>1, SubSeqProperties
<1>5. Len(symbol_stack') = k /\ \A j \in 1 .. k : symbol_stack'[j] = symbol_stack[j]
  <2>1. Len(symbol_stack') = k /\ k - 1 + 1 = k
    BY <1>1, <1>4
  <2>2. ASSUME NEW j \in 1 .. k PROVE symbol_stack'[j] = symbol_stack[j]
    <3>1. j \in 1 .. k - 1 + 1 /\ 1 + j - 1 = j
      BY <1>1, <2>2
    <3>2. QED
      BY <1>4, <3>1
  <2>3. QED
    BY <2>1, <2>2
<1>6. DOMAIN symbol_stack' = 1 .. k
  BY <1>4, <1>5, LenProperties
<1>7. QED
  BY <1>1, <1>2, <1>4, <1>5, <1>6 DEF k

-----------------------------------------------------------------------------
(* What the steps keep.                                                    *)

\* OwnNameBound in terms of levels.
Owned ==
  Whole => \A p \in DOMAIN todo : Is(p, "exit") /\ todo[p].sym # NULL =>
             symbol_stack[Level(p) - 1][todo[p].sym.name] = todo[p].sym

LEMMA OwnIs == (OwnNameBound <=> Owned) /\ (OwnNameBound' <=> Owned')
<1>1. \A p : {q \in Pending("exit") : q >= p} = Places(todo, "exit", p)
  BY DEF Pending, Places
<1>2. \A p : {q \in Pending("exit") : q >= p}' = Places(todo', "exit", p)
  BY DEF Pending, Places
<1>3. OwnNameBound <=> Owned
  BY <1>1 DEF OwnNameBound, Owned, Pending, Level, Count, Is
<1>4. OwnNameBound' <=> Owned'
  BY <1>2 DEF OwnNameBound, Owned, Pending, Level, Count, Is
<1>5. QED
  BY <1>3, <1>4

\* The scopes further out are at lower levels.
LEMMA LevelsFall ==
  ASSUME todo \in Seq(Items), NEW p \in Nat, NEW q \in Nat, p <= q
  PROVE  Level(q) <= Level(p)
<1>1. IsFiniteSet(Places(todo, "exit", p))
  BY PlacesFinite
<1>2. Places(todo, "exit", q) \in SUBSET Places(todo, "exit", p)
  <2>1. DOMAIN todo \subseteq Nat
    BY LenProperties
  <2>2. QED
    BY <2>1 DEF Places
<1>3. QED
  BY <1>1, <1>2, FS_Subset DEF Level, Count

LEMMA TabledFacts ==
  ASSUME TypeOK
  PROVE  /\ IsFiniteSet(Tabled) /\ Cardinality(Tabled) \in Nat
         /\ Cardinality(DOMAIN symbol_stack) = Len(symbol_stack)
<1>1. Len(symbol_stack) \in Nat /\ DOMAIN symbol_stack = 1 .. Len(symbol_stack)
  BY StackFacts
<1>2. /\ IsFiniteSet(1 .. Len(symbol_stack))
      /\ Cardinality(1 .. Len(symbol_stack)) = IF 1 > Len(symbol_stack) THEN 0 ELSE Len(symbol_stack) - 1 + 1
  BY <1>1, FS_Interval
<1>3. Cardinality(1 .. Len(symbol_stack)) = Len(symbol_stack)
  BY <1>1, <1>2
<1>4. Tabled \in SUBSET (1 .. Len(symbol_stack))
  BY <1>1 DEF Tabled
<1>5. IsFiniteSet(Tabled) /\ Cardinality(Tabled) \in Nat
  BY <1>2, <1>4, FS_Subset, FS_CardinalityType
<1>6. QED
  BY <1>1, <1>3, <1>5

\* A list of items enters as many scopes as it leaves.
LEMMA GroupCounts ==
  ASSUME todo \in Seq(Items), todo # <<>>, Head(todo).what \notin {"enter", "exit"},
         NEW items \in Seq(Items), Group(items), Then(items)
  PROVE  \E k \in Nat : /\ Count(todo', "enter", 1) = Count(todo, "enter", 1) + k
                        /\ Level(1)' = Level(1) + k
<1> DEFINE k == Count(items, "enter", 1)
<1>1. k \in Nat /\ Count(items, "exit", 1) = k
  BY PlacesFinite DEF Group
<1>2. /\ Count(todo, "enter", 1) \in Nat /\ Count(todo, "exit", 1) \in Nat
      /\ Count(todo, "enter", 1) = Count(todo, "enter", 2)
      /\ Count(todo, "exit", 1) = Count(todo, "exit", 2)
  <2>1. \A what \in {"enter", "exit"} :
          /\ Count(todo, what, 1) \in Nat /\ Count(todo, what, 2) \in Nat
          /\ Count(todo, what, 1) =
               Count(todo, what, 2) + (IF Head(todo).what = what THEN 1 ELSE 0)
    BY TodoFacts
  <2>2. /\ Count(todo, "enter", 1) = Count(todo, "enter", 2) + 0
        /\ Count(todo, "exit", 1) = Count(todo, "exit", 2) + 0
    BY <2>1
  <2>3. QED
    BY <2>1, <2>2
<1>3. /\ Count(todo', "enter", 1) = Count(items, "enter", 1) + Count(todo, "enter", 2)
      /\ Count(todo', "exit", 1) = Count(items, "exit", 1) + Count(todo, "exit", 2)
  BY ThenFacts
<1> HIDE DEF k
<1>4. Count(todo', "enter", 1) = Count(todo, "enter", 1) + k
  BY <1>1, <1>2, <1>3 DEF k
<1>5. Level(1)' = Level(1) + k
  BY <1>1, <1>2, <1>3 DEF Level
<1>6. QED
  BY <1>1, <1>4, <1>5

\* What enters no scope that is not left keeps the tables counted.
LEMMA CountedKept ==
  ASSUME TypeOK, TablesCounted, DOMAIN symbol_stack' = DOMAIN symbol_stack,
         Len(symbol_stack') = Len(symbol_stack), UNCHANGED failed,
         \A j \in DOMAIN symbol_stack : symbol_stack'[j] # NULL <=> symbol_stack[j] # NULL,
         NEW k \in Nat, Count(todo', "enter", 1) = Count(todo, "enter", 1) + k,
         Level(1)' = Level(1) + k
  PROVE  TablesCounted'
<1>1. Tabled' = Tabled
  BY DEF Tabled
<1>2. /\ Count(todo, "enter", 1) \in Nat /\ Level(1) \in Nat
      /\ Cardinality(Tabled) \in Nat /\ Len(symbol_stack) \in Nat
  BY PlacesFinite, TabledFacts, StackFacts DEF TypeOK, Level
<1>3. CASE failed
  BY <1>1, <1>2, <1>3 DEF TablesCounted
<1>4. CASE ~failed
  BY <1>1, <1>2, <1>4 DEF TablesCounted
<1>5. QED
  BY <1>3, <1>4

\* Names are bound where they were, or nowhere.
NothingBound ==
  \A j \in DOMAIN symbol_stack', n \in Names : Bound(j, n)' =>
    j \in DOMAIN symbol_stack /\ Bound(j, n) /\ symbol_stack'[j][n] = symbol_stack[j][n]

LEMMA NumberedKept ==
  ASSUME TypeOK, Numbered, NothingBound, created' \in Nat, created' >= created
  PROVE  Numbered'
<1> SUFFICES ASSUME NEW j \in DOMAIN symbol_stack', NEW n \in Names, Bound(j, n)'
             PROVE  /\ symbol_stack'[j][n].name = n
                    /\ symbol_stack'[j][n].id <= created'
                    /\ \A k \in DOMAIN symbol_stack' :
                         k > j /\ Bound(k, n)' => symbol_stack'[j][n].id < symbol_stack'[k][n].id
  BY DEF Numbered
<1>1. j \in DOMAIN symbol_stack /\ Bound(j, n) /\ symbol_stack'[j][n] = symbol_stack[j][n]
  BY DEF NothingBound
<1>2. /\ symbol_stack[j][n].name = n /\ symbol_stack[j][n].id <= created
      /\ \A k \in DOMAIN symbol_stack :
           k > j /\ Bound(k, n) => symbol_stack[j][n].id < symbol_stack[k][n].id
  BY <1>1 DEF Numbered
<1>3. symbol_stack[j][n].id \in Nat /\ created \in Nat
  BY <1>1, StackFacts DEF TypeOK
<1>4. symbol_stack'[j][n].id <= created'
  BY <1>1, <1>2, <1>3
<1>5. QED
  BY <1>1, <1>2, <1>4 DEF NothingBound

LEMMA KindsKept ==
  ASSUME KindsMatchLevels, Whole' => Whole, NothingBound,
         Whole' => \A j \in DOMAIN symbol_stack' : symbol_stack'[j] # NULL
  PROVE  KindsMatchLevels'
<1> SUFFICES ASSUME Whole', NEW j \in DOMAIN symbol_stack', NEW n \in Names,
                    symbol_stack'[j][n] # NULL
             PROVE  LET s == symbol_stack'[j][n] IN
                    /\ s.name = n /\ (s.kind = "GLOBAL" <=> j = 1) /\ (s.kind = "PARAM" <=> s.by = "param")
  BY DEF KindsMatchLevels
<1>1. Bound(j, n)'
  BY DEF Bound
<1>2. j \in DOMAIN symbol_stack /\ Bound(j, n) /\ symbol_stack'[j][n] = symbol_stack[j][n]
  BY <1>1 DEF NothingBound
<1>3. QED
  BY <1>2 DEF KindsMatchLevels, Bound

\* The functions whose bodies are being resolved keep their names' places.
LEMMA OwnedKept ==
  ASSUME todo \in Seq(Items), todo # <<>>, Whole' => Whole, Owned,
         NEW items \in Seq(Items), Then(items),
         Whole' => \A p \in 1 .. Len(items) : items[p].what = "exit" /\ items[p].sym # NULL =>
                     symbol_stack'[Level(p)' - 1][items[p].sym.name] = items[p].sym,
         Whole' => \A p \in 2 .. Len(todo) : Is(p, "exit") /\ todo[p].sym # NULL =>
                     symbol_stack'[Level(p) - 1][todo[p].sym.name] =
                       symbol_stack[Level(p) - 1][todo[p].sym.name]
  PROVE  Owned'
<1> SUFFICES ASSUME Whole', NEW q \in DOMAIN todo', todo'[q].what = "exit", todo'[q].sym # NULL
             PROVE  symbol_stack'[Level(q)' - 1][todo'[q].sym.name] = todo'[q].sym
  BY DEF Owned, Is
<1> DEFINE n == Len(items)
<1>1. /\ n \in Nat /\ Len(todo) \in Nat /\ Len(todo) >= 1 /\ q \in 1 .. n + Len(todo) - 1
      /\ DOMAIN todo = 1 .. Len(todo)
  BY ThenFacts, TodoFacts
<1>2. CASE q <= n
  <2>1. q \in 1 .. n /\ todo'[q] = items[q]
    BY <1>1, <1>2, ThenFacts
  <2>2. QED
    BY <2>1
<1>3. CASE q > n
  <2> DEFINE p == q - n + 1
  <2>1. p \in 2 .. Len(todo) /\ q = n + p - 1 /\ p \in DOMAIN todo
    BY <1>1, <1>3
  <2> HIDE DEF p
  <2>2. todo'[q] = todo[p] /\ Level(q)' = Level(p)
    BY <2>1, ThenFacts DEF Level
  <2>3. symbol_stack[Level(p) - 1][todo[p].sym.name] = todo[p].sym
    BY <2>1, <2>2 DEF Owned, Is
  <2>4. QED
    BY <2>1, <2>2, <2>3 DEF Is
<1>4. QED
  BY <1>1, <1>2, <1>3

\* What stands at the head when an item is done.
LEMMA HeadAfter ==
  ASSUME todo \in Seq(Items), todo # <<>>, Shape, NEW items \in Seq(Items), Then(items),
         NEW what \in {"declare", "stopped"}, 1 \in 1 .. Len(items) => items[1].what # what
  PROVE  ~At(what)'
<1>1. /\ DOMAIN todo' = 1 .. Len(todo') /\ Len(todo') = Len(items) + Len(todo) - 1
      /\ Len(items) \in Nat /\ Len(todo) \in Nat /\ todo' \in Seq(Items)
      /\ DOMAIN todo = 1 .. Len(todo)
  BY ThenFacts, TodoFacts
<1> SUFFICES ASSUME todo' # <<>> PROVE todo'[1].what # what
  <2>1. todo' # <<>> => Head(todo') = todo'[1]
    BY <1>1, HeadTailProperties
  <2>2. QED
    BY <2>1 DEF At
<1>2. Len(todo') >= 1
  BY <1>1, EmptySeq
<1>3. CASE Len(items) >= 1
  <2>1. 1 \in 1 .. Len(items)
    BY <1>1, <1>3
  <2>2. todo'[1] = items[1]
    BY <2>1, ThenFacts
  <2>3. QED
    BY <2>1, <2>2
<1>4. CASE Len(items) = 0
  <2>1. 2 \in 2 .. Len(todo) /\ Len(items) + 2 - 1 = 1 /\ 2 \in DOMAIN todo
    BY <1>1, <1>2, <1>4
  <2>2. todo'[1] = todo[2]
    BY <2>1, ThenFacts
  <2>3. todo[2].what # what
    BY <2>1 DEF Shape, Is
  <2>4. QED
    BY <2>2, <2>3
<1>5. QED
  BY <1>1, <1>3, <1>4

\* The types of `said`.
Sayings == [op : {"none", "redeclare", "use"}, name : Names \cup {NULL},
            sym : 1 .. MaxSymbols \cup {NULL}]

LEMMA QuietKeeps ==
  ASSUME IInv, ~At("stopped"), todo # <<>>, Head(todo).what \notin {"enter", "exit"},
         NEW items \in Seq(Items), Quiet(items), Then(items),
         UNCHANGED <<symbol_stack, created, failed>>, said' \in Sayings
  PROVE  IInv'
<1>1. TypeOK /\ Numbered /\ Declared /\ KindsMatchLevels /\ OwnNameBound /\ Shape /\ TablesCounted
  BY DEF IInv
<1>2. todo \in Seq(Items) /\ Group(items)
  BY <1>1 DEF TypeOK, Quiet
<1>3. TypeOK'
  BY <1>1, <1>2, ThenFacts DEF TypeOK, Sayings
<1>4. Shape' /\ ~At("stopped")'
  BY <1>1, <1>2, ShapeKept
<1>5. PICK k \in Nat : /\ Count(todo', "enter", 1) = Count(todo, "enter", 1) + k
                       /\ Level(1)' = Level(1) + k
  BY <1>2, GroupCounts
<1>6. TablesCounted'
  BY <1>1, <1>5, CountedKept
<1>7. NothingBound
  BY DEF NothingBound, Bound
<1>8. Numbered'
  BY <1>1, <1>7, NumberedKept DEF TypeOK
<1>9. Whole' => Whole
  BY DEF Whole
<1>10. KindsMatchLevels'
  BY <1>1, <1>9 DEF KindsMatchLevels
<1>11. Owned'
  <2>1. Owned
    BY <1>1, OwnIs
  <2>2. \A p \in 1 .. Len(items) : ~(items[p].what = "exit" /\ items[p].sym # NULL)
    BY DEF Quiet
  <2>3. \A p \in 2 .. Len(todo) : symbol_stack'[Level(p) - 1][todo[p].sym.name] =
                                    symbol_stack[Level(p) - 1][todo[p].sym.name]
    OBVIOUS
  <2>4. QED
    BY <1>2, <1>9, <2>1, <2>2, <2>3, OwnedKept
<1>12. Declared'
  <2>1. 1 \in 1 .. Len(items) => items[1].what # "declare"
    BY DEF Quiet
  <2>2. ~At("declare")'
    BY <1>1, <1>2, <2>1, HeadAfter
  <2>3. QED
    BY <2>2 DEF Declared
<1>13. QED
  BY <1>3, <1>4, <1>6, <1>8, <1>10, <1>11, <1>12, OwnIs DEF IInv

\* What a step leads to when the process ends.
LEMMA StopKeeps ==
  ASSUME IInv, Stop
  PROVE  IInv'
<1>1. TypeOK /\ Numbered
  BY DEF IInv
<1>2. /\ todo' \in Seq(Items) /\ todo' # <<>> /\ Head(todo').what = "stopped"
      /\ UNCHANGED <<symbol_stack, created, said, failed>>
  BY DoItem DEF Stop
<1>3. At("stopped")' /\ ~At("declare")' /\ ~Whole'
  BY <1>2 DEF At, Whole
<1>4. TypeOK' /\ Numbered'
  BY <1>1, <1>2 DEF TypeOK, Numbered, Bound
<1>5. QED
  BY <1>3, <1>4 DEF IInv, Declared, KindsMatchLevels, OwnNameBound

\* A use changes nothing but what was said last.
LEMMA UseKeeps ==
  ASSUME IInv, UNCHANGED <<symbol_stack, todo, created, failed>>, said' \in Sayings
  PROVE  IInv'
<1>1. Numbered => Numbered'
  BY DEF Numbered, Bound
<1>2. Declared => Declared'
  BY DEF Declared, Bound, At, HasTable, scope_level, scope_lookup_current
<1>3. KindsMatchLevels => KindsMatchLevels'
  BY DEF KindsMatchLevels, Whole, At
<1>4. OwnNameBound => OwnNameBound'
  <2>1. Owned => Owned'
    BY DEF Owned, Whole, At, Is, Level
  <2>2. QED
    BY <2>1, OwnIs
<1>5. Shape => Shape'
  BY DEF Shape, Is, Level
<1>6. TablesCounted => TablesCounted'
  BY DEF TablesCounted, Tabled, Level
<1>7. TypeOK => TypeOK'
  BY DEF TypeOK, Sayings
<1>8. At("stopped") => At("stopped")'
  BY DEF At
<1>9. QED
  BY <1>1, <1>2, <1>3, <1>4, <1>5, <1>6, <1>7, <1>8 DEF IInv

\* A name declared: its symbol waits for the value to be resolved.
LEMMA DeclareKeeps ==
  ASSUME IInv, NEW n \in Names, NEW by \in DeclKinds, decl_resolve(n, by)
  PROVE  IInv'
<1> DEFINE s == Symbol(n, DeclKind, by)
           first == <<Declaring(s)>>
           items == first \o Rest
<1>1. /\ AtDecl /\ HasTable /\ scope_lookup_current(n) = NULL /\ created < MaxSymbols
      /\ created' = created + 1 /\ Then(items) /\ UNCHANGED <<symbol_stack, said, failed>>
  BY DEF decl_resolve
<1>2. todo # <<>> /\ Head(todo).what \notin {"enter", "exit"} /\ ~At("stopped")
  BY <1>1 DEF AtDecl, At
<1>3. TypeOK /\ Numbered /\ Declared /\ KindsMatchLevels /\ OwnNameBound /\ Shape /\ TablesCounted
  BY <1>2 DEF IInv
<1>4. /\ s \in Symbols /\ s # NULL /\ s.name = n /\ s.id = created' /\ s.by # "param"
      /\ s.kind = DeclKind /\ s.kind \in {"LOCAL", "GLOBAL"}
  <2>1. created + 1 \in 1 .. MaxSymbols
    BY <1>1, <1>3, BoundsAssumption DEF TypeOK
  <2>2. /\ s = [id |-> created + 1, name |-> n, kind |-> DeclKind, by |-> by]
        /\ DeclKind \in {"LOCAL", "GLOBAL"}
    BY DEF Symbol, DeclKind
  <2> HIDE DEF s
  <2>3. s \in Symbols
    BY <2>1, <2>2 DEF Symbols
  <2>4. QED
    BY <1>1, <2>2, <2>3, NullAssumption DEF DeclKinds
<1> HIDE DEF s
<1>5. /\ first \in Seq(Items) /\ Len(first) = 1 /\ DOMAIN first = {1}
      /\ first[1].what = "declare" /\ first[1].sym = s
  BY <1>4 DEF Declaring, Items
<1> HIDE DEF first
<1>6. todo \in Seq(Items)
  BY <1>3 DEF TypeOK
<1>7. /\ items \in Seq(Items) /\ Group(items)
      /\ \A p \in 1 .. Len(items) : items[p].what = "exit" => items[p].sym = NULL
  <2>1. Count(first, "exit", 1) = Count(first, "enter", 1)
    <3>1. \A q \in DOMAIN first : first[q].what # "enter" /\ first[q].what # "exit"
      BY <1>5
    <3>2. QED
      BY <1>5, <3>1, NoScope
  <2>2. \A p \in 1 .. Len(first) :
           /\ first[p].what \notin {"stopped", "decls", "params"}
           /\ first[p].what = "enter" => p = 1 \/ (p = 2 /\ first[1].what = "expr")
           /\ first[p].what = "declare" => p = 1
           /\ first[p].what = "exit" => first[p].sym = NULL
    BY <1>5
  <2>3. QED
    BY <1>1, <1>5, <1>6, <2>1, <2>2, WithRest
<1>8. Len(items) \in Nat /\ Len(items) >= 1 /\ items[1] = first[1]
  <2>1. first \in Seq(Items) /\ Rest \in Seq(Items)
    <3>1. Head(todo) \in Items
      BY <1>2, <1>6, TodoFacts
    <3>2. QED
      BY <1>5, <3>1, EmptySeq DEF Rest
  <2>2. Len(Rest) \in Nat
    BY <2>1, LenProperties
  <2>3. /\ Len(first \o Rest) = Len(first) + Len(Rest)
        /\ \A i \in 1 .. Len(first) + Len(Rest) : (first \o Rest)[i] =
             IF i <= Len(first) THEN first[i] ELSE Rest[i - Len(first)]
    BY <2>1, ConcatProperties
  <2>4. QED
    BY <1>5, <2>2, <2>3
<1> HIDE DEF items
<1>9. todo' \in Seq(Items) /\ todo' # <<>> /\ Head(todo') = first[1]
  <2>1. todo' \in Seq(Items) /\ Len(todo') = Len(items) + Len(todo) - 1
    BY <1>1, <1>2, <1>6, <1>7, ThenFacts
  <2>2. 1 \in 1 .. Len(items) /\ Len(todo) \in Nat /\ Len(todo) >= 1
    BY <1>2, <1>6, <1>8, TodoFacts
  <2>3. todo'[1] = first[1]
    BY <1>1, <1>2, <1>6, <1>7, <1>8, <2>2, ThenFacts
  <2>4. Len(todo') # 0
    BY <1>8, <2>1, <2>2
  <2>5. todo' # <<>>
    BY <2>4, EmptySeq
  <2>6. QED
    BY <2>1, <2>3, <2>5, HeadTailProperties
<1>10. created \in Nat /\ created' \in 0 .. MaxSymbols /\ created' = created + 1
  BY <1>1, <1>3, BoundsAssumption DEF TypeOK
<1>11. TypeOK'
  BY <1>1, <1>3, <1>9, <1>10 DEF TypeOK
<1>12. NothingBound
  BY <1>1 DEF NothingBound, Bound
<1>13. Numbered'
  BY <1>3, <1>10, <1>12, NumberedKept
<1>14. Declared'
  <2>1. HasTable' /\ scope_lookup_current(n)' = NULL /\ scope_level' = scope_level
    BY <1>1 DEF HasTable, scope_lookup_current, scope_level
  <2>2. ASSUME NEW j \in DOMAIN symbol_stack', NEW m \in Names, Bound(j, m)'
        PROVE  symbol_stack'[j][m].id < created'
    <3>1. j \in DOMAIN symbol_stack /\ Bound(j, m) /\ symbol_stack'[j][m] = symbol_stack[j][m]
      BY <1>12, <2>2 DEF NothingBound
    <3>2. symbol_stack[j][m].id <= created /\ symbol_stack[j][m].id \in Nat
      BY <1>3, <3>1, StackFacts DEF Numbered
    <3>3. QED
      BY <1>10, <3>1, <3>2
  <2>3. s.kind = "GLOBAL" <=> scope_level' = 1
    <3>1. Len(symbol_stack) \in Nat /\ Len(symbol_stack) >= 1
      BY <1>1, <1>3, StackFacts
    <3>2. QED
      BY <1>4, <2>1, <3>1 DEF DeclKind, scope_level
  <2>4. Head(todo').sym = s
    BY <1>5, <1>9
  <2>5. QED
    BY <1>4, <2>1, <2>2, <2>3, <2>4 DEF Declared
<1>15. PICK k \in Nat : /\ Count(todo', "enter", 1) = Count(todo, "enter", 1) + k
                        /\ Level(1)' = Level(1) + k
  BY <1>1, <1>2, <1>6, <1>7, GroupCounts
<1>16. TablesCounted'
  BY <1>1, <1>3, <1>15, CountedKept
<1>17. Shape' /\ ~At("stopped")'
  BY <1>1, <1>2, <1>3, <1>6, <1>7, ShapeKept
<1>18. Whole' => Whole
  BY <1>1, <1>2 DEF Whole
<1>19. KindsMatchLevels'
  BY <1>1, <1>3, <1>18 DEF KindsMatchLevels
<1>20. Owned'
  <2>1. Owned
    BY <1>3, OwnIs
  <2>2. \A p \in 1 .. Len(items) : ~(items[p].what = "exit" /\ items[p].sym # NULL)
    BY <1>7
  <2>3. \A p \in 2 .. Len(todo) : symbol_stack'[Level(p) - 1][todo[p].sym.name] =
                                    symbol_stack[Level(p) - 1][todo[p].sym.name]
    BY <1>1
  <2>4. QED
    BY <1>1, <1>2, <1>6, <1>7, <1>18, <2>1, <2>2, <2>3, OwnedKept
<1>21. QED
  BY <1>11, <1>13, <1>14, <1>16, <1>17, <1>19, <1>20, OwnIs DEF IInv

\* Before another item than an expression no scope is pending.
LEMMA NonePending ==
  ASSUME todo \in Seq(Items), Shape, todo # <<>>, Head(todo).what \notin {"enter", "expr"}
  PROVE  Count(todo, "enter", 1) = 0
<1>1. Head(todo) = todo[1]
  BY TodoFacts
<1>2. \A q \in DOMAIN todo : todo[q].what # "enter"
  BY <1>1 DEF Shape, Is
<1>3. QED
  BY <1>2, CountFew

LEMMA BoundNumbered ==
  ASSUME TypeOK, Numbered, HasTable, NEW s \in Symbols, scope_bind(s), s.id = created',
         created' >= created, created' \in Nat,
         \A j \in DOMAIN symbol_stack, n \in Names : Bound(j, n) => symbol_stack[j][n].id < s.id
  PROVE  Numbered'
<1> SUFFICES ASSUME NEW j \in DOMAIN symbol_stack', NEW n \in Names, Bound(j, n)'
             PROVE  /\ symbol_stack'[j][n].name = n
                    /\ symbol_stack'[j][n].id <= created'
                    /\ \A k \in DOMAIN symbol_stack' :
                         k > j /\ Bound(k, n)' => symbol_stack'[j][n].id < symbol_stack'[k][n].id
  BY DEF Numbered
<1>1. /\ Len(symbol_stack) \in Nat /\ DOMAIN symbol_stack = 1 .. Len(symbol_stack)
      /\ DOMAIN symbol_stack' = DOMAIN symbol_stack
      /\ symbol_stack'[Len(symbol_stack)][s.name] = s
  BY StackFacts, BindFacts
<1>2. \A k \in DOMAIN symbol_stack, m \in Names :
        /\ Bound(k, m)' <=> Bound(k, m) \/ (k = Len(symbol_stack) /\ m = s.name)
        /\ ~(k = Len(symbol_stack) /\ m = s.name) => symbol_stack'[k][m] = symbol_stack[k][m]
  BY BindFacts
<1>3. CASE j = Len(symbol_stack) /\ n = s.name
  <2>1. symbol_stack'[j][n] = s
    BY <1>1, <1>3
  <2>2. \A k \in DOMAIN symbol_stack' : ~(k > j)
    BY <1>1, <1>3
  <2>3. QED
    BY <1>3, <2>1, <2>2
<1>4. CASE ~(j = Len(symbol_stack) /\ n = s.name)
  <2>1. Bound(j, n) /\ symbol_stack'[j][n] = symbol_stack[j][n]
    BY <1>1, <1>2, <1>4
  <2>2. /\ symbol_stack[j][n].name = n /\ symbol_stack[j][n].id <= created
        /\ \A k \in DOMAIN symbol_stack :
             k > j /\ Bound(k, n) => symbol_stack[j][n].id < symbol_stack[k][n].id
    BY <1>1, <2>1 DEF Numbered
  <2>3. symbol_stack[j][n].id \in Nat /\ created \in Nat /\ symbol_stack[j][n].id < s.id
    BY <1>1, <2>1, StackFacts DEF TypeOK
  <2>4. ASSUME NEW k \in DOMAIN symbol_stack', k > j, Bound(k, n)'
        PROVE  symbol_stack'[j][n].id < symbol_stack'[k][n].id
    <3>1. CASE k = Len(symbol_stack) /\ n = s.name
      BY <1>1, <2>1, <2>3, <3>1
    <3>2. CASE ~(k = Len(symbol_stack) /\ n = s.name)
      BY <1>1, <1>2, <2>1, <2>2, <2>4, <3>2
    <3>3. QED
      BY <3>1, <3>2
  <2>5. symbol_stack'[j][n].id <= created'
    BY <2>1, <2>2, <2>3
  <2>6. QED
    BY <2>1, <2>2, <2>4, <2>5
<1>5. QED
  BY <1>3, <1>4

LEMMA BoundKinds ==
  ASSUME TypeOK, KindsMatchLevels, HasTable, NEW s \in Symbols, scope_bind(s), Whole' => Whole,
         Whole => \A j \in DOMAIN symbol_stack : symbol_stack[j] # NULL,
         Whole => (s.kind = "GLOBAL" <=> Len(symbol_stack) = 1) /\ (s.kind = "PARAM" <=> s.by = "param")
  PROVE  KindsMatchLevels'
<1> SUFFICES ASSUME Whole', NEW j \in DOMAIN symbol_stack', NEW n \in Names,
                    symbol_stack'[j][n] # NULL
             PROVE  LET r == symbol_stack'[j][n] IN
                    /\ r.name = n /\ (r.kind = "GLOBAL" <=> j = 1) /\ (r.kind = "PARAM" <=> r.by = "param")
  BY DEF KindsMatchLevels
<1>1. /\ DOMAIN symbol_stack' = DOMAIN symbol_stack
      /\ symbol_stack'[Len(symbol_stack)][s.name] = s
      /\ ~(j = Len(symbol_stack) /\ n = s.name) => symbol_stack'[j][n] = symbol_stack[j][n]
  BY BindFacts
<1>2. CASE j = Len(symbol_stack) /\ n = s.name
  BY <1>1, <1>2
<1>3. CASE ~(j = Len(symbol_stack) /\ n = s.name)
  BY <1>1, <1>3 DEF KindsMatchLevels
<1>4. QED
  BY <1>2, <1>3

\* The scope in which a function is being resolved is below the one on top.
LEMMA OwnBelow ==
  ASSUME TypeOK, Shape, TablesCounted, ~failed, todo # <<>>, Head(todo).what \notin {"enter", "expr"}
  PROVE  /\ Len(symbol_stack) = Level(1)
         /\ \A p \in DOMAIN todo : Is(p, "exit") /\ todo[p].sym # NULL =>
              Level(p) - 1 \in 1 .. Len(symbol_stack) - 1
<1>1. todo \in Seq(Items) /\ Len(symbol_stack) \in Nat
  BY StackFacts DEF TypeOK
<1>2. Count(todo, "enter", 1) = 0
  BY <1>1, NonePending
<1>3. Level(1) \in Nat /\ \A p \in DOMAIN todo : p \in Nat /\ p >= 1 /\ Level(p) \in Nat
  BY <1>1, TodoFacts
<1>4. Len(symbol_stack) = Level(1)
  BY <1>1, <1>2, <1>3 DEF TablesCounted
<1>5. ASSUME NEW p \in DOMAIN todo, Is(p, "exit"), todo[p].sym # NULL
      PROVE  Level(p) - 1 \in 1 .. Len(symbol_stack) - 1
  <2>1. Level(p) >= 2
    BY <1>5 DEF Shape
  <2>2. Level(p) <= Level(1)
    BY <1>1, <1>3, LevelsFall
  <2>3. QED
    BY <1>1, <1>3, <1>4, <2>1, <2>2
<1>6. QED
  BY <1>4, <1>5

LEMMA BindKeeps ==
  ASSUME IInv, Bind
  PROVE  IInv'
<1> DEFINE s == Head(todo).sym
           body == <<Do("enter"), Do("params"), Do("stmt"), ExitFrom(s)>>
           items == IF s.by = "function" THEN body ELSE <<>>
<1>1. /\ At("declare") /\ todo # <<>> /\ Head(todo).what = "declare" /\ ~At("stopped")
      /\ scope_bind(s) /\ Then(items) /\ UNCHANGED <<created, said, failed>>
  BY DEF Bind, At
<1>2. TypeOK /\ Numbered /\ Declared /\ KindsMatchLevels /\ OwnNameBound /\ Shape /\ TablesCounted
  BY <1>1 DEF IInv
<1>3. todo \in Seq(Items) /\ Head(todo) \in Items /\ created \in Nat
  BY <1>1, <1>2, TodoFacts, BoundsAssumption DEF TypeOK
<1>4. s \in Symbols
  BY <1>1, <1>3 DEF Items
<1>5. /\ HasTable /\ s # NULL /\ s.kind # "PARAM" /\ s.by # "param" /\ s.id = created
      /\ \A j \in DOMAIN symbol_stack, n \in Names : Bound(j, n) => symbol_stack[j][n].id < created
      /\ ~failed => (s.kind = "GLOBAL" <=> Len(symbol_stack) = 1)
  BY <1>1, <1>2 DEF Declared, scope_level
<1>6. /\ body \in Seq(Items) /\ Group(body) /\ Len(body) = 4
      /\ body[1].what # "declare" /\ body[4].sym = s /\ Count(body, "exit", 4) = 1
      /\ \A p \in 1 .. 4 : body[p].what = "exit" <=> p = 4
  BY <1>1, <1>4, FunctionList
<1> HIDE DEF s, body
<1>7. /\ items \in Seq(Items) /\ Group(items)
      /\ 1 \in 1 .. Len(items) => items[1].what # "declare"
      /\ \A p \in 1 .. Len(items) : items[p].what = "exit" =>
           p = 4 /\ items[4].sym = s /\ Count(items, "exit", 4) = 1
  <2>1. CASE s.by = "function"
    BY <1>6, <2>1
  <2>2. CASE s.by # "function"
    <3>1. items = <<>> /\ Len(<<>>) = 0
      BY <2>2, EmptySeq
    <3> HIDE DEF items
    <3>2. items \in Seq(Items) /\ Group(items)
      BY <3>1, GroupEmpty
    <3>3. 1 .. Len(items) = {}
      BY <3>1
    <3>4. QED
      BY <3>2, <3>3
  <2>3. QED
    BY <2>1, <2>2
<1> HIDE DEF items
<1>8. /\ symbol_stack' \in Seq(Tables \cup {NULL})
      /\ Len(symbol_stack') = Len(symbol_stack) /\ DOMAIN symbol_stack' = DOMAIN symbol_stack
      /\ \A j \in 1 .. Len(symbol_stack) - 1 : symbol_stack'[j] = symbol_stack[j]
      /\ \A j \in DOMAIN symbol_stack : symbol_stack'[j] # NULL <=> symbol_stack[j] # NULL
      /\ symbol_stack'[Len(symbol_stack)][s.name] = s
  BY <1>1, <1>2, <1>4, <1>5, BindFacts
<1>9. TypeOK'
  <2>1. todo' \in Seq(Items)
    BY <1>1, <1>3, <1>7, ThenFacts
  <2>2. QED
    BY <1>1, <1>2, <1>8, <2>1 DEF TypeOK
<1>10. Numbered'
  BY <1>1, <1>2, <1>3, <1>4, <1>5, BoundNumbered
<1>11. Declared'
  <2>1. ~At("declare")'
    BY <1>1, <1>2, <1>3, <1>7, HeadAfter
  <2>2. QED
    BY <2>1 DEF Declared
<1>12. Whole' => Whole
  BY <1>1 DEF Whole
<1>13. KindsMatchLevels'
  <2>1. Whole => \A j \in DOMAIN symbol_stack : symbol_stack[j] # NULL
    BY <1>2 DEF Whole, TablesCounted, Tabled
  <2>2. Whole => ~failed
    BY DEF Whole
  <2>3. QED
    BY <1>1, <1>2, <1>4, <1>5, <1>12, <2>1, <2>2, BoundKinds
<1>14. Owned'
  <2>1. Owned
    BY <1>2, OwnIs
  <2>2. ASSUME Whole'
        PROVE  /\ Len(symbol_stack) = Level(1)
               /\ \A p \in DOMAIN todo : Is(p, "exit") /\ todo[p].sym # NULL =>
                    Level(p) - 1 \in 1 .. Len(symbol_stack) - 1
    BY <1>1, <1>2, <2>2, OwnBelow DEF Whole
  <2>3. ASSUME Whole', NEW p \in 1 .. Len(items), items[p].what = "exit", items[p].sym # NULL
        PROVE  symbol_stack'[Level(p)' - 1][items[p].sym.name] = items[p].sym
    <3>1. p = 4 /\ items[p].sym = s /\ Count(items, "exit", p) = 1
      BY <1>7, <2>3
    <3>2. Level(p)' = Count(items, "exit", p) + Level(2)
      BY <1>1, <1>3, <1>7, ThenFacts
    <3>3. Level(1) = Level(2) /\ Level(2) \in Nat
      <4>1. Count(todo, "exit", 1) = Count(todo, "exit", 2) + (IF Head(todo).what = "exit" THEN 1 ELSE 0)
        BY <1>1, <1>3, CountFirst
      <4>2. Level(2) \in Nat
        BY <1>3, <1>1, TodoFacts
      <4>3. Level(1) = Level(2) + 0
        BY <1>1, <4>1 DEF Level
      <4>4. QED
        BY <4>2, <4>3
    <3>4. Level(p)' - 1 = Len(symbol_stack)
      BY <2>2, <2>3, <3>1, <3>2, <3>3
    <3>5. QED
      BY <1>8, <3>1, <3>4
  <2>4. ASSUME Whole', NEW p \in 2 .. Len(todo), Is(p, "exit"), todo[p].sym # NULL
        PROVE  symbol_stack'[Level(p) - 1][todo[p].sym.name] =
                 symbol_stack[Level(p) - 1][todo[p].sym.name]
    <3>1. p \in DOMAIN todo
      BY <1>1, <1>3, TodoFacts
    <3>2. Level(p) - 1 \in 1 .. Len(symbol_stack) - 1
      BY <2>2, <2>4, <3>1
    <3>3. QED
      BY <1>8, <3>2
  <2>5. QED
    BY <1>1, <1>3, <1>7, <1>12, <2>1, <2>3, <2>4, OwnedKept
<1>15. TablesCounted'
  <2>1. PICK k \in Nat : /\ Count(todo', "enter", 1) = Count(todo, "enter", 1) + k
                         /\ Level(1)' = Level(1) + k
    BY <1>1, <1>3, <1>7, GroupCounts
  <2>2. QED
    BY <1>1, <1>2, <1>8, <2>1, CountedKept
<1>16. Shape' /\ ~At("stopped")'
  BY <1>1, <1>2, <1>3, <1>7, ShapeKept
<1>17. QED
  BY <1>9, <1>10, <1>11, <1>13, <1>14, <1>15, <1>16, OwnIs DEF IInv

\* A parameter goes into the scope of its function, over what has its name.
LEMMA ParameterKeeps ==
  ASSUME IInv, NEW n \in Names, param_list_resolve(n)
  PROVE  IInv'
<1> DEFINE s == Symbol(n, "PARAM", "param")
<1>1. /\ todo # <<>> /\ Head(todo).what = "params" /\ HasTable /\ created < MaxSymbols
      /\ created' = created + 1 /\ scope_bind(s) /\ UNCHANGED <<todo, said, failed>>
      /\ ~At("stopped") /\ ~At("declare")
  BY DEF param_list_resolve, At
<1>2. TypeOK /\ Numbered /\ KindsMatchLevels /\ OwnNameBound /\ Shape /\ TablesCounted
  BY <1>1 DEF IInv
<1>3. todo \in Seq(Items) /\ created \in Nat /\ created' \in 0 .. MaxSymbols
  BY <1>1, <1>2, BoundsAssumption DEF TypeOK
<1>4. s \in Symbols /\ s.id = created' /\ s.name = n /\ s.kind = "PARAM" /\ s.by = "param"
  <2>1. s = [id |-> created + 1, name |-> n, kind |-> "PARAM", by |-> "param"]
    BY DEF Symbol
  <2>2. created + 1 \in 1 .. MaxSymbols
    BY <1>1, <1>2, BoundsAssumption DEF TypeOK
  <2> HIDE DEF s
  <2>3. s \in Symbols
    BY <2>1, <2>2 DEF Symbols
  <2>4. QED
    BY <1>1, <2>1, <2>3
<1> HIDE DEF s
<1>5. \A j \in DOMAIN symbol_stack, m \in Names : Bound(j, m) => symbol_stack[j][m].id < s.id
  <2> SUFFICES ASSUME NEW j \in DOMAIN symbol_stack, NEW m \in Names, Bound(j, m)
               PROVE  symbol_stack[j][m].id < s.id
    OBVIOUS
  <2>1. symbol_stack[j][m].id <= created /\ symbol_stack[j][m].id \in Nat
    BY <1>2, StackFacts DEF Numbered
  <2>2. QED
    BY <1>1, <1>3, <1>4, <2>1
<1>6. /\ symbol_stack' \in Seq(Tables \cup {NULL})
      /\ Len(symbol_stack') = Len(symbol_stack) /\ DOMAIN symbol_stack' = DOMAIN symbol_stack
      /\ \A j \in 1 .. Len(symbol_stack) - 1 : symbol_stack'[j] = symbol_stack[j]
      /\ \A j \in DOMAIN symbol_stack : symbol_stack'[j] # NULL <=> symbol_stack[j] # NULL
  BY <1>1, <1>2, <1>4, BindFacts
<1>7. TypeOK'
  BY <1>1, <1>2, <1>3, <1>6 DEF TypeOK
<1>8. Numbered'
  <2>1. created' >= created /\ created' \in Nat
    BY <1>1, <1>3
  <2>2. QED
    BY <1>1, <1>2, <1>4, <1>5, <2>1, BoundNumbered
<1>9. ~At("declare")' /\ ~At("stopped")' /\ (Whole' <=> Whole) /\ Shape'
  <2>1. Shape'
    BY <1>1, <1>2 DEF Shape, Is, Level
  <2>2. QED
    BY <1>1, <2>1 DEF At, Whole
<1>10. TablesCounted'
  <2>1. Count(todo, "enter", 1) \in Nat /\ Level(1) \in Nat
    BY <1>3, PlacesFinite DEF Level
  <2>2. Count(todo', "enter", 1) = Count(todo, "enter", 1) + 0
    BY <1>1, <2>1
  <2>3. Level(1)' = Level(1) + 0
    BY <1>1, <2>1 DEF Level
  <2>4. QED
    BY <1>1, <1>2, <1>6, <2>2, <2>3, CountedKept
<1>11. ASSUME Whole
       PROVE  /\ Len(symbol_stack) = Level(1) /\ Len(symbol_stack) # 1
              /\ \A j \in DOMAIN symbol_stack : symbol_stack[j] # NULL
              /\ \A p \in DOMAIN todo : Is(p, "exit") /\ todo[p].sym # NULL =>
                   Level(p) - 1 \in 1 .. Len(symbol_stack) - 1
  <2>1. ~failed
    BY <1>11 DEF Whole
  <2>2. Len(symbol_stack) = Level(1)
    BY <1>1, <1>2, <2>1, OwnBelow
  <2>3. Level(1) >= 2
    <3>1. Head(todo) = todo[1] /\ 1 \in DOMAIN todo
      BY <1>1, <1>3, TodoFacts
    <3>2. QED
      BY <1>1, <1>2, <3>1 DEF Shape, Is
  <2>4. \A j \in DOMAIN symbol_stack : symbol_stack[j] # NULL
    BY <1>2, <2>1 DEF TablesCounted, Tabled
  <2>5. QED
    BY <1>1, <1>2, <2>1, <2>2, <2>3, <2>4, OwnBelow
<1>12. KindsMatchLevels'
  <2>1. Whole => (s.kind = "GLOBAL" <=> Len(symbol_stack) = 1) /\ (s.kind = "PARAM" <=> s.by = "param")
    BY <1>4, <1>11
  <2>2. QED
    BY <1>1, <1>2, <1>4, <1>9, <1>11, <2>1, BoundKinds
<1>13. Owned'
  <2> SUFFICES ASSUME Whole', NEW p \in DOMAIN todo, Is(p, "exit"), todo[p].sym # NULL
               PROVE  symbol_stack'[Level(p) - 1][todo[p].sym.name] = todo[p].sym
    BY <1>1 DEF Owned, Is, Level
  <2>1. symbol_stack[Level(p) - 1][todo[p].sym.name] = todo[p].sym
    BY <1>2, <1>9, OwnIs DEF Owned
  <2>2. symbol_stack'[Level(p) - 1] = symbol_stack[Level(p) - 1]
    BY <1>6, <1>9, <1>11
  <2>3. QED
    BY <2>1, <2>2
<1>14. QED
  BY <1>7, <1>8, <1>9, <1>10, <1>12, <1>13, OwnIs DEF IInv, Declared

\* A scope is entered with a table, or without one, or not at all.
LEMMA EnterKeeps ==
  ASSUME IInv, scope_enter \/ ScopeMissing
  PROVE  IInv'
<1>1. /\ todo # <<>> /\ Head(todo).what = "enter" /\ ~At("stopped") /\ Then(<<>>)
      /\ UNCHANGED <<created, said>>
      /\ \/ symbol_stack' = Append(symbol_stack, NoSymbols) /\ UNCHANGED failed
         \/ symbol_stack' = Append(symbol_stack, NULL) /\ failed' = TRUE
         \/ UNCHANGED symbol_stack /\ failed' = TRUE
  BY DEF scope_enter, ScopeMissing, At
<1>2. TypeOK /\ Numbered /\ KindsMatchLevels /\ OwnNameBound /\ Shape /\ TablesCounted
  BY <1>1 DEF IInv
<1>3. todo \in Seq(Items) /\ failed \in BOOLEAN /\ created \in Nat
  BY <1>2, BoundsAssumption DEF TypeOK
<1>4. <<>> \in Seq(Items) /\ Group(<<>>) /\ Len(<<>>) = 0 /\ 1 .. Len(<<>>) = {}
  BY GroupEmpty, EmptySeq
<1>5. Shape' /\ ~At("stopped")' /\ ~At("declare")' /\ todo' \in Seq(Items)
  <2>1. 1 \in 1 .. Len(<<>>) => <<>>[1].what # "declare"
    BY <1>4
  <2>2. ~At("declare")'
    BY <1>1, <1>2, <1>3, <1>4, <2>1, HeadAfter
  <2>3. QED
    BY <1>1, <1>2, <1>3, <1>4, <2>2, ShapeKept, ThenFacts
<1>6. /\ Level(1) \in Nat /\ Count(todo, "enter", 1) \in Nat /\ Count(todo', "enter", 1) \in Nat
      /\ Count(todo, "enter", 1) = Count(todo', "enter", 1) + 1 /\ Level(1)' = Level(1)
  <2>1. \A what \in {"enter", "exit"} :
          /\ Count(todo, what, 1) \in Nat /\ Count(todo, what, 2) \in Nat
          /\ Count(todo, what, 1) =
               Count(todo, what, 2) + (IF Head(todo).what = what THEN 1 ELSE 0)
    BY <1>1, <1>3, TodoFacts
  <2>2. \A what \in {"enter", "exit"} : Count(<<>>, what, 1) = 0
    BY GroupEmpty
  <2>3. \A what \in {"enter", "exit"} : Count(todo', what, 1) = Count(<<>>, what, 1) + Count(todo, what, 2)
    BY <1>1, <1>3, <1>4, ThenFacts
  <2>4. \A what \in {"enter", "exit"} : Count(todo', what, 1) = Count(todo, what, 2)
    BY <2>1, <2>2, <2>3
  <2>5. Count(todo, "enter", 1) = Count(todo', "enter", 1) + 1
    BY <1>1, <2>1, <2>4
  <2>6. Count(todo, "exit", 1) = Count(todo', "exit", 1) + 0
    BY <1>1, <2>1, <2>4
  <2>7. Level(1)' = Level(1) /\ Level(1) \in Nat
    BY <2>1, <2>4, <2>6 DEF Level
  <2>8. QED
    BY <2>1, <2>4, <2>5, <2>7
<1>7. /\ symbol_stack' \in Seq(Tables \cup {NULL}) /\ NothingBound
      /\ \A j \in DOMAIN symbol_stack : j \in DOMAIN symbol_stack' /\ symbol_stack'[j] = symbol_stack[j]
  <2>1. ASSUME NEW t \in {NoSymbols, NULL}, symbol_stack' = Append(symbol_stack, t)
        PROVE  /\ symbol_stack' \in Seq(Tables \cup {NULL}) /\ NothingBound
               /\ \A j \in DOMAIN symbol_stack :
                    j \in DOMAIN symbol_stack' /\ symbol_stack'[j] = symbol_stack[j]
    <3>1. /\ symbol_stack' \in Seq(Tables \cup {NULL})
          /\ DOMAIN symbol_stack' = 1 .. Len(symbol_stack) + 1
          /\ \A j \in DOMAIN symbol_stack : symbol_stack'[j] = symbol_stack[j]
          /\ \A j \in DOMAIN symbol_stack', n \in Names :
               Bound(j, n)' <=> j \in DOMAIN symbol_stack /\ Bound(j, n)
      BY <1>2, <2>1, EnterFacts
    <3>2. \A j \in DOMAIN symbol_stack : j \in DOMAIN symbol_stack'
      BY <1>2, <3>1, StackFacts
    <3>3. NothingBound
      BY <3>1 DEF NothingBound
    <3>4. QED
      BY <3>1, <3>2, <3>3
  <2>2. CASE UNCHANGED symbol_stack
    BY <1>2, <2>2 DEF TypeOK, NothingBound, Bound
  <2>3. QED
    BY <1>1, <2>1, <2>2
<1>8. TypeOK'
  BY <1>1, <1>2, <1>5, <1>7 DEF TypeOK
<1>9. Numbered'
  <2>1. created' \in Nat /\ created' >= created
    BY <1>1, <1>3
  <2>2. QED
    BY <1>2, <1>7, <2>1, NumberedKept
<1>10. /\ Tabled \subseteq DOMAIN symbol_stack /\ Cardinality(Tabled) \in Nat /\ IsFiniteSet(Tabled)
       /\ Len(symbol_stack) \in Nat /\ DOMAIN symbol_stack = 1 .. Len(symbol_stack)
       /\ Cardinality(DOMAIN symbol_stack) = Len(symbol_stack)
  BY <1>2, TabledFacts, StackFacts DEF Tabled
<1>11. ASSUME symbol_stack' = Append(symbol_stack, NoSymbols), UNCHANGED failed
       PROVE  TablesCounted' /\ \A j \in DOMAIN symbol_stack' : ~failed => symbol_stack'[j] # NULL
  <2>1. /\ Len(symbol_stack') = Len(symbol_stack) + 1
        /\ DOMAIN symbol_stack' = 1 .. Len(symbol_stack) + 1
        /\ \A j \in DOMAIN symbol_stack : symbol_stack'[j] = symbol_stack[j]
        /\ symbol_stack'[Len(symbol_stack) + 1] = NoSymbols
    BY <1>2, <1>11, EnterFacts
  <2>2. NoSymbols # NULL
    BY NoSymbolsFacts
  <2>3. DOMAIN symbol_stack' = DOMAIN symbol_stack \cup {Len(symbol_stack) + 1}
    BY <1>10, <2>1
  <2>4. Tabled' = Tabled \cup {Len(symbol_stack) + 1}
    BY <2>1, <2>2, <2>3 DEF Tabled
  <2>5. Len(symbol_stack) + 1 \notin Tabled
    BY <1>10
  <2>6. Cardinality(Tabled') = Cardinality(Tabled) + 1
    BY <1>10, <2>4, <2>5, FS_AddElement
  <2>7. CASE failed
    <3>1. Cardinality(Tabled) + Count(todo, "enter", 1) < Level(1)
      BY <1>2, <2>7 DEF TablesCounted
    <3>2. Cardinality(Tabled') + Count(todo', "enter", 1) < Level(1)'
      BY <1>6, <1>10, <2>6, <3>1
    <3>3. QED
      BY <1>11, <2>7, <3>2 DEF TablesCounted
  <2>8. CASE ~failed
    <3>1. Tabled = DOMAIN symbol_stack /\ Len(symbol_stack) + Count(todo, "enter", 1) = Level(1)
      BY <1>2, <2>8 DEF TablesCounted
    <3>2. Tabled' = DOMAIN symbol_stack'
      BY <2>3, <2>4, <3>1
    <3>3. Len(symbol_stack') + Count(todo', "enter", 1) = Level(1)'
      BY <1>6, <1>10, <2>1, <3>1
    <3>4. TablesCounted'
      BY <1>11, <2>8, <3>2, <3>3 DEF TablesCounted
    <3>5. QED
      BY <3>2, <3>4 DEF Tabled
  <2>9. QED
    BY <1>3, <2>7, <2>8
<1>12. ASSUME \/ symbol_stack' = Append(symbol_stack, NULL)
              \/ UNCHANGED symbol_stack,
              failed' = TRUE
       PROVE  TablesCounted'
  <2>1. Tabled' = Tabled
    <3>1. CASE symbol_stack' = Append(symbol_stack, NULL)
      <4>1. /\ DOMAIN symbol_stack' = 1 .. Len(symbol_stack) + 1
            /\ \A j \in DOMAIN symbol_stack : symbol_stack'[j] = symbol_stack[j]
            /\ symbol_stack'[Len(symbol_stack) + 1] = NULL
        BY <1>2, <3>1, EnterFacts
      <4>2. DOMAIN symbol_stack' = DOMAIN symbol_stack \cup {Len(symbol_stack) + 1}
        BY <1>10, <4>1
      <4>3. QED
        BY <4>1, <4>2 DEF Tabled
    <3>2. CASE UNCHANGED symbol_stack
      BY <3>2 DEF Tabled
    <3>3. QED
      BY <1>12, <3>1, <3>2
  <2>2. Cardinality(Tabled) + Count(todo, "enter", 1) <= Level(1)
    <3>1. CASE failed
      BY <1>2, <1>6, <1>10, <3>1 DEF TablesCounted
    <3>2. CASE ~failed
      BY <1>2, <1>6, <1>10, <3>2 DEF TablesCounted
    <3>3. QED
      BY <3>1, <3>2
  <2>3. Cardinality(Tabled') + Count(todo', "enter", 1) < Level(1)'
    BY <1>6, <1>10, <2>1, <2>2
  <2>4. QED
    BY <1>12, <2>3 DEF TablesCounted
<1>13. TablesCounted'
  BY <1>1, <1>11, <1>12
<1>14. Whole' => Whole /\ symbol_stack' = Append(symbol_stack, NoSymbols) /\ UNCHANGED failed
  BY <1>1 DEF Whole
<1>15. KindsMatchLevels'
  <2>1. Whole' => \A j \in DOMAIN symbol_stack' : symbol_stack'[j] # NULL
    BY <1>11, <1>14 DEF Whole
  <2>2. QED
    BY <1>2, <1>7, <1>14, <2>1, KindsKept
<1>16. Owned'
  <2>1. Owned
    BY <1>2, OwnIs
  <2>2. ASSUME Whole', NEW p \in 2 .. Len(todo), Is(p, "exit"), todo[p].sym # NULL
        PROVE  symbol_stack'[Level(p) - 1][todo[p].sym.name] =
                 symbol_stack[Level(p) - 1][todo[p].sym.name]
    <3>1. p \in DOMAIN todo /\ p \in Nat /\ p >= 1 /\ Level(p) \in Nat
      BY <1>1, <1>3, TodoFacts
    <3>2. Level(p) >= 2 /\ Level(p) <= Level(1)
      BY <1>2, <1>3, <2>2, <3>1, LevelsFall DEF Shape
    <3>3. Level(1) = Len(symbol_stack) + Count(todo, "enter", 1)
      BY <1>2, <1>14, <2>2 DEF TablesCounted, Whole
    <3>4. Count(todo', "enter", 1) = 0
      <4>1. Count(todo, "enter", 1) <= 1
        <5>1. Head(todo) = todo[1] /\ 1 \in DOMAIN todo
          BY <1>1, <1>3, TodoFacts
        <5>2. \A q \in DOMAIN todo : todo[q].what = "enter" <=> q = 1
          BY <1>1, <1>2, <5>1 DEF Shape, Is
        <5>3. Count(todo, "enter", 1) = IF 1 <= 1 THEN 1 ELSE 0
          BY <1>3, <5>1, <5>2, CountFew
        <5>4. QED
          BY <5>3
      <4>2. QED
        BY <1>6, <4>1
    <3>5. Level(p) - 1 \in 1 .. Len(symbol_stack)
      BY <1>6, <1>10, <3>1, <3>2, <3>3, <3>4
    <3>6. QED
      BY <1>7, <1>10, <3>5
  <2>3. QED
    BY <1>1, <1>3, <1>4, <1>14, <2>1, <2>2, OwnedKept
<1>17. QED
  BY <1>5, <1>8, <1>9, <1>13, <1>15, <1>16, OwnIs DEF IInv, Declared

\* A scope is left: its table and one exit less.
LEMMA LeaveKeeps ==
  ASSUME IInv, At("exit"), HasTable, symbol_stack' = Front(symbol_stack), Then(<<>>),
         UNCHANGED <<created, said, failed>>
  PROVE  IInv'
<1>1. todo # <<>> /\ Head(todo).what = "exit" /\ ~At("stopped")
  BY DEF At
<1>2. TypeOK /\ Numbered /\ KindsMatchLevels /\ OwnNameBound /\ Shape /\ TablesCounted
  BY <1>1 DEF IInv
<1>3. todo \in Seq(Items) /\ failed \in BOOLEAN /\ created \in Nat
  BY <1>2, BoundsAssumption DEF TypeOK
<1>4. <<>> \in Seq(Items) /\ Group(<<>>) /\ Len(<<>>) = 0 /\ 1 .. Len(<<>>) = {}
  BY GroupEmpty, EmptySeq
<1>5. Shape' /\ ~At("stopped")' /\ ~At("declare")' /\ todo' \in Seq(Items)
  <2>1. 1 \in 1 .. Len(<<>>) => <<>>[1].what # "declare"
    BY <1>4
  <2>2. ~At("declare")'
    BY <1>1, <1>2, <1>3, <1>4, <2>1, HeadAfter
  <2>3. QED
    BY <1>1, <1>2, <1>3, <1>4, <2>2, ShapeKept, ThenFacts
<1>6. /\ Level(1) \in Nat /\ Count(todo, "enter", 1) \in Nat /\ Level(1)' \in Nat /\ Level(2) \in Nat
      /\ Count(todo', "enter", 1) = Count(todo, "enter", 1)
      /\ Level(1) = Level(1)' + 1 /\ Level(2) = Level(1)'
  <2>1. \A what \in {"enter", "exit"} :
          /\ Count(todo, what, 1) \in Nat /\ Count(todo, what, 2) \in Nat
          /\ Count(todo, what, 1) =
               Count(todo, what, 2) + (IF Head(todo).what = what THEN 1 ELSE 0)
    BY <1>1, <1>3, TodoFacts
  <2>2. \A what \in {"enter", "exit"} : Count(todo', what, 1) = Count(<<>>, what, 1) + Count(todo, what, 2)
    BY <1>1, <1>3, <1>4, ThenFacts
  <2>3. \A what \in {"enter", "exit"} : Count(todo', what, 1) = Count(todo, what, 2)
    BY <2>1, <2>2, GroupEmpty
  <2>4. Count(todo, "enter", 1) = Count(todo', "enter", 1) + 0
    BY <1>1, <2>1, <2>3
  <2>5. Count(todo, "exit", 1) = Count(todo', "exit", 1) + 1
    BY <1>1, <2>1, <2>3
  <2>6. Level(1) = Level(1)' + 1 /\ Level(1) \in Nat /\ Level(1)' \in Nat /\ Level(2) = Level(1)'
    BY <2>1, <2>3, <2>5 DEF Level
  <2>7. QED
    BY <2>1, <2>3, <2>4, <2>6
<1>7. /\ symbol_stack' \in Seq(Tables \cup {NULL}) /\ Len(symbol_stack') = Len(symbol_stack) - 1
      /\ DOMAIN symbol_stack' = 1 .. Len(symbol_stack) - 1
      /\ \A j \in DOMAIN symbol_stack' : j \in DOMAIN symbol_stack /\ symbol_stack'[j] = symbol_stack[j]
  BY <1>2, LeaveFacts
<1>8. TypeOK'
  BY <1>2, <1>5, <1>7 DEF TypeOK
<1>9. NothingBound
  BY <1>7 DEF NothingBound, Bound
<1>10. Numbered'
  BY <1>2, <1>3, <1>9, NumberedKept
<1>11. /\ Cardinality(Tabled) \in Nat /\ IsFiniteSet(Tabled)
       /\ Len(symbol_stack) \in Nat /\ Len(symbol_stack) >= 1
       /\ DOMAIN symbol_stack = 1 .. Len(symbol_stack)
       /\ symbol_stack[Len(symbol_stack)] # NULL
  BY <1>2, TabledFacts, StackFacts
<1>12. TablesCounted'
  <2>1. Len(symbol_stack) \in Tabled
    BY <1>11 DEF Tabled
  <2>2. DOMAIN symbol_stack' = DOMAIN symbol_stack \ {Len(symbol_stack)}
    BY <1>7, <1>11
  <2>3. Tabled' = Tabled \ {Len(symbol_stack)}
    BY <1>7, <2>2 DEF Tabled
  <2>4. Cardinality(Tabled') = Cardinality(Tabled) - 1
    BY <1>11, <2>1, <2>3, FS_RemoveElement
  <2>5. CASE failed
    <3>1. Cardinality(Tabled) + Count(todo, "enter", 1) < Level(1)
      BY <1>2, <2>5 DEF TablesCounted
    <3>2. Cardinality(Tabled') + Count(todo', "enter", 1) < Level(1)'
      BY <1>6, <1>11, <2>4, <3>1
    <3>3. QED
      BY <2>5, <3>2 DEF TablesCounted
  <2>6. CASE ~failed
    <3>1. Tabled = DOMAIN symbol_stack /\ Len(symbol_stack) + Count(todo, "enter", 1) = Level(1)
      BY <1>2, <2>6 DEF TablesCounted
    <3>2. Tabled' = DOMAIN symbol_stack'
      BY <2>2, <2>3, <3>1
    <3>3. Len(symbol_stack') + Count(todo', "enter", 1) = Level(1)'
      BY <1>6, <1>7, <1>11, <3>1
    <3>4. QED
      BY <2>6, <3>2, <3>3 DEF TablesCounted
  <2>7. QED
    BY <1>3, <2>5, <2>6
<1>13. Whole' => Whole
  BY <1>1 DEF Whole
<1>14. KindsMatchLevels'
  <2>1. Whole' => \A j \in DOMAIN symbol_stack' : symbol_stack'[j] # NULL
    BY <1>2, <1>7 DEF Whole, TablesCounted, Tabled
  <2>2. QED
    BY <1>2, <1>9, <1>13, <2>1, KindsKept
<1>15. Owned'
  <2>1. Owned
    BY <1>2, OwnIs
  <2>2. ASSUME Whole', NEW p \in 2 .. Len(todo), Is(p, "exit"), todo[p].sym # NULL
        PROVE  symbol_stack'[Level(p) - 1][todo[p].sym.name] =
                 symbol_stack[Level(p) - 1][todo[p].sym.name]
    <3>1. p \in DOMAIN todo /\ p \in Nat /\ p >= 2 /\ Level(p) \in Nat
      BY <1>1, <1>3, TodoFacts
    <3>2. Level(p) >= 2 /\ Level(p) <= Level(2)
      BY <1>2, <1>3, <2>2, <3>1, LevelsFall DEF Shape
    <3>3. Level(1) = Len(symbol_stack)
      <4>1. ~failed
        BY <2>2 DEF Whole
      <4>2. QED
        BY <1>1, <1>2, <4>1, OwnBelow
    <3>4. Level(p) - 1 \in 1 .. Len(symbol_stack) - 1
      BY <1>6, <1>11, <3>1, <3>2, <3>3
    <3>5. QED
      BY <1>7, <3>4
  <2>3. QED
    BY <1>1, <1>3, <1>4, <1>13, <2>1, <2>2, OwnedKept
<1>16. QED
  BY <1>5, <1>8, <1>10, <1>12, <1>14, <1>15, OwnIs DEF IInv, Declared

-----------------------------------------------------------------------------
(* scope_lookup.                                                           *)

\* A non-empty set of numbers up to a bound has a greatest element.
LEMMA Greatest ==
  ASSUME NEW b \in Nat, NEW S \in SUBSET (1 .. b), S # {}
  PROVE  Max(S) \in S /\ \A c \in S : c <= Max(S)
<1> DEFINE R == OpToRel(<, Nat)
           T == {b - c : c \in S}
<1>1. IsWellFoundedOn(R, Nat)
  BY NatLessThanWellFounded
<1>2. \A c, d \in Nat : c < d => <<c, d>> \in R
  BY DEF OpToRel
<1> HIDE DEF R
<1>3. T \in SUBSET Nat /\ T # {}
  OBVIOUS
<1> HIDE DEF T
<1>4. PICK d \in T : \A c \in T : <<c, d>> \notin R
  BY <1>1, <1>3, WFMin, Zenon
<1>5. \A c \in T : ~(c < d)
  BY <1>2, <1>3, <1>4
<1>6. PICK m \in S : d = b - m
  BY <1>4 DEF T
<1>7. \A c \in S : m >= c
  <2> SUFFICES ASSUME NEW c \in S PROVE m >= c
    OBVIOUS
  <2>1. b - c \in T
    BY DEF T
  <2>2. ~(b - c < b - m)
    BY <1>5, <1>6, <2>1
  <2>3. QED
    BY <2>2
<1>8. Max(S) \in S /\ \A c \in S : Max(S) >= c
  BY <1>6, <1>7 DEF Max
<1>9. QED
  BY <1>8

\* The search ends at the highest table that has the name, if one has it.
LEMMA LookupFacts ==
  ASSUME TypeOK, NEW n \in Names
  PROVE  \/ /\ scope_lookup(n) = NULL
            /\ \A j \in DOMAIN symbol_stack : ~Bound(j, n)
         \/ \E j \in DOMAIN symbol_stack :
              /\ Bound(j, n) /\ scope_lookup(n) = symbol_stack[j][n] /\ scope_lookup(n) # NULL
              /\ \A k \in DOMAIN symbol_stack : Bound(k, n) => k <= j
<1> DEFINE found == {j \in DOMAIN symbol_stack : symbol_stack[j] # NULL /\ symbol_stack[j][n] # NULL}
<1>1. Len(symbol_stack) \in Nat /\ found \in SUBSET (1 .. Len(symbol_stack))
  BY StackFacts
<1>2. \A j \in DOMAIN symbol_stack : j \in found <=> Bound(j, n)
  BY DEF Bound
<1>3. scope_lookup(n) = IF found = {} THEN NULL ELSE symbol_stack[Max(found)][n]
  BY DEF scope_lookup
<1>4. found \subseteq DOMAIN symbol_stack
  OBVIOUS
<1> HIDE DEF found
<1>5. CASE found = {}
  BY <1>2, <1>3, <1>5
<1>6. CASE found # {}
  <2>1. Max(found) \in found /\ \A c \in found : c <= Max(found)
    BY <1>1, <1>6, Greatest
  <2>2. Bound(Max(found), n) /\ Max(found) \in DOMAIN symbol_stack
    BY <1>2, <1>4, <2>1
  <2>3. scope_lookup(n) = symbol_stack[Max(found)][n]
    BY <1>3, <1>6
  <2>4. scope_lookup(n) # NULL
    BY <2>2, <2>3 DEF Bound
  <2>5. \A k \in DOMAIN symbol_stack : Bound(k, n) => k <= Max(found)
    BY <1>2, <2>1
  <2>6. QED
    BY <2>2, <2>3, <2>4, <2>5
<1>7. QED
  BY <1>5, <1>6

-----------------------------------------------------------------------------
(* The invariant holds.                                                    *)

LEMMA InitInvariant == Init => IInv
<1> SUFFICES ASSUME Init PROVE IInv
  OBVIOUS
<1>1. /\ symbol_stack = <<>> /\ created = 0 /\ failed = FALSE
      /\ said = [op |-> "none", name |-> NULL, sym |-> NULL]
  BY DEF Init
<1>2. /\ todo \in Seq(Items) /\ Len(todo) = 3 /\ DOMAIN todo = 1 .. 3
      /\ todo # <<>> /\ Head(todo) = todo[1]
      /\ todo[1].what = "enter" /\ todo[2].what = "decls" /\ todo[3].what = "exit"
      /\ todo[1].sym = NULL /\ todo[2].sym = NULL /\ todo[3].sym = NULL
  BY DoItem DEF Init, Program
<1>3. DOMAIN symbol_stack = {} /\ Len(symbol_stack) = 0 /\ symbol_stack \in Seq(Tables \cup {NULL})
  BY <1>1, EmptySeq
<1>4. Level(1) = 1 /\ Count(todo, "enter", 1) = 1
  <2>1. /\ 1 \in DOMAIN todo /\ 3 \in DOMAIN todo
        /\ \A q \in DOMAIN todo : todo[q].what = "enter" <=> q = 1
        /\ \A q \in DOMAIN todo : todo[q].what = "exit" <=> q = 3
    BY <1>2
  <2>2. QED
    BY <1>2, <2>1, OneScope DEF Level
<1>5. TypeOK
  <2>1. created \in 0 .. MaxSymbols
    BY <1>1, BoundsAssumption
  <2>2. failed \in BOOLEAN
    BY <1>1
  <2>3. said \in [op : {"none", "redeclare", "use"}, name : Names \cup {NULL},
                  sym : 1 .. MaxSymbols \cup {NULL}]
    BY <1>1
  <2>4. QED
    BY <1>2, <1>3, <2>1, <2>2, <2>3 DEF TypeOK
<1>6. Numbered /\ Declared /\ KindsMatchLevels
  BY <1>2, <1>3 DEF Numbered, Declared, KindsMatchLevels, At
<1>7. OwnNameBound
  <2>1. Owned
    BY <1>2 DEF Owned
  <2>2. QED
    BY <2>1, OwnIs
<1>8. Shape
  BY <1>2 DEF Shape, Is
<1>9. TablesCounted
  <2>1. Tabled = DOMAIN symbol_stack
    BY <1>3 DEF Tabled
  <2>2. QED
    BY <1>1, <1>3, <1>4, <2>1 DEF TablesCounted
<1>10. QED
  BY <1>5, <1>6, <1>7, <1>8, <1>9 DEF IInv

\* What a use says of a name.
LEMMA UseSays ==
  ASSUME TypeOK, NEW n \in Names, expr_resolve(n)
  PROVE  said' \in Sayings
<1>1. \/ scope_lookup(n) = NULL
      \/ scope_lookup(n) # NULL /\ scope_lookup(n).id \in 1 .. MaxSymbols
  <2>1. CASE \E j \in DOMAIN symbol_stack :
               /\ Bound(j, n) /\ scope_lookup(n) = symbol_stack[j][n] /\ scope_lookup(n) # NULL
               /\ \A k \in DOMAIN symbol_stack : Bound(k, n) => k <= j
    BY <2>1, StackFacts
  <2>2. QED
    BY <2>1, LookupFacts
<1> DEFINE sym == IF scope_lookup(n) = NULL THEN NULL ELSE scope_lookup(n).id
<1>2. sym \in 1 .. MaxSymbols \cup {NULL}
  BY <1>1
<1>3. said' = [op |-> "use", name |-> n, sym |-> sym]
  BY DEF expr_resolve
<1> HIDE DEF sym
<1>4. QED
  BY <1>2, <1>3 DEF Sayings

LEMMA NextInvariant == IInv /\ [Next]_vars => IInv'
<1> SUFFICES ASSUME IInv, [Next]_vars PROVE IInv'
  OBVIOUS
<1>1. TypeOK /\ said \in Sayings /\ todo \in Seq(Items)
  BY DEF IInv, TypeOK, Sayings
<1>2. CASE scope_enter \/ ScopeMissing
  BY <1>2, EnterKeeps
<1>3. CASE scope_exit
  BY <1>3, LeaveKeeps, StopKeeps DEF scope_exit
<1>4. ASSUME \/ \E n \in Names, by \in DeclKinds : Redeclared(n, by)
             \/ End \/ stmt_resolve \/ else_body
      PROVE  IInv'
  <2>1. said' \in Sayings
    <3>1. CASE \E n \in Names, by \in DeclKinds : Redeclared(n, by)
      BY <3>1 DEF Redeclared, Sayings
    <3>2. CASE End \/ stmt_resolve \/ else_body
      BY <1>1, <3>2 DEF End, stmt_resolve, else_body
    <3>3. QED
      BY <1>4, <3>1, <3>2
  <2>2. ~At("stopped")
    BY <1>4 DEF Redeclared, End, stmt_resolve, else_body, AtDecl, AtStmt, At
  <2>3. /\ \E items \in Seq(Items) : Quiet(items) /\ Then(items)
        /\ todo # <<>> /\ Head(todo).what \notin {"enter", "exit"}
        /\ UNCHANGED <<symbol_stack, created, failed>>
    BY <1>1, <1>4, QuietSteps
  <2>4. QED
    BY <2>1, <2>2, <2>3, QuietKeeps
<1>5. ASSUME NEW n \in Names, NEW by \in DeclKinds, decl_resolve(n, by) PROVE IInv'
  BY <1>5, DeclareKeeps
<1>6. ASSUME NEW n \in Names, param_list_resolve(n) PROVE IInv'
  BY <1>6, ParameterKeeps
<1>7. ASSUME NEW n \in Names, expr_resolve(n) PROVE IInv'
  <2>1. UNCHANGED <<symbol_stack, todo, created, failed>>
    BY <1>7 DEF expr_resolve
  <2>2. said' \in Sayings
    BY <1>1, <1>7, UseSays
  <2>3. QED
    BY <2>1, <2>2, UseKeeps
<1>8. CASE Unbound \/ Lost
  BY <1>8, StopKeeps DEF Unbound, Lost
<1>9. CASE Bind
  BY <1>9, BindKeeps
<1>10. CASE Resolved \/ UNCHANGED vars
  BY <1>1, <1>10, UseKeeps DEF Resolved, vars
<1>11. QED
  BY <1>2, <1>3, <1>4, <1>5, <1>6, <1>7, <1>8, <1>9, <1>10 DEF Next

\* The invariant holds in every state of name resolution.
THEOREM Invariant == Spec => []IInv
BY InitInvariant, NextInvariant, PTL DEF Spec

-----------------------------------------------------------------------------
(* What it shows.                                                          *)

\* Every variable of symbol.c holds a value of its type: a scope is a table or
\* the null pointer, and no identifier is resolved to anything but a symbol
\* that symbol_create made.
THEOREM TypeCorrect == Spec => []TypeOK
<1>1. IInv => TypeOK
  BY DEF IInv
<1>2. QED
  BY <1>1, Invariant, PTL

\* However declarations, statements and functions nest, scope_enter and
\* scope_exit stay paired: there are as many scopes, entered or about to be, as
\* exits to come, and the declarations of the file see one table.
THEOREM ScopesStayBalanced == Spec => []ScopesBalanced
<1>1. IInv => ScopesBalanced
  <2> SUFFICES ASSUME IInv, Whole
               PROVE  /\ scope_level + Cardinality(Pending("enter")) = Cardinality(Pending("exit"))
                      /\ Pending("decls") # {} /\ Head(todo).what = "decls" => scope_level = 1
    BY DEF ScopesBalanced
  <2>1. TypeOK /\ Shape /\ TablesCounted /\ ~failed /\ todo \in Seq(Items)
    BY DEF IInv, Whole, TypeOK
  <2>2. Len(symbol_stack) + Count(todo, "enter", 1) = Level(1)
    BY <2>1 DEF TablesCounted
  <2>3. DOMAIN todo = 1 .. Len(todo) /\ Len(todo) \in Nat
    BY <2>1, LenProperties
  <2>4. \A what : Pending(what) = Places(todo, what, 1)
    BY <2>3 DEF Pending, Places
  <2>5. scope_level + Cardinality(Pending("enter")) = Cardinality(Pending("exit"))
    BY <2>2, <2>4 DEF scope_level, Count, Level
  <2>6. ASSUME Pending("decls") # {}, Head(todo).what = "decls"
        PROVE  scope_level = 1
    <3>1. todo # <<>>
      <4>1. DOMAIN todo # {}
        BY <2>6 DEF Pending
      <4>2. QED
        BY <4>1
    <3>2. Head(todo) = todo[1] /\ 1 \in DOMAIN todo
      BY <2>1, <3>1, TodoFacts
    <3>3. 1 = Len(todo) - 1 /\ todo[Len(todo)].what = "exit"
      BY <2>1, <2>6, <3>1, <3>2 DEF Shape, Is
    <3>4. Len(todo) = 2
      <4>1. 1 = Len(todo) - 1 /\ Len(todo) \in Nat
        BY <2>3, <3>3
      <4>2. QED
        BY <4>1
    <3>5. 2 \in DOMAIN todo /\ \A q \in DOMAIN todo : todo[q].what = "exit" <=> q = 2
      <4>1. \A q \in 1 .. 2 : q = 1 \/ q = 2
        OBVIOUS
      <4>2. QED
        BY <2>3, <2>6, <3>2, <3>3, <3>4, <4>1
    <3>6. Count(todo, "exit", 1) = IF 1 <= 2 THEN 1 ELSE 0
      BY <2>1, <3>5, CountFew
    <3>7. Count(todo, "enter", 1) = 0
      BY <2>1, <2>6, <3>1, NonePending
    <3>8. Len(symbol_stack) \in Nat
      BY <2>1, StackFacts
    <3>9. Level(1) = 1
      BY <3>6 DEF Level
    <3>10. Len(symbol_stack) + 0 = 1
      BY <2>2, <3>7, <3>9
    <3>11. QED
      BY <3>8, <3>10 DEF scope_level
  <2>7. QED
    BY <2>5, <2>6
<1>2. QED
  BY <1>1, Invariant, PTL

\* The kind decl_resolve gives a symbol before its value is resolved is right
\* when the name is bound, under any nesting: GLOBAL in the file's table alone.
THEOREM KindsStayRight == Spec => []KindsMatchLevels
<1>1. IInv => KindsMatchLevels
  BY DEF IInv
<1>2. QED
  BY <1>1, Invariant, PTL

\* While a function's body is resolved its own name stays bound to it in the
\* scope around it, whatever its parameters and its body declare.
THEOREM RecursionBound == Spec => []OwnNameBound
<1>1. IInv => OwnNameBound
  BY DEF IInv
<1>2. QED
  BY <1>1, Invariant, PTL

\* Name resolution never comes to its end after a scope was entered without a
\* table: the tables stay too few for the exits, and scope_exit meets that.
THEOREM MissingIsNoticed == Spec => []MissingNoticed
<1>1. IInv => MissingNoticed
  <2> SUFFICES ASSUME IInv, todo = <<>>, failed PROVE FALSE
    BY DEF MissingNoticed, IInv, TypeOK
  <2>1. TypeOK /\ TablesCounted
    BY DEF IInv, At
  <2>2. Cardinality(Tabled) + Count(todo, "enter", 1) < Level(1)
    BY <2>1 DEF TablesCounted
  <2>3. Level(1) = 0 /\ Count(todo, "enter", 1) = 0
    BY GroupEmpty DEF Level
  <2>4. Cardinality(Tabled) \in Nat
    BY <2>1, TabledFacts
  <2>5. QED
    BY <2>2, <2>3, <2>4
<1>2. QED
  BY <1>1, Invariant, PTL

-----------------------------------------------------------------------------
(***************************************************************************)
(* Name resolution implements LexicalScoping.  Under the mapping of        *)
(* Resolver's INSTANCE the scopes are the tables of the stack, the live    *)
(* declarations the symbols in them, and the one begun that of the item    *)
(* being done; every step of symbol.c is a step of LexicalScoping or none, *)
(* and the search down the stack finds the largest number because the      *)
(* numbers rise with the level (`Numbered`).                               *)
(***************************************************************************)
LEMMA LiveIs ==
  /\ \A d : d \in Live <=>
       \E j \in DOMAIN symbol_stack, n \in Names : Bound(j, n) /\ d = Seen(j, n, symbol_stack[j][n])
  /\ \A d : d \in Live' <=>
       \E j \in DOMAIN symbol_stack', n \in Names : Bound(j, n)' /\ d = Seen(j, n, symbol_stack'[j][n])
<1>1. \A d : d \in Live <=>
        \E j \in DOMAIN symbol_stack, n \in Names : Bound(j, n) /\ d = Seen(j, n, symbol_stack[j][n])
  <2> SUFFICES ASSUME NEW d
               PROVE  d \in Live <=> \E j \in DOMAIN symbol_stack, n \in Names :
                        Bound(j, n) /\ d = Seen(j, n, symbol_stack[j][n])
    OBVIOUS
  <2>1. ASSUME d \in Live
        PROVE  \E j \in DOMAIN symbol_stack, n \in Names :
                 Bound(j, n) /\ d = Seen(j, n, symbol_stack[j][n])
    <3>1. PICK b \in {p \in (DOMAIN symbol_stack) \X Names : Bound(p[1], p[2])} :
            d = Seen(b[1], b[2], symbol_stack[b[1]][b[2]])
      BY <2>1 DEF Live
    <3>2. b[1] \in DOMAIN symbol_stack /\ b[2] \in Names /\ Bound(b[1], b[2])
      BY <3>1
    <3>3. QED
      BY <3>1, <3>2 DEF Seen
  <2>2. ASSUME NEW j \in DOMAIN symbol_stack, NEW n \in Names, Bound(j, n),
               d = Seen(j, n, symbol_stack[j][n])
        PROVE  d \in Live
    <3> DEFINE b == <<j, n>>
    <3>1. /\ b \in {p \in (DOMAIN symbol_stack) \X Names : Bound(p[1], p[2])}
          /\ b[1] = j /\ b[2] = n
      BY <2>2
    <3> HIDE DEF b
    <3>2. d = Seen(b[1], b[2], symbol_stack[b[1]][b[2]])
      BY <2>2, <3>1 DEF Seen
    <3>3. QED
      BY <3>1, <3>2 DEF Live
  <2>3. QED
    BY <2>1, <2>2
<1>2. \A d : d \in Live' <=>
        \E j \in DOMAIN symbol_stack', n \in Names : Bound(j, n)' /\ d = Seen(j, n, symbol_stack'[j][n])
  <2> SUFFICES ASSUME NEW d
               PROVE  d \in Live' <=> \E j \in DOMAIN symbol_stack', n \in Names :
                        Bound(j, n)' /\ d = Seen(j, n, symbol_stack'[j][n])
    OBVIOUS
  <2>1. ASSUME d \in Live'
        PROVE  \E j \in DOMAIN symbol_stack', n \in Names :
                 Bound(j, n)' /\ d = Seen(j, n, symbol_stack'[j][n])
    <3>1. PICK b \in {p \in (DOMAIN symbol_stack') \X Names : Bound(p[1], p[2])'} :
            d = Seen(b[1], b[2], symbol_stack'[b[1]][b[2]])
      BY <2>1 DEF Live, Bound
    <3>2. b[1] \in DOMAIN symbol_stack' /\ b[2] \in Names /\ Bound(b[1], b[2])'
      BY <3>1
    <3>3. QED
      BY <3>1, <3>2 DEF Seen
  <2>2. ASSUME NEW j \in DOMAIN symbol_stack', NEW n \in Names, Bound(j, n)',
               d = Seen(j, n, symbol_stack'[j][n])
        PROVE  d \in Live'
    <3> DEFINE b == <<j, n>>
    <3>1. /\ b \in {p \in (DOMAIN symbol_stack') \X Names : Bound(p[1], p[2])'}
          /\ b[1] = j /\ b[2] = n
      BY <2>2 DEF Bound
    <3> HIDE DEF b
    <3>2. d = Seen(b[1], b[2], symbol_stack'[b[1]][b[2]])
      BY <2>2, <3>1 DEF Seen
    <3>3. QED
      BY <3>1, <3>2 DEF Live, Bound
  <2>3. QED
    BY <2>1, <2>2
<1>3. QED
  BY <1>1, <1>2

\* A live declaration stands for a symbol in a table.
LEMMA LiveFacts ==
  ASSUME TypeOK
  PROVE  \A d \in Live : /\ d.level \in 1 .. Len(symbol_stack) /\ d.name \in Names
                         /\ Bound(d.level, d.name)
                         /\ d.sym = symbol_stack[d.level][d.name].id /\ d.sym \in 1 .. MaxSymbols
<1> SUFFICES ASSUME NEW d \in Live
             PROVE  /\ d.level \in 1 .. Len(symbol_stack) /\ d.name \in Names
                    /\ Bound(d.level, d.name)
                    /\ d.sym = symbol_stack[d.level][d.name].id /\ d.sym \in 1 .. MaxSymbols
  OBVIOUS
<1>1. PICK j \in DOMAIN symbol_stack, n \in Names :
        Bound(j, n) /\ d = Seen(j, n, symbol_stack[j][n])
  BY LiveIs
<1>2. d.name = n /\ d.level = j /\ d.sym = symbol_stack[j][n].id
  BY <1>1 DEF Seen
<1>3. QED
  BY <1>1, <1>2, StackFacts

\* With the same names bound to the same symbols the same declarations live.
LEMMA LiveSame ==
  ASSUME \A j \in DOMAIN symbol_stack', n \in Names :
           Bound(j, n)' <=> j \in DOMAIN symbol_stack /\ Bound(j, n),
         \A j \in DOMAIN symbol_stack :
           j \in DOMAIN symbol_stack' /\ symbol_stack'[j] = symbol_stack[j]
  PROVE  Live' = Live
<1>1. ASSUME NEW d PROVE d \in Live' <=> d \in Live
  <2>1. ASSUME NEW j \in DOMAIN symbol_stack', NEW n \in Names, Bound(j, n)'
        PROVE  /\ j \in DOMAIN symbol_stack /\ Bound(j, n)
               /\ Seen(j, n, symbol_stack'[j][n]) = Seen(j, n, symbol_stack[j][n])
    BY <2>1
  <2>2. ASSUME NEW j \in DOMAIN symbol_stack, NEW n \in Names, Bound(j, n)
        PROVE  /\ j \in DOMAIN symbol_stack' /\ Bound(j, n)'
               /\ Seen(j, n, symbol_stack'[j][n]) = Seen(j, n, symbol_stack[j][n])
    BY <2>2
  <2>3. QED
    BY <2>1, <2>2, LiveIs
<1>2. QED
  BY <1>1

-----------------------------------------------------------------------------
(* The steps.                                                              *)

\* While something other than a declaration is done, none is begun.
LEMMA NoneBegun ==
  ASSUME NEW what, what \notin {"declare", "stopped"}, At(what)
  PROVE  Begun = {} /\ At("stopped") = FALSE /\ Scoping!Between
<1>1. ~At("declare") /\ ~At("stopped")
  BY DEF At
<1>2. QED
  BY <1>1 DEF Begun, Scoping!Between

\* Nor is one when it is done.
LEMMA NoneBegunAfter ==
  ASSUME IInv, ~At("stopped"), todo # <<>>, NEW items \in Seq(Items), Then(items),
         1 \in 1 .. Len(items) => items[1].what \notin {"declare", "stopped"}
  PROVE  Begun' = {} /\ At("stopped")' = FALSE
<1>1. todo \in Seq(Items) /\ Shape
  BY DEF IInv, TypeOK
<1>2. ~At("declare")' /\ ~At("stopped")'
  BY <1>1, HeadAfter
<1>3. QED
  BY <1>2 DEF Begun

LEMMA NoneBegunNext ==
  ASSUME IInv, NEW what, what \notin {"declare", "stopped"}, At(what), Then(<<>>)
  PROVE  Begun' = {} /\ At("stopped")' = FALSE
<1>1. <<>> \in Seq(Items) /\ 1 .. Len(<<>>) = {}
  BY EmptySeq
<1>2. ~At("stopped") /\ todo # <<>>
  BY DEF At
<1>3. QED
  BY <1>1, <1>2, NoneBegunAfter

\* scope_enter opens a scope, and so does pushing a null pointer for a table;
\* when the stack itself finds no memory no scope is there.
LEMMA EnterImplements ==
  ASSUME IInv, scope_enter \/ ScopeMissing
  PROVE  Scoping!Enter \/ UNCHANGED Scoping!vars
<1>1. TypeOK /\ At("enter") /\ Then(<<>>) /\ UNCHANGED said
  BY DEF IInv, scope_enter, ScopeMissing
<1> DEFINE gone == At("stopped")
<1>5. /\ Begun = {} /\ gone = FALSE /\ Scoping!Between
      /\ Begun' = {} /\ gone' = FALSE
  BY <1>1, NoneBegun, NoneBegunNext
<1>2. CASE UNCHANGED symbol_stack
  <2>1. UNCHANGED <<scope_level, Live, said, Begun, gone>>
    BY <1>1, <1>2, <1>5 DEF scope_level, Live, Bound
  <2>2. QED
    BY <2>1 DEF Scoping!vars
<1>3. ASSUME NEW t \in {NoSymbols, NULL}, symbol_stack' = Append(symbol_stack, t)
      PROVE  Scoping!Enter
  <2>1. /\ Len(symbol_stack') = Len(symbol_stack) + 1
        /\ DOMAIN symbol_stack' = 1 .. Len(symbol_stack) + 1
        /\ \A j \in DOMAIN symbol_stack : symbol_stack'[j] = symbol_stack[j]
        /\ \A j \in DOMAIN symbol_stack', n \in Names :
             Bound(j, n)' <=> j \in DOMAIN symbol_stack /\ Bound(j, n)
    BY <1>1, <1>3, EnterFacts
  <2>2. \A j \in DOMAIN symbol_stack : j \in DOMAIN symbol_stack'
    BY <1>1, <2>1, StackFacts
  <2>3. Live' = Live
    BY <2>1, <2>2, LiveSame
  <2>4. QED
    BY <1>1, <1>5, <2>1, <2>3 DEF Scoping!Enter, scope_level
<1>4. QED
  BY <1>2, <1>3 DEF scope_enter, ScopeMissing

\* scope_exit takes the table on top and with it the declarations in it.
LEMMA LeaveImplements ==
  ASSUME IInv, At("exit"), HasTable, symbol_stack' = Front(symbol_stack), Then(<<>>), UNCHANGED said
  PROVE  Scoping!Leave
<1>1. TypeOK
  BY DEF IInv
<1> DEFINE gone == At("stopped")
<1>7. /\ Begun = {} /\ gone = FALSE /\ Scoping!Between
      /\ Begun' = {} /\ gone' = FALSE
  BY NoneBegun, NoneBegunNext
<1>2. /\ Len(symbol_stack') = Len(symbol_stack) - 1
      /\ DOMAIN symbol_stack' = 1 .. Len(symbol_stack) - 1
      /\ \A j \in DOMAIN symbol_stack' : j \in DOMAIN symbol_stack /\ symbol_stack'[j] = symbol_stack[j]
  BY <1>1, LeaveFacts
<1>3. Len(symbol_stack) \in Nat /\ Len(symbol_stack) >= 1 /\ DOMAIN symbol_stack = 1 .. Len(symbol_stack)
  BY <1>1, StackFacts
<1>4. ASSUME NEW d PROVE d \in Live' <=> d \in Live /\ d.level < Len(symbol_stack)
  <2>1. ASSUME NEW j \in DOMAIN symbol_stack', NEW n \in Names, Bound(j, n)',
               d = Seen(j, n, symbol_stack'[j][n])
        PROVE  d \in Live /\ d.level < Len(symbol_stack)
    <3>1. j \in DOMAIN symbol_stack /\ Bound(j, n) /\ d = Seen(j, n, symbol_stack[j][n])
      BY <1>2, <2>1 DEF Bound
    <3>2. d.level = j /\ j < Len(symbol_stack)
      BY <1>2, <1>3, <2>1 DEF Seen
    <3>3. QED
      BY <3>1, <3>2, LiveIs
  <2>2. ASSUME NEW j \in DOMAIN symbol_stack, NEW n \in Names, Bound(j, n),
               d = Seen(j, n, symbol_stack[j][n]), d.level < Len(symbol_stack)
        PROVE  d \in Live'
    <3>1. d.level = j
      BY <2>2 DEF Seen
    <3>2. j \in DOMAIN symbol_stack'
      BY <1>2, <1>3, <2>2, <3>1
    <3>3. Bound(j, n)' /\ d = Seen(j, n, symbol_stack'[j][n])
      BY <1>2, <2>2, <3>2 DEF Bound
    <3>4. QED
      BY <3>2, <3>3, LiveIs
  <2>3. QED
    BY <2>1, <2>2, LiveIs
<1>5. Live' = {d \in Live : d.level < Len(symbol_stack)}
  BY <1>4
<1>6. /\ scope_level > 0 /\ scope_level' = scope_level - 1
      /\ Live' = {d \in Live : d.level < scope_level}
  BY <1>2, <1>3, <1>5 DEF scope_level
<1>8. UNCHANGED <<Begun, gone, said>>
  BY <1>7
<1>9. QED
  BY <1>6, <1>7, <1>8 DEF Scoping!Leave

\* Binding the newest symbol adds a declaration to the scope on top, in the
\* place of the one that has its name there.
LEMMA BindImplements ==
  ASSUME TypeOK, HasTable, NEW s \in Symbols, scope_bind(s)
  PROVE  /\ Live' = (Live \ Scoping!Here(s.name)) \cup {Seen(scope_level, s.name, s)}
         /\ scope_level' = scope_level /\ scope_level > 0
         /\ s.name \in Names /\ s.id \in 1 .. MaxSymbols
<1> DEFINE L == Len(symbol_stack)
           new == Seen(L, s.name, s)
<1>1. L \in Nat /\ L >= 1 /\ DOMAIN symbol_stack = 1 .. L
  BY StackFacts
<1>2. s.name \in Names /\ s.id \in 1 .. MaxSymbols
  BY DEF Symbols
<1>3. /\ Len(symbol_stack') = L /\ DOMAIN symbol_stack' = DOMAIN symbol_stack
      /\ symbol_stack'[L][s.name] = s
      /\ \A j \in DOMAIN symbol_stack, n \in Names :
           /\ Bound(j, n)' <=> Bound(j, n) \/ (j = L /\ n = s.name)
           /\ ~(j = L /\ n = s.name) => symbol_stack'[j][n] = symbol_stack[j][n]
  BY BindFacts
<1>5. new.name = s.name /\ new.level = L
  BY DEF Seen
<1> HIDE DEF L, new
<1>6. ASSUME NEW d PROVE d \in Live' <=> (d \in Live /\ ~(d.name = s.name /\ d.level = L)) \/ d = new
  <2>1. ASSUME NEW j \in DOMAIN symbol_stack', NEW n \in Names, Bound(j, n)',
               d = Seen(j, n, symbol_stack'[j][n])
        PROVE  (d \in Live /\ ~(d.name = s.name /\ d.level = L)) \/ d = new
    <3>1. CASE j = L /\ n = s.name
      BY <1>3, <2>1, <3>1 DEF new
    <3>2. CASE ~(j = L /\ n = s.name)
      <4>1. j \in DOMAIN symbol_stack /\ Bound(j, n) /\ d = Seen(j, n, symbol_stack[j][n])
        BY <1>3, <2>1, <3>2
      <4>2. d.name = n /\ d.level = j
        BY <4>1 DEF Seen
      <4>3. QED
        BY <3>2, <4>1, <4>2, LiveIs
    <3>3. QED
      BY <3>1, <3>2
  <2>2. ASSUME NEW j \in DOMAIN symbol_stack, NEW n \in Names, Bound(j, n),
               d = Seen(j, n, symbol_stack[j][n]), ~(d.name = s.name /\ d.level = L)
        PROVE  d \in Live'
    <3>1. d.name = n /\ d.level = j
      BY <2>2 DEF Seen
    <3>2. j \in DOMAIN symbol_stack' /\ Bound(j, n)' /\ d = Seen(j, n, symbol_stack'[j][n])
      BY <1>3, <2>2, <3>1
    <3>3. QED
      BY <3>2, LiveIs
  <2>3. ASSUME d = new PROVE d \in Live'
    <3>1. PICK j \in DOMAIN symbol_stack' : j = L
      BY <1>1, <1>3
    <3>2. Bound(j, s.name)' /\ d = Seen(j, s.name, symbol_stack'[j][s.name])
      BY <1>1, <1>2, <1>3, <2>3, <3>1 DEF new
    <3>3. QED
      BY <1>2, <3>2, LiveIs
  <2>4. QED
    BY <2>1, <2>2, <2>3, LiveIs
<1>7. Live' = (Live \ {d \in Live : d.name = s.name /\ d.level = L}) \cup {new}
  BY <1>6
<1>8. new = Seen(scope_level, s.name, s) /\ scope_level = L
  BY DEF new, L, scope_level
<1>9. scope_level' = scope_level
  BY <1>3 DEF L, scope_level
<1>10. QED
  BY <1>1, <1>2, <1>7, <1>8, <1>9 DEF Scoping!Here

\* A symbol numbered after all those in the tables is the newest declaration.
LEMMA NewestIs ==
  ASSUME TypeOK, NEW i \in Nat,
         \A j \in DOMAIN symbol_stack, n \in Names : Bound(j, n) => symbol_stack[j][n].id < i
  PROVE  Scoping!Newest(i)
BY LiveFacts, StackFacts DEF Scoping!Newest

\* What the table on top does not have is not declared in the scope.
LEMMA NoneHere ==
  ASSUME TypeOK, HasTable, NEW n \in Names, scope_lookup_current(n) = NULL
  PROVE  Scoping!Here(n) = {}
<1> SUFFICES ASSUME NEW d \in Live, d.name = n, d.level = scope_level PROVE FALSE
  BY DEF Scoping!Here
<1>1. Bound(Len(symbol_stack), n)
  BY LiveFacts DEF scope_level
<1>2. QED
  BY <1>1, StackFacts

\* A declaration begins where its name is new.
LEMMA BeginImplements ==
  ASSUME IInv, NEW n \in Names, NEW by \in DeclKinds, decl_resolve(n, by)
  PROVE  Scoping!Next
<1> DEFINE s == Symbol(n, DeclKind, by)
           items == <<Declaring(s)>> \o Rest
<1>1. /\ AtDecl /\ HasTable /\ scope_lookup_current(n) = NULL /\ created < MaxSymbols
      /\ Then(items) /\ UNCHANGED <<symbol_stack, said>>
  BY DEF decl_resolve
<1>2. /\ TypeOK /\ Numbered /\ created \in Nat
      /\ todo \in Seq(Items) /\ todo # <<>>
  BY <1>1, BoundsAssumption DEF IInv, TypeOK, AtDecl, At
<1>3. /\ s.id = created + 1 /\ s.name = n /\ s.by # "param"
      /\ s.id \in 1 .. MaxSymbols /\ s.id \in Nat
  BY <1>1, <1>2, BoundsAssumption DEF Symbol, DeclKinds
<1>4. At("declare")' /\ ~At("stopped")' /\ Head(todo').sym = s
  <2>1. Declaring(s).what = "declare" /\ Declaring(s).sym = s
    BY DEF Declaring
  <2>2. todo' = (<<Declaring(s)>> \o Rest) \o Tail(todo)
    BY <1>1 DEF Then
  <2>3. Tail(todo) \in Seq(Items) /\ Head(todo) \in Items
    BY <1>2, HeadTailProperties, EmptySeq
  <2>4. Rest \in Seq(Items)
    BY <2>3, EmptySeq DEF Rest
  <2> HIDE DEF s
  <2>5. todo' # <<>> /\ Head(todo') = Declaring(s)
    BY <2>2, <2>3, <2>4
  <2>6. QED
    BY <2>1, <2>5 DEF At
<1>5. Begun = {} /\ At("stopped") = FALSE /\ Scoping!Between
  BY <1>1, NoneBegun DEF AtDecl
<1>6. scope_level > 0 /\ UNCHANGED <<scope_level, Live>>
  BY <1>1, <1>2, StackFacts DEF scope_level, Live, Bound
<1>7. Begun' = {Scoping!New(n, s.id, FALSE)}
  <2>1. Begun' = {Seen(scope_level', s.name, s)}
    BY <1>4 DEF Begun
  <2>2. QED
    BY <1>3, <1>6, <2>1 DEF Seen, Scoping!New
<1>8. Scoping!Newest(s.id)
  <2> SUFFICES ASSUME NEW j \in DOMAIN symbol_stack, NEW m \in Names, Bound(j, m)
               PROVE  symbol_stack[j][m].id < s.id
    BY <1>2, <1>3, NewestIs
  <2>1. symbol_stack[j][m].id <= created /\ symbol_stack[j][m].id \in Nat
    BY <1>2, StackFacts DEF Numbered
  <2>2. QED
    BY <1>2, <1>3, <2>1
<1>9. Scoping!Here(n) = {}
  BY <1>1, <1>2, NoneHere
<1>10. At("stopped")' = FALSE
  BY <1>4
<1> HIDE DEF s
<1>11. Scoping!Begin(n, s.id)
  BY <1>1, <1>5, <1>6, <1>7, <1>8, <1>9, <1>10 DEF Scoping!Begin
<1>12. QED
  BY <1>3, <1>11 DEF Scoping!Next

\* It is bound before anything else, and takes no other's place.
LEMMA DeclareImplements ==
  ASSUME IInv, Bind
  PROVE  Scoping!Next
<1> DEFINE s == Head(todo).sym
           items == IF s.by = "function"
                    THEN <<Do("enter"), Do("params"), Do("stmt"), ExitFrom(s)>>
                    ELSE <<>>
<1>1. At("declare") /\ scope_bind(s) /\ Then(items) /\ UNCHANGED said
  BY DEF Bind
<1>2. TypeOK /\ Declared /\ todo \in Seq(Items) /\ todo # <<>> /\ ~At("stopped")
  BY <1>1 DEF IInv, TypeOK, At
<1>3. s \in Symbols
  <2>1. Head(todo) \in Items /\ Head(todo).what = "declare"
    BY <1>1, <1>2, TodoFacts DEF At
  <2>2. QED
    BY <2>1 DEF Items
<1>4. HasTable /\ scope_lookup_current(s.name) = NULL
  BY <1>1, <1>2 DEF Declared
<1>5. Begun = {Seen(scope_level, s.name, s)}
  BY <1>1 DEF Begun
<1> HIDE DEF s
<1>6. /\ items \in Seq(Items)
      /\ 1 \in 1 .. Len(items) => items[1].what \notin {"declare", "stopped"}
  <2>1. CASE s.by = "function"
    <3>1. ExitFrom(s) \in Items
      BY <1>3 DEF ExitFrom, Items
    <3>2. Do("enter") \in Items /\ Do("params") \in Items /\ Do("stmt") \in Items
          /\ Do("enter").what = "enter"
      BY DoItem
    <3>3. QED
      BY <2>1, <3>1, <3>2
  <2>2. CASE s.by # "function"
    BY <2>2, EmptySeq
  <2>3. QED
    BY <2>1, <2>2
<1> HIDE DEF items
<1> DEFINE gone == At("stopped")
<1>7. Begun' = {} /\ gone' = FALSE /\ gone = FALSE
  <2>1. Begun' = {} /\ At("stopped")' = FALSE
    BY <1>1, <1>2, <1>6, NoneBegunAfter
  <2>2. QED
    BY <1>2, <2>1
<1>8. /\ Live' = (Live \ Scoping!Here(s.name)) \cup {Seen(scope_level, s.name, s)}
      /\ scope_level' = scope_level /\ s.name \in Names
  BY <1>1, <1>2, <1>3, <1>4, BindImplements
<1>9. Scoping!Here(s.name) = {}
  BY <1>2, <1>4, <1>8, NoneHere
<1>10. Scoping!Declare
  BY <1>1, <1>5, <1>7, <1>8, <1>9 DEF Scoping!Declare
<1>11. QED
  BY <1>10 DEF Scoping!Next

LEMMA ParameterImplements ==
  ASSUME IInv, NEW n \in Names, param_list_resolve(n)
  PROVE  Scoping!Next
<1> DEFINE s == Symbol(n, "PARAM", "param")
<1>1. HasTable /\ created < MaxSymbols /\ scope_bind(s) /\ UNCHANGED said
  BY DEF param_list_resolve
<1>2. TypeOK /\ Numbered /\ created \in Nat
  BY BoundsAssumption DEF IInv, TypeOK
<1>3. s \in Symbols /\ s.id = created + 1
  <2>1. s = [id |-> created + 1, name |-> n, kind |-> "PARAM", by |-> "param"]
    BY DEF Symbol
  <2>2. created + 1 \in 1 .. MaxSymbols
    BY <1>1, <1>2, BoundsAssumption
  <2> HIDE DEF s
  <2>3. QED
    BY <2>1, <2>2 DEF Symbols
<1> HIDE DEF s
<1>4. \A j \in DOMAIN symbol_stack, m \in Names : Bound(j, m) => symbol_stack[j][m].id < s.id
  <2> SUFFICES ASSUME NEW j \in DOMAIN symbol_stack, NEW m \in Names, Bound(j, m)
               PROVE  symbol_stack[j][m].id < s.id
    OBVIOUS
  <2>1. symbol_stack[j][m].id <= created /\ symbol_stack[j][m].id \in Nat
    BY <1>2, StackFacts DEF Numbered
  <2>2. QED
    BY <1>2, <1>3, <2>1
<1>5. /\ Live' = (Live \ Scoping!Here(s.name)) \cup {Seen(scope_level, s.name, s)}
      /\ scope_level' = scope_level /\ scope_level > 0
      /\ s.name \in Names /\ s.id \in 1 .. MaxSymbols /\ s.id \in Nat
  BY <1>1, <1>2, <1>3, BindImplements
<1>6. Scoping!Newest(s.id)
  BY <1>2, <1>4, <1>5, NewestIs
<1>7. UNCHANGED todo /\ Scoping!Between /\ Begun = {} /\ At("stopped") = FALSE
  BY NoneBegun DEF param_list_resolve
<1>8. Begun' = {} /\ At("stopped")' = FALSE
  BY <1>7 DEF Begun, At, param_list_resolve
<1>9. Seen(scope_level, s.name, s) = Scoping!New(s.name, s.id, TRUE)
  BY DEF Seen, Scoping!New, s, Symbol
<1>10. Scoping!Parameter(s.name, s.id)
  BY <1>1, <1>5, <1>6, <1>7, <1>8, <1>9 DEF Scoping!Parameter
<1>11. QED
  BY <1>5, <1>10 DEF Scoping!Next

\* The steps that lead to lists of items begin no declaration.
LEMMA QuietBegins ==
  ASSUME IInv,
         \/ \E n \in Names, by \in DeclKinds : Redeclared(n, by)
         \/ End \/ stmt_resolve \/ else_body
  PROVE  /\ Begun = {} /\ At("stopped") = FALSE
         /\ Begun' = {} /\ At("stopped")' = FALSE
<1>1. todo \in Seq(Items)
  BY DEF IInv, TypeOK
<1>2. PICK items \in Seq(Items) : Quiet(items) /\ Then(items)
  BY <1>1, QuietSteps
<1>3. /\ Begun = {} /\ At("stopped") = FALSE /\ ~At("stopped") /\ todo # <<>>
  <2>1. \E what \in {"decls", "stmts", "stmt", "else", "expr", "params"} : At(what)
    BY DEF Redeclared, End, stmt_resolve, else_body, AtDecl, AtStmt
  <2>2. QED
    BY <2>1, NoneBegun DEF At
<1>4. \A p \in 1 .. Len(items) : items[p].what \notin {"declare", "stopped"}
  BY <1>2 DEF Quiet, Group
<1>5. QED
  BY <1>2, <1>3, <1>4, NoneBegunAfter

\* A declaration is refused when its scope has the name.
LEMMA RedeclareImplements ==
  ASSUME IInv, NEW n \in Names, NEW by \in DeclKinds, Redeclared(n, by)
  PROVE  Scoping!Next
<1> DEFINE L == Len(symbol_stack)
           d == Seen(L, n, symbol_stack[L][n])
<1>1. /\ HasTable /\ scope_lookup_current(n) # NULL /\ UNCHANGED symbol_stack
      /\ said' = [op |-> "redeclare", name |-> n, sym |-> NULL]
  BY DEF Redeclared
<1>2. TypeOK
  BY DEF IInv
<1>3. Bound(L, n) /\ L \in DOMAIN symbol_stack
  BY <1>1, <1>2, StackFacts
<1>4. d.name = n /\ d.level = L
  BY DEF Seen
<1>5. d \in Live
  BY <1>3, LiveIs
<1> HIDE DEF d
<1>6. Scoping!Here(n) # {}
  BY <1>4, <1>5 DEF Scoping!Here, scope_level
<1>7. UNCHANGED <<scope_level, Live>>
  BY <1>1 DEF scope_level, Live, Bound
<1>8. Scoping!Between /\ Begun = {} /\ At("stopped") = FALSE
  BY NoneBegun DEF Redeclared, AtDecl
<1>9. Begun' = {} /\ At("stopped")' = FALSE
  BY QuietBegins
<1>10. QED
  BY <1>1, <1>6, <1>7, <1>8, <1>9 DEF Scoping!Next, Scoping!Redeclare

\* The first table down the stack that has the name has the newest symbol.
LEMMA UseImplements ==
  ASSUME IInv, NEW n \in Names, expr_resolve(n)
  PROVE  Scoping!Next
<1>1. /\ UNCHANGED symbol_stack
      /\ said' = [op |-> "use", name |-> n,
                  sym |-> IF scope_lookup(n) = NULL THEN NULL ELSE scope_lookup(n).id]
  BY DEF expr_resolve
<1>2. TypeOK /\ Numbered
  BY DEF IInv
<1> DEFINE gone == At("stopped")
<1>7. gone = FALSE /\ UNCHANGED gone
  BY DEF expr_resolve, AtExpr, At
<1>3. UNCHANGED <<scope_level, Live, Begun>>
  BY <1>1 DEF scope_level, Live, Bound, Begun, expr_resolve, At
<1>4. CASE scope_lookup(n) = NULL /\ \A j \in DOMAIN symbol_stack : ~Bound(j, n)
  <2>1. \A d \in Live : d.name # n
    <3> SUFFICES ASSUME NEW d \in Live, d.name = n PROVE FALSE
      OBVIOUS
    <3>1. d.level \in DOMAIN symbol_stack /\ Bound(d.level, n)
      BY <1>2, LiveFacts, StackFacts
    <3>2. QED
      BY <1>4, <3>1
  <2>2. said' = [op |-> "use", name |-> n, sym |-> NULL]
    BY <1>1, <1>4
  <2>3. Scoping!Use(n)
    BY <1>3, <1>7, <2>1, <2>2 DEF Scoping!Use
  <2>4. QED
    BY <2>3 DEF Scoping!Next
<1>5. ASSUME NEW j \in DOMAIN symbol_stack, Bound(j, n),
             scope_lookup(n) = symbol_stack[j][n], scope_lookup(n) # NULL,
             \A k \in DOMAIN symbol_stack : Bound(k, n) => k <= j
      PROVE  Scoping!Next
  <2> DEFINE d == Seen(j, n, symbol_stack[j][n])
  <2>1. d.name = n /\ d.level = j /\ d.sym = symbol_stack[j][n].id
    BY DEF Seen
  <2>2. d \in Live
    BY <1>5, LiveIs
  <2> HIDE DEF d
  <2>3. said' = [op |-> "use", name |-> n, sym |-> d.sym]
    BY <1>1, <1>5, <2>1
  <2>4. ASSUME NEW e \in Live, e.name = n
        PROVE  e.sym <= d.sym
    <3>1. /\ e.level \in DOMAIN symbol_stack /\ Bound(e.level, n)
          /\ e.sym = symbol_stack[e.level][n].id /\ e.sym \in Nat
          /\ e.level \in Nat /\ j \in Nat
      BY <1>2, <2>4, LiveFacts, StackFacts
    <3>2. e.level <= j
      BY <1>5, <3>1
    <3>3. CASE e.level = j
      BY <2>1, <3>1, <3>3
    <3>4. CASE e.level # j
      <4>1. j > e.level
        BY <3>1, <3>2, <3>4
      <4>2. symbol_stack[e.level][n].id < symbol_stack[j][n].id
        BY <1>2, <1>5, <3>1, <4>1 DEF Numbered
      <4>3. symbol_stack[j][n].id \in Nat
        BY <1>2, <1>5, StackFacts
      <4>4. QED
        BY <2>1, <3>1, <4>2, <4>3
    <3>5. QED
      BY <3>3, <3>4
  <2>5. Scoping!Use(n)
    BY <1>3, <1>7, <2>1, <2>2, <2>3, <2>4 DEF Scoping!Use
  <2>6. QED
    BY <2>5 DEF Scoping!Next
<1>6. QED
  BY <1>2, <1>4, <1>5, LookupFacts

\* The compiler gives up: what was begun is not declared.
LEMMA StopImplements ==
  ASSUME IInv, Stop, ~At("stopped")
  PROVE  Scoping!Next
<1>1. UNCHANGED <<scope_level, Live, said>>
  BY DEF Stop, scope_level, Live, Bound
<1>2. todo' # <<>> /\ Head(todo') = Do("stopped") /\ Do("stopped").what = "stopped"
  BY DoItem DEF Stop
<1>3. Begun' = {} /\ At("stopped")' = TRUE /\ At("stopped") = FALSE
  BY <1>2 DEF Begun, At
<1>4. QED
  BY <1>1, <1>3 DEF Scoping!Next, Scoping!Stop

\* The other steps are none of LexicalScoping's.
LEMMA OtherSteps ==
  ASSUME IInv, End \/ stmt_resolve \/ else_body \/ Resolved \/ UNCHANGED vars
  PROVE  UNCHANGED Scoping!vars
<1> DEFINE gone == At("stopped")
<1>1. UNCHANGED <<symbol_stack, said>>
  BY DEF End, stmt_resolve, else_body, Resolved, vars
<1>2. UNCHANGED <<Begun, gone>>
  <2>1. CASE End \/ stmt_resolve \/ else_body
    BY <2>1, QuietBegins
  <2>2. CASE Resolved \/ UNCHANGED vars
    BY <2>2 DEF Resolved, vars, Begun, At, scope_level
  <2>3. QED
    BY <2>1, <2>2
<1>3. QED
  BY <1>1, <1>2 DEF Scoping!vars, scope_level, Live, Bound

LEMMA NextImplements == IInv /\ [Next]_vars => [Scoping!Next]_(Scoping!vars)
<1> SUFFICES ASSUME IInv, [Next]_vars PROVE Scoping!Next \/ UNCHANGED Scoping!vars
  OBVIOUS
<1>1. CASE scope_enter \/ ScopeMissing
  BY <1>1, EnterImplements DEF Scoping!Next
<1>2. CASE scope_exit
  <2>1. ~At("stopped") /\ At("exit")
    BY <1>2 DEF scope_exit, At
  <2>2. QED
    BY <1>2, <2>1, LeaveImplements, StopImplements DEF scope_exit, Scoping!Next
<1>3. ASSUME NEW n \in Names, NEW by \in DeclKinds, Redeclared(n, by)
      PROVE  Scoping!Next
  BY <1>3, RedeclareImplements
<1>4. ASSUME NEW n \in Names, param_list_resolve(n)
      PROVE  Scoping!Next
  BY <1>4, ParameterImplements
<1>5. ASSUME NEW n \in Names, expr_resolve(n)
      PROVE  Scoping!Next
  BY <1>5, UseImplements
<1>6. CASE Bind
  BY <1>6, DeclareImplements
<1>7. ASSUME NEW n \in Names, NEW by \in DeclKinds, decl_resolve(n, by)
      PROVE  Scoping!Next
  BY <1>7, BeginImplements
<1>8. CASE Unbound \/ Lost
  <2>1. Do("enter").what = "enter" /\ Program # <<>> /\ Head(Program) = Do("enter")
    BY DoItem DEF Program
  <2>2. ~At("stopped") /\ Stop
    BY <1>8, <2>1 DEF Unbound, Lost, AtDecl, AtExpr, At
  <2>3. QED
    BY <2>2, StopImplements
<1>9. CASE End \/ stmt_resolve \/ else_body \/ Resolved \/ UNCHANGED vars
  BY <1>9, OtherSteps
<1>10. QED
  BY <1>1, <1>2, <1>3, <1>4, <1>5, <1>6, <1>7, <1>8, <1>9 DEF Next

-----------------------------------------------------------------------------
\* symbol.c implements lexical scoping: whatever nests in whatever, and
\* whatever scopes have no table, a use finds the most recent declaration that
\* is live, and a declaration is refused exactly when its scope has the name.
THEOREM ImplementsScoping == Spec => LexicallyScoped
<1>1. Init => Scoping!Init
  <2> SUFFICES ASSUME Init PROVE Scoping!Init
    OBVIOUS
  <2>1. symbol_stack = <<>> /\ said = [op |-> "none", name |-> NULL, sym |-> NULL]
    BY DEF Init
  <2>2. DOMAIN symbol_stack = {} /\ scope_level = 0
    BY <2>1, EmptySeq DEF scope_level
  <2>3. Live = {}
    BY <2>2, LiveIs
  <2>4. At("stopped") = FALSE /\ Begun = {}
    <3>1. Do("enter").what = "enter" /\ Head(todo) = Do("enter")
      BY DoItem DEF Init, Program
    <3>2. QED
      BY <3>1 DEF At, Begun
  <2>5. QED
    BY <2>1, <2>2, <2>3, <2>4 DEF Scoping!Init
<1>2. IInv /\ [Next]_vars => [Scoping!Next]_(Scoping!vars)
  BY NextImplements
<1>3. QED
  BY <1>1, <1>2, Invariant, PTL DEF Spec, LexicallyScoped, Scoping!Spec
=============================================================================
