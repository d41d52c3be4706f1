---------------------------- MODULE ExpressionsProofs ----------------------------
(***************************************************************************)
(* Proofs about Expressions: what the passes compute for an expression of  *)
(* any size, and that no pass undoes what an earlier one relied on.        *)
(***************************************************************************)
EXTENDS Expressions, Recursion

-----------------------------------------------------------------------------
(* Recursion over the nodes.                                               *)

Kinds == Arithmetic \cup Boolean \cup Constant
         \cup {"NOT", "INC", "DEC", "ASSIGN", "INDEX", "FUN_CALL", "IDENT"}

Nodes == [kind : Kinds, left : Nat, right : Nat, value : Ints,
          symbol : Identifiers \cup {NoType}, args : Seq(Nat)]

\* A node's operands were created before it.
Ordered(h) ==
  \A i \in 1 .. Len(h) :
    /\ h[i].left \in 0 .. i - 1 /\ h[i].right \in 0 .. i - 1
    /\ h[i].args \in Seq(1 .. i - 1)

\* A recursive function is the solution of its equation: there is one for the
\* numbers up to each m, since the right-hand side for i asks only for values
\* below i.
LEMMA VisitedUnfold ==
  ASSUME NEW h \in Seq(Nodes), Ordered(h)
  PROVE  Visited(h) = [i \in 0 .. Len(h) |-> VisitNode(h, Visited(h), i)]
<1> DEFINE Step(f, i) == VisitNode(h, f, i)
           Solves(f, m) == f = [i \in 0 .. m |-> Step(f, i)]
           Solved == {m \in 0 .. Len(h) : \E f : Solves(f, m)}
<1>0. Len(h) \in Nat
  BY LenProperties
<1>1. ASSUME NEW f, NEW g, NEW i \in 0 .. Len(h), \A j \in 0 .. i - 1 : f[j] = g[j]
      PROVE  Step(f, i) = Step(g, i)
  <2>1. CASE i = 0
    BY <2>1 DEF VisitNode
  <2>2. CASE i # 0
    <3>1. h[i].left \in 0 .. i - 1 /\ h[i].right \in 0 .. i - 1
      BY <1>0, <2>2 DEF Ordered
    <3>2. f[h[i].left] = g[h[i].left] /\ f[h[i].right] = g[h[i].right]
      BY <1>1, <3>1
    <3>3. QED
      BY <2>2, <3>2 DEF VisitNode
  <2>3. QED
    BY <2>1, <2>2
<1>2. Step(0, 0) = Step([i \in 0 .. 0 |-> Step(0, 0)], 0)
  BY <1>0, <1>1
<1> HIDE DEF Step
<1>3. ASSUME NEW m \in 0 .. Len(h), \A j \in 0 .. m - 1 : j \in Solved
      PROVE  m \in Solved
  <2>1. CASE m = 0
    <3>1. Solves([i \in 0 .. 0 |-> Step(0, 0)], 0)
      BY <1>2
    <3>2. QED
      BY <2>1, <3>1, <1>0
  <2>2. CASE m # 0
    <3>1. m - 1 \in 0 .. m - 1 /\ m - 1 \in Solved
      BY <1>3, <2>2, <1>0
    <3>2. PICK f : Solves(f, m - 1)
      BY <3>1
    <3> DEFINE g == [i \in 0 .. m |-> IF i = m THEN Step(f, m) ELSE f[i]]
    <3>3. ASSUME NEW i \in 0 .. m PROVE g[i] = Step(g, i)
      <4>1. \A j \in 0 .. i - 1 : f[j] = g[j]
        OBVIOUS
      <4>2. Step(f, i) = Step(g, i)
        BY <4>1, <1>1, <1>0
      <4>3. g[i] = Step(f, i)
        BY <3>2
      <4>4. QED
        BY <4>2, <4>3
    <3>4. g = [i \in 0 .. m |-> g[i]]
      OBVIOUS
    <3> HIDE DEF g
    <3>5. Solves(g, m)
      BY <3>3, <3>4
    <3>6. QED
      BY <3>5
  <2>3. QED
    BY <2>1, <2>2
<1>4. Len(h) \in Solved
  <2>1. 0 .. Len(h) \subseteq Solved
    BY <1>0, <1>3, UpTo
  <2>2. QED
    BY <2>1, <1>0
<1>5. \E f : Solves(f, Len(h))
  BY <1>4
<1> DEFINE F == CHOOSE f : Solves(f, Len(h))
<1>6. Solves(F, Len(h))
  BY <1>5
<1>7. Visited(h) = F
  BY DEF Visited, Step
<1>8. QED
  BY <1>6, <1>7 DEF Step

LEMMA FoldUnfold ==
  ASSUME NEW h \in Seq(Nodes), Ordered(h)
  PROVE  constant_fold_expr(h) = [i \in 0 .. Len(h) |-> FoldNode(h, constant_fold_expr(h), i)]
<1> DEFINE Step(f, i) == FoldNode(h, f, i)
           Solves(f, m) == f = [i \in 0 .. m |-> Step(f, i)]
           Solved == {m \in 0 .. Len(h) : \E f : Solves(f, m)}
<1>0. Len(h) \in Nat
  BY LenProperties
<1>1. ASSUME NEW f, NEW g, NEW i \in 0 .. Len(h), \A j \in 0 .. i - 1 : f[j] = g[j]
      PROVE  Step(f, i) = Step(g, i)
  <2>1. CASE i = 0
    BY <2>1 DEF FoldNode
  <2>2. CASE i # 0
    <3>1. h[i].left \in 0 .. i - 1 /\ h[i].right \in 0 .. i - 1
      BY <1>0, <2>2 DEF Ordered
    <3>2. f[h[i].left] = g[h[i].left] /\ f[h[i].right] = g[h[i].right]
      BY <1>1, <3>1
    <3>3. QED
      BY <2>2, <3>2 DEF FoldNode
  <2>3. QED
    BY <2>1, <2>2
<1>2. Step(0, 0) = Step([i \in 0 .. 0 |-> Step(0, 0)], 0)
  BY <1>0, <1>1
<1> HIDE DEF Step
<1>3. ASSUME NEW m \in 0 .. Len(h), \A j \in 0 .. m - 1 : j \in Solved
      PROVE  m \in Solved
  <2>1. CASE m = 0
    <3>1. Solves([i \in 0 .. 0 |-> Step(0, 0)], 0)
      BY <1>2
    <3>2. QED
      BY <2>1, <3>1, <1>0
  <2>2. CASE m # 0
    <3>1. m - 1 \in 0 .. m - 1 /\ m - 1 \in Solved
      BY <1>3, <2>2, <1>0
    <3>2. PICK f : Solves(f, m - 1)
      BY <3>1
    <3> DEFINE g == [i \in 0 .. m |-> IF i = m THEN Step(f, m) ELSE f[i]]
    <3>3. ASSUME NEW i \in 0 .. m PROVE g[i] = Step(g, i)
      <4>1. \A j \in 0 .. i - 1 : f[j] = g[j]
        OBVIOUS
      <4>2. Step(f, i) = Step(g, i)
        BY <4>1, <1>1, <1>0
      <4>3. g[i] = Step(f, i)
        BY <3>2
      <4>4. QED
        BY <4>2, <4>3
    <3>4. g = [i \in 0 .. m |-> g[i]]
      OBVIOUS
    <3> HIDE DEF g
    <3>5. Solves(g, m)
      BY <3>3, <3>4
    <3>6. QED
      BY <3>5
  <2>3. QED
    BY <2>1, <2>2
<1>4. Len(h) \in Solved
  <2>1. 0 .. Len(h) \subseteq Solved
    BY <1>0, <1>3, UpTo
  <2>2. QED
    BY <2>1, <1>0
<1>5. \E f : Solves(f, Len(h))
  BY <1>4
<1> DEFINE F == CHOOSE f : Solves(f, Len(h))
<1>6. Solves(F, Len(h))
  BY <1>5
<1>7. constant_fold_expr(h) = F
  BY DEF constant_fold_expr, Step
<1>8. QED
  BY <1>6, <1>7 DEF Step

LEMMA TypecheckUnfold ==
  ASSUME NEW h \in Seq(Nodes), Ordered(h), NEW gone
  PROVE  expr_typecheck(h, gone) = [i \in 0 .. Len(h) |-> TypecheckNode(h, gone, expr_typecheck(h, gone), i)]
<1> DEFINE Step(f, i) == TypecheckNode(h, gone, f, i)
           Solves(f, m) == f = [i \in 0 .. m |-> Step(f, i)]
           Solved == {m \in 0 .. Len(h) : \E f : Solves(f, m)}
<1>0. Len(h) \in Nat
  BY LenProperties
<1>1. ASSUME NEW f, NEW g, NEW i \in 0 .. Len(h), \A j \in 0 .. i - 1 : f[j] = g[j]
      PROVE  Step(f, i) = Step(g, i)
  <2>1. CASE i = 0
    BY <2>1 DEF TypecheckNode
  <2>2. CASE i # 0
    <3>1. /\ h[i].left \in 0 .. i - 1 /\ h[i].right \in 0 .. i - 1
          /\ h[i].args \in Seq(1 .. i - 1)
      BY <1>0, <2>2 DEF Ordered
    <3>2. f[h[i].left] = g[h[i].left] /\ f[h[i].right] = g[h[i].right]
      BY <1>1, <3>1
    <3>3. \A k \in DOMAIN h[i].args : f[h[i].args[k]] = g[h[i].args[k]]
      <4>1. \A k \in DOMAIN h[i].args : h[i].args[k] \in 1 .. i - 1
        BY <3>1
      <4>2. QED
        BY <1>1, <4>1
    <3>4. [k \in DOMAIN h[i].args |-> f[h[i].args[k]]] = [k \in DOMAIN h[i].args |-> g[h[i].args[k]]]
      BY <3>3
    <3>6. QED
      BY <2>2, <3>2, <3>4 DEF TypecheckNode
  <2>3. QED
    BY <2>1, <2>2
<1>2. Step(0, 0) = Step([i \in 0 .. 0 |-> Step(0, 0)], 0)
  BY <1>0, <1>1
<1> HIDE DEF Step
<1>3. ASSUME NEW m \in 0 .. Len(h), \A j \in 0 .. m - 1 : j \in Solved
      PROVE  m \in Solved
  <2>1. CASE m = 0
    <3>1. Solves([i \in 0 .. 0 |-> Step(0, 0)], 0)
      BY <1>2
    <3>2. QED
      BY <2>1, <3>1, <1>0
  <2>2. CASE m # 0
    <3>1. m - 1 \in 0 .. m - 1 /\ m - 1 \in Solved
      BY <1>3, <2>2, <1>0
    <3>2. PICK f : Solves(f, m - 1)
      BY <3>1
    <3> DEFINE g == [i \in 0 .. m |-> IF i = m THEN Step(f, m) ELSE f[i]]
    <3>3. ASSUME NEW i \in 0 .. m PROVE g[i] = Step(g, i)
      <4>1. \A j \in 0 .. i - 1 : f[j] = g[j]
        OBVIOUS
      <4>2. Step(f, i) = Step(g, i)
        BY <4>1, <1>1, <1>0
      <4>3. g[i] = Step(f, i)
        BY <3>2
      <4>4. QED
        BY <4>2, <4>3
    <3>4. g = [i \in 0 .. m |-> g[i]]
      OBVIOUS
    <3> HIDE DEF g
    <3>5. Solves(g, m)
      BY <3>3, <3>4
    <3>6. QED
      BY <3>5
  <2>3. QED
    BY <2>1, <2>2
<1>4. Len(h) \in Solved
  <2>1. 0 .. Len(h) \subseteq Solved
    BY <1>0, <1>3, UpTo
  <2>2. QED
    BY <2>1, <1>0
<1>5. \E f : Solves(f, Len(h))
  BY <1>4
<1> DEFINE F == CHOOSE f : Solves(f, Len(h))
<1>6. Solves(F, Len(h))
  BY <1>5
<1>7. expr_typecheck(h, gone) = F
  BY DEF expr_typecheck, Step
<1>8. QED
  BY <1>6, <1>7 DEF Step

LEMMA FaultsUnfold ==
  ASSUME NEW h \in Seq(Nodes), Ordered(h), NEW gone
  PROVE  Faults(h, gone) = [i \in 0 .. Len(h) |-> NodeFaults(h, gone, Faults(h, gone), i)]
<1> DEFINE Step(f, i) == NodeFaults(h, gone, f, i)
           Solves(f, m) == f = [i \in 0 .. m |-> Step(f, i)]
           Solved == {m \in 0 .. Len(h) : \E f : Solves(f, m)}
<1>0. Len(h) \in Nat
  BY LenProperties
<1>1. ASSUME NEW f, NEW g, NEW i \in 0 .. Len(h), \A j \in 0 .. i - 1 : f[j] = g[j]
      PROVE  Step(f, i) = Step(g, i)
  <2>1. CASE i = 0
    BY <2>1 DEF NodeFaults
  <2>2. CASE i # 0
    <3>1. /\ h[i].left \in 0 .. i - 1 /\ h[i].right \in 0 .. i - 1
          /\ h[i].args \in Seq(1 .. i - 1)
      BY <1>0, <2>2 DEF Ordered
    <3>2. f[h[i].left] = g[h[i].left] /\ f[h[i].right] = g[h[i].right]
      BY <1>1, <3>1
    <3>3. \A k \in DOMAIN h[i].args : f[h[i].args[k]] = g[h[i].args[k]]
      <4>1. \A k \in DOMAIN h[i].args : h[i].args[k] \in 1 .. i - 1
        BY <3>1
      <4>2. QED
        BY <1>1, <4>1
    <3>4. [k \in DOMAIN h[i].args |-> f[h[i].args[k]]] = [k \in DOMAIN h[i].args |-> g[h[i].args[k]]]
      BY <3>3
    <3>5. {f[h[i].args[k]] : k \in DOMAIN h[i].args} = {g[h[i].args[k]] : k \in DOMAIN h[i].args}
      BY <3>3
    <3>6. QED
      BY <2>2, <3>2, <3>4, <3>5 DEF NodeFaults
  <2>3. QED
    BY <2>1, <2>2
<1>2. Step(0, 0) = Step([i \in 0 .. 0 |-> Step(0, 0)], 0)
  BY <1>0, <1>1
<1> HIDE DEF Step
<1>3. ASSUME NEW m \in 0 .. Len(h), \A j \in 0 .. m - 1 : j \in Solved
      PROVE  m \in Solved
  <2>1. CASE m = 0
    <3>1. Solves([i \in 0 .. 0 |-> Step(0, 0)], 0)
      BY <1>2
    <3>2. QED
      BY <2>1, <3>1, <1>0
  <2>2. CASE m # 0
    <3>1. m - 1 \in 0 .. m - 1 /\ m - 1 \in Solved
      BY <1>3, <2>2, <1>0
    <3>2. PICK f : Solves(f, m - 1)
      BY <3>1
    <3> DEFINE g == [i \in 0 .. m |-> IF i = m THEN Step(f, m) ELSE f[i]]
    <3>3. ASSUME NEW i \in 0 .. m PROVE g[i] = Step(g, i)
      <4>1. \A j \in 0 .. i - 1 : f[j] = g[j]
        OBVIOUS
      <4>2. Step(f, i) = Step(g, i)
        BY <4>1, <1>1, <1>0
      <4>3. g[i] = Step(f, i)
        BY <3>2
      <4>4. QED
        BY <4>2, <4>3
    <3>4. g = [i \in 0 .. m |-> g[i]]
      OBVIOUS
    <3> HIDE DEF g
    <3>5. Solves(g, m)
      BY <3>3, <3>4
    <3>6. QED
      BY <3>5
  <2>3. QED
    BY <2>1, <2>2
<1>4. Len(h) \in Solved
  <2>1. 0 .. Len(h) \subseteq Solved
    BY <1>0, <1>3, UpTo
  <2>2. QED
    BY <2>1, <1>0
<1>5. \E f : Solves(f, Len(h))
  BY <1>4
<1> DEFINE F == CHOOSE f : Solves(f, Len(h))
<1>6. Solves(F, Len(h))
  BY <1>5
<1>7. Faults(h, gone) = F
  BY DEF Faults, Step
<1>8. QED
  BY <1>6, <1>7 DEF Step

LEMMA MeaningUnfold ==
  ASSUME NEW h \in Seq(Nodes), Ordered(h)
  PROVE  Meaning(h) = [i \in 0 .. Len(h) |-> MeaningOf(h, Meaning(h), i)]
<1> DEFINE Step(f, i) == MeaningOf(h, f, i)
           Solves(f, m) == f = [i \in 0 .. m |-> Step(f, i)]
           Solved == {m \in 0 .. Len(h) : \E f : Solves(f, m)}
<1>0. Len(h) \in Nat
  BY LenProperties
<1>1. ASSUME NEW f, NEW g, NEW i \in 0 .. Len(h), \A j \in 0 .. i - 1 : f[j] = g[j]
      PROVE  Step(f, i) = Step(g, i)
  <2>1. CASE i = 0
    BY <2>1 DEF MeaningOf
  <2>2. CASE i # 0
    <3>1. /\ h[i].left \in 0 .. i - 1 /\ h[i].right \in 0 .. i - 1
          /\ h[i].args \in Seq(1 .. i - 1)
      BY <1>0, <2>2 DEF Ordered
    <3>2. f[h[i].left] = g[h[i].left] /\ f[h[i].right] = g[h[i].right]
      BY <1>1, <3>1
    <3>3. \A k \in DOMAIN h[i].args : f[h[i].args[k]] = g[h[i].args[k]]
      <4>1. \A k \in DOMAIN h[i].args : h[i].args[k] \in 1 .. i - 1
        BY <3>1
      <4>2. QED
        BY <1>1, <4>1
    <3>4. [k \in DOMAIN h[i].args |-> f[h[i].args[k]]] = [k \in DOMAIN h[i].args |-> g[h[i].args[k]]]
      BY <3>3
    <3>6. QED
      BY <2>2, <3>2, <3>4 DEF MeaningOf
  <2>3. QED
    BY <2>1, <2>2
<1>2. Step(0, 0) = Step([i \in 0 .. 0 |-> Step(0, 0)], 0)
  BY <1>0, <1>1
<1> HIDE DEF Step
<1>3. ASSUME NEW m \in 0 .. Len(h), \A j \in 0 .. m - 1 : j \in Solved
      PROVE  m \in Solved
  <2>1. CASE m = 0
    <3>1. Solves([i \in 0 .. 0 |-> Step(0, 0)], 0)
      BY <1>2
    <3>2. QED
      BY <2>1, <3>1, <1>0
  <2>2. CASE m # 0
    <3>1. m - 1 \in 0 .. m - 1 /\ m - 1 \in Solved
      BY <1>3, <2>2, <1>0
    <3>2. PICK f : Solves(f, m - 1)
      BY <3>1
    <3> DEFINE g == [i \in 0 .. m |-> IF i = m THEN Step(f, m) ELSE f[i]]
    <3>3. ASSUME NEW i \in 0 .. m PROVE g[i] = Step(g, i)
      <4>1. \A j \in 0 .. i - 1 : f[j] = g[j]
        OBVIOUS
      <4>2. Step(f, i) = Step(g, i)
        BY <4>1, <1>1, <1>0
      <4>3. g[i] = Step(f, i)
        BY <3>2
      <4>4. QED
        BY <4>2, <4>3
    <3>4. g = [i \in 0 .. m |-> g[i]]
      OBVIOUS
    <3> HIDE DEF g
    <3>5. Solves(g, m)
      BY <3>3, <3>4
    <3>6. QED
      BY <3>5
  <2>3. QED
    BY <2>1, <2>2
<1>4. Len(h) \in Solved
  <2>1. 0 .. Len(h) \subseteq Solved
    BY <1>0, <1>3, UpTo
  <2>2. QED
    BY <2>1, <1>0
<1>5. \E f : Solves(f, Len(h))
  BY <1>4
<1> DEFINE F == CHOOSE f : Solves(f, Len(h))
<1>6. Solves(F, Len(h))
  BY <1>5
<1>7. Meaning(h) = F
  BY DEF Meaning, Step
<1>8. QED
  BY <1>6, <1>7 DEF Step

LEMMA PowUnfold ==
  ASSUME NEW a \in Int, NEW b \in Nat
  PROVE  \E f : /\ f = [n \in 0 .. b |-> IF n = 0 THEN 1 ELSE IF n = 1 THEN a ELSE Wrap(a * f[n - 1])]
              /\ pow_int(a, b) = f[b]
<1> DEFINE Step(f, i) == IF i = 0 THEN 1 ELSE IF i = 1 THEN a ELSE Wrap(a * f[i - 1])
           Solves(f, m) == f = [i \in 0 .. m |-> Step(f, i)]
           Solved == {m \in 0 .. b : \E f : Solves(f, m)}
<1>0. b \in Nat
  OBVIOUS
<1>1. ASSUME NEW f, NEW g, NEW i \in 0 .. b, \A j \in 0 .. i - 1 : f[j] = g[j]
      PROVE  Step(f, i) = Step(g, i)
  BY <1>1
<1>2. Step(0, 0) = Step([i \in 0 .. 0 |-> Step(0, 0)], 0)
  BY <1>0, <1>1
<1> HIDE DEF Step
<1>3. ASSUME NEW m \in 0 .. b, \A j \in 0 .. m - 1 : j \in Solved
      PROVE  m \in Solved
  <2>1. CASE m = 0
    <3>1. Solves([i \in 0 .. 0 |-> Step(0, 0)], 0)
      BY <1>2
    <3>2. QED
      BY <2>1, <3>1, <1>0
  <2>2. CASE m # 0
    <3>1. m - 1 \in 0 .. m - 1 /\ m - 1 \in Solved
      BY <1>3, <2>2, <1>0
    <3>2. PICK f : Solves(f, m - 1)
      BY <3>1
    <3> DEFINE g == [i \in 0 .. m |-> IF i = m THEN Step(f, m) ELSE f[i]]
    <3>3. ASSUME NEW i \in 0 .. m PROVE g[i] = Step(g, i)
      <4>1. \A j \in 0 .. i - 1 : f[j] = g[j]
        OBVIOUS
      <4>2. Step(f, i) = Step(g, i)
        BY <4>1, <1>1, <1>0
      <4>3. g[i] = Step(f, i)
        BY <3>2
      <4>4. QED
        BY <4>2, <4>3
    <3>4. g = [i \in 0 .. m |-> g[i]]
      OBVIOUS
    <3> HIDE DEF g
    <3>5. Solves(g, m)
      BY <3>3, <3>4
    <3>6. QED
      BY <3>5
  <2>3. QED
    BY <2>1, <2>2
<1>4. b \in Solved
  <2>1. 0 .. b \subseteq Solved
    BY <1>0, <1>3, UpTo
  <2>2. QED
    BY <2>1, <1>0
<1>5. \E f : Solves(f, b)
  BY <1>4
<1> DEFINE F == CHOOSE f : Solves(f, b)
<1>6. Solves(F, b)
  BY <1>5
<1>7. pow_int(a, b) = F[b]
  BY DEF pow_int, Step
<1>8. QED
  BY <1>6, <1>7 DEF Step

LEMMA PowerUnfold ==
  ASSUME NEW a \in Int, NEW b \in Nat
  PROVE  \E f : /\ f = [n \in 0 .. b |-> IF n = 0 THEN 1 ELSE a * f[n - 1]]
              /\ Power(a, b) = f[b]
<1> DEFINE Step(f, i) == IF i = 0 THEN 1 ELSE a * f[i - 1]
           Solves(f, m) == f = [i \in 0 .. m |-> Step(f, i)]
           Solved == {m \in 0 .. b : \E f : Solves(f, m)}
<1>0. b \in Nat
  OBVIOUS
<1>1. ASSUME NEW f, NEW g, NEW i \in 0 .. b, \A j \in 0 .. i - 1 : f[j] = g[j]
      PROVE  Step(f, i) = Step(g, i)
  BY <1>1
<1>2. Step(0, 0) = Step([i \in 0 .. 0 |-> Step(0, 0)], 0)
  BY <1>0, <1>1
<1> HIDE DEF Step
<1>3. ASSUME NEW m \in 0 .. b, \A j \in 0 .. m - 1 : j \in Solved
      PROVE  m \in Solved
  <2>1. CASE m = 0
    <3>1. Solves([i \in 0 .. 0 |-> Step(0, 0)], 0)
      BY <1>2
    <3>2. QED
      BY <2>1, <3>1, <1>0
  <2>2. CASE m # 0
    <3>1. m - 1 \in 0 .. m - 1 /\ m - 1 \in Solved
      BY <1>3, <2>2, <1>0
    <3>2. PICK f : Solves(f, m - 1)
      BY <3>1
    <3> DEFINE g == [i \in 0 .. m |-> IF i = m THEN Step(f, m) ELSE f[i]]
    <3>3. ASSUME NEW i \in 0 .. m PROVE g[i] = Step(g, i)
      <4>1. \A j \in 0 .. i - 1 : f[j] = g[j]
        OBVIOUS
      <4>2. Step(f, i) = Step(g, i)
        BY <4>1, <1>1, <1>0
      <4>3. g[i] = Step(f, i)
        BY <3>2
      <4>4. QED
        BY <4>2, <4>3
    <3>4. g = [i \in 0 .. m |-> g[i]]
      OBVIOUS
    <3> HIDE DEF g
    <3>5. Solves(g, m)
      BY <3>3, <3>4
    <3>6. QED
      BY <3>5
  <2>3. QED
    BY <2>1, <2>2
<1>4. b \in Solved
  <2>1. 0 .. b \subseteq Solved
    BY <1>0, <1>3, UpTo
  <2>2. QED
    BY <2>1, <1>0
<1>5. \E f : Solves(f, b)
  BY <1>4
<1> DEFINE F == CHOOSE f : Solves(f, b)
<1>6. Solves(F, b)
  BY <1>5
<1>7. Power(a, b) = F[b]
  BY DEF Power, Step
<1>8. QED
  BY <1>6, <1>7 DEF Step

-----------------------------------------------------------------------------
(* Arithmetic.                                                             *)

LEMMA WrapFacts ==
  ASSUME NEW x \in Int
  PROVE  Wrap(x) \in Ints /\ (x \in Ints => Wrap(x) = x)
<1> DEFINE n == 2 * INT_MAX + 2
           y == x + INT_MAX + 1
<1>1. n \in Nat \ {0} /\ y \in Int
  BY ExpressionsAssumption
<1>2. y % n \in 0 .. n - 1
  BY <1>1, Z3
<1>3. y \in 0 .. n - 1 => y % n = y
  BY <1>1, Z3
<1>4. Wrap(x) = (y % n) - INT_MAX - 1
  BY DEF Wrap
<1>5. x \in Ints => y \in 0 .. n - 1
  BY ExpressionsAssumption DEF Ints
<1>6. Wrap(x) \in Ints
  BY <1>2, <1>4, ExpressionsAssumption DEF Ints
<1>7. x \in Ints => Wrap(x) = x
  BY <1>3, <1>4, <1>5, ExpressionsAssumption
<1>8. QED
  BY <1>6, <1>7

LEMMA DivFacts ==
  ASSUME NEW a \in Nat, NEW b \in Nat \ {0}
  PROVE  a \div b \in Nat /\ b * (a \div b) <= a /\ a - b * (a \div b) < b
  BY Z3

\* Only one multiple of b is the last one up to a.
LEMMA DivUnique ==
  ASSUME NEW b \in Nat \ {0}, NEW p \in Int, NEW q \in Int, NEW m \in Int, NEW n \in Int,
         b * p + m = b * q + n, -b < m - n, m - n < b
  PROVE  p = q
<1>1. b * (q - p) = m - n
  OBVIOUS
<1>2. ASSUME q - p >= 1 PROVE FALSE
  <2>1. b * (q - p) >= b * 1
    BY <1>2, Z3
  <2>2. QED
    BY <1>1, <2>1
<1>3. ASSUME q - p <= -1 PROVE FALSE
  <2>1. b * (q - p) <= b * (-1)
    BY <1>3, Z3
  <2>2. QED
    BY <1>1, <2>1
<1>4. QED
  BY <1>2, <1>3

LEMMA AbsFacts ==
  ASSUME NEW x \in Int
  PROVE  /\ Abs(x) \in Nat
         /\ x >= 0 => Abs(x) = x
         /\ x < 0 => Abs(x) = -x
         /\ x # 0 => Abs(x) > 0
BY DEF Abs

LEMMA QuotientDivides ==
  ASSUME NEW a \in Int, NEW b \in Int, b # 0
  PROVE  Quotient(a, b) \in Int /\ Divides(a, b, Quotient(a, b), a - b * Quotient(a, b))
<1> DEFINE c == Abs(b)
           d == Abs(a) \div c
           q == Quotient(a, b)
           m == a - b * q
<1>1. c \in Nat \ {0} /\ Abs(a) \in Nat
  BY AbsFacts
<1>2. d \in Nat /\ c * d <= Abs(a) /\ Abs(a) - c * d < c
  BY <1>1, DivFacts
<1>3. q = (IF (a < 0) = (b < 0) THEN 1 ELSE -1) * d
  BY DEF Quotient
<1> HIDE DEF d, q
<1>4. q = IF (a < 0) = (b < 0) THEN d ELSE -d
  BY <1>2, <1>3
<1>5. b * q = IF a < 0 THEN -(c * d) ELSE c * d
  <2>1. CASE a < 0 /\ b < 0
    BY <2>1, <1>2, <1>4, AbsFacts
  <2>2. CASE a < 0 /\ b >= 0
    BY <2>2, <1>2, <1>4, AbsFacts
  <2>3. CASE a >= 0 /\ b < 0
    BY <2>3, <1>2, <1>4, AbsFacts
  <2>4. CASE a >= 0 /\ b >= 0
    BY <2>4, <1>2, <1>4, AbsFacts
  <2>5. QED
    BY <2>1, <2>2, <2>3, <2>4
<1>6. c * d \in Int
  BY <1>1, <1>2
<1>7. q \in Int /\ m \in Int
  BY <1>2, <1>4
<1>8. m = IF a < 0 THEN -(Abs(a) - c * d) ELSE Abs(a) - c * d
  BY <1>5, <1>6, AbsFacts
<1>9. Abs(m) = Abs(a) - c * d
  BY <1>1, <1>2, <1>6, <1>7, <1>8, AbsFacts
<1>10. m * a >= 0
  <2> HIDE DEF m, c
  <2>1. CASE a < 0
    <3>1. m <= 0
      BY <2>1, <1>1, <1>2, <1>6, <1>8
    <3>2. QED
      BY <2>1, <3>1, <1>7, Z3
  <2>2. CASE a >= 0
    <3>1. m >= 0
      BY <2>2, <1>1, <1>2, <1>6, <1>8
    <3>2. QED
      BY <2>2, <3>1, <1>7, Z3
  <2>3. QED
    BY <2>1, <2>2
<1>11. a = b * q + m
  BY <1>7
<1>12. Divides(a, b, q, m)
  BY <1>2, <1>9, <1>10, <1>11 DEF Divides
<1>13. QED
  BY <1>7, <1>12 DEF q

LEMMA DividesUnique ==
  ASSUME NEW a \in Int, NEW b \in Int, NEW p \in Int, NEW q \in Int, NEW m \in Int, NEW n \in Int,
         Divides(a, b, p, m), Divides(a, b, q, n)
  PROVE  p = q /\ m = n
<1> DEFINE c == Abs(b)
<1>1. /\ a = b * p + m /\ Abs(m) < c /\ m * a >= 0
      /\ a = b * q + n /\ Abs(n) < c /\ n * a >= 0
  BY DEF Divides
<1>2. c \in Nat \ {0}
  BY <1>1, AbsFacts
<1>3. -c < m /\ m < c /\ -c < n /\ n < c
  BY <1>1, AbsFacts
<1>4. ASSUME NEW r \in Int, NEW s \in Int, NEW k \in Int, NEW l \in Int,
             b * r + k = b * s + l, -c < k - l, k - l < c
      PROVE  r = s
  <2>1. CASE b >= 0
    <3>1. c = b
      BY <2>1, AbsFacts
    <3>2. QED
      BY <3>1, <1>2, <1>4, DivUnique
  <2>2. CASE b < 0
    <3>1. c = -b
      BY <2>2, AbsFacts
    <3>2. b * r = c * (-r) /\ b * s = c * (-s)
      BY <3>1
    <3>3. c * (-r) + k = c * (-s) + l
      BY <1>4, <3>2
    <3>4. -r = -s
      BY <3>3, <1>2, <1>4, DivUnique
    <3>5. QED
      BY <3>4
  <2>3. QED
    BY <2>1, <2>2
<1>5. p = q
  <2>1. CASE a > 0
    <3>1. m >= 0 /\ n >= 0
      BY <2>1, <1>1, Z3
    <3>2. -c < m - n /\ m - n < c
      BY <3>1, <1>2, <1>3
    <3>3. b * p + m = b * q + n
      BY <1>1
    <3>4. QED
      BY <3>2, <3>3, <1>4
  <2>2. CASE a < 0
    <3>1. m <= 0 /\ n <= 0
      BY <2>2, <1>1, Z3
    <3>2. -c < m - n /\ m - n < c
      BY <3>1, <1>2, <1>3
    <3>3. b * p + m = b * q + n
      BY <1>1
    <3>4. QED
      BY <3>2, <3>3, <1>4
  <2>3. CASE a = 0
    <3>1. b * p + m = b * 0 + 0 /\ b * q + n = b * 0 + 0
      BY <2>3, <1>1
    <3>2. p = 0 /\ q = 0
      BY <3>1, <1>3, <1>4
    <3>3. QED
      BY <3>2
  <2>4. QED
    BY <2>1, <2>2, <2>3
<1>6. QED
  BY <1>1, <1>5

\* The power of an int that is an int is reached by ints.
LEMMA PowIsPower ==
  ASSUME NEW a \in Ints, NEW b \in Nat
  PROVE  /\ pow_int(a, b) \in Ints
         /\ Power(a, b) \in Int
         /\ Power(a, b) \in Ints => pow_int(a, b) = Power(a, b)
<1>1. a \in Int /\ Ints \subseteq Int /\ {-1, 0, 1} \subseteq Ints
  BY ExpressionsAssumption DEF Ints
<1>2. PICK f : /\ f = [n \in 0 .. b |-> IF n = 0 THEN 1 ELSE IF n = 1 THEN a ELSE Wrap(a * f[n - 1])]
               /\ pow_int(a, b) = f[b]
  BY <1>1, PowUnfold
<1>3. PICK g : /\ g = [n \in 0 .. b |-> IF n = 0 THEN 1 ELSE a * g[n - 1]]
               /\ Power(a, b) = g[b]
  BY <1>1, PowerUnfold
<1>4. /\ f[0] = 1 /\ g[0] = 1 /\ (b >= 1 => f[1] = a)
      /\ \A n \in 1 .. b : g[n] = a * g[n - 1]
      /\ \A n \in 2 .. b : f[n] = Wrap(a * f[n - 1])
  BY <1>2, <1>3
<1>5. \A n \in 0 .. b : f[n] \in Ints
  <2> DEFINE P == {n \in 0 .. b : f[n] \in Ints}
  <2>1. ASSUME NEW n \in 0 .. b, \A j \in 0 .. n - 1 : j \in P PROVE n \in P
    <3>1. CASE n = 0
      BY <3>1, <1>1, <1>4
    <3>2. CASE n = 1
      BY <3>2, <1>4
    <3>3. CASE n >= 2
      <4>1. f[n - 1] \in Ints
        BY <2>1, <3>3
      <4>2. f[n - 1] \in Int
        BY <1>1, <4>1
      <4>3. a * f[n - 1] \in Int
        BY <1>1, <4>2
      <4>4. Wrap(a * f[n - 1]) \in Ints
        BY <4>3, WrapFacts
      <4>5. f[n] = Wrap(a * f[n - 1])
        BY <3>3, <1>4
      <4>6. QED
        BY <4>4, <4>5
    <3>4. QED
      BY <3>1, <3>2, <3>3
  <2>2. 0 .. b \subseteq P
    BY <2>1, UpTo
  <2>3. QED
    BY <2>2
<1>6. \A n \in 0 .. b : g[n] \in Int /\ (a \in {-1, 0, 1} => g[n] \in {-1, 0, 1})
  <2> DEFINE P == {n \in 0 .. b : g[n] \in Int /\ (a \in {-1, 0, 1} => g[n] \in {-1, 0, 1})}
  <2>1. ASSUME NEW n \in 0 .. b, \A j \in 0 .. n - 1 : j \in P PROVE n \in P
    <3>1. CASE n = 0
      BY <3>1, <1>4
    <3>2. CASE n # 0
      <4>1. g[n - 1] \in Int /\ (a \in {-1, 0, 1} => g[n - 1] \in {-1, 0, 1})
        BY <2>1, <3>2
      <4>2. g[n] = a * g[n - 1]
        BY <3>2, <1>4
      <4>3. g[n] \in Int
        BY <1>1, <4>1, <4>2
      <4>4. a \in {-1, 0, 1} => g[n] \in {-1, 0, 1}
        BY <4>1, <4>2
      <4>5. QED
        BY <4>3, <4>4
    <3>3. QED
      BY <3>1, <3>2
  <2>2. 0 .. b \subseteq P
    BY <2>1, UpTo
  <2>3. QED
    BY <2>2
<1>7. ASSUME NEW n \in 1 .. b, g[n] \in Ints PROVE g[n - 1] \in Ints
  <2>1. g[n - 1] \in Int /\ g[n] = a * g[n - 1]
    BY <1>4, <1>6
  <2>2. CASE a \in {-1, 0, 1}
    BY <2>2, <1>1, <1>6
  <2>3. CASE a \notin {-1, 0, 1}
    <3> DEFINE x == g[n - 1]
    <3>1. x \in Int /\ a * x \in Ints
      BY <1>7, <2>1
    <3> HIDE DEF x
    <3>2. a >= 2 \/ a <= -2
      BY <1>1, <2>3
    <3>3. ASSUME x > INT_MAX PROVE FALSE
      <4>1. a >= 2 => a * x >= 2 * x
        BY <1>1, <3>1, <3>3, ExpressionsAssumption, Z3
      <4>2. a <= -2 => a * x <= -2 * x
        BY <1>1, <3>1, <3>3, ExpressionsAssumption, Z3
      <4>3. QED
        BY <4>1, <4>2, <1>1, <3>1, <3>2, <3>3, ExpressionsAssumption DEF Ints
    <3>4. ASSUME x < -INT_MAX - 1 PROVE FALSE
      <4>1. a >= 2 => a * x <= 2 * x
        BY <1>1, <3>1, <3>4, ExpressionsAssumption, Z3
      <4>2. a <= -2 => a * x >= -2 * x
        BY <1>1, <3>1, <3>4, ExpressionsAssumption, Z3
      <4>3. QED
        BY <4>1, <4>2, <1>1, <3>1, <3>2, <3>4, ExpressionsAssumption DEF Ints
    <3>5. x \in Ints
      BY <3>1, <3>3, <3>4, ExpressionsAssumption DEF Ints
    <3>6. QED
      BY <3>5 DEF x
  <2>4. QED
    BY <2>2, <2>3
<1>8. \A n \in 0 .. b : g[n] \in Ints => f[n] = g[n]
  <2> DEFINE P == {n \in 0 .. b : g[n] \in Ints => f[n] = g[n]}
  <2>1. ASSUME NEW n \in 0 .. b, \A j \in 0 .. n - 1 : j \in P PROVE n \in P
    <3>1. CASE n = 0
      BY <3>1, <1>4
    <3>2. CASE n = 1
      <4>1. g[1] = a * g[0]
        BY <3>2, <1>4
      <4>2. g[1] = a
        BY <4>1, <1>1, <1>4
      <4>3. QED
        BY <3>2, <4>2, <1>4
    <3>3. CASE n >= 2
      <4>1. ASSUME g[n] \in Ints PROVE f[n] = g[n]
        <5>1. g[n - 1] \in Ints
          BY <3>3, <4>1, <1>7
        <5>2. f[n - 1] = g[n - 1]
          BY <2>1, <3>3, <5>1
        <5>3. g[n] = a * g[n - 1] /\ f[n] = Wrap(a * f[n - 1])
          BY <3>3, <1>4
        <5>4. f[n] = Wrap(g[n])
          BY <5>2, <5>3
        <5>5. QED
          BY <4>1, <5>4, <1>1, WrapFacts
      <4>2. QED
        BY <4>1
    <3>4. QED
      BY <3>1, <3>2, <3>3
  <2>2. 0 .. b \subseteq P
    BY <2>1, UpTo
  <2>3. QED
    BY <2>2
<1>9. QED
  BY <1>2, <1>3, <1>5, <1>6, <1>8

\* What the folder computes is an int.
LEMMA FoldedInts ==
  ASSUME NEW op \in Arithmetic \cup Boolean, NEW a \in Ints, NEW b \in Ints, ~Traps(op, a, b)
  PROVE  Folded(op, a, b) \in Ints
<1>1. a \in Int /\ b \in Int /\ {0, 1} \subseteq Ints
  BY ExpressionsAssumption DEF Ints
<1>2. CASE op \in Boolean
  <2>1. \A p : Bool(p) \in Ints
    BY <1>1 DEF Bool
  <2>2. Folded(op, a, b) \in {Bool(a # 0 /\ b # 0), Bool(a # 0 \/ b # 0), Bool(a = b), Bool(a # b),
                              Bool(a < b), Bool(a <= b), Bool(a > b), Bool(a >= b)}
    BY <1>2 DEF Boolean, Folded
  <2>3. QED
    BY <2>1, <2>2
<1>3. CASE op \in {"ADD", "SUB", "MUL"}
  <2>1. a + b \in Int /\ a - b \in Int /\ a * b \in Int
    BY <1>1
  <2>2. Folded(op, a, b) \in {Wrap(a + b), Wrap(a - b), Wrap(a * b)}
    BY <1>3 DEF Folded
  <2>3. QED
    BY <2>1, <2>2, WrapFacts
<1>4. CASE op = "DIV"
  BY <1>4 DEF Folded, Traps
<1>5. CASE op = "MOD"
  <2> DEFINE m == a - b * Quotient(a, b)
  <2>1. b # 0
    BY <1>5 DEF Traps
  <2>2. Quotient(a, b) \in Int /\ Divides(a, b, Quotient(a, b), m)
    BY <1>1, <2>1, QuotientDivides
  <2>3. m \in Int /\ Abs(m) < Abs(b)
    BY <1>1, <2>2 DEF Divides
  <2>4. Folded(op, a, b) = m
    BY <1>5 DEF Folded
  <2> HIDE DEF m
  <2>5. m \in Ints
    BY <2>3, <1>1, AbsFacts, ExpressionsAssumption DEF Ints
  <2>6. QED
    BY <2>4, <2>5
<1>6. CASE op = "EXP"
  <2>1. b \in Nat
    BY <1>1, <1>6, ExpressionsAssumption DEF Traps
  <2>2. pow_int(a, b) \in Ints
    BY <2>1, PowIsPower
  <2>3. QED
    BY <1>6, <2>2 DEF Folded
<1>7. QED
  BY <1>2, <1>3, <1>4, <1>5, <1>6 DEF Arithmetic

\* Where arithmetic has a result, there is no other, and the folder computes it
\* unless a power is too deep.
LEMMA FoldedResult ==
  ASSUME NEW op \in Arithmetic, NEW a \in Ints, NEW b \in Ints, NEW v \in Results(op, a, b)
  PROVE  v = Folded(op, a, b) /\ (Traps(op, a, b) => op = "EXP" /\ b > PowDepth)
<1>1. a \in Int /\ b \in Int /\ v \in Ints /\ v \in Int /\ Ints \subseteq Int
  BY DEF Ints, Results
<1>2. CASE op = "ADD"
  <2>1. v = a + b
    BY <1>2 DEF Results
  <2>2. Folded(op, a, b) = Wrap(a + b)
    BY <1>2 DEF Folded
  <2>3. ~Traps(op, a, b)
    BY <1>2 DEF Traps
  <2>4. Wrap(v) = v
    BY <1>1, WrapFacts
  <2>5. QED
    BY <2>1, <2>2, <2>3, <2>4
<1>3. CASE op = "SUB"
  <2>1. v + b = a
    BY <1>3 DEF Results
  <2>2. Folded(op, a, b) = Wrap(a - b)
    BY <1>3 DEF Folded
  <2>3. ~Traps(op, a, b)
    BY <1>3 DEF Traps
  <2>4. Wrap(v) = v /\ v = a - b
    BY <1>1, <2>1, WrapFacts
  <2>5. QED
    BY <2>2, <2>3, <2>4
<1>4. CASE op = "MUL"
  <2>1. v = a * b
    BY <1>4 DEF Results
  <2>2. Folded(op, a, b) = Wrap(a * b)
    BY <1>4 DEF Folded
  <2>3. ~Traps(op, a, b)
    BY <1>4 DEF Traps
  <2>4. Wrap(v) = v
    BY <1>1, WrapFacts
  <2>5. QED
    BY <2>1, <2>2, <2>3, <2>4
<1>5. CASE op = "DIV"
  <2>1. PICK m \in Ints : Divides(a, b, v, m)
    BY <1>5 DEF Results
  <2>2. b # 0
    BY <2>1, <1>1, AbsFacts DEF Divides, Abs
  <2>3. Quotient(a, b) = v
    <3>1. /\ Quotient(a, b) \in Int /\ b * Quotient(a, b) \in Int
          /\ Divides(a, b, Quotient(a, b), a - b * Quotient(a, b))
      BY <1>1, <2>2, QuotientDivides
    <3>2. a - b * Quotient(a, b) \in Int
      BY <1>1, <3>1
    <3>3. QED
      BY <1>1, <2>1, <3>1, <3>2, DividesUnique
  <2>4. QED
    BY <1>1, <1>5, <2>2, <2>3 DEF Folded, Traps
<1>6. CASE op = "MOD"
  <2>1. PICK q \in Ints : Divides(a, b, q, v)
    BY <1>6 DEF Results
  <2>2. b # 0
    BY <2>1, <1>1, AbsFacts DEF Divides, Abs
  <2>3. Quotient(a, b) = q /\ a - b * Quotient(a, b) = v
    <3>1. /\ Quotient(a, b) \in Int /\ b * Quotient(a, b) \in Int
          /\ Divides(a, b, Quotient(a, b), a - b * Quotient(a, b))
      BY <1>1, <2>2, QuotientDivides
    <3>2. a - b * Quotient(a, b) \in Int
      BY <1>1, <3>1
    <3>3. QED
      BY <1>1, <2>1, <3>1, <3>2, DividesUnique
  <2>4. QED
    BY <1>1, <1>6, <2>2, <2>3 DEF Folded, Traps
<1>7. CASE op = "EXP"
  <2>1. b \in Nat /\ v = Power(a, b)
    BY <1>1, <1>7 DEF Results
  <2>2. pow_int(a, b) = v
    BY <1>1, <2>1, PowIsPower
  <2>3. b \notin 0 .. PowDepth => b > PowDepth
    BY <2>1, ExpressionsAssumption
  <2>4. QED
    BY <1>7, <2>1, <2>2, <2>3 DEF Folded, Traps
<1>8. QED
  BY <1>2, <1>3, <1>4, <1>5, <1>6, <1>7 DEF Arithmetic

\* The comparisons and connectives are the ones the folder computes.
LEMMA FoldedHolds ==
  ASSUME NEW op \in Boolean, NEW a \in Ints, NEW b \in Ints
  PROVE  Folded(op, a, b) = Bool(Holds(op, a, b)) /\ ~Traps(op, a, b)
<1>1. a \in Int /\ b \in Int
  BY DEF Ints
<1>2. ~Traps(op, a, b)
  BY DEF Traps, Boolean
<1>3. CASE op \in {"AND", "OR"}
  BY <1>1, <1>2, <1>3 DEF Folded, Holds, Bool
<1>4. CASE op \in {"EQ", "N_EQ"}
  BY <1>1, <1>2, <1>4 DEF Folded, Holds, Bool
<1>5. CASE op = "LESS"
  <2>1. Holds(op, a, b) <=> a < b
    BY <1>1, <1>5 DEF Holds
  <2>2. Folded(op, a, b) = Bool(a < b)
    BY <1>5 DEF Folded
  <2>3. QED
    BY <1>2, <2>1, <2>2 DEF Bool
<1>6. CASE op = "L_EQ"
  <2>1. Holds(op, a, b) <=> a <= b
    BY <1>1, <1>6 DEF Holds
  <2>2. Folded(op, a, b) = Bool(a <= b)
    BY <1>6 DEF Folded
  <2>3. QED
    BY <1>2, <2>1, <2>2 DEF Bool
<1>7. CASE op = "GREATER"
  <2>1. Holds(op, a, b) <=> a > b
    BY <1>1, <1>7 DEF Holds
  <2>2. Folded(op, a, b) = Bool(a > b)
    BY <1>7 DEF Folded
  <2>3. QED
    BY <1>2, <2>1, <2>2 DEF Bool
<1>8. CASE op = "G_EQ"
  <2>1. Holds(op, a, b) <=> a >= b
    BY <1>1, <1>8 DEF Holds
  <2>2. Folded(op, a, b) = Bool(a >= b)
    BY <1>8 DEF Folded
  <2>3. QED
    BY <1>2, <2>1, <2>2 DEF Bool
<1>9. QED
  BY <1>3, <1>4, <1>5, <1>6, <1>7, <1>8 DEF Boolean

-----------------------------------------------------------------------------
(* The folder's walk.                                                      *)

\* What the parser makes of an operator.
Shaped(e) ==
  /\ e.kind \in (Arithmetic \cup Boolean) \ {"SUB"} => e.left # 0
  /\ e.kind \in Arithmetic \cup Boolean => e.right # 0
  /\ e.kind = "NOT" => e.left # 0 /\ e.right = 0
  /\ e.kind = "BOOL_LIT" => e.value \in {0, 1}

WellFormed(h) == h \in Seq(Nodes) /\ Ordered(h) /\ \A i \in 1 .. Len(h) : Shaped(h[i])

LEMMA NodeFacts ==
  ASSUME NEW h \in Seq(Nodes), Ordered(h), NEW i \in 1 .. Len(h)
  PROVE  /\ Len(h) \in Nat /\ DOMAIN h = 1 .. Len(h)
         /\ h[i] \in Nodes /\ h[i] # Trap
         /\ h[i].left \in 0 .. i - 1 /\ h[i].right \in 0 .. i - 1
         /\ h[i].left \in 0 .. Len(h) /\ h[i].right \in 0 .. Len(h)
<1>1. Len(h) \in Nat /\ DOMAIN h = 1 .. Len(h) /\ h[i] \in Nodes
  BY LenProperties, ElementOfSeq
<1>2. h[i].left \in 0 .. i - 1 /\ h[i].right \in 0 .. i - 1
  BY DEF Ordered
<1>3. h[i] # Trap
  BY <1>1 DEF Nodes, Kinds, Trap, Arithmetic, Boolean, Constant
<1>4. QED
  BY <1>1, <1>2, <1>3

\* A set that holds, with a node, the operands it is folded with holds all that
\* are visited from its members.
LEMMA VisitedWithin ==
  ASSUME NEW h \in Seq(Nodes), Ordered(h), NEW P, NEW r \in 0 .. Len(h), r \in P,
         \A i \in 1 .. Len(h) : i \in P /\ Folds(h[i]) => {h[i].left, h[i].right} \ {0} \subseteq P
  PROVE  Visited(h)[r] \subseteq P
<1> DEFINE V == Visited(h)
           Q == {i \in 0 .. Len(h) : i \in P => V[i] \subseteq P}
<1>1. V = [i \in 0 .. Len(h) |-> VisitNode(h, V, i)] /\ Len(h) \in Nat
  BY VisitedUnfold, LenProperties
<1> HIDE DEF V
<1>2. ASSUME NEW i \in 0 .. Len(h), \A j \in 0 .. i - 1 : j \in Q PROVE i \in Q
  <2>1. V[i] = VisitNode(h, V, i)
    BY <1>1
  <2>2. CASE i = 0
    BY <2>1, <2>2 DEF VisitNode
  <2>3. CASE i # 0
    <3> SUFFICES ASSUME i \in P PROVE V[i] \subseteq P
      OBVIOUS
    <3>1. h[i].left \in 0 .. i - 1 /\ h[i].right \in 0 .. i - 1
      BY <1>1, <2>3, NodeFacts
    <3>2. V[0] = {}
      BY <1>1 DEF VisitNode
    <3>3. ASSUME Folds(h[i]), NEW o \in {h[i].left, h[i].right} PROVE V[o] \subseteq P
      <4>1. CASE o = 0
        BY <4>1, <3>2
      <4>2. CASE o # 0
        <5>1. o \in P
          BY <4>2, <3>3, <2>3
        <5>2. QED
          BY <5>1, <3>1, <3>3, <1>2
      <4>3. QED
        BY <4>1, <4>2
    <3>4. QED
      BY <2>1, <2>3, <3>3 DEF VisitNode
  <2>4. QED
    BY <2>2, <2>3
<1>3. 0 .. Len(h) \subseteq Q
  BY <1>1, <1>2, UpTo
<1>4. QED
  BY <1>3 DEF V

LEMMA VisitedFacts ==
  ASSUME NEW h \in Seq(Nodes), Ordered(h), NEW r \in 1 .. Len(h)
  PROVE  /\ r \in Visited(h)[r] /\ Visited(h)[r] \subseteq 1 .. Len(h)
         /\ \A i \in Visited(h)[r] : Folds(h[i]) => {h[i].left, h[i].right} \ {0} \subseteq Visited(h)[r]
<1> DEFINE V == Visited(h)
           Q == {i \in 0 .. Len(h) : \A j \in V[i] : Folds(h[j]) => {h[j].left, h[j].right} \ {0} \subseteq V[i]}
<1>1. V = [i \in 0 .. Len(h) |-> VisitNode(h, V, i)] /\ Len(h) \in Nat
  BY VisitedUnfold, LenProperties
<1>2. V[r] \subseteq 1 .. Len(h)
  <2> DEFINE P == 1 .. Len(h)
  <2>1. \A i \in 1 .. Len(h) : {h[i].left, h[i].right} \ {0} \subseteq P
    BY NodeFacts
  <2>2. r \in P /\ r \in 0 .. Len(h)
    BY <1>1
  <2> HIDE DEF P
  <2>3. Visited(h)[r] \subseteq P
    BY <2>1, <2>2, VisitedWithin
  <2>4. QED
    BY <2>3 DEF P
<1> HIDE DEF V
<1>3. \A i \in 1 .. Len(h) : i \in V[i]
  BY <1>1 DEF VisitNode
<1>4. ASSUME NEW i \in 0 .. Len(h), \A j \in 0 .. i - 1 : j \in Q PROVE i \in Q
  <2>1. V[i] = VisitNode(h, V, i)
    BY <1>1
  <2>2. CASE i = 0
    BY <2>1, <2>2 DEF VisitNode
  <2>3. CASE i # 0
    <3>1. /\ h[i].left \in 0 .. i - 1 /\ h[i].right \in 0 .. i - 1
          /\ h[i].left \in 0 .. Len(h) /\ h[i].right \in 0 .. Len(h)
      BY <1>1, <2>3, NodeFacts
    <3>2. V[i] = {i} \cup (IF Folds(h[i]) THEN V[h[i].left] \cup V[h[i].right] ELSE {})
      BY <2>1, <2>3 DEF VisitNode
    <3>3. ASSUME Folds(h[i]) PROVE {h[i].left, h[i].right} \ {0} \subseteq V[i]
      BY <3>1, <3>2, <3>3, <1>3
    <3>4. h[i].left \in Q /\ h[i].right \in Q
      BY <3>1, <1>4
    <3>5. QED
      BY <3>2, <3>3, <3>4
  <2>4. QED
    BY <2>2, <2>3
<1>5. 0 .. Len(h) \subseteq Q
  BY <1>1, <1>4, UpTo
<1>6. r \in V[r] /\ r \in Q
  BY <1>1, <1>3, <1>5
<1>7. QED
  BY <1>2, <1>6 DEF V

\* What a node becomes: nothing else, or a literal that still points to its operands.
Literalized(e, f) ==
  /\ f \in Nodes /\ f.kind \in {"INT_LIT", "BOOL_LIT"}
  /\ f.left = e.left /\ f.right = e.right /\ f.args = e.args

LEMMA CollapseFacts ==
  ASSUME NEW e \in Nodes, NEW k \in {"INT_LIT", "BOOL_LIT"}, NEW v \in Ints
  PROVE  /\ Literalized(e, [e EXCEPT !.kind = k, !.value = v])
         /\ [e EXCEPT !.kind = k, !.value = v].kind = k
         /\ [e EXCEPT !.kind = k, !.value = v].value = v
<1>1. k \in Kinds
  BY DEF Kinds, Constant
<1>2. QED
  BY <1>1 DEF Nodes, Literalized

\* Each of the folder's results: the node, the trap, or a literal.
LEMMA FoldFacts ==
  ASSUME NEW h, WellFormed(h)
  PROVE  /\ constant_fold_expr(h)[0] = Null
         /\ \A i \in 1 .. Len(h) :
              LET f == constant_fold_expr(h)[i]
              IN  /\ f = FoldNode(h, constant_fold_expr(h), i)
                  /\ f \in {h[i], Trap} \/ (Folds(h[i]) /\ Literalized(h[i], f))
<1> DEFINE F == constant_fold_expr(h)
           Good(i) == F[i] \in {h[i], Trap} \/ (Folds(h[i]) /\ Literalized(h[i], F[i]))
           Q == {i \in 0 .. Len(h) : i # 0 => Good(i)}
<1>1. /\ h \in Seq(Nodes) /\ Ordered(h) /\ Len(h) \in Nat
      /\ F = [i \in 0 .. Len(h) |-> FoldNode(h, F, i)]
  BY FoldUnfold, LenProperties DEF WellFormed
<1> HIDE DEF F
<1>2. F[0] = Null
  BY <1>1 DEF FoldNode
<1>3. ASSUME NEW i \in 0 .. Len(h), \A j \in 0 .. i - 1 : j \in Q, i # 0 PROVE Good(i)
  <2> DEFINE e == h[i]
             l == F[e.left]
             r == F[e.right]
  <2>1. e \in Nodes /\ e.left \in 0 .. i - 1 /\ e.right \in 0 .. i - 1
    BY <1>1, <1>3, NodeFacts
  <2>2. F[i] = FoldNode(h, F, i)
    BY <1>1
  <2>3. F[i] = IF ~Folds(e) THEN e ELSE IF e.kind = "NOT" THEN FoldNot(e, l) ELSE FoldBinary(e, l, r)
    BY <2>2, <1>3 DEF FoldNode
  <2>4. ASSUME NEW o \in {e.left, e.right}, is_constant(F[o]) PROVE F[o].value \in Ints
    <3>1. o # 0
      BY <2>4, <1>2 DEF is_constant, Constant, Null
    <3>a. o \in 0 .. i - 1
      BY <2>1, <2>4
    <3>2. o \in 1 .. Len(h) /\ o \in Q
      BY <3>1, <3>a, <1>1, <1>3
    <3>3. h[o] \in Nodes
      BY <3>2, <1>1, NodeFacts
    <3>4. F[o] # Trap
      BY <2>4 DEF is_constant, Constant, Trap
    <3>5. F[o] \in Nodes
      BY <3>1, <3>2, <3>3, <3>4 DEF Literalized
    <3>6. QED
      BY <3>5 DEF Nodes
  <2> HIDE DEF e, l, r
  <2>5. CASE ~Folds(e)
    BY <2>3, <2>5 DEF e
  <2>6. CASE Folds(e) /\ e.kind = "NOT"
    <3>1. F[i] \in {e, Trap, [e EXCEPT !.kind = "BOOL_LIT", !.value = Bool(l.value = 0)]}
      BY <2>3, <2>6 DEF FoldNot
    <3>2. Bool(l.value = 0) \in Ints
      BY ExpressionsAssumption DEF Bool, Ints
    <3>3. Literalized(e, [e EXCEPT !.kind = "BOOL_LIT", !.value = Bool(l.value = 0)])
      BY <3>2, <2>1, CollapseFacts
    <3>4. QED
      BY <3>1, <3>3, <2>6 DEF e
  <2>7. CASE Folds(e) /\ e.kind # "NOT"
    <3>1. CASE F[i] \in {e, Trap}
      BY <3>1 DEF e
    <3>2. CASE F[i] \notin {e, Trap}
      <4> DEFINE kind == IF e.kind \in Arithmetic THEN "INT_LIT" ELSE "BOOL_LIT"
                 value == Folded(e.kind, l.value, r.value)
      <4>1. /\ F[i] = [e EXCEPT !.kind = kind, !.value = value]
            /\ ~Traps(e.kind, l.value, r.value) /\ is_constant(l) /\ is_constant(r)
        BY <2>3, <2>7, <3>2 DEF FoldBinary, Collapse
      <4>2. l.value \in Ints /\ r.value \in Ints
        BY <4>1, <2>4 DEF l, r
      <4>3. e.kind \in Arithmetic \cup Boolean
        BY <2>7 DEF Folds
      <4>4. value \in Ints
        BY <4>1, <4>2, <4>3, FoldedInts
      <4>5. kind \in {"INT_LIT", "BOOL_LIT"}
        OBVIOUS
      <4> HIDE DEF kind, value
      <4>6. Literalized(e, [e EXCEPT !.kind = kind, !.value = value])
        BY <4>4, <4>5, <2>1, CollapseFacts
      <4>7. Literalized(e, F[i])
        BY <4>1, <4>6
      <4>8. QED
        BY <4>7, <2>7 DEF e
    <3>3. QED
      BY <3>1, <3>2
  <2>8. QED
    BY <2>5, <2>6, <2>7
<1>4. \A i \in 0 .. Len(h) : (\A j \in 0 .. i - 1 : j \in Q) => i \in Q
  BY <1>3
<1>5. 0 .. Len(h) \subseteq Q
  BY <1>1, <1>4, UpTo
<1>6. \A i \in 1 .. Len(h) : F[i] = FoldNode(h, F, i) /\ Good(i)
  BY <1>1, <1>5
<1>7. QED
  BY <1>2, <1>6 DEF F

\* A trap below stops the folder above.
LEMMA NoTrapBelow ==
  ASSUME NEW h, WellFormed(h), NEW r \in 1 .. Len(h), constant_fold_expr(h)[r] # Trap
  PROVE  \A i \in Visited(h)[r] : constant_fold_expr(h)[i] # Trap
<1> DEFINE F == constant_fold_expr(h)
           P == {i \in 0 .. Len(h) : F[i] # Trap}
<1>1. h \in Seq(Nodes) /\ Ordered(h) /\ Len(h) \in Nat
  BY LenProperties DEF WellFormed
<1>2. ASSUME NEW i \in 1 .. Len(h), i \in P, Folds(h[i]) PROVE {h[i].left, h[i].right} \ {0} \subseteq P
  <2>1. F[i] = IF h[i].kind = "NOT" THEN FoldNot(h[i], F[h[i].left])
               ELSE FoldBinary(h[i], F[h[i].left], F[h[i].right])
    <3>1. F[i] = FoldNode(h, F, i) /\ i # 0
      BY FoldFacts
    <3> HIDE DEF F
    <3>2. QED
      BY <3>1, <1>2 DEF FoldNode
  <2> HIDE DEF F
  <2>2. h[i].left \in 0 .. Len(h) /\ h[i].right \in 0 .. Len(h)
    BY <1>1, NodeFacts
  <2>3. h[i].kind = "NOT" => h[i].right = 0
    BY DEF WellFormed, Shaped
  <2>4. F[i] # Trap
    BY <1>2
  <2>5. F[h[i].left] # Trap /\ (h[i].kind # "NOT" => F[h[i].right] # Trap)
    BY <2>1, <2>4 DEF FoldNot, FoldBinary
  <2>6. QED
    BY <2>2, <2>3, <2>5
<1>3. r \in P /\ r \in 0 .. Len(h)
  BY <1>1
<1> HIDE DEF P
<1>4. Visited(h)[r] \subseteq P
  BY <1>1, <1>2, <1>3, VisitedWithin
<1>5. QED
  BY <1>4 DEF P

-----------------------------------------------------------------------------
(* Type checking.                                                          *)

\* The verdict on a node is that of its rule, and carries its operands'.
LEMMA TypecheckFacts ==
  ASSUME NEW h, WellFormed(h), NEW i \in 1 .. Len(h)
  PROVE  LET c == expr_typecheck(h, {})
             l == c[h[i].left]
             r == c[h[i].right]
         IN  \E args : LET v == Rule(h[i], l.type, r.type, args)
                       IN  /\ c[i].type = v.type
                           /\ ~c[i].error => ~l.error /\ ~r.error /\ ~v.error
                           /\ ~c[i].crash => ~l.crash /\ ~r.crash /\ ~v.crash
<1> DEFINE C == expr_typecheck(h, {})
           e == h[i]
           l == C[e.left]
           r == C[e.right]
           A == [k \in DOMAIN e.args |-> C[e.args[k]]]
           args == [k \in DOMAIN A |-> A[k].type]
           v == Rule(e, l.type, r.type, args)
           all == {l, r, v} \cup {A[k] : k \in DOMAIN A}
<1>1. /\ h \in Seq(Nodes) /\ Ordered(h) /\ Len(h) \in Nat
      /\ C = [j \in 0 .. Len(h) |-> TypecheckNode(h, {}, C, j)]
  BY TypecheckUnfold, LenProperties DEF WellFormed
<1> HIDE DEF C
<1>2. C[i] = TypecheckNode(h, {}, C, i)
  BY <1>1
<1>3. C[i] = Judged(e, l, r, A)
  <2>1. i # 0 /\ i \notin {}
    BY <1>1
  <2>2. QED
    BY <1>2, <2>1, Zenon DEF TypecheckNode
<1>4. Judged(e, l, r, A) = [type |-> v.type, error |-> \E c \in all : c.error,
                            crash |-> \E c \in all : c.crash, unset |-> \E c \in all : c.unset]
  BY DEF Judged
<1>5. {l, r, v} \subseteq all
  OBVIOUS
<1> HIDE DEF A, v, all, l, r, e
<1>6. /\ C[i].type = v.type
      /\ C[i].error = \E c \in all : c.error
      /\ C[i].crash = \E c \in all : c.crash
  BY <1>3, <1>4
<1>7. /\ C[i].type = v.type
      /\ ~C[i].error => ~l.error /\ ~r.error /\ ~v.error
      /\ ~C[i].crash => ~l.crash /\ ~r.crash /\ ~v.crash
  BY <1>5, <1>6
<1>8. QED
  BY <1>7 DEF v, l, r, e, C

LEMMA VerdictFacts ==
  ASSUME NEW t, NEW error, NEW crash
  PROVE  /\ Verdict(t, error, crash).type = t
         /\ Verdict(t, error, crash).error = error
         /\ Verdict(t, error, crash).crash = crash
         /\ CopyVerdict(t, error, crash).type = t
         /\ CopyVerdict(t, error, crash).error = error
         /\ CopyVerdict(t, error, crash).crash = crash
BY DEF Verdict, CopyVerdict

\* The rules, for those that objected to nothing.
LEMMA RuleFacts ==
  ASSUME NEW e \in Nodes, NEW l, NEW r, NEW args,
         ~Rule(e, l, r, args).error, ~Rule(e, l, r, args).crash
  PROVE  /\ e.kind = "ARRAY" => Rule(e, l, r, args).type.kind = "array"
         /\ e.kind = "BOOL_LIT" => Rule(e, l, r, args).type = Scalar("boolean")
         /\ e.kind = "INT_LIT" => Rule(e, l, r, args).type = Scalar("integer")
         /\ e.kind = "CHAR_LIT" => Rule(e, l, r, args).type = Scalar("char")
         /\ e.kind = "STR_LIT" => Rule(e, l, r, args).type = Scalar("string")
         /\ e.kind = "NOT" => l = Scalar("boolean") /\ Rule(e, l, r, args).type = Scalar("boolean")
         /\ e.kind \in Boolean =>
              l = r /\ l.kind # "array" /\ Rule(e, l, r, args).type = Scalar("boolean")
         /\ e.kind \in Arithmetic =>
              l = Scalar("integer") /\ r = Scalar("integer") /\ Rule(e, l, r, args).type = Scalar("integer")
<1> DEFINE v == Rule(e, l, r, args)
<1>1. e.kind \in {"ARRAY", "BOOL_LIT", "INT_LIT", "CHAR_LIT", "STR_LIT"} =>
        v = CASE e.kind = "BOOL_LIT" -> Verdict(Scalar("boolean"), FALSE, FALSE)
              [] e.kind = "INT_LIT" -> Verdict(Scalar("integer"), FALSE, FALSE)
              [] e.kind = "CHAR_LIT" -> Verdict(Scalar("char"), FALSE, FALSE)
              [] e.kind = "STR_LIT" -> Verdict(Scalar("string"), FALSE, FALSE)
              [] e.kind = "ARRAY" -> CopyVerdict(ArrayLiteral, FALSE, FALSE)
  BY DEF Rule, Boolean, Arithmetic
<1>2. e.kind \in Boolean => v = CompareRule(l, r)
  BY DEF Rule, Boolean, Arithmetic
<1>3. e.kind \in Arithmetic \ {"EXP"} => v = ArithmeticRule(l, r)
  BY DEF Rule, Boolean, Arithmetic
<1>4. e.kind = "EXP" => v = ExpRule(l, r)
  BY DEF Rule, Boolean, Arithmetic
<1>5. e.kind = "NOT" => v = Verdict(Scalar("boolean"), l # Scalar("boolean"), l = NoType)
  BY DEF Rule, Boolean, Arithmetic
<1> HIDE DEF v
<1>6. ~v.error /\ ~v.crash
  BY DEF v
<1>7. /\ e.kind = "ARRAY" => v.type.kind = "array"
      /\ e.kind = "BOOL_LIT" => v.type = Scalar("boolean")
      /\ e.kind = "INT_LIT" => v.type = Scalar("integer")
      /\ e.kind = "CHAR_LIT" => v.type = Scalar("char")
      /\ e.kind = "STR_LIT" => v.type = Scalar("string")
  BY <1>1 DEF Verdict, CopyVerdict, ArrayLiteral
<1>8. ASSUME e.kind = "NOT" PROVE l = Scalar("boolean") /\ v.type = Scalar("boolean")
  <2>1. v.error = (l # Scalar("boolean")) /\ v.type = Scalar("boolean")
    BY <1>5, <1>8, VerdictFacts
  <2>2. QED
    BY <1>6, <2>1
<1>9. ASSUME e.kind \in Boolean PROVE l = r /\ l.kind # "array" /\ v.type = Scalar("boolean")
  <2>1. v.error = (l.kind \in {"void", "array", "function"} \/ l # r) /\ v.type = Scalar("boolean")
    BY <1>2, <1>9, VerdictFacts DEF CompareRule
  <2>2. QED
    BY <1>6, <2>1
<1>10. ASSUME e.kind \in Arithmetic
       PROVE l = Scalar("integer") /\ r = Scalar("integer") /\ v.type = Scalar("integer")
  <2>1. CASE e.kind # "EXP"
    <3>1. v.error = (l # r \/ ~IsInt(l)) /\ v.type = l
      BY <1>3, <1>10, <2>1, VerdictFacts DEF ArithmeticRule
    <3>2. QED
      BY <1>6, <3>1 DEF IsInt
  <2>2. CASE e.kind = "EXP"
    <3>1. v.error = (~IsInt(l) \/ ~IsInt(r)) /\ v.type = l
      BY <1>4, <2>2, VerdictFacts DEF ExpRule
    <3>2. QED
      BY <1>6, <3>1 DEF IsInt
  <2>3. QED
    BY <2>1, <2>2
<1>11. QED
  BY <1>7, <1>8, <1>9, <1>10 DEF v

Accepted(h) == {i \in 0 .. Len(h) : ~expr_typecheck(h, {})[i].error /\ ~expr_typecheck(h, {})[i].crash}

\* Operands of what is accepted are, and a null pointer has no type.
LEMMA AcceptedBelow ==
  ASSUME NEW h, WellFormed(h), NEW i \in Accepted(h), i # 0
  PROVE  /\ {h[i].left, h[i].right} \subseteq Accepted(h)
         /\ h[i].kind \in Arithmetic => h[i].left # 0 /\ h[i].right # 0
<1> DEFINE C == expr_typecheck(h, {})
<1>1. h \in Seq(Nodes) /\ Ordered(h) /\ Len(h) \in Nat /\ i \in 1 .. Len(h)
  BY LenProperties DEF WellFormed, Accepted
<1>2. PICK args : LET v == Rule(h[i], C[h[i].left].type, C[h[i].right].type, args)
                  IN  /\ ~C[i].error => ~C[h[i].left].error /\ ~C[h[i].right].error /\ ~v.error
                      /\ ~C[i].crash => ~C[h[i].left].crash /\ ~C[h[i].right].crash /\ ~v.crash
  BY <1>1, TypecheckFacts
<1>3. ~C[i].error /\ ~C[i].crash
  BY DEF Accepted
<1>4. h[i] \in Nodes /\ h[i].left \in 0 .. Len(h) /\ h[i].right \in 0 .. Len(h)
  BY <1>1, NodeFacts
<1>5. {h[i].left, h[i].right} \subseteq Accepted(h)
  BY <1>2, <1>3, <1>4 DEF Accepted
<1>6. C = [j \in 0 .. Len(h) |-> TypecheckNode(h, {}, C, j)]
  BY <1>1, TypecheckUnfold
<1> HIDE DEF C
<1>7. C[0].type = NoType
  BY <1>1, <1>6 DEF TypecheckNode, Verdict
<1>8. ASSUME h[i].kind \in Arithmetic PROVE h[i].left # 0 /\ h[i].right # 0
  <2>1. C[h[i].left].type = Scalar("integer") /\ C[h[i].right].type = Scalar("integer")
    BY <1>2, <1>3, <1>4, <1>8, RuleFacts
  <2>2. NoType # Scalar("integer")
    BY DEF NoType, Scalar
  <2>3. QED
    BY <1>7, <2>1, <2>2
<1>9. QED
  BY <1>5, <1>8

-----------------------------------------------------------------------------
(* Meanings.                                                               *)

Leaves == {"INT_LIT", "BOOL_LIT", "CHAR_LIT", "STR_LIT", "IDENT"}

LEMMA MeaningFacts ==
  ASSUME NEW h \in Seq(Nodes), Ordered(h)
  PROVE  /\ Meaning(h)[0] = Null
         /\ \A i \in 1 .. Len(h) :
              LET e == h[i]
                  l == Meaning(h)[e.left]
                  r == Meaning(h)[e.right]
                  m == Meaning(h)[i]
              IN  /\ m = MeaningOf(h, Meaning(h), i)
                  /\ e.kind = "INT_LIT" => m = Value("integer", e.value)
                  /\ e.kind = "BOOL_LIT" => m = Value("boolean", e.value)
                  /\ e.kind = "CHAR_LIT" => m = Value("char", e.value)
                  /\ e.kind = "STR_LIT" => m = Value("string", e.value)
                  /\ e.kind = "IDENT" => m.kind = "IDENT"
                  /\ e.kind \notin Leaves =>
                       /\ Stuck \in {l, r} => m = Stuck
                       /\ Stuck \notin {l, r} /\ Undefined \in {l, r} => m = Undefined
                       /\ {Stuck, Undefined} \cap {l, r} = {} =>
                            IF e.kind = "NOT" /\ l.kind = "VALUE"
                            THEN m = IF l.type = "boolean" THEN Value("boolean", 1 - l.value) ELSE Stuck
                            ELSE IF e.kind \in Arithmetic \cup Boolean /\ l.kind = "VALUE" /\ r.kind = "VALUE"
                            THEN m = Apply(e.kind, l, r)
                            ELSE m.kind = "OPERATION"
<1> DEFINE M == Meaning(h)
<1>1. M = [i \in 0 .. Len(h) |-> MeaningOf(h, M, i)] /\ Len(h) \in Nat
  BY MeaningUnfold, LenProperties
<1> HIDE DEF M
<1>2. M[0] = Null
  BY <1>1 DEF MeaningOf
<1>3. ASSUME NEW i \in 1 .. Len(h)
      PROVE  LET e == h[i]
                 l == M[e.left]
                 r == M[e.right]
                 m == M[i]
             IN  /\ m = MeaningOf(h, M, i)
                 /\ e.kind = "INT_LIT" => m = Value("integer", e.value)
                 /\ e.kind = "BOOL_LIT" => m = Value("boolean", e.value)
                 /\ e.kind = "CHAR_LIT" => m = Value("char", e.value)
                 /\ e.kind = "STR_LIT" => m = Value("string", e.value)
                 /\ e.kind = "IDENT" => m.kind = "IDENT"
                 /\ e.kind \notin Leaves =>
                      /\ Stuck \in {l, r} => m = Stuck
                      /\ Stuck \notin {l, r} /\ Undefined \in {l, r} => m = Undefined
                      /\ {Stuck, Undefined} \cap {l, r} = {} =>
                           IF e.kind = "NOT" /\ l.kind = "VALUE"
                           THEN m = IF l.type = "boolean" THEN Value("boolean", 1 - l.value) ELSE Stuck
                           ELSE IF e.kind \in Arithmetic \cup Boolean /\ l.kind = "VALUE" /\ r.kind = "VALUE"
                           THEN m = Apply(e.kind, l, r)
                           ELSE m.kind = "OPERATION"
  <2> DEFINE e == h[i]
             l == M[e.left]
             r == M[e.right]
             A == [k \in DOMAIN e.args |-> M[e.args[k]]]
             o == Operation(e.kind, l, r, A)
             other == IF Stuck \in {l, r} THEN Stuck
                      ELSE IF Undefined \in {l, r} THEN Undefined
                      ELSE IF e.kind = "NOT" /\ l.kind = "VALUE"
                           THEN IF l.type = "boolean" THEN Value("boolean", 1 - l.value) ELSE Stuck
                      ELSE IF e.kind \in Arithmetic \cup Boolean /\ l.kind = "VALUE" /\ r.kind = "VALUE"
                           THEN Apply(e.kind, l, r)
                      ELSE o
  <2>1. M[i] = MeaningOf(h, M, i) /\ i # 0
    BY <1>1
  <2>a. M[i] = Meant(e, l, r, A)
    BY <2>1, Zenon DEF MeaningOf
  <2> HIDE DEF e, l, r, A
  <2>2. M[i] = CASE e.kind = "INT_LIT" -> Value("integer", e.value)
                 [] e.kind = "BOOL_LIT" -> Value("boolean", e.value)
                 [] e.kind = "CHAR_LIT" -> Value("char", e.value)
                 [] e.kind = "STR_LIT" -> Value("string", e.value)
                 [] e.kind = "IDENT" -> [kind |-> "IDENT", symbol |-> e.symbol]
                 [] OTHER -> other
    BY <2>a DEF Meant
  <2>3. o.kind = "OPERATION"
    BY DEF Operation
  <2> HIDE DEF o
  <2>4. e.kind \notin Leaves => M[i] = other
    <3> HIDE DEF other
    <3>1. QED
      BY <2>2 DEF Leaves
  <2>5. e.kind \notin Leaves =>
          /\ Stuck \in {l, r} => M[i] = Stuck
          /\ Stuck \notin {l, r} /\ Undefined \in {l, r} => M[i] = Undefined
          /\ {Stuck, Undefined} \cap {l, r} = {} =>
               IF e.kind = "NOT" /\ l.kind = "VALUE"
               THEN M[i] = IF l.type = "boolean" THEN Value("boolean", 1 - l.value) ELSE Stuck
               ELSE IF e.kind \in Arithmetic \cup Boolean /\ l.kind = "VALUE" /\ r.kind = "VALUE"
               THEN M[i] = Apply(e.kind, l, r)
               ELSE M[i].kind = "OPERATION"
    BY <2>3, <2>4
  <2> HIDE DEF other
  <2>6. /\ e.kind = "INT_LIT" => M[i] = Value("integer", e.value)
        /\ e.kind = "BOOL_LIT" => M[i] = Value("boolean", e.value)
        /\ e.kind = "CHAR_LIT" => M[i] = Value("char", e.value)
        /\ e.kind = "STR_LIT" => M[i] = Value("string", e.value)
        /\ e.kind = "IDENT" => M[i].kind = "IDENT"
    BY <2>2
  <2>7. QED
    BY <2>1, <2>5, <2>6 DEF e, l, r
<1>4. QED
  BY <1>2, <1>3 DEF M

LEMMA ApplyFacts ==
  ASSUME NEW op \in Arithmetic \cup Boolean, NEW x, NEW y, x.type = y.type,
         op \in Arithmetic => x.type = "integer"
  PROVE  \/ Apply(op, x, y) = Undefined
         \/ /\ op \in Arithmetic
            /\ \E v \in Results(op, x.value, y.value) : Apply(op, x, y) = Value("integer", v)
         \/ /\ op \in Boolean /\ x.type \notin {"char", "string"}
            /\ Apply(op, x, y) = Value("boolean", Bool(Holds(op, x.value, y.value)))
<1>1. CASE op \in Arithmetic
  <2> DEFINE vs == Results(op, x.value, y.value)
  <2>1. Apply(op, x, y) = IF vs = {} THEN Undefined ELSE Value("integer", CHOOSE v \in vs : TRUE)
    BY <1>1 DEF Apply, Arithmetic, Boolean
  <2> HIDE DEF vs
  <2>2. vs # {} => (CHOOSE v \in vs : TRUE) \in vs
    OBVIOUS
  <2>3. QED
    BY <1>1, <2>1, <2>2 DEF vs
<1>2. CASE op \in Boolean
  BY <1>2 DEF Apply, Arithmetic, Boolean
<1>3. QED
  BY <1>1, <1>2

LEMMA MeaningKinds ==
  /\ Stuck.kind = "STUCK" /\ Undefined.kind = "UNDEFINED" /\ Null.kind = "NULL"
  /\ \A t, v : Value(t, v).kind = "VALUE" /\ Value(t, v).type = t /\ Value(t, v).value = v
BY DEF Stuck, Undefined, Null, Value

Types == {"integer", "boolean", "char", "string"}

\* A meaning that expr_typecheck has not misjudged.
Sound(m, t) ==
  /\ m # Stuck
  /\ m.kind = "VALUE" =>
       \E s \in Types, v \in Ints : m = Value(s, v) /\ t = Scalar(s) /\ (s = "boolean" => v \in {0, 1})

LEMMA Soundness ==
  ASSUME NEW h, WellFormed(h)
  PROVE  \A i \in Accepted(h) : Sound(Meaning(h)[i], expr_typecheck(h, {})[i].type)
<1> DEFINE M == Meaning(h)
           C == expr_typecheck(h, {})
           Q == {i \in 0 .. Len(h) : i \in Accepted(h) => Sound(M[i], C[i].type)}
<1>1. h \in Seq(Nodes) /\ Ordered(h) /\ Len(h) \in Nat /\ \A i \in 1 .. Len(h) : Shaped(h[i])
  BY LenProperties DEF WellFormed
<1>2. ASSUME NEW i \in 0 .. Len(h), \A j \in 0 .. i - 1 : j \in Q PROVE i \in Q
  <2> SUFFICES ASSUME i \in Accepted(h) PROVE Sound(M[i], C[i].type)
    OBVIOUS
  <2>1. CASE i = 0
    <3>1. M[0] = Null
      BY <1>1, MeaningFacts
    <3> HIDE DEF M, C
    <3>2. M[0].kind = "NULL" /\ M[0] # Stuck
      BY <3>1, MeaningKinds
    <3>3. QED
      BY <2>1, <3>2 DEF Sound
  <2>2. CASE i # 0
    <3> DEFINE e == h[i]
               l == M[e.left]
               r == M[e.right]
    <3>1. i \in 1 .. Len(h)
      BY <1>1, <2>2
    <3>2. e \in Nodes /\ e.value \in Ints /\ Shaped(e) /\ e.left \in 0 .. i - 1 /\ e.right \in 0 .. i - 1
      BY <1>1, <3>1, NodeFacts DEF Nodes
    <3>3. PICK args : LET v == Rule(e, C[e.left].type, C[e.right].type, args)
                      IN  /\ C[i].type = v.type
                          /\ ~C[i].error => ~v.error
                          /\ ~C[i].crash => ~v.crash
      BY <3>1, TypecheckFacts
    <3>4. ~C[i].error /\ ~C[i].crash
      BY DEF Accepted
    <3>5. {e.left, e.right} \subseteq Accepted(h)
      BY <2>2, AcceptedBelow
    <3>6. Sound(l, C[e.left].type) /\ Sound(r, C[e.right].type)
      BY <1>2, <3>2, <3>5
    <3>7. /\ e.kind = "BOOL_LIT" => C[i].type = Scalar("boolean")
          /\ e.kind = "INT_LIT" => C[i].type = Scalar("integer")
          /\ e.kind = "CHAR_LIT" => C[i].type = Scalar("char")
          /\ e.kind = "STR_LIT" => C[i].type = Scalar("string")
          /\ e.kind = "NOT" => C[e.left].type = Scalar("boolean") /\ C[i].type = Scalar("boolean")
          /\ e.kind \in Boolean => C[e.left].type = C[e.right].type /\ C[i].type = Scalar("boolean")
          /\ e.kind \in Arithmetic => /\ C[e.left].type = Scalar("integer")
                                      /\ C[e.right].type = Scalar("integer")
                                      /\ C[i].type = Scalar("integer")
      <4> HIDE DEF C, e
      <4>1. QED
        BY <3>2, <3>3, <3>4, RuleFacts
    <3>8. /\ e.kind = "INT_LIT" => M[i] = Value("integer", e.value)
          /\ e.kind = "BOOL_LIT" => M[i] = Value("boolean", e.value)
          /\ e.kind = "CHAR_LIT" => M[i] = Value("char", e.value)
          /\ e.kind = "STR_LIT" => M[i] = Value("string", e.value)
          /\ e.kind = "IDENT" => M[i].kind = "IDENT"
          /\ e.kind \notin Leaves =>
               /\ Stuck \in {l, r} => M[i] = Stuck
               /\ Stuck \notin {l, r} /\ Undefined \in {l, r} => M[i] = Undefined
               /\ {Stuck, Undefined} \cap {l, r} = {} =>
                    IF e.kind = "NOT" /\ l.kind = "VALUE"
                    THEN M[i] = IF l.type = "boolean" THEN Value("boolean", 1 - l.value) ELSE Stuck
                    ELSE IF e.kind \in Arithmetic \cup Boolean /\ l.kind = "VALUE" /\ r.kind = "VALUE"
                    THEN M[i] = Apply(e.kind, l, r)
                    ELSE M[i].kind = "OPERATION"
      BY <1>1, <3>1, MeaningFacts
    <3> DEFINE m == M[i]
               t == C[i].type
               tl == C[e.left].type
               tr == C[e.right].type
    <3> HIDE DEF l, r, m, t, tl, tr, e, M, C, Q
    <3> SUFFICES Sound(m, t)
      BY DEF m, t
    <3>a. \A s : \A v \in Ints :
            m = Value(s, v) /\ t = Scalar(s) /\ s \in Types /\ (s = "boolean" => v \in {0, 1}) => Sound(m, t)
      BY MeaningKinds DEF Sound
    <3>b. m.kind \notin {"VALUE", "STUCK"} => Sound(m, t)
      BY MeaningKinds DEF Sound
    <3>c. \A s, u : Scalar(s) = Scalar(u) => s = u
      BY DEF Scalar
    <3>d. {0, 1} \subseteq Ints
      BY ExpressionsAssumption DEF Ints
    <3>9. CASE e.kind \in Leaves
      <4>1. e.kind = "BOOL_LIT" => e.value \in {0, 1}
        BY <3>2 DEF Shaped
      <4>2. QED
        BY <3>2, <3>7, <3>8, <3>9, <3>a, <3>b, <4>1 DEF Leaves, m, t, Types
    <3>10. CASE e.kind \notin Leaves /\ Undefined \in {l, r}
      <4>1. m = Undefined
        BY <3>6, <3>8, <3>10 DEF Sound, m, tl, tr
      <4>2. QED
        BY <4>1, <3>b, MeaningKinds
    <3>11. CASE e.kind \notin Leaves /\ Undefined \notin {l, r} /\ e.kind = "NOT" /\ l.kind = "VALUE"
      <4>1. PICK s \in Types, v \in Ints : l = Value(s, v) /\ tl = Scalar(s) /\ (s = "boolean" => v \in {0, 1})
        BY <3>6, <3>11 DEF Sound, tl
      <4>2. s = "boolean"
        BY <3>7, <3>11, <3>c, <4>1 DEF tl
      <4>3. l.type = "boolean" /\ l.value = v /\ v \in {0, 1}
        BY <4>1, <4>2, MeaningKinds
      <4>4. m = Value("boolean", 1 - v)
        BY <3>6, <3>8, <3>11, <4>3 DEF Sound, m
      <4>5. 1 - v \in {0, 1}
        BY <4>3
      <4>6. QED
        BY <3>7, <3>11, <3>a, <3>d, <4>4, <4>5 DEF t, Types
    <3>12. CASE /\ e.kind \notin Leaves /\ Undefined \notin {l, r}
                /\ e.kind \in Arithmetic \cup Boolean /\ l.kind = "VALUE" /\ r.kind = "VALUE"
      <4>1. PICK s \in Types, v \in Ints : l = Value(s, v) /\ tl = Scalar(s)
        BY <3>6, <3>12 DEF Sound, tl
      <4>2. PICK u \in Types, w \in Ints : r = Value(u, w) /\ tr = Scalar(u)
        BY <3>6, <3>12 DEF Sound, tr
      <4>3. s = u /\ (e.kind \in Arithmetic => s = "integer")
        <5>1. CASE e.kind \in Arithmetic
          BY <5>1, <3>7, <3>c, <4>1, <4>2 DEF tl, tr
        <5>2. CASE e.kind \in Boolean
          <6>1. tl = tr
            BY <5>2, <3>7 DEF tl, tr
          <6>2. s = u
            BY <6>1, <4>1, <4>2, <3>c
          <6>3. e.kind \notin Arithmetic
            BY <5>2 DEF Arithmetic, Boolean
          <6>4. QED
            BY <6>2, <6>3
        <5>3. QED
          BY <5>1, <5>2, <3>12
      <4>4. l.type = s /\ r.type = u /\ l.value = v /\ r.value = w
        BY <4>1, <4>2, MeaningKinds
      <4>5. m = Apply(e.kind, l, r)
        <5>1. e.kind # "NOT"
          BY <3>12 DEF Arithmetic, Boolean
        <5>2. QED
          BY <3>6, <3>8, <3>12, <5>1 DEF Sound, m
      <4>6. \/ m = Undefined
            \/ e.kind \in Arithmetic /\ \E x \in Results(e.kind, v, w) : m = Value("integer", x)
            \/ e.kind \in Boolean /\ m = Value("boolean", Bool(Holds(e.kind, v, w)))
        BY <3>12, <4>3, <4>4, <4>5, ApplyFacts
      <4>7. CASE m = Undefined
        BY <4>7, <3>b, MeaningKinds
      <4>8. CASE e.kind \in Arithmetic /\ \E x \in Results(e.kind, v, w) : m = Value("integer", x)
        <5>1. PICK x \in Results(e.kind, v, w) : m = Value("integer", x)
          BY <4>8
        <5>2. x \in Ints
          BY DEF Results
        <5>3. t = Scalar("integer")
          BY <3>7, <4>8 DEF t
        <5>4. QED
          BY <5>1, <5>2, <5>3, <3>a DEF Types
      <4>9. CASE e.kind \in Boolean /\ m = Value("boolean", Bool(Holds(e.kind, v, w)))
        <5>1. Bool(Holds(e.kind, v, w)) \in {0, 1}
          BY DEF Bool
        <5>2. t = Scalar("boolean")
          BY <3>7, <4>9 DEF t
        <5>3. QED
          BY <4>9, <5>1, <5>2, <3>a, <3>d DEF Types
      <4>10. QED
        BY <4>6, <4>7, <4>8, <4>9
    <3>13. CASE /\ e.kind \notin Leaves /\ Undefined \notin {l, r}
                /\ ~(e.kind = "NOT" /\ l.kind = "VALUE")
                /\ ~(e.kind \in Arithmetic \cup Boolean /\ l.kind = "VALUE" /\ r.kind = "VALUE")
      <4>1. m.kind = "OPERATION"
        BY <3>6, <3>8, <3>13 DEF Sound, m
      <4>2. QED
        BY <4>1, <3>b
    <3>14. QED
      BY <3>9, <3>10, <3>11, <3>12, <3>13
  <2>3. QED
    BY <2>1, <2>2
<1>3. 0 .. Len(h) \subseteq Q
  BY <1>1, <1>2, UpTo
<1>4. Accepted(h) \subseteq 0 .. Len(h)
  BY DEF Accepted
<1>5. QED
  BY <1>3, <1>4

LEMMA ApplyStuck ==
  ASSUME NEW op \in Arithmetic \cup Boolean, NEW x, NEW y, Apply(op, x, y) # Stuck
  PROVE  x.type = y.type /\ (op \in Arithmetic => x.type = "integer")
<1>1. CASE op \in Arithmetic
  BY <1>1 DEF Apply, Arithmetic, Boolean
<1>2. CASE op \in Boolean
  BY <1>2 DEF Apply, Arithmetic, Boolean
<1>3. QED
  BY <1>1, <1>2

\* The nodes with a meaning, of those that were accepted.
Meaningful(h) == {i \in Accepted(h) : Meaning(h)[i] # Undefined}

LEMMA MeaningfulBelow ==
  ASSUME NEW h, WellFormed(h), NEW i \in Meaningful(h), i # 0, Folds(h[i])
  PROVE  {h[i].left, h[i].right} \subseteq Meaningful(h)
<1> DEFINE M == Meaning(h)
<1>1. h \in Seq(Nodes) /\ Ordered(h) /\ i \in 1 .. Len(h) /\ i \in Accepted(h) /\ M[i] # Undefined
  BY LenProperties DEF WellFormed, Meaningful, Accepted
<1>2. {h[i].left, h[i].right} \subseteq Accepted(h)
  BY <1>1, AcceptedBelow
<1>3. M[h[i].left] # Stuck /\ M[h[i].right] # Stuck
  BY <1>2, Soundness DEF Sound
<1>4. h[i].kind \notin Leaves
  BY DEF Folds, Leaves, Arithmetic, Boolean
<1>5. Undefined \in {M[h[i].left], M[h[i].right]} => M[i] = Undefined
  BY <1>1, <1>3, <1>4, MeaningFacts
<1>6. QED
  BY <1>1, <1>2, <1>5 DEF Meaningful

\* The literal f means m.
Denotes(f, m) ==
  /\ f.kind \in {"INT_LIT", "BOOL_LIT", "CHAR_LIT", "STR_LIT"} /\ f.value \in Ints
  /\ f.kind = "INT_LIT" => m = Value("integer", f.value)
  /\ f.kind = "BOOL_LIT" => m = Value("boolean", f.value)
  /\ f.kind = "CHAR_LIT" => m = Value("char", f.value)
  /\ f.kind = "STR_LIT" => m = Value("string", f.value)

LEMMA DenotesValue ==
  ASSUME NEW f, NEW m, Denotes(f, m)
  PROVE  m.kind = "VALUE" /\ m.value = f.value
BY MeaningKinds DEF Denotes

\* A binary operator on literals becomes the literal that it means, unless it is
\* a power that is too deep.
LEMMA CollapseMeaning ==
  ASSUME NEW e \in Nodes, e.kind \in Arithmetic \cup Boolean, NEW l, NEW r, NEW x, NEW y,
         Denotes(l, x), Denotes(r, y), Apply(e.kind, x, y) \notin {Stuck, Undefined}
  PROVE  IF Collapse(e, l, r) = Trap THEN e.kind = "EXP" /\ r.value > PowDepth
         ELSE Denotes(Collapse(e, l, r), Apply(e.kind, x, y))
<1> DEFINE op == e.kind
           a == l.value
           b == r.value
           m == Apply(op, x, y)
           k == IF op \in Arithmetic THEN "INT_LIT" ELSE "BOOL_LIT"
           v == Folded(op, a, b)
           f == [e EXCEPT !.kind = k, !.value = v]
<1>1. a \in Ints /\ b \in Ints /\ x.value = a /\ y.value = b
  BY DenotesValue DEF Denotes
<1>2. x.type = y.type /\ (op \in Arithmetic => x.type = "integer")
  BY ApplyStuck
<1>3. \/ /\ op \in Arithmetic
         /\ \E c \in Results(op, a, b) : m = Value("integer", c)
      \/ /\ op \in Boolean
         /\ m = Value("boolean", Bool(Holds(op, a, b)))
  BY <1>1, <1>2, ApplyFacts
<1>4. /\ Traps(op, a, b) => op = "EXP" /\ b > PowDepth
      /\ m = Value(IF op \in Arithmetic THEN "integer" ELSE "boolean", Folded(op, a, b))
  <2>1. CASE op \in Arithmetic /\ \E c \in Results(op, a, b) : m = Value("integer", c)
    BY <2>1, <1>1, FoldedResult
  <2>2. CASE op \in Boolean /\ m = Value("boolean", Bool(Holds(op, a, b)))
    <3>1. op \notin Arithmetic
      BY <2>2 DEF Arithmetic, Boolean
    <3>2. QED
      BY <2>2, <3>1, <1>1, FoldedHolds
  <2>3. QED
    BY <1>3, <2>1, <2>2
<1>5. CASE Traps(op, a, b)
  <2>1. Collapse(e, l, r) = Trap
    BY <1>5 DEF Collapse
  <2>2. QED
    BY <1>4, <1>5, <2>1
<1>6. CASE ~Traps(op, a, b)
  <2>1. Collapse(e, l, r) = f
    BY <1>6 DEF Collapse
  <2>2. k \in {"INT_LIT", "BOOL_LIT"}
    OBVIOUS
  <2>3. v \in Ints
    BY <1>1, <1>6, FoldedInts
  <2>4. m = Value(IF op \in Arithmetic THEN "integer" ELSE "boolean", v)
    BY <1>4
  <2>5. k = IF op \in Arithmetic THEN "INT_LIT" ELSE "BOOL_LIT"
    OBVIOUS
  <2> HIDE DEF k, v
  <2>6. f = [e EXCEPT !.kind = k, !.value = v]
    OBVIOUS
  <2> HIDE DEF a, b, op, m, f
  <2>7. f.value = v /\ f.kind = k
    BY <2>6 DEF Nodes
  <2>8. f # Trap
    BY <2>2, <2>7 DEF Trap
  <2>9. Denotes(f, m)
    BY <2>2, <2>3, <2>4, <2>5, <2>7 DEF Denotes
  <2>10. QED
    BY <2>1, <2>8, <2>9 DEF m, op
<1>7. QED
  BY <1>5, <1>6

\* An operator that was accepted has no array for an operand.
LEMMA ScalarOperands ==
  ASSUME NEW h, WellFormed(h), NEW i \in Accepted(h), i # 0, Folds(h[i]),
         NEW o \in {h[i].left, h[i].right}
  PROVE  constant_fold_expr(h)[o].kind # "ARRAY"
<1> DEFINE F == constant_fold_expr(h)
           C == expr_typecheck(h, {})
           e == h[i]
<1> SUFFICES ASSUME F[o].kind = "ARRAY" PROVE FALSE
  OBVIOUS
<1>1. /\ h \in Seq(Nodes) /\ Ordered(h) /\ Len(h) \in Nat /\ i \in 1 .. Len(h)
      /\ Shaped(e) /\ e \in Nodes /\ o \in 0 .. Len(h)
  BY LenProperties, NodeFacts DEF WellFormed, Accepted
<1>2. o \in Accepted(h)
  BY AcceptedBelow
<1>3. F[0] = Null
  BY FoldFacts
<1>4. o # 0
  <2> HIDE DEF F
  <2>1. QED
    BY <1>3 DEF Null
<1>5. o \in 1 .. Len(h)
  BY <1>1, <1>4
<1>6. F[o] \in {h[o], Trap} \/ Literalized(h[o], F[o])
  BY <1>5, FoldFacts
<1>7. h[o].kind = "ARRAY" /\ h[o] \in Nodes
  <2>1. h[o] \in Nodes
    BY <1>1, <1>5, NodeFacts
  <2> HIDE DEF F
  <2>2. QED
    BY <1>6, <2>1 DEF Literalized, Trap
<1>8. PICK args : LET v == Rule(h[o], C[h[o].left].type, C[h[o].right].type, args)
                  IN  C[o].type = v.type /\ (~C[o].error => ~v.error) /\ (~C[o].crash => ~v.crash)
  BY <1>5, TypecheckFacts
<1>9. ~C[o].error /\ ~C[o].crash /\ ~C[i].error /\ ~C[i].crash
  BY <1>2 DEF Accepted
<1>10. PICK args2 : LET v == Rule(e, C[e.left].type, C[e.right].type, args2)
                    IN  (~C[i].error => ~v.error) /\ (~C[i].crash => ~v.crash)
  BY <1>1, TypecheckFacts
<1> HIDE DEF C, F, e
<1>11. C[o].type.kind = "array"
  BY <1>7, <1>8, <1>9, RuleFacts
<1>12. /\ e.kind = "NOT" => C[e.left].type = Scalar("boolean")
       /\ e.kind \in Boolean => C[e.left].type = C[e.right].type /\ C[e.left].type.kind # "array"
       /\ e.kind \in Arithmetic => /\ C[e.left].type = Scalar("integer")
                                   /\ C[e.right].type = Scalar("integer")
  BY <1>1, <1>9, <1>10, RuleFacts
<1>13. e.kind \in Arithmetic \cup Boolean \cup {"NOT"} /\ o \in {e.left, e.right}
  BY DEF Folds, e
<1>14. e.kind = "NOT" => o = e.left
  BY <1>1, <1>4, <1>13 DEF Shaped
<1>15. QED
  BY <1>11, <1>12, <1>13, <1>14 DEF Scalar

\* A power of constants that pow_int cannot go deep enough for.
DeepAt(h, i) ==
  LET l == Meaning(h)[h[i].left]
      r == Meaning(h)[h[i].right]
  IN  h[i].kind = "EXP" /\ l.kind = "VALUE" /\ r.kind = "VALUE" /\ r.value > PowDepth

DeepBelow(h, i) == \E j \in Visited(h)[i] : DeepAt(h, j)

\* What is deep below an operand is below its operator.
LEMMA DeepAbove ==
  ASSUME NEW h, WellFormed(h), NEW i \in 1 .. Len(h), Folds(h[i])
  PROVE  /\ DeepAt(h, i) => DeepBelow(h, i)
         /\ DeepBelow(h, h[i].left) \/ DeepBelow(h, h[i].right) => DeepBelow(h, i)
<1>1. h \in Seq(Nodes) /\ Ordered(h) /\ Len(h) \in Nat
  BY LenProperties DEF WellFormed
<1>2. Visited(h)[i] = VisitNode(h, Visited(h), i) /\ i # 0
  BY <1>1, VisitedUnfold
<1>3. {i} \cup Visited(h)[h[i].left] \cup Visited(h)[h[i].right] = Visited(h)[i]
  BY <1>2 DEF VisitNode
<1>4. QED
  BY <1>3 DEF DeepBelow

\* What the folder makes of a node that was accepted and has a meaning.
LEMMA FoldMeaning ==
  ASSUME NEW h, WellFormed(h)
  PROVE  \A i \in Meaningful(h) :
           LET f == constant_fold_expr(h)[i]
           IN  IF f = Trap THEN DeepBelow(h, i)
               ELSE is_constant(f) /\ f.kind # "ARRAY" => Denotes(f, Meaning(h)[i])
<1> DEFINE M == Meaning(h)
           F == constant_fold_expr(h)
           Good(i) == IF F[i] = Trap THEN DeepBelow(h, i)
                      ELSE is_constant(F[i]) /\ F[i].kind # "ARRAY" => Denotes(F[i], M[i])
           Q == {i \in 0 .. Len(h) : i \in Meaningful(h) => Good(i)}
<1>1. h \in Seq(Nodes) /\ Ordered(h) /\ Len(h) \in Nat /\ \A i \in 1 .. Len(h) : Shaped(h[i])
  BY LenProperties DEF WellFormed
<1>2. ASSUME NEW i \in 0 .. Len(h), \A j \in 0 .. i - 1 : j \in Q, i \in Meaningful(h) PROVE Good(i)
  <2>1. CASE i = 0
    <3>1. F[0] = Null
      BY FoldFacts
    <3> HIDE DEF F, M
    <3>2. QED
      BY <2>1, <3>1 DEF Null, Trap, is_constant, Constant
  <2>2. CASE i # 0
    <3> DEFINE e == h[i]
               l == F[e.left]
               r == F[e.right]
               ml == M[e.left]
               mr == M[e.right]
    <3>1. i \in 1 .. Len(h)
      BY <1>1, <2>2
    <3>2. e \in Nodes /\ Shaped(e) /\ e.left \in 0 .. i - 1 /\ e.right \in 0 .. i - 1 /\ e # Trap
      BY <1>1, <3>1, NodeFacts
    <3>3. F[i] = IF ~Folds(e) THEN e ELSE IF e.kind = "NOT" THEN FoldNot(e, l) ELSE FoldBinary(e, l, r)
      <4>1. F[i] = FoldNode(h, F, i)
        BY <3>1, FoldFacts
      <4> HIDE DEF F
      <4>2. QED
        BY <4>1, <2>2 DEF FoldNode
    <3>4. /\ e.kind = "INT_LIT" => M[i] = Value("integer", e.value)
          /\ e.kind = "BOOL_LIT" => M[i] = Value("boolean", e.value)
          /\ e.kind = "CHAR_LIT" => M[i] = Value("char", e.value)
          /\ e.kind = "STR_LIT" => M[i] = Value("string", e.value)
          /\ e.kind \notin Leaves =>
               /\ Stuck \in {ml, mr} => M[i] = Stuck
               /\ Stuck \notin {ml, mr} /\ Undefined \in {ml, mr} => M[i] = Undefined
               /\ {Stuck, Undefined} \cap {ml, mr} = {} =>
                    IF e.kind = "NOT" /\ ml.kind = "VALUE"
                    THEN M[i] = IF ml.type = "boolean" THEN Value("boolean", 1 - ml.value) ELSE Stuck
                    ELSE IF e.kind \in Arithmetic \cup Boolean /\ ml.kind = "VALUE" /\ mr.kind = "VALUE"
                    THEN M[i] = Apply(e.kind, ml, mr)
                    ELSE M[i].kind = "OPERATION"
      BY <1>1, <3>1, MeaningFacts
    <3>5. i \in Accepted(h) /\ M[i] # Undefined /\ M[i] # Stuck
      BY <1>2, Soundness DEF Meaningful, Sound
    <3>6. Folds(e) => l.kind # "ARRAY" /\ r.kind # "ARRAY"
      BY <2>2, <3>5, ScalarOperands
    <3>a. Folds(e) /\ (DeepBelow(h, e.left) \/ DeepBelow(h, e.right)) => DeepBelow(h, i)
      BY <3>1, DeepAbove
    <3>b. Folds(e) /\ e.kind = "EXP" /\ ml.kind = "VALUE" /\ mr.kind = "VALUE" /\ mr.value > PowDepth
            => DeepBelow(h, i)
      BY <3>1, DeepAbove DEF DeepAt
    <3>7. Folds(e) => {e.left, e.right} \subseteq Meaningful(h)
      BY <1>2, <2>2, MeaningfulBelow
    <3>8. Folds(e) => /\ IF l = Trap THEN DeepBelow(h, e.left)
                         ELSE is_constant(l) /\ l.kind # "ARRAY" => Denotes(l, ml)
                      /\ IF r = Trap THEN DeepBelow(h, e.right)
                         ELSE is_constant(r) /\ r.kind # "ARRAY" => Denotes(r, mr)
      BY <1>2, <3>2, <3>7
    <3>9. Folds(e) => Sound(ml, expr_typecheck(h, {})[e.left].type)
      BY <3>7, Soundness DEF Meaningful
    <3> DEFINE m == M[i]
               f == F[i]
    <3> HIDE DEF m, f, l, r, ml, mr, e, M, F, Q
    <3> SUFFICES IF f = Trap THEN DeepBelow(h, i)
                 ELSE is_constant(f) /\ f.kind # "ARRAY" => Denotes(f, m)
      BY DEF f, m
    <3>c. Folds(e) => /\ is_constant(l) => l # Trap
                      /\ is_constant(r) => r # Trap
      BY DEF is_constant, Constant, Trap
    <3>d. CASE Folds(e) /\ Trap \in {l, r}
      <4>1. CASE e.kind = "NOT" /\ l # Trap
        <5>1. e.right = 0
          BY <3>2, <4>1 DEF Shaped
        <5>2. r = Null
          BY <5>1, FoldFacts DEF r, F
        <5>3. QED
          BY <3>d, <4>1, <5>2 DEF Null, Trap
      <4>2. CASE ~(e.kind = "NOT" /\ l # Trap)
        <5>1. f = Trap
          BY <3>3, <3>d, <4>2 DEF FoldNot, FoldBinary, f
        <5>2. QED
          BY <3>8, <3>a, <3>d, <5>1
      <4>3. QED
        BY <4>1, <4>2
    <3>10. CASE ~Folds(e)
      <4>1. f = e
        BY <3>3, <3>10 DEF f
      <4>2. e.value \in Ints
        BY <3>2 DEF Nodes
      <4>3. QED
        BY <3>2, <3>4, <4>1, <4>2 DEF is_constant, Constant, Denotes, m
    <3>11. CASE Folds(e) /\ f = e
      <4>1. ~is_constant(e)
        BY <3>11 DEF Folds, is_constant, Arithmetic, Boolean, Constant
      <4>2. QED
        BY <3>2, <3>11, <4>1
    <3>12. CASE Folds(e) /\ Trap \notin {l, r} /\ e.kind = "NOT" /\ f # e
      <4>1. is_constant(l) /\ f = [e EXCEPT !.kind = "BOOL_LIT", !.value = Bool(l.value = 0)]
        BY <3>3, <3>12 DEF FoldNot, f
      <4>2. Denotes(l, ml)
        BY <3>6, <3>8, <3>12, <4>1
      <4>3. ml.kind = "VALUE" /\ ml.value = l.value
        BY <4>2, DenotesValue
      <4>4. /\ e.kind \notin Leaves /\ {Stuck, Undefined} \cap {ml, mr} = {}
        BY <3>4, <3>5, <3>12 DEF Leaves
      <4>5. ml.type = "boolean" /\ m = Value("boolean", 1 - l.value)
        BY <3>4, <3>5, <3>12, <4>3, <4>4 DEF m
      <4>6. PICK s \in Types, v \in Ints : ml = Value(s, v) /\ (s = "boolean" => v \in {0, 1})
        BY <3>9, <3>12, <4>3 DEF Sound
      <4>7. l.value \in {0, 1}
        BY <4>3, <4>5, <4>6, MeaningKinds
      <4>8. Bool(l.value = 0) = 1 - l.value /\ Bool(l.value = 0) \in Ints
        BY <4>7, ExpressionsAssumption DEF Bool, Ints
      <4> DEFINE b == Bool(l.value = 0)
      <4> HIDE DEF b
      <4>9. b \in Ints /\ m = Value("boolean", b)
        BY <4>5, <4>8 DEF b
      <4>10. f = [e EXCEPT !.kind = "BOOL_LIT", !.value = b]
        BY <4>1 DEF b
      <4>11. f.kind = "BOOL_LIT" /\ f.value = b
        BY <3>2, <4>9, <4>10, CollapseFacts
      <4>12. QED
        BY <4>9, <4>11 DEF Denotes, Trap
    <3>13. CASE Folds(e) /\ Trap \notin {l, r} /\ e.kind # "NOT" /\ f # e
      <4>1. is_constant(l) /\ is_constant(r) /\ f = Collapse(e, l, r)
        BY <3>3, <3>13 DEF FoldBinary, f
      <4>2. Denotes(l, ml) /\ Denotes(r, mr)
        BY <3>6, <3>8, <3>13, <4>1
      <4>3. ml.kind = "VALUE" /\ mr.kind = "VALUE" /\ mr.value = r.value
        BY <4>2, DenotesValue
      <4>4. e.kind \in Arithmetic \cup Boolean /\ e.kind \notin Leaves
        BY <3>13 DEF Folds, Leaves, Arithmetic, Boolean
      <4>5. {Stuck, Undefined} \cap {ml, mr} = {}
        BY <3>4, <3>5, <4>4
      <4>6. m = Apply(e.kind, ml, mr)
        BY <3>4, <3>13, <4>3, <4>4, <4>5 DEF m
      <4>7. Apply(e.kind, ml, mr) \notin {Stuck, Undefined}
        BY <3>5, <4>6 DEF m
      <4>8. IF f = Trap THEN e.kind = "EXP" /\ r.value > PowDepth ELSE Denotes(f, m)
        BY <3>2, <4>1, <4>2, <4>4, <4>6, <4>7, CollapseMeaning
      <4>9. QED
        BY <3>13, <3>b, <4>3, <4>8
    <3>14. QED
      BY <3>10, <3>11, <3>12, <3>13, <3>d
  <2>3. QED
    BY <2>1, <2>2
<1>3. 0 .. Len(h) \subseteq Q
  BY <1>1, <1>2, UpTo
<1>4. Meaningful(h) \subseteq 0 .. Len(h)
  BY DEF Meaningful, Accepted
<1>5. QED
  BY <1>3, <1>4

-----------------------------------------------------------------------------
(* The nodes after the folder.                                             *)

AfterFold(h, r) ==
  [i \in DOMAIN h |-> IF i \in Visited(h)[r] THEN constant_fold_expr(h)[i] ELSE h[i]]

FreedIn(h, r) == UNION {FreedBy(h, i) : i \in Visited(h)[r]}

LEMMA AfterFoldFacts ==
  ASSUME NEW h, WellFormed(h), NEW r \in 1 .. Len(h), constant_fold_expr(h)[r] # Trap
  PROVE  LET g == AfterFold(h, r)
         IN  /\ g \in Seq(Nodes) /\ Ordered(g) /\ Len(g) = Len(h)
             /\ \A i \in 1 .. Len(h) :
                  /\ g[i].left = h[i].left /\ g[i].right = h[i].right /\ g[i].args = h[i].args
                  /\ i \in Visited(h)[r] => g[i] = constant_fold_expr(h)[i]
                  /\ \/ g[i] = h[i]
                     \/ i \in Visited(h)[r] /\ Folds(h[i]) /\ Literalized(h[i], g[i])
<1> DEFINE g == AfterFold(h, r)
           F == constant_fold_expr(h)
           V == Visited(h)[r]
<1>1. h \in Seq(Nodes) /\ Ordered(h) /\ Len(h) \in Nat /\ DOMAIN h = 1 .. Len(h)
  BY LenProperties DEF WellFormed
<1>2. g = [i \in 1 .. Len(h) |-> IF i \in V THEN F[i] ELSE h[i]]
  BY <1>1 DEF AfterFold
<1>3. ASSUME NEW i \in 1 .. Len(h)
      PROVE  /\ i \in V => g[i] = F[i]
             /\ g[i] = h[i] \/ (i \in V /\ Folds(h[i]) /\ Literalized(h[i], g[i]))
  <2>1. i \in V => F[i] # Trap
    BY NoTrapBelow
  <2>2. F[i] \in {h[i], Trap} \/ (Folds(h[i]) /\ Literalized(h[i], F[i]))
    BY FoldFacts
  <2> HIDE DEF g, F, V
  <2>3. g[i] = IF i \in V THEN F[i] ELSE h[i]
    BY <1>2
  <2>4. QED
    BY <2>1, <2>2, <2>3
<1> HIDE DEF g, F, V
<1>4. \A i \in 1 .. Len(h) : /\ g[i] \in Nodes
                             /\ g[i].left = h[i].left /\ g[i].right = h[i].right /\ g[i].args = h[i].args
  BY <1>1, <1>3, NodeFacts DEF Literalized
<1>5. g \in Seq(Nodes) /\ Len(g) = Len(h)
  <2>1. g = [i \in 1 .. Len(h) |-> g[i]]
    BY <1>2
  <2>2. g \in [1 .. Len(h) -> Nodes]
    BY <1>4, <2>1
  <2>3. QED
    BY <1>1, <2>2
<1>6. Ordered(g)
  BY <1>1, <1>4, <1>5 DEF Ordered
<1>7. QED
  BY <1>3, <1>4, <1>5, <1>6 DEF g, F, V

\* All that the folder visits in an expression with a meaning has one.
LEMMA VisitedMeaningful ==
  ASSUME NEW h, WellFormed(h), NEW r \in Meaningful(h), r # 0
  PROVE  Visited(h)[r] \subseteq Meaningful(h)
<1> DEFINE P == Meaningful(h)
<1>1. h \in Seq(Nodes) /\ Ordered(h) /\ Len(h) \in Nat /\ r \in 0 .. Len(h)
  BY LenProperties DEF WellFormed, Meaningful, Accepted
<1>2. \A i \in 1 .. Len(h) : i \in P /\ Folds(h[i]) => {h[i].left, h[i].right} \ {0} \subseteq P
  BY <1>1, MeaningfulBelow
<1> HIDE DEF P
<1>3. r \in P
  BY DEF P
<1>4. Visited(h)[r] \subseteq P
  BY <1>1, <1>2, <1>3, VisitedWithin
<1>5. QED
  BY <1>4 DEF P

LEMMA MeaningKept ==
  ASSUME NEW h, WellFormed(h), NEW r \in Meaningful(h), r # 0, constant_fold_expr(h)[r] # Trap
  PROVE  \A i \in 0 .. Len(h) : Meaning(AfterFold(h, r))[i] = Meaning(h)[i]
<1> DEFINE g == AfterFold(h, r)
           M == Meaning(h)
           N == Meaning(g)
           F == constant_fold_expr(h)
           V == Visited(h)[r]
           Q == {i \in 0 .. Len(h) : N[i] = M[i]}
<1>1. h \in Seq(Nodes) /\ Ordered(h) /\ Len(h) \in Nat /\ r \in 1 .. Len(h)
  BY LenProperties DEF WellFormed, Meaningful, Accepted
<1>2. F[r] # Trap
  OBVIOUS
<1>3. /\ g \in Seq(Nodes) /\ Ordered(g) /\ Len(g) = Len(h)
      /\ \A i \in 1 .. Len(h) :
           /\ g[i].left = h[i].left /\ g[i].right = h[i].right /\ g[i].args = h[i].args
           /\ i \in V => g[i] = F[i]
           /\ g[i] = h[i] \/ (i \in V /\ Literalized(h[i], g[i]))
  BY <1>1, <1>2, AfterFoldFacts
<1>4. V \subseteq Meaningful(h)
  BY VisitedMeaningful
<1>5. ASSUME NEW i \in 0 .. Len(h), \A j \in 0 .. i - 1 : j \in Q PROVE N[i] = M[i]
  <2>1. CASE i = 0
    <3>1. M[0] = Null
      BY <1>1, MeaningFacts
    <3>2. N[0] = Null
      BY <1>3, MeaningFacts
    <3>3. QED
      BY <2>1, <3>1, <3>2
  <2>2. CASE i # 0 /\ g[i] = h[i]
    <3> DEFINE e == h[i]
    <3>1. i \in 1 .. Len(h) /\ i \in 1 .. Len(g)
      BY <1>1, <1>3, <2>2
    <3>2. M[i] = MeaningOf(h, M, i)
      BY <1>1, <3>1, MeaningFacts
    <3>3. N[i] = MeaningOf(g, N, i)
      BY <1>3, <3>1, MeaningFacts
    <3>4. e.left \in 0 .. i - 1 /\ e.right \in 0 .. i - 1 /\ e.args \in Seq(1 .. i - 1)
      BY <1>1, <3>1 DEF Ordered
    <3> HIDE DEF N, M, g
    <3>5. N[e.left] = M[e.left] /\ N[e.right] = M[e.right]
      BY <3>4, <1>5
    <3>6. \A k \in DOMAIN e.args : N[e.args[k]] = M[e.args[k]]
      <4>1. \A k \in DOMAIN e.args : e.args[k] \in 1 .. i - 1
        BY <3>4
      <4>2. QED
        BY <4>1, <1>5
    <3> DEFINE A == [k \in DOMAIN e.args |-> N[e.args[k]]]
               B == [k \in DOMAIN e.args |-> M[e.args[k]]]
    <3>7. A = B
      BY <3>6
    <3>8. N[i] = Meant(e, N[e.left], N[e.right], A)
      BY <2>2, <3>3, Zenon DEF MeaningOf
    <3>9. M[i] = Meant(e, M[e.left], M[e.right], B)
      BY <2>2, <3>2, Zenon DEF MeaningOf
    <3> HIDE DEF A, B, e
    <3>10. QED
      BY <3>5, <3>7, <3>8, <3>9
  <2>3. CASE i # 0 /\ g[i] # h[i]
    <3>1. i \in 1 .. Len(h) /\ i \in 1 .. Len(g)
      BY <1>1, <1>3, <2>3
    <3>2. i \in V /\ Literalized(h[i], g[i]) /\ g[i] = F[i]
      BY <1>3, <3>1, <2>3
    <3>3. g[i].kind \in {"INT_LIT", "BOOL_LIT"}
      BY <3>2 DEF Literalized
    <3>4. Denotes(g[i], M[i])
      <4>1. is_constant(F[i]) /\ F[i].kind # "ARRAY" /\ F[i] # Trap
        BY <3>2, <3>3 DEF is_constant, Constant, Trap
      <4>2. Denotes(F[i], M[i])
        BY <1>4, <3>2, <4>1, FoldMeaning
      <4>3. QED
        BY <3>2, <4>2
    <3>5. /\ g[i].kind = "INT_LIT" => N[i] = Value("integer", g[i].value)
          /\ g[i].kind = "BOOL_LIT" => N[i] = Value("boolean", g[i].value)
      BY <1>3, <3>1, MeaningFacts
    <3> HIDE DEF g, M, N, V, F
    <3>6. QED
      BY <3>3, <3>4, <3>5 DEF Denotes
  <2>4. QED
    BY <2>1, <2>2, <2>3
<1> HIDE DEF N, M
<1>6. \A i \in 0 .. Len(h) : (\A j \in 0 .. i - 1 : j \in Q) => i \in Q
  BY <1>5
<1>7. 0 .. Len(h) \subseteq Q
  BY <1>1, <1>6, UpTo
<1>8. QED
  BY <1>7 DEF N, M

-----------------------------------------------------------------------------
(* What is left of the operands.                                           *)

\* What expr_typecheck follows no null pointer for.
Typed(h) == {i \in 0 .. Len(h) : ~expr_typecheck(h, {})[i].crash}

LEMMA TypedBelow ==
  ASSUME NEW h, WellFormed(h), NEW i \in Typed(h), i # 0
  PROVE  /\ {h[i].left, h[i].right} \subseteq Typed(h)
         /\ h[i].kind = "SUB" => h[i].left # 0
<1> DEFINE C == expr_typecheck(h, {})
           e == h[i]
           tl == C[e.left].type
           tr == C[e.right].type
<1>1. h \in Seq(Nodes) /\ Ordered(h) /\ Len(h) \in Nat /\ i \in 1 .. Len(h)
  BY LenProperties DEF WellFormed, Typed
<1>2. PICK args : LET v == Rule(e, tl, tr, args)
                  IN  ~C[i].crash => ~C[e.left].crash /\ ~C[e.right].crash /\ ~v.crash
  BY <1>1, TypecheckFacts
<1>3. ~C[i].crash
  BY DEF Typed
<1>4. e.left \in 0 .. Len(h) /\ e.right \in 0 .. Len(h)
  BY <1>1, NodeFacts
<1>5. {e.left, e.right} \subseteq Typed(h)
  BY <1>2, <1>3, <1>4 DEF Typed
<1>6. C = [j \in 0 .. Len(h) |-> TypecheckNode(h, {}, C, j)]
  BY <1>1, TypecheckUnfold
<1> HIDE DEF C, e
<1>7. C[0].type = NoType
  BY <1>1, <1>6 DEF TypecheckNode, Verdict
<1>8. ASSUME e.kind = "SUB" PROVE e.left # 0
  <2>1. Rule(e, tl, tr, args) = ArithmeticRule(tl, tr)
    BY <1>8 DEF Rule, Arithmetic, Boolean
  <2>2. ArithmeticRule(tl, tr).crash = Incomparable(tl, tr)
    BY VerdictFacts DEF ArithmeticRule
  <2>3. NoType \notin {tl, tr}
    BY <1>2, <1>3, <2>1, <2>2 DEF Incomparable
  <2>4. QED
    BY <1>7, <2>3
<1>9. QED
  BY <1>5, <1>8 DEF e

\* A second walk goes where the first went, and finds no operator whose operands
\* are all constants.
LEMMA NothingLeft ==
  ASSUME NEW h, WellFormed(h), NEW r \in Typed(h), r # 0, constant_fold_expr(h)[r] # Trap
  PROVE  LET g == AfterFold(h, r)
         IN  \A i \in Visited(g)[r] :
               Folds(g[i]) => \E o \in {g[i].left, g[i].right} \ {0} : ~is_constant(g[o])
<1> DEFINE g == AfterFold(h, r)
           F == constant_fold_expr(h)
           V == Visited(h)[r]
           T == Typed(h)
<1>1. /\ h \in Seq(Nodes) /\ Ordered(h) /\ Len(h) \in Nat /\ r \in 1 .. Len(h)
      /\ \A i \in 1 .. Len(h) : Shaped(h[i])
  BY LenProperties DEF WellFormed, Typed
<1>2. /\ g \in Seq(Nodes) /\ Ordered(g) /\ Len(g) = Len(h)
      /\ \A i \in 1 .. Len(h) :
           /\ g[i].left = h[i].left /\ g[i].right = h[i].right
           /\ i \in V => g[i] = F[i]
           /\ g[i] = h[i] \/ (i \in V /\ Literalized(h[i], g[i]))
  BY <1>1, AfterFoldFacts
<1>3. /\ r \in V /\ V \subseteq 1 .. Len(h)
      /\ \A i \in V : Folds(h[i]) => {h[i].left, h[i].right} \ {0} \subseteq V
  BY <1>1, VisitedFacts
<1>4. V \subseteq T
  <2>1. \A i \in 1 .. Len(h) : i \in T /\ Folds(h[i]) => {h[i].left, h[i].right} \ {0} \subseteq T
    BY TypedBelow
  <2> HIDE DEF T
  <2>2. r \in T
    BY DEF T
  <2>3. QED
    BY <1>1, <2>1, <2>2, VisitedWithin
<1>5. \A i \in V : F[i] # Trap
  BY <1>1, NoTrapBelow
<1>6. \A i \in 1 .. Len(h) : F[i] = FoldNode(h, F, i)
  BY FoldFacts
<1>7. F[0] = Null
  BY FoldFacts
<1>8. \A i \in T : i # 0 => (h[i].kind = "SUB" => h[i].left # 0)
  BY TypedBelow
<1> HIDE DEF g, F, V, T
<1>9. \A i \in 1 .. Len(h) : Folds(g[i]) => g[i] = h[i]
  BY <1>2 DEF Literalized, Folds, Arithmetic, Boolean
<1>10. Visited(g)[r] \subseteq V
  <2>1. \A i \in 1 .. Len(g) : i \in V /\ Folds(g[i]) => {g[i].left, g[i].right} \ {0} \subseteq V
    BY <1>2, <1>3, <1>9
  <2>2. r \in 0 .. Len(g)
    BY <1>1, <1>2
  <2>3. QED
    BY <1>2, <1>3, <2>1, <2>2, VisitedWithin
<1>11. ASSUME NEW i \in V, Folds(g[i])
       PROVE  \E o \in {g[i].left, g[i].right} \ {0} : ~is_constant(g[o])
  <2> DEFINE e == h[i]
  <2>1. i \in 1 .. Len(h) /\ i # 0 /\ g[i] = e /\ Folds(e) /\ Shaped(e)
    BY <1>1, <1>3, <1>9, <1>11
  <2>2. F[i] = e
    BY <1>2, <1>11, <2>1
  <2>3. e = IF e.kind = "NOT" THEN FoldNot(e, F[e.left]) ELSE FoldBinary(e, F[e.left], F[e.right])
    BY <1>6, <2>1, <2>2 DEF FoldNode
  <2>4. e.kind \in Arithmetic \cup Boolean \cup {"NOT"}
    BY <2>1 DEF Folds
  <2>5. e.kind \notin {"INT_LIT", "BOOL_LIT"}
    BY <2>4 DEF Arithmetic, Boolean
  <2>6. e \in Nodes /\ e # Trap
    BY <1>1, <2>1, NodeFacts
  <2>7. \A o \in {e.left, e.right} \ {0} : o \in V /\ F[o] # Trap /\ g[o] = F[o]
    BY <1>2, <1>3, <1>5, <2>1
  <2> HIDE DEF e
  <2>8. CASE e.kind = "NOT"
    <3>1. e.left # 0
      BY <2>1, <2>8 DEF Shaped
    <3>2. F[e.left] # Trap
      BY <2>7, <3>1
    <3>3. ASSUME is_constant(F[e.left]) PROVE FALSE
      <4> DEFINE b == Bool(F[e.left].value = 0)
      <4>1. e = [e EXCEPT !.kind = "BOOL_LIT", !.value = b]
        BY <2>3, <2>8, <3>2, <3>3 DEF FoldNot
      <4> HIDE DEF b
      <4>2. [e EXCEPT !.kind = "BOOL_LIT", !.value = b].kind = "BOOL_LIT"
        BY <2>6 DEF Nodes
      <4>3. QED
        BY <2>5, <4>1, <4>2
    <3>4. QED
      BY <2>1, <2>7, <3>1, <3>3
  <2>9. CASE e.kind # "NOT"
    <3>1. e.left # 0 /\ e.right # 0
      BY <1>4, <1>8, <2>1, <2>4, <2>9 DEF Shaped, e
    <3>2. F[e.left] # Trap /\ F[e.right] # Trap
      BY <2>7, <3>1
    <3>3. ASSUME is_constant(F[e.left]), is_constant(F[e.right]) PROVE FALSE
      <4>1. e = Collapse(e, F[e.left], F[e.right])
        BY <2>3, <2>9, <3>2, <3>3 DEF FoldBinary
      <4> DEFINE k == IF e.kind \in Arithmetic THEN "INT_LIT" ELSE "BOOL_LIT"
                 v == Folded(e.kind, F[e.left].value, F[e.right].value)
      <4>2. e = [e EXCEPT !.kind = k, !.value = v]
        BY <2>6, <4>1 DEF Collapse
      <4>3. k \in {"INT_LIT", "BOOL_LIT"}
        OBVIOUS
      <4> HIDE DEF k, v
      <4>4. [e EXCEPT !.kind = k, !.value = v].kind = k
        BY <2>6 DEF Nodes
      <4>5. QED
        BY <2>5, <4>2, <4>3, <4>4
    <3>4. QED
      BY <2>1, <2>7, <3>1, <3>3
  <2>10. QED
    BY <2>8, <2>9
<1>12. QED
  BY <1>10, <1>11 DEF g

Operands(e) == ({e.left, e.right} \cup {e.args[k] : k \in DOMAIN e.args}) \ {0}

\* No node is an operand of two.
Apart(h) == \A i, j \in 1 .. Len(h) : \A o \in Operands(h[i]) : o \in Operands(h[j]) => i = j

\* Who points to what was freed is a literal now.
LEMMA FreedBelowLiterals ==
  ASSUME NEW h, WellFormed(h), NEW r \in 1 .. Len(h), constant_fold_expr(h)[r] # Trap,
         NEW o \in FreedIn(h, r)
  PROVE  /\ o \in 1 .. Len(h)
         /\ \E i \in 1 .. Len(h) : /\ o \in Operands(h[i])
                                   /\ AfterFold(h, r)[i].kind \in {"INT_LIT", "BOOL_LIT"}
<1> DEFINE F == constant_fold_expr(h)
           V == Visited(h)[r]
<1>1. h \in Seq(Nodes) /\ Ordered(h) /\ Len(h) \in Nat
  BY LenProperties DEF WellFormed
<1>2. PICK i \in V : o \in FreedBy(h, i)
  BY DEF FreedIn
<1> DEFINE e == h[i]
<1>3. /\ Folds(e) /\ e.kind # "NOT" /\ is_constant(F[e.left]) /\ is_constant(F[e.right])
      /\ o \in {e.left, e.right}
  BY <1>2 DEF FreedBy
<1>4. i \in 1 .. Len(h) /\ F[i] # Trap
  BY <1>1, <1>2, VisitedFacts, NoTrapBelow
<1>5. F[0] = Null /\ F[i] = FoldNode(h, F, i)
  BY <1>4, FoldFacts
<1>6. AfterFold(h, r)[i] = F[i]
  BY <1>1, <1>2, <1>4, AfterFoldFacts
<1>7. e.left \in 0 .. Len(h) /\ e.right \in 0 .. Len(h) /\ e \in Nodes
  BY <1>1, <1>4, NodeFacts
<1> HIDE DEF F, V, e
<1>8. F[e.left] # Trap /\ F[e.right] # Trap /\ ~is_constant(F[0])
  BY <1>3, <1>5 DEF is_constant, Constant, Trap, Null
<1>9. o # 0 /\ o \in 1 .. Len(h)
  BY <1>1, <1>3, <1>7, <1>8
<1>10. F[i] = Collapse(e, F[e.left], F[e.right])
  BY <1>3, <1>4, <1>5, <1>8 DEF FoldNode, FoldBinary, e
<1>11. F[i].kind \in {"INT_LIT", "BOOL_LIT"}
  <2> DEFINE k == IF e.kind \in Arithmetic THEN "INT_LIT" ELSE "BOOL_LIT"
             v == Folded(e.kind, F[e.left].value, F[e.right].value)
  <2>1. F[i] = [e EXCEPT !.kind = k, !.value = v]
    BY <1>4, <1>10 DEF Collapse
  <2>2. k \in {"INT_LIT", "BOOL_LIT"}
    OBVIOUS
  <2> HIDE DEF k, v
  <2>3. [e EXCEPT !.kind = k, !.value = v].kind = k
    BY <1>7 DEF Nodes
  <2>4. QED
    BY <2>1, <2>2, <2>3
<1>12. o \in Operands(h[i])
  BY <1>3, <1>9 DEF Operands, e
<1>13. QED
  BY <1>4, <1>6, <1>9, <1>11, <1>12

\* The code generator does not come to what was freed, from what was not.
LEMMA FreedUnreached ==
  ASSUME NEW h, WellFormed(h), Apart(h), NEW r \in 1 .. Len(h), constant_fold_expr(h)[r] # Trap,
         NEW gone, gone = FreedIn(h, r)
  PROVE  \A k \in 0 .. Len(h) : k \notin gone => "freed" \notin Faults(AfterFold(h, r), gone)[k]
<1> DEFINE g == AfterFold(h, r)
           X == Faults(g, gone)
           Q == {k \in 0 .. Len(h) : k \notin gone => "freed" \notin X[k]}
<1>1. h \in Seq(Nodes) /\ Ordered(h) /\ Len(h) \in Nat
  BY LenProperties DEF WellFormed
<1>2. /\ g \in Seq(Nodes) /\ Ordered(g) /\ Len(g) = Len(h)
      /\ \A i \in 1 .. Len(h) : g[i].left = h[i].left /\ g[i].right = h[i].right /\ g[i].args = h[i].args
  BY AfterFoldFacts
<1>3. X = [i \in 0 .. Len(h) |-> NodeFaults(g, gone, X, i)]
  BY <1>2, FaultsUnfold
<1>4. \A o \in gone : \E i \in 1 .. Len(h) : o \in Operands(h[i]) /\ g[i].kind \in {"INT_LIT", "BOOL_LIT"}
  BY FreedBelowLiterals
<1> HIDE DEF g, X
<1>5. ASSUME NEW k \in 0 .. Len(h), \A j \in 0 .. k - 1 : j \in Q, k \notin gone PROVE "freed" \notin X[k]
  <2>1. X[k] = NodeFaults(g, gone, X, k)
    BY <1>3
  <2>2. CASE k = 0
    BY <2>1, <2>2 DEF NodeFaults
  <2>3. CASE k # 0
    <3> DEFINE e == g[k]
               below == X[e.left] \cup X[e.right] \cup UNION {X[e.args[n]] : n \in DOMAIN e.args}
               literal == e.kind \in {"BOOL_LIT", "CHAR_LIT", "INT_LIT", "STR_LIT", "ARRAY"}
    <3>1. k \in 1 .. Len(h) /\ k \in 1 .. Len(g)
      BY <1>1, <1>2, <2>3
    <3>2. /\ e.left \in 0 .. k - 1 /\ e.right \in 0 .. k - 1 /\ e.args \in Seq(1 .. k - 1)
          /\ Operands(e) = Operands(h[k])
      BY <1>2, <3>1 DEF Ordered, Operands
    <3>3. X[0] = {}
      BY <1>1, <1>3 DEF NodeFaults
    <3>4. ASSUME ~literal, NEW o \in 0 .. k - 1, o = 0 \/ o \in Operands(e) PROVE "freed" \notin X[o]
      <4>1. CASE o = 0
        BY <4>1, <3>3
      <4>2. CASE o # 0
        <5>1. o \in Operands(h[k])
          BY <3>2, <3>4, <4>2
        <5>2. ASSUME o \in gone PROVE FALSE
          <6>1. PICK i \in 1 .. Len(h) : o \in Operands(h[i]) /\ g[i].kind \in {"INT_LIT", "BOOL_LIT"}
            BY <1>4, <5>2
          <6>2. i = k
            BY <3>1, <5>1, <6>1 DEF Apart
          <6>3. QED
            BY <3>4, <6>1, <6>2
        <5>3. QED
          BY <1>5, <3>4, <5>2
      <4>3. QED
        BY <4>1, <4>2
    <3>5. ASSUME ~literal PROVE "freed" \notin below
      <4>1. \A n \in DOMAIN e.args : e.args[n] \in 1 .. k - 1
        BY <3>2
      <4>2. /\ e.left = 0 \/ e.left \in Operands(e)
            /\ e.right = 0 \/ e.right \in Operands(e)
            /\ \A n \in DOMAIN e.args : e.args[n] \in Operands(e)
        BY <4>1 DEF Operands
      <4>3. "freed" \notin X[e.left] /\ "freed" \notin X[e.right]
        BY <3>2, <3>4, <3>5, <4>2
      <4>4. \A n \in DOMAIN e.args : "freed" \notin X[e.args[n]]
        BY <3>4, <3>5, <4>1, <4>2
      <4>5. QED
        BY <4>3, <4>4
    <3> DEFINE own == (IF e.kind \in Boolean THEN {"address"} ELSE {})
                      \cup (IF e.kind = "FUN_CALL" THEN {"unset"} ELSE {})
    <3>6. X[k] = CASE e.kind \in {"BOOL_LIT", "CHAR_LIT", "INT_LIT"} -> IF e.value = 0 THEN {} ELSE {"address"}
                   [] e.kind = "STR_LIT" -> {}
                   [] e.kind \in {"EXP", "AND", "OR", "NOT", "ARRAY"} -> {"unset"}
                   [] OTHER -> (IF e.kind \in Boolean THEN {"address"} ELSE {})
                               \cup (IF e.kind = "FUN_CALL" THEN {"unset"} ELSE {})
                               \cup X[e.left] \cup X[e.right] \cup UNION {X[e.args[n]] : n \in DOMAIN e.args}
      BY <1>5, <2>1, <2>3, Zenon DEF NodeFaults
    <3>7. (IF e.kind \in Boolean THEN {"address"} ELSE {})
          \cup (IF e.kind = "FUN_CALL" THEN {"unset"} ELSE {})
          \cup X[e.left] \cup X[e.right] \cup UNION {X[e.args[n]] : n \in DOMAIN e.args}
            = own \cup below
      OBVIOUS
    <3> HIDE DEF below
    <3>8. literal => X[k] \in {{}, {"address"}, {"unset"}}
      BY <3>6
    <3>9. ~literal => X[k] \in {{"unset"}, own \cup below}
      BY <3>6, <3>7
    <3>10. QED
      BY <3>5, <3>8, <3>9
  <2>4. QED
    BY <2>2, <2>3
<1>6. 0 .. Len(h) \subseteq Q
  BY <1>1, <1>5, UpTo
<1>7. QED
  BY <1>6 DEF X, g

-----------------------------------------------------------------------------
(* The inductive invariant.                                                *)

\* The parser's nodes, and those on its stack: trees that have nothing in common.
Forest(h, s) ==
  /\ WellFormed(h) /\ Apart(h)
  /\ s \in Seq(1 .. Len(h))
  /\ \A k, l \in 1 .. Len(s) : s[k] = s[l] => k = l
  /\ \A k \in 1 .. Len(s), i \in 1 .. Len(h) : s[k] \notin Operands(h[i])
  /\ Len(h) <= MaxNodes
  /\ s # <<>> => Len(h) + Len(s) <= MaxNodes + 1

\* Each pass leaves what the one before it made, and what it has made of that.
IInv ==
  /\ phase \in Phases
  /\ phase = "parse" => Forest(node, stack) /\ freed = {} /\ errors = FALSE
  /\ phase \in {"checked", "trapped", "folded"} =>
       /\ Forest(parsed, stack) /\ Len(stack) = 1
       /\ ~expr_typecheck(parsed, {})[Root].crash
       /\ type = expr_typecheck(parsed, {})[Root].type
       /\ errors = expr_typecheck(parsed, {})[Root].error
  /\ phase \in {"checked", "trapped"} => node = parsed /\ freed = {}
  /\ phase = "trapped" => constant_fold_expr(parsed)[Root] = Trap
  /\ phase = "folded" =>
       /\ constant_fold_expr(parsed)[Root] # Trap
       /\ node = AfterFold(parsed, Root) /\ freed = FreedIn(parsed, Root)
  /\ phase \in {"generated", "crashed", "undefined"} =>
       node = <<>> /\ stack = <<>> /\ freed = {} /\ errors = FALSE

LEMMA OperandsBelow ==
  ASSUME NEW h \in Seq(Nodes), Ordered(h), NEW i \in 1 .. Len(h)
  PROVE  Operands(h[i]) \subseteq 1 .. i - 1
<1>1. h[i].left \in 0 .. i - 1 /\ h[i].right \in 0 .. i - 1 /\ h[i].args \in Seq(1 .. i - 1)
  BY DEF Ordered
<1>2. \A k \in DOMAIN h[i].args : h[i].args[k] \in 1 .. i - 1
  BY <1>1
<1>3. QED
  BY <1>1, <1>2 DEF Operands

\* A node that combines the last n on the stack takes their place.
LEMMA Grown ==
  ASSUME NEW h, NEW s, Forest(h, s), NEW n \in 0 .. Len(s), NEW e \in Nodes, Shaped(e),
         e.left \in 0 .. Len(h), e.right \in 0 .. Len(h), e.args \in Seq(1 .. Len(h)),
         \A o \in Operands(e) : \E k \in Len(s) - n + 1 .. Len(s) : o = s[k],
         Len(h) + 1 + Len(s) - n <= MaxNodes
  PROVE  Forest(Append(h, e), Append(SubSeq(s, 1, Len(s) - n), Len(h) + 1))
<1> DEFINE c == Len(h)
           m == Len(s) - n
           g == Append(h, e)
           u == SubSeq(s, 1, m)
           t == Append(u, c + 1)
<1>1. /\ h \in Seq(Nodes) /\ Ordered(h) /\ Apart(h) /\ c \in Nat
      /\ \A i \in 1 .. c : Shaped(h[i])
      /\ s \in Seq(1 .. c) /\ Len(s) \in Nat
      /\ \A k, l \in 1 .. Len(s) : s[k] = s[l] => k = l
      /\ \A k \in 1 .. Len(s), i \in 1 .. c : s[k] \notin Operands(h[i])
  BY LenProperties DEF Forest, WellFormed
<1>2. g \in Seq(Nodes) /\ Len(g) = c + 1 /\ g[c + 1] = e /\ \A i \in 1 .. c : g[i] = h[i]
  BY <1>1, AppendProperties
<1>3. /\ m \in Nat /\ m <= Len(s)
      /\ \A k \in 1 .. m : k \in 1 .. Len(s) /\ k # m + 1
      /\ \A k \in m + 1 .. Len(s) : k \in 1 .. Len(s) /\ k \notin 1 .. m
  <2>1. n \in Nat /\ n <= Len(s) /\ Len(s) \in Nat
    BY <1>1
  <2>2. QED
    BY <2>1
<1>4. u \in Seq(1 .. c) /\ Len(u) = m /\ \A k \in 1 .. m : u[k] = s[k] /\ s[k] \in 1 .. c
  <2>1. ASSUME NEW k \in 1 .. m PROVE s[k] \in 1 .. c
    <3>1. s \in Seq(1 .. c) /\ k \in 1 .. Len(s)
      BY <1>1, <1>3
    <3> HIDE DEF c, m
    <3>2. QED
      BY <3>1, ElementOfSeq
  <2>2. u \in Seq(1 .. c)
    BY <2>1, <1>3, SubSeqProperties
  <2>3. Len(u) = m /\ \A k \in 1 .. m : u[k] = s[k]
    BY <2>1, <1>3, SubSeqProperties
  <2>4. QED
    BY <2>1, <2>2, <2>3
<1>5. /\ t \in Seq(1 .. c + 1) /\ Len(t) = m + 1 /\ t[m + 1] = c + 1
      /\ \A k \in 1 .. m : t[k] = s[k]
  <2>1. 1 .. c \subseteq 1 .. c + 1 /\ c + 1 \in 1 .. c + 1
    BY <1>1
  <2> HIDE DEF u, c, m
  <2>2. u \in Seq(1 .. c + 1)
    BY <2>1, <1>4, SeqMonotonic
  <2>3. t \in Seq(1 .. c + 1) /\ Len(t) = m + 1 /\ t[m + 1] = c + 1 /\ \A k \in 1 .. m : t[k] = u[k]
    <3>1. Len(u) = m /\ m \in Nat
      BY <1>3, <1>4
    <3>2. QED
      BY <2>1, <2>2, <3>1, AppendProperties
  <2>4. QED
    BY <2>3, <1>4
<1> HIDE DEF g, u, t, c, m
<1>6. \A i \in 1 .. c + 1 : i \in 1 .. c \/ i = c + 1
  BY <1>1
<1>7. Ordered(g)
  <2>1. ASSUME NEW i \in 1 .. c + 1
        PROVE  g[i].left \in 0 .. i - 1 /\ g[i].right \in 0 .. i - 1 /\ g[i].args \in Seq(1 .. i - 1)
    <3>1. CASE i \in 1 .. c
      BY <3>1, <1>1, <1>2 DEF Ordered, c
    <3>2. CASE i = c + 1
      <4>1. i - 1 = c
        BY <3>2, <1>1
      <4>2. QED
        BY <3>2, <4>1, <1>2 DEF c
    <3>3. QED
      BY <1>6, <3>1, <3>2
  <2>2. QED
    BY <2>1, <1>2 DEF Ordered
<1>8. \A i \in 1 .. c + 1 : Shaped(g[i])
  BY <1>1, <1>2, <1>6
<1>9. \A o \in Operands(e) : \E k \in m + 1 .. Len(s) : o = s[k]
  BY DEF m
<1>10. ASSUME NEW i \in 1 .. c, NEW o \in Operands(e) PROVE o \notin Operands(h[i])
  <2>1. PICK k \in m + 1 .. Len(s) : o = s[k]
    BY <1>9
  <2>2. k \in 1 .. Len(s)
    BY <1>3
  <2>3. QED
    BY <1>1, <2>1, <2>2
<1>11. Apart(g)
  <2>1. ASSUME NEW i \in 1 .. c + 1, NEW j \in 1 .. c + 1, NEW o \in Operands(g[i]), o \in Operands(g[j])
        PROVE  i = j
    <3>1. CASE i \in 1 .. c /\ j \in 1 .. c
      BY <3>1, <2>1, <1>1, <1>2 DEF Apart, c
    <3>2. CASE i = c + 1 \/ j = c + 1
      BY <3>2, <2>1, <1>2, <1>6, <1>10
    <3>3. QED
      BY <1>6, <3>1, <3>2
  <2>2. QED
    BY <2>1, <1>2 DEF Apart
<1>12. \A k \in 1 .. m + 1 : k \in 1 .. m \/ k = m + 1
  BY <1>3
<1>13. \A k \in 1 .. m : k \in 1 .. Len(s) /\ t[k] = s[k] /\ s[k] \in 1 .. c /\ s[k] # c + 1
  <2>1. \A o \in 1 .. c : o # c + 1
    BY <1>1
  <2>2. QED
    BY <2>1, <1>3, <1>4, <1>5
<1>14. ASSUME NEW k \in 1 .. m + 1, NEW l \in 1 .. m + 1, t[k] = t[l] PROVE k = l
  <2>1. CASE k \in 1 .. m /\ l \in 1 .. m
    BY <2>1, <1>14, <1>1, <1>13
  <2>2. CASE k = m + 1 \/ l = m + 1
    BY <2>2, <1>5, <1>12, <1>13, <1>14
  <2>3. QED
    BY <1>12, <2>1, <2>2
<1>15. ASSUME NEW k \in 1 .. m + 1, NEW i \in 1 .. c + 1 PROVE t[k] \notin Operands(g[i])
  <2>1. CASE k \in 1 .. m /\ i \in 1 .. c
    BY <2>1, <1>1, <1>2, <1>13
  <2>2. CASE k \in 1 .. m /\ i = c + 1
    <3>1. ASSUME s[k] \in Operands(e) PROVE FALSE
      <4>1. PICK l \in m + 1 .. Len(s) : s[k] = s[l]
        BY <1>9, <3>1
      <4>2. k \in 1 .. Len(s) /\ l \in 1 .. Len(s) /\ k # l
        BY <1>3, <2>2
      <4>3. QED
        BY <1>1, <4>1, <4>2
    <3>2. QED
      BY <2>2, <3>1, <1>2, <1>13
  <2>3. CASE k = m + 1
    <3>1. Operands(g[i]) \subseteq 1 .. i - 1
      BY <1>2, <1>7, OperandsBelow
    <3>2. c + 1 \notin 1 .. i - 1
      BY <1>1
    <3>3. QED
      BY <2>3, <3>1, <3>2, <1>5
  <2>4. QED
    BY <1>6, <1>12, <2>1, <2>2, <2>3
<1>16. c + 1 <= MaxNodes /\ (c + 1) + (m + 1) <= MaxNodes + 1
  <2>1. c + 1 + Len(s) - n <= MaxNodes
    BY DEF c
  <2>2. n \in Nat /\ n <= Len(s) /\ m = Len(s) - n
    BY <1>1 DEF m
  <2>3. QED
    BY <2>1, <2>2, <1>1, ExpressionsAssumption
<1>17. WellFormed(g)
  BY <1>2, <1>7, <1>8 DEF WellFormed
<1>18. Forest(g, t)
  BY <1>2, <1>5, <1>11, <1>14, <1>15, <1>16, <1>17 DEF Forest
<1>19. QED
  BY <1>18 DEF g, t, u, m, c

-----------------------------------------------------------------------------
(* What the parser makes.                                                  *)

LEMMA MadeNode ==
  ASSUME NEW kind \in Kinds, NEW l \in Nat, NEW r \in Nat
  PROVE  LET e == Node(kind, l, r)
         IN  /\ e \in Nodes /\ e.kind = kind /\ e.left = l /\ e.right = r /\ e.args = <<>>
             /\ Operands(e) = {l, r} \ {0}
<1> DEFINE e == Node(kind, l, r)
<1>1. 0 \in Ints
  BY ExpressionsAssumption DEF Ints
<1>2. <<>> \in Seq(Nat) /\ DOMAIN <<>> = {}
  OBVIOUS
<1>3. e \in Nodes /\ e.kind = kind /\ e.left = l /\ e.right = r /\ e.args = <<>>
  BY <1>1, <1>2 DEF Node, Nodes
<1> HIDE DEF e
<1>4. Operands(e) = {l, r} \ {0}
  BY <1>2, <1>3 DEF Operands
<1>5. QED
  BY <1>3, <1>4 DEF e

LEMMA MadeLiteral ==
  ASSUME NEW kind \in Constant, NEW v \in Ints
  PROVE  LET e == Literal(kind, v)
         IN  /\ e \in Nodes /\ e.kind = kind /\ e.left = 0 /\ e.right = 0 /\ e.value = v
             /\ e.args = <<>> /\ Operands(e) = {}
<1> DEFINE e == Literal(kind, v)
<1>1. kind \in Kinds /\ <<>> \in Seq(Nat) /\ DOMAIN <<>> = {}
  BY DEF Kinds
<1>2. /\ e \in Nodes /\ e.kind = kind /\ e.left = 0 /\ e.right = 0 /\ e.value = v
      /\ e.args = <<>>
  BY <1>1 DEF Literal, Node, Nodes
<1> HIDE DEF e
<1>3. Operands(e) = {}
  BY <1>1, <1>2 DEF Operands
<1>4. QED
  BY <1>2, <1>3 DEF e

LEMMA MadeIdent ==
  ASSUME NEW t \in Identifiers \cup {NoType}
  PROVE  LET e == Ident(t)
         IN  /\ e \in Nodes /\ e.kind = "IDENT" /\ e.left = 0 /\ e.right = 0
             /\ e.args = <<>> /\ Operands(e) = {}
<1> DEFINE e == Ident(t)
<1>1. "IDENT" \in Kinds /\ <<>> \in Seq(Nat) /\ DOMAIN <<>> = {} /\ 0 \in Ints
  BY ExpressionsAssumption DEF Kinds, Ints
<1>2. e \in Nodes /\ e.kind = "IDENT" /\ e.left = 0 /\ e.right = 0 /\ e.args = <<>>
  BY <1>1 DEF Ident, Node, Nodes
<1> HIDE DEF e
<1>3. Operands(e) = {}
  BY <1>1, <1>2 DEF Operands
<1>4. QED
  BY <1>2, <1>3 DEF e

LEMMA MadeCall ==
  ASSUME NEW l \in Nat, NEW args \in Seq(Nat)
  PROVE  LET e == [Node("FUN_CALL", l, 0) EXCEPT !.args = args]
         IN  /\ e \in Nodes /\ e.kind = "FUN_CALL" /\ e.left = l /\ e.right = 0 /\ e.args = args
<1>1. "FUN_CALL" \in Kinds /\ 0 \in Ints
  BY ExpressionsAssumption DEF Kinds, Ints
<1>2. QED
  BY <1>1 DEF Node, Nodes

-----------------------------------------------------------------------------
(* The parser's steps.                                                     *)

\* While parsing, what the passes leave is not there yet.
LEMMA Parsed ==
  ASSUME IInv, phase = "parse", UNCHANGED <<phase, freed, parsed, type, errors>>, Forest(node', stack')
  PROVE  IInv'
BY DEF IInv, Phases

\* What is on the stack: nodes.
LEMMA TopFacts ==
  ASSUME Forest(node, stack), NEW n \in 1 .. Len(stack)
  PROVE  Len(stack) - n + 1 \in 1 .. Len(stack) /\ Top(n) = stack[Len(stack) - n + 1] /\ Top(n) \in 1 .. Len(node)
<1>1. stack \in Seq(1 .. Len(node)) /\ Len(stack) \in Nat
  BY LenProperties DEF Forest
<1>2. Len(stack) - n + 1 \in 1 .. Len(stack)
  BY <1>1
<1>3. stack[Len(stack) - n + 1] \in 1 .. Len(node)
  BY <1>1, <1>2, ElementOfSeq
<1>4. QED
  BY <1>2, <1>3 DEF Top

LEMMA Combined ==
  ASSUME IInv, phase = "parse", NEW n \in 0 .. Len(stack), NEW e \in Nodes, Reduce(n, e), Shaped(e),
         e.left \in 0 .. Len(node), e.right \in 0 .. Len(node), e.args \in Seq(1 .. Len(node)),
         \A o \in Operands(e) : \E k \in 1 .. n : o = Top(k),
         HasRoomFor(n)
  PROVE  IInv'
<1>1. Forest(node, stack) /\ Len(stack) \in Nat
  BY LenProperties DEF IInv, Forest
<1>2. ASSUME NEW o \in Operands(e) PROVE \E k \in Len(stack) - n + 1 .. Len(stack) : o = stack[k]
  <2>1. PICK k \in 1 .. n : o = Top(k)
    OBVIOUS
  <2>2. Len(stack) - k + 1 \in Len(stack) - n + 1 .. Len(stack)
    BY <1>1
  <2>3. QED
    BY <2>1, <2>2 DEF Top
<1>3. Forest(Append(node, e), Append(SubSeq(stack, 1, Len(stack) - n), Len(node) + 1))
  BY <1>1, <1>2, Grown DEF HasRoomFor
<1>4. Forest(node', stack') /\ UNCHANGED <<phase, freed, parsed, type, errors>>
  BY <1>3 DEF Reduce
<1>5. QED
  BY <1>4, Parsed

\* An operator on the last one or two on the stack.
LEMMA Operator ==
  ASSUME IInv, phase = "parse", NEW n \in {1, 2}, n <= Len(stack), NEW kind \in Kinds \ {"BOOL_LIT"},
         NEW l \in {0, Top(n)}, NEW r \in {0, Top(1)}, Reduce(n, Node(kind, l, r)), HasRoomFor(n),
         Shaped(Node(kind, l, r))
  PROVE  IInv'
<1>1. Forest(node, stack) /\ Len(stack) \in Nat /\ Len(node) \in Nat
  BY LenProperties DEF IInv, Forest, WellFormed
<1>2. n \in 1 .. Len(stack) /\ 1 \in 1 .. Len(stack) /\ n \in 0 .. Len(stack)
  BY <1>1
<1>3. Top(n) \in 1 .. Len(node) /\ Top(1) \in 1 .. Len(node)
  BY <1>1, <1>2, TopFacts
<1>4. l \in 0 .. Len(node) /\ r \in 0 .. Len(node) /\ l \in Nat /\ r \in Nat
  BY <1>1, <1>3
<1> DEFINE e == Node(kind, l, r)
<1>5. e \in Nodes /\ e.left = l /\ e.right = r /\ e.args = <<>> /\ Operands(e) = {l, r} \ {0}
  BY <1>4, MadeNode
<1>6. Reduce(n, e) /\ Shaped(e)
  OBVIOUS
<1> HIDE DEF e
<1>7. \A o \in Operands(e) : \E k \in 1 .. n : o = Top(k)
  BY <1>5
<1>8. <<>> \in Seq(1 .. Len(node))
  OBVIOUS
<1>9. QED
  BY <1>2, <1>4, <1>5, <1>6, <1>7, <1>8, Combined

\* Two are taken and one is put back: there is room.
LEMMA RoomForTwo ==
  ASSUME Forest(node, stack), Len(stack) >= 2
  PROVE  HasRoomFor(2)
<1>1. Len(stack) \in Nat /\ Len(node) \in Nat /\ stack # <<>>
  BY LenProperties DEF Forest, WellFormed
<1>2. Len(node) + Len(stack) <= MaxNodes + 1 /\ MaxNodes \in Nat
  BY <1>1, ExpressionsAssumption DEF Forest
<1>3. QED
  BY <1>1, <1>2 DEF HasRoomFor

\* An item that becomes the array's node still has what it had below it: nothing.
LEMMA Rekinded ==
  ASSUME NEW h, NEW s, Forest(h, s), NEW i \in 1 .. Len(h)
  PROVE  Forest([h EXCEPT ![i].kind = "ARRAY", ![i].symbol = NoType], s)
<1> DEFINE e == [h[i] EXCEPT !.kind = "ARRAY", !.symbol = NoType]
           g == [h EXCEPT ![i] = e]
<1>1. h \in Seq(Nodes) /\ Ordered(h) /\ Apart(h) /\ Len(h) \in Nat /\ \A j \in 1 .. Len(h) : Shaped(h[j])
  BY LenProperties DEF Forest, WellFormed
<1>2. h[i] \in Nodes /\ "ARRAY" \in Kinds
  BY <1>1, ElementOfSeq DEF Kinds, Constant
<1>3. e \in Nodes /\ e.kind = "ARRAY" /\ e.left = h[i].left /\ e.right = h[i].right /\ e.args = h[i].args
  BY <1>2 DEF Nodes
<1>4. [h EXCEPT ![i].kind = "ARRAY", ![i].symbol = NoType] = g
  OBVIOUS
<1> HIDE DEF e
<1>5. g \in Seq(Nodes) /\ Len(g) = Len(h) /\ \A j \in 1 .. Len(h) : g[j] = IF j = i THEN e ELSE h[j]
  BY <1>1, <1>3, ExceptSeq
<1> HIDE DEF g
<1>6. \A j \in 1 .. Len(h) : /\ g[j].left = h[j].left /\ g[j].right = h[j].right /\ g[j].args = h[j].args
                             /\ Operands(g[j]) = Operands(h[j])
  BY <1>3, <1>5 DEF Operands
<1>7. Shaped(e)
  BY <1>3 DEF Shaped, Arithmetic, Boolean
<1>8. WellFormed(g)
  BY <1>1, <1>5, <1>6, <1>7 DEF WellFormed, Ordered
<1>9. Apart(g)
  BY <1>1, <1>5, <1>6 DEF Apart
<1>10. Forest(g, s)
  BY <1>5, <1>6, <1>8, <1>9 DEF Forest
<1>11. QED
  BY <1>4, <1>10

LEMMA ParsingFacts ==
  ASSUME IInv, NEW n \in Nat, Parsing(n)
  PROVE  /\ phase = "parse" /\ n \in 0 .. Len(stack) /\ Forest(node, stack)
         /\ Len(stack) \in Nat /\ Len(node) \in Nat
BY LenProperties DEF IInv, Parsing, Forest, WellFormed

LEMMA LeafStep ==
  ASSUME IInv, Leaf
  PROVE  IInv'
<1>1. phase = "parse" /\ 0 \in 0 .. Len(stack) /\ Forest(node, stack) /\ Len(node) \in Nat /\ HasRoomFor(0)
  BY ParsingFacts DEF Leaf
<1>2. PICK e : /\ Reduce(0, e)
               /\ \/ \E v \in Literals : e = Literal("INT_LIT", v)
                  \/ \E v \in {0, 1} : e = Literal("BOOL_LIT", v)
                  \/ \E kind \in {"CHAR_LIT", "STR_LIT"} : e = Literal(kind, 0)
                  \/ \E t \in Identifiers \cup {NoType} : e = Ident(t)
  BY DEF Leaf
<1>3. Literals \subseteq Ints /\ {0, 1} \subseteq Ints
  BY ExpressionsAssumption DEF Ints
<1>4. /\ e \in Nodes /\ e.left = 0 /\ e.right = 0 /\ e.args = <<>> /\ Operands(e) = {}
      /\ e.kind \in {"INT_LIT", "CHAR_LIT", "STR_LIT", "IDENT"} \/ (e.kind = "BOOL_LIT" /\ e.value \in {0, 1})
  <2>1. CASE \E v \in Literals : e = Literal("INT_LIT", v)
    BY <2>1, <1>3, MadeLiteral DEF Constant
  <2>2. CASE \E v \in {0, 1} : e = Literal("BOOL_LIT", v)
    BY <2>2, <1>3, MadeLiteral DEF Constant
  <2>3. CASE \E kind \in {"CHAR_LIT", "STR_LIT"} : e = Literal(kind, 0)
    BY <2>3, <1>3, MadeLiteral DEF Constant
  <2>4. CASE \E t \in Identifiers \cup {NoType} : e = Ident(t)
    BY <2>4, MadeIdent
  <2>5. QED
    BY <1>2, <2>1, <2>2, <2>3, <2>4
<1>5. Shaped(e)
  BY <1>4 DEF Shaped, Arithmetic, Boolean
<1>6. <<>> \in Seq(1 .. Len(node)) /\ 0 \in 0 .. Len(node)
  BY <1>1
<1>7. QED
  BY <1>1, <1>2, <1>4, <1>5, <1>6, Combined

LEMMA BinaryStep ==
  ASSUME IInv, Binary
  PROVE  IInv'
<1>1. phase = "parse" /\ Forest(node, stack) /\ Len(stack) \in Nat /\ Len(stack) >= 2
  BY ParsingFacts DEF Binary, Parsing
<1>2. PICK op \in Arithmetic \cup Boolean : Reduce(2, Node(op, Top(2), Top(1)))
  BY DEF Binary
<1>3. Top(2) \in 1 .. Len(node) /\ Top(1) \in 1 .. Len(node) /\ Len(node) \in Nat
  BY <1>1, TopFacts, LenProperties DEF Forest, WellFormed
<1>4. op \in Kinds \ {"BOOL_LIT"} /\ op # "NOT"
  BY DEF Kinds, Arithmetic, Boolean
<1>5. /\ Node(op, Top(2), Top(1)).kind = op
      /\ Node(op, Top(2), Top(1)).left = Top(2) /\ Node(op, Top(2), Top(1)).right = Top(1)
  BY <1>3, <1>4, MadeNode
<1>6. Shaped(Node(op, Top(2), Top(1)))
  BY <1>3, <1>4, <1>5 DEF Shaped
<1>7. HasRoomFor(2)
  BY <1>1, RoomForTwo
<1>8. QED
  BY <1>1, <1>2, <1>4, <1>6, <1>7, Operator

LEMMA NotStep ==
  ASSUME IInv, Not
  PROVE  IInv'
<1>1. phase = "parse" /\ Forest(node, stack) /\ Len(stack) \in Nat /\ Len(stack) >= 1
  BY ParsingFacts DEF Not, Parsing
<1>2. Reduce(1, Node("NOT", Top(1), 0)) /\ HasRoomFor(1)
  BY DEF Not
<1>3. Top(1) \in 1 .. Len(node) /\ Len(node) \in Nat
  BY <1>1, TopFacts, LenProperties DEF Forest, WellFormed
<1>4. "NOT" \in Kinds \ {"BOOL_LIT"}
  BY DEF Kinds
<1>5. /\ Node("NOT", Top(1), 0).kind = "NOT"
      /\ Node("NOT", Top(1), 0).left = Top(1) /\ Node("NOT", Top(1), 0).right = 0
  BY <1>3, <1>4, MadeNode
<1>6. Shaped(Node("NOT", Top(1), 0))
  BY <1>3, <1>5 DEF Shaped, Arithmetic, Boolean
<1>7. QED
  BY <1>1, <1>2, <1>4, <1>6, Operator

LEMMA NegateStep ==
  ASSUME IInv, Negate
  PROVE  IInv'
<1>1. phase = "parse" /\ Forest(node, stack) /\ Len(stack) \in Nat /\ Len(stack) >= 1
  BY ParsingFacts DEF Negate, Parsing
<1>2. Reduce(1, Node("SUB", 0, Top(1))) /\ HasRoomFor(1)
  BY DEF Negate
<1>3. Top(1) \in 1 .. Len(node) /\ Len(node) \in Nat
  BY <1>1, TopFacts, LenProperties DEF Forest, WellFormed
<1>4. "SUB" \in Kinds \ {"BOOL_LIT"}
  BY DEF Kinds, Arithmetic
<1>5. /\ Node("SUB", 0, Top(1)).kind = "SUB"
      /\ Node("SUB", 0, Top(1)).left = 0 /\ Node("SUB", 0, Top(1)).right = Top(1)
  BY <1>3, <1>4, MadeNode
<1>6. Shaped(Node("SUB", 0, Top(1)))
  BY <1>3, <1>5 DEF Shaped
<1>7. QED
  BY <1>1, <1>2, <1>4, <1>6, Operator

LEMMA IncDecStep ==
  ASSUME IInv, IncDec
  PROVE  IInv'
<1>1. phase = "parse" /\ Forest(node, stack) /\ Len(stack) \in Nat /\ Len(stack) >= 1
  BY ParsingFacts DEF IncDec, Parsing
<1>2. PICK op \in {"INC", "DEC"} : Reduce(1, Node(op, Top(1), 0)) /\ HasRoomFor(1)
  BY DEF IncDec
<1>3. Top(1) \in 1 .. Len(node) /\ Len(node) \in Nat
  BY <1>1, TopFacts, LenProperties DEF Forest, WellFormed
<1>4. op \in Kinds \ {"BOOL_LIT"}
  BY DEF Kinds
<1>5. Node(op, Top(1), 0).kind = op
  BY <1>3, <1>4, MadeNode
<1>6. Shaped(Node(op, Top(1), 0))
  BY <1>5 DEF Shaped, Arithmetic, Boolean
<1>7. QED
  BY <1>1, <1>2, <1>4, <1>6, Operator

\* Assign and Index
LEMMA ToIdentStep ==
  ASSUME IInv, Assign \/ Index
  PROVE  IInv'
<1>1. phase = "parse" /\ Forest(node, stack) /\ Len(stack) \in Nat /\ Len(stack) >= 2
  BY ParsingFacts DEF Assign, Index, Parsing
<1>2. PICK op \in {"ASSIGN", "INDEX"} : Reduce(2, Node(op, Top(2), Top(1)))
  BY DEF Assign, Index
<1>3. Top(2) \in 1 .. Len(node) /\ Top(1) \in 1 .. Len(node) /\ Len(node) \in Nat
  BY <1>1, TopFacts, LenProperties DEF Forest, WellFormed
<1>4. op \in Kinds \ {"BOOL_LIT"}
  BY DEF Kinds
<1>5. Node(op, Top(2), Top(1)).kind = op
  BY <1>3, <1>4, MadeNode
<1>6. Shaped(Node(op, Top(2), Top(1)))
  BY <1>5 DEF Shaped, Arithmetic, Boolean
<1>7. HasRoomFor(2)
  BY <1>1, RoomForTwo
<1>8. QED
  BY <1>1, <1>2, <1>4, <1>6, <1>7, Operator

LEMMA CallStep ==
  ASSUME IInv, Call
  PROVE  IInv'
<1>1. PICK n \in 0 .. Len(stack) - 1 :
        LET args == SubSeq(stack, Len(stack) - n + 1, Len(stack))
        IN  /\ Parsing(n + 1) /\ HasRoomFor(n + 1)
            /\ Reduce(n + 1, [Node("FUN_CALL", Top(n + 1), 0) EXCEPT !.args = args])
  BY DEF Call
<1> DEFINE args == SubSeq(stack, Len(stack) - n + 1, Len(stack))
           l == Top(n + 1)
           e == [Node("FUN_CALL", l, 0) EXCEPT !.args = args]
<1>2. Parsing(n + 1) /\ HasRoomFor(n + 1) /\ Reduce(n + 1, e) /\ n \in Nat
  BY <1>1
<1>3. /\ phase = "parse" /\ n + 1 \in 0 .. Len(stack) /\ Forest(node, stack)
      /\ Len(stack) \in Nat /\ Len(node) \in Nat
  BY <1>2, ParsingFacts
<1>4. ASSUME NEW k \in 1 .. n + 1
      PROVE  Top(k) \in 1 .. Len(node) /\ Top(k) = stack[Len(stack) - k + 1]
  <2>1. k \in 1 .. Len(stack)
    BY <1>2, <1>3
  <2>2. QED
    BY <1>3, <2>1, TopFacts
<1>5. \A k \in Len(stack) - n + 1 .. Len(stack) :
        Len(stack) - k + 1 \in 1 .. n + 1 /\ k = Len(stack) - (Len(stack) - k + 1) + 1
  <2>1. Len(stack) \in Nat /\ n \in Nat
    BY <1>2, <1>3
  <2> HIDE DEF args, l
  <2>2. QED
    BY <2>1
<1>6. \A k \in Len(stack) - n + 1 .. Len(stack) : stack[k] \in 1 .. Len(node)
  BY <1>4, <1>5
<1>7. Len(stack) - n + 1 \in Int /\ Len(stack) \in Int
  BY <1>2, <1>3
<1> HIDE DEF l
<1>8. args \in Seq(1 .. Len(node))
  BY <1>6, <1>7, SubSeqProperties
<1>9. /\ Len(args) = n
      /\ \A k \in 1 .. n : args[k] = stack[Len(stack) - n + k]
  <2>1. /\ Len(args) = IF Len(stack) - n + 1 <= Len(stack) THEN Len(stack) - (Len(stack) - n + 1) + 1 ELSE 0
        /\ \A k \in 1 .. Len(stack) - (Len(stack) - n + 1) + 1 : args[k] = stack[(Len(stack) - n + 1) + k - 1]
    BY <1>6, <1>7, SubSeqProperties
  <2> HIDE DEF args
  <2>2. QED
    BY <2>1, <1>2, <1>3
<1>10. l \in 1 .. Len(node) /\ l = Top(n + 1)
  BY <1>4, <1>2 DEF l
<1>11. args \in Seq(Nat) /\ l \in Nat
  <2>1. 1 .. Len(node) \subseteq Nat
    BY <1>3
  <2> HIDE DEF args
  <2>2. QED
    BY <2>1, <1>8, <1>10, SeqMonotonic
<1> HIDE DEF args
<1>12. e \in Nodes /\ e.kind = "FUN_CALL" /\ e.left = l /\ e.right = 0 /\ e.args = args
  BY <1>11, MadeCall
<1> HIDE DEF e
<1>13. Shaped(e)
  BY <1>12 DEF Shaped, Arithmetic, Boolean
<1>14. ASSUME NEW o \in Operands(e) PROVE \E k \in 1 .. n + 1 : o = Top(k)
  <2>1. CASE o = l
    BY <2>1, <1>2, <1>10
  <2>2. CASE o # l
    <3>1. PICK k \in DOMAIN args : o = args[k]
      BY <2>2, <1>12 DEF Operands
    <3>2. k \in 1 .. n
      BY <1>8, <1>9, LenProperties
    <3>3. n - k + 1 \in 1 .. n + 1 /\ Len(stack) - n + k = Len(stack) - (n - k + 1) + 1
      BY <1>2, <1>3, <3>2
    <3>4. QED
      BY <1>4, <1>9, <3>1, <3>2, <3>3
  <2>3. QED
    BY <2>1, <2>2
<1>15. l \in 0 .. Len(node) /\ 0 \in 0 .. Len(node)
  BY <1>3, <1>10
<1>16. QED
  BY <1>2, <1>3, <1>8, <1>12, <1>13, <1>14, <1>15, Combined

LEMMA ArrayStep ==
  ASSUME IInv, Array
  PROVE  IInv'
<1>1. phase = "parse" /\ Forest(node, stack) /\ Len(stack) \in Nat /\ Len(stack) >= 1
  BY ParsingFacts DEF Array, Parsing
<1>2. Top(1) \in 1 .. Len(node)
  BY <1>1, TopFacts
<1>3. Forest([node EXCEPT ![Top(1)].kind = "ARRAY", ![Top(1)].symbol = NoType], stack)
  BY <1>1, <1>2, Rekinded
<1>4. Forest(node', stack') /\ UNCHANGED <<phase, freed, parsed, type, errors>>
  BY <1>3 DEF Array
<1>5. QED
  BY <1>1, <1>4, Parsed

-----------------------------------------------------------------------------
(* The passes' steps.                                                      *)

\* The whole expression is a node.
LEMMA RootFacts ==
  ASSUME NEW h, Forest(h, stack), Len(stack) = 1
  PROVE  WellFormed(h) /\ Apart(h) /\ Len(h) \in Nat /\ Root \in 1 .. Len(h) /\ Root = stack[1]
<1>1. stack \in Seq(1 .. Len(h)) /\ 1 \in 1 .. Len(stack) /\ Len(stack) - 1 + 1 = 1
  BY DEF Forest
<1>2. stack[1] \in 1 .. Len(h)
  BY <1>1, ElementOfSeq
<1>3. Root = stack[1]
  BY <1>1 DEF Root, Top
<1>4. QED
  BY <1>2, <1>3, LenProperties DEF Forest, WellFormed

LEMMA RootKept ==
  ASSUME stack' = stack
  PROVE  Root' = Root
BY DEF Root, Top

LEMMA Finished ==
  ASSUME NEW how \in {"generated", "crashed", "undefined"}, Finish(how)
  PROVE  IInv'
BY DEF Finish, IInv, Phases

LEMMA TypecheckStep ==
  ASSUME IInv, Typecheck
  PROVE  IInv'
<1> DEFINE v == expr_typecheck(node, freed)[Root]
<1>1. CASE Finish("crashed") \/ Finish("undefined")
  BY <1>1, Finished
<1>2. CASE /\ ~v.crash
           /\ phase' = "checked" /\ parsed' = node /\ type' = v.type /\ errors' = v.error
           /\ UNCHANGED <<node, stack, freed>>
  <2>1. Forest(node, stack) /\ freed = {} /\ Len(stack) = 1
    BY DEF Typecheck, Parsing, IInv
  <2>2. v = expr_typecheck(parsed', {})[Root']
    BY <1>2, <2>1, RootKept
  <2> HIDE DEF v
  <2>3. /\ ~expr_typecheck(parsed', {})[Root'].crash
        /\ type' = expr_typecheck(parsed', {})[Root'].type
        /\ errors' = expr_typecheck(parsed', {})[Root'].error
    BY <1>2, <2>2
  <2>4. Forest(parsed', stack') /\ Len(stack') = 1 /\ node' = parsed' /\ freed' = {}
    BY <1>2, <2>1
  <2>5. QED
    BY <1>2, <2>3, <2>4 DEF IInv, Phases
<1>3. QED
  BY <1>1, <1>2 DEF Typecheck

LEMMA ConstantFoldStep ==
  ASSUME IInv, ConstantFold
  PROVE  IInv'
<1>1. phase = "checked" /\ UNCHANGED <<stack, parsed, type, errors>>
  BY DEF ConstantFold
<1>2. /\ Forest(parsed, stack) /\ Len(stack) = 1 /\ node = parsed /\ freed = {}
      /\ ~expr_typecheck(parsed, {})[Root].crash
      /\ type = expr_typecheck(parsed, {})[Root].type
      /\ errors = expr_typecheck(parsed, {})[Root].error
  BY <1>1 DEF IInv
<1>3. Root' = Root
  BY <1>1, RootKept
<1>4. /\ Forest(parsed', stack') /\ Len(stack') = 1
      /\ ~expr_typecheck(parsed', {})[Root'].crash
      /\ type' = expr_typecheck(parsed', {})[Root'].type
      /\ errors' = expr_typecheck(parsed', {})[Root'].error
  BY <1>1, <1>2, <1>3
<1>5. CASE constant_fold_expr(node)[Root] = Trap
  <2>1. phase' = "trapped" /\ node' = node /\ freed' = freed
    BY <1>5 DEF ConstantFold
  <2>2. node' = parsed' /\ freed' = {} /\ constant_fold_expr(parsed')[Root'] = Trap
    BY <1>1, <1>2, <1>3, <1>5, <2>1
  <2>3. QED
    BY <1>4, <2>1, <2>2 DEF IInv, Phases
<1>6. CASE constant_fold_expr(node)[Root] # Trap
  <2>1. phase' = "folded" /\ node' = AfterFold(node, Root) /\ freed' = FreedIn(node, Root)
    BY <1>6 DEF ConstantFold, AfterFold, FreedIn
  <2>2. /\ constant_fold_expr(parsed')[Root'] # Trap
        /\ node' = AfterFold(parsed', Root') /\ freed' = FreedIn(parsed', Root')
    BY <1>1, <1>2, <1>3, <1>6, <2>1
  <2>3. QED
    BY <1>4, <2>1, <2>2 DEF IInv, Phases
<1>7. QED
  BY <1>5, <1>6

LEMMA OutputStep ==
  ASSUME IInv, PrintStatement \/ Generate
  PROVE  IInv'
<1>1. \A faults : expr_codegen(faults) \subseteq {"generated", "undefined"}
  BY DEF expr_codegen
<1>2. \E how \in {"generated", "crashed", "undefined"} : Finish(how)
  BY <1>1 DEF PrintStatement, Generate
<1>3. QED
  BY <1>2, Finished

LEMMA Stutter ==
  ASSUME IInv, UNCHANGED vars
  PROVE  IInv'
<1>1. UNCHANGED <<node, stack, phase, freed, parsed, type, errors>> /\ Root' = Root
  BY RootKept DEF vars
<1>2. QED
  BY <1>1 DEF IInv

-----------------------------------------------------------------------------
(* The invariant holds.                                                    *)

LEMMA Initially ==
  ASSUME Init
  PROVE  IInv
<1>1. /\ <<>> \in Seq(Nodes) /\ Len(<<>>) = 0 /\ 1 .. 0 = {} /\ <<>> \in Seq(1 .. 0)
      /\ MaxNodes \in Nat
  BY ExpressionsAssumption
<1>2. WellFormed(<<>>) /\ Apart(<<>>)
  BY <1>1 DEF WellFormed, Ordered, Apart
<1>3. Forest(<<>>, <<>>)
  BY <1>1, <1>2 DEF Forest
<1>4. QED
  BY <1>3 DEF Init, IInv, Phases

LEMMA Inductive ==
  ASSUME IInv, [Next]_vars
  PROVE  IInv'
<1>1. CASE Leaf
  BY <1>1, LeafStep
<1>2. CASE Binary
  BY <1>2, BinaryStep
<1>3. CASE Not
  BY <1>3, NotStep
<1>4. CASE Negate
  BY <1>4, NegateStep
<1>5. CASE IncDec
  BY <1>5, IncDecStep
<1>6. CASE Assign \/ Index
  BY <1>6, ToIdentStep
<1>7. CASE Call
  BY <1>7, CallStep
<1>8. CASE Array
  BY <1>8, ArrayStep
<1>9. CASE Typecheck
  BY <1>9, TypecheckStep
<1>10. CASE ConstantFold
  BY <1>10, ConstantFoldStep
<1>11. CASE PrintStatement \/ Generate
  BY <1>11, OutputStep
<1>12. CASE Ended \/ UNCHANGED vars
  BY <1>12, Stutter DEF Ended
<1>13. QED
  BY <1>1, <1>2, <1>3, <1>4, <1>5, <1>6, <1>7, <1>8, <1>9, <1>10, <1>11, <1>12 DEF Next

\* Every state has what IInv says: trees of nodes created before the nodes that
\* point to them, and after each pass what it made of them.
THEOREM Invariance == Spec => []IInv
BY Initially, Inductive, PTL DEF Spec

\* The verdict says whether there is an error.
LEMMA ErrorOrNot ==
  ASSUME NEW h, WellFormed(h), NEW i \in 1 .. Len(h)
  PROVE  expr_typecheck(h, {})[i].error \in BOOLEAN
<1> DEFINE C == expr_typecheck(h, {})
<1>1. C = [j \in 0 .. Len(h) |-> TypecheckNode(h, {}, C, j)] /\ Len(h) \in Nat
  BY TypecheckUnfold, LenProperties DEF WellFormed
<1> HIDE DEF C
<1>2. C[i] = TypecheckNode(h, {}, C, i) /\ i # 0
  BY <1>1
<1>3. C[i] = Judged(h[i], C[h[i].left], C[h[i].right], [k \in DOMAIN h[i].args |-> C[h[i].args[k]]])
  BY <1>2, Zenon DEF TypecheckNode
<1>4. \A e, l, r, args : Judged(e, l, r, args).error \in BOOLEAN
  BY DEF Judged
<1>5. C[i].error \in BOOLEAN
  BY <1>3, <1>4
<1>6. QED
  BY <1>5 DEF C

LEMMA NodesOK ==
  ASSUME NEW h \in Seq(Nodes), Ordered(h)
  PROVE  \A i \in DOMAIN h :
           /\ h[i].left \in 0 .. i - 1 /\ h[i].right \in 0 .. i - 1
           /\ h[i].args \in Seq(1 .. i - 1)
           /\ h[i].value \in Ints
<1>1. DOMAIN h = 1 .. Len(h) /\ \A i \in 1 .. Len(h) : h[i] \in Nodes
  BY LenProperties, ElementOfSeq
<1>2. QED
  BY <1>1 DEF Ordered, Nodes

LEMMA Typing ==
  ASSUME IInv
  PROVE  TypeOK
<1>1. CASE phase = "parse"
  <2>1. Forest(node, stack) /\ freed = {} /\ errors = FALSE
    BY <1>1 DEF IInv
  <2>2. node \in Seq(Nodes) /\ Ordered(node) /\ DOMAIN node = 1 .. Len(node)
    BY <2>1, LenProperties DEF Forest, WellFormed
  <2>3. \A i \in DOMAIN node :
          /\ node[i].left \in 0 .. i - 1 /\ node[i].right \in 0 .. i - 1
          /\ node[i].args \in Seq(1 .. i - 1)
          /\ node[i].value \in Ints
    BY <2>2, NodesOK
  <2>4. Len(node) <= MaxNodes /\ stack \in Seq(DOMAIN node)
    BY <2>1, <2>2 DEF Forest
  <2>5. QED
    BY <1>1, <2>1, <2>3, <2>4 DEF TypeOK, Phases
<1>2. CASE phase \in {"checked", "trapped", "folded"}
  <2>1. /\ Forest(parsed, stack) /\ Len(stack) = 1
        /\ errors = expr_typecheck(parsed, {})[Root].error
        /\ phase \in {"checked", "trapped"} => node = parsed /\ freed = {}
        /\ phase = "folded" => /\ constant_fold_expr(parsed)[Root] # Trap
                               /\ node = AfterFold(parsed, Root) /\ freed = FreedIn(parsed, Root)
    BY <1>2 DEF IInv
  <2>2. WellFormed(parsed) /\ Len(parsed) \in Nat /\ Root \in 1 .. Len(parsed)
    BY <2>1, RootFacts
  <2>3. errors \in BOOLEAN
    BY <2>1, <2>2, ErrorOrNot
  <2>4. node \in Seq(Nodes) /\ Ordered(node) /\ Len(node) = Len(parsed) /\ freed \subseteq 1 .. Len(parsed)
    <3>1. CASE phase = "folded"
      BY <3>1, <2>1, <2>2, AfterFoldFacts, FreedBelowLiterals
    <3>2. CASE phase # "folded"
      BY <1>2, <3>2, <2>1, <2>2 DEF WellFormed
    <3>3. QED
      BY <3>1, <3>2
  <2>5. DOMAIN node = 1 .. Len(parsed)
    BY <2>4, LenProperties
  <2>6. \A i \in DOMAIN node :
          /\ node[i].left \in 0 .. i - 1 /\ node[i].right \in 0 .. i - 1
          /\ node[i].args \in Seq(1 .. i - 1)
          /\ node[i].value \in Ints
    BY <2>4, NodesOK
  <2>7. Len(node) <= MaxNodes /\ stack \in Seq(DOMAIN node) /\ freed \subseteq DOMAIN node
    BY <2>1, <2>4, <2>5 DEF Forest
  <2>8. QED
    BY <1>2, <2>3, <2>6, <2>7 DEF TypeOK, Phases
<1>3. CASE phase \in {"generated", "crashed", "undefined"}
  <2>1. node = <<>> /\ stack = <<>> /\ freed = {} /\ errors = FALSE
    BY <1>3 DEF IInv
  <2>2. Len(<<>>) = 0 /\ DOMAIN <<>> = {} /\ <<>> \in Seq({}) /\ 0 <= MaxNodes
    BY ExpressionsAssumption
  <2>3. QED
    BY <1>3, <2>1, <2>2 DEF TypeOK, Phases
<1>4. QED
  BY <1>1, <1>2, <1>3 DEF IInv, Phases

LEMMA AcceptedRoot ==
  ASSUME IInv, phase \in {"checked", "trapped", "folded"}, ~errors
  PROVE  /\ WellFormed(parsed) /\ Root \in 1 .. Len(parsed) /\ Root \in Accepted(parsed)
         /\ type = expr_typecheck(parsed, {})[Root].type
<1>1. /\ Forest(parsed, stack) /\ Len(stack) = 1
      /\ ~expr_typecheck(parsed, {})[Root].crash
      /\ type = expr_typecheck(parsed, {})[Root].type
      /\ ~expr_typecheck(parsed, {})[Root].error
  BY DEF IInv
<1>2. WellFormed(parsed) /\ Len(parsed) \in Nat /\ Root \in 1 .. Len(parsed)
  BY <1>1, RootFacts
<1>3. Root \in 0 .. Len(parsed)
  BY <1>2
<1>4. QED
  BY <1>1, <1>2, <1>3 DEF Accepted

LEMMA AcceptedIsSound ==
  ASSUME IInv
  PROVE  TypeSound
<1> SUFFICES ASSUME phase = "checked", ~errors
             PROVE  LET m == Meaning(parsed)[Root]
                    IN  m # Stuck /\ (m.kind = "VALUE" => type = Scalar(m.type))
  BY DEF TypeSound
<1> DEFINE m == Meaning(parsed)[Root]
<1>1. WellFormed(parsed) /\ Root \in Accepted(parsed) /\ type = expr_typecheck(parsed, {})[Root].type
  BY AcceptedRoot
<1>2. Sound(m, type)
  BY <1>1, Soundness
<1> HIDE DEF m
<1>3. ASSUME m.kind = "VALUE" PROVE type = Scalar(m.type)
  <2>1. PICK s, v : m = Value(s, v) /\ type = Scalar(s)
    BY <1>2, <1>3 DEF Sound
  <2>2. m.type = s
    BY <2>1, MeaningKinds
  <2>3. QED
    BY <2>1, <2>2
<1>4. m # Stuck
  BY <1>2 DEF Sound
<1>5. QED
  BY <1>3, <1>4 DEF m

LEMMA FoldingPreserves ==
  ASSUME IInv
  PROVE  ValuePreserved
<1> SUFFICES ASSUME phase \in {"folded", "trapped"}, ~errors, Meaning(parsed)[Root] # Undefined
             PROVE  IF phase = "folded" THEN Meaning(node)[Root] = Meaning(parsed)[Root] ELSE DeepPower
  BY DEF ValuePreserved
<1>1. WellFormed(parsed) /\ Root \in 1 .. Len(parsed) /\ Root \in Meaningful(parsed) /\ Root # 0
  BY AcceptedRoot DEF Meaningful
<1>2. CASE phase = "trapped"
  <2>1. constant_fold_expr(parsed)[Root] = Trap
    BY <1>2 DEF IInv
  <2>2. DeepBelow(parsed, Root)
    BY <1>1, <2>1, FoldMeaning
  <2>3. DeepPower
    BY <2>2 DEF DeepBelow, DeepAt, DeepPower
  <2>4. QED
    BY <1>2, <2>3
<1>3. CASE phase = "folded"
  <2>1. node = AfterFold(parsed, Root) /\ constant_fold_expr(parsed)[Root] # Trap
    BY <1>3 DEF IInv
  <2>2. Root \in 0 .. Len(parsed)
    BY <1>1
  <2>3. Meaning(AfterFold(parsed, Root))[Root] = Meaning(parsed)[Root]
    BY <1>1, <2>1, <2>2, MeaningKept
  <2>4. QED
    BY <1>3, <2>1, <2>3
<1>4. QED
  BY <1>2, <1>3

LEMMA FoldedRoot ==
  ASSUME IInv, phase = "folded"
  PROVE  /\ WellFormed(parsed) /\ Apart(parsed) /\ Len(parsed) \in Nat
         /\ Root \in 1 .. Len(parsed) /\ Root \in Typed(parsed)
         /\ \A i \in 1 .. Len(parsed) : Root \notin Operands(parsed[i])
         /\ constant_fold_expr(parsed)[Root] # Trap
         /\ node = AfterFold(parsed, Root) /\ freed = FreedIn(parsed, Root)
<1>1. /\ Forest(parsed, stack) /\ Len(stack) = 1
      /\ ~expr_typecheck(parsed, {})[Root].crash
      /\ constant_fold_expr(parsed)[Root] # Trap
      /\ node = AfterFold(parsed, Root) /\ freed = FreedIn(parsed, Root)
  BY DEF IInv
<1>2. /\ WellFormed(parsed) /\ Apart(parsed) /\ Len(parsed) \in Nat
      /\ Root \in 1 .. Len(parsed) /\ Root = stack[1]
  BY <1>1, RootFacts
<1>3. Root \in 0 .. Len(parsed) /\ 1 \in 1 .. Len(stack)
  BY <1>1, <1>2
<1>4. \A i \in 1 .. Len(parsed) : Root \notin Operands(parsed[i])
  BY <1>1, <1>2, <1>3 DEF Forest
<1>5. QED
  BY <1>1, <1>2, <1>3, <1>4 DEF Typed

LEMMA FoldingIsComplete ==
  ASSUME IInv
  PROVE  FoldedOnce
<1> SUFFICES ASSUME phase = "folded"
             PROVE  \A i \in Visited(node)[Root] :
                      Folds(node[i]) => \E o \in {node[i].left, node[i].right} \ {0} : ~is_constant(node[o])
  BY DEF FoldedOnce
<1>1. /\ WellFormed(parsed) /\ Root \in Typed(parsed) /\ Root # 0
      /\ constant_fold_expr(parsed)[Root] # Trap /\ node = AfterFold(parsed, Root)
  BY FoldedRoot
<1>2. LET g == AfterFold(parsed, Root)
      IN  \A i \in Visited(g)[Root] :
            Folds(g[i]) => \E o \in {g[i].left, g[i].right} \ {0} : ~is_constant(g[o])
  BY <1>1, NothingLeft
<1>3. QED
  BY <1>1, <1>2

LEMMA FreeingIsSafe ==
  ASSUME IInv
  PROVE  OperandsLive
<1> SUFFICES ASSUME phase = "folded" PROVE "freed" \notin Faults(node, freed)[Root]
  BY DEF OperandsLive
<1>1. /\ WellFormed(parsed) /\ Apart(parsed) /\ Len(parsed) \in Nat /\ Root \in 1 .. Len(parsed)
      /\ \A i \in 1 .. Len(parsed) : Root \notin Operands(parsed[i])
      /\ constant_fold_expr(parsed)[Root] # Trap
      /\ node = AfterFold(parsed, Root) /\ freed = FreedIn(parsed, Root)
  BY FoldedRoot
<1>2. Root \notin freed
  BY <1>1, FreedBelowLiterals
<1>3. Root \in 0 .. Len(parsed)
  BY <1>1
<1>4. QED
  BY <1>1, <1>2, <1>3, FreedUnreached

\* Pointers lead to nodes that were created before, and what is folded is an int.
THEOREM TypeCorrect == Spec => []TypeOK
BY Invariance, Typing, PTL

\* An expression of any depth that expr_typecheck has no objection to never
\* applies an operator to constants it is not defined on, and as a constant has
\* the type that was returned.
THEOREM TypeSoundness == Spec => []TypeSound
BY Invariance, AcceptedIsSound, PTL

\* For ints of any size, constant_fold_expr gives an accepted expression that means
\* something the same meaning back, or stops the compiler at a power whose exponent
\* is deeper than pow_int can go.
THEOREM FoldCorrect == Spec => []ValuePreserved
BY Invariance, FoldingPreserves, PTL

\* One pass of constant_fold_expr is enough: no operator it comes to is left with
\* constant operands only.
THEOREM FoldComplete == Spec => []FoldedOnce
BY Invariance, FoldingIsComplete, PTL

\* expr_codegen never reads an operand that constant_fold_expr freed.
THEOREM FreedSafely == Spec => []OperandsLive
BY Invariance, FreeingIsSafe, PTL
=============================================================================
