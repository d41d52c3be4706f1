----------------------------- MODULE FramesProofs -----------------------------
EXTENDS Frames, SequenceTheorems, FiniteSetTheorems, TLAPS

(***************************************************************************)
(* The inductive invariant of the return types: each activation has saved  *)
(* the return type of the one around it, and is of a later symbol, so that *)
(* the last return statement checked is of no function begun after it.     *)
(***************************************************************************)
RetOf(a) == IF a = 0 THEN NULL ELSE active[a].ret

Chain ==
  /\ curr_return = RetOf(Len(active))
  /\ \A a \in 1 .. Len(active) : /\ active[a].saved = RetOf(a - 1)
                                 /\ active[a].fun <= Len(symbols)
  /\ checked.fun <= Len(symbols)

CheckedOwn ==
  \A a \in 1 .. Len(active) : checked.fun = active[a].fun => checked.type = active[a].ret

Increasing ==
  \A a, b \in 1 .. Len(active) : active[a].fun = active[b].fun => a = b

IInv == TypeOK /\ Chain /\ CheckedOwn /\ Increasing

-----------------------------------------------------------------------------
(* Sequences.                                                              *)

LEMMA AppendFacts ==
  ASSUME NEW S, NEW q \in Seq(S), NEW x \in S
  PROVE  /\ Append(q, x) \in Seq(S)
         /\ Len(Append(q, x)) = Len(q) + 1
         /\ \A j \in 1 .. Len(q) : Append(q, x)[j] = q[j]
         /\ Append(q, x)[Len(q) + 1] = x
OBVIOUS

LEMMA FrontFacts ==
  ASSUME NEW S, NEW q \in Seq(S), q # <<>>
  PROVE  /\ Front(q) \in Seq(S)
         /\ Len(Front(q)) = Len(q) - 1
         /\ \A j \in 1 .. Len(q) - 1 : Front(q)[j] = q[j]
         /\ Len(q) \in Nat \ {0}
<1>1. Len(q) \in Nat \ {0} /\ \A i \in 1 .. Len(q) : q[i] \in S
  OBVIOUS
<1> DEFINE n == Len(q) - 1
<1>2. n \in Nat /\ \A i \in 1 .. n : q[i] \in S
  BY <1>1
<1>3. Front(q) = SubSeq(q, 1, n)
  BY DEF Front
<1> HIDE DEF n
<1>4. /\ SubSeq(q, 1, n) \in Seq(S)
      /\ Len(SubSeq(q, 1, n)) = IF 1 <= n THEN n - 1 + 1 ELSE 0
      /\ \A i \in 1 .. n - 1 + 1 : SubSeq(q, 1, n)[i] = q[1 + i - 1]
  BY <1>2, SubSeqProperties
<1>5. Len(SubSeq(q, 1, n)) = n /\ \A i \in 1 .. n : SubSeq(q, 1, n)[i] = q[i]
  BY <1>2, <1>4
<1>6. QED
  BY <1>1, <1>3, <1>4, <1>5 DEF n

LEMMA ConcatFacts ==
  ASSUME NEW S, NEW q \in Seq(S), NEW n \in Nat, NEW r \in [1 .. n -> S]
  PROVE  /\ q \o r \in Seq(S)
         /\ Len(q \o r) = Len(q) + n
         /\ \A j \in 1 .. Len(q) : (q \o r)[j] = q[j]
         /\ \A j \in 1 .. n : (q \o r)[Len(q) + j] = r[j]
OBVIOUS

-----------------------------------------------------------------------------
(* The actions, element by element.                                        *)

LEMMA OwnerType ==
  ASSUME TypeOK
  PROVE  Owner \in Nat /\ (active # <<>> => Owner = active[Len(active)].fun /\ Len(active) \in 1 .. Len(active))
<1>1. CASE active = <<>>
  BY <1>1 DEF Owner
<1>2. CASE active # <<>>
  <2>1. Len(active) \in 1 .. Len(active) /\ active[Len(active)] \in Activations
    BY <1>2 DEF TypeOK
  <2>2. QED
    BY <1>2, <2>1 DEF Owner, Last, Activations
<1>3. QED
  BY <1>1, <1>2

LEMMA ActiveTypes ==
  ASSUME TypeOK
  PROVE  Len(active) \in Nat /\ \A a \in 1 .. Len(active) : active[a].fun \in Nat
<1>1. active \in Seq(Activations)
  BY DEF TypeOK
<1>2. Len(active) \in Nat /\ \A a \in 1 .. Len(active) : active[a] \in Activations
  BY <1>1
<1>3. QED
  BY <1>2 DEF Activations

\* One symbol is added, of the innermost function.
LEMMA AddsOne ==
  ASSUME TypeOK, NEW by \in {"variable", "uninitialised", "prototype"}, NEW w \in Nat \cup {Uninit},
         symbols' = Append(symbols, Symbol(by, w))
  PROVE  /\ symbols' \in Seq(SymbolRecords)
         /\ Len(symbols') = Len(symbols) + 1
         /\ \A s \in 1 .. Len(symbols) : symbols'[s] = symbols[s]
         /\ symbols'[Len(symbols) + 1] = [by |-> by, fun |-> Owner, which |-> w, stack_size |-> Uninit]
<1>1. Symbol(by, w) \in SymbolRecords
  BY OwnerType DEF Symbol, SymbolRecords
<1>2. symbols \in Seq(SymbolRecords)
  BY DEF TypeOK
<1>3. QED
  BY <1>1, <1>2, AppendFacts DEF Symbol

\* A function begins: its symbol and those of its parameters are added.
LEMMA EntersFacts ==
  ASSUME TypeOK, NEW n \in Nat, NEW ret \in Types, Enters(n, ret)
  PROVE  /\ symbols' \in Seq(SymbolRecords)
         /\ Len(symbols) \in Nat
         /\ Len(symbols') = Len(symbols) + 1 + n
         /\ \A s \in 1 .. Len(symbols) : symbols'[s] = symbols[s]
         /\ symbols'[Len(symbols) + 1] = [by |-> "function", fun |-> Owner, which |-> Uninit,
                                          stack_size |-> Uninit]
         /\ \A p \in 1 .. n : symbols'[Len(symbols) + 1 + p] =
              [by |-> "param", fun |-> Len(symbols) + 1, which |-> p - 1, stack_size |-> Uninit]
         /\ active' \in Seq(Activations)
         /\ Len(active') = Len(active) + 1
         /\ \A a \in 1 .. Len(active) : active'[a] = active[a]
         /\ active'[Len(active) + 1] = [fun |-> Len(symbols) + 1, ret |-> ret, saved |-> curr_return]
<1> DEFINE f == Len(symbols) + 1
           param == [p \in 1 .. n |-> [by |-> "param", fun |-> f, which |-> p - 1,
                                       stack_size |-> Uninit]]
           q == Append(symbols, Symbol("function", Uninit))
           act == [fun |-> f, ret |-> ret, saved |-> curr_return]
<1>1. symbols' = q \o param /\ active' = Append(active, act)
  BY DEF Enters
<1>2. Symbol("function", Uninit) \in SymbolRecords /\ symbols \in Seq(SymbolRecords)
  BY OwnerType DEF Symbol, SymbolRecords, TypeOK
<1>3. /\ q \in Seq(SymbolRecords) /\ Len(q) = f /\ f \in Nat \ {0}
      /\ \A s \in 1 .. Len(symbols) : q[s] = symbols[s]
      /\ q[f] = Symbol("function", Uninit)
  BY <1>2, AppendFacts
<1>4. param \in [1 .. n -> SymbolRecords]
  BY <1>3 DEF SymbolRecords
<1>5. act \in Activations /\ active \in Seq(Activations)
  BY <1>3 DEF Activations, TypeOK
<1> HIDE DEF q, param, act, f
<1>6. /\ symbols' \in Seq(SymbolRecords)
      /\ Len(symbols') = f + n
      /\ \A s \in 1 .. f : symbols'[s] = q[s]
      /\ \A p \in 1 .. n : symbols'[f + p] = param[p]
  <2>1. /\ q \o param \in Seq(SymbolRecords)
        /\ Len(q \o param) = Len(q) + n
        /\ \A s \in 1 .. Len(q) : (q \o param)[s] = q[s]
        /\ \A p \in 1 .. n : (q \o param)[Len(q) + p] = param[p]
    <3>1. q \in Seq(SymbolRecords)
      BY <1>3
    <3>2. QED
      BY <3>1, <1>4, ConcatFacts
  <2>2. symbols' = q \o param /\ Len(q) = f
    BY <1>1, <1>3
  <2>3. QED
    BY <2>1, <2>2
<1>7. /\ active' \in Seq(Activations)
      /\ Len(active') = Len(active) + 1
      /\ \A a \in 1 .. Len(active) : active'[a] = active[a]
      /\ active'[Len(active) + 1] = act
  BY <1>1, <1>5, AppendFacts
<1>8. Len(symbols) \in Nat
  BY <1>2
<1>9. \A s \in 1 .. Len(symbols) : s \in 1 .. f
  BY <1>8 DEF f
<1>10. f \in 1 .. f
  BY <1>3
<1>11. symbols'[f] = [by |-> "function", fun |-> Owner, which |-> Uninit, stack_size |-> Uninit]
  BY <1>3, <1>6, <1>10 DEF Symbol
<1>12. \A p \in 1 .. n : symbols'[f + p] = [by |-> "param", fun |-> f, which |-> p - 1,
                                            stack_size |-> Uninit]
  BY <1>6 DEF param
<1>13. \A s \in 1 .. Len(symbols) : symbols'[s] = symbols[s]
  BY <1>3, <1>6, <1>9
<1>14. QED
  BY <1>6, <1>7, <1>8, <1>11, <1>12, <1>13 DEF f, act

\* A function ends: only its stack_size changes.
LEMMA EndFacts ==
  ASSUME TypeOK, FunctionEnd
  PROVE  /\ symbols' \in Seq(SymbolRecords)
         /\ Len(symbols') = Len(symbols)
         /\ \A s \in 1 .. Len(symbols) :
              symbols'[s] = IF s = Owner THEN [symbols[s] EXCEPT !.stack_size = which_counter]
                                         ELSE symbols[s]
         /\ active' \in Seq(Activations)
         /\ Len(active) \in Nat \ {0}
         /\ Len(active') = Len(active) - 1
         /\ \A a \in 1 .. Len(active) - 1 : active'[a] = active[a]
         /\ curr_return' = active[Len(active)].saved
<1>1. symbols \in Seq(SymbolRecords) /\ which_counter \in Nat
  BY DEF TypeOK
<1>2. symbols' = [symbols EXCEPT ![Owner].stack_size = which_counter]
  BY DEF FunctionEnd
<1>3. \A s \in 1 .. Len(symbols) : symbols[s] \in SymbolRecords
  BY <1>1
<1>4. \A s \in 1 .. Len(symbols) : [symbols[s] EXCEPT !.stack_size = which_counter] \in SymbolRecords
  BY <1>1, <1>3 DEF SymbolRecords
<1>5. symbols' \in [1 .. Len(symbols) -> SymbolRecords]
  <2>1. DOMAIN symbols = 1 .. Len(symbols)
    BY <1>1
  <2>2. symbols' = [s \in 1 .. Len(symbols) |->
                     IF s = Owner THEN [symbols[s] EXCEPT !.stack_size = which_counter]
                                  ELSE symbols[s]]
    BY <1>1, <1>2, <2>1
  <2>3. QED
    BY <1>3, <1>4, <2>2
<1>6. /\ symbols' \in Seq(SymbolRecords)
      /\ Len(symbols') = Len(symbols)
  BY <1>1, <1>5
<1>7. \A s \in 1 .. Len(symbols) :
        symbols'[s] = IF s = Owner THEN [symbols[s] EXCEPT !.stack_size = which_counter]
                                   ELSE symbols[s]
  BY <1>1, <1>2
<1>8. active # <<>> /\ active' = Front(active) /\ curr_return' = active[Len(active)].saved
  BY DEF FunctionEnd, Last
<1>9. active \in Seq(Activations)
  BY DEF TypeOK
<1>10. QED
  BY <1>6, <1>7, <1>8, <1>9, FrontFacts

-----------------------------------------------------------------------------
(* The steps.                                                              *)

LEMMA InitIInv ==
  Init => IInv
<1> SUFFICES ASSUME Init PROVE IInv
  OBVIOUS
<1>1. TypeOK
  BY DEF Init, TypeOK
<1>2. Chain
  BY DEF Init, Chain, RetOf
<1>3. CheckedOwn /\ Increasing
  BY DEF Init, CheckedOwn, Increasing
<1>4. QED
  BY <1>1, <1>2, <1>3 DEF IInv

\* A declaration that is no function definition.
LEMMA DeclarationStep ==
  ASSUME IInv, NEW by \in {"variable", "uninitialised", "prototype"}, NEW w \in Nat \cup {Uninit},
         symbols' = Append(symbols, Symbol(by, w)), which_counter' \in Nat,
         UNCHANGED <<curr_return, active, checked>>
  PROVE  IInv'
<1>1. symbols' \in Seq(SymbolRecords) /\ Len(symbols') = Len(symbols) + 1
  BY AddsOne DEF IInv
<1>2. TypeOK'
  BY <1>1 DEF IInv, TypeOK
<1>3. Len(symbols) \in Nat /\ checked.fun \in Nat
  BY DEF IInv, TypeOK
<1>4. \A a \in 1 .. Len(active) : active[a].fun \in Nat
  BY ActiveTypes DEF IInv
<1>5. Chain'
  <2>1. /\ curr_return = RetOf(Len(active)) /\ checked.fun <= Len(symbols)
        /\ \A a \in 1 .. Len(active) : /\ active[a].saved = RetOf(a - 1)
                                       /\ active[a].fun <= Len(symbols)
    BY DEF IInv, Chain
  <2>2. checked.fun <= Len(symbols')
    BY <1>1, <1>3, <2>1
  <2>3. \A a \in 1 .. Len(active) : active[a].fun <= Len(symbols')
    BY <1>1, <1>3, <1>4, <2>1
  <2>4. \A a : RetOf(a)' = RetOf(a)
    BY DEF RetOf
  <2>5. QED
    BY <2>1, <2>2, <2>3, <2>4 DEF Chain
<1>6. CheckedOwn' /\ Increasing'
  BY DEF IInv, CheckedOwn, Increasing
<1>7. QED
  BY <1>2, <1>5, <1>6 DEF IInv

LEMMA BeginStep ==
  ASSUME IInv, NEW n \in Nat, NEW ret \in Types, FunctionBegin(n, ret)
  PROVE  IInv'
<1>0. PICK k : k = Len(active)
  OBVIOUS
<1> DEFINE f == Len(symbols) + 1
<1>1. /\ symbols' \in Seq(SymbolRecords)
      /\ Len(symbols) \in Nat
      /\ Len(symbols') = Len(symbols) + 1 + n
      /\ active' \in Seq(Activations)
      /\ Len(active') = k + 1
      /\ \A a \in 1 .. k : active'[a] = active[a]
      /\ active'[k + 1] = [fun |-> f, ret |-> ret, saved |-> curr_return]
  BY <1>0, EntersFacts DEF IInv, FunctionBegin
<1>2. which_counter' = n /\ curr_return' = ret /\ checked' = checked
  BY DEF FunctionBegin, Enters
<1>3. TypeOK'
  BY <1>1, <1>2 DEF IInv, TypeOK
<1>4. k \in Nat /\ checked.fun \in Nat
  BY <1>0 DEF IInv, TypeOK
<1>5. \A a \in 1 .. k : active[a].fun \in Nat /\ active[a].fun <= Len(symbols)
  BY <1>0, ActiveTypes DEF IInv, Chain
<1>6. checked.fun <= Len(symbols) /\ curr_return = RetOf(k)
  BY <1>0 DEF IInv, Chain
<1> HIDE DEF f
<1>7. \A a \in 1 .. k + 1 : a \in 1 .. k \/ a = k + 1
  BY <1>4
<1>8. Chain'
  <2>1. curr_return' = RetOf(Len(active))'
    BY <1>1, <1>2, <1>4 DEF RetOf
  <2>2. ASSUME NEW a \in 1 .. k
        PROVE  active'[a].saved = RetOf(a - 1)' /\ active'[a].fun <= Len(symbols')
    <3>1. active[a].saved = RetOf(a - 1) /\ active'[a] = active[a]
      BY <1>0, <1>1 DEF IInv, Chain
    <3>2. a - 1 = 0 \/ a - 1 \in 1 .. k
      BY <1>4
    <3>3. RetOf(a - 1)' = RetOf(a - 1)
      BY <1>1, <3>2 DEF RetOf
    <3>4. active[a].fun <= Len(symbols')
      BY <1>1, <1>5
    <3>5. QED
      BY <3>1, <3>3, <3>4
  <2>3. active'[k + 1].saved = RetOf(k)' /\ active'[k + 1].fun <= Len(symbols')
    <3>1. k = 0 \/ k \in 1 .. k
      BY <1>4
    <3>2. RetOf(k)' = RetOf(k)
      BY <1>1, <1>4, <3>1 DEF RetOf
    <3>3. active'[k + 1].saved = curr_return /\ active'[k + 1].fun = Len(symbols) + 1
      BY <1>1 DEF f
    <3>4. QED
      BY <1>1, <1>6, <3>2, <3>3
  <2>4. checked'.fun <= Len(symbols')
    BY <1>1, <1>2, <1>4, <1>6
  <2>5. k + 1 - 1 = k
    BY <1>4
  <2>6. \A a \in 1 .. Len(active') : /\ active'[a].saved = RetOf(a - 1)'
                                     /\ active'[a].fun <= Len(symbols')
    <3>1. Len(active') = k + 1
      BY <1>1
    <3>2. ASSUME NEW a \in 1 .. k + 1
          PROVE  active'[a].saved = RetOf(a - 1)' /\ active'[a].fun <= Len(symbols')
      <4>1. CASE a \in 1 .. k
        BY <2>2, <4>1
      <4>2. CASE a = k + 1
        <5>1. a - 1 = k
          BY <1>4, <4>2
        <5>2. RetOf(a - 1)' = RetOf(k)'
          BY <5>1 DEF RetOf
        <5>3. QED
          BY <2>3, <4>2, <5>2
      <4>3. QED
        BY <1>7, <4>1, <4>2
    <3>3. QED
      BY <3>1, <3>2
  <2>7. QED
    BY <2>1, <2>4, <2>6 DEF Chain
<1>9. CheckedOwn'
  <2>1. \A a \in 1 .. k : checked.fun = active[a].fun => checked.type = active[a].ret
    BY <1>0 DEF IInv, CheckedOwn
  <2>2. active'[k + 1].fun # checked.fun
    BY <1>1, <1>4, <1>6 DEF f
  <2>3. QED
    BY <1>1, <1>2, <1>7, <2>1, <2>2 DEF CheckedOwn
<1>10. Increasing'
  <2>1. \A a, b \in 1 .. k : active[a].fun = active[b].fun => a = b
    BY <1>0 DEF IInv, Increasing
  <2>2. \A a \in 1 .. k : active'[k + 1].fun # active'[a].fun
    BY <1>1, <1>5 DEF f
  <2>3. QED
    BY <1>1, <1>7, <2>1, <2>2 DEF Increasing
<1>11. QED
  BY <1>3, <1>8, <1>9, <1>10 DEF IInv

LEMMA ReturnStep ==
  ASSUME IInv, Return
  PROVE  IInv'
<1>1. active # <<>> /\ checked' = [fun |-> Owner, type |-> curr_return]
      /\ UNCHANGED <<symbols, which_counter, curr_return, active>>
  BY DEF Return
<1>2. Owner = active[Len(active)].fun /\ Len(active) \in 1 .. Len(active) /\ Owner \in Nat
  BY <1>1, OwnerType DEF IInv
<1>3. TypeOK'
  BY <1>1, <1>2 DEF IInv, TypeOK
<1>4. curr_return = active[Len(active)].ret
  BY <1>2 DEF IInv, Chain, RetOf
<1>5. Chain'
  BY <1>1, <1>2 DEF IInv, Chain, RetOf
<1>6. Increasing'
  BY <1>1 DEF IInv, Increasing
<1>7. CheckedOwn'
  <2>1. \A a \in 1 .. Len(active) : Owner = active[a].fun => a = Len(active)
    BY <1>2 DEF IInv, Increasing
  <2>2. QED
    BY <1>1, <1>4, <2>1 DEF CheckedOwn
<1>8. QED
  BY <1>3, <1>5, <1>6, <1>7 DEF IInv

LEMMA EndStep ==
  ASSUME IInv, FunctionEnd
  PROVE  IInv'
<1> DEFINE k == Len(active) - 1
<1>1. /\ symbols' \in Seq(SymbolRecords)
      /\ Len(symbols') = Len(symbols)
      /\ active' \in Seq(Activations)
      /\ Len(active) \in Nat \ {0}
      /\ Len(active') = k
      /\ \A a \in 1 .. k : active'[a] = active[a]
      /\ curr_return' = active[k + 1].saved
  <2>1. /\ symbols' \in Seq(SymbolRecords)
        /\ Len(symbols') = Len(symbols)
        /\ active' \in Seq(Activations)
        /\ Len(active) \in Nat \ {0}
        /\ Len(active') = Len(active) - 1
        /\ \A a \in 1 .. Len(active) - 1 : active'[a] = active[a]
        /\ curr_return' = active[Len(active)].saved
    BY EndFacts DEF IInv
  <2>2. k + 1 = Len(active)
    BY <2>1
  <2>3. QED
    BY <2>1, <2>2
<1>2. which_counter' = which_counter /\ checked' = checked
  BY DEF FunctionEnd
<1>3. k \in Nat /\ Len(active) = k + 1
  BY <1>1
<1> HIDE DEF k
<1>4. \A a \in 1 .. k + 1 : active[a] \in Activations
  BY <1>3 DEF IInv, TypeOK
<1>5. TypeOK'
  <2>1. k + 1 \in 1 .. k + 1
    BY <1>3
  <2>2. curr_return' \in Types \cup {NULL}
    BY <1>1, <1>4, <2>1 DEF Activations
  <2>3. QED
    BY <1>1, <1>2, <2>2 DEF IInv, TypeOK
<1>6. \A a \in 1 .. k + 1 : active[a].saved = RetOf(a - 1) /\ active[a].fun <= Len(symbols)
  BY <1>3 DEF IInv, Chain
<1>7. \A a \in 0 .. k : RetOf(a)' = RetOf(a)
  BY <1>1, <1>3 DEF RetOf
<1>8. Chain'
  <2>1. curr_return' = RetOf(k)
    BY <1>1, <1>3, <1>6
  <2>2. \A a \in 1 .. k : a \in 1 .. k + 1 /\ a - 1 \in 0 .. k
    BY <1>3
  <2>3. k \in 0 .. k
    BY <1>3
  <2>4. curr_return' = RetOf(Len(active))'
    BY <1>1, <1>7, <2>1, <2>3 DEF RetOf
  <2>5. checked'.fun <= Len(symbols')
    BY <1>1, <1>2 DEF IInv, Chain
  <2>6. \A a \in 1 .. Len(active') : /\ active'[a].saved = RetOf(a - 1)'
                                     /\ active'[a].fun <= Len(symbols')
    BY <1>1, <1>6, <1>7, <2>2
  <2>7. QED
    BY <2>4, <2>5, <2>6 DEF Chain
<1>9. \A a \in 1 .. k : a \in 1 .. Len(active)
  BY <1>3
<1>10. CheckedOwn'
  BY <1>1, <1>2, <1>9 DEF IInv, CheckedOwn
<1>11. Increasing'
  BY <1>1, <1>9 DEF IInv, Increasing
<1>12. QED
  BY <1>5, <1>8, <1>10, <1>11 DEF IInv

LEMMA StepIInv ==
  IInv /\ [Next]_vars => IInv'
<1> SUFFICES ASSUME IInv, [Next]_vars PROVE IInv'
  OBVIOUS
<1>1. CASE Variable
  <2>1. which_counter \in Nat
    BY DEF IInv, TypeOK
  <2>2. CASE IsLocal
    BY <1>1, <2>1, <2>2, DeclarationStep DEF Variable
  <2>3. CASE ~IsLocal
    BY <1>1, <2>1, <2>3, DeclarationStep DEF Variable
  <2>4. QED
    BY <2>2, <2>3
<1>2. ASSUME NEW by \in {"uninitialised", "prototype"}, NoValue(by)
      PROVE  IInv'
  BY <1>2, DeclarationStep DEF NoValue, IInv, TypeOK
<1>3. ASSUME NEW n \in 0 .. MaxParams, NEW ret \in Types, FunctionBegin(n, ret)
      PROVE  IInv'
  <2>1. n \in Nat
    BY FramesBounds
  <2>2. QED
    BY <1>3, <2>1, BeginStep
<1>4. CASE Return
  BY <1>4, ReturnStep
<1>5. CASE FunctionEnd
  BY <1>5, EndStep
<1>6. CASE UNCHANGED vars
  <2>1. UNCHANGED <<symbols, which_counter, curr_return, active, checked>>
    BY <1>6 DEF vars
  <2>2. QED
    BY <2>1 DEF IInv, TypeOK, Chain, RetOf, CheckedOwn, Increasing
<1>7. CASE FileEnd
  BY <1>6, <1>7 DEF FileEnd
<1>8. QED
  BY <1>1, <1>2, <1>3, <1>4, <1>5, <1>6, <1>7 DEF Next

-----------------------------------------------------------------------------
(* The theorems.                                                           *)

\* typecheck.c: the invariant above holds in every state.
THEOREM Invariance == Spec => []IInv
<1>1. Init => IInv
  BY InitIInv
<1>2. IInv /\ [Next]_vars => IInv'
  BY StepIInv
<1>3. QED
  BY <1>1, <1>2, PTL DEF Spec

\* typecheck.c's counters, symbols and return types are well typed.
THEOREM TypeCorrect == Spec => []TypeOK
<1>1. IInv => TypeOK
  BY DEF IInv
<1>2. QED
  BY <1>1, Invariance, PTL

\* decl_typecheck, its lines 111 and 128: curr_return is the return type of the
\* function being checked, however deep functions are nested.
THEOREM ReturnTypesRestored == Spec => []ReturnsOwnType
<1>1. IInv => ReturnsOwnType
  <2> SUFFICES ASSUME IInv PROVE ReturnsOwnType
    OBVIOUS
  <2>1. ASSUME active # <<>> PROVE curr_return = Last(active).ret
    <3>1. Len(active) \in 1 .. Len(active)
      BY <2>1, OwnerType DEF IInv
    <3>2. QED
      BY <3>1 DEF IInv, Chain, RetOf, Last
  <2>2. DOMAIN active = 1 .. Len(active)
    BY DEF IInv, TypeOK
  <2>3. QED
    BY <2>1, <2>2 DEF IInv, CheckedOwn, ReturnsOwnType
<1>2. QED
  BY <1>1, Invariance, PTL

-----------------------------------------------------------------------------
(***************************************************************************)
(* The inductive invariant of the slots.  Each activation is of a function *)
(* inside the one of the activation around it (`Inside`), so a function    *)
(* being checked is the innermost or has another inside it.  While it is   *)
(* the innermost and has none, its numbers are below which_counter; when   *)
(* it ends, below its stack_size.                                          *)
(***************************************************************************)

\* The numbers of function f are different, and below bound.
Fits(f, bound) ==
  /\ \A s \in Numbered(f) : symbols[s].which \in 0 .. bound - 1
  /\ \A s, t \in Numbered(f) : symbols[s].which = symbols[t].which => s = t

\* A symbol is of an earlier one, or of the file.
Earlier == \A s \in 1 .. Len(symbols) : symbols[s].fun \in 0 .. s - 1

Inside ==
  \A a \in 1 .. Len(active) :
    /\ active[a].fun \in 1 .. Len(symbols)
    /\ symbols[active[a].fun].by = "function"
    /\ symbols[active[a].fun].stack_size = Uninit
    /\ a > 1 => symbols[active[a].fun].fun = active[a - 1].fun

InnermostFits == active # <<>> /\ Nested(Owner) = {} => Fits(Owner, which_counter)

DoneFits == \A f \in Done : Nested(f) = {} => Fits(f, symbols[f].stack_size)

Slots == Earlier /\ Inside /\ InnermostFits /\ DoneFits

-----------------------------------------------------------------------------
\* What is known of symbols by their numbers.
LEMMA SymbolTypes ==
  ASSUME TypeOK
  PROVE  /\ Len(symbols) \in Nat /\ DOMAIN symbols = 1 .. Len(symbols)
         /\ \A s \in 1 .. Len(symbols) : symbols[s] \in SymbolRecords
  BY DEF TypeOK

LEMMA InitSlots ==
  Init => Slots
<1> SUFFICES ASSUME Init PROVE Slots
  OBVIOUS
<1>1. symbols = <<>> /\ active = <<>>
  BY DEF Init
<1>2. Len(symbols) = 0 /\ Len(active) = 0 /\ DOMAIN symbols = {}
  BY <1>1
<1>3. Done = {}
  BY <1>2 DEF Done, FunctionSymbols
<1>4. QED
  BY <1>1, <1>2, <1>3 DEF Slots, Earlier, Inside, InnermostFits, DoneFits

\* A function none of the new symbols is of, and no new function is inside,
\* keeps its slots.
LEMMA Undisturbed ==
  ASSUME TypeOK, TypeOK', Len(symbols') >= Len(symbols), NEW f \in Nat,
         \A s \in 1 .. Len(symbols) :
           /\ symbols'[s].by = symbols[s].by /\ symbols'[s].fun = symbols[s].fun
           /\ symbols'[s].which = symbols[s].which,
         \A s \in Len(symbols) + 1 .. Len(symbols') :
           symbols'[s].fun # f \/ symbols'[s].by = "prototype" \/ (symbols'[s].by # "function" /\ symbols'[s].which = Uninit)
  PROVE  /\ Numbered(f)' = Numbered(f)
         /\ Nested(f)' = Nested(f)
         /\ \A bound : Fits(f, bound)' <=> Fits(f, bound)
<1>1. /\ Len(symbols) \in Nat /\ DOMAIN symbols = 1 .. Len(symbols)
      /\ Len(symbols') \in Nat /\ DOMAIN symbols' = 1 .. Len(symbols')
  BY SymbolTypes DEF TypeOK
<1>2. \A s \in DOMAIN symbols' : s \in DOMAIN symbols \/ s \in Len(symbols) + 1 .. Len(symbols')
  BY <1>1
<1>3. \A s \in DOMAIN symbols : s \in DOMAIN symbols'
  BY <1>1
<1>4. Numbered(f)' = Numbered(f)
  BY <1>1, <1>2, <1>3 DEF Numbered, Variables
<1>5. Nested(f)' = Nested(f)
  BY <1>1, <1>2, <1>3 DEF Nested, FunctionSymbols
<1>6. \A s \in Numbered(f) : symbols'[s].which = symbols[s].which
  BY <1>1 DEF Numbered, Variables
<1>7. \A bound : Fits(f, bound)' <=> Fits(f, bound)
  BY <1>4, <1>6 DEF Fits
<1>8. QED
  BY <1>4, <1>5, <1>7

\* The innermost function is a function, and its size is not known yet.
LEMMA OwnerFacts ==
  ASSUME TypeOK, Inside, active # <<>>
  PROVE  /\ Owner \in 1 .. Len(symbols) /\ Owner = active[Len(active)].fun
         /\ Len(active) \in 1 .. Len(active)
         /\ symbols[Owner].by = "function" /\ symbols[Owner].stack_size = Uninit
  BY OwnerType DEF Inside

\* Which functions are done, and how large they are, changes by new symbols only
\* if these have a size.
LEMMA SameDone ==
  ASSUME TypeOK, TypeOK', Len(symbols') >= Len(symbols),
         \A s \in 1 .. Len(symbols) : symbols'[s] = symbols[s],
         \A s \in Len(symbols) + 1 .. Len(symbols') : symbols'[s].stack_size = Uninit
  PROVE  Done' = Done /\ Done \subseteq 1 .. Len(symbols) /\ \A f \in Done : f \in Nat
<1>1. /\ Len(symbols) \in Nat /\ DOMAIN symbols = 1 .. Len(symbols)
      /\ Len(symbols') \in Nat /\ DOMAIN symbols' = 1 .. Len(symbols')
  BY SymbolTypes DEF TypeOK
<1>2. \A s \in DOMAIN symbols' : s \in DOMAIN symbols \/ s \in Len(symbols) + 1 .. Len(symbols')
  BY <1>1
<1>3. \A s \in DOMAIN symbols : s \in DOMAIN symbols'
  BY <1>1
<1>4. Done' = Done
  BY <1>1, <1>2, <1>3 DEF Done, FunctionSymbols
<1>5. QED
  BY <1>1, <1>4 DEF Done, FunctionSymbols

-----------------------------------------------------------------------------
(* The steps.                                                              *)

\* A declaration that is no function definition: a local one with a value takes
\* which_counter, no other takes a number.
LEMMA DeclarationSlots ==
  ASSUME IInv, IInv', Slots,
         NEW by \in {"variable", "uninitialised", "prototype"}, NEW w \in Nat \cup {Uninit},
         symbols' = Append(symbols, Symbol(by, w)), UNCHANGED active,
         \/ w = Uninit /\ UNCHANGED which_counter
         \/ by = "variable" /\ w = which_counter /\ which_counter' = which_counter + 1
  PROVE  Slots'
<1> DEFINE n == Len(symbols)
<1>1. TypeOK /\ TypeOK' /\ which_counter \in Nat /\ Owner \in Nat /\ Owner' = Owner
  BY OwnerType DEF IInv, TypeOK, Owner
<1>2. /\ Len(symbols') = n + 1 /\ n \in Nat
      /\ \A s \in 1 .. n : symbols'[s] = symbols[s]
      /\ symbols'[n + 1] = [by |-> by, fun |-> Owner, which |-> w, stack_size |-> Uninit]
  BY <1>1, AddsOne, SymbolTypes
<1> HIDE DEF n
<1>3. \A s \in n + 1 .. n + 1 : s = n + 1
  BY <1>2
<1>4. ASSUME NEW f \in Nat, f # Owner \/ w = Uninit
      PROVE  Nested(f)' = Nested(f) /\ \A bound : Fits(f, bound)' <=> Fits(f, bound)
  <2>1. \A s \in n + 1 .. n + 1 :
          symbols'[s].fun # f \/ symbols'[s].by = "prototype"
            \/ (symbols'[s].by # "function" /\ symbols'[s].which = Uninit)
    BY <1>2, <1>3, <1>4
  <2>2. QED
    BY <1>1, <1>2, <2>1, Undisturbed DEF n
<1>5. Earlier'
  <2>1. Owner \in 0 .. n
    <3>1. CASE active = <<>>
      BY <1>2, <3>1 DEF Owner
    <3>2. CASE active # <<>>
      BY <1>1, <1>2, <3>2, OwnerFacts DEF Slots, n
    <3>3. QED
      BY <3>1, <3>2
  <2>2. symbols'[n + 1].fun \in 0 .. n + 1 - 1
    BY <1>2, <2>1
  <2>3. \A s \in 1 .. n : symbols'[s].fun \in 0 .. s - 1
    BY <1>2 DEF Slots, Earlier, n
  <2>4. \A s \in 1 .. n + 1 : s \in 1 .. n \/ s = n + 1
    BY <1>2
  <2>5. QED
    BY <1>2, <2>2, <2>3, <2>4 DEF Earlier
<1>6. Inside'
  <2>1. \A s \in 1 .. n : s \in 1 .. n + 1
    BY <1>2
  <2>2. QED
    BY <1>2, <2>1 DEF Slots, Inside, n
<1>7. DoneFits'
  <2>1. Done' = Done /\ Done \subseteq 1 .. n /\ \A f \in Done : f \in Nat
    <3>1. \A s \in n + 1 .. n + 1 : symbols'[s].stack_size = Uninit
      BY <1>2, <1>3
    <3>2. QED
      BY <1>1, <1>2, <3>1, SameDone DEF n
  <2>2. ASSUME NEW f \in Done  PROVE f # Owner
    <3>1. CASE active = <<>>
      BY <2>1, <3>1 DEF Owner
    <3>2. CASE active # <<>>
      BY <1>1, <3>2, OwnerFacts DEF Slots, Done
    <3>3. QED
      BY <3>1, <3>2
  <2>3. QED
    BY <1>2, <1>4, <2>1, <2>2 DEF Slots, DoneFits
<1>8. InnermostFits'
  <2> SUFFICES ASSUME active # <<>>, Nested(Owner)' = {}  PROVE Fits(Owner, which_counter)'
    BY <1>1 DEF InnermostFits
  <2>1. CASE w = Uninit /\ UNCHANGED which_counter
    BY <1>1, <1>4, <2>1 DEF Slots, InnermostFits
  <2>2. CASE by = "variable" /\ w = which_counter /\ which_counter' = which_counter + 1
    <3>1. DOMAIN symbols = 1 .. n /\ DOMAIN symbols' = 1 .. n + 1
      BY <1>1, <1>2, SymbolTypes DEF TypeOK, n
    <3>2. \A s \in 1 .. n + 1 : s \in 1 .. n \/ s = n + 1
      BY <1>2
    <3>3. \A s \in 1 .. n : s \in 1 .. n + 1
      BY <1>2
    <3>4. Nested(Owner) = {}
      BY <1>1, <1>2, <3>1, <3>3 DEF Nested, FunctionSymbols
    <3>5. Fits(Owner, which_counter)
      BY <3>4 DEF Slots, InnermostFits
    <3> DEFINE old == Numbered(Owner)
               new == Numbered(Owner)'
               number(s) == symbols'[s].which
               c == which_counter
    <3>6. \A s \in new : s \in old \/ s = n + 1
      BY <1>1, <1>2, <3>1, <3>2 DEF Numbered, Variables
    <3>7. /\ \A s \in old : number(s) \in 0 .. c - 1
          /\ \A s, t \in old : number(s) = number(t) => s = t
      <4>1. \A s \in old : symbols'[s] = symbols[s]
        BY <1>2, <3>1 DEF Numbered, Variables
      <4>2. QED
        BY <3>5, <4>1 DEF Fits
    <3>8. number(n + 1) = c /\ c \in Nat
      BY <1>1, <1>2, <2>2
    <3> HIDE DEF old, new, number, c
    <3>9. \A s \in new : number(s) \in 0 .. c
      BY <3>6, <3>7, <3>8
    <3>10. \A s, t \in new : number(s) = number(t) => s = t
      <4>1. \A s \in old : number(s) # number(n + 1)
        BY <3>7, <3>8
      <4>2. QED
        BY <3>6, <3>7, <4>1
    <3>11. which_counter' - 1 = c
      BY <1>1, <2>2 DEF c
    <3>12. QED
      <4>1. \A s \in new : symbols'[s].which \in 0 .. which_counter' - 1
        BY <3>9, <3>11 DEF number
      <4>2. \A s, t \in new : symbols'[s].which = symbols'[t].which => s = t
        BY <3>10 DEF number
      <4>3. QED
        BY <4>1, <4>2, Zenon DEF Fits, new
  <2>3. QED
    BY <2>1, <2>2
<1>9. QED
  BY <1>5, <1>6, <1>7, <1>8 DEF Slots

\* A function begins: it has no symbols but its parameters, numbered below n.
LEMMA BeginSlots ==
  ASSUME IInv, IInv', Slots, NEW n \in Nat, NEW ret \in Types, FunctionBegin(n, ret)
  PROVE  Slots'
<1>0. PICK k, f \in Nat : k = Len(active) /\ f = Len(symbols) + 1
  BY SymbolTypes DEF IInv, TypeOK
<1>1. /\ TypeOK /\ TypeOK' /\ k \in Nat /\ f \in Nat /\ Len(symbols) = f - 1
      /\ which_counter' = n
  BY <1>0, SymbolTypes DEF IInv, TypeOK, FunctionBegin
<1>2. /\ Len(symbols') = f + n
      /\ \A s \in 1 .. f - 1 : symbols'[s] = symbols[s]
      /\ symbols'[f] = [by |-> "function", fun |-> Owner, which |-> Uninit, stack_size |-> Uninit]
      /\ \A s \in f + 1 .. f + n : /\ symbols'[s].by = "param" /\ symbols'[s].fun = f
                                     /\ symbols'[s].which = s - f - 1
                                     /\ symbols'[s].stack_size = Uninit
      /\ Len(active') = k + 1
      /\ \A a \in 1 .. k : active'[a] = active[a]
      /\ active'[k + 1].fun = f
  <2>1. Enters(n, ret)
    BY DEF FunctionBegin
  <2>2. /\ Len(symbols') = Len(symbols) + 1 + n
        /\ \A s \in 1 .. Len(symbols) : symbols'[s] = symbols[s]
        /\ symbols'[Len(symbols) + 1] =
             [by |-> "function", fun |-> Owner, which |-> Uninit, stack_size |-> Uninit]
        /\ \A p \in 1 .. n : symbols'[Len(symbols) + 1 + p] =
             [by |-> "param", fun |-> Len(symbols) + 1, which |-> p - 1, stack_size |-> Uninit]
        /\ Len(active') = Len(active) + 1
        /\ \A a \in 1 .. Len(active) : active'[a] = active[a]
        /\ active'[Len(active) + 1] = [fun |-> Len(symbols) + 1, ret |-> ret, saved |-> curr_return]
    BY <1>1, <2>1, EntersFacts
  <2>3. \A s \in f + 1 .. f + n : s - f \in 1 .. n /\ f + (s - f) = s
    BY <1>1
  <2>4. \A p \in 1 .. n :
          symbols'[f + p] = [by |-> "param", fun |-> f, which |-> p - 1, stack_size |-> Uninit]
    BY <1>0, <2>2
  <2>5. \A s \in f + 1 .. f + n : /\ symbols'[s].by = "param" /\ symbols'[s].fun = f
                                   /\ symbols'[s].which = s - f - 1
                                   /\ symbols'[s].stack_size = Uninit
    <3> SUFFICES ASSUME NEW s \in f + 1 .. f + n
                 PROVE  /\ symbols'[s].by = "param" /\ symbols'[s].fun = f
                        /\ symbols'[s].which = s - f - 1 /\ symbols'[s].stack_size = Uninit
      OBVIOUS
    <3>1. PICK p \in 1 .. n : s = f + p
      BY <2>3
    <3>2. symbols'[s] = [by |-> "param", fun |-> f, which |-> p - 1, stack_size |-> Uninit]
      BY <2>4, <3>1
    <3>3. s - f - 1 = p - 1
      BY <1>1, <3>1
    <3>4. QED
      BY <3>2, <3>3
  <2>6. QED
    BY <1>0, <1>1, <2>2, <2>5
<1>3. /\ Owner \in 0 .. f - 1
      /\ active # <<>> => /\ Owner = active[k].fun /\ k \in 1 .. k
                          /\ symbols[Owner].stack_size = Uninit
  <2>1. CASE active = <<>>
    BY <1>1, <2>1 DEF Owner
  <2>2. CASE active # <<>>
    BY <1>0, <1>1, <2>2, OwnerFacts DEF Slots
  <2>3. QED
    BY <2>1, <2>2
<1>4. active = <<>> <=> k = 0
  BY <1>0 DEF IInv, TypeOK
<1>5. DOMAIN symbols = 1 .. f - 1 /\ DOMAIN symbols' = 1 .. f + n
  BY <1>1, <1>2, SymbolTypes DEF TypeOK
<1>6. \A s \in 1 .. f + n : s \in 1 .. f - 1 \/ s = f \/ s \in f + 1 .. f + n
  BY <1>1
<1>7. Earlier'
  <2>1. \A s \in 1 .. f - 1 : symbols'[s].fun \in 0 .. s - 1
    BY <1>1, <1>2 DEF Slots, Earlier
  <2>2. symbols'[f].fun \in 0 .. f - 1
    BY <1>2, <1>3
  <2>3. \A s \in f + 1 .. f + n : symbols'[s].fun \in 0 .. s - 1
    BY <1>1, <1>2
  <2>4. QED
    BY <1>2, <1>6, <2>1, <2>2, <2>3 DEF Earlier
<1>8. Inside'
  <2>1. ASSUME NEW a \in 1 .. k
        PROVE  /\ active'[a].fun \in 1 .. Len(symbols')
               /\ symbols'[active'[a].fun].by = "function"
               /\ symbols'[active'[a].fun].stack_size = Uninit
               /\ a > 1 => symbols'[active'[a].fun].fun = active'[a - 1].fun
    <3>1. /\ active'[a] = active[a] /\ active[a].fun \in 1 .. f - 1
          /\ symbols[active[a].fun].by = "function"
          /\ symbols[active[a].fun].stack_size = Uninit
          /\ a > 1 => symbols[active[a].fun].fun = active[a - 1].fun
      BY <1>0, <1>1, <1>2 DEF Slots, Inside
    <3>2. a > 1 => a - 1 \in 1 .. k
      BY <1>1
    <3>3. active[a].fun \in 1 .. f + n
      BY <1>1, <3>1
    <3>4. QED
      BY <1>2, <3>1, <3>2, <3>3
  <2>2. /\ active'[k + 1].fun \in 1 .. Len(symbols')
        /\ symbols'[active'[k + 1].fun].by = "function"
        /\ symbols'[active'[k + 1].fun].stack_size = Uninit
        /\ k + 1 > 1 => symbols'[active'[k + 1].fun].fun = active'[k].fun
    <3>1. f \in 1 .. f + n
      BY <1>1, <1>3
    <3>2. k + 1 > 1 => k \in 1 .. k /\ Owner = active[k].fun
      BY <1>1, <1>3, <1>4
    <3>3. QED
      BY <1>2, <3>1, <3>2
  <2>3. \A a \in 1 .. k + 1 : a \in 1 .. k \/ (a = k + 1 /\ a - 1 = k)
    BY <1>1
  <2>4. QED
    BY <1>2, <2>1, <2>2, <2>3 DEF Inside
<1>9. DoneFits'
  <2>1. \A s \in f .. f + n : s = f \/ s \in f + 1 .. f + n
    BY <1>1
  <2>2. Done' = Done /\ Done \subseteq 1 .. f - 1 /\ \A g \in Done : g \in Nat
    <3>1. \A s \in f .. f + n : symbols'[s].stack_size = Uninit
      BY <1>2, <2>1
    <3>2. (f - 1) + 1 = f /\ f + n >= f - 1
      BY <1>1
    <3>3. QED
      BY <1>1, <1>2, <3>1, <3>2, SameDone
  <2>3. ASSUME NEW g \in Done  PROVE g # Owner /\ g # f
    <3>1. g # f
      BY <1>1, <2>2
    <3>2. CASE active = <<>>
      BY <2>2, <3>1, <3>2 DEF Owner
    <3>3. CASE active # <<>>
      BY <1>3, <3>1, <3>3 DEF Done
    <3>4. QED
      BY <3>1, <3>2, <3>3
  <2>4. ASSUME NEW g \in Done
        PROVE  Nested(g)' = Nested(g) /\ \A bound : Fits(g, bound)' <=> Fits(g, bound)
    <3>1. \A s \in f .. f + n : symbols'[s].fun # g
      BY <1>2, <2>1, <2>3
    <3>2. (f - 1) + 1 = f /\ f + n >= f - 1
      BY <1>1
    <3>3. QED
      BY <1>1, <1>2, <2>2, <3>1, <3>2, Undisturbed
  <2>5. QED
    BY <1>2, <2>2, <2>4 DEF Slots, DoneFits
<1>10. InnermostFits'
  <2>1. Owner' = f
    <3>1. active' # <<>> /\ Last(active') = active'[k + 1]
      <4>1. k + 1 # 0
        BY <1>1
      <4>2. QED
        BY <1>2, <4>1 DEF Last
    <3>2. QED
      BY <1>2, <3>1 DEF Owner
  <2> DEFINE new == Numbered(f)'
             number(s) == symbols'[s].which
  <2>2. \A s \in new : s \in f + 1 .. f + n
    <3>1. \A s \in 1 .. f - 1 : symbols'[s].fun # f
      BY <1>1, <1>2 DEF Slots, Earlier
    <3>2. symbols'[f].fun # f
      BY <1>1, <1>2, <1>3
    <3>3. \A s \in new : s \in 1 .. f + n /\ symbols'[s].fun = f
      BY <1>5 DEF Numbered, Variables, new
    <3>4. QED
      BY <1>6, <3>1, <3>2, <3>3
  <2>3. \A s \in f + 1 .. f + n : number(s) = s - f - 1
    BY <1>2
  <2> HIDE DEF new, number
  <2>4. \A s \in new : number(s) \in 0 .. n - 1
    BY <1>1, <2>2, <2>3
  <2>5. \A s, t \in new : number(s) = number(t) => s = t
    BY <1>1, <2>2, <2>3
  <2>6. Fits(f, n)'
    BY <2>4, <2>5 DEF Fits, new, number
  <2>7. QED
    BY <1>1, <2>1, <2>6 DEF InnermostFits, Fits
<1>11. QED
  BY <1>7, <1>8, <1>9, <1>10 DEF Slots

\* A function ends: what was below which_counter is below its size.  The function
\* around it, now the innermost, has one inside it.
LEMMA EndSlots ==
  ASSUME IInv, IInv', Slots, FunctionEnd
  PROVE  Slots'
<1>0. PICK k, n \in Nat : k = Len(active) - 1 /\ n = Len(symbols)
  <2>1. Len(active) \in Nat \ {0} /\ Len(symbols) \in Nat
    BY EndFacts, SymbolTypes DEF IInv
  <2>2. Len(active) - 1 \in Nat
    BY <2>1
  <2>3. QED
    BY <2>1, <2>2, Zenon
<1>1. TypeOK /\ TypeOK' /\ active # <<>> /\ which_counter \in Nat /\ Len(active) = k + 1
  BY <1>0, EndFacts DEF IInv, TypeOK, FunctionEnd
<1>2. PICK o \in 1 .. n : /\ o = Owner /\ o = active[k + 1].fun
                          /\ symbols[o].by = "function" /\ symbols[o].stack_size = Uninit
  BY <1>0, <1>1, OwnerFacts DEF Slots
<1>3. /\ Len(symbols') = n
      /\ \A s \in 1 .. n : symbols'[s] = IF s = o THEN [symbols[s] EXCEPT !.stack_size = which_counter]
                                                  ELSE symbols[s]
      /\ Len(active') = k
      /\ \A a \in 1 .. k : active'[a] = active[a]
  BY <1>0, <1>1, <1>2, EndFacts
<1>4. DOMAIN symbols = 1 .. n /\ DOMAIN symbols' = 1 .. n /\ \A s \in 1 .. n : symbols[s] \in SymbolRecords
  BY <1>0, <1>1, <1>3, SymbolTypes DEF TypeOK
<1>5. \A s \in 1 .. n : /\ symbols'[s].by = symbols[s].by /\ symbols'[s].fun = symbols[s].fun
                        /\ symbols'[s].which = symbols[s].which
                        /\ s # o => symbols'[s].stack_size = symbols[s].stack_size
                        /\ s = o => symbols'[s].stack_size = which_counter
  BY <1>3, <1>4 DEF SymbolRecords
<1>6. ASSUME NEW f \in Nat
      PROVE  Nested(f)' = Nested(f) /\ \A bound : Fits(f, bound)' <=> Fits(f, bound)
  <2>1. Len(symbols') >= Len(symbols)
    BY <1>0, <1>3
  <2>2. \A s \in Len(symbols) + 1 .. Len(symbols') :
          symbols'[s].fun # f \/ symbols'[s].by = "prototype"
            \/ (symbols'[s].by # "function" /\ symbols'[s].which = Uninit)
    BY <1>0, <1>3
  <2>3. QED
    BY <1>0, <1>1, <1>5, <2>1, <2>2, Undisturbed
<1>7. Earlier'
  BY <1>0, <1>3, <1>5 DEF Slots, Earlier
<1>8. ASSUME NEW a \in 1 .. k + 1
      PROVE  /\ active[a].fun \in 1 .. n
             /\ symbols[active[a].fun].by = "function"
             /\ symbols[active[a].fun].stack_size = Uninit
             /\ a > 1 => symbols[active[a].fun].fun = active[a - 1].fun
  BY <1>0, <1>1 DEF Slots, Inside
<1>9. Inside'
  <2>1. ASSUME NEW a \in 1 .. k
        PROVE  /\ active'[a].fun \in 1 .. n
               /\ symbols'[active'[a].fun].by = "function"
               /\ symbols'[active'[a].fun].stack_size = Uninit
               /\ a > 1 => symbols'[active'[a].fun].fun = active'[a - 1].fun
    <3>1. a \in 1 .. k + 1 /\ k + 1 \in 1 .. k + 1 /\ a # k + 1
      BY <1>0
    <3>2. active[a].fun # o
      BY <1>1, <1>2, <3>1 DEF IInv, Increasing
    <3>3. a > 1 => a - 1 \in 1 .. k
      BY <1>0
    <3>4. QED
      BY <1>3, <1>5, <1>8, <3>1, <3>2, <3>3
  <2>2. QED
    BY <1>3, <2>1 DEF Inside
<1>10. DoneFits'
  <2>1. ASSUME NEW f \in Done', Nested(f)' = {}
        PROVE  Fits(f, symbols[f].stack_size)'
    <3>1. f \in 1 .. n /\ f \in Nat
      BY <1>4 DEF Done, FunctionSymbols
    <3>2. Nested(f) = {}
      BY <1>6, <2>1, <3>1
    <3>3. CASE f = o
      <4>1. PICK bound \in Nat : bound = which_counter
        BY <1>1
      <4>2. Fits(f, bound)
        BY <1>1, <1>2, <3>2, <3>3, <4>1 DEF Slots, InnermostFits
      <4>3. Fits(f, bound)'
        BY <1>6, <3>1, <4>2
      <4>4. symbols'[f].stack_size = bound
        BY <1>5, <3>1, <3>3, <4>1
      <4>5. QED
        BY <4>3, <4>4
    <3>4. CASE f # o
      <4>1. f \in Done
        BY <1>4, <1>5, <3>1, <3>4 DEF Done, FunctionSymbols
      <4>2. Fits(f, symbols[f].stack_size)
        BY <3>2, <4>1 DEF Slots, DoneFits
      <4>3. symbols'[f].stack_size = symbols[f].stack_size
        BY <1>5, <3>1, <3>4
      <4>4. QED
        BY <1>6, <3>1, <4>2, <4>3
    <3>5. QED
      BY <3>3, <3>4
  <2>2. QED
    BY <2>1 DEF DoneFits
<1>11. InnermostFits'
  <2> SUFFICES ASSUME active' # <<>>  PROVE Nested(Owner)' # {}
    BY DEF InnermostFits
  <2>1. Owner' = active'[k].fun /\ k \in 1 .. k
    BY <1>1, <1>3, OwnerFacts, OwnerType DEF Owner, Last
  <2>2. symbols[o].fun = active[k].fun
    <3>1. k + 1 \in 1 .. k + 1 /\ k + 1 > 1 /\ (k + 1) - 1 = k
      BY <1>0, <2>1
    <3>2. QED
      BY <1>2, <1>8, <3>1
  <2>3. o \in Nested(Owner)'
    BY <1>2, <1>3, <1>4, <1>5, <2>1, <2>2 DEF Nested, FunctionSymbols
  <2>4. QED
    BY <2>3
<1>12. QED
  BY <1>7, <1>9, <1>10, <1>11 DEF Slots

LEMMA NextSlots ==
  IInv /\ IInv' /\ Slots /\ [Next]_vars => Slots'
<1> SUFFICES ASSUME IInv, IInv', Slots, [Next]_vars  PROVE Slots'
  OBVIOUS
<1>1. CASE Variable
  <2>1. which_counter \in Nat /\ UNCHANGED active
    BY <1>1 DEF IInv, TypeOK, Variable
  <2>2. CASE IsLocal
    BY <1>1, <2>1, <2>2, DeclarationSlots DEF Variable
  <2>3. CASE ~IsLocal
    BY <1>1, <2>1, <2>3, DeclarationSlots DEF Variable
  <2>4. QED
    BY <2>2, <2>3
<1>2. ASSUME NEW by \in {"uninitialised", "prototype"}, NoValue(by)
      PROVE  Slots'
  BY <1>2, DeclarationSlots DEF NoValue
<1>3. ASSUME NEW n \in 0 .. MaxParams, NEW ret \in Types, FunctionBegin(n, ret)
      PROVE  Slots'
  <2>1. n \in Nat
    BY FramesBounds
  <2>2. QED
    BY <1>3, <2>1, BeginSlots
<1>4. CASE FunctionEnd
  BY <1>4, EndSlots
<1>5. CASE UNCHANGED <<symbols, which_counter, active>>
  BY <1>5 DEF Slots, Earlier, Inside, InnermostFits, DoneFits, Done, FunctionSymbols, Nested, Owner,
              Fits, Numbered, Variables
<1>6. QED
  BY <1>1, <1>2, <1>3, <1>4, <1>5 DEF Next, Return, FileEnd, vars

-----------------------------------------------------------------------------
(* The theorems.                                                           *)

\* typecheck.c, its lines 105 and 114 to 124: in a function with no other inside
\* it, the parameters and initialised locals have different numbers below its
\* stack_size, for every bound on parameters, symbols and nesting.
THEOREM SlotsAreDistinct == Spec => []SlotsDistinct
<1>1. Init => Slots
  BY InitSlots
<1>2. IInv /\ IInv' /\ Slots /\ [Next]_vars => Slots'
  BY NextSlots
<1>3. Slots => SlotsDistinct
  BY DEF Slots, DoneFits, Fits, SlotsDistinct
<1>4. QED
  BY <1>1, <1>2, <1>3, Invariance, PTL DEF Spec

\* codegen.c:225 and symbol_address: of the words the epilogue reads, a variable
\* of such a function is at most the one at 0(%rbp), however many registers there
\* are for parameters and however many locals; the saved registers lie below all.
THEOREM SavedRegistersAreSafe == Spec => []SavedRegistersSafe
<1>1. IInv /\ SlotsDistinct => SavedRegistersSafe
  <2> SUFFICES ASSUME IInv, SlotsDistinct,
                      NEW f \in Done, Nested(f) = {}, Cardinality(Params(f)) <= NumArgRegs + 1,
                      NEW s \in Numbered(f), symbol_address(s) \in Popped(f)
               PROVE  symbol_address(s) = 0 /\ symbols[s].which = 0
    BY DEF SavedRegistersSafe
  <2> DEFINE params == Cardinality(Params(f))
             pushed == Min({params, NumArgRegs})
             size == symbols[f].stack_size
             which == symbols[s].which
  <2>1. params \in Nat
    <3>1. IsFiniteSet(1 .. Len(symbols)) /\ Params(f) \subseteq 1 .. Len(symbols)
      BY SymbolTypes, FS_Interval DEF IInv, Params
    <3>2. QED
      BY <3>1, FS_Subset, FS_CardinalityType
  <2>2. pushed \in Nat /\ pushed + 1 >= params
    <3>1. CASE params <= NumArgRegs
      BY <2>1, <3>1, FramesBounds DEF Min
    <3>2. CASE params = NumArgRegs + 1
      BY <2>1, <3>2, FramesBounds DEF Min
    <3>3. QED
      BY <2>1, <3>1, <3>2, FramesBounds
  <2>3. size \in Nat /\ which \in 0 .. size - 1
    <3>1. which \in 0 .. size - 1
      BY DEF SlotsDistinct
    <3>2. size \in Nat
      BY SymbolTypes DEF IInv, Done, FunctionSymbols, SymbolRecords
    <3>3. QED
      BY <3>1, <3>2
  <2>4. Reserved(f) = 8 * pushed + 8 * (size - params) /\ symbol_address(s) = -8 * which
    BY DEF Reserved, symbol_address
  <2> HIDE DEF params, pushed, size, which
  <2>5. symbol_address(s) >= -Reserved(f) /\ symbol_address(s) <= 0
    BY <2>1, <2>2, <2>3, <2>4
  <2>6. symbol_address(s) \in {0, 8}
    BY <2>1, <2>2, <2>3, <2>4, <2>5 DEF Popped
  <2>7. which = 0
    BY <2>3, <2>4, <2>5, <2>6
  <2>8. symbol_address(s) = 0
    BY <2>5, <2>6
  <2>9. QED
    BY <2>7, <2>8 DEF which
<1>2. QED
  BY <1>1, Invariance, SlotsAreDistinct, PTL
=============================================================================
