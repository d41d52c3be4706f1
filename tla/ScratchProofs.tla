----------------------------- MODULE ScratchProofs -----------------------------
EXTENDS Scratch, SequenceTheorems, TLAPS

(***************************************************************************)
(* The inductive invariant.  What is left to do is code for a machine with *)
(* a stack of values: each item takes its operands from it and leaves its  *)
(* result, and in the end the stack is empty (`Work`).  That is what makes *)
(* Left and Right exist when an operator comes to them, whatever the tree. *)
(* The registers on the stack are different ones, also in the two items    *)
(* that OperandsIntact is silent about (`Apart`).                          *)
(***************************************************************************)
Operators == {"sum", "product", "compare", "index"}
Consumers == {"done", "print_str", "print_int"}
Converters == {"print_loop", "dec_digits"}

\* By how much an item, with what it leads to, changes the number of values.
Effect(item) ==
  IF item \in {"eval", "leaf"} THEN 1 ELSE IF item \in Converters THEN -2 ELSE -1

\* n values suit the item.
Suits(item, n) ==
  /\ item \in Operators => n >= 2
  /\ item \in Consumers => n = 1
  /\ item \in Converters => n = 2

\* The items can be done one after the other, on `from` values to begin with,
\* which become `to`; d[p] values are there when the p-th one comes.
Runs(items, from, to) ==
  \E d \in [1 .. Len(items) + 1 -> Nat] :
    /\ d[1] = from /\ d[Len(items) + 1] = to
    /\ \A p \in 1 .. Len(items) : Suits(items[p], d[p]) /\ d[p + 1] = d[p] + Effect(items[p])

Work == IF ended = "no" THEN Runs(todo, Len(vals), 0) ELSE todo = <<>>

Apart == ~strayed => \A p, q \in DOMAIN vals : vals[p] = vals[q] => p = q

IInv == TypeOK /\ Work /\ Apart /\ OperandsIntact /\ RegistersAccounted

-----------------------------------------------------------------------------
(* Sequences of items.                                                     *)

LEMMA RunsNone ==
  ASSUME NEW n \in Nat
  PROVE  Runs(<<>>, n, n)
<1> DEFINE d == [p \in 1 .. 1 |-> n]
<1>1. Len(<<>>) = 0
  OBVIOUS
<1>2. d \in [1 .. Len(<<>>) + 1 -> Nat] /\ d[1] = n /\ d[Len(<<>>) + 1] = n
  BY <1>1
<1> HIDE DEF d
<1>3. QED
  BY <1>1, <1>2 DEF Runs

LEMMA RunsOne ==
  ASSUME NEW item \in TodoItems, NEW n \in Nat, Suits(item, n), n + Effect(item) \in Nat
  PROVE  Runs(<<item>>, n, n + Effect(item))
<1> DEFINE d == [p \in 1 .. 2 |-> IF p = 1 THEN n ELSE n + Effect(item)]
<1>1. Len(<<item>>) = 1 /\ <<item>>[1] = item
  OBVIOUS
<1>2. d \in [1 .. Len(<<item>>) + 1 -> Nat] /\ d[1] = n /\ d[2] = n + Effect(item)
  BY <1>1
<1> HIDE DEF d
<1>3. QED
  BY <1>1, <1>2 DEF Runs

\* What one sequence of items leaves, the other begins with.
LEMMA RunsThen ==
  ASSUME NEW S, NEW s \in Seq(S), NEW t \in Seq(S), NEW a, NEW b, NEW c,
         Runs(s, a, b), Runs(t, b, c)
  PROVE  Runs(s \o t, a, c)
<1>1. /\ Len(s) \in Nat /\ Len(t) \in Nat /\ Len(s \o t) = Len(s) + Len(t)
      /\ \A p \in 1 .. Len(s) : (s \o t)[p] = s[p]
      /\ \A p \in 1 .. Len(t) : (s \o t)[Len(s) + p] = t[p]
  BY ConcatProperties
<1>2. PICK d \in [1 .. Len(s) + 1 -> Nat] :
        /\ d[1] = a /\ d[Len(s) + 1] = b
        /\ \A p \in 1 .. Len(s) : Suits(s[p], d[p]) /\ d[p + 1] = d[p] + Effect(s[p])
  BY DEF Runs
<1>3. PICK e \in [1 .. Len(t) + 1 -> Nat] :
        /\ e[1] = b /\ e[Len(t) + 1] = c
        /\ \A p \in 1 .. Len(t) : Suits(t[p], e[p]) /\ e[p + 1] = e[p] + Effect(t[p])
  BY DEF Runs
<1> DEFINE f == [p \in 1 .. Len(s) + Len(t) + 1 |-> IF p <= Len(s) THEN d[p] ELSE e[p - Len(s)]]
<1>4. f \in [1 .. Len(s \o t) + 1 -> Nat]
  BY <1>1
<1>5. \A p \in 1 .. Len(s) + 1 : f[p] = d[p]
  BY <1>1, <1>2, <1>3
<1>6. \A p \in 1 .. Len(t) + 1 : f[Len(s) + p] = e[p]
  BY <1>1
<1> HIDE DEF f
<1>7. ASSUME NEW p \in 1 .. Len(s \o t)
      PROVE  Suits((s \o t)[p], f[p]) /\ f[p + 1] = f[p] + Effect((s \o t)[p])
  <2>1. CASE p <= Len(s)
    <3>1. (s \o t)[p] = s[p] /\ f[p] = d[p] /\ f[p + 1] = d[p + 1]
      BY <1>1, <1>5, <2>1
    <3>2. QED
      BY <1>1, <1>2, <2>1, <3>1
  <2>2. CASE p > Len(s)
    <3> DEFINE q == p - Len(s)
    <3>1. q \in 1 .. Len(t) /\ p = Len(s) + q
      BY <1>1, <2>2
    <3> HIDE DEF q
    <3>2. (s \o t)[p] = t[q] /\ f[p] = e[q] /\ f[p + 1] = e[q + 1]
      BY <1>1, <1>6, <3>1
    <3>3. QED
      BY <1>3, <3>1, <3>2
  <2>3. QED
    BY <1>1, <2>1, <2>2
<1>8. f[1] = a /\ f[Len(s \o t) + 1] = c
  BY <1>1, <1>2, <1>3, <1>5, <1>6
<1>9. QED
  BY <1>4, <1>7, <1>8 DEF Runs

\* The first item suits the values there are, the others what it leaves.
LEMMA RunsFirst ==
  ASSUME NEW s \in Seq(TodoItems), s # <<>>, NEW a \in Nat, NEW c, Runs(s, a, c)
  PROVE  /\ Suits(Head(s), a)
         /\ a + Effect(Head(s)) \in Nat
         /\ Runs(Tail(s), a + Effect(Head(s)), c)
<1>1. /\ Len(s) \in Nat /\ Len(s) >= 1 /\ Head(s) = s[1]
      /\ Len(Tail(s)) = Len(s) - 1 /\ \A p \in 1 .. Len(Tail(s)) : Tail(s)[p] = s[p + 1]
  BY HeadTailProperties
<1>2. PICK d \in [1 .. Len(s) + 1 -> Nat] :
        /\ d[1] = a /\ d[Len(s) + 1] = c
        /\ \A p \in 1 .. Len(s) : Suits(s[p], d[p]) /\ d[p + 1] = d[p] + Effect(s[p])
  BY DEF Runs
<1>3. Suits(Head(s), a) /\ d[2] = a + Effect(Head(s)) /\ d[2] \in Nat
  BY <1>1, <1>2
<1> DEFINE f == [p \in 1 .. Len(Tail(s)) + 1 |-> d[p + 1]]
<1>4. f \in [1 .. Len(Tail(s)) + 1 -> Nat] /\ \A p \in 1 .. Len(s) : f[p] = d[p + 1]
  BY <1>1
<1> HIDE DEF f
<1>5. f[1] = a + Effect(Head(s)) /\ f[Len(Tail(s)) + 1] = c
  BY <1>1, <1>2, <1>3, <1>4
<1>6. \A p \in 1 .. Len(Tail(s)) :
        Suits(Tail(s)[p], f[p]) /\ f[p + 1] = f[p] + Effect(Tail(s)[p])
  BY <1>1, <1>2, <1>4
<1>7. QED
  BY <1>3, <1>4, <1>5, <1>6 DEF Runs

-----------------------------------------------------------------------------
(* The stack of values and the registers.                                  *)

\* The registers of the values below the last n.
Under(n) == {vals[p] : p \in 1 .. Len(vals) - n}

Intact == \A p \in DOMAIN vals : vals[p] \in used /\ holds[vals[p]] = p

LEMMA AllocFacts ==
  ASSUME NEW u, NEW r \in scratch_alloc(u)
  PROVE  r \in Registers /\ r \notin u
BY DEF scratch_alloc

LEMMA RegisterNumbers ==
  /\ Registers \subseteq Nat /\ Registers \subseteq 0 .. NUM_SCRATCH
  /\ Registers \subseteq Kept
BY ScratchAssumption DEF Registers, Kept, PushedAroundCall, PushedByPrologue

LEMMA ValsFacts ==
  ASSUME TypeOK
  PROVE  /\ Len(vals) \in Nat /\ DOMAIN vals = 1 .. Len(vals)
         /\ \A p \in 1 .. Len(vals) : vals[p] \in 0 .. NUM_SCRATCH
         /\ \A n \in 0 .. Len(vals) :
              /\ Below(n) \in Seq(0 .. NUM_SCRATCH) /\ Len(Below(n)) = Len(vals) - n
              /\ \A p \in 1 .. Len(vals) - n : Below(n)[p] = vals[p]
<1>1. vals \in Seq(0 .. NUM_SCRATCH)
  BY DEF TypeOK
<1>2. Len(vals) \in Nat /\ DOMAIN vals = 1 .. Len(vals) /\ \A p \in 1 .. Len(vals) : vals[p] \in 0 .. NUM_SCRATCH
  BY <1>1, LenProperties, ElementOfSeq
<1>3. ASSUME NEW n \in 0 .. Len(vals)
      PROVE  /\ Below(n) \in Seq(0 .. NUM_SCRATCH) /\ Len(Below(n)) = Len(vals) - n
             /\ \A p \in 1 .. Len(vals) - n : Below(n)[p] = vals[p]
  <2> DEFINE m == Len(vals) - n
  <2>1. m \in Int /\ m >= 0 /\ \A p \in 1 .. m : vals[p] \in 0 .. NUM_SCRATCH
    BY <1>2
  <2> HIDE DEF m
  <2>2. /\ SubSeq(vals, 1, m) \in Seq(0 .. NUM_SCRATCH)
        /\ Len(SubSeq(vals, 1, m)) = IF 1 <= m THEN m - 1 + 1 ELSE 0
        /\ \A p \in 1 .. m - 1 + 1 : SubSeq(vals, 1, m)[p] = vals[1 + p - 1]
    BY <2>1, SubSeqProperties
  <2>3. /\ SubSeq(vals, 1, m) \in Seq(0 .. NUM_SCRATCH)
        /\ Len(SubSeq(vals, 1, m)) = m
        /\ \A p \in 1 .. m : SubSeq(vals, 1, m)[p] = vals[p]
    BY <2>1, <2>2
  <2>4. QED
    BY <2>3 DEF Below, m
<1>4. QED
  BY <1>2, <1>3

\* The registers in use are those of the values and the lost ones.
LEMMA StackSplit ==
  ASSUME IInv, ~strayed
  PROVE  /\ Range(vals) = Under(0)
         /\ Len(vals) >= 1 => /\ Range(vals) = Under(1) \cup {Right}
                              /\ Right \notin Under(1)
         /\ Len(vals) >= 2 => /\ Range(vals) = Under(2) \cup {Left, Right}
                              /\ Left # Right
                              /\ Left \notin Under(2) /\ Right \notin Under(2)
<1> USE DEF Under, Right, Left, Last, Range
<1>1. Len(vals) \in Nat /\ DOMAIN vals = 1 .. Len(vals)
  BY ValsFacts DEF IInv
<1>2. \A p, q \in 1 .. Len(vals) : vals[p] = vals[q] => p = q
  BY <1>1 DEF IInv, Apart
<1>3. Range(vals) = Under(0)
  BY <1>1
<1>4. ASSUME Len(vals) >= 1
      PROVE  Range(vals) = Under(1) \cup {Right} /\ Right \notin Under(1)
  <2>1. 1 .. Len(vals) = (1 .. Len(vals) - 1) \cup {Len(vals)}
    BY <1>1, <1>4
  <2>2. QED
    BY <1>1, <1>2, <1>4, <2>1
<1>5. ASSUME Len(vals) >= 2
      PROVE  /\ Range(vals) = Under(2) \cup {Left, Right} /\ Left # Right
             /\ Left \notin Under(2) /\ Right \notin Under(2)
  <2>1. 1 .. Len(vals) = (1 .. Len(vals) - 2) \cup {Len(vals) - 1, Len(vals)}
    BY <1>1, <1>5
  <2>2. QED
    BY <1>1, <1>2, <1>5, <2>1
<1>6. QED
  BY <1>3, <1>4, <1>5

\* What comes next is given the values it needs, and so is what follows it.
LEMMA TodoFacts ==
  ASSUME IInv, todo # <<>>
  PROVE  /\ ended = "no" /\ Tail(todo) \in Seq(TodoItems)
         /\ Suits(Head(todo), Len(vals))
         /\ Len(vals) + Effect(Head(todo)) \in Nat
         /\ Runs(Tail(todo), Len(vals) + Effect(Head(todo)), 0)
<1>1. todo \in Seq(TodoItems) /\ Len(vals) \in Nat
  BY ValsFacts DEF IInv, TypeOK
<1>2. ended = "no" /\ Runs(todo, Len(vals), 0)
  BY DEF IInv, Work
<1>3. QED
  BY <1>1, <1>2, RunsFirst, HeadTailProperties

LEMMA ThenWorks ==
  ASSUME IInv, todo # <<>>, NEW items \in Seq(TodoItems), Then(items), UNCHANGED ended,
         Runs(items, Len(vals'), Len(vals) + Effect(Head(todo)))
  PROVE  todo' \in Seq(TodoItems) /\ Work'
<1>1. Tail(todo) \in Seq(TodoItems) /\ ended = "no"
  BY TodoFacts
<1>2. todo' = items \o Tail(todo)
  BY DEF Then
<1>3. todo' \in Seq(TodoItems)
  BY <1>1, <1>2, ConcatProperties
<1>4. Runs(todo', Len(vals'), 0)
  BY <1>1, <1>2, TodoFacts, RunsThen
<1>5. QED
  BY <1>1, <1>3, <1>4 DEF Work, Runs

-----------------------------------------------------------------------------
(* The steps.                                                              *)

\* Register r is put on the stack in place of the last n: if the others are
\* not disturbed and what is free, lost and held is told apart, all is well.
LEMMA PutsOne ==
  ASSUME IInv, todo # <<>>, ~At("dec_digits"),
         NEW n \in 0 .. Len(vals), NEW r \in 0 .. NUM_SCRATCH,
         vals' = Append(Below(n), r), holds' \in [Registers -> Nat],
         NEW items \in Seq(TodoItems), Then(items),
         Runs(items, Len(vals) - n + 1, Len(vals) + Effect(Head(todo))),
         used' \subseteq Registers, lost' \subseteq Registers, UNCHANGED <<ended, strayed>>,
         ~strayed =>
           /\ used' = lost' \cup Under(n) \cup {r}
           /\ lost' \cap (Under(n) \cup {r}) = {} /\ r \notin Under(n)
           /\ holds'[r] = Len(vals) - n + 1
           /\ \A p \in 1 .. Len(vals) - n : holds[vals[p]] = p => holds'[vals[p]] = p
  PROVE  IInv'
<1>1. TypeOK
  BY DEF IInv
<1>2. /\ Len(vals) \in Nat
      /\ Below(n) \in Seq(0 .. NUM_SCRATCH) /\ Len(Below(n)) = Len(vals) - n
      /\ \A p \in 1 .. Len(vals) - n : Below(n)[p] = vals[p]
  BY <1>1, ValsFacts
<1>3. /\ vals' \in Seq(0 .. NUM_SCRATCH)
      /\ Len(vals') = Len(vals) - n + 1
      /\ DOMAIN vals' = 1 .. Len(vals) - n + 1
      /\ \A p \in 1 .. Len(vals) - n : vals'[p] = vals[p]
      /\ vals'[Len(vals) - n + 1] = r
  BY <1>2, AppendProperties, LenProperties
<1>4. todo' \in Seq(TodoItems) /\ Work'
  BY <1>3, ThenWorks
<1>5. TypeOK'
  BY <1>1, <1>3, <1>4 DEF TypeOK
<1>6. ASSUME ~strayed
      PROVE  Apart' /\ OperandsIntact' /\ RegistersAccounted'
  <2>1. \A p \in 1 .. Len(vals) : holds[vals[p]] = p
    BY <1>1, <1>6, ValsFacts DEF IInv, OperandsIntact
  <2>2. \A p \in 1 .. Len(vals) - n : holds'[vals'[p]] = p
    BY <1>2, <1>3, <1>6, <2>1
  <2>3. \A p \in DOMAIN vals' : holds'[vals'[p]] = p
    BY <1>2, <1>3, <1>6, <2>2
  <2>4. Apart'
    BY <2>3 DEF Apart
  <2>5. DOMAIN vals' = (1 .. Len(vals) - n) \cup {Len(vals) - n + 1}
    BY <1>2, <1>3
  <2>6. Range(vals)' = Under(n) \cup {r}
    <3>1. \A q \in Under(n) \cup {r} : \E p \in DOMAIN vals' : vals'[p] = q
      <4>1. \A q \in Under(n) : \E p \in 1 .. Len(vals) - n : vals'[p] = q
        BY <1>3 DEF Under
      <4>2. vals'[Len(vals) - n + 1] = r
        BY <1>3
      <4>3. QED
        BY <4>1, <4>2, <2>5
    <3>2. \A p \in DOMAIN vals' : vals'[p] \in Under(n) \cup {r}
      BY <1>3, <2>5 DEF Under
    <3>3. QED
      BY <3>1, <3>2 DEF Range
  <2>7. RegistersAccounted'
    BY <1>6, <2>6 DEF RegistersAccounted
  <2>8. \A p \in DOMAIN vals' : vals'[p] \in used'
    BY <1>6, <2>6 DEF Range
  <2>9. QED
    BY <2>3, <2>4, <2>7, <2>8 DEF OperandsIntact
<1>7. strayed => Apart' /\ OperandsIntact' /\ RegistersAccounted'
  BY DEF Apart, OperandsIntact, RegistersAccounted
<1>8. QED
  BY <1>4, <1>5, <1>6, <1>7 DEF IInv

LEMMA LoadFacts ==
  ASSUME TypeOK, NEW n \in 0 .. Len(vals), NEW r, Load(r, n)
  PROVE  /\ vals' = Append(Below(n), r)
         /\ holds' \in [Registers -> Nat]
         /\ r \in Registers => holds'[r] = Len(vals) - n + 1
         /\ \A p \in 1 .. Len(vals) - n :
              vals[p] \in Registers /\ vals[p] # r /\ holds[vals[p]] = p => holds'[vals[p]] = p
<1>1. Len(vals) \in Nat /\ holds \in [Registers -> Nat]
  BY ValsFacts DEF TypeOK
<1>2. \A q \in Registers :
        holds'[q] = IF q = r THEN Len(vals) - n + 1
                    ELSE IF holds[q] > Len(vals) - n THEN 0 ELSE holds[q]
  BY DEF Load
<1>3. holds' \in [Registers -> Nat]
  BY <1>1 DEF Load
<1>4. QED
  BY <1>1, <1>2, <1>3 DEF Load

\* PutsOne where the register is loaded.
LEMMA Loads ==
  ASSUME IInv, todo # <<>>, ~At("dec_digits"),
         NEW n \in 0 .. Len(vals), NEW r \in 0 .. NUM_SCRATCH, Load(r, n),
         NEW items \in Seq(TodoItems), Then(items),
         Runs(items, Len(vals) - n + 1, Len(vals) + Effect(Head(todo))),
         used' \subseteq Registers, lost' \subseteq Registers, UNCHANGED <<ended, strayed>>,
         ~strayed =>
           /\ used' = lost' \cup Under(n) \cup {r}
           /\ lost' \cap (Under(n) \cup {r}) = {} /\ r \notin Under(n)
  PROVE  IInv'
<1>1. /\ vals' = Append(Below(n), r) /\ holds' \in [Registers -> Nat]
      /\ r \in Registers => holds'[r] = Len(vals) - n + 1
      /\ \A p \in 1 .. Len(vals) - n :
           vals[p] \in Registers /\ vals[p] # r /\ holds[vals[p]] = p => holds'[vals[p]] = p
  BY LoadFacts DEF IInv
<1>2. ASSUME ~strayed
      PROVE  /\ holds'[r] = Len(vals) - n + 1
             /\ \A p \in 1 .. Len(vals) - n : holds[vals[p]] = p => holds'[vals[p]] = p
  <2>1. r \in Registers /\ \A p \in 1 .. Len(vals) - n : vals[p] \in Registers /\ vals[p] # r
    BY <1>2 DEF Under
  <2>2. QED
    BY <1>1, <2>1
<1>3. QED
  BY <1>1, <1>2, PutsOne

\* The one after the other: nothing follows.
LEMMA NothingMore ==
  ASSUME IInv, todo # <<>>, NEW n \in Nat, Len(vals) + Effect(Head(todo)) = n
  PROVE  Runs(<<>>, n, Len(vals) + Effect(Head(todo))) /\ <<>> \in Seq(TodoItems)
BY RunsNone

\* All values are consumed.
LEMMA ConsumesAll ==
  ASSUME IInv, todo # <<>>, Consumed, Len(vals) + Effect(Head(todo)) = 0,
         used' \subseteq Registers, lost' \subseteq Registers, UNCHANGED <<ended, strayed>>,
         ~strayed => used' = lost'
  PROVE  IInv'
<1>1. vals' = <<>> /\ holds' = [q \in Registers |-> 0] /\ Then(<<>>)
  BY DEF Consumed
<1>2. Len(vals') = 0 /\ DOMAIN vals' = {} /\ vals' \in Seq(0 .. NUM_SCRATCH)
  BY <1>1
<1>3. todo' \in Seq(TodoItems) /\ Work'
  BY <1>1, <1>2, NothingMore, ThenWorks
<1>4. TypeOK'
  BY <1>1, <1>2, <1>3 DEF IInv, TypeOK
<1>5. Range(vals)' = {}
  BY <1>2 DEF Range
<1>6. Apart' /\ OperandsIntact' /\ RegistersAccounted'
  BY <1>2, <1>5 DEF Apart, OperandsIntact, RegistersAccounted
<1>7. QED
  BY <1>3, <1>4, <1>6 DEF IInv

\* Only what is left to do changes.
LEMMA OnlyTodo ==
  ASSUME IInv, UNCHANGED <<used, vals, holds, lost, strayed>>,
         ended' \in {"no", "exit", "crash"}, todo' \in Seq(TodoItems), Work',
         At("dec_digits") => todo' = todo \/ strayed
  PROVE  IInv'
<1>1. TypeOK'
  BY DEF IInv, TypeOK
<1>2. Apart' /\ RegistersAccounted'
  BY DEF IInv, Apart, RegistersAccounted, Range
<1>3. OperandsIntact'
  BY DEF IInv, OperandsIntact, At
<1>4. QED
  BY <1>1, <1>2, <1>3 DEF IInv

-----------------------------------------------------------------------------
(* expr_codegen                                                            *)

\* One value more, in a register that was free.
LEMMA NewRegister ==
  ASSUME IInv, todo # <<>>, NEW r \in Registers, r \notin used,
         used' = used \cup {r}, UNCHANGED lost
  PROVE  /\ 0 \in 0 .. Len(vals) /\ r \in 0 .. NUM_SCRATCH
         /\ used' \subseteq Registers /\ lost' \subseteq Registers
         /\ ~strayed => /\ used' = lost' \cup Under(0) \cup {r}
                        /\ lost' \cap (Under(0) \cup {r}) = {} /\ r \notin Under(0)
<1>1. Len(vals) \in Nat /\ used \subseteq Registers /\ lost \subseteq Registers
  BY ValsFacts DEF IInv, TypeOK
<1>2. ~strayed => /\ used = lost \cup Under(0) /\ lost \cap Under(0) = {}
  BY StackSplit DEF IInv, RegistersAccounted
<1>3. QED
  BY <1>1, <1>2, RegisterNumbers

LEMMA TakeStep ==
  ASSUME IInv, todo # <<>>, TakesRegister, Head(todo) \in {"eval", "leaf"}, Then(<<>>)
  PROVE  IInv'
<1>1. PICK r \in scratch_alloc(used) : used' = used \cup {r} /\ Load(r, 0)
  BY DEF TakesRegister
<1>2. r \in Registers /\ r \notin used /\ UNCHANGED <<ended, lost, strayed>>
  BY AllocFacts DEF TakesRegister
<1>3. Effect(Head(todo)) = 1 /\ Len(vals) \in Nat /\ ~At("dec_digits")
  BY ValsFacts DEF Effect, IInv, At
<1>4. Runs(<<>>, Len(vals) - 0 + 1, Len(vals) + Effect(Head(todo))) /\ <<>> \in Seq(TodoItems)
  BY <1>3, NothingMore
<1>5. QED
  BY <1>1, <1>2, <1>3, <1>4, NewRegister, Loads

\* A list of operators as Binary makes it.
LEMMA ThreeRun ==
  ASSUME NEW a \in {"eval", "leaf"}, NEW op \in Operators, NEW n \in Nat
  PROVE  <<a, "eval", op>> \in Seq(TodoItems) /\ Runs(<<a, "eval", op>>, n, n + 1)
<1> DEFINE s == <<a, "eval", op>>
           d == [p \in 1 .. 4 |-> IF p = 3 THEN n + 2 ELSE IF p = 1 THEN n ELSE n + 1]
<1>1. Len(s) = 3 /\ s[1] = a /\ s[2] = "eval" /\ s[3] = op
  OBVIOUS
<1>2. a \in TodoItems /\ "eval" \in TodoItems /\ op \in TodoItems
  BY DEF TodoItems, Operators
<1>3. s \in Seq(TodoItems)
  BY <1>2
<1>4. /\ d \in [1 .. 4 -> Nat]
      /\ d[1] = n /\ d[2] = n + 1 /\ d[3] = n + 2 /\ d[4] = n + 1
  OBVIOUS
<1>5. /\ Suits(a, n) /\ Suits("eval", n + 1) /\ Suits(op, n + 2)
      /\ Effect(a) = 1 /\ Effect("eval") = 1 /\ Effect(op) = -1
  BY DEF Suits, Effect, Operators, Consumers, Converters
<1> HIDE DEF s, d
<1>6. \A p \in 1 .. 3 : Suits(s[p], d[p]) /\ d[p + 1] = d[p] + Effect(s[p])
  <2>1. Suits(s[1], d[1]) /\ d[2] = d[1] + Effect(s[1])
    BY <1>1, <1>4, <1>5
  <2>2. Suits(s[2], d[2]) /\ d[3] = d[2] + Effect(s[2])
    BY <1>1, <1>4, <1>5
  <2>3. Suits(s[3], d[3]) /\ d[4] = d[3] + Effect(s[3])
    BY <1>1, <1>4, <1>5
  <2>4. QED
    BY <2>1, <2>2, <2>3
<1>7. d \in [1 .. Len(s) + 1 -> Nat] /\ d[1] = n /\ d[Len(s) + 1] = n + 1
  BY <1>1, <1>4
<1>8. \A p \in 1 .. Len(s) : Suits(s[p], d[p]) /\ d[p + 1] = d[p] + Effect(s[p])
  BY <1>1, <1>6
<1>9. Runs(s, n, n + 1)
  BY <1>7, <1>8 DEF Runs
<1>10. QED
  BY <1>3, <1>9 DEF s

LEMMA BinaryStep ==
  ASSUME IInv, Binary
  PROVE  IInv'
<1>1. /\ At("eval")
      /\ UNCHANGED <<used, vals, holds, ended, lost, strayed>>
  BY DEF Binary
<1>2. PICK a \in {"eval", "leaf"}, op \in Operators : Then(<<a, "eval", op>>)
  <2>1. CASE \E op \in {"sum", "product", "compare"} : Goes(<<"eval", "eval", op>>)
    BY <2>1 DEF Goes, Operators
  <2>2. CASE Goes(<<"leaf", "eval", "index">>)
    BY <2>2 DEF Goes, Operators
  <2>3. QED
    BY <2>1, <2>2 DEF Binary
<1>3. todo # <<>> /\ Len(vals) \in Nat /\ Effect(Head(todo)) = 1 /\ ~At("dec_digits")
  BY <1>1, ValsFacts DEF At, Effect, IInv
<1>4. todo' \in Seq(TodoItems) /\ Work'
  BY <1>1, <1>2, <1>3, ThreeRun, ThenWorks
<1>5. ended' \in {"no", "exit", "crash"}
  BY <1>1 DEF IInv, TypeOK
<1>6. QED
  BY <1>1, <1>3, <1>4, <1>5, OnlyTodo

LEMMA NoCaseStep ==
  ASSUME IInv, NoCase
  PROVE  IInv'
<1>1. PICK r \in 0 .. NUM_SCRATCH : vals' = Append(vals, r)
  BY DEF NoCase
<1>2. /\ todo # <<>> /\ strayed' = TRUE /\ Then(<<>>)
      /\ UNCHANGED <<used, holds, ended, lost>>
  BY DEF NoCase, At
<1>3. Effect(Head(todo)) = 1
  BY DEF NoCase, At, Effect
<1>4. /\ vals \in Seq(0 .. NUM_SCRATCH) /\ Len(vals) \in Nat
      /\ vals' \in Seq(0 .. NUM_SCRATCH) /\ Len(vals') = Len(vals) + 1
  BY <1>1, ValsFacts DEF IInv, TypeOK
<1>5. Runs(<<>>, Len(vals'), Len(vals) + Effect(Head(todo))) /\ <<>> \in Seq(TodoItems)
  BY <1>2, <1>3, <1>4, NothingMore
<1>6. todo' \in Seq(TodoItems) /\ Work'
  BY <1>2, <1>5, ThenWorks
<1>7. TypeOK'
  BY <1>2, <1>4, <1>6 DEF IInv, TypeOK
<1>8. QED
  BY <1>2, <1>6, <1>7 DEF IInv, Apart, OperandsIntact, RegistersAccounted

\* An operator finds two operands, and leaves one value.
LEMMA OperatorFacts ==
  ASSUME IInv, NEW op \in Operators, At(op)
  PROVE  /\ todo # <<>> /\ ~At("dec_digits") /\ ended = "no"
         /\ Len(vals) \in Nat /\ Len(vals) >= 2 /\ 2 \in 0 .. Len(vals)
         /\ Left \in 0 .. NUM_SCRATCH /\ Right \in 0 .. NUM_SCRATCH
         /\ <<>> \in Seq(TodoItems)
         /\ Runs(<<>>, Len(vals) - 2 + 1, Len(vals) + Effect(Head(todo)))
         /\ ~strayed => /\ used = lost \cup Under(2) \cup {Left, Right} /\ Left # Right
                        /\ lost \cap (Under(2) \cup {Left, Right}) = {}
                        /\ Left \notin Under(2) /\ Right \notin Under(2)
<1>1. todo # <<>> /\ ~At("dec_digits")
  BY DEF At, Operators
<1>2. ended = "no" /\ Len(vals) \in Nat /\ Len(vals) >= 2 /\ Effect(Head(todo)) = -1
  <2>1. ended = "no" /\ Suits(op, Len(vals)) /\ Len(vals) \in Nat
    BY <1>1, TodoFacts, ValsFacts DEF At, IInv
  <2>2. Effect(op) = -1
    BY DEF Effect, Operators, Converters
  <2>3. QED
    BY <2>1, <2>2 DEF At, Suits
<1>3. Left \in 0 .. NUM_SCRATCH /\ Right \in 0 .. NUM_SCRATCH
  <2>1. \A p \in 1 .. Len(vals) : vals[p] \in 0 .. NUM_SCRATCH
    BY ValsFacts DEF IInv
  <2>2. Len(vals) - 1 \in 1 .. Len(vals) /\ Len(vals) \in 1 .. Len(vals)
    BY <1>2
  <2>3. QED
    BY <2>1, <2>2 DEF Left, Right, Last
<1>4. Len(vals) - 2 + 1 = Len(vals) + Effect(Head(todo)) /\ Len(vals) - 2 + 1 \in Nat
  BY <1>2
<1>5. Runs(<<>>, Len(vals) - 2 + 1, Len(vals) + Effect(Head(todo))) /\ <<>> \in Seq(TodoItems)
  BY <1>1, <1>4, NothingMore
<1>6. ASSUME ~strayed
      PROVE  /\ used = lost \cup Under(2) \cup {Left, Right} /\ Left # Right
             /\ lost \cap (Under(2) \cup {Left, Right}) = {}
             /\ Left \notin Under(2) /\ Right \notin Under(2)
  <2>1. used = lost \cup Range(vals) /\ lost \cap Range(vals) = {}
    BY <1>6 DEF IInv, RegistersAccounted
  <2>2. QED
    BY <1>2, <1>6, <2>1, StackSplit
<1>7. QED
  BY <1>1, <1>2, <1>3, <1>5, <1>6

LEMMA SumStep ==
  ASSUME IInv, Sum
  PROVE  IInv'
<1>1. /\ At("sum") /\ used' = used \ {Left} /\ Load(Right, 2)
      /\ Then(<<>>) /\ UNCHANGED <<ended, lost, strayed>>
  BY DEF Sum, scratch_free
<1>2. used' \subseteq Registers /\ lost' \subseteq Registers
  BY <1>1 DEF IInv, TypeOK
<1>3. "sum" \in Operators
  BY DEF Operators
<1>4. ~strayed => /\ used' = lost' \cup Under(2) \cup {Right}
                 /\ lost' \cap (Under(2) \cup {Right}) = {} /\ Right \notin Under(2)
  BY <1>1, <1>3, OperatorFacts
<1>5. QED
  BY <1>1, <1>2, <1>3, <1>4, OperatorFacts, Loads

LEMMA ProductStep ==
  ASSUME IInv, Product
  PROVE  IInv'
<1>1. /\ At("product") /\ Then(<<>>) /\ UNCHANGED <<ended, lost, strayed>>
  BY DEF Product
<1>2. PICK r \in scratch_alloc(FreedOperands) : used' = FreedOperands \cup {r} /\ Load(r, 2)
  BY DEF Product
<1>3. FreedOperands = used \ {Left, Right}
  BY DEF FreedOperands, scratch_free
<1>4. r \in Registers /\ r \notin FreedOperands /\ r \in 0 .. NUM_SCRATCH
  BY AllocFacts, RegisterNumbers
<1>5. used' \subseteq Registers /\ lost' \subseteq Registers
  BY <1>1, <1>2, <1>3, <1>4 DEF IInv, TypeOK
<1>6. "product" \in Operators
  BY DEF Operators
<1>7. ~strayed => /\ used' = lost' \cup Under(2) \cup {r}
                 /\ lost' \cap (Under(2) \cup {r}) = {} /\ r \notin Under(2)
  BY <1>1, <1>2, <1>3, <1>4, <1>6, OperatorFacts
<1>8. QED
  BY <1>1, <1>2, <1>4, <1>5, <1>6, <1>7, OperatorFacts, Loads

LEMMA CompareStep ==
  ASSUME IInv, Compare
  PROVE  IInv'
<1>1. /\ At("compare") /\ Then(<<>>) /\ UNCHANGED <<ended, strayed>>
      /\ lost' = lost \cup ({Left, Right} \cap used)
  BY DEF Compare
<1>2. PICK r \in scratch_alloc(used) : used' = used \cup {r} /\ Load(r, 2)
  BY DEF Compare
<1>3. r \in Registers /\ r \notin used /\ r \in 0 .. NUM_SCRATCH
  BY AllocFacts, RegisterNumbers
<1>4. used' \subseteq Registers /\ lost' \subseteq Registers
  BY <1>1, <1>2, <1>3 DEF IInv, TypeOK
<1>5. "compare" \in Operators
  BY DEF Operators
<1>6. ~strayed => /\ used' = lost' \cup Under(2) \cup {r}
                 /\ lost' \cap (Under(2) \cup {r}) = {} /\ r \notin Under(2)
  BY <1>1, <1>2, <1>3, <1>5, OperatorFacts
<1>7. QED
  BY <1>1, <1>2, <1>3, <1>4, <1>5, <1>6, OperatorFacts, Loads

LEMMA IndexStep ==
  ASSUME IInv, Index
  PROVE  IInv'
<1>1. /\ At("index") /\ Then(<<>>) /\ UNCHANGED <<ended, lost, strayed>>
  BY DEF Index
<1>2. PICK r \in scratch_alloc(used) : used' = FreedOperands \cup {r} /\ Load(r, 2)
  BY DEF Index
<1>3. FreedOperands = used \ {Left, Right}
  BY DEF FreedOperands, scratch_free
<1>4. r \in Registers /\ r \notin used /\ r \in 0 .. NUM_SCRATCH
  BY AllocFacts, RegisterNumbers
<1>5. used' \subseteq Registers /\ lost' \subseteq Registers
  BY <1>1, <1>2, <1>3, <1>4 DEF IInv, TypeOK
<1>6. "index" \in Operators
  BY DEF Operators
<1>7. ~strayed => /\ used' = lost' \cup Under(2) \cup {r}
                 /\ lost' \cap (Under(2) \cup {r}) = {} /\ r \notin Under(2)
  BY <1>1, <1>2, <1>3, <1>4, <1>6, OperatorFacts
<1>8. QED
  BY <1>1, <1>2, <1>4, <1>5, <1>6, <1>7, OperatorFacts, Loads

\* What the caller and the callee push is all that holds a value.
LEMMA FunCallStep ==
  ASSUME IInv, FunCall
  PROVE  IInv'
<1>1. At("eval") /\ Then(<<>>) /\ UNCHANGED <<ended, lost, strayed>>
  BY DEF FunCall
<1>2. PICK r \in scratch_alloc(used) :
        /\ used' = used \cup {r} /\ vals' = Append(vals, r)
        /\ holds' = [q \in Registers |-> IF q = r THEN Len(vals) + 1
                                          ELSE IF q \in Kept THEN holds[q] ELSE 0]
  BY DEF FunCall
<1>3. r \in Registers /\ r \notin used
  BY AllocFacts
<1>4. /\ todo # <<>> /\ ~At("dec_digits") /\ Effect(Head(todo)) = 1 /\ Len(vals) \in Nat
      /\ vals \in Seq(0 .. NUM_SCRATCH) /\ holds \in [Registers -> Nat]
  BY <1>1, ValsFacts DEF At, Effect, IInv, TypeOK
<1>5. Runs(<<>>, Len(vals) - 0 + 1, Len(vals) + Effect(Head(todo))) /\ <<>> \in Seq(TodoItems)
  BY <1>4, NothingMore
<1>6. vals' = Append(Below(0), r)
  BY <1>2, <1>4, SubSeqFull DEF Below
<1>7. holds' \in [Registers -> Nat] /\ holds'[r] = Len(vals) - 0 + 1
  BY <1>2, <1>3, <1>4
<1>8. ASSUME ~strayed
      PROVE  \A p \in 1 .. Len(vals) - 0 : holds[vals[p]] = p => holds'[vals[p]] = p
  <2>1. \A p \in 1 .. Len(vals) : vals[p] \in used /\ vals[p] \in Registers
    BY <1>4, <1>8, ValsFacts DEF IInv, OperandsIntact, TypeOK
  <2>2. \A q \in Registers : q # r => holds'[q] = holds[q]
    BY <1>2, RegisterNumbers
  <2>3. QED
    BY <1>3, <1>4, <2>1, <2>2
<1>9. QED
  BY <1>1, <1>2, <1>3, <1>4, <1>5, <1>6, <1>7, <1>8, NewRegister, PutsOne

LEMMA ArrayStep ==
  ASSUME IInv, Array
  PROVE  IInv'
<1>1. /\ At("eval") /\ Then(<<>>) /\ UNCHANGED <<ended, lost, strayed>>
  BY DEF Array
<1>2. \E r \in scratch_alloc(used) : used' = used \cup {r} /\ Load(r, 0)
  BY DEF Array
<1>3. TakesRegister
  BY <1>1, <1>2 DEF TakesRegister
<1>4. todo # <<>> /\ Head(todo) \in {"eval", "leaf"}
  BY <1>1 DEF At
<1>5. QED
  BY <1>1, <1>3, <1>4, TakeStep

-----------------------------------------------------------------------------
(* stmt_codegen                                                            *)

\* Between two statements there are no values.
LEMMA NothingLeft ==
  ASSUME IInv, todo = <<>>, ended = "no"
  PROVE  vals = <<>>
<1>1. Len(todo) = 0 /\ Runs(todo, Len(vals), 0)
  BY DEF IInv, Work
<1>2. Len(vals) = 0
  BY <1>1 DEF Runs
<1>3. QED
  BY <1>2, EmptySeq DEF IInv, TypeOK

LEMMA TwoRun ==
  ASSUME NEW use \in Consumers
  PROVE  <<"eval", use>> \in Seq(TodoItems) /\ Runs(<<"eval", use>>, 0, 0)
<1> DEFINE s == <<"eval", use>>
           d == [p \in 1 .. 3 |-> IF p = 2 THEN 1 ELSE 0]
<1>1. Len(s) = 2 /\ s[1] = "eval" /\ s[2] = use
  OBVIOUS
<1>2. s \in Seq(TodoItems)
  BY DEF TodoItems, Consumers
<1>3. d \in [1 .. 3 -> Nat] /\ d[1] = 0 /\ d[2] = 1 /\ d[3] = 0
  OBVIOUS
<1>4. Suits("eval", 0) /\ Suits(use, 1) /\ Effect("eval") = 1 /\ Effect(use) = -1
  BY DEF Suits, Effect, Operators, Consumers, Converters
<1> HIDE DEF s, d
<1>5. \A p \in 1 .. 2 : Suits(s[p], d[p]) /\ d[p + 1] = d[p] + Effect(s[p])
  <2>1. Suits(s[1], d[1]) /\ d[2] = d[1] + Effect(s[1])
    BY <1>1, <1>3, <1>4
  <2>2. Suits(s[2], d[2]) /\ d[3] = d[2] + Effect(s[2])
    BY <1>1, <1>3, <1>4
  <2>3. QED
    BY <2>1, <2>2
<1>6. d \in [1 .. Len(s) + 1 -> Nat] /\ d[1] = 0 /\ d[Len(s) + 1] = 0
  BY <1>1, <1>3
<1>7. \A p \in 1 .. Len(s) : Suits(s[p], d[p]) /\ d[p + 1] = d[p] + Effect(s[p])
  BY <1>1, <1>5
<1>8. Runs(s, 0, 0)
  BY <1>6, <1>7 DEF Runs
<1>9. QED
  BY <1>2, <1>8 DEF s

LEMMA StatementStep ==
  ASSUME IInv, Statement
  PROVE  IInv'
<1>1. /\ todo = <<>> /\ ended = "no"
      /\ UNCHANGED <<used, vals, holds, ended, lost, strayed>>
  BY DEF Statement
<1>2. PICK use \in Consumers : todo' = <<"eval", use>>
  BY DEF Statement, Consumers
<1>3. Len(vals) = 0
  BY <1>1, NothingLeft
<1>4. todo' \in Seq(TodoItems) /\ Runs(todo', Len(vals'), 0)
  BY <1>1, <1>2, <1>3, TwoRun
<1>5. Work'
  BY <1>1, <1>4 DEF Work, Runs
<1>6. ~At("dec_digits")
  BY <1>1 DEF At
<1>7. QED
  BY <1>1, <1>4, <1>5, <1>6, OnlyTodo

LEMMA ExprStatementStep ==
  ASSUME IInv, ExprStatement
  PROVE  IInv'
<1>1. /\ todo = <<>> /\ ended = "no"
      /\ UNCHANGED <<vals, holds, todo, ended, strayed>>
  BY DEF ExprStatement
<1>2. PICK r \in 0 .. NUM_SCRATCH : used' = used \ {r} /\ lost' = lost \ {r}
  BY DEF ExprStatement, scratch_free
<1>3. vals' = <<>> /\ vals = <<>>
  BY <1>1, NothingLeft
<1>4. TypeOK'
  BY <1>1, <1>2 DEF IInv, TypeOK
<1>5. Work'
  BY <1>1 DEF IInv, Work, Runs
<1>6. DOMAIN vals = {} /\ DOMAIN vals' = {}
  BY <1>3
<1>7. Range(vals) = {} /\ Range(vals)' = {}
  BY <1>6 DEF Range
<1>8. ~strayed => used = lost
  BY <1>7 DEF IInv, RegistersAccounted
<1>9. RegistersAccounted'
  BY <1>1, <1>2, <1>7, <1>8 DEF RegistersAccounted
<1>10. Apart' /\ OperandsIntact'
  BY <1>6 DEF Apart, OperandsIntact
<1>11. QED
  BY <1>4, <1>5, <1>9, <1>10 DEF IInv

\* The value of a statement's expression is the only one.
LEMMA ConsumerFacts ==
  ASSUME IInv, NEW item \in Consumers, At(item)
  PROVE  /\ todo # <<>> /\ ~At("dec_digits") /\ Len(vals) = 1
         /\ Effect(Head(todo)) = -1
         /\ ~strayed => used \ {Right} = lost
<1>1. todo # <<>> /\ ~At("dec_digits") /\ Head(todo) = item
  BY DEF At, Consumers
<1>2. Len(vals) = 1
  BY <1>1, TodoFacts DEF Suits
<1>3. Effect(Head(todo)) = -1
  BY <1>1 DEF Effect, Consumers, Converters
<1>4. ASSUME ~strayed PROVE used \ {Right} = lost
  <2>1. Under(1) = {}
    BY <1>2 DEF Under
  <2>2. used = lost \cup {Right} /\ Right \notin lost
    BY <1>2, <1>4, <2>1, StackSplit DEF IInv, RegistersAccounted
  <2>3. QED
    BY <2>2
<1>5. QED
  BY <1>1, <1>2, <1>3, <1>4

LEMMA DoneStep ==
  ASSUME IInv, Done \/ PrintStr
  PROVE  IInv'
<1>1. PICK item \in Consumers : At(item)
  BY DEF Done, PrintStr, Consumers
<1>2. used' = used \ {Right} /\ Consumed /\ UNCHANGED <<ended, lost, strayed>>
  BY DEF Done, PrintStr, scratch_free
<1>3. used' \subseteq Registers /\ lost' \subseteq Registers
  BY <1>2 DEF IInv, TypeOK
<1>4. Len(vals) + Effect(Head(todo)) = 0
  <2>1. Len(vals) = 1 /\ Effect(Head(todo)) = -1
    BY <1>1, ConsumerFacts
  <2>2. QED
    BY <2>1
<1>5. QED
  BY <1>1, <1>2, <1>3, <1>4, ConsumerFacts, ConsumesAll

\* With the counter there are two values.
LEMMA PrintIntStep ==
  ASSUME IInv, PrintInt
  PROVE  IInv'
<1>1. At("print_int") /\ TakesRegister /\ Then(<<"print_loop">>)
  BY DEF PrintInt
<1>2. PICK r \in scratch_alloc(used) : used' = used \cup {r} /\ Load(r, 0)
  BY <1>1 DEF TakesRegister
<1>3. r \in Registers /\ r \notin used /\ UNCHANGED <<ended, lost, strayed>>
  BY <1>1, AllocFacts DEF TakesRegister
<1>4. "print_int" \in Consumers
  BY DEF Consumers
<1>5. todo # <<>> /\ ~At("dec_digits") /\ Len(vals) = 1 /\ Effect(Head(todo)) = -1
  BY <1>1, <1>4, ConsumerFacts
<1>6. "print_loop" \in TodoItems /\ Suits("print_loop", 2) /\ Effect("print_loop") = -2
  BY DEF TodoItems, Suits, Effect, Operators, Consumers, Converters
<1>7. <<"print_loop">> \in Seq(TodoItems) /\ Runs(<<"print_loop">>, 2, 2 + Effect("print_loop"))
  BY <1>6, RunsOne
<1>8. Runs(<<"print_loop">>, Len(vals) - 0 + 1, Len(vals) + Effect(Head(todo)))
  BY <1>5, <1>6, <1>7
<1>9. QED
  BY <1>1, <1>2, <1>3, <1>5, <1>7, <1>8, NewRegister, Loads

\* The value and the counter are the only ones.
LEMMA ConverterFacts ==
  ASSUME IInv, NEW item \in Converters, At(item)
  PROVE  /\ todo # <<>> /\ Head(todo) = item /\ Len(vals) = 2
         /\ Effect(Head(todo)) = -2
         /\ ~strayed => used \ {Left} = lost \cup {Right}
<1>1. todo # <<>> /\ Head(todo) = item
  BY DEF At
<1>2. Len(vals) = 2
  BY <1>1, TodoFacts DEF Suits
<1>3. Effect(Head(todo)) = -2
  BY <1>1 DEF Effect, Converters
<1>4. ASSUME ~strayed PROVE used \ {Left} = lost \cup {Right}
  <2>1. Under(2) = {}
    BY <1>2 DEF Under
  <2>2. used = lost \cup {Left, Right} /\ Left \notin lost /\ Left # Right
    BY <1>2, <1>4, <2>1, StackSplit DEF IInv, RegistersAccounted
  <2>3. QED
    BY <2>2
<1>5. QED
  BY <1>1, <1>2, <1>3, <1>4

LEMMA PrintLoopStep ==
  ASSUME IInv, PrintLoop
  PROVE  IInv'
<1>1. /\ At("print_loop") /\ Then(<<"dec_digits">>)
      /\ holds' = [q \in Registers |-> IF q \in SyscallOverwrites THEN 0 ELSE holds[q]]
      /\ UNCHANGED <<used, vals, ended, lost, strayed>>
  BY DEF PrintLoop
<1>2. "print_loop" \in Converters /\ "dec_digits" \in TodoItems
  BY DEF Converters, TodoItems
<1>3. todo # <<>> /\ Len(vals) = 2 /\ Effect(Head(todo)) = -2
  BY <1>1, <1>2, ConverterFacts
<1>4. Suits("dec_digits", 2) /\ Effect("dec_digits") = -2
  BY DEF Suits, Effect, Operators, Consumers, Converters
<1>5. <<"dec_digits">> \in Seq(TodoItems) /\ Runs(<<"dec_digits">>, 2, 2 + Effect("dec_digits"))
  BY <1>2, <1>4, RunsOne
<1>6. Runs(<<"dec_digits">>, Len(vals'), Len(vals) + Effect(Head(todo)))
  BY <1>1, <1>3, <1>4, <1>5
<1>7. todo' \in Seq(TodoItems) /\ Work'
  BY <1>1, <1>3, <1>5, <1>6, ThenWorks
<1>8. holds' \in [Registers -> Nat]
  BY <1>1 DEF IInv, TypeOK
<1>9. TypeOK'
  BY <1>1, <1>7, <1>8 DEF IInv, TypeOK
<1>10. At("dec_digits")'
  <2>1. Tail(todo) \in Seq(TodoItems) /\ todo' = <<"dec_digits">> \o Tail(todo)
    BY <1>1, <1>3, TodoFacts DEF Then
  <2>2. Len(<<"dec_digits">>) = 1 /\ <<"dec_digits">>[1] = "dec_digits"
    OBVIOUS
  <2>3. Len(todo') >= 1 /\ todo'[1] = "dec_digits"
    BY <1>5, <2>1, <2>2, ConcatProperties, LenProperties
  <2>4. QED
    BY <1>7, <2>3 DEF At
<1>11. Apart' /\ RegistersAccounted'
  BY <1>1 DEF IInv, Apart, RegistersAccounted, Range
<1>12. QED
  BY <1>7, <1>9, <1>10, <1>11 DEF IInv, OperandsIntact

LEMMA DecDigitsStep ==
  ASSUME IInv, DecDigits
  PROVE  IInv'
<1>1. /\ At("dec_digits") /\ Consumed /\ UNCHANGED <<ended, strayed>>
      /\ used' = used \ {Left} /\ lost' = lost \cup ({Right} \cap Registers)
  BY DEF DecDigits, scratch_free
<1>2. used' \subseteq Registers /\ lost' \subseteq Registers
  BY <1>1 DEF IInv, TypeOK
<1>3. "dec_digits" \in Converters
  BY DEF Converters
<1>4. todo # <<>> /\ Len(vals) + Effect(Head(todo)) = 0
  <2>1. todo # <<>> /\ Len(vals) = 2 /\ Effect(Head(todo)) = -2
    BY <1>1, <1>3, ConverterFacts
  <2>2. QED
    BY <2>1
<1>5. ~strayed => used' = lost'
  BY <1>1, <1>2, <1>3, ConverterFacts
<1>6. QED
  BY <1>1, <1>2, <1>4, <1>5, ConsumesAll

LEMMA EndsStep ==
  ASSUME IInv, OutOfRegisters \/ Crash
  PROVE  IInv'
<1>1. PICK how \in {"exit", "crash"} : Ends(how)
  BY DEF OutOfRegisters, Crash
<1>2. At("dec_digits") => strayed
  BY DEF OutOfRegisters, Crash, At
<1>3. /\ ended' \in {"no", "exit", "crash"} /\ todo' \in Seq(TodoItems) /\ Work'
      /\ UNCHANGED <<used, vals, holds, lost, strayed>>
  BY <1>1 DEF Ends, Work
<1>4. QED
  BY <1>2, <1>3, OnlyTodo

-----------------------------------------------------------------------------
(* The theorems.                                                           *)

LEMMA InitIInv ==
  Init => IInv
<1> SUFFICES ASSUME Init PROVE IInv
  OBVIOUS
<1>1. /\ used = {} /\ vals = <<>> /\ todo = <<>> /\ ended = "no" /\ lost = {}
      /\ holds = [q \in Registers |-> 0] /\ strayed = FALSE
  BY DEF Init
<1>2. Len(vals) = 0 /\ DOMAIN vals = {}
  BY <1>1
<1>3. TypeOK
  <2>1. vals \in Seq(0 .. NUM_SCRATCH) /\ todo \in Seq(TodoItems)
    BY <1>1, EmptySeq
  <2>2. holds \in [Registers -> Nat]
    BY <1>1
  <2>3. QED
    BY <1>1, <2>1, <2>2 DEF TypeOK
<1>4. Work
  BY <1>1, <1>2, RunsNone DEF Work
<1>5. Range(vals) = {}
  BY <1>2 DEF Range
<1>6. QED
  BY <1>1, <1>2, <1>3, <1>4, <1>5 DEF IInv, Apart, OperandsIntact, RegistersAccounted

LEMMA StepIInv ==
  IInv /\ [Next]_vars => IInv'
<1> SUFFICES ASSUME IInv, [Next]_vars PROVE IInv'
  OBVIOUS
<1>1. CASE Leaf \/ IncDec
  <2>1. todo # <<>> /\ Head(todo) \in {"eval", "leaf"} /\ TakesRegister /\ Then(<<>>)
    BY <1>1 DEF Leaf, IncDec, At
  <2>2. QED
    BY <2>1, TakeStep
<1>2. CASE Binary \/ NoCase \/ FunCall \/ Array
  BY <1>2, BinaryStep, NoCaseStep, FunCallStep, ArrayStep
<1>3. CASE Sum \/ Product \/ Compare \/ Index
  BY <1>3, SumStep, ProductStep, CompareStep, IndexStep
<1>4. CASE Statement \/ ExprStatement \/ Done \/ PrintStr
  BY <1>4, StatementStep, ExprStatementStep, DoneStep
<1>5. CASE PrintInt \/ PrintLoop \/ DecDigits
  BY <1>5, PrintIntStep, PrintLoopStep, DecDigitsStep
<1>6. CASE OutOfRegisters \/ Crash
  BY <1>6, EndsStep
<1>7. CASE UNCHANGED vars
  <2>1. TypeOK'
    BY <1>7 DEF vars, IInv, TypeOK
  <2>2. Work'
    BY <1>7 DEF vars, IInv, Work, Runs
  <2>3. Apart' /\ OperandsIntact' /\ RegistersAccounted'
    BY <1>7 DEF vars, IInv, Apart, OperandsIntact, RegistersAccounted, At, Range
  <2>4. QED
    BY <2>1, <2>2, <2>3 DEF IInv
<1>8. QED
  BY <1>1, <1>2, <1>3, <1>4, <1>5, <1>6, <1>7 DEF Next, Stopped

LEMMA Invariance == Spec => []IInv
BY InitIInv, StepIInv, PTL DEF Spec

\* Whatever expressions and statements are generated, every variable has a
\* value of its type: an operator never looks for an operand that is not there.
THEOREM TypeCorrect == Spec => []TypeOK
<1>1. IInv => TypeOK
  BY DEF IInv
<1>2. QED
  BY <1>1, Invariance, PTL

\* For every number of registers that the calling convention saves, expressions
\* of every size and any calls in them: while every operator has a case, no
\* operand is overwritten between the code that computes it and the code that
\* consumes it.
THEOREM OperandsSurvive == Spec => []OperandsIntact
<1>1. IInv => OperandsIntact
  BY DEF IInv
<1>2. QED
  BY <1>1, Invariance, PTL

\* The operands of comparisons and the counter of printed integers are all that
\* is lost of scratch[].
THEOREM LossesExplained == Spec => []RegistersAccounted
<1>1. IInv => RegistersAccounted
  BY DEF IInv
<1>2. QED
  BY <1>1, Invariance, PTL
=============================================================================
