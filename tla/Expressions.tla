------------------------------ MODULE Expressions ------------------------------
(***************************************************************************)
(* One expression from the parser to the code generator: the rules of      *)
(* src/src/parser.y that build it, expr_typecheck of src/src/typecheck.c,  *)
(* constant_fold_expr of src/src/constant_fold.c and what the code         *)
(* generator reads of the result.                                          *)
(*                                                                         *)
(* The nodes are numbered as they are created, operands before operators,  *)
(* and a pointer to a node is its number, 0 the null pointer.  A function  *)
(* of the compiler that calls itself for the operands of a node is a       *)
(* recursive function of the node's number, for the nodes h it is given.   *)
(* Names are left out: an identifier has the type of its symbol.  A        *)
(* literal's text is left out, so the parser's `value` is all there is of  *)
(* it: for a string 0, for a character what atoi makes of its quote, 0.    *)
(***************************************************************************)
EXTENDS Integers, Sequences

CONSTANTS INT_MAX,      \* the largest int
          Literals,     \* integers in the source
          Identifiers,  \* the types of the declared identifiers
          PowDepth,     \* how deep pow_int can call itself before the stack is full
          MaxNodes      \* bound: nodes of one expression

ASSUME ExpressionsAssumption ==
  /\ INT_MAX \in Nat \ {0}
  /\ PowDepth \in Nat
  /\ MaxNodes \in Nat
  /\ Literals \subseteq 0 .. INT_MAX

VARIABLES
  node,     \* the nodes that were created, in the order of the calls of expr_create
  stack,    \* the parser's: the nodes it will combine, at last the expression
  phase,    \* the pass the expression has reached
  freed,    \* the nodes that were freed, which may still be pointed to
  parsed,   \* history: the nodes as they were parsed
  type,     \* what expr_typecheck returned
  errors    \* whether expr_typecheck reported an error

vars == <<node, stack, phase, freed, parsed, type, errors>>

-----------------------------------------------------------------------------
(* Nodes and types.                                                        *)

Ints == -INT_MAX - 1 .. INT_MAX

Scalar(kind) == [kind |-> kind]
NoType == Scalar("none")
IsInt(t) == t = Scalar("integer")

Null == [kind |-> "NULL"]
\* The folder has been stopped, by a division or by the depth of its recursion.
Trap == [kind |-> "TRAP"]

Node(kind, left, right) ==
  [kind |-> kind, left |-> left, right |-> right, value |-> 0, symbol |-> NoType, args |-> <<>>]

Arithmetic == {"ADD", "SUB", "MUL", "DIV", "EXP", "MOD"}
Boolean == {"AND", "OR", "EQ", "N_EQ", "LESS", "L_EQ", "GREATER", "G_EQ"}
Constant == {"ARRAY", "BOOL_LIT", "CHAR_LIT", "INT_LIT", "STR_LIT"}

Literal(kind, value) == [Node(kind, 0, 0) EXCEPT !.value = value]
\* The symbol of an identifier that was not declared is a null pointer: NoType.
Ident(t) == [Node("IDENT", 0, 0) EXCEPT !.symbol = t]

\* What may be an argument, and an item of an array.
IsItem(e) == e.kind \in {"IDENT", "BOOL_LIT", "CHAR_LIT", "INT_LIT", "STR_LIT"}

-----------------------------------------------------------------------------
(* expr_typecheck: `error` is whether something is reported, `crash`       *)
(* whether a null pointer is followed, `unset` whether memory is read that *)
(* was not written, or freed before.                                       *)

Verdict(t, error, crash) == [type |-> t, error |-> error, crash |-> crash, unset |-> FALSE]

\* The type is a copy, in which type_copy leaves out subtype and params when there
\* are none.  type_delete reads both, and frees the names of parameters, which
\* the copies of one function's type share.
CopyVerdict(t, error, crash) == [Verdict(t, error, crash) EXCEPT !.unset = TRUE]

\* type_equals follows a null pointer: an array literal's type has no subtype.
Incomparable(l, r) ==
  \/ NoType \in {l, r}
  \/ l.kind = "array" /\ r.kind = "array" /\ NoType \in {l.subtype, r.subtype}

CompareRule(l, r) ==
  LET incomparable == l.kind \in {"void", "array", "function"}
  IN  Verdict(Scalar("boolean"), incomparable \/ l # r,
              l = NoType \/ (~incomparable /\ r = NoType))

\* Mutant: only the operands' types are compared.
ArithmeticRule_AnyType(l, r) == CopyVerdict(l, l # r, Incomparable(l, r))

\* ADD, SUB, MUL, DIV, MOD
ArithmeticRule(l, r) == CopyVerdict(l, l # r \/ ~IsInt(l), Incomparable(l, r))

ExpRule(l, r) == CopyVerdict(l, ~IsInt(l) \/ ~IsInt(r), l = NoType \/ (IsInt(l) /\ r = NoType))

AssignRule(l, r) == CopyVerdict(l, l # r, Incomparable(l, r))

IndexRule(l, r) ==
  IF l.kind = "array" THEN CopyVerdict(l.subtype, ~IsInt(r), r = NoType)
                      ELSE CopyVerdict(l, TRUE, l = NoType)

\* The callee's type is a copy, of which subtype and params are read: left out,
\* they are null unless what is there leads elsewhere.
CallRule(l, args) ==
  CopyVerdict(IF l.kind \in {"array", "function"} THEN l.subtype ELSE NoType,
              args # IF l.kind = "function" THEN l.params ELSE <<>>,
              l = NoType)

IdentRule(t) == CopyVerdict(t, FALSE, t = NoType)

\* The type of a literal of one item; its size is read from a symbol that is not set.
ArrayLiteral == [kind |-> "array", subtype |-> NoType]

Rule(e, l, r, args) ==
  CASE e.kind \in Boolean -> CompareRule(l, r)
    [] e.kind \in Arithmetic \ {"EXP"} -> ArithmeticRule(l, r)
    [] e.kind = "EXP" -> ExpRule(l, r)
    [] e.kind = "NOT" -> Verdict(Scalar("boolean"), l # Scalar("boolean"), l = NoType)
    [] e.kind \in {"INC", "DEC"} -> CopyVerdict(l, ~IsInt(l), l = NoType)
    [] e.kind = "ASSIGN" -> AssignRule(l, r)
    [] e.kind = "INDEX" -> IndexRule(l, r)
    [] e.kind = "FUN_CALL" -> CallRule(l, args)
    [] e.kind = "IDENT" -> IdentRule(e.symbol)
    [] e.kind = "BOOL_LIT" -> Verdict(Scalar("boolean"), FALSE, FALSE)
    [] e.kind = "INT_LIT" -> Verdict(Scalar("integer"), FALSE, FALSE)
    [] e.kind = "CHAR_LIT" -> Verdict(Scalar("char"), FALSE, FALSE)
    [] e.kind = "STR_LIT" -> Verdict(Scalar("string"), FALSE, FALSE)
    [] e.kind = "ARRAY" -> CopyVerdict(ArrayLiteral, FALSE, FALSE)

\* The verdict on e, given those on its operands.
Judged(e, l, r, args) ==
  LET v == Rule(e, l.type, r.type, [k \in DOMAIN args |-> args[k].type])
      all == {l, r, v} \cup {args[k] : k \in DOMAIN args}
  IN  [type |-> v.type, error |-> \E c \in all : c.error,
       crash |-> \E c \in all : c.crash, unset |-> \E c \in all : c.unset]

\* The verdict on node i, where check is that on the nodes before it, and the
\* nodes in `gone` were freed.
TypecheckNode(h, gone, check, i) ==
  IF i = 0 THEN Verdict(NoType, FALSE, FALSE)
  ELSE IF i \in gone THEN [Verdict(NoType, FALSE, FALSE) EXCEPT !.unset = TRUE]
  ELSE LET e == h[i]
       IN  Judged(e, check[e.left], check[e.right], [k \in DOMAIN e.args |-> check[e.args[k]]])

expr_typecheck(h, gone) ==
  LET check[i \in 0 .. Len(h)] == TypecheckNode(h, gone, check, i)
  IN  check

-----------------------------------------------------------------------------
(* constant_fold_expr                                                      *)

is_constant(e) == e.kind \in Constant

\* Mutant: arithmetic in a wider type than value has.
Wrap_None(x) == x

Wrap(x) == ((x + INT_MAX + 1) % (2 * INT_MAX + 2)) - INT_MAX - 1

Bool(b) == IF b THEN 1 ELSE 0
Abs(x) == IF x < 0 THEN -x ELSE x
\* Mutant: the signs are lost.
Quotient_Unsigned(a, b) == Abs(a) \div Abs(b)

\* C divides towards zero.
Quotient(a, b) == (IF (a < 0) = (b < 0) THEN 1 ELSE -1) * (Abs(a) \div Abs(b))

pow_int(a, b) ==
  LET pow[n \in 0 .. b] == IF n = 0 THEN 1 ELSE IF n = 1 THEN a ELSE Wrap(a * pow[n - 1])
  IN  pow[b]

\* A quotient that is no int traps.  pow_int calls itself for every unit of the
\* exponent, and for a negative one without end.
Traps(op, a, b) ==
  \/ op \in {"DIV", "MOD"} /\ (b = 0 \/ Quotient(a, b) \notin Ints)
  \/ op = "EXP" /\ b \notin 0 .. PowDepth

Folded(op, a, b) ==
  CASE op = "ADD" -> Wrap(a + b)
    [] op = "SUB" -> Wrap(a - b)
    [] op = "MUL" -> Wrap(a * b)
    [] op = "DIV" -> Quotient(a, b)
    [] op = "MOD" -> a - b * Quotient(a, b)
    [] op = "EXP" -> pow_int(a, b)
    [] op = "AND" -> Bool(a # 0 /\ b # 0)
    [] op = "OR" -> Bool(a # 0 \/ b # 0)
    [] op = "EQ" -> Bool(a = b)
    [] op = "N_EQ" -> Bool(a # b)
    [] op = "LESS" -> Bool(a < b)
    [] op = "L_EQ" -> Bool(a <= b)
    [] op = "GREATER" -> Bool(a > b)
    [] op = "G_EQ" -> Bool(a >= b)

\* The node becomes a literal, which still points to its operands.
Collapse(e, l, r) ==
  IF Traps(e.kind, l.value, r.value) THEN Trap
  ELSE [e EXCEPT !.kind = IF e.kind \in Arithmetic THEN "INT_LIT" ELSE "BOOL_LIT",
                 !.value = Folded(e.kind, l.value, r.value)]

\* Mutant: the operands must be literals of the source, which have no operands.
FoldBinary_Early(e, l, r) ==
  IF Trap \in {l, r} THEN Trap
  ELSE IF is_constant(l) /\ is_constant(r) /\ {l.left, r.left} = {0} THEN Collapse(e, l, r)
  ELSE e

\* The node e, when its operands were folded to l and r.
FoldBinary(e, l, r) ==
  IF Trap \in {l, r} THEN Trap
  ELSE IF is_constant(l) /\ is_constant(r) THEN Collapse(e, l, r)
  ELSE e

FoldNot(e, l) ==
  IF l = Trap THEN Trap
  ELSE IF is_constant(l) THEN [e EXCEPT !.kind = "BOOL_LIT", !.value = Bool(l.value = 0)]
  ELSE e

\* A node whose operands are folded, and then perhaps the node.
Folds(e) == e.kind \in Arithmetic \cup Boolean \cup {"NOT"} /\ {e.left, e.right} # {0}

\* What node i becomes, where fold is what the nodes before it became.
FoldNode(h, fold, i) ==
  IF i = 0 THEN Null
  ELSE LET e == h[i]
       IN  IF ~Folds(e) THEN e
           ELSE IF e.kind = "NOT" THEN FoldNot(e, fold[e.left])
           ELSE FoldBinary(e, fold[e.left], fold[e.right])

constant_fold_expr(h) ==
  LET fold[i \in 0 .. Len(h)] == FoldNode(h, fold, i)
  IN  fold

VisitNode(h, visit, i) ==
  IF i = 0 THEN {}
  ELSE LET e == h[i] IN {i} \cup (IF Folds(e) THEN visit[e.left] \cup visit[e.right] ELSE {})

\* The nodes that a call for one of them calls constant_fold_expr for.
Visited(h) ==
  LET visit[i \in 0 .. Len(h)] == VisitNode(h, visit, i)
  IN  visit

\* Mutant: an operand is freed whether the other one is constant or not.
FreedBy_Each(h, i) ==
  LET e == h[i]
  IN  IF Folds(e) /\ e.kind # "NOT"
      THEN {o \in {e.left, e.right} : is_constant(constant_fold_expr(h)[o])} ELSE {}

\* Where a binary operator becomes a literal, both operands are freed; the
\* operand of a negation is not.
FreedBy(h, i) ==
  LET e == h[i]
      fold == constant_fold_expr(h)
  IN  IF Folds(e) /\ e.kind # "NOT" /\ is_constant(fold[e.left]) /\ is_constant(fold[e.right])
      THEN {e.left, e.right} ELSE {}

\* What expr_codegen reads that it cannot rely on: a freed operand, an address
\* that is none (the value of a literal is printed as a text at that address, but
\* for 0; an operand of a comparison is freed as if it were a register), a
\* register nothing set, where there is no case, or the symbol of an array or a
\* call, which nothing sets.  Operands of literals are not looked at.
NodeFaults(h, gone, faults, i) ==
  IF i = 0 THEN {}
  ELSE IF i \in gone THEN {"freed"}
  ELSE LET e == h[i]
           passed == UNION {faults[e.args[k]] : k \in DOMAIN e.args}
       IN  CASE e.kind \in {"BOOL_LIT", "CHAR_LIT", "INT_LIT"} -> IF e.value = 0 THEN {} ELSE {"address"}
             [] e.kind = "STR_LIT" -> {}
             [] e.kind \in {"EXP", "AND", "OR", "NOT", "ARRAY"} -> {"unset"}
             [] OTHER -> (IF e.kind \in Boolean THEN {"address"} ELSE {})
                         \cup (IF e.kind = "FUN_CALL" THEN {"unset"} ELSE {})
                         \cup faults[e.left] \cup faults[e.right] \cup passed

Faults(h, gone) ==
  LET faults[i \in 0 .. Len(h)] == NodeFaults(h, gone, faults, i)
  IN  faults

expr_codegen(faults) ==
  IF "freed" \in faults THEN {"undefined"}
  ELSE IF faults # {} THEN {"undefined", "generated"}
  ELSE {"generated"}

-----------------------------------------------------------------------------
(* The parser: an expression is combined from the last ones on the stack.  *)

Top(n) == stack[Len(stack) - n + 1]
Reduce(n, e) ==
  /\ node' = Append(node, e)
  /\ stack' = Append(SubSeq(stack, 1, Len(stack) - n), Len(node) + 1)
  /\ UNCHANGED <<phase, freed, parsed, type, errors>>

Parsing(n) == phase = "parse" /\ Len(stack) >= n

\* The rest of what is on the stack can still be combined within MaxNodes.
HasRoomFor(n) == Len(node) + 1 + Len(stack) - n <= MaxNodes

Leaf ==
  /\ Parsing(0) /\ HasRoomFor(0)
  /\ \/ \E v \in Literals : Reduce(0, Literal("INT_LIT", v))
     \/ \E v \in {0, 1} : Reduce(0, Literal("BOOL_LIT", v))
     \/ \E kind \in {"CHAR_LIT", "STR_LIT"} : Reduce(0, Literal(kind, 0))
     \/ \E t \in Identifiers \cup {NoType} : Reduce(0, Ident(t))

\* In parentheses, any expression is an operand.
Binary ==
  /\ Parsing(2)
  /\ \E op \in Arithmetic \cup Boolean : Reduce(2, Node(op, Top(2), Top(1)))

Not == Parsing(1) /\ HasRoomFor(1) /\ Reduce(1, Node("NOT", Top(1), 0))

\* `- x` is a subtraction without a left operand.
Negate == Parsing(1) /\ HasRoomFor(1) /\ Reduce(1, Node("SUB", 0, Top(1)))

IncDec ==
  /\ Parsing(1) /\ HasRoomFor(1) /\ node[Top(1)].kind = "IDENT"
  /\ \E op \in {"INC", "DEC"} : Reduce(1, Node(op, Top(1), 0))

Assign == Parsing(2) /\ node[Top(2)].kind = "IDENT" /\ Reduce(2, Node("ASSIGN", Top(2), Top(1)))

Index == Parsing(2) /\ node[Top(2)].kind = "IDENT" /\ Reduce(2, Node("INDEX", Top(2), Top(1)))

\* The arguments are identifiers and literals.
Call ==
  \E n \in 0 .. Len(stack) - 1 :
    LET args == SubSeq(stack, Len(stack) - n + 1, Len(stack))
    IN  /\ Parsing(n + 1) /\ HasRoomFor(n + 1)
        /\ node[Top(n + 1)].kind = "IDENT" /\ \A k \in DOMAIN args : IsItem(node[args[k]])
        /\ Reduce(n + 1, [Node("FUN_CALL", Top(n + 1), 0) EXCEPT !.args = args])

\* Array literals of one item: the item's node becomes the array's, and no name
\* is looked up for it.
Array ==
  /\ Parsing(1) /\ IsItem(node[Top(1)])
  /\ node' = [node EXCEPT ![Top(1)].kind = "ARRAY", ![Top(1)].symbol = NoType]
  /\ UNCHANGED <<stack, phase, freed, parsed, type, errors>>

-----------------------------------------------------------------------------
(* The passes, in the order main calls them: an error that is reported     *)
(* stops nothing.                                                          *)

\* The expression is not followed any further: code was generated for it, a null
\* pointer was followed, or memory was relied on that was not written or is freed,
\* after which the compiler may do anything.
Finish(how) ==
  /\ phase' = how /\ node' = <<>> /\ stack' = <<>> /\ freed' = {} /\ parsed' = <<>>
  /\ type' = NoType /\ errors' = FALSE

\* The whole expression, when there is nothing left to combine.
Root == Top(1)

Typecheck ==
  LET v == expr_typecheck(node, freed)[Root]
  IN  /\ Parsing(1) /\ Len(stack) = 1
      /\ \/ /\ ~v.crash
            /\ phase' = "checked" /\ parsed' = node /\ type' = v.type /\ errors' = v.error
            /\ UNCHANGED <<node, stack, freed>>
         \/ v.crash /\ Finish("crashed")
         \/ v.unset /\ Finish("undefined")

ConstantFold ==
  LET fold == constant_fold_expr(node)
      visited == Visited(node)[Root]
  IN  /\ phase = "checked"
      /\ IF fold[Root] = Trap
         THEN phase' = "trapped" /\ UNCHANGED <<node, freed>>
         ELSE /\ phase' = "folded"
              /\ node' = [i \in DOMAIN node |-> IF i \in visited THEN fold[i] ELSE node[i]]
              /\ freed' = UNION {FreedBy(node, i) : i \in visited}
      /\ UNCHANGED <<stack, parsed, type, errors>>

\* A print statement checks its expression a second time, freed operands and
\* all, to select the code to emit, and does not expect that there is no type.
PrintStatement ==
  LET v == expr_typecheck(node, freed)[Root]
  IN  /\ phase = "folded"
      /\ \/ ~v.crash /\ v.type.kind \in {"void", "array", "function"} /\ Finish("generated")
         \/ /\ ~v.crash /\ v.type.kind \in {"boolean", "integer", "char", "string"}
            /\ \E how \in expr_codegen(Faults(node, freed)[Root]) : Finish(how)
         \/ (v.crash \/ v.type = NoType) /\ Finish("crashed")
         \/ v.unset /\ Finish("undefined")

\* Every other statement generates code for the tree right away.
Generate ==
  phase = "folded" /\ \E how \in expr_codegen(Faults(node, freed)[Root]) : Finish(how)

Ended == phase \in {"generated", "trapped", "crashed", "undefined"} /\ UNCHANGED vars

Init ==
  /\ node = <<>> /\ stack = <<>> /\ phase = "parse" /\ freed = {}
  /\ parsed = <<>> /\ type = NoType /\ errors = FALSE

Next ==
  \/ Leaf \/ Binary \/ Not \/ Negate \/ IncDec \/ Assign \/ Index \/ Call \/ Array
  \/ Typecheck \/ ConstantFold \/ PrintStatement \/ Generate \/ Ended

Spec == Init /\ [][Next]_vars

-----------------------------------------------------------------------------
(* What an expression means, for reference: a constant with its type, or   *)
(* an operation on what cannot be known before the program runs.           *)

Value(t, v) == [kind |-> "VALUE", type |-> t, value |-> v]
Operation(op, l, r, args) == [kind |-> "OPERATION", op |-> op, left |-> l, right |-> r, args |-> args]

\* An operator is applied to what it is not defined on.
Stuck == [kind |-> "STUCK"]
\* There is no result, or not within an int, or strings and characters are compared,
\* whose text the tree does not have.
Undefined == [kind |-> "UNDEFINED"]

\* The quotient q with the remainder m: m has the sign of a and is smaller than b.
Divides(a, b, q, m) == a = b * q + m /\ Abs(m) < Abs(b) /\ m * a >= 0

Power(a, b) ==
  LET power[n \in 0 .. b] == IF n = 0 THEN 1 ELSE a * power[n - 1]
  IN  power[b]

Results(op, a, b) ==
  {v \in Ints :
     CASE op = "ADD" -> v = a + b
       [] op = "SUB" -> v + b = a
       [] op = "MUL" -> v = a * b
       [] op = "DIV" -> \E m \in Ints : Divides(a, b, v, m)
       [] op = "MOD" -> \E q \in Ints : Divides(a, b, q, v)
       [] op = "EXP" -> b >= 0 /\ v = Power(a, b)}

Holds(op, a, b) ==
  CASE op = "AND" -> {a, b} \cap {0} = {}
    [] op = "OR" -> {a, b} # {0}
    [] op = "EQ" -> a = b
    [] op = "N_EQ" -> a # b
    [] op = "LESS" -> a < b
    [] op = "L_EQ" -> a < b \/ a = b
    [] op = "GREATER" -> b < a
    [] op = "G_EQ" -> b < a \/ a = b

Apply(op, x, y) ==
  CASE op \in Arithmetic ->
         IF x.type # "integer" \/ y.type # "integer" THEN Stuck
         ELSE LET vs == Results(op, x.value, y.value)
              IN  IF vs = {} THEN Undefined ELSE Value("integer", CHOOSE v \in vs : TRUE)
    [] op \in Boolean ->
         IF x.type # y.type THEN Stuck
         ELSE IF x.type \in {"char", "string"} THEN Undefined
         ELSE Value("boolean", Bool(Holds(op, x.value, y.value)))

\* The meaning of e, given those of its operands.
Meant(e, l, r, args) ==
  CASE e.kind = "INT_LIT" -> Value("integer", e.value)
    [] e.kind = "BOOL_LIT" -> Value("boolean", e.value)
    [] e.kind = "CHAR_LIT" -> Value("char", e.value)
    [] e.kind = "STR_LIT" -> Value("string", e.value)
    [] e.kind = "IDENT" -> [kind |-> "IDENT", symbol |-> e.symbol]
    [] OTHER ->
         IF Stuck \in {l, r} THEN Stuck
         ELSE IF Undefined \in {l, r} THEN Undefined
         ELSE IF e.kind = "NOT" /\ l.kind = "VALUE"
              THEN IF l.type = "boolean" THEN Value("boolean", 1 - l.value) ELSE Stuck
         ELSE IF e.kind \in Arithmetic \cup Boolean /\ l.kind = "VALUE" /\ r.kind = "VALUE"
              THEN Apply(e.kind, l, r)
         ELSE Operation(e.kind, l, r, args)

MeaningOf(h, mean, i) ==
  IF i = 0 THEN Null
  ELSE LET e == h[i]
       IN  Meant(e, mean[e.left], mean[e.right], [k \in DOMAIN e.args |-> mean[e.args[k]]])

Meaning(h) ==
  LET mean[i \in 0 .. Len(h)] == MeaningOf(h, mean, i)
  IN  mean

-----------------------------------------------------------------------------
(* Properties.                                                             *)

Phases == {"parse", "checked", "folded", "generated", "trapped", "crashed", "undefined"}

\* Pointers lead to nodes created before, and what is folded is an int.
TypeOK ==
  /\ Len(node) <= MaxNodes
  /\ \A i \in DOMAIN node :
       /\ node[i].left \in 0 .. i - 1 /\ node[i].right \in 0 .. i - 1
       /\ node[i].args \in Seq(1 .. i - 1)
       /\ node[i].value \in Ints
  /\ stack \in Seq(DOMAIN node)
  /\ freed \subseteq DOMAIN node
  /\ phase \in Phases
  /\ errors \in BOOLEAN

\* An expression that expr_typecheck has no objection to has no operator that
\* meets constants it is not defined on, and when it is a constant it has the
\* type that was returned.
TypeSound ==
  phase = "checked" /\ ~errors =>
    LET m == Meaning(parsed)[Root]
    IN  m # Stuck /\ (m.kind = "VALUE" => type = Scalar(m.type))

\* A power of two constants is folded whose exponent is deeper than pow_int can go.
DeepPower ==
  \E i \in Visited(parsed)[Root] :
    LET l == Meaning(parsed)[parsed[i].left]
        r == Meaning(parsed)[parsed[i].right]
    IN  parsed[i].kind = "EXP" /\ l.kind = "VALUE" /\ r.kind = "VALUE" /\ r.value > PowDepth

\* Folding an expression that was accepted does not change what it means.  It stops
\* the compiler only for a power with too large an exponent, or for what means
\* nothing: here a division by zero, a negative exponent, a result beyond an
\* int, and a comparison of strings or characters.
ValuePreserved ==
  phase \in {"folded", "trapped"} /\ ~errors /\ Meaning(parsed)[Root] # Undefined =>
    IF phase = "folded" THEN Meaning(node)[Root] = Meaning(parsed)[Root] ELSE DeepPower

\* Nothing is left that a second pass would fold, an operator that it would come
\* to with constant operands: operands are folded before their operator is.
FoldedOnce ==
  phase = "folded" =>
    \A i \in Visited(node)[Root] :
      Folds(node[i]) => \E o \in {node[i].left, node[i].right} \ {0} : ~is_constant(node[o])

\* Whatever was folded and freed, errors or not, expr_codegen reads no operand
\* that is gone.
OperandsLive == phase = "folded" => "freed" \notin Faults(node, freed)[Root]
=============================================================================
