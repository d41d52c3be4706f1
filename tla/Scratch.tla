-------------------------------- MODULE Scratch --------------------------------
(***************************************************************************)
(* The scratch registers: src/src/codegen/utility.c hands them out,        *)
(* expr_codegen and stmt_codegen of src/src/codegen/codegen.c and the      *)
(* printing code of src/src/codegen/print.c take and free them, and the    *)
(* code they emit runs on them.  As in Resolver `todo` is the C call stack *)
(* and the tree is chosen on the way.                                      *)
(*                                                                         *)
(* Abstractions: what a register holds, when the emitted code runs, is the *)
(* place on the stack of values it was loaded for.  An assignment is left  *)
(* out, it leaves its right side where it is.  Labels and the run-time     *)
(* stack are left out, and so are strings printed as literals, which take  *)
(* no register.                                                            *)
(***************************************************************************)
EXTENDS Naturals, SequencesExt

CONSTANTS NUM_SCRATCH,   \* 7 in the code, of which each is saved by caller or callee
          MaxDepth       \* bound: what is left to do, and the values on the stack

ASSUME ScratchAssumption == NUM_SCRATCH \in 0 .. 7 /\ MaxDepth \in Nat

VARIABLES
  used,     \* the registers marked used in scratch[]
  vals,     \* e->reg of the expressions generated and not consumed, e->right's last
  holds,    \* for each register the place in vals it has the value of; 0: none
  todo,     \* what is left to do, the next thing first
  ended,    \* how the compiler has ended, if it has
  lost,     \* history: registers whose value was consumed and that were not freed
  strayed   \* history: an e->reg was used that nothing had written

vars == <<used, vals, holds, todo, ended, lost, strayed>>

Registers == 0 .. NUM_SCRATCH - 1

\* Registers by their place in scratch[]: %r10 and %r11 are pushed around a
\* call, the others by the prologue of the function that is called.
PushedAroundCall == {1, 2}
PushedByPrologue == {0} \cup 3 .. 6

\* The system call itself overwrites %r11.
SyscallOverwrites == {2}

At(what) == todo # <<>> /\ Head(todo) = what
Then(items) == todo' = items \o Tail(todo)
Goes(items) == /\ Len(items) + Len(todo) - 1 + Len(vals) <= MaxDepth
               /\ Then(items)

-----------------------------------------------------------------------------
(* utility.c                                                               *)

\* Mutant: the loop looks at one register too many.
scratch_alloc_OneMore(u) ==
  {r \in 0 .. NUM_SCRATCH : r \notin u /\ \A q \in Registers : q < r => q \in u}

\* The register found, in a set; none when all are used, which ends the compiler.
scratch_alloc(u) == {r \in Registers : r \notin u /\ \A q \in Registers : q < r => q \in u}

\* A register number that is none writes outside scratch[].
scratch_free(u, r) == u \ {r}

-----------------------------------------------------------------------------
(* The stack of values.                                                    *)

Left == vals[Len(vals) - 1]
Right == Last(vals)
Below(n) == SubSeq(vals, 1, Len(vals) - n)

\* Register r is loaded with the value that is now the last, in place of n.
Load(r, n) ==
  /\ vals' = Append(Below(n), r)
  /\ holds' = [q \in Registers |-> IF q = r THEN Len(vals) - n + 1
                                   ELSE IF holds[q] > Len(vals) - n THEN 0
                                   ELSE holds[q]]

-----------------------------------------------------------------------------
(* expr_codegen                                                            *)

TakesRegister ==
  /\ \E r \in scratch_alloc(used) : used' = used \cup {r} /\ Load(r, 0)
  /\ UNCHANGED <<ended, lost, strayed>>

\* Identifiers and literals.
Leaf == (At("eval") \/ At("leaf")) /\ TakesRegister /\ Then(<<>>)

\* INC, DEC
IncDec == At("eval") /\ TakesRegister /\ Then(<<>>)

\* The operands of a binary operator, left before right; an index has an
\* identifier on its left.
Binary ==
  /\ At("eval")
  /\ \/ \E op \in {"sum", "product", "compare"} : Goes(<<"eval", "eval", op>>)
     \/ Goes(<<"leaf", "eval", "index">>)
  /\ UNCHANGED <<used, vals, holds, ended, lost, strayed>>

\* EXP, AND, OR and NOT have no case: e->reg is what malloc left there, and
\* NUM_SCRATCH stands for the numbers that are no register.
NoCase ==
  /\ At("eval")
  /\ \E r \in 0 .. NUM_SCRATCH : vals' = Append(vals, r)
  /\ strayed' = TRUE
  /\ Then(<<>>)
  /\ UNCHANGED <<used, holds, ended, lost>>

\* Mutant: the left operand stays in its register.
Sum_NoFree ==
  /\ At("sum")
  /\ UNCHANGED used
  /\ Load(Right, 2)
  /\ Then(<<>>)
  /\ UNCHANGED <<ended, lost, strayed>>

\* ADD, SUB: the result replaces the right operand.
Sum ==
  /\ At("sum")
  /\ used' = scratch_free(used, Left)
  /\ Load(Right, 2)
  /\ Then(<<>>)
  /\ UNCHANGED <<ended, lost, strayed>>

FreedOperands == scratch_free(scratch_free(used, Left), Right)

\* MUL, DIV, MOD: through %rax into a new register.
Product ==
  /\ At("product")
  /\ \E r \in scratch_alloc(FreedOperands) : used' = FreedOperands \cup {r} /\ Load(r, 2)
  /\ Then(<<>>)
  /\ UNCHANGED <<ended, lost, strayed>>

\* The comparisons: scratch_free(e->left) is given the operand, not its
\* register, and so the registers of both stay as they are.
Compare ==
  /\ At("compare")
  /\ \E r \in scratch_alloc(used) : used' = used \cup {r} /\ Load(r, 2)
  /\ lost' = lost \cup ({Left, Right} \cap used)
  /\ Then(<<>>)
  /\ UNCHANGED <<ended, strayed>>

\* INDEX: the operands are freed when the result has its register.
Index ==
  /\ At("index")
  /\ \E r \in scratch_alloc(used) : used' = FreedOperands \cup {r} /\ Load(r, 2)
  /\ Then(<<>>)
  /\ UNCHANGED <<ended, lost, strayed>>

\* Mutant: the caller saves nothing.
Kept_CalleeOnly == PushedByPrologue

\* What a register holds is there again after a call.
Kept == PushedAroundCall \cup PushedByPrologue

\* FUN_CALL, if the callee returns: each argument, an identifier or a literal, is loaded, moved and
\* freed before the next one; the result gets its register after the call.
FunCall ==
  /\ At("eval")
  /\ \E r \in scratch_alloc(used) :
       /\ used' = used \cup {r}
       /\ vals' = Append(vals, r)
       /\ holds' = [q \in Registers |-> IF q = r THEN Len(vals) + 1
                                        ELSE IF q \in Kept THEN holds[q] ELSE 0]
  /\ Then(<<>>)
  /\ UNCHANGED <<ended, lost, strayed>>

\* ARRAY: a second register runs over the items and is freed.
Array ==
  /\ At("eval")
  /\ \E r \in scratch_alloc(used) :
       /\ scratch_alloc(used \cup {r}) # {}
       /\ used' = used \cup {r}
       /\ Load(r, 0)
  /\ Then(<<>>)
  /\ UNCHANGED <<ended, lost, strayed>>

-----------------------------------------------------------------------------
(* stmt_codegen, decl_codegen and func_body_codegen, by what they do with  *)
(* the value of their expression.                                          *)

Statement ==
  /\ todo = <<>> /\ ended = "no"
  /\ \E use \in {"done", "print_str", "print_int"} : todo' = <<"eval", use>>
  /\ UNCHANGED <<used, vals, holds, ended, lost, strayed>>

\* STMT_EXPR: decl_codegen is given the expression and takes its str_value for
\* a symbol.  It survives that, if at all, when the expression is a string;
\* then a register is freed that nothing has set.
ExprStatement ==
  /\ todo = <<>> /\ ended = "no"
  /\ \E r \in 0 .. NUM_SCRATCH : used' = scratch_free(used, r) /\ lost' = lost \ {r}
  /\ UNCHANGED <<vals, holds, todo, ended, strayed>>

Consumed == /\ vals' = <<>>
            /\ holds' = [q \in Registers |-> 0]
            /\ Then(<<>>)

\* A local's value is stored, a condition tested, a value returned, a character
\* or boolean printed, and the register is free again.
Done ==
  /\ At("done")
  /\ used' = scratch_free(used, Right)
  /\ Consumed
  /\ UNCHANGED <<ended, lost, strayed>>

\* print_str_codegen has two registers more, and frees them.
PrintStr ==
  /\ At("print_str")
  /\ \E r \in scratch_alloc(used) : scratch_alloc(used \cup {r}) # {}
  /\ used' = scratch_free(used, Right)
  /\ Consumed
  /\ UNCHANGED <<ended, lost, strayed>>

\* print_i_to_a: num_digits counts the digits pushed ...
PrintInt == At("print_int") /\ TakesRegister /\ Then(<<"print_loop">>)

\* ... each round of its second loop writes one ...
PrintLoop ==
  /\ At("print_loop")
  /\ holds' = [q \in Registers |-> IF q \in SyscallOverwrites THEN 0 ELSE holds[q]]
  /\ Then(<<"dec_digits">>)
  /\ UNCHANGED <<used, vals, ended, lost, strayed>>

\* ... and counts down; num_digits is not freed.
DecDigits ==
  /\ At("dec_digits")
  /\ used' = scratch_free(used, Left)
  /\ lost' = lost \cup ({Right} \cap Registers)
  /\ Consumed
  /\ UNCHANGED <<ended, strayed>>

-----------------------------------------------------------------------------
Ends(how) ==
  /\ ended' = how
  /\ todo' = <<>>
  /\ UNCHANGED <<used, vals, holds, lost, strayed>>

\* scratch_alloc finds no register: exit(1).
OutOfRegisters ==
  /\ \/ /\ At("eval") \/ At("leaf") \/ At("compare") \/ At("index") \/ At("print_int")
        /\ scratch_alloc(used) = {}
     \/ /\ At("eval") \/ At("print_str")
        /\ Cardinality(Registers \ used) < 2
     \/ At("product") /\ scratch_alloc(FreedOperands) = {}
  /\ Ends("exit")

\* The compiler is stopped by what it does: an integer printed with %s, the
\* symbol of a call or an array that nothing has set, a write outside
\* scratch[], an expression taken for a declaration.
Crash ==
  /\ ended = "no"
  /\ todo = <<>> \/ At("eval") \/ At("compare") \/ strayed
  /\ Ends("crash")

Stopped == ended # "no" /\ UNCHANGED vars

Init ==
  /\ used = {}
  /\ vals = <<>>
  /\ holds = [q \in Registers |-> 0]
  /\ todo = <<>>
  /\ ended = "no"
  /\ lost = {}
  /\ strayed = FALSE

Next ==
  \/ Statement \/ ExprStatement
  \/ Leaf \/ IncDec \/ Binary \/ NoCase \/ Sum \/ Product \/ Compare \/ Index \/ FunCall \/ Array
  \/ Done \/ PrintStr \/ PrintInt \/ PrintLoop \/ DecDigits
  \/ OutOfRegisters \/ Crash \/ Stopped

Spec == Init /\ [][Next]_vars

-----------------------------------------------------------------------------
(* Properties.                                                             *)

TodoItems == {"eval", "leaf", "sum", "product", "compare", "index", "done",
              "print_str", "print_int", "print_loop", "dec_digits"}

\* Every variable holds a value of its type.
TypeOK ==
  /\ used \subseteq Registers
  /\ vals \in Seq(0 .. NUM_SCRATCH)
  /\ holds \in [Registers -> Nat]
  /\ todo \in Seq(TodoItems)
  /\ ended \in {"no", "exit", "crash"}
  /\ lost \subseteq Registers
  /\ strayed \in BOOLEAN

\* While every operator has a case, each value that is still to be consumed is
\* in a register of its own, marked used, and is there when the code that
\* consumes it runs, whatever was computed or called in between.
OperandsIntact ==
  ~strayed /\ ~At("dec_digits") =>
    \A p \in DOMAIN vals : vals[p] \in used /\ holds[vals[p]] = p

\* A register is marked used exactly while it holds a value to be consumed, or
\* was an operand of a comparison or the counter of a printed integer: nothing
\* else runs the compiler out of registers.
RegistersAccounted ==
  ~strayed => /\ used = lost \cup Range(vals)
              /\ lost \cap Range(vals) = {}

\* "count # of converted digits": num_digits is that count when the loop over
\* the digits tests it.
DigitsCounted ==
  ~strayed /\ At("dec_digits") => holds[Right] = Len(vals)
=============================================================================
