-------------------------------- MODULE Frames --------------------------------
(***************************************************************************)
(* Stack frames: src/src/typecheck.c numbers the parameters and locals of  *)
(* a function while it type checks the body, in two global variables that  *)
(* every function, nested ones too, shares; src/src/codegen lays out the   *)
(* frame and addresses the variables from those numbers.  As in Resolver   *)
(* the syntax tree is chosen on the way: after each declaration any other  *)
(* may come.  Blocks, branches and loops number nothing and are left out,  *)
(* and so are expressions but for the return statements.                   *)
(***************************************************************************)
EXTENDS Integers, SequencesExt

CONSTANTS Types,         \* return types
          NULL,
          Uninit,        \* a field malloc's memory was never written to
          NumArgRegs,    \* 6 in the code: ARG_REGS
          MaxParams,     \* bound: parameters of a function
          MaxSymbols,    \* bound: symbols in a run
          MaxNesting     \* bound: functions one inside the other

ASSUME TypesAssumption == NULL \notin Types /\ Uninit \notin Int

ASSUME FramesBounds == {NumArgRegs, MaxParams, MaxSymbols, MaxNesting} \subseteq Nat

VARIABLES
  symbols,        \* struct symbol of every declaration, in order
  which_counter,  \* typecheck.c's globals
  curr_return,
  active,         \* the functions whose decl_typecheck has not returned, innermost last
  checked         \* the last return statement: its function, and the type asked of it

vars == <<symbols, which_counter, curr_return, active, checked>>

\* The function a declaration is in, by its symbol; 0 for the file.
Owner == IF active = <<>> THEN 0 ELSE Last(active).fun

Symbol(by, which) == [by |-> by, fun |-> Owner, which |-> which, stack_size |-> Uninit]

\* SYMBOL_LOCAL or SYMBOL_GLOBAL, as name resolution has set it.
IsLocal == active # <<>>

Room(n) == Len(symbols) + n <= MaxSymbols

-----------------------------------------------------------------------------
Init ==
  /\ symbols = <<>>
  /\ which_counter = 0
  /\ curr_return = NULL
  /\ active = <<>>
  /\ checked = [fun |-> 0, type |-> NULL]

\* A declaration with a value: a local one takes the next number.
Variable ==
  /\ Room(1)
  /\ IF IsLocal
     THEN /\ symbols' = Append(symbols, Symbol("variable", which_counter))
          /\ which_counter' = which_counter + 1
     ELSE /\ symbols' = Append(symbols, Symbol("variable", Uninit))
          /\ UNCHANGED which_counter
  /\ UNCHANGED <<curr_return, active, checked>>

\* A declaration without a value, of a variable or a prototype.
NoValue(by) ==
  /\ Room(1)
  /\ symbols' = Append(symbols, Symbol(by, Uninit))
  /\ UNCHANGED <<which_counter, curr_return, active, checked>>

Enters(n, ret) ==
  /\ Room(n + 1)
  /\ Len(active) < MaxNesting
  /\ LET f == Len(symbols) + 1
         param == [p \in 1 .. n |-> [by |-> "param", fun |-> f, which |-> p - 1,
                                     stack_size |-> Uninit]]
     IN /\ symbols' = Append(symbols, Symbol("function", Uninit)) \o param
        /\ active' = Append(active, [fun |-> f, ret |-> ret, saved |-> curr_return])
  /\ curr_return' = ret
  /\ UNCHANGED checked

\* Mutant: the locals are numbered from 0 again.
FunctionBegin_LocalsFromZero(n, ret) == Enters(n, ret) /\ which_counter' = 0

\* Mutant: the parameters are counted from -1.
FunctionBegin_OneLess(n, ret) == Enters(n, ret) /\ which_counter' = n - 1

\* decl_typecheck of a function up to its body: its return type becomes the
\* one to check against, and its n parameters take the numbers from 0.
FunctionBegin(n, ret) == Enters(n, ret) /\ which_counter' = n

Return ==
  /\ active # <<>>
  /\ checked' = [fun |-> Owner, type |-> curr_return]
  /\ UNCHANGED <<symbols, which_counter, curr_return, active>>

\* Mutant: the enclosing function's return type is not put back.
FunctionEnd_NoRestore ==
  /\ active # <<>>
  /\ symbols' = [symbols EXCEPT ![Owner].stack_size = which_counter]
  /\ active' = Front(active)
  /\ UNCHANGED <<which_counter, curr_return, checked>>

\* The body is done: its size is known and the enclosing return type back.
FunctionEnd ==
  /\ active # <<>>
  /\ symbols' = [symbols EXCEPT ![Owner].stack_size = which_counter]
  /\ curr_return' = Last(active).saved
  /\ active' = Front(active)
  /\ UNCHANGED <<which_counter, checked>>

\* The end of the file.
FileEnd == active = <<>> /\ UNCHANGED vars

Next ==
  \/ Variable
  \/ \E by \in {"uninitialised", "prototype"} : NoValue(by)
  \/ \E n \in 0 .. MaxParams, ret \in Types : FunctionBegin(n, ret)
  \/ Return
  \/ FunctionEnd
  \/ FileEnd

Spec == Init /\ [][Next]_vars

-----------------------------------------------------------------------------
(* The frame func_codegen lays out for a function whose size is known, in  *)
(* bytes from %rbp.                                                        *)

FunctionSymbols == {f \in DOMAIN symbols : symbols[f].by = "function"}
Done == {f \in FunctionSymbols : symbols[f].stack_size # Uninit}

Params(f) == {s \in DOMAIN symbols : symbols[s].fun = f /\ symbols[s].by = "param"}
Variables(f) == {s \in DOMAIN symbols :
                   symbols[s].fun = f /\ symbols[s].by \in {"param", "variable", "uninitialised"}}
Numbered(f) == {s \in Variables(f) : symbols[s].which # Uninit}
Nested(f) == {g \in FunctionSymbols : symbols[g].fun = f}

symbol_address(s) == -8 * symbols[s].which

\* "MOVQ %rsp, %rbp", then one PUSHQ for each of the first six parameters.
Pushed(p) == -8 * (p - Min(Params(symbols[p].fun)) + 1)

\* Mutant: four bytes are reserved for a local.
Reserved_Halved(f) ==
  LET params == Cardinality(Params(f))
  IN 8 * Min({params, NumArgRegs}) + 4 * (symbols[f].stack_size - params)

\* The PUSHQs and "SUBQ $locals * 8, %rsp"; the saved registers come below.
Reserved(f) ==
  LET params == Cardinality(Params(f))
  IN 8 * Min({params, NumArgRegs}) + 8 * (symbols[f].stack_size - params)

\* The words the epilogue reads: %r15 to %rbx from where the prologue has pushed
\* them, then from %rbp up what POPQ %rbp and RET take, which nothing pushed.
Popped(f) == {-Reserved(f) - 8 * k : k \in 1 .. 5} \cup {0, 8}

-----------------------------------------------------------------------------
(* Properties.                                                             *)

SymbolRecords == [by : {"variable", "uninitialised", "prototype", "function", "param"},
                  fun : Nat, which : Nat \cup {Uninit}, stack_size : Nat \cup {Uninit}]

Activations == [fun : Nat \ {0}, ret : Types, saved : Types \cup {NULL}]

\* Every variable holds a value of its type.
TypeOK ==
  /\ symbols \in Seq(SymbolRecords)
  /\ which_counter \in Nat
  /\ curr_return \in Types \cup {NULL}
  /\ active \in Seq(Activations)
  /\ checked \in [fun : Nat, type : Types \cup {NULL}]

\* In a function with no other inside it the parameters and initialised locals
\* have different numbers below its stack_size, wherever the function stands and
\* whatever was numbered before it.
SlotsDistinct ==
  \A f \in Done : Nested(f) = {} =>
    /\ \A s \in Numbered(f) : symbols[s].which \in 0 .. symbols[f].stack_size - 1
    /\ \A s, t \in Numbered(f) : symbols[s].which = symbols[t].which => s = t

\* A return statement is checked against the type of the function it is in,
\* also after a nested function, that has its own, has ended.
ReturnsOwnType ==
  /\ active # <<>> => curr_return = Last(active).ret
  /\ \A a \in DOMAIN active : checked.fun = active[a].fun => checked.type = active[a].ret

\* Of the words the epilogue reads, writing a variable that has a number changes
\* none but 0(%rbp), which goes to %rbp, and that only if its number is 0: the
\* five registers the prologue saved are never written.  For functions with none
\* inside them and at most one parameter more than come in registers, from where
\* on the frame is too small; it says nothing of a local without a value, whose
\* number is what malloc left.
SavedRegistersSafe ==
  \A f \in Done : Nested(f) = {} /\ Cardinality(Params(f)) <= NumArgRegs + 1 =>
    \A s \in Numbered(f) : symbol_address(s) \in Popped(f) =>
      symbol_address(s) = 0 /\ symbols[s].which = 0

\* "num of params and locals in function"
StackSizeCounts ==
  \A f \in Done : symbols[f].stack_size = Cardinality(Variables(f))

\* A parameter is read from where the prologue has put it.
ParamsFound ==
  \A f \in Done : Nested(f) = {} => \A p \in Params(f) : symbol_address(p) = Pushed(p)
=============================================================================
