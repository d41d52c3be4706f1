# Verification of the bminor compiler

bminor (`src/`) is a compiler for B-Minor, in C, to x86_64 assembly. It is one
process and one thread, reads one file and runs its passes one after the other. Its
own README says it "isn't 100% functioning"; the models below say what the code
does, and the properties what of it can be relied upon. Five runs have a violated
property as their result: each states what a comment or an example in the repository
says and the code does not do.

## 1. Inventory

| Component | State it keeps | Operations | What would make it correct |
|---|---|---|---|
| Hash table (`hash.c`) | the array of entries, `capacity`, `length` | `ht_create`, `ht_get`, `ht_set` (over `ht_expand`, `ht_set_entry`, `hash_key`); `ht_length`, iterator, `ht_destroy` | it is a map; every probe ends; `ht_set` returns; a failed call changes nothing |
| Scopes (`stack.c`, `symbol.c` 1-88) | the linked stack of tables `symbol_stack` | `scope_enter`, `scope_exit`, `scope_bind`, `scope_lookup`, `scope_lookup_current`, `scope_level` | entered and left in pairs; lookups find the innermost declaration |
| Name resolution (`symbol.c` 90-234) | the C stack of the recursive walk; the symbols put in the tree | `decl_resolve`, `stmt_resolve`, `expr_resolve`, `param_list_resolve` | each identifier gets the declaration lexical scoping gives it; the storage kind is right |
| Type checker (`typecheck.c`) | `curr_return`, `which_counter`, heap-allocated types | `decl_typecheck`, `stmt_typecheck`, `expr_typecheck`, `type_copy`, `type_delete`, `type_equals` | slots are distinct; a return is checked against its function; no type is used after it is freed or freed twice |
| Constant folder (`constant_fold.c`) | the tree, rewritten in place | `constant_fold_decl/stmt/expr`, `pow_int` | the value of an expression is kept; no freed operand is reachable |
| Control-flow graph (`cfg.c`) | the graph | `cfg_construct`, `cfg_construct_block`, `cfg_for_loop`, `cfg_if_else`, `cfg_push_back` | each statement is on exactly the paths it is on in the source; construction ends |
| Code generator (`codegen/*.c`) | `scratch[]`, `data`, `label_count`, `str_count` | `cfg_codegen`, `func_codegen`, `stmt_codegen`, `expr_codegen`, `scratch_alloc/free`, `add_str`, the printing code | operands stay in their registers; variables, saved registers and arguments do not overlap; labels are unique |
| Scanner (`scanner.flex`) | start condition, string buffer, its write position | the rules for comments, strings and characters | tokens and line numbers; the buffer is not overrun |
| Parser (`parser.y`), syntax tree (`ast/*.c`) | the tree | grammar actions, node constructors, printers | every list is linked completely |
| Driver (`main.c`) | - | calls the passes in order, ignoring what they reported | each pass runs only on what it may run on |

How they interact: the parser calls the scanner and builds the tree. `main` wraps
name resolution in one scope; resolution binds each declaration's symbol in a table
of the scope stack, which is a hash table, and writes it into the tree. The tables
are left (and leaked) when their scope ends; from then on the symbol objects in the
tree are the only link between passes. The type checker writes `which` and
`stack_size` into them, the code generator reads both, and nothing but that
numbering ties the prologue's pushes to the addresses of variables. The folder and
the graph builder rewrite the tree in place, and the generator type checks what is
left of it again while printing.

What is hard. There is no concurrency and nothing is persisted. The difficulties are
long-range agreements between pieces of code that run at different times (kinds,
numbers and sizes decided in one pass and used in another), global variables shared
by recursive functions (`which_counter`, `curr_return`, `symbol_stack`,
`scratch[]`), partial failure (allocations, and errors that are printed and
forgotten), manual ownership of nodes and types, limits (a full table, seven
registers, six argument registers, a 256-byte buffer), and memory malloc returned
that nothing wrote to. `PROJECT.json` lists these as hazards, at their lines.

## 2. The modules

| Module | Models | Kind |
|---|---|---|
| `StringMap` | what `hash.h` promises of `ht_get` and `ht_set` | abstract specification |
| `HashTable` | `hash.c` | implements `StringMap` |
| `HashTableProofs` | theorems about `HashTable` | proofs |
| `LexicalScoping` | what `symbol.h` promises of names | abstract specification |
| `Resolver` | `symbol.c` over `stack.c`, as `main.c` calls it | implements `LexicalScoping` |
| `ResolverProofs` | theorems about `Resolver` | proofs |
| `Frames` | slots and return types in `typecheck.c`, frames and addresses in `codegen` | detailed |
| `FramesProofs` | theorems about `Frames` | proofs |
| `Scratch` | `scratch[]` in `codegen`, and what the registers hold | detailed |
| `ScratchProofs` | theorems about `Scratch` | proofs |
| `Expressions` | one expression through parser, `typecheck.c`, `constant_fold.c` and generation | passes composed, against a reference meaning |
| `ExpressionsProofs` | theorems about `Expressions` | proofs |
| `Statements` | declarations and statements through all passes, as `main.c` calls them | passes composed |
| `StatementsProofs` | theorems about `Statements` | proofs |
| `Recursion` | induction and recursion over numbers and sequences, which the proofs share | lemmas |
| `Scanner` | the rules of `scanner.flex` | detailed |
| `ScannerProofs` | theorems about `Scanner` | proofs |
| `MC...` | instances for TLC, one for each detailed module | |

The passes meet in three modules. `Statements` has the tree as a whole and leaves
names and expressions out: whether a declaration is refused is chosen there and
explained by `Resolver`, whether an expression stops a pass is chosen there and
explained by `Expressions`. `Resolver` in turn uses the map `HashTable` is shown to
be, and `Frames` starts from symbols as `Resolver` leaves them.

### HashTable

`entries`, `capacity`, `length` are the fields of `struct ht`; `key`, `value`,
`new_entries`, `i` the arguments and locals of a call of `ht_set` in progress and
`pc` where it is. `ht_set` is split where its state matters: the test of the load
(`ht_set`), the allocation of the larger array (`ht_expand`, `ExpandFails`), each
round of the copying loop (`MoveEntry`), the swap (`SwapEntries`) and the insertion
(`SetEntry`, `StrdupFails`). `ht_get` is one step: it changes nothing. The probing
loops are the operator `FirstStop`: the first of the `capacity` slots, from the home
slot round, that is empty or has the key; that there always is one is the property
`ProbingTerminates`. `hash` is fixed in the initial state to any function from keys
to hash values, so every pattern of collisions occurs. Any allocation may fail.
`size_t` arithmetic is modulo `SizeLimit`. Refinement mapping: the map of
`StringMap` is `Contents`, the value in the slot with the key, whether or not a
probe would get there - so that an unreachable entry shows as a difference.

### Resolver

The walk of the tree is recursive and the tree comes from the parser. `todo` is the
C stack with the next thing first; at a place where the grammar allows a
declaration, statement or expression, any may come. So one run of TLC covers all
trees within the bounds. `symbol_stack` is the stack of tables, each a function from
names to symbols (what `HashTable` is shown to be). The order in the code is kept:
the kind is decided, then the value resolved, then the name bound, then for a
function a scope entered, the parameters bound, the body resolved and the scope
left. The comparison of `d->name` with the literal `"main"` compares addresses and
is never true: its branch is dead and left out.

Allocations may fail. Almost everywhere that ends the process, by `exit` or by a
null pointer that is followed (`Stop`). Not so in `scope_enter`: a table that
`ht_create` could not make is pushed as a null pointer, and a node `push` could not
make is missing (`ScopeMissing`), and the walk goes on in the scope around it.
`failed` remembers that. The properties about balanced scopes are about runs in
which it did not happen; `MissingNoticed` is about those in which it did.

Refinement mapping: `live` of `LexicalScoping` is the set of all entries of all
tables with the position of their table and whether they are parameters, and `begun`
the declaration whose value is being resolved. `LexicalScoping` lets a declaration
begin only where its scope has no such name, lets nothing but uses come before it is
bound, and lets only a parameter take the place of another entry. So dropping the
check for a re-declaration violates `LexicallyScoped`, and binding a variable before
its value would, or searching the tables from the wrong end. It holds where scopes
are missing, too: then the scopes are the tables that are there.

### Frames

The declarations come in any order and nesting. `symbols` are the `struct symbol`s,
with `which` and `stack_size` either a number or `Uninit`, what malloc left.
`which_counter` and `curr_return` are the globals; `active` are the activations of
`decl_typecheck` that are inside a body, with the local `t` that saves `curr_return`
(`saved`). `Reserved`, `Pushed`, `Popped` and `symbol_address` compute, from the
finished symbols, what `func_codegen` and `symbol_address` print. `Popped` are the words
the epilogue reads: those of the five registers the prologue saved, and, after `%rsp`
is set to `%rbp`, 0(%rbp) for `%rbp` and the next one for `RET`. A declaration that
resolution refused has no symbol, and is not part of this model.

### Scratch

`used` is the `used` field of `scratch[]`; `vals` the registers of the expressions
generated and not yet consumed, `todo` the C stack, as in `Resolver`. `holds` is
about the emitted code: of which of these values each register has the value when
that code runs. So `OperandsIntact` relates the allocator's bookkeeping to what
calls and system calls do to registers. The undefined parts of the code are modelled
as choices: an expression kind without a case yields any register number or none
(`NoCase`), the free of a comparison's operand - which passes a pointer - writes
outside the table or crashes, and so on (`Crash`).

### Expressions

A node is a record of the fields of `struct expr` the passes read. `node` is the heap:
the nodes in the order in which `expr_create` made them, and a pointer is a number, 0
the null pointer; `freed` are the nodes that were freed. The parser's reductions
(`Leaf`, `Binary`, `Call`, ...) combine the expressions on its `stack` in every way
the grammar allows, since parentheses make any expression an operand; a parsed one
goes through `Typecheck`, `ConstantFold` and either `Generate` or `PrintStatement`.
The passes have the names they have in the code: `expr_typecheck` (one rule for each
case of its `switch`), `constant_fold_expr`, `pow_int`, `expr_codegen`. Each calls
itself for the operands of a node, which have smaller numbers: so it is a recursive
function of the number, for a heap, and what it does at one node (`TypecheckNode`,
`FoldNode`, `FreedBy`, `NodeFaults`) is an operator of its own. `Visited` are the nodes
`constant_fold_expr` comes to from one of them: it rewrites those and no others.
`Meaning` is the reference: what an expression stands for, computed without any of
the passes. `main` does not look at what the type checker reported, so trees with
errors are folded and generated as well.

What the code does with memory it should not touch is kept apart by its kind. A null
pointer that is followed is `crash`. A field that was never written or an object
freed before is `unset`: the compiler may go on as if it held a null pointer, or do
anything, which ends the run in the phase `undefined`. Every type that `type_copy`
made is one (`CopyVerdict`): it leaves `subtype` and `params` unwritten where the
original has none, and `type_delete` and calls read both. So are the symbol of an
array literal in the type checker, and those of an array and of a call in the
generator. A folded operand is put into `freed`, since the folder frees it and leaves
the pointer. A division that traps is a `Trap`, and so is a power whose exponent is
negative or more than `PowDepth`: `pow_int` calls itself once for every unit of the
exponent, and `PowDepth` is how many calls the compiler's stack has room for.
Two more consequences, visible in every behaviour: unary minus, which the parser
builds as a subtraction with no left operand, always stops the type checker; a
literal that is not zero is printed with `%s`, as if its value were an address
(`codegen.c:362`).

### Statements

A node is a declaration or a statement. The nodes are numbered as the parser creates
them, the parts of one before it, and `node` has them in that order. What a pointer
leads to by way of `next` is a sequence of these numbers: the `body` and `else_body`
of a node, the `program`, each entry of the parser's `stack`. The reductions build
every program. `stmt_print_pushback` and `Linked` say what `next` is set to, and
`List` applies them from the last statement to the first, as the grammar's rules do.
For each node the history variable `text` keeps the nodes it is made of in the order
of the source, whatever was linked how; `source` is that of the whole program and
what the properties compare with. `Walk` is the common shape of `decl_resolve`,
`decl_typecheck`, `constant_fold_decl` and their statement parts: what they do at one
node is `WalkNode`, and since its parts have smaller numbers, the function that calls
itself for them is a recursive function of the number. `visited` has what each pass
came to. `cfg_construct`, `BlockOf` and `stmt_codegen`, at one node `StatementCode`,
are the graph builder and the generator. What they do with parts of the language is
part of the model: a branch in braces is only reported (`codegen.c:338`); a print
whose type the generator has no case for, or a global of such a type, is passed over
silently (`Mute`); a declaration with neither value nor body ends the list of graphs.

Memory that nothing wrote to is not taken for null. A declaration that was refused,
or is inside one that was, has the symbol `malloc` left in it (`Unresolved`): the type
checker may crash, do anything (`undefined`), or go on, and whether code is generated
for such a declaration is open. Likewise a branch outside braces, whose condition is
written through a pointer nothing has set (`cfg.c:20`), a declaration taken for a
graph because the one before it has neither value nor body (`cfg.c:99`: so in a program
that begins with a prototype nothing after it is generated as it should be), and a
statement expression, which is passed on as a declaration: each is a `Fault`, and all
but the branch, where nothing can be said of the graph any more, may also go
unnoticed. `Stopped` is the expression that stops a pass.

### Scanner

`input` is the file, over ten classes of characters, chosen in the initial state;
`pos` the next one. Each rule is an action, or a few rules of one kind are; its
pattern is the guard, with what flex decides (the longer match, then the earlier
rule) written out. `text` is `str_buf` up to `str_buf_ptr`, `written` how many of
its cells were ever written. The rules differ in whether they store before they look
at the length or after. A comment's rule for asterisks takes what follows them as
well, but never a slash: so two asterisks before a slash do not close a comment. The
run `comments_closed` shows it against what the comment beside that rule says
(`scanner.flex:180`); `CommentExtent` is what can be proved instead. The class `other`
holds characters that begin a token as well as those, like `#` or a lone `&`, that
only the rule for anything else takes: they are a token or an error.

## 3. The runs

| Run | Instance | What it shows |
|---|---|---|
| `hash_table` | 3 keys, all hash functions onto {0, 3, 5, 7}, 2 values, capacities 2, 4, 8, `SizeLimit` 16 | well typed; probing ends, also when the table may not grow; `length` right; `hash & (capacity-1)` is `hash % capacity`; the table implements `StringMap`; `ht_set` always returns |
| `resolver` | 2 names, 4 symbols, 4 open scopes, any allocation failing | scopes balance; kinds are right; a function's own name is bound in its body; `LexicalScoping` is implemented, with a declaration refused exactly when its scope has the name; a scope that could not be made is noticed before resolution ends |
| `prototype_then_definition` | the same, smaller | violated: a definition after its prototype is refused |
| `frames` | 6 symbols, 3 nested functions, 3 parameters, 2 argument registers | slots distinct, returns checked against their own function; the saved registers' words are no variable's, and of what else the epilogue reads only 0(%rbp) is one, slot 0 |
| `stack_size_counts` | 4 symbols | violated: a local without a value is not counted |
| `params_found` | 4 symbols | violated: a parameter is not read from where it was pushed |
| `scratch` | 4 registers, depth 7 | operands survive; exactly the listed registers are lost |
| `digits_counted` | 4 registers | violated: the second integer printed has its counter overwritten |
| `expressions` | 5 nodes, `INT_MAX` 7, `PowDepth` 2, literals 2 and 3, an integer, an array and a function | the type checker is sound for constants; folding keeps the meaning and stops the compiler only for what has none or too deep a power; it leaves nothing to fold, and nothing freed is generated |
| `statements` | 5 nodes, 2 items to a print statement | every pass visits every node once and in order; what is generated is in order, and complete but for what `GeneratedInOrder` lists |
| `scanner` | 6 characters, a buffer of 3 | the buffer holds; strings are stored as written; lines are counted |
| `comments_closed` | 5 characters | violated: `**/` does not close a comment |

Bounds. Hash table: three keys make two doublings (at 1 of 2 and 2 of 4), and of the
hashes 3 and 7 collide in four slots but not in eight, 3 and 5 in two but not in four,
with wrap-around in every array. That doubling wraps `size_t` is never reached, but
`ExpandFails`, which stands for it as for an allocation that fails, may happen
whenever the table is to grow. Resolver: four symbols are enough for an outer and a
shadowing declaration with a function and a parameter, and four scopes for the file, a
function, a block or branch in it and one more; the program's length is not bounded, since the walk
returns to the same states. Frames: six symbols hold a nested function with a
parameter between two locals of the outer one, or three parameters of which one
exceeds the argument registers. Scratch: four registers, two of each kind (pushed by
the caller, pushed by the callee), run out both by depth and by loss. Expressions:
five nodes are an operator over another one and a third operand, or over two
negations, or a call with three arguments; with ints from -8 to 7 the
literals 2 and 3 give sums and products within and beyond an int, powers within and
beyond an int and, with a depth of two, beyond what `pow_int` can compute, negative
differences, a zero to divide by and remainders of either sign. Statements: five
nodes hold a function whose body is a block with two statements after one another,
and another declaration; two items are the least print statement with a list of its
own. Scanner: a buffer of three is filled by two characters, and six characters are
enough to open a string, fill the buffer with escapes or without, and go past it, or
for a comment with two asterisks, a slash and something after it. The names of `Resolver`
and the types of `Frames` are symmetric and declared so.

Fairness. Only `hash_table` uses it: weak fairness of `Continue`, the steps of
a call of `ht_set`. The compiler has one thread, so a call that was made runs on
until it returns; nothing is assumed of the caller. Deadlock is checked in every
run: the modules end in explicit steps (`Resolved`, `FileEnd`, `Stopped`, `Ended`).

Preconditions that some properties carry, and why:
- `SlotsDistinct` and `SavedRegistersSafe` are about functions with no function
  inside. A nested function restarts `which_counter` and it is not put back, so an
  outer function's later locals do take numbers in use. Nested functions are also
  never emitted by the graph builder; no comment says they are supported.
- `SavedRegistersSafe` is about functions with at most one parameter more than come in
  registers, seven: from eight on the prologue reserves too few words, and the last
  variables do overlap the saved registers. It is about variables that have a number; a
  local without a value has none (`StackSizeCounts`).
- `OperandsIntact` and `RegistersAccounted` hold until an operator without a case
  (`EXP`, `AND`, `OR`, `NOT` that were not folded) is generated. They also presume
  that a callee returns: the prologue never pushes `%rbp`, which the epilogue pops,
  so at present it does not (listed as a hazard).
- `ScopesBalanced`, `KindsMatchLevels` and `OwnNameBound` are about runs in which
  every scope got its table.
- `TypeSound` and `ValuePreserved` are about expressions the type checker accepted:
  of others no meaning is given. `OperandsLive` and `FoldedOnce` are about all of
  them.
- `ValuePreserved` leaves out what is `Undefined`: a division by zero, a negative
  exponent, results beyond an int (the folder computes in 32 bits, the emitted code
  in 64), and comparisons of strings or characters. The model has no text of theirs,
  and the folder compares none: it takes all strings for equal, and all characters.
  That is a hazard, with no property. And `ValuePreserved` lets one accepted expression
  with a meaning stop the folder: a power with an exponent beyond `PowDepth`
  (`1 ^ 1000000` is 1, a million calls deep).
- `GeneratedInOrder` leaves out branches, loops and what is in local functions (the
  code says of branches itself that they are not generated), prints and globals of a
  type the generator has no case for, and everything from the first declaration with
  neither value nor body on. Of declarations that were not resolved it says only
  where they are generated if they are. It is about runs that come to their end
  without a fault the model cannot follow (`undefined`).
- `WalkedInOrder` is about the passes that come to their end so.

## 4. The proofs

`HashTableProofs`, for every set of keys and values, hash function, initial capacity
and size limit (assumptions `SentinelAssumption` and `SizeAssumption`):
- `TypeCorrect`, `ProbingEnds`, `LengthCorrect`: the invariants of the runs.
- `Refinement`: `Spec => MapSpec`, the table implements the map.

`ProbingTerminates` is not inductive: that a probe ends says nothing about the next
insertion. The invariant `IInv` says of each array that it is a `Table`: no key
twice (`Unique`), no empty slot before a stored key on that key's probe
(`Reachable`), values exactly where keys are (`Filled`), and a free slot
(`HasRoom`). Linear probing keeps `Reachable` because slots are only ever filled.
While copying, `Copied` says that the new array has exactly the entries of the first
`i` slots, counted as well as looked up; together with "the load is at most half
when an insertion starts" it gives `HasRoom` after each doubling. The refinement
follows step by step: an insertion changes `Contents` at one key, and a completed
copy not at all.

`FramesProofs`, for every set of return types and every bound:
- `TypeCorrect`.
- `ReturnTypesRestored`: `ReturnsOwnType`. The invariant says that each activation
  saved the return type of the one around it (`Chain`), that activations are of
  different functions (`Increasing`), and that the last return statement checked
  belongs to its own function (`CheckedOwn`).

And, for every number of argument registers too:
- `SlotsAreDistinct`: `SlotsDistinct`. That finished functions have distinct slots
  says nothing of the one being checked. `InnermostFits` does: while the innermost
  function has none inside it, its numbers are distinct and below `which_counter`,
  which becomes its `stack_size`. That a function which is not the innermost has one
  inside it, and so is out of the property's reach, is `Inside`: activations are
  nested as their symbols are. `Earlier`, that a symbol belongs to an earlier one,
  gives a function that begins no symbols but its parameters.
- `SavedRegistersAreSafe`: `SavedRegistersSafe`, from the slots and arithmetic: the last
  number is below `stack_size`, which is at most one more than the words there are
  above the saved registers.

`ScannerProofs`, for files of every length and every size of `str_buf` (assumption
`ScannerAssumption`):
- `TypeCorrect`, `BufferHolds`, `LinesRight`, `StringsStoredAsSaid`: the invariants of
  the run.
- `CommentsEnd`: `CommentExtent`, a comment goes past a star and a slash only where
  another star precedes them.

`BufferInBounds` needs `RoomInBuffer`: while a string is read, one cell is still
free, so that a character stored before the length is looked at, or the final zero,
has its place. `CommentExtent` needs `PastStars`: where a comment stands before a
slash that follows an asterisk, there are two asterisks, because the rule for one
asterisk and a slash would have closed it. `LinesCounted` is the lemma `NextMoves`:
a rule takes no newline, or counts one and takes it last. `StoredAsSaid` compares the
text with what the string says when each character is judged by the backslashes
before it, all of them; a rule sees two characters. `InString` is what joins the two:
the next rule never begins with an escaped character (but for the end of the file
after a last backslash). That a character is escaped exactly when the one before it
is an unescaped backslash is the lemma `EscapedNext`.

`ResolverProofs`, for every set of names, number of symbols and depth of scopes
(assumptions `BoundsAssumption` and `NullAssumption`, that the null pointer is no
name, symbol or table):
- `TypeCorrect`, `ScopesStayBalanced`, `KindsStayRight`, `RecursionBound`,
  `MissingIsNoticed`: the invariants of the run.

None of them is inductive by itself; they speak of the stack of tables, while
what is about to happen to it is in `todo`. `Shape` says what a C stack of the walk
looks like: it ends with an exit, only the next scope to be entered is pending (on
top, or under the condition of an `if`), a declaration waits on top, parameters and
the exit from a function stand inside two scopes at least. So the number of exits
from an item on (`Level`) is the level of the scope the item runs in, and does not
change while other items come and go before it. `TablesCounted` ties that to the
stack: without a failure every scope has a table and the tables and the pending
scope are as many as the exits; after one, the tables are fewer, and stay fewer,
because every list of items a declaration or statement leads to enters as many
scopes as it leaves (`Group`). An exit without a table ends the process, so at the
end, with no exit left, nothing has failed. `Declared` says what is true while a
value is resolved between `symbol_create` and `scope_bind`: nothing else was bound,
the scope is the same, the kind still right. A function's name is safe because
every bind goes to the table on top, which while its exit is still to come is a
higher one (`OwnBelow`).

And `ImplementsScoping`, `Spec => LexicallyScoped`, the refinement. A declaration in
progress is the item on top of `todo`, where `Declared` keeps its scope and the
freedom of its name until it is bound. Most recent
means the largest number in the abstract specification and the first table from the
head down in the code. `Numbered` makes them the same: in tables further up the
stack the symbols have larger numbers. Where a scope has no table the search can
stop the process, but not find something else.

`ScratchProofs`, for every `NUM_SCRATCH` up to seven and every depth (assumption
`ScratchAssumption`: the code has seven registers, and which of them the caller and
which the callee saves is known for those alone):
- `TypeCorrect`, `OperandsSurvive`, `LossesExplained`: the invariants of the run.

`OperandsIntact` is not inductive for two reasons. An operator consumes the last two
values whether they are there or not: `Work` says that they are, because what is
left of the C stack, read as code for a machine with a stack of values, takes
exactly the values there are and leaves none (`Runs`, which gives each item the
number it finds). And the property is silent at one item, where the counter of a
printed integer has been overwritten: `Apart`, that the registers of the values are
different ones, holds there too and is what the other items rely upon.

`ExpressionsProofs`, for every `INT_MAX` and `PowDepth`, every set of literals and of
declared types, and expressions of every size (assumption `ExpressionsAssumption`):
- `TypeCorrect`, `TypeSoundness`, `FoldCorrect`, `FoldComplete`, `FreedSafely`: the
  invariants of the run.

What is proved of a pass is proved by induction over the nodes. An induction theorem
with an operator as its parameter cannot be used here; `UpTo`, the same for a set,
can: the numbers up to n are in a set that has each number whose predecessors it has.
It follows from the least number principle (`Least`), both in `Recursion`. First comes,
for each recursive function, that it is the solution of its equation (`FoldUnfold`, `TypecheckUnfold`,
...), because the equation at a node asks only for nodes before it. Then arithmetic:
`Quotient` and the remainder are the only pair that `Divides` (`QuotientDivides`,
`DividesUnique`); `pow_int`, which wraps at every step, is the power whenever the
power is an int (`PowIsPower`: then every smaller power is one, too). `Soundness` is
what makes folding correct: of an accepted expression the meaning is never `Stuck`,
so a constant meets only operators that are defined on it. With it `FoldMeaning` says
that a node folded to a literal means that literal, or is a `Trap` where a power below
it is too deep, and `MeaningKept` that no node changes its meaning when some are
replaced.

`FreedSafely` is not about one call of a pass but about the heap that the parser
leaves. The inductive invariant `IInv` says of it that it is a `Forest`: operands
were created before their operator, no node is an operand of two (`Apart`), and
those on the stack are operands of none. Without that, a freed operand could be
reached through another node. The folder frees only operands of what it makes a
literal (`FreedBelowLiterals`), and `expr_codegen` does not look below literals. For
the later passes `IInv` says that each left what it computes from what the parser
left (`parsed`), which is where the lemmas about the passes apply. `Forest` also says
that what is on the stack can be combined within `MaxNodes`.

`StatementsProofs`, for programs of every size and print statements of any number of
items (assumption `StatementsAssumption`):
- `TypeCorrect`, `PassesWalkInOrder`, `CodeFollowsSource`: the invariants of the run.

These say what a pass has done when it has ended, so all depends on what it started
from. The inductive invariant `IInv` says of the nodes that they are a `Forest`: the
parts of a node were created before it, no two of them share anything (`Apart`), and
its text is itself and then theirs. `Shaped` says which parts a node of a kind can
have, and that what the parser holds on its stack as one entry is one statement or a
list of prints (`Chain`). `Complete` says that the lists on the stack, and later the
program, are with all they are made of every node, once. Without `Chain` a statement
in front of a list could cut it (`ListOfChains`); without `Apart` a node could be met
twice. `Reduced` is the step of the parser: the parts leave the stack and the node
made of them takes their place, and nothing that was there changes (`Grown`).

The walks and the generation are one lemma. A recursive function that gives at each
node the node itself, or not, and then what it gives for the parts, unless it does not
enter them, gathers from a node exactly those it is made of that are inside none it
does not enter (`GathersNode`, by induction over the nodes; `GathersList` for a
list). Refused declarations are not entered by resolution (`WalkGathers`), branches
and local functions not by generation (`CodeGathers`). That each function of the
module satisfies its equation is `WalkUnfold` and `CodeUnfold`, from `Gathering` and,
since a function over numbers that asks for smaller ones only is unique,
`SameFunctions`. What comes of two declarations in a row is put together in the same
order, because leaving out of what is put together is putting together what is left
(`OnlyEach`). A block is cut at a return, and a function's body is one statement or
prints, so nothing is cut from it (`BlockOfChain`).

Only model-checked: `SetTerminates` (liveness) and `MaskIsHome` (bitwise and). That
the five documented claims of the violated runs fail is shown by TLC's
counterexamples.

## 5. Not modelled

- The automata flex and bison generate: the rules and the reductions are modelled,
  not the tables. With it go precedence, the rules for types and parameter lists,
  and array literals of more than one item.
- The printers of the tree, `ht_length`, the iterator and `ht_destroy`, which
  nothing calls.
- The value of a string token: it is a local array of the scanner's rule, gone when
  the parser reads it, and its copying loop does not advance. The value of a
  character literal is what `atoi` makes of its quote, 0.
- Which type objects are shared and freed. What reads a field `type_copy` left
  unwritten, or frees the names of a parameter list a second time, may crash in
  `Expressions`; the heap itself is not there.
- `cfg_for_loop`, `cfg_if_else` and `cfg_push_back`: before they link anything
  `cfg_branch_node` has written through a pointer that was never set.
- The run-time stack of the emitted program, beyond the layout of one frame; labels;
  the entries of the data section; the spelling of instructions.

`PROJECT.json` has the status of each component.

## 6. Plan

Done: 1-3 but for what is named there, 5, 6, 8 and 9.

1. `StringMap`, `HashTable`, `HashTableProofs`. Left: iterator and destroy.
2. `LexicalScoping`, `Resolver`, `ResolverProofs`.
3. `Frames`, `FramesProofs`.
4. `TypeHeap`: ownership of type objects under `type_copy` and `type_delete` (shared
   parameter names, copies with fields malloc left); hazards `typecheck.c:44` and
   `:81`.
5. `Expressions`, `ExpressionsProofs`: type checking and folding against a reference
   meaning; the life of freed operands.
6. `Statements`, `StatementsProofs`: graph construction and generation, for what has
   no branch.
7. `Scratch`, `ScratchProofs`. Left: the run-time stack (the missing push of `%rbp`,
   arguments beyond six, arrays).
8. `Scanner`, `ScannerProofs`.
9. The passes one after the other, with what each leaves behind for the next one
   (unset symbols, unresolved bodies, freed operands): in `Statements` and
   `Expressions`.
