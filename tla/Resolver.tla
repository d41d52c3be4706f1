------------------------------- MODULE Resolver -------------------------------
(***************************************************************************)
(* Name resolution: src/src/symbol.c over the stack of tables of           *)
(* src/src/stack.c.  decl_resolve, stmt_resolve, expr_resolve and          *)
(* param_list_resolve walk the syntax tree recursively; here `todo` is the *)
(* C call stack, what is left to do with the next thing first, and the     *)
(* tree is chosen on the way: at every point where the parser could have   *)
(* put something, any declaration, statement or identifier may come.       *)
(*                                                                         *)
(* Abstractions: a table is the map HashTable is shown to implement;       *)
(* expressions are the identifiers in them that expr_resolve reaches, in   *)
(* any number and order; types are left out.  `d->name == "main"` compares *)
(* the address of a heap string with that of a literal, never equal: the   *)
(* branch it guards is dead, and main is a name like any other.            *)
(*                                                                         *)
(* An allocation may fail.  Where the code looks at the result it ends the *)
(* process, where it does not it follows a null pointer: both are `Stop`.  *)
(* It does neither for the node and the table of a new scope.              *)
(***************************************************************************)
EXTENDS Naturals, SequencesExt

CONSTANTS Names, NULL,
          MaxSymbols,   \* bound: symbols created in a run
          MaxLevel      \* bound: scopes open at once

ASSUME BoundsAssumption == MaxSymbols \in Nat /\ MaxLevel \in Nat

VARIABLES symbol_stack,  \* the tables, the head of the list last
          todo,          \* what is left to do, the next thing first
          created,       \* how many symbols symbol_create has made
          said,          \* the last identifier resolved or re-declaration refused
          failed         \* history: whether a scope was entered without a table

vars == <<symbol_stack, todo, created, said, failed>>

-----------------------------------------------------------------------------
(* struct symbol, and the items of `todo`.                                 *)

\* decl_variable, decl_prototype of a data type, decl_prototype of a function
\* type, decl_function, and the parameters of one.
DeclKinds == {"variable", "uninitialised", "prototype", "function"}

\* Mutant: a field is left as malloc returned it.
Symbol_NoKind(n, kind, by) == [id |-> created + 1, name |-> n, kind |-> NULL, by |-> by]

Symbol(n, kind, by) == [id |-> created + 1, name |-> n, kind |-> kind, by |-> by]

Symbols == [id : 1 .. MaxSymbols, name : Names,
            kind : {"LOCAL", "PARAM", "GLOBAL"}, by : DeclKinds \cup {"param"}]

Tables == [Names -> Symbols \cup {NULL}]

\* The null pointer is no string, symbol or table.
ASSUME NullAssumption == NULL \notin Names \cup Symbols \cup Tables

\* A declaration in progress, and the exit from a function's scope, say whose.
Do(what) == [what |-> what, sym |-> NULL]
Declaring(s) == [what |-> "declare", sym |-> s]
ExitFrom(s) == [what |-> "exit", sym |-> s]

Items == [what : {"decls", "stmts", "stmt", "else", "expr", "params", "enter", "exit", "stopped"},
          sym : {NULL}]
         \cup [what : {"declare", "exit"}, sym : Symbols]

At(what) == todo # <<>> /\ Head(todo).what = what

\* This is done, and what it leads to comes next.
Then(items) == todo' = items \o Tail(todo)

\* main: scope_enter, decl_resolve of the file's declarations, scope_exit.
Program == <<Do("enter"), Do("decls"), Do("exit")>>

\* The process ends.
Stop ==
  /\ todo' = <<Do("stopped")>>
  /\ UNCHANGED <<symbol_stack, created, said, failed>>

-----------------------------------------------------------------------------
(* symbol.c's scopes, on stack.c's push, pop and peek.                     *)

NoSymbols == [n \in Names |-> NULL]

scope_level == Len(symbol_stack)

\* Whether the scope on top has a table.
HasTable == symbol_stack # <<>> /\ Last(symbol_stack) # NULL

scope_lookup_current(n) == Last(symbol_stack)[n]

\* From the head down, the first table that has the name.
scope_lookup(n) ==
  LET found == {j \in DOMAIN symbol_stack : symbol_stack[j] # NULL /\ symbol_stack[j][n] # NULL}
  IN IF found = {} THEN NULL ELSE symbol_stack[Max(found)][n]

\* On its way down the search comes to a scope without a table.
MeetsNoTable(n) ==
  \E j \in DOMAIN symbol_stack :
    /\ symbol_stack[j] = NULL
    /\ \A k \in DOMAIN symbol_stack : k > j => symbol_stack[k] # NULL /\ symbol_stack[k][n] = NULL

scope_bind(s) ==
  symbol_stack' = [symbol_stack EXCEPT ![Len(symbol_stack)] = [@ EXCEPT ![s.name] = s]]

scope_enter ==
  /\ At("enter")
  /\ symbol_stack' = Append(symbol_stack, NoSymbols)
  /\ Then(<<>>)
  /\ UNCHANGED <<created, said, failed>>

\* ht_create returns NULL, which is pushed, or push returns false.
ScopeMissing ==
  /\ At("enter")
  /\ \/ symbol_stack' = Append(symbol_stack, NULL)
     \/ UNCHANGED symbol_stack
  /\ failed' = TRUE
  /\ Then(<<>>)
  /\ UNCHANGED <<created, said>>

\* Mutant: that pop has no table to return is not looked at.
scope_exit_Lenient ==
  /\ At("exit")
  /\ symbol_stack' = IF symbol_stack = <<>> THEN <<>> ELSE Front(symbol_stack)
  /\ Then(<<>>)
  /\ UNCHANGED <<created, said, failed>>

\* pop returns the table of the head, NULL if there is none.
scope_exit ==
  /\ At("exit")
  /\ \/ /\ HasTable
        /\ symbol_stack' = Front(symbol_stack)
        /\ Then(<<>>)
        /\ UNCHANGED <<created, said, failed>>
     \/ ~HasTable /\ Stop

-----------------------------------------------------------------------------
(* decl_resolve.                                                           *)

\* Where a declaration may come, and what follows it there.
AtDecl == At("decls") \/ At("stmts") \/ At("stmt")
AtStmt == At("stmts") \/ At("stmt")
Pending(what) == {p \in DOMAIN todo : todo[p].what = what}
MayEnter == Cardinality(Pending("exit")) < MaxLevel
Rest == IF At("stmt") THEN <<>> ELSE <<Head(todo)>>

Redeclared(n, by) ==
  /\ AtDecl /\ HasTable
  /\ scope_lookup_current(n) # NULL
  /\ said' = [op |-> "redeclare", name |-> n, sym |-> NULL]
  /\ Then(Rest)
  /\ UNCHANGED <<symbol_stack, created, failed>>

\* Mutant: the scopes are counted from 0.
DeclKind_FromZero == IF scope_level > 2 THEN "LOCAL" ELSE "GLOBAL"

DeclKind == IF scope_level > 1 THEN "LOCAL" ELSE "GLOBAL"

\* Mutant: what its scope already has is not looked at.
decl_resolve_Unchecked(n, by) ==
  /\ AtDecl /\ HasTable
  /\ created < MaxSymbols
  /\ by = "function" => MayEnter
  /\ created' = created + 1
  /\ Then(<<Declaring(Symbol(n, DeclKind, by))>> \o Rest)
  /\ UNCHANGED <<symbol_stack, said, failed>>

decl_resolve(n, by) ==
  /\ AtDecl /\ HasTable
  /\ scope_lookup_current(n) = NULL
  /\ created < MaxSymbols
  /\ by = "function" => MayEnter
  /\ created' = created + 1
  /\ Then(<<Declaring(Symbol(n, DeclKind, by))>> \o Rest)
  /\ UNCHANGED <<symbol_stack, said, failed>>

\* Mutant: only what has no body is bound.
Bind_NotFunctions ==
  /\ At("declare")
  /\ LET s == Head(todo).sym IN
     IF s.by = "function"
     THEN /\ Then(<<Do("enter"), Do("params"), Do("stmt"), ExitFrom(s)>>)
          /\ UNCHANGED symbol_stack
     ELSE /\ scope_bind(s)
          /\ Then(<<>>)
  /\ UNCHANGED <<created, said, failed>>

\* The name is bound when its value has been resolved, and before the body.
Bind ==
  /\ At("declare")
  /\ LET s == Head(todo).sym IN
     /\ scope_bind(s)
     /\ Then(IF s.by = "function"
             THEN <<Do("enter"), Do("params"), Do("stmt"), ExitFrom(s)>>
             ELSE <<>>)
  /\ UNCHANGED <<created, said, failed>>

\* A parameter is bound without a look at what the scope has.
param_list_resolve(n) ==
  /\ At("params") /\ HasTable
  /\ created < MaxSymbols
  /\ created' = created + 1
  /\ scope_bind(Symbol(n, "PARAM", "param"))
  /\ UNCHANGED <<todo, said, failed>>

\* A declaration or parameter, or the stack itself, finds no memory; or a
\* declaration or parameter a scope that has no table.
Unbound ==
  /\ \/ AtDecl \/ At("declare") \/ At("params")
     \/ todo = Program
  /\ Stop

-----------------------------------------------------------------------------
(* expr_resolve.                                                           *)

AtExpr == At("expr") \/ (At("declare") /\ Head(todo).sym.by = "variable")

\* One identifier, in the value of a variable or in the expression of a
\* statement.  One that is not found is reported and left with no symbol.
expr_resolve(n) ==
  /\ AtExpr /\ ~MeetsNoTable(n)
  /\ said' = [op |-> "use", name |-> n,
              sym |-> IF scope_lookup(n) = NULL THEN NULL ELSE scope_lookup(n).id]
  /\ UNCHANGED <<symbol_stack, todo, created, failed>>

Lost == AtExpr /\ (\E n \in Names : MeetsNoTable(n)) /\ Stop

\* The end of an expression, a parameter list, a block or the file.
End ==
  /\ At("expr") \/ At("params") \/ At("stmts") \/ At("decls")
  /\ Then(<<>>)
  /\ UNCHANGED <<symbol_stack, created, said, failed>>

-----------------------------------------------------------------------------
(* stmt_resolve, by the kind of the statement.                             *)

\* STMT_EXPR, STMT_PRINT, STMT_RETURN
Simple == Then(<<Do("expr")>> \o Rest)

IfElse == Then(<<Do("expr"), Do("enter"), Do("stmt"), Do("exit"), Do("else")>> \o Rest)

\* Mutant: the scope of a loop is never left.
For_NoExit == Then(<<Do("enter"), Do("expr"), Do("stmt")>> \o Rest)

For == Then(<<Do("enter"), Do("expr"), Do("stmt"), Do("exit")>> \o Rest)

Block == Then(<<Do("enter"), Do("stmts"), Do("exit")>> \o Rest)

stmt_resolve ==
  /\ AtStmt
  /\ \/ Simple
     \/ MayEnter /\ (IfElse \/ For \/ Block)
  /\ UNCHANGED <<symbol_stack, created, said, failed>>

else_body ==
  /\ At("else")
  /\ \/ Then(<<>>)
     \/ Then(<<Do("enter"), Do("stmt"), Do("exit")>>)
  /\ UNCHANGED <<symbol_stack, created, said, failed>>

-----------------------------------------------------------------------------
Init ==
  /\ symbol_stack = <<>>
  /\ todo = Program
  /\ created = 0
  /\ failed = FALSE
  /\ said = [op |-> "none", name |-> NULL, sym |-> NULL]

Resolved == (todo = <<>> \/ At("stopped")) /\ UNCHANGED vars

Next ==
  \/ scope_enter
  \/ ScopeMissing
  \/ scope_exit
  \/ \E n \in Names :
       \/ \E by \in DeclKinds : Redeclared(n, by) \/ decl_resolve(n, by)
       \/ param_list_resolve(n)
       \/ expr_resolve(n)
  \/ Unbound
  \/ Lost
  \/ Bind
  \/ End
  \/ stmt_resolve
  \/ else_body
  \/ Resolved

Spec == Init /\ [][Next]_vars

-----------------------------------------------------------------------------
(* Properties.                                                             *)

\* Every variable holds a value of its type.
TypeOK ==
  /\ symbol_stack \in Seq(Tables \cup {NULL})
  /\ failed \in BOOLEAN
  /\ todo \in Seq(Items)
  /\ created \in 0 .. MaxSymbols
  /\ said \in [op : {"none", "redeclare", "use"}, name : Names \cup {NULL},
               sym : 1 .. MaxSymbols \cup {NULL}]

\* Every scope that was entered has its table, and the compiler goes on.
Whole == ~failed /\ ~At("stopped")

\* Whatever the statements and however they nest, every scope that was entered
\* has one exit to come and every exit a scope: scope_exit never finds the
\* stack empty, and the declarations of the file are looked up in one table.
ScopesBalanced ==
  Whole =>
  /\ scope_level + Cardinality(Pending("enter")) = Cardinality(Pending("exit"))
  /\ Pending("decls") # {} /\ Head(todo).what = "decls" => scope_level = 1

\* symbol_t is decided before the value is resolved and the name bound, and is
\* still right when it is bound: GLOBAL in the file's table, and only there.
KindsMatchLevels ==
  Whole =>
  \A j \in DOMAIN symbol_stack, n \in Names :
    LET s == symbol_stack[j][n] IN
    s # NULL => /\ s.name = n
                /\ s.kind = "GLOBAL" <=> j = 1
                /\ s.kind = "PARAM" <=> s.by = "param"

\* While a function's body is resolved, the scope around the function has the
\* function under its name, so that it can call itself; nothing in the body or
\* among the parameters, whatever it is called, has taken its place there.
OwnNameBound ==
  Whole =>
  \A p \in Pending("exit") :
    LET s == todo[p].sym
        level == Cardinality({q \in Pending("exit") : q >= p})
    IN s # NULL => symbol_stack[level - 1][s.name] = s

\* scope_enter does not look at what push returns, and scopes are left in the
\* tables of others; but name resolution does not come to its end with a scope
\* missing: in the end scope_exit finds one too few.
MissingNoticed == todo = <<>> => ~failed

\* Table j has a symbol for n.
Bound(j, n) == symbol_stack[j] # NULL /\ symbol_stack[j][n] # NULL

\* What LexicalScoping sees of symbol s in table j under n.
Seen(j, n, s) == [name |-> n, level |-> j, sym |-> s.id, param |-> s.by = "param"]

Live == {Seen(b[1], b[2], symbol_stack[b[1]][b[2]]) :
           b \in {p \in (DOMAIN symbol_stack) \X Names : Bound(p[1], p[2])}}

Begun == LET s == Head(todo).sym
         IN IF At("declare") THEN {Seen(scope_level, s.name, s)} ELSE {}

Scoping == INSTANCE LexicalScoping
             WITH level <- scope_level, live <- Live, begun <- Begun,
                  stopped <- At("stopped"), Syms <- 1 .. MaxSymbols

\* The search down the stack of tables finds the most recent live declaration,
\* in every nesting of functions, blocks, branches and loops.  A declaration is
\* refused when its scope has the name, and only then: one that is begun finds
\* the name free, is bound once its value is resolved, before any scope is
\* entered or left, and takes no other's place.  Only parameters do, which are
\* bound unseen.  Where memory has run out, scopes are the tables there are.
LexicallyScoped == Scoping!Spec

\* "functions must be defined or prototyped before call": that a prototype may
\* be followed by the definition, which is then no re-declaration.
PrototypeThenDefinition ==
  [][\A n \in Names : Redeclared(n, "function") => scope_lookup_current(n).by # "prototype"]_vars
=============================================================================
