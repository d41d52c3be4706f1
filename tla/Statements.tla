------------------------------- MODULE Statements -------------------------------
(***************************************************************************)
(* The declarations and statements of a program on their way through the   *)
(* passes that main calls: the rules of src/src/parser.y that link them,   *)
(* the walks of symbol.c, typecheck.c and constant_fold.c, the graph of    *)
(* cfg.c and the generation of src/src/codegen/codegen.c.                  *)
(*                                                                         *)
(* The nodes are numbered as they are created, the parts of a statement    *)
(* before it.  What a pointer to a node leads to by way of `next` is a     *)
(* list: the sequence of the nodes' numbers, <<>> for the null pointer.    *)
(* A function of the compiler that calls itself for the parts of a         *)
(* statement is a recursive function of the statement's number.            *)
(*                                                                         *)
(* Expressions are left out: that one stops the compiler is chosen         *)
(* (Expressions says when one does).  So are names: whether a declaration  *)
(* is refused as a second one in its scope is chosen (Resolver says when   *)
(* it is).  Of types only that one is silent is kept: generation has no    *)
(* case for it and says nothing.  A statement STMT_DECL and its            *)
(* declaration are one node.                                               *)
(*                                                                         *)
(* Where the compiler follows a pointer that nothing has written it may be *)
(* stopped ("crashed"), or go on with whatever it found ("undefined"); how *)
(* it goes on is followed where it cannot change anything but the output.  *)
(***************************************************************************)
EXTENDS Naturals, SequencesExt

CONSTANTS MaxNodes,   \* bound: declarations and statements of the program
          MaxItems    \* bound: items of one print statement

ASSUME StatementsAssumption == MaxNodes \in Nat /\ MaxItems \in Nat

VARIABLES
  node,       \* the declarations and statements, in the order in which they were created
  stack,      \* the parser's: the statements it has yet to put in a list, each itself a list
  phase,      \* the last pass that has ended
  program,    \* the list of declarations, parser_result
  text,       \* history: for each node, those it is made of, itself first, as they stand in the source
  source,     \* history: all nodes, as they stand in the source
  visited,    \* history: the nodes each pass has visited
  generated   \* history: the nodes code was generated for

vars == <<node, stack, phase, program, text, source, visited, generated>>

-----------------------------------------------------------------------------
(* The tree.                                                               *)

\* Declarations with a value, with a body, and with neither of them.
Declarations == {"VALUE", "FUNCTION", "PLAIN"}
Branching == {"IF_ELSE", "FOR"}

Node(kind, refused, silent, body, else_body) ==
  [kind |-> kind, refused |-> refused, silent |-> silent, body |-> body, else_body |-> else_body]

\* What f gives for the nodes of a list, one after the other.
Each(f, list) == FlattenSeq([k \in DOMAIN list |-> f[list[k]]])

\* The nodes of a list that are in S.
Only(list, S) == FlattenSeq([k \in DOMAIN list |-> IF list[k] \in S THEN <<list[k]>> ELSE <<>>])

\* Mutant: what follows replaces the items after the first.
stmt_print_pushback_First(print, rest) == <<print[1]>> \o rest

\* At the end of the list, which it goes through.
stmt_print_pushback(print, rest) == print \o rest

\* In all others, `next` is set whatever it was.
Linked(h, list, rest) ==
  IF h[list[1]].kind = "PRINT" THEN stmt_print_pushback(list, rest) ELSE <<list[1]>> \o rest

\* stmt_list and decl_list: linked from the last one to the first.
List(h, lists) ==
  LET list[k \in 0 .. Len(lists)] ==
        IF k = 0 THEN <<>> ELSE Linked(h, lists[Len(lists) - k + 1], list[k - 1])
  IN  list[Len(lists)]

-----------------------------------------------------------------------------
(* The parser.                                                             *)

Topmost(n) == SubSeq(stack, Len(stack) - n + 1, Len(stack))

\* The last n entries of the stack become the parts of a statement s.
Reduce(n, s) ==
  /\ phase = "parse" /\ Len(node) < MaxNodes
  /\ node' = Append(node, s)
  /\ stack' = Append(SubSeq(stack, 1, Len(stack) - n), <<Len(node) + 1>>)
  /\ text' = Append(text, <<Len(node) + 1>> \o Each(text, FlattenSeq(Topmost(n))))
  /\ UNCHANGED <<phase, program, source, visited, generated>>

Simple(kind, refused, silent) == Reduce(0, Node(kind, refused, silent, <<>>, <<>>))

Expr == Simple("EXPR", FALSE, FALSE)
Return == Simple("RETURN", FALSE, FALSE)
Value == \E refused, silent \in BOOLEAN : Simple("VALUE", refused, silent)
Plain == \E refused \in BOOLEAN : Simple("PLAIN", refused, FALSE)

\* One statement for each item, linked.
PrintItems ==
  \E n \in 1 .. MaxItems : \E silent \in [1 .. n -> BOOLEAN] :
    LET items == [i \in 1 .. n |-> Len(node) + i]
    IN  /\ phase = "parse" /\ Len(node) + n <= MaxNodes
        /\ node' = node \o [i \in 1 .. n |-> Node("PRINT", FALSE, silent[i], <<>>, <<>>)]
        /\ stack' = Append(stack, items)
        /\ text' = text \o [i \in 1 .. n |-> <<items[i]>>]
        /\ UNCHANGED <<phase, program, source, visited, generated>>

Block ==
  \E n \in 0 .. Len(stack) : Reduce(n, Node("BLOCK", FALSE, FALSE, List(node, Topmost(n)), <<>>))

\* stmt_if and stmt_for
If ==
  /\ stack # <<>>
  /\ \E kind \in Branching : Reduce(1, Node(kind, FALSE, FALSE, Topmost(1)[1], <<>>))

IfElse ==
  /\ Len(stack) >= 2
  /\ Reduce(2, Node("IF_ELSE", FALSE, FALSE, Topmost(2)[1], Topmost(2)[2]))

Function ==
  /\ stack # <<>>
  /\ \E refused \in BOOLEAN : Reduce(1, Node("FUNCTION", refused, FALSE, Topmost(1)[1], <<>>))

Parsed ==
  /\ phase = "parse"
  /\ \A i \in DOMAIN stack : node[stack[i][1]].kind \in Declarations
  /\ phase' = "parsed"
  /\ program' = List(node, stack)
  /\ source' = Each(text, FlattenSeq(stack))
  /\ stack' = <<>>
  /\ UNCHANGED <<node, text, visited, generated>>

\* The program is not followed any further.
Finish(how) ==
  /\ phase' = how /\ node' = <<>> /\ stack' = <<>> /\ program' = <<>>
  /\ text' = <<>> /\ source' = <<>>
  /\ visited' = [pass \in DOMAIN visited |-> <<>>]
  /\ generated' = <<>>

ParseFailed == phase = "parse" /\ Finish("failed")

-----------------------------------------------------------------------------
(* The walks: decl_resolve and stmt_resolve, decl_typecheck and            *)
(* stmt_typecheck, constant_fold_decl and constant_fold_stmt.              *)

\* Mutant: a body is visited twice, the second branch not at all.
Parts_BodyTwice(pass, s) == IF pass = "resolve" /\ s.refused THEN <<>> ELSE s.body \o s.body

\* What is resolved of a refused declaration: nothing.
Parts(pass, s) == IF pass = "resolve" /\ s.refused THEN <<>> ELSE s.body \o s.else_body

\* The nodes visited from node i, where walk gives those from its parts.
WalkNode(h, pass, walk, i) == <<i>> \o Each(walk, Parts(pass, h[i]))

Walk(h, pass) ==
  LET walk[i \in 1 .. Len(h)] == WalkNode(h, pass, walk, i)
  IN  walk

\* The declarations of a program that have no symbol: it is written when one is
\* resolved and not refused, and holds what was in memory until then.
Unresolved(h, list) ==
  {i \in DOMAIN h : /\ h[i].kind \in Declarations
                    /\ h[i].refused \/ i \notin Range(Each(Walk(h, "resolve"), list))}

\* A fault ends the run of the compiler, or nothing can be said of it any more.
Fault == \E how \in {"crashed", "undefined"} : Finish(how)

Pass(pass, before, after) ==
  /\ phase = before
  /\ phase' = after
  /\ visited' = [visited EXCEPT ![pass] = Each(Walk(node, pass), program)]
  /\ UNCHANGED <<node, stack, program, text, source, generated>>

Resolve == Pass("resolve", "parsed", "resolved")

\* The symbol of a declaration with a value or a body is used.
Typecheck ==
  \/ Pass("typecheck", "resolved", "checked")
  \/ /\ phase = "resolved"
     /\ \E i \in Range(Each(Walk(node, "typecheck"), program)) :
          i \in Unresolved(node, program) /\ node[i].kind # "PLAIN"
     /\ Fault

ConstantFold == Pass("fold", "checked", "folded")

-----------------------------------------------------------------------------
(* cfg_construct and codegen, which runs right after it.                   *)

\* The place of the first of a kind in a list, past its end if there is none.
FirstOf(h, kind, list) ==
  Min({k \in DOMAIN list : h[list[k]].kind = kind} \cup {Len(list) + 1})

\* cfg_construct_block: statements up to a return are one block.
BlockOf(h, list) == SubSeq(list, 1, Min({FirstOf(h, "RETURN", list), Len(list)}))

\* The declarations for which there is a graph.  One without value and body ends
\* the list of graphs: the next declaration, if there is one, is taken for a
\* graph.
cfg_construct(h, list) == SubSeq(list, 1, FirstOf(h, "PLAIN", list) - 1)
TakenForGraph(h, list) == FirstOf(h, "PLAIN", list) < Len(list)

\* A branch writes its condition where an unwritten pointer leads.
Branches(h, i) ==
  h[i].kind = "FUNCTION" /\ \E j \in Range(BlockOf(h, h[i].body)) : h[j].kind \in Branching

\* Mutant: generation ends with the first statement of a block.
StatementCode_First(h, code, i) ==
  CASE h[i].kind = "BLOCK" -> IF h[i].body = <<>> THEN <<>> ELSE code[h[i].body[1]]
    [] h[i].kind \in Branching -> <<>>
    [] OTHER -> <<i>>

\* The statements and declarations that generation reaches.  Branches are
\* reported and left out; of a function in a function the body is not reached.
StatementCode(h, code, i) ==
  CASE h[i].kind = "BLOCK" -> Each(code, h[i].body)
    [] h[i].kind \in Branching -> <<>>
    [] OTHER -> <<i>>

stmt_codegen(h) ==
  LET code[i \in 1 .. Len(h)] == StatementCode(h, code, i)
  IN  code

\* The declaration of each graph is reached, and the block of a function.
cfg_codegen(h) ==
  [i \in DOMAIN h |-> <<i>> \o (IF h[i].kind = "FUNCTION"
                               THEN Each(stmt_codegen(h), BlockOf(h, h[i].body)) ELSE <<>>)]

Generated == {"VALUE", "PRINT", "RETURN"}

\* A print, or a global of the list, of a type there is no case for.
Mute(h, list) ==
  {i \in DOMAIN h : h[i].silent /\ (h[i].kind = "PRINT" \/ i \in Range(list))}

\* A statement expression is passed to decl_codegen, and its str_value followed
\* as a symbol: null, unless the expression is a string.  A declaration taken
\* for a graph may end the graphs; one without a symbol may be generated or not.
Codegen ==
  LET graphs == cfg_construct(node, program)
      reached == Each(cfg_codegen(node), graphs)
      unresolved == Unresolved(node, program) \cap Range(reached)
      branches == \E i \in Range(graphs) : Branches(node, i)
  IN  /\ phase = "folded"
      /\ \/ /\ \/ branches \/ TakenForGraph(node, program) \/ unresolved # {}
               \/ \E i \in Range(reached) : node[i].kind = "EXPR"
            /\ Fault
         \/ /\ ~branches
            /\ phase' = "generated"
            /\ \E lost \in SUBSET unresolved :
                 generated' = Only(reached, {i \in DOMAIN node \ (Mute(node, program) \cup lost) :
                                               node[i].kind \in Generated})
            /\ UNCHANGED <<node, stack, program, text, source, visited>>

\* An expression may stop any pass after name resolution.
Stopped ==
  /\ phase \in {"resolved", "checked", "folded"}
  /\ \E i \in Range(source) : node[i].kind \in {"VALUE", "EXPR", "PRINT", "RETURN"} \cup Branching
  /\ Fault

Ended == phase \in {"failed", "crashed", "undefined", "generated"} /\ UNCHANGED vars

Init ==
  /\ node = <<>> /\ stack = <<>> /\ phase = "parse" /\ program = <<>>
  /\ text = <<>> /\ source = <<>>
  /\ visited = [pass \in {"resolve", "typecheck", "fold"} |-> <<>>]
  /\ generated = <<>>

Next ==
  \/ Expr \/ Return \/ Value \/ Plain \/ PrintItems \/ Block \/ If \/ IfElse \/ Function
  \/ Parsed \/ ParseFailed \/ Resolve \/ Typecheck \/ ConstantFold \/ Codegen \/ Stopped \/ Ended

Spec == Init /\ [][Next]_vars

-----------------------------------------------------------------------------
(* Properties.                                                             *)

Phases == {"parse", "failed", "parsed", "resolved", "checked", "folded", "generated",
           "crashed", "undefined"}

\* Every variable holds a value of its type, and no pass visits more nodes than
\* there are.
TypeOK ==
  /\ Len(node) <= MaxNodes /\ Len(text) = Len(node)
  /\ \A i \in DOMAIN node : node[i].body \in Seq(1 .. i - 1) /\ node[i].else_body \in Seq(1 .. i - 1)
  /\ stack \in Seq(Seq(DOMAIN node)) /\ program \in Seq(DOMAIN node)
  /\ phase \in Phases
  /\ \A pass \in DOMAIN visited :
       visited[pass] \in Seq(DOMAIN node) /\ Len(visited[pass]) <= Len(node)
  /\ generated \in Seq(DOMAIN node)

Since(pass) == CASE pass = "resolve" -> {"resolved", "checked", "folded", "generated"}
                 [] pass = "typecheck" -> {"checked", "folded", "generated"}
                 [] pass = "fold" -> {"folded", "generated"}

\* The nodes of the given kind in which node i stands.
Around(i, K) == {j \in DOMAIN node \ {i} : i \in Range(text[j]) /\ node[j].kind \in K}

\* The nodes name resolution is to visit: those inside no refused declaration.
Resolvable ==
  {i \in DOMAIN node : \A j \in DOMAIN node \ {i} : node[j].refused => i \notin Range(text[j])}

\* Each pass visits every declaration and statement of the source once and in
\* the order of the source, whatever the parser linked and in whichever order;
\* resolution leaves out what is inside refused declarations, and that only.
WalkedInOrder ==
  \A pass \in DOMAIN visited :
    phase \in Since(pass) =>
      visited[pass] = IF pass = "resolve" THEN Only(source, Resolvable) ELSE source

\* When the compiler ends normally, it has generated the global values and,
\* function by function, every local value, print and return, in the order of
\* the source, of the declarations up to the first without value and body -
\* except what is in a branch or a loop or in a local function, and prints and
\* globals of a type there is no case for.  Declarations that were not resolved
\* may or may not be among them.
GeneratedInOrder ==
  phase = "generated" =>
    generated = Only(Each(text, cfg_construct(node, program)), {i \in DOMAIN node :
                  /\ node[i].kind \in Generated
                  /\ Around(i, Branching) = {}
                  /\ \A j, k \in Around(i, {"FUNCTION"}) : j = k
                  /\ i \notin Mute(node, program)
                  /\ \/ i \in Resolvable /\ ~node[i].refused
                     \/ node[i].kind \notin Declarations
                     \/ i \in Range(generated)})
=============================================================================
