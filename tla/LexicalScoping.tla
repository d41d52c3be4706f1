---------------------------- MODULE LexicalScoping ----------------------------
(***************************************************************************)
(* What include/symbol.h promises of name resolution, without a stack of   *)
(* tables: a name means the most recent declaration of it that is still    *)
(* live, and a declaration lives from when it is bound, once its value is  *)
(* resolved, until the scope it was made in is left.                       *)
(***************************************************************************)
EXTENDS Integers

CONSTANTS Names, NULL,
          Syms     \* numbers the declarations; a later one has a larger number

VARIABLES level,   \* how many scopes are open
          live,    \* the live declarations, [name, level, sym, param]
          begun,   \* the declaration whose value is being resolved, if there is one
          stopped, \* the compiler has given up
          said     \* the last use resolved or re-declaration refused

vars == <<level, live, begun, stopped, said>>

Init == /\ level = 0
        /\ live = {}
        /\ begun = {}
        /\ stopped = FALSE
        /\ said = [op |-> "none", name |-> NULL, sym |-> NULL]

\* In the middle of a declaration no scope opens or closes and nothing else is
\* declared: its value is made of uses.
Between == ~stopped /\ begun = {}

Enter == /\ Between
         /\ level' = level + 1
         /\ UNCHANGED <<live, begun, stopped, said>>

Leave == /\ Between /\ level > 0
         /\ level' = level - 1
         /\ live' = {d \in live : d.level < level}
         /\ UNCHANGED <<begun, stopped, said>>

Here(n) == {d \in live : d.name = n /\ d.level = level}

New(n, s, param) == [name |-> n, level |-> level, sym |-> s, param |-> param]

Newest(s) == \A d \in live : d.sym < s

\* Only a name its scope does not have is declared.
Begin(n, s) == /\ Between /\ level > 0 /\ Newest(s)
               /\ Here(n) = {}
               /\ begun' = {New(n, s, FALSE)}
               /\ UNCHANGED <<level, live, stopped, said>>

Declare == /\ begun # {}
           /\ live' = live \cup begun
           /\ begun' = {}
           /\ UNCHANGED <<level, stopped, said>>

Redeclare(n) == /\ Between /\ Here(n) # {}
                /\ said' = [op |-> "redeclare", name |-> n, sym |-> NULL]
                /\ UNCHANGED <<level, live, begun, stopped>>

\* A parameter takes the place of what has its name in the scope: a list may
\* repeat a name, and the last one counts.
Parameter(n, s) == /\ Between /\ level > 0 /\ Newest(s)
                   /\ live' = (live \ Here(n)) \cup {New(n, s, TRUE)}
                   /\ UNCHANGED <<level, begun, stopped, said>>

\* "searches the stack for the most recent match (or null)"
Use(n) == /\ ~stopped
          /\ \/ \E d \in live : /\ d.name = n
                                /\ \A e \in live : e.name = n => e.sym <= d.sym
                                /\ said' = [op |-> "use", name |-> n, sym |-> d.sym]
             \/ /\ \A d \in live : d.name # n
                /\ said' = [op |-> "use", name |-> n, sym |-> NULL]
          /\ UNCHANGED <<level, live, begun, stopped>>

Stop == /\ ~stopped
        /\ stopped' = TRUE
        /\ begun' = {}
        /\ UNCHANGED <<level, live, said>>

Next == \/ Enter \/ Leave \/ Declare \/ Stop
        \/ \E n \in Names : \/ Use(n) \/ Redeclare(n)
                            \/ \E s \in Syms : Begin(n, s) \/ Parameter(n, s)

Spec == Init /\ [][Next]_vars
=============================================================================
