----------------------------- MODULE MCExpressions -----------------------------
EXTENDS Expressions

\* A variable, an array and a function of one parameter.
MCIdentifiers ==
  LET int == Scalar("integer")
  IN  {int,
       [kind |-> "array", subtype |-> int],
       [kind |-> "function", subtype |-> Scalar("boolean"), params |-> <<int>>]}
=============================================================================
