------------------------------ MODULE MCStatements ------------------------------
EXTENDS Statements

\* Two items are a list of print statements that something can follow.
ASSUME MaxItems >= 2
=============================================================================
