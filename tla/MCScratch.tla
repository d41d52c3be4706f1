------------------------------ MODULE MCScratch -------------------------------
EXTENDS Scratch

\* Four registers are two of each kind: pushed by the caller and by the callee.
ASSUME Registers \subseteq PushedAroundCall \cup PushedByPrologue
=============================================================================
