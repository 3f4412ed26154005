---------------------------- MODULE MCPushPaths ----------------------------
\* Every path has the same contents, and the closure of one root is within
\* the closure of the other.
EXTENDS PushPaths

CONSTANT a

OneNar == [p \in Paths |-> CHOOSE n \in Nars : TRUE]
Nested == [r \in Roots |-> IF r = a THEN {a} ELSE Paths]
=============================================================================
