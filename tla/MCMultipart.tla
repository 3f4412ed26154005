---------------------------- MODULE MCMultipart ----------------------------
\* Two clients: one sends its parts one by one, so that its read loop waits
\* for a slot, the other sends them at the same time.
EXTENDS Multipart

CONSTANTS p1, p2

MCSlots == [p \in Pushes |-> IF p = p1 THEN 1 ELSE 2]
=============================================================================
