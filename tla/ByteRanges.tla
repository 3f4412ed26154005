----------------------------- MODULE ByteRanges -----------------------------
(***************************************************************************)
(* The Range header of a read (server/proxy.go, parseSingleRange). The     *)
(* text is abstracted to the two numbers around its dash, either of which  *)
(* may be left out; one that does not parse counts as negative, which the  *)
(* code treats alike. What has no single dash is Whole before it comes to  *)
(* this.                                                                   *)
(***************************************************************************)
EXTENDS Integers

\* first and last count only if the header has them.
Header(hasFirst, first, hasLast, last) ==
    [hasFirst |-> hasFirst, first |-> first, hasLast |-> hasLast, last |-> last]

\* The span start..end, the whole object, or 416. The two latter have no span.
Part(start, end) == [what |-> "part", start |-> start, end |-> end]
Whole            == [what |-> "whole", start |-> 0, end |-> -1]
Unsatisfiable    == [what |-> "unsatisfiable", start |-> 0, end |-> -1]

Suffix(n, size) ==
    IF n <= 0 THEN Whole ELSE Part(IF n > size THEN 0 ELSE size - n, size - 1)

Span(s, size) ==
    IF s.first < 0 THEN Whole
    ELSE IF s.first >= size THEN Unsatisfiable
    ELSE IF ~s.hasLast THEN Part(s.first, size - 1)
    ELSE IF s.last < s.first THEN Whole
    ELSE Part(s.first, IF s.last >= size THEN size - 1 ELSE s.last)

parseSingleRange(s, size) ==
    IF size <= 0 \/ ~(s.hasFirst \/ s.hasLast) THEN Whole
    ELSE IF ~s.hasFirst THEN Suffix(s.last, size)
    ELSE Span(s, size)

\* What the header asks for: byte k of the object.
Asks(s, size, k) ==
    IF s.hasFirst THEN s.first <= k /\ (s.hasLast => k <= s.last)
                  ELSE k >= size - s.last
=============================================================================
