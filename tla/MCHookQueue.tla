----------------------------- MODULE MCHookQueue -----------------------------
(* Small instances of HookQueue. *)
EXTENDS HookQueue

\* A library, an application and an oversized image that reference it, and
\* an unrelated path.
MCClosureOf == [p \in Paths |-> IF p \in {"app", "big"} THEN {p, "lib"} \cap Paths ELSE {p}]
=============================================================================
