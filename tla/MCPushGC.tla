------------------------------ MODULE MCPushGC ------------------------------
(* Small instances of PushGC. *)
EXTENDS PushGC, TLC

\* An application that references a library and has a listing; the library
\* has a NAR.
MCRefs == [k \in Keys |-> CASE k = "app" -> {"lib", "ls"} \cap Keys
                            [] k = "lib" -> {"nar"} \cap Keys
                            [] OTHER     -> {}]

Full(r, verify, checked) ==
    [roots |-> {r}, own |-> ClosureOf[r], verify |-> verify, checked |-> checked]

\* A push of one path without what it references.
Thin(r, verify, checked) ==
    [roots |-> {r}, own |-> {r} \cup (Refs[r] \ Narinfos), verify |-> verify,
     checked |-> checked]

FullRequests   == {Full(r, FALSE, TRUE) : r \in Narinfos}
ThinRequests   == {Full("lib", TRUE, FALSE), Thin("app", FALSE, TRUE)}

Symmetry == Permutations(Pushes)
=============================================================================
