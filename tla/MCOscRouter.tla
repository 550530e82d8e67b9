----------------------------- MODULE MCOscRouter -----------------------------
EXTENDS OscRouter, TLC

CONSTANTS s1, s2

\* Two events show the order of a field; of a status it matters that there is
\* one.  The other session spawns, prints once and ends beside it.
Chatty == (s1 :> [cwd |-> 2, status |-> 1]) @@ (s2 :> [cwd |-> 1, status |-> 0])

OneCwd == [s \in {s1} |-> [cwd |-> 1, status |-> 0]]
=============================================================================
