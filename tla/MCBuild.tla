------------------------------- MODULE MCBuild -------------------------------
(***************************************************************************)
(* Two processes, two configurations, init.sh present or absent and        *)
(* changed at most once: a run and a shell of one configuration and of     *)
(* two, and a shell with a rebuild or a dockerfile command beside it.      *)
(***************************************************************************)
EXTENDS Build

CONSTANTS p1, p2, c1, c2

Asks(k, c) == [kind |-> k, config |-> c]

Pair(a, b) == [p \in {p1, p2} |-> IF p = p1 THEN a ELSE b]

MCRequests ==
  {Pair(Asks("run", c1), Asks("shell", c1)),
   Pair(Asks("run", c1), Asks("shell", c2)),
   Pair(Asks("shell", c1), Asks("rebuild", c2)),
   Pair(Asks("shell", c1), Asks("dockerfile", c2))}

\* For the disagreement between the code and its documentation.
RebuildBeside == {Pair(Asks("shell", c1), Asks("rebuild", c2))}
=============================================================================
