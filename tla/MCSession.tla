----------------------------- MODULE MCSession -----------------------------
(***************************************************************************)
(* Two sessions over two projects.  Between them the requests pair a       *)
(* jailed session with one of its own project, with a shell that may       *)
(* attach to it, with one of another project, and with hermes-local, and   *)
(* two hermes-local sessions, one jailed, that share the Ollama sidecar.   *)
(***************************************************************************)
EXTENDS Session

CONSTANTS s1, s2, here, there

Asks(p, c, l, j) == [project |-> p, command |-> c, local |-> l, jailed |-> j]

Pair(p, q) == [s \in {s1, s2} |-> IF s = s1 THEN p ELSE q]

Run == Asks(here, "run", FALSE, TRUE)
LocalRun == Asks(here, "run", TRUE, TRUE)

MCRequests ==
  {Pair(Run, Run),
   Pair(Run, Asks(here, "shell", FALSE, TRUE)),
   Pair(Run, Asks(there, "setup", FALSE, TRUE)),
   Pair(Run, LocalRun),
   Pair(LocalRun, Asks(there, "run", TRUE, FALSE))}

\* For the disagreement between the code and its documentation, the requests
\* that show it.
SameProject == {Pair(Run, Run)}
=============================================================================
