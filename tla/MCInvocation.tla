---------------------------- MODULE MCInvocation ----------------------------
(***************************************************************************)
(* Two terminals and one project.  hermes-local shares its first letters   *)
(* with hermes.  One terminal gives hermes-local's session commands; the   *)
(* other whatever gets in their way.                                       *)
(***************************************************************************)
EXTENDS Invocation

CONSTANTS t1, t2

MCDirs   == {"dir"}
MCListed == [a \in Agents |-> IF a = Local THEN {Local} ELSE Agents]

Template(c, a) == [cmd |-> c, agent |-> a, model |-> "m", jail |-> TRUE, auto |-> FALSE]
Scripted(c)    == [Template(c, Local) EXCEPT !.auto = TRUE]

\* To keep the run small, the user is asked by "run" alone; shell and setup are
\* configured to approve everything, and setup to do without the jail.
MCMenu == [t \in Terms |->
  IF t = t1 THEN {Template("run", Local), Scripted("shell")}
            ELSE {Template(c, Local) : c \in {"up", "down", "pull", "clean", "cleanAll"}}
                 \cup {[Scripted("setup") EXCEPT !.jail = FALSE]}]

\* hermes' containers are cleaned while hermes-local works.
MCCleanMenu == [t \in Terms |->
  {IF t = t1 THEN Template("setup", Local) ELSE Template("cleanAll", "hermes")}]
MCCleanLines == {<<Plain("dir")>>}

Words == {Plain("dir"), Plain("arg"), Flag("yes", NoValue), Flag("no-network-jail", NoValue), Dashes,
          Flag("allow", NoValue), Flag("allow", "h"), Flag("yes", BadValue), Flag("yes", "false"),
          Flag("model", NoValue)}
Opposites == <<Plain("dir"), Flag("no-network-jail", NoValue), Flag("network-jail", NoValue)>>
MCLines == {Opposites} \cup UNION {[1..n -> Words] : n \in 0..4}
=============================================================================
