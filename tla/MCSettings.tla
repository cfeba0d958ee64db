----------------------------- MODULE MCSettings -----------------------------
(***************************************************************************)
(* A switch, a list of hosts, the packages, and one key of an agent.       *)
(***************************************************************************)
EXTENDS Settings, TLC

MCJailKeys == {"SUDO", "ALLOW", "PACKAGES"}
MCOwnKeys  == {"MODEL", "IMAGE"}
MCDefault  == "SUDO" :> FALSE @@ "ALLOW" :> <<>> @@ "PACKAGES" :> <<"vim">>
              @@ "MODEL" :> <<"m1">> @@ "IMAGE" :> <<"i1">>

\* A value that no quotes fit, and a package that is there from the start: an empty
\* list is written in quotes.
MCTyped == "ALLOW" :> {<<"'", "h1", "\"">>} @@ "PACKAGES" :> {<<"vim">>}

Active(k, v) == Line("active", k, v)

\* A project that says nothing, under a global file with a key in a comment and
\* another one twice; and a project under no global file.
MCStartFiles ==
  { [global |-> File(<<Active("SUDO", <<"1">>), Prose, Line("comment", "PACKAGES", <<"jq">>),
                  Active("SUDO", <<"false">>), Active("ALLOW", <<"\"", "h3", "\"">>)>>),
     project |-> Absent, own |-> Absent],
    [global |-> Absent,
     project |-> File(<<Active("ALLOW", <<"h1">>),
                       Active("PACKAGES", <<"\"", "vim", " ", "vim", "\"">>)>>),
     own |-> File(<<Active("MODEL", <<"m2">>), Active("IMAGE", <<"i2">>)>>)] }

\* One variable over an agent's file, and one over the switch.
MCEnvirons ==
  {[k \in MCJailKeys \cup MCOwnKeys |->
      IF k = "IMAGE" THEN <<"i3">> ELSE IF k = "SUDO" THEN <<"1">> ELSE <<>>]}

\* Two for one key of one file, and one for the other file.
MCOthers == {<<"global", "ALLOW", <<"h5">>>>, <<"global", "ALLOW", <<"h6">>>>,
             <<"project", "ALLOW", <<"h5">>>>}
=============================================================================
