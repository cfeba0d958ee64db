----------------------------- MODULE MCNetProxy -----------------------------
(***************************************************************************)
(* NetProxy on a small instance: two allow-listed names, one of them       *)
(* listed and asked for in spellings that need normalizing, one name that  *)
(* is not listed, and an empty line in the list.                           *)
(***************************************************************************)
EXTENDS NetProxy

CONSTANTS api, cdn, evil, root, plain, wire, a1, a2

Spelled(d, f) == [domain |-> d, form |-> f]

MCDomains == {api, cdn, evil, root}
MCForms == {plain, wire}
MCAllowList == {Spelled(api, plain), Spelled(cdn, wire), Spelled(root, plain)}
MCAsked == {Spelled(api, wire), Spelled(cdn, plain), Spelled(evil, plain), Spelled(root, wire)}
MCAnswers == {<<a1>>, <<a2>>, <<Other, a1, a2>>}
=============================================================================
