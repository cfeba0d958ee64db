------------------------------- MODULE MCNetLog -------------------------------
(***************************************************************************)
(* Two sidecars with two events each; netview, and netlog with each of its *)
(* flags and with none.  netview keeps two events, so that it drops some.  *)
(***************************************************************************)
EXTENDS NetLog

CONSTANTS w1, w2

Call(k, f, b) == [kind |-> k, follow |-> f, blockedOnly |-> b]

MCCommands ==
  {Call("netview", TRUE, FALSE), Call("netlog", FALSE, FALSE),
   Call("netlog", TRUE, FALSE), Call("netlog", FALSE, TRUE)}
=============================================================================
