----------------------------- MODULE MCArtifacts -----------------------------
(***************************************************************************)
(* One session beside what an earlier one left, so that the network's name *)
(* is used again; one listing under way at a time, and the directory moves *)
(* once.                                                                   *)
(***************************************************************************)
EXTENDS Artifacts

CONSTANTS s1, l1
=============================================================================
