----------------------------- MODULE EgressGate -----------------------------
(***************************************************************************)
(* What the network jail promises the jailed agent, with no DNS message,   *)
(* no goroutine and no log: addresses become reachable only because an     *)
(* allow-listed name was resolved, the agent is only ever told addresses   *)
(* that are already reachable, and a connection is relayed or refused      *)
(* according to what is reachable when it is judged.                       *)
(*                                                                         *)
(* NetProxy implements this specification (see NetProxy!Gate).             *)
(***************************************************************************)

CONSTANTS
  IPs,        \* addresses outside the jail
  StaticIPs,  \* addresses covered by the policy's static CIDRs
  Conns,      \* TCP connections the agent may open
  NoIP        \* a connection with no recoverable destination

VARIABLES
  granted,    \* addresses learned from a resolved allow-listed name
  told,       \* addresses the agent has been given in a DNS answer
  target,     \* where each connection is going
  fate        \* what has become of each connection

gateVars == <<granted, told, target, fate>>

Fates == {"none", "pending", "relayed", "refused", "failed"}

Reachable == granted \cup StaticIPs

GateInit ==
  /\ granted = {}
  /\ told = {}
  /\ target = [k \in Conns |-> NoIP]
  /\ fate = [k \in Conns |-> "none"]

Decide(k, verdict) ==
  /\ fate[k] = "pending"
  /\ fate' = [fate EXCEPT ![k] = verdict]
  /\ UNCHANGED <<granted, told, target>>

Grant(ip) ==
  /\ granted' = granted \cup {ip}
  /\ UNCHANGED <<told, target, fate>>

Tell(S) ==
  /\ S \subseteq granted
  /\ told' = told \cup S
  /\ UNCHANGED <<granted, target, fate>>

Ask(k, ip) ==
  /\ fate[k] = "none"
  /\ target' = [target EXCEPT ![k] = ip]
  /\ fate' = [fate EXCEPT ![k] = "pending"]
  /\ UNCHANGED <<granted, told>>

Relay(k) == target[k] \in Reachable /\ Decide(k, "relayed")

Refuse(k) == target[k] \in IPs \ Reachable /\ Decide(k, "refused")

Fail(k) == Decide(k, "failed")

GateNext ==
  \/ \E ip \in IPs : Grant(ip)
  \/ \E S \in SUBSET IPs : Tell(S)
  \/ \E k \in Conns :
       \/ \E ip \in IPs \cup {NoIP} : Ask(k, ip)
       \/ Relay(k)
       \/ Refuse(k)
       \/ Fail(k)

GateSafety == GateInit /\ [][GateNext]_gateVars

\* Every connection that is opened is judged: none is left hanging.
GateSpec ==
  /\ GateSafety
  /\ \A k \in Conns : WF_gateVars(Relay(k) \/ Refuse(k) \/ Fail(k))
=============================================================================
