------------------------------ MODULE NetProxy ------------------------------
(***************************************************************************)
(* The network jail's sidecar, cmd/smithjail-proxy: a DNS forwarder and a  *)
(* TCP relay that share one Policy and one activity log.  Every query and  *)
(* every redirected connection is served by a goroutine of its own, so     *)
(* their steps interleave; the Policy's lock is held for one lookup or one *)
(* Learn at a time, and the logger's for one event.                        *)
(*                                                                         *)
(* The agent (the client) and the resolver upstream are the environment:   *)
(* the agent may query any name, connect to any address, whether or not it *)
(* was told about it, and the resolver may answer anything or nothing.     *)
(*                                                                         *)
(* Definitions marked "Fault" are not part of the specification: each is   *)
(* the definition after it with a mistake a change to the code could make, *)
(* kept to show that the properties below notice it.                       *)
(***************************************************************************)
EXTENDS Naturals, Sequences, FiniteSets

CONSTANTS
  Domains,      \* domain names, in the spelling normalizeHost gives them
  Root,         \* the DNS root: what an empty name normalizes to
  Forms,        \* ways to spell one name: trailing dot, upper case, spaces
  Plain,        \* the spelling normalizeHost produces
  AllowList,    \* the policy file's allowedHosts entries, as spelled there
  IPs,          \* addresses outside the jail
  StaticIPs,    \* those the policy's CIDRs contain
  NoIP,         \* no address: a destination that cannot be recovered
  Other,        \* an answer record that is neither A nor AAAA (a CNAME)
  Queries,      \* DNS handler goroutines
  Conns,        \* relay handler goroutines
  Malformed,    \* a message whose question count is not one
  NoHost,       \* the empty host string of an unattributed event
  Asked,        \* the names the agent's queries ask for
  Answers       \* the answers, sequences of records, the resolver may give

Names == [domain : Domains, form : Forms]

Hosts == [domain : Domains, form : {Plain}]   \* normalized names

ASSUME ProxyAssumption ==
  /\ Root \in Domains
  /\ Plain \in Forms
  /\ AllowList \subseteq Names
  /\ StaticIPs \subseteq IPs
  /\ NoIP \notin IPs
  /\ Other \notin IPs
  /\ NoHost \notin Names
  /\ Queries \cap Conns = {}
  /\ Malformed \notin Names
  /\ Asked \subseteq Names
  /\ Answers \subseteq Seq(IPs \cup {Other})

VARIABLES
  dynamicIPs,  \* Policy.dynamicIPs: the host each learned address is for
  log,         \* the events written, in the order the logger's lock admits
  qpc,         \* where each DNS handler is
  question,    \* the name its query asks for
  answer,      \* the records upstream answered it with
  next,        \* the index of the next record to look at
  cpc,         \* where each relay handler is
  dst,         \* the destination of its connection
  host,        \* the name AllowsIP attributed that destination to
  copying,     \* the directions splice is still copying
  said,        \* history: host/address pairs upstream has answered
  told,        \* history: addresses the agent has received
  knew         \* history: the connections made to an address so received

policyVars  == <<dynamicIPs>>
queryVars   == <<qpc, question, answer, next>>
connVars    == <<cpc, dst, host, copying>>
historyVars == <<said, told, knew>>
vars == <<policyVars, log, queryVars, connVars, historyVars>>
-----------------------------------------------------------------------------
(* Policy *)

\* One spelling per name: lower case, no trailing dot, no surrounding space.
NormalizeHost(n) == [n EXCEPT !.form = Plain]

\* The allow-list NewPolicy keeps: normalized, with empty entries dropped.
AllowedHosts == {NormalizeHost(h) : h \in AllowList} \ {[domain |-> Root, form |-> Plain]}

\* Fault: empty allow-list entries are kept, so the root is allowed.
AllowsHostOrEmpty(n) == NormalizeHost(n) \in {NormalizeHost(h) : h \in AllowList}

AllowsHost(n) == NormalizeHost(n) \in AllowedHosts

Learned == {ip \in IPs : dynamicIPs[ip] # NoHost}

AllowsIP(ip) == ip \in Learned \cup StaticIPs

\* The host half of AllowsIP's result: a learned name wins over a CIDR.
HostOf(ip) == dynamicIPs[ip]

\* Fault: the name is stored as the query spelled it.
LearnAsSpelled(n, ip) == dynamicIPs' = [dynamicIPs EXCEPT ![ip] = n]

\* Fault: what the host resolved to before is forgotten, as when addresses
\* rotate under a cache with one entry per host.
LearnLatest(n, ip) ==
  dynamicIPs' = [i \in IPs |-> IF i = ip THEN NormalizeHost(n)
                             ELSE IF dynamicIPs[i] = NormalizeHost(n) THEN NoHost ELSE dynamicIPs[i]]

\* Policy.Learn: the last name an address was resolved for replaces the
\* one before.
Learn(n, ip) == dynamicIPs' = [dynamicIPs EXCEPT ![ip] = NormalizeHost(n)]
-----------------------------------------------------------------------------
(* The activity log *)

Event(kind, action, h, ip, by) ==
  [kind |-> kind, action |-> action, host |-> h, destIP |-> ip, by |-> by]

Events ==
  [kind : {"dns", "tcp"}, action : {"allowed", "blocked", "error", "upstream-error", "dial-error"},
   host : Names \cup {NoHost}, destIP : IPs \cup {NoIP}, by : Queries \cup Conns]

Write(e) == log' = Append(log, e)
-----------------------------------------------------------------------------
Directions == {"up", "down"}

Init ==
  /\ dynamicIPs = [ip \in IPs |-> NoHost]
  /\ log = <<>>
  /\ qpc = [q \in Queries |-> "idle"]
  /\ question = [q \in Queries |-> Malformed]
  /\ answer = [q \in Queries |-> <<>>]
  /\ next = [q \in Queries |-> 1]
  /\ cpc = [k \in Conns |-> "idle"]
  /\ dst = [k \in Conns |-> NoIP]
  /\ host = [k \in Conns |-> NoHost]
  /\ copying = [k \in Conns |-> {}]
  /\ said = {}
  /\ told = {}
  /\ knew = {}
-----------------------------------------------------------------------------
(* DNSForwarder.ServeDNS, one action per step another goroutine can see *)

QueryGoes(q, from, to) == qpc[q] = from /\ qpc' = [qpc EXCEPT ![q] = to]

ReceiveQuery(q) ==
  /\ QueryGoes(q, "idle", "received")
  /\ \E n \in Asked \cup {Malformed} : question' = [question EXCEPT ![q] = n]
  /\ UNCHANGED <<policyVars, log, answer, next, connVars, historyVars>>

\* Not exactly one question: SERVFAIL at once, and no event.
RejectMalformed(q) ==
  /\ question[q] = Malformed
  /\ QueryGoes(q, "received", "done")
  /\ UNCHANGED <<policyVars, log, question, answer, next, connVars, historyVars>>

\* The name is not on the allow-list: log it, then answer NXDOMAIN.
BlockQuery(q) ==
  /\ question[q] # Malformed /\ ~AllowsHost(question[q])
  /\ QueryGoes(q, "received", "failing")
  /\ Write(Event("dns", "blocked", question[q], NoIP, q))
  /\ UNCHANGED <<policyVars, question, answer, next, connVars, historyVars>>

\* The exchange with the resolver failed, timed out or returned nothing.
UpstreamError(q) ==
  /\ question[q] # Malformed /\ AllowsHost(question[q])
  /\ QueryGoes(q, "received", "failing")
  /\ Write(Event("dns", "upstream-error", question[q], NoIP, q))
  /\ UNCHANGED <<policyVars, question, answer, next, connVars, historyVars>>

\* The exchange returned a response, with whatever records it likes.
UpstreamAnswer(q) ==
  /\ question[q] # Malformed /\ AllowsHost(question[q])
  /\ QueryGoes(q, "received", "learning")
  /\ \E a \in Answers :
       /\ answer' = [answer EXCEPT ![q] = a]
       /\ said' = said \cup {<<NormalizeHost(question[q]), a[i]>> : i \in {j \in DOMAIN a : a[j] \in IPs}}
  /\ next' = [next EXCEPT ![q] = 1]
  /\ UNCHANGED <<policyVars, log, question, connVars, told, knew>>

\* Fault: a record of another type is not stepped over.
LearnRecordStuck(q) ==
  /\ qpc[q] = "learning" /\ next[q] <= Len(answer[q])
  /\ answer[q][next[q]] \in IPs
  /\ Learn(question[q], answer[q][next[q]])
  /\ next' = [next EXCEPT ![q] = @ + 1]
  /\ UNCHANGED <<log, qpc, question, answer, connVars, historyVars>>

\* One turn of the loop over resp.Answer: its A and AAAA records are
\* learned, one lock acquisition each; the others are passed over.
LearnRecord(q) ==
  /\ qpc[q] = "learning" /\ next[q] <= Len(answer[q])
  /\ LET r == answer[q][next[q]] IN
       IF r \in IPs THEN Learn(question[q], r) ELSE UNCHANGED dynamicIPs
  /\ next' = [next EXCEPT ![q] = @ + 1]
  /\ UNCHANGED <<log, qpc, question, answer, connVars, historyVars>>

\* The event comes before the answer.
LogAllowedQuery(q) ==
  /\ next[q] > Len(answer[q])
  /\ QueryGoes(q, "learning", "answering")
  /\ Write(Event("dns", "allowed", question[q], NoIP, q))
  /\ UNCHANGED <<policyVars, question, answer, next, connVars, historyVars>>

\* Fault: the resolver's reply is passed on before it is learned and logged.
SendAnswerFirst(q) ==
  /\ qpc[q] \in {"learning", "answering"}
  /\ qpc' = [qpc EXCEPT ![q] = IF @ = "answering" THEN "done" ELSE @]
  /\ told' = told \cup {answer[q][i] : i \in {j \in 1..(next[q] - 1) : answer[q][j] \in IPs}}
  /\ UNCHANGED <<policyVars, log, question, answer, next, connVars, said, knew>>

\* WriteMsg: the agent receives the records, or the datagram is lost (the
\* error of WriteMsg is dropped too).
SendAnswer(q) ==
  /\ QueryGoes(q, "answering", "done")
  /\ \/ told' = told \cup {answer[q][i] : i \in {j \in DOMAIN answer[q] : answer[q][j] \in IPs}}
     \/ told' = told
  /\ UNCHANGED <<policyVars, log, question, answer, next, connVars, said, knew>>

\* WriteMsg of an NXDOMAIN or SERVFAIL: no address in it.
SendFailure(q) ==
  /\ QueryGoes(q, "failing", "done")
  /\ UNCHANGED <<policyVars, log, question, answer, next, connVars, historyVars>>

ServeDNS(q) ==
  \/ RejectMalformed(q) \/ BlockQuery(q) \/ UpstreamError(q) \/ UpstreamAnswer(q)
  \/ LearnRecord(q) \/ LogAllowedQuery(q) \/ SendAnswer(q) \/ SendFailure(q)
-----------------------------------------------------------------------------
(* Relay.handle *)

ConnGoes(k, from, to) == cpc[k] = from /\ cpc' = [cpc EXCEPT ![k] = to]

\* The agent connects and Serve hands the socket to a handler.  NoIP is a
\* connection that no REDIRECT rule sent here.
Accept(k) ==
  /\ ConnGoes(k, "idle", "accepted")
  /\ \E ip \in IPs \cup {NoIP} :
       /\ dst' = [dst EXCEPT ![k] = ip]
       /\ knew' = IF ip \in told THEN knew \cup {k} ELSE knew
  /\ UNCHANGED <<policyVars, log, queryVars, host, copying, said, told>>

\* getOriginalDst fails.
NoOriginalDst(k) ==
  /\ dst[k] = NoIP
  /\ ConnGoes(k, "accepted", "error")
  /\ Write(Event("tcp", "error", NoHost, NoIP, k))
  /\ UNCHANGED <<policyVars, queryVars, dst, host, copying, historyVars>>

\* Fault: the destination is not looked up.
CheckNothing(k) ==
  /\ dst[k] \in IPs
  /\ ConnGoes(k, "accepted", "dialing")
  /\ host' = [host EXCEPT ![k] = HostOf(dst[k])]
  /\ UNCHANGED <<policyVars, log, queryVars, dst, copying, historyVars>>

\* The one look at the policy, under its read lock.
CheckDestination(k) ==
  /\ dst[k] \in IPs
  /\ IF AllowsIP(dst[k])
       THEN /\ ConnGoes(k, "accepted", "dialing")
            /\ host' = [host EXCEPT ![k] = HostOf(dst[k])]
       ELSE /\ ConnGoes(k, "accepted", "refusing")
            /\ host' = host
  /\ UNCHANGED <<policyVars, log, queryVars, dst, copying, historyVars>>

LogBlocked(k) ==
  /\ ConnGoes(k, "refusing", "blocked")
  /\ Write(Event("tcp", "blocked", NoHost, dst[k], k))
  /\ UNCHANGED <<policyVars, queryVars, dst, host, copying, historyVars>>

\* net.DialTimeout: refused, unreachable or timed out.
DialFails(k) ==
  /\ ConnGoes(k, "dialing", "dial-error")
  /\ Write(Event("tcp", "dial-error", host[k], dst[k], k))
  /\ UNCHANGED <<policyVars, queryVars, dst, host, copying, historyVars>>

DialSucceeds(k) ==
  /\ ConnGoes(k, "dialing", "connected")
  /\ UNCHANGED <<policyVars, log, queryVars, dst, host, copying, historyVars>>

LogAllowedConn(k) ==
  /\ ConnGoes(k, "connected", "splicing")
  /\ Write(Event("tcp", "allowed", host[k], dst[k], k))
  /\ copying' = [copying EXCEPT ![k] = Directions]
  /\ UNCHANGED <<policyVars, queryVars, dst, host, historyVars>>

\* One io.Copy of splice ends and half-closes its destination.
CopyEnds(k, d) ==
  /\ cpc[k] = "splicing" /\ d \in copying[k]
  /\ copying' = [copying EXCEPT ![k] = @ \ {d}]
  /\ UNCHANGED <<policyVars, log, queryVars, cpc, dst, host, historyVars>>

\* wg.Wait returns, and the deferred closes run.
SpliceReturns(k) ==
  /\ copying[k] = {}
  /\ ConnGoes(k, "splicing", "closed")
  /\ UNCHANGED <<policyVars, log, queryVars, dst, host, copying, historyVars>>

Handle(k) ==
  \/ NoOriginalDst(k) \/ CheckDestination(k) \/ LogBlocked(k) \/ DialFails(k)
  \/ DialSucceeds(k) \/ LogAllowedConn(k) \/ SpliceReturns(k)
-----------------------------------------------------------------------------
Next ==
  \/ \E q \in Queries : ReceiveQuery(q) \/ ServeDNS(q)
  \/ \E k \in Conns : Accept(k) \/ Handle(k) \/ \E d \in Directions : CopyEnds(k, d)

Spec == Init /\ [][Next]_vars

\* A handler that has a step to take takes it: the exchange and the dial
\* both have timeouts, so neither can block its goroutine for ever.  Nothing
\* obliges the agent to send a query, to connect, or to close what it opened.
Fairness ==
  /\ \A q \in Queries : WF_vars(ServeDNS(q))
  /\ \A k \in Conns : WF_vars(Handle(k))

FairSpec == Spec /\ Fairness
-----------------------------------------------------------------------------
(* Properties *)

TypeOK ==
  /\ dynamicIPs \in [IPs -> Hosts \cup {NoHost}]
  /\ log \in Seq(Events)
  /\ qpc \in [Queries -> {"idle", "received", "learning", "answering", "failing", "done"}]
  /\ question \in [Queries -> Asked \cup {Malformed}]
  /\ \A q \in Queries : qpc[q] \in {"learning", "answering", "failing"} => question[q] \in Asked
  /\ answer \in [Queries -> Answers \cup {<<>>}]
  /\ next \in [Queries -> Nat \ {0}]
  /\ cpc \in [Conns -> {"idle", "accepted", "refusing", "dialing", "connected", "splicing",
                        "error", "blocked", "dial-error", "closed"}]
  /\ dst \in [Conns -> IPs \cup {NoIP}]
  /\ host \in [Conns -> Hosts \cup {NoHost}]
  /\ copying \in [Conns -> SUBSET Directions]
  /\ said \subseteq Hosts \X IPs
  /\ told \subseteq IPs
  /\ knew \subseteq Conns

\* The connections whose upstream half has been opened.
Relayed == {k \in Conns : cpc[k] \in {"connected", "splicing", "closed"}}

\* A destination the policy stands behind: a static CIDR holds it, or the
\* resolver gave it for a name of the allow-list.
Vouched(ip) == ip \in StaticIPs \/ \E h \in AllowedHosts : <<h, ip>> \in said

\* The relay opens no connection to an address the policy does not stand
\* behind, whatever the agent dials and however its queries and connections
\* interleave (policy.go's backstop check, relay.go handle).
RelayedOnlyIfVouched == \A k \in Relayed : Vouched(dst[k])

\* An address the agent has been given is one the relay lets through, and
\* stays so: Learn precedes WriteMsg for every record of the answer, and no
\* later answer, for this name or another, takes it back.
ToldIsRelayable == \A ip \in told : AllowsIP(ip)

EventsBy(x) == {i \in DOMAIN log : log[i].by = x}

\* No event before a connection's fate is known, exactly one after, agreeing with
\* it, and in the log before a byte is copied either way.
ToldOnce(k) ==
  /\ cpc[k] \in {"idle", "accepted", "refusing", "dialing", "connected"} =>
       EventsBy(k) = {} /\ copying[k] = {}
  /\ cpc[k] \in {"splicing", "closed", "blocked", "dial-error", "error"} =>
       \E i \in DOMAIN log :
         /\ EventsBy(k) = {i}
         /\ log[i].destIP = dst[k]
         /\ log[i].action = IF k \in Relayed THEN "allowed" ELSE cpc[k]

\* An earlier event of an allowed query that brought the agent the address.
Explained(k, i) ==
  \E j \in 1..(i - 1) :
    /\ log[j].kind = "dns" /\ log[j].action = "allowed"
    /\ \E q \in Queries : log[j].by = q /\ \E r \in DOMAIN answer[q] : answer[q][r] = dst[k]

\* The log tells every connection's story once.  One to an address the agent
\* was given is never refused, and the query that brought the address to it
\* stands before it as allowed: the log read from the top explains itself.
ConnectionsAccounted ==
  /\ \A k \in Conns : ToldOnce(k)
  /\ \A k \in knew : \A i \in EventsBy(k) :
       log[i].action \in {"allowed", "dial-error"} /\ Explained(k, i)

\* The name a connection is logged under is an allow-listed name that did
\* resolve to its destination; none is given only when a CIDR alone let it
\* through and no name had been learned for it when it was judged.
Attributed(e) ==
  IF e.host = NoHost THEN e.destIP \in StaticIPs
                     ELSE e.host \in AllowedHosts /\ <<e.host, e.destIP>> \in said

ConnectionsAttributed ==
  \A i \in DOMAIN log :
    log[i].kind = "tcp" /\ log[i].action \in {"allowed", "dial-error"} => Attributed(log[i])

\* Every query is answered, be it with a failure.
QueriesAnswered == \A q \in Queries : qpc[q] = "received" ~> qpc[q] = "done"

\* The sidecar implements the gate: learned addresses are the granted ones,
\* and a connection's fate is sealed where handle decides it.
FateOf(k) ==
  CASE cpc[k] = "idle" -> "none"
    [] cpc[k] \in {"accepted", "dialing"} -> "pending"
    [] cpc[k] \in {"refusing", "blocked"} -> "refused"
    [] cpc[k] \in {"connected", "splicing", "closed"} -> "relayed"
    [] OTHER -> "failed"

Gate == INSTANCE EgressGate
          WITH granted <- Learned, target <- dst, fate <- [k \in Conns |-> FateOf(k)]

\* Every fair behaviour of the sidecar is one of the gate's, its liveness
\* included: each connection is relayed, refused or failed.
ImplementsGate == Gate!GateSpec
=============================================================================
