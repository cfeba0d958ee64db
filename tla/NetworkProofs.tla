---------------------------- MODULE NetworkProofs ----------------------------
(***************************************************************************)
(* The two sides of a project's network jail, for every allow-list, every  *)
(* number of handlers, sidecars and events, and every set of answers.  Of  *)
(* NetProxy, the sidecar: type correctness, the inductive invariant behind *)
(* its safety, that its log accounts for what it did, and the safety half  *)
(* of its refinement of EgressGate.  Of NetLog, the log's writers and its  *)
(* readers: what writing line by line leaves in the file, and that the     *)
(* reader delivers all of it that can be read, once and in order, shows    *)
(* what it was asked to, and does not return quietly before the end.       *)
(***************************************************************************)
EXTENDS NetProxy, NetLog, FiniteSetTheorems, SequenceTheorems, WellFoundedInduction, TLAPS

(* The sidecar *)

Records == IPs \cup {Other}

\* normalizeHost yields a normalized name.
LEMMA NormalizedIsHost == ASSUME NEW n \in Names PROVE NormalizeHost(n) \in Hosts
  BY ProxyAssumption DEF Names, Hosts, NormalizeHost

\* A normalized name is a name, and never the empty attribution.
LEMMA HostsAreNames == Hosts \subseteq Names /\ NoHost \notin Hosts
  BY ProxyAssumption DEF Names, Hosts

\* What upstream may answer is a sequence of records, and so is no answer yet.
LEMMA AnswersAreSequences == Answers \cup {<<>>} \subseteq Seq(Records)
<1>1. Answers \subseteq Seq(Records)
  BY ProxyAssumption DEF Records
<1>2. <<>> \in Seq(Records)
  OBVIOUS
<1>3. QED
  BY <1>1, <1>2

\* The sidecar's variables keep their types: in particular every address is
\* learned under a normalized name.
THEOREM TypeCorrect == Spec => []TypeOK
<1>1. Init => TypeOK
  BY ProxyAssumption DEF Init, TypeOK, Hosts
<1>2. TypeOK /\ [Next]_vars => TypeOK'
  <2> SUFFICES ASSUME TypeOK, [Next]_vars PROVE TypeOK'
    OBVIOUS
  <2> USE ProxyAssumption, HostsAreNames DEF TypeOK, policyVars, queryVars, connVars, historyVars
  <2>1. ASSUME NEW q \in Queries, ReceiveQuery(q) PROVE TypeOK'
    BY <2>1 DEF ReceiveQuery, QueryGoes
  <2>2. ASSUME NEW q \in Queries, RejectMalformed(q) PROVE TypeOK'
    BY <2>2 DEF RejectMalformed, QueryGoes
  <2>3. ASSUME NEW q \in Queries, BlockQuery(q) PROVE TypeOK'
    BY <2>3 DEF BlockQuery, QueryGoes, Write, Event, Events
  <2>4. ASSUME NEW q \in Queries, UpstreamError(q) PROVE TypeOK'
    BY <2>4 DEF UpstreamError, QueryGoes, Write, Event, Events
  <2>5. ASSUME NEW q \in Queries, UpstreamAnswer(q) PROVE TypeOK'
    <3>1. PICK a \in Answers :
            /\ answer' = [answer EXCEPT ![q] = a]
            /\ said' = said \cup {<<NormalizeHost(question[q]), a[i]>> : i \in {j \in DOMAIN a : a[j] \in IPs}}
      BY <2>5 DEF UpstreamAnswer
    <3>2. question[q] \in Names
      BY <2>5 DEF UpstreamAnswer
    <3>3. said' \subseteq Hosts \X IPs
      BY <3>1, <3>2, NormalizedIsHost
    <3>4. QED
      BY <2>5, <3>1, <3>3 DEF UpstreamAnswer, QueryGoes
  <2>6. ASSUME NEW q \in Queries, LearnRecord(q) PROVE TypeOK'
    <3>1. dynamicIPs' \in [IPs -> Hosts \cup {NoHost}]
      <4>1. CASE answer[q][next[q]] \in IPs
        <5>1. question[q] \in Names => NormalizeHost(question[q]) \in Hosts
          BY NormalizedIsHost
        <5>2. question[q] \in Names
          BY <2>6 DEF LearnRecord
        <5>3. QED
          BY <2>6, <4>1, <5>1, <5>2 DEF LearnRecord, Learn
      <4>2. CASE answer[q][next[q]] \notin IPs
        BY <2>6, <4>2 DEF LearnRecord
      <4>3. QED
        BY <4>1, <4>2
    <3>2. next' \in [Queries -> Nat \ {0}]
      BY <2>6 DEF LearnRecord
    <3>3. QED
      BY <2>6, <3>1, <3>2 DEF LearnRecord
  <2>7. ASSUME NEW q \in Queries, LogAllowedQuery(q) PROVE TypeOK'
    <3>1. Event("dns", "allowed", question[q], NoIP, q) \in Events
      BY <2>7 DEF LogAllowedQuery, QueryGoes, Event, Events
    <3>2. log' \in Seq(Events) /\ qpc' = [qpc EXCEPT ![q] = "answering"]
      BY <2>7, <3>1 DEF LogAllowedQuery, QueryGoes, Write
    <3>3. QED
      BY <2>7, <3>2 DEF LogAllowedQuery, QueryGoes
  <2>8. ASSUME NEW q \in Queries, SendAnswer(q) PROVE TypeOK'
    BY <2>8 DEF SendAnswer, QueryGoes
  <2>9. ASSUME NEW q \in Queries, SendFailure(q) PROVE TypeOK'
    BY <2>9 DEF SendFailure, QueryGoes
  <2>10. ASSUME NEW k \in Conns, Accept(k) PROVE TypeOK'
    BY <2>10 DEF Accept, ConnGoes
  <2>11. ASSUME NEW k \in Conns, NoOriginalDst(k) PROVE TypeOK'
    BY <2>11 DEF NoOriginalDst, ConnGoes, Write, Event, Events
  <2>12. ASSUME NEW k \in Conns, CheckDestination(k) PROVE TypeOK'
    <3>1. cpc' \in [Conns -> {"idle", "accepted", "refusing", "dialing", "connected", "splicing",
                             "error", "blocked", "dial-error", "closed"}]
      BY <2>12 DEF CheckDestination, ConnGoes
    <3>2. host' \in [Conns -> Hosts \cup {NoHost}]
      <4>1. dynamicIPs[dst[k]] \in Hosts \cup {NoHost}
        BY <2>12 DEF CheckDestination
      <4>2. host' \in {host, [host EXCEPT ![k] = dynamicIPs[dst[k]]]}
        BY <2>12 DEF CheckDestination, HostOf
      <4>3. QED
        BY <4>1, <4>2
    <3>3. QED
      BY <2>12, <3>1, <3>2 DEF CheckDestination
  <2>13. ASSUME NEW k \in Conns, LogBlocked(k) PROVE TypeOK'
    BY <2>13 DEF LogBlocked, ConnGoes, Write, Event, Events
  <2>14. ASSUME NEW k \in Conns, DialFails(k) PROVE TypeOK'
    BY <2>14 DEF DialFails, ConnGoes, Write, Event, Events
  <2>15. ASSUME NEW k \in Conns, DialSucceeds(k) PROVE TypeOK'
    BY <2>15 DEF DialSucceeds, ConnGoes
  <2>16. ASSUME NEW k \in Conns, LogAllowedConn(k) PROVE TypeOK'
    BY <2>16 DEF LogAllowedConn, ConnGoes, Write, Event, Events, Directions
  <2>17. ASSUME NEW k \in Conns, SpliceReturns(k) PROVE TypeOK'
    BY <2>17 DEF SpliceReturns, ConnGoes
  <2>18. ASSUME NEW k \in Conns, NEW d \in Directions, CopyEnds(k, d) PROVE TypeOK'
    BY <2>18 DEF CopyEnds
  <2>19. CASE UNCHANGED vars
    BY <2>19 DEF vars
  <2>20. QED
    BY <2>1, <2>2, <2>3, <2>4, <2>5, <2>6, <2>7, <2>8, <2>9, <2>10, <2>11, <2>12, <2>13,
       <2>14, <2>15, <2>16, <2>17, <2>18, <2>19 DEF Next, ServeDNS, Handle
<1>3. QED
  BY <1>1, <1>2, PTL DEF Spec
-----------------------------------------------------------------------------
(* The inductive invariant.  TypeOK and the properties are not inductive:  *)
(* that an address given to the agent is reachable rests on how far each   *)
(* handler has got through its answer, and that a relayed destination is   *)
(* vouched for rests on where every learned address came from.             *)

\* Whoever an address was learned for is allow-listed, and upstream said so.
GrantedByResolver ==
  \A ip \in Learned : dynamicIPs[ip] \in AllowedHosts /\ <<dynamicIPs[ip], ip>> \in said

\* A handler past the exchange works for an allow-listed name, all of its
\* answer was said by upstream, and the part it has passed is learned.
HandlerProgress(q) ==
  /\ NormalizeHost(question[q]) \in AllowedHosts
  /\ answer[q] \in Answers
  /\ \A i \in DOMAIN answer[q] : answer[q][i] \in IPs =>
       /\ <<NormalizeHost(question[q]), answer[q][i]>> \in said
       /\ i < next[q] => answer[q][i] \in Learned
  /\ qpc[q] = "answering" => next[q] > Len(answer[q])

AnswersLearned == \A q \in Queries : qpc[q] \in {"learning", "answering"} => HandlerProgress(q)

ToldLearned == told \subseteq Learned

\* A destination that passed the check, and the name it passed under.
Judgement(k) ==
  /\ dst[k] \in Learned \cup StaticIPs
  /\ IF host[k] = NoHost THEN dst[k] \in StaticIPs
                         ELSE host[k] \in AllowedHosts /\ <<host[k], dst[k]>> \in said

Judged == \A k \in Conns : cpc[k] = "dialing" \/ k \in Relayed => Judgement(k)

SafetyInv ==
  TypeOK /\ GrantedByResolver /\ AnswersLearned /\ ToldLearned /\ Judged /\ ConnectionsAttributed

\* No step of any handler takes back what upstream said or what was learned.
LEMMA Monotone ==
  ASSUME TypeOK, [Next]_vars
  PROVE  said \subseteq said' /\ Learned \subseteq Learned'
<1> USE DEF TypeOK, policyVars, queryVars, connVars, historyVars, Learned
<1>1. CASE \E q \in Queries : LearnRecord(q)
  <2>1. PICK q \in Queries : LearnRecord(q)
    BY <1>1
  <2>2. said' = said
    BY <2>1 DEF LearnRecord
  <2>3. NormalizeHost(question[q]) # NoHost
    BY <2>1, NormalizedIsHost, HostsAreNames, ProxyAssumption DEF LearnRecord
  <2>4. QED
    BY <2>1, <2>2, <2>3 DEF LearnRecord, Learn
<1>2. CASE \E q \in Queries : UpstreamAnswer(q)
  BY <1>2 DEF UpstreamAnswer
<1>3. CASE ~(\E q \in Queries : LearnRecord(q) \/ UpstreamAnswer(q))
  BY <1>3 DEF Next, ServeDNS, Handle, vars, ReceiveQuery, RejectMalformed, BlockQuery,
       UpstreamError, LogAllowedQuery, SendAnswer, SendFailure, Accept, NoOriginalDst,
       CheckDestination, LogBlocked, DialFails, DialSucceeds, LogAllowedConn, SpliceReturns,
       CopyEnds
<1>4. QED
  BY <1>1, <1>2, <1>3

\* Every learned address stays one upstream gave for an allow-listed name.
LEMMA GrantedPreserved ==
  ASSUME SafetyInv, [Next]_vars
  PROVE  GrantedByResolver'
<1> USE DEF SafetyInv, TypeOK, policyVars, queryVars, connVars, historyVars, Learned
<1>1. said \subseteq said'
  BY Monotone
<1>2. CASE \E q \in Queries : LearnRecord(q)
  <2>1. PICK q \in Queries : LearnRecord(q)
    BY <1>2
  <2>2. HandlerProgress(q)
    BY <2>1 DEF LearnRecord, AnswersLearned
  <2>3. CASE answer[q][next[q]] \in IPs
    <3>1. answer[q] \in Seq(Records)
      BY AnswersAreSequences
    <3>2. next[q] \in DOMAIN answer[q]
      BY <2>1, <3>1 DEF LearnRecord
    <3>3. <<NormalizeHost(question[q]), answer[q][next[q]]>> \in said
      BY <2>2, <2>3, <3>2 DEF HandlerProgress
    <3>4. dynamicIPs' = [dynamicIPs EXCEPT ![answer[q][next[q]]] = NormalizeHost(question[q])]
      BY <2>1, <2>3 DEF LearnRecord, Learn
    <3>5. QED
      BY <1>1, <2>2, <3>3, <3>4, <2>3 DEF GrantedByResolver, HandlerProgress
  <2>4. CASE answer[q][next[q]] \notin IPs
    BY <1>1, <2>1, <2>4 DEF LearnRecord, GrantedByResolver
  <2>5. QED
    BY <2>3, <2>4
<1>3. CASE ~(\E q \in Queries : LearnRecord(q))
  <2>1. dynamicIPs' = dynamicIPs
    BY <1>3 DEF Next, ServeDNS, Handle, vars, ReceiveQuery, RejectMalformed, BlockQuery,
       UpstreamError, UpstreamAnswer, LogAllowedQuery, SendAnswer, SendFailure, Accept,
       NoOriginalDst, CheckDestination, LogBlocked, DialFails, DialSucceeds, LogAllowedConn,
       SpliceReturns, CopyEnds
  <2>2. QED
    BY <1>1, <2>1 DEF GrantedByResolver
<1>4. QED
  BY <1>2, <1>3

\* The records a query handler has gone through stay learned.
LEMMA HandlersPreserved ==
  ASSUME SafetyInv, [Next]_vars
  PROVE  AnswersLearned'
<1> USE DEF SafetyInv, TypeOK, policyVars, queryVars, connVars, historyVars
<1>1. said \subseteq said' /\ Learned \subseteq Learned'
  BY Monotone
<1>2. SUFFICES ASSUME NEW q \in Queries, qpc'[q] \in {"learning", "answering"}
               PROVE  HandlerProgress(q)'
  BY DEF AnswersLearned
<1>3. CASE question'[q] = question[q] /\ answer'[q] = answer[q] /\ next'[q] = next[q] /\ qpc'[q] = qpc[q]
  BY <1>1, <1>2, <1>3 DEF AnswersLearned, HandlerProgress
<1>4. CASE UpstreamAnswer(q)
  <2>1. PICK a \in Answers :
          /\ answer' = [answer EXCEPT ![q] = a]
          /\ said' = said \cup {<<NormalizeHost(question[q]), a[i]>> : i \in {j \in DOMAIN a : a[j] \in IPs}}
    BY <1>4 DEF UpstreamAnswer
  <2>2. answer'[q] = a /\ question'[q] = question[q] /\ next'[q] = 1 /\ qpc'[q] = "learning"
    BY <1>4, <2>1 DEF UpstreamAnswer, QueryGoes
  <2>3. NormalizeHost(question[q]) \in AllowedHosts
    BY <1>4 DEF UpstreamAnswer, AllowsHost
  <2>4. a \in Seq(Records)
    BY AnswersAreSequences
  <2>5. \A i \in DOMAIN a : ~(i < 1)
    BY <2>4
  <2>6. \A i \in DOMAIN a : a[i] \in IPs => <<NormalizeHost(question[q]), a[i]>> \in said'
    BY <2>1
  <2>7. QED
    BY <2>2, <2>3, <2>5, <2>6 DEF HandlerProgress
<1>5. CASE LearnRecord(q)
  <2>1. HandlerProgress(q)
    BY <1>5 DEF LearnRecord, AnswersLearned
  <2>2. answer[q] \in Seq(Records) /\ next[q] \in DOMAIN answer[q]
    BY <1>5, AnswersAreSequences DEF LearnRecord
  <2>3. /\ next'[q] = next[q] + 1
        /\ question'[q] = question[q] /\ answer'[q] = answer[q] /\ qpc'[q] = "learning"
    BY <1>5 DEF LearnRecord
  <2>4. answer[q][next[q]] \in IPs => answer[q][next[q]] \in Learned'
    BY <1>5, NormalizedIsHost, HostsAreNames, ProxyAssumption DEF LearnRecord, Learn, Learned
  <2>5. ASSUME NEW i \in DOMAIN answer[q], answer[q][i] \in IPs, i < next[q] + 1
        PROVE  answer[q][i] \in Learned'
    <3>1. CASE i < next[q]
      BY <1>1, <2>1, <2>5, <3>1 DEF HandlerProgress
    <3>2. CASE i = next[q]
      BY <2>4, <2>5, <3>2
    <3>3. i \in Nat
      BY <2>2
    <3>4. QED
      BY <2>5, <3>1, <3>2, <3>3
  <2>6. QED
    BY <1>1, <2>1, <2>3, <2>5 DEF HandlerProgress
<1>6. CASE LogAllowedQuery(q)
  <2>1. qpc[q] = "learning" /\ next[q] > Len(answer[q]) /\ qpc'[q] = "answering"
    BY <1>6 DEF LogAllowedQuery, QueryGoes
  <2>2. question' = question /\ answer' = answer /\ next' = next
    BY <1>6 DEF LogAllowedQuery
  <2>3. QED
    BY <1>1, <2>1, <2>2 DEF AnswersLearned, HandlerProgress
<1>7. CASE ~(UpstreamAnswer(q) \/ LearnRecord(q) \/ LogAllowedQuery(q))
  <2>1. ASSUME NEW p \in Queries, ReceiveQuery(p) \/ ServeDNS(p) PROVE HandlerProgress(q)'
    <3>1. CASE p = q
      BY <1>2, <1>7, <2>1, <3>1 DEF ServeDNS, QueryGoes, ReceiveQuery, RejectMalformed, BlockQuery,
           UpstreamError, SendAnswer, SendFailure
    <3>2. CASE p # q
      BY <1>3, <2>1, <3>2 DEF ServeDNS, QueryGoes, ReceiveQuery, RejectMalformed, BlockQuery,
           UpstreamError, UpstreamAnswer, LearnRecord, LogAllowedQuery, SendAnswer, SendFailure
    <3>3. QED
      BY <3>1, <3>2
  <2>2. CASE UNCHANGED queryVars
    BY <1>3, <2>2
  <2>3. QED
    BY <2>1, <2>2 DEF Next, vars, Handle, Accept, NoOriginalDst, CheckDestination, LogBlocked,
       DialFails, DialSucceeds, LogAllowedConn, SpliceReturns, CopyEnds
<1>8. QED
  BY <1>4, <1>5, <1>6, <1>7

\* What the agent was told stays learned: nothing un-learns an address.
LEMMA ToldPreserved ==
  ASSUME SafetyInv, [Next]_vars
  PROVE  ToldLearned'
<1> USE DEF SafetyInv, TypeOK, policyVars, queryVars, connVars, historyVars
<1>1. Learned \subseteq Learned'
  BY Monotone
<1>2. CASE \E q \in Queries : SendAnswer(q)
  <2>1. PICK q \in Queries : SendAnswer(q)
    BY <1>2
  <2>2. qpc[q] = "answering"
    BY <2>1 DEF SendAnswer, QueryGoes
  <2>3. HandlerProgress(q)
    BY <2>2 DEF AnswersLearned
  <2>4. answer[q] \in Seq(Records)
    BY AnswersAreSequences
  <2>5. \A i \in DOMAIN answer[q] : i < next[q]
    BY <2>2, <2>3, <2>4 DEF HandlerProgress
  <2>6. {answer[q][i] : i \in {j \in DOMAIN answer[q] : answer[q][j] \in IPs}} \subseteq Learned
    BY <2>3, <2>5 DEF HandlerProgress
  <2>7. told' \subseteq told \cup {answer[q][i] : i \in {j \in DOMAIN answer[q] : answer[q][j] \in IPs}}
    BY <2>1 DEF SendAnswer
  <2>8. QED
    BY <1>1, <2>6, <2>7 DEF ToldLearned
<1>3. CASE ~(\E q \in Queries : SendAnswer(q))
  <2>1. told' = told
    BY <1>3 DEF Next, ServeDNS, Handle, vars, ReceiveQuery, RejectMalformed, BlockQuery,
       UpstreamError, UpstreamAnswer, LearnRecord, LogAllowedQuery, SendFailure, Accept,
       NoOriginalDst, CheckDestination, LogBlocked, DialFails, DialSucceeds, LogAllowedConn,
       SpliceReturns, CopyEnds
  <2>2. QED
    BY <1>1, <2>1 DEF ToldLearned
<1>4. QED
  BY <1>2, <1>3

\* A connection past the policy check keeps its vouched, attributed destination.
LEMMA JudgedPreserved ==
  ASSUME SafetyInv, [Next]_vars
  PROVE  Judged'
<1> USE DEF SafetyInv, TypeOK, policyVars, queryVars, connVars, historyVars
<1>1. said \subseteq said' /\ Learned \subseteq Learned'
  BY Monotone
<1>2. SUFFICES ASSUME NEW k \in Conns, cpc'[k] \in {"dialing", "connected", "splicing", "closed"}
               PROVE  Judgement(k)'
  BY DEF Judged, Relayed
<1>3. CASE /\ cpc[k] \in {"dialing", "connected", "splicing", "closed"}
           /\ dst'[k] = dst[k] /\ host'[k] = host[k]
  BY <1>1, <1>3 DEF Judged, Judgement, Relayed
<1>4. CASE CheckDestination(k)
  <2>1. AllowsIP(dst[k]) /\ dst[k] \in IPs
    BY <1>2, <1>4 DEF CheckDestination, ConnGoes
  <2>2. host'[k] = dynamicIPs[dst[k]] /\ dst'[k] = dst[k]
    BY <1>4, <2>1 DEF CheckDestination, HostOf
  <2>3. dst[k] \in Learned => dynamicIPs[dst[k]] \in AllowedHosts /\ <<dynamicIPs[dst[k]], dst[k]>> \in said
    BY DEF GrantedByResolver
  <2>4. dst[k] \notin Learned => dynamicIPs[dst[k]] = NoHost
    BY <2>1 DEF Learned
  <2>5. dst[k] \in Learned => dynamicIPs[dst[k]] # NoHost
    BY DEF Learned
  <2>6. QED
    BY <1>1, <2>1, <2>2, <2>3, <2>4, <2>5 DEF Judgement, AllowsIP
<1>5. CASE ~CheckDestination(k)
  <2>1. ASSUME NEW p \in Conns, Accept(p) \/ Handle(p) \/ \E d \in Directions : CopyEnds(p, d)
        PROVE  Judgement(k)'
    <3>1. CASE p = k
      BY <1>2, <1>3, <1>5, <2>1, <3>1 DEF Handle, ConnGoes, Accept, NoOriginalDst, LogBlocked,
           DialFails, DialSucceeds, LogAllowedConn, SpliceReturns, CopyEnds
    <3>2. CASE p # k
      BY <1>2, <1>3, <2>1, <3>2 DEF Handle, ConnGoes, Accept, NoOriginalDst, CheckDestination,
           LogBlocked, DialFails, DialSucceeds, LogAllowedConn, SpliceReturns, CopyEnds
    <3>3. QED
      BY <3>1, <3>2
  <2>2. CASE UNCHANGED connVars
    BY <1>2, <1>3, <2>2
  <2>3. QED
    BY <2>1, <2>2 DEF Next, vars, ServeDNS, ReceiveQuery, RejectMalformed, BlockQuery,
       UpstreamError, UpstreamAnswer, LearnRecord, LogAllowedQuery, SendAnswer, SendFailure
<1>6. QED
  BY <1>4, <1>5

\* A tcp event written for a relayed or dialled destination is written from
\* what CheckDestination found.
LEMMA AttributedPreserved ==
  ASSUME SafetyInv, [Next]_vars
  PROVE  ConnectionsAttributed'
<1> USE DEF SafetyInv, TypeOK, policyVars, queryVars, connVars, historyVars
<1>1. said \subseteq said'
  BY Monotone
<1>2. CASE log' = log
  BY <1>1, <1>2 DEF ConnectionsAttributed, Attributed
<1>3. ASSUME NEW e \in Events, Write(e),
             e.kind = "tcp" /\ e.action \in {"allowed", "dial-error"} => Attributed(e)
      PROVE  ConnectionsAttributed'
  <2>1. log' = Append(log, e)
    BY <1>3 DEF Write
  <2>2. DOMAIN log' = DOMAIN log \cup {Len(log) + 1} /\ log'[Len(log) + 1] = e
    BY <2>1
  <2>3. \A i \in DOMAIN log : log'[i] = log[i]
    BY <2>1
  <2>4. SUFFICES ASSUME NEW i \in DOMAIN log', log'[i].kind = "tcp",
                        log'[i].action \in {"allowed", "dial-error"}
                 PROVE  Attributed(log[i])'
    BY DEF ConnectionsAttributed
  <2>5. CASE i \in DOMAIN log
    <3>1. Attributed(log[i])
      BY <2>3, <2>4, <2>5 DEF ConnectionsAttributed
    <3>2. QED
      BY <1>1, <2>3, <2>5, <3>1 DEF Attributed
  <2>6. CASE i = Len(log) + 1
    <3>1. Attributed(e)
      BY <1>3, <2>2, <2>4, <2>6
    <3>2. QED
      BY <1>1, <2>2, <2>6, <3>1 DEF Attributed
  <2>7. QED
    BY <2>2, <2>4, <2>5, <2>6
<1>4. ASSUME NEW q \in Queries, ReceiveQuery(q) \/ ServeDNS(q) PROVE ConnectionsAttributed'
  <2>1. CASE log' = log
    BY <1>2, <2>1
  <2>2. CASE log' # log
    <3>1. question[q] \in Names
      BY <1>4, <2>2, ProxyAssumption DEF ReceiveQuery, ServeDNS, RejectMalformed, BlockQuery,
         UpstreamError,
         UpstreamAnswer, LearnRecord, LogAllowedQuery, SendAnswer, SendFailure, QueryGoes
    <3>2. \E a \in {"blocked", "upstream-error", "allowed"} : Write(Event("dns", a, question[q], NoIP, q))
      BY <1>4, <2>2 DEF ReceiveQuery, ServeDNS, RejectMalformed, BlockQuery, UpstreamError,
         UpstreamAnswer, LearnRecord, LogAllowedQuery, SendAnswer, SendFailure
    <3>3. QED
      BY <1>3, <3>1, <3>2 DEF Event, Events
  <2>3. QED
    BY <2>1, <2>2
<1>5. ASSUME NEW k \in Conns, Accept(k) \/ Handle(k) \/ \E d \in Directions : CopyEnds(k, d)
      PROVE  ConnectionsAttributed'
  <2>1. CASE NoOriginalDst(k)
    BY <1>3, <2>1 DEF NoOriginalDst, Event, Events
  <2>2. CASE LogBlocked(k)
    BY <1>3, <2>2 DEF LogBlocked, Event, Events
  <2>3. CASE DialFails(k) \/ LogAllowedConn(k)
    <3>1. cpc[k] = "dialing" \/ k \in Relayed
      BY <2>3 DEF DialFails, LogAllowedConn, ConnGoes, Relayed
    <3>2. Judgement(k)
      BY <3>1 DEF Judged
    <3>3. host[k] \in Names \cup {NoHost} /\ dst[k] \in IPs \cup {NoIP}
      BY HostsAreNames
    <3>4. ASSUME NEW a \in {"allowed", "dial-error"}, Write(Event("tcp", a, host[k], dst[k], k))
          PROVE  ConnectionsAttributed'
      <4>1. Attributed(Event("tcp", a, host[k], dst[k], k))
        BY <3>2 DEF Attributed, Event, Judgement
      <4>2. Event("tcp", a, host[k], dst[k], k) \in Events
        BY <3>3 DEF Event, Events
      <4>3. QED
        BY <1>3, <3>4, <4>1, <4>2
    <3>5. QED
      BY <2>3, <3>4 DEF DialFails, LogAllowedConn
  <2>4. CASE ~(NoOriginalDst(k) \/ LogBlocked(k) \/ DialFails(k) \/ LogAllowedConn(k))
    BY <1>2, <1>5, <2>4 DEF Handle, Accept, CheckDestination, DialSucceeds, SpliceReturns, CopyEnds
  <2>5. QED
    BY <2>1, <2>2, <2>3, <2>4
<1>6. QED
  BY <1>2, <1>4, <1>5 DEF Next, vars

\* The inductive invariant holds of every behaviour.
THEOREM SidecarInvariant == Spec => []SafetyInv
<1>1. Init => SafetyInv
  <2> SUFFICES ASSUME Init PROVE SafetyInv
    OBVIOUS
  <2>1. TypeOK
    BY ProxyAssumption DEF Init, TypeOK, Hosts
  <2>2. GrantedByResolver /\ ToldLearned
    BY DEF Init, GrantedByResolver, ToldLearned, Learned
  <2>3. AnswersLearned /\ Judged /\ ConnectionsAttributed
    BY DEF Init, AnswersLearned, Judged, Relayed, ConnectionsAttributed
  <2>4. QED
    BY <2>1, <2>2, <2>3 DEF SafetyInv
<1>2. TypeOK /\ TypeOK' /\ SafetyInv /\ [Next]_vars => SafetyInv'
  BY GrantedPreserved, HandlersPreserved, ToldPreserved, JudgedPreserved, AttributedPreserved
     DEF SafetyInv
<1>3. QED
  BY <1>1, <1>2, TypeCorrect, PTL DEF Spec

\* No connection is opened to a destination the policy does not stand
\* behind: neither a static CIDR nor an allow-listed name upstream resolved.
THEOREM RelaySafe == Spec => []RelayedOnlyIfVouched
<1>1. SafetyInv => RelayedOnlyIfVouched
  <2> SUFFICES ASSUME SafetyInv, NEW k \in Relayed PROVE Vouched(dst[k])
    BY DEF RelayedOnlyIfVouched
  <2>1. dst[k] \in Learned \cup StaticIPs
    BY DEF SafetyInv, Judged, Judgement, Relayed
  <2>2. CASE dst[k] \in Learned
    BY <2>2 DEF SafetyInv, GrantedByResolver, Vouched
  <2>3. QED
    BY <2>1, <2>2 DEF Vouched
<1>2. QED
  BY <1>1, SidecarInvariant, PTL

\* An address that reached the agent in a DNS answer is let through.
THEOREM AnswersRelayable == Spec => []ToldIsRelayable
<1>1. SafetyInv => ToldIsRelayable
  BY DEF SafetyInv, ToldIsRelayable, ToldLearned, AllowsIP
<1>2. QED
  BY <1>1, SidecarInvariant, PTL

\* The log attributes a connection only to a name that did resolve to it.
THEOREM LogAttributed == Spec => []ConnectionsAttributed
<1>1. SafetyInv => ConnectionsAttributed
  BY DEF SafetyInv
<1>2. QED
  BY <1>1, SidecarInvariant, PTL
-----------------------------------------------------------------------------
(* The accounts: that the log explains a connection rests on what was      *)
(* written before the agent received an address, by a handler whose answer *)
(* does not change any more, and on its being let through from then on.    *)

\* The event of an allowed query by q.
AllowedBy(j, q) == log[j].kind = "dns" /\ log[j].action = "allowed" /\ log[j].by = q

\* Among the first n events, that of a query that brought the agent the address.
Brought(ip, n) ==
  \E j \in 1..n : \E q \in Queries : AllowedBy(j, q) /\ \E r \in DOMAIN answer[q] : answer[q][r] = ip

\* Who is allowed has its answer, and no event is written after it.
AnswersLogged ==
  /\ \A q \in Queries : \A j \in DOMAIN log : AllowedBy(j, q) => qpc[q] \in {"answering", "done"}
  /\ \A q \in Queries : qpc[q] = "answering" => \E j \in DOMAIN log : AllowedBy(j, q)

ToldLogged == \A ip \in told : Brought(ip, Len(log))

\* A connection to an address the agent was given is not refused.
KnewAllowed ==
  \A k \in knew : dst[k] \in told /\ cpc[k] \notin {"idle", "refusing", "blocked", "error"}

EventsExplained == \A k \in knew : \A i \in EventsBy(k) : Brought(dst[k], i - 1)

AccountInv ==
  (\A k \in Conns : ToldOnce(k)) /\ AnswersLogged /\ ToldLogged /\ KnewAllowed /\ EventsExplained

\* An event that is written is the last, and the others stay.
LEMMA Appended ==
  ASSUME log \in Seq(Events), NEW e \in Events, Write(e)
  PROVE  /\ Len(log) \in Nat /\ Len(log') = Len(log) + 1
         /\ DOMAIN log = 1..Len(log) /\ DOMAIN log' = 1..(Len(log) + 1)
         /\ \A i \in DOMAIN log : log'[i] = log[i]
         /\ log'[Len(log) + 1] = e
  BY DEF Write

\* Every event is written by the handler it names; the handler of a query is
\* then past the exchange, and a connection's fate is known.
LEMMA LogStep ==
  ASSUME TypeOK, [Next]_vars
  PROVE  \/ log' = log
         \/ \E q \in Queries, a \in {"blocked", "upstream-error", "allowed"}, n \in Names :
              /\ Write(Event("dns", a, n, NoIP, q)) /\ Event("dns", a, n, NoIP, q) \in Events
              /\ a = "allowed" => qpc[q] = "learning" /\ qpc'[q] = "answering"
              /\ UNCHANGED <<connVars, historyVars>>
         \/ \E k \in Conns : \E e \in Events :
              /\ Write(e) /\ e.kind = "tcp" /\ e.by = k
              /\ UNCHANGED <<queryVars, historyVars>>
<1> USE DEF TypeOK, policyVars, queryVars, connVars, historyVars
<1>1. ASSUME NEW q \in Queries, ReceiveQuery(q) \/ RejectMalformed(q) \/ UpstreamAnswer(q) \/ LearnRecord(q)
                                \/ SendAnswer(q) \/ SendFailure(q)
      PROVE  log' = log
  BY <1>1 DEF ReceiveQuery, RejectMalformed, UpstreamAnswer, LearnRecord, SendAnswer, SendFailure
<1>2. ASSUME NEW q \in Queries, BlockQuery(q) \/ UpstreamError(q) \/ LogAllowedQuery(q)
      PROVE  \E a \in {"blocked", "upstream-error", "allowed"}, n \in Names :
               /\ Write(Event("dns", a, n, NoIP, q)) /\ Event("dns", a, n, NoIP, q) \in Events
               /\ a = "allowed" => qpc[q] = "learning" /\ qpc'[q] = "answering"
               /\ UNCHANGED <<connVars, historyVars>>
  <2>1. question[q] \in Names
    BY <1>2, ProxyAssumption DEF BlockQuery, UpstreamError, LogAllowedQuery, QueryGoes
  <2>2. \A a \in {"blocked", "upstream-error", "allowed"} : Event("dns", a, question[q], NoIP, q) \in Events
    BY <2>1 DEF Event, Events
  <2>3. QED
    BY <1>2, <2>1, <2>2 DEF BlockQuery, UpstreamError, LogAllowedQuery, QueryGoes
<1>3. ASSUME NEW k \in Conns, NoOriginalDst(k) \/ LogBlocked(k) \/ DialFails(k) \/ LogAllowedConn(k)
      PROVE  \E e \in Events : Write(e) /\ e.kind = "tcp" /\ e.by = k /\ UNCHANGED <<queryVars, historyVars>>
  <2>1. host[k] \in Names \cup {NoHost} /\ dst[k] \in IPs \cup {NoIP}
    BY HostsAreNames
  <2>2. \A a \in {"allowed", "blocked", "error", "dial-error"} :
          /\ Event("tcp", a, host[k], dst[k], k) \in Events
          /\ Event("tcp", a, NoHost, dst[k], k) \in Events
          /\ Event("tcp", a, NoHost, NoIP, k) \in Events
    BY <2>1 DEF Event, Events
  <2>3. \A a, h, ip : Event("tcp", a, h, ip, k).kind = "tcp" /\ Event("tcp", a, h, ip, k).by = k
    BY DEF Event
  <2>4. QED
    BY <1>3, <2>2, <2>3 DEF NoOriginalDst, LogBlocked, DialFails, LogAllowedConn
<1>4. ASSUME NEW k \in Conns, Accept(k) \/ CheckDestination(k) \/ DialSucceeds(k) \/ SpliceReturns(k)
                              \/ \E d \in Directions : CopyEnds(k, d)
      PROVE  log' = log
  BY <1>4 DEF Accept, CheckDestination, DialSucceeds, SpliceReturns, CopyEnds
<1>5. QED
  BY <1>1, <1>2, <1>3, <1>4 DEF Next, ServeDNS, Handle, vars

\* A handler that has its answer keeps it.
LEMMA AnswersStay ==
  ASSUME TypeOK, [Next]_vars, NEW q \in Queries, qpc[q] \in {"answering", "done"}
  PROVE  answer'[q] = answer[q] /\ qpc'[q] \in {"answering", "done"}
<1> USE DEF TypeOK, policyVars, queryVars, connVars, historyVars, QueryGoes
<1>1. ASSUME NEW p \in Queries, ReceiveQuery(p) \/ ServeDNS(p) PROVE answer'[q] = answer[q] /\ qpc'[q] \in {"answering", "done"}
  BY <1>1 DEF ServeDNS, ReceiveQuery, RejectMalformed, BlockQuery, UpstreamError, UpstreamAnswer,
     LearnRecord, LogAllowedQuery, SendAnswer, SendFailure
<1>2. CASE UNCHANGED queryVars
  BY <1>2
<1>3. QED
  BY <1>1, <1>2 DEF Next, vars, Handle, Accept, NoOriginalDst, CheckDestination, LogBlocked,
     DialFails, DialSucceeds, LogAllowedConn, SpliceReturns, CopyEnds

\* What explains an address goes on explaining it.
LEMMA BroughtStays ==
  ASSUME TypeOK, AnswersLogged, [Next]_vars, NEW ip, NEW n \in 0..Len(log), Brought(ip, n)
  PROVE  Brought(ip, n)'
<1>1. PICK j \in 1..n : \E q \in Queries : AllowedBy(j, q) /\ \E r \in DOMAIN answer[q] : answer[q][r] = ip
  BY DEF Brought
<1>2. PICK q \in Queries : AllowedBy(j, q) /\ \E r \in DOMAIN answer[q] : answer[q][r] = ip
  BY <1>1
<1>3. log \in Seq(Events) /\ Len(log) \in Nat /\ DOMAIN log = 1..Len(log)
  BY DEF TypeOK
<1>4. j \in DOMAIN log
  BY <1>3
<1>5. answer'[q] = answer[q]
  BY <1>2, <1>4, AnswersStay DEF AnswersLogged
<1>6. log'[j] = log[j]
  BY <1>3, <1>4, LogStep, Appended
<1>7. QED
  BY <1>2, <1>5, <1>6 DEF Brought, AllowedBy

\* The events of a connection are those of before, and the one it writes.
LEMMA EventsAfter ==
  ASSUME log \in Seq(Events), NEW e \in Events, Write(e), NEW x
  PROVE  EventsBy(x)' = EventsBy(x) \cup IF e.by = x THEN {Len(log) + 1} ELSE {}
<1>1. /\ Len(log) \in Nat /\ DOMAIN log = 1..Len(log) /\ DOMAIN log' = DOMAIN log \cup {Len(log) + 1}
      /\ \A i \in DOMAIN log : log'[i] = log[i]
      /\ log'[Len(log) + 1] = e
  BY Appended DEF Write
<1>2. QED
  BY <1>1 DEF EventsBy

\* Each connection has no event before its fate is known and one after.
LEMMA ToldOnceStays ==
  ASSUME TypeOK, [Next]_vars, NEW k \in Conns, ToldOnce(k)
  PROVE  ToldOnce(k)'
<1> USE DEF TypeOK, policyVars, queryVars, connVars, historyVars
<1>1. CASE /\ cpc'[k] = cpc[k] /\ dst'[k] = dst[k] /\ copying'[k] = copying[k]
           /\ log' = log \/ \E e \in Events : Write(e) /\ e.by # k
  <2>1. EventsBy(k)' = EventsBy(k) /\ \A i \in DOMAIN log : log'[i] = log[i]
    <3>1. CASE log' = log
      BY <3>1 DEF EventsBy
    <3>2. ASSUME NEW e \in Events, Write(e), e.by # k
          PROVE  EventsBy(k)' = EventsBy(k) /\ \A i \in DOMAIN log : log'[i] = log[i]
      <4>1. EventsBy(k)' = EventsBy(k) \cup IF e.by = k THEN {Len(log) + 1} ELSE {}
        BY <3>2, EventsAfter
      <4>2. \A i \in DOMAIN log : log'[i] = log[i]
        BY <3>2, Appended
      <4>3. QED
        BY <3>2, <4>1, <4>2
    <3>3. QED
      BY <1>1, <3>1, <3>2
  <2>2. DOMAIN log \subseteq DOMAIN log'
    <3>1. CASE log' = log
      BY <3>1
    <3>2. ASSUME NEW e \in Events, Write(e) PROVE DOMAIN log \subseteq DOMAIN log'
      BY <3>2, Appended
    <3>3. QED
      BY <1>1, <3>1, <3>2
  <2>3. QED
    BY <1>1, <2>1, <2>2 DEF ToldOnce, Relayed
\* A step that writes the event.
<1>2. ASSUME NEW e \in Events, Write(e), e.by = k, e.destIP = dst[k], UNCHANGED dst,
             cpc[k] \in {"accepted", "refusing", "dialing", "connected"},
             \/ cpc'[k] = "splicing" /\ e.action = "allowed"
             \/ cpc'[k] \in {"blocked", "dial-error", "error"} /\ e.action = cpc'[k]
      PROVE  ToldOnce(k)'
  <2>1. EventsBy(k) = {}
    BY <1>2 DEF ToldOnce
  <2>2. /\ EventsBy(k)' = {Len(log) + 1} /\ Len(log) + 1 \in DOMAIN log'
        /\ log'[Len(log) + 1] = e
    BY <1>2, <2>1, EventsAfter, Appended
  <2>3. k \in Relayed' <=> cpc'[k] = "splicing"
    BY <1>2 DEF Relayed
  <2>4. QED
    BY <1>2, <2>2, <2>3 DEF ToldOnce
<1>3. CASE NoOriginalDst(k) \/ LogBlocked(k) \/ DialFails(k) \/ LogAllowedConn(k)
  <2>1. host[k] \in Names \cup {NoHost} /\ dst[k] \in IPs \cup {NoIP}
    BY HostsAreNames
  <2>2. \A a \in {"allowed", "blocked", "error", "dial-error"} : \A h \in {NoHost, host[k]} :
          \A ip \in {NoIP, dst[k]} :
            /\ Event("tcp", a, h, ip, k) \in Events /\ Event("tcp", a, h, ip, k).by = k
            /\ Event("tcp", a, h, ip, k).action = a /\ Event("tcp", a, h, ip, k).destIP = ip
    BY <2>1 DEF Event, Events
  <2>3. CASE NoOriginalDst(k)
    BY <1>2, <2>2, <2>3 DEF NoOriginalDst, ConnGoes
  <2>4. CASE LogBlocked(k)
    BY <1>2, <2>2, <2>4 DEF LogBlocked, ConnGoes
  <2>5. CASE DialFails(k)
    BY <1>2, <2>2, <2>5 DEF DialFails, ConnGoes
  <2>6. CASE LogAllowedConn(k)
    BY <1>2, <2>2, <2>6 DEF LogAllowedConn, ConnGoes
  <2>7. QED
    BY <1>3, <2>3, <2>4, <2>5, <2>6
\* A step before that, or after.
<1>4. CASE Accept(k) \/ CheckDestination(k) \/ DialSucceeds(k) \/ SpliceReturns(k)
           \/ \E d \in Directions : CopyEnds(k, d)
  <2>1. log' = log /\ EventsBy(k)' = EventsBy(k)
    BY <1>4 DEF Accept, CheckDestination, DialSucceeds, SpliceReturns, CopyEnds, EventsBy
  <2>2. CASE Accept(k) \/ CheckDestination(k) \/ DialSucceeds(k)
    BY <2>1, <2>2 DEF Accept, CheckDestination, DialSucceeds, ConnGoes, ToldOnce
  <2>3. CASE SpliceReturns(k) \/ \E d \in Directions : CopyEnds(k, d)
    <3>1. /\ cpc[k] = "splicing" /\ cpc'[k] \in {"splicing", "closed"} /\ dst' = dst
          /\ k \in Relayed /\ k \in Relayed'
      BY <2>3 DEF SpliceReturns, CopyEnds, ConnGoes, Relayed
    <3>2. QED
      BY <2>1, <3>1 DEF ToldOnce
  <2>4. QED
    BY <1>4, <2>2, <2>3
\* A step of somebody else.
<1>5. ASSUME NEW p \in Conns \ {k}, Accept(p) \/ Handle(p) \/ \E d \in Directions : CopyEnds(p, d)
      PROVE  ToldOnce(k)'
  <2>1. cpc'[k] = cpc[k] /\ dst'[k] = dst[k] /\ copying'[k] = copying[k]
    BY <1>5 DEF Accept, Handle, NoOriginalDst, CheckDestination, LogBlocked, DialFails, DialSucceeds,
       LogAllowedConn, SpliceReturns, CopyEnds, ConnGoes
  <2>2. host[p] \in Names \cup {NoHost} /\ dst[p] \in IPs \cup {NoIP}
    BY HostsAreNames
  <2>3. \A a \in {"allowed", "blocked", "error", "dial-error"} : \A h \in {NoHost, host[p]} :
          \A ip \in {NoIP, dst[p]} : Event("tcp", a, h, ip, p) \in Events /\ Event("tcp", a, h, ip, p).by = p
    BY <2>2 DEF Event, Events
  <2>4. log' = log \/ \E e \in Events : Write(e) /\ e.by = p
    BY <1>5, <2>3 DEF Accept, Handle, NoOriginalDst, CheckDestination, LogBlocked, DialFails,
       DialSucceeds,
       LogAllowedConn, SpliceReturns, CopyEnds
  <2>5. QED
    BY <1>1, <2>1, <2>4
<1>6. ASSUME NEW q \in Queries, ReceiveQuery(q) \/ ServeDNS(q) PROVE ToldOnce(k)'
  <2>1. UNCHANGED connVars
    BY <1>6 DEF ReceiveQuery, ServeDNS, RejectMalformed, BlockQuery, UpstreamError, UpstreamAnswer,
       LearnRecord, LogAllowedQuery, SendAnswer, SendFailure
  <2>2. q # k
    BY ProxyAssumption
  <2>3. log' = log \/ \E a \in {"blocked", "upstream-error", "allowed"} : Write(Event("dns", a, question[q], NoIP, q))
    BY <1>6 DEF ReceiveQuery, ServeDNS, RejectMalformed, BlockQuery, UpstreamError, UpstreamAnswer,
       LearnRecord, LogAllowedQuery, SendAnswer, SendFailure
  <2>4. log' # log => question[q] \in Names
    BY <1>6, ProxyAssumption DEF ReceiveQuery, ServeDNS, RejectMalformed, BlockQuery, UpstreamError,
       UpstreamAnswer, LearnRecord, LogAllowedQuery, SendAnswer, SendFailure, QueryGoes
  <2>5. log' = log \/ \E e \in Events : Write(e) /\ e.by = q
    BY <2>3, <2>4 DEF Event, Events
  <2>6. QED
    BY <1>1, <2>1, <2>2, <2>5
<1>7. CASE UNCHANGED vars
  BY <1>1, <1>7 DEF vars
<1>8. ASSUME NEW p \in Conns, Accept(p) \/ Handle(p) \/ \E d \in Directions : CopyEnds(p, d)
      PROVE  ToldOnce(k)'
  <2>1. CASE p = k
    BY <1>3, <1>4, <1>8, <2>1 DEF Handle
  <2>2. CASE p # k
    BY <1>5, <1>8, <2>2
  <2>3. QED
    BY <2>1, <2>2
<1>9. QED
  BY <1>6, <1>7, <1>8 DEF Next

\* Whoever answers was allowed, and said so.
LEMMA AnswersLoggedStays ==
  ASSUME TypeOK, AnswersLogged, [Next]_vars
  PROVE  AnswersLogged'
<1>1. log \in Seq(Events) /\ Len(log) \in Nat /\ DOMAIN log = 1..Len(log)
  BY DEF TypeOK
<1>2. \A i \in DOMAIN log : i \in DOMAIN log' /\ log'[i] = log[i]
  <2>1. ASSUME NEW e \in Events, Write(e) PROVE \A i \in DOMAIN log : i \in DOMAIN log' /\ log'[i] = log[i]
    BY <1>1, <2>1, Appended
  <2>2. QED
    BY <2>1, LogStep
<1>3. ASSUME NEW q \in Queries, NEW j \in DOMAIN log', AllowedBy(j, q)'
      PROVE  qpc'[q] \in {"answering", "done"}
  <2>1. CASE j \in DOMAIN log
    <3>1. AllowedBy(j, q)
      BY <1>2, <1>3, <2>1 DEF AllowedBy
    <3>2. QED
      BY <2>1, <3>1, AnswersStay DEF AnswersLogged
  <2>2. CASE j \notin DOMAIN log
    <3>1. ASSUME NEW e \in Events, Write(e) PROVE log'[j] = e
      BY <1>1, <1>3, <2>2, <3>1, Appended
    <3>2. log' # log
      BY <1>3, <2>2
    <3>3. ASSUME NEW p \in Queries, NEW a \in {"blocked", "upstream-error", "allowed"}, NEW n \in Names,
                 Write(Event("dns", a, n, NoIP, p)), Event("dns", a, n, NoIP, p) \in Events,
                 a = "allowed" => qpc[p] = "learning" /\ qpc'[p] = "answering"
          PROVE  qpc'[q] \in {"answering", "done"}
      <4>1. log'[j] = Event("dns", a, n, NoIP, p)
        BY <3>1, <3>3
      <4>2. p = q /\ a = "allowed"
        BY <1>3, <4>1 DEF AllowedBy, Event
      <4>3. QED
        BY <3>3, <4>2
    <3>4. ASSUME NEW e \in Events, Write(e), e.kind = "tcp" PROVE FALSE
      BY <1>3, <3>1, <3>4 DEF AllowedBy
    <3>5. QED
      BY <3>2, <3>3, <3>4, LogStep
  <2>3. QED
    BY <2>1, <2>2
<1>4. ASSUME NEW q \in Queries, qpc'[q] = "answering" PROVE \E j \in DOMAIN log' : AllowedBy(j, q)'
  <2>1. CASE qpc[q] = "answering"
    <3>1. PICK j \in DOMAIN log : AllowedBy(j, q)
      BY <2>1 DEF AnswersLogged
    <3>2. QED
      BY <1>2, <3>1 DEF AllowedBy
  <2>2. CASE qpc[q] # "answering"
    <3>1. LogAllowedQuery(q)
      BY <1>4, <2>2 DEF TypeOK, Next, vars, queryVars, ServeDNS, QueryGoes, ReceiveQuery,
         RejectMalformed, BlockQuery,
         UpstreamError, UpstreamAnswer, LearnRecord, LogAllowedQuery, SendAnswer, SendFailure, Handle, Accept,
         NoOriginalDst, CheckDestination, LogBlocked, DialFails, DialSucceeds, LogAllowedConn, SpliceReturns,
         CopyEnds
    <3>2. question[q] \in Names
      BY <3>1, ProxyAssumption DEF TypeOK, LogAllowedQuery, QueryGoes
    <3>3. PICK e \in Events : e = Event("dns", "allowed", question[q], NoIP, q)
      BY <3>2 DEF Event, Events
    <3>4. Write(e)
      BY <3>1, <3>3 DEF LogAllowedQuery, Write
    <3>5. PICK j \in DOMAIN log' : log'[j] = e
      BY <1>1, <3>4, Appended
    <3>6. AllowedBy(j, q)'
      BY <3>3, <3>5 DEF AllowedBy, Event
    <3>7. QED
      BY <3>5, <3>6
  <2>3. QED
    BY <2>1, <2>2
<1>5. QED
  BY <1>3, <1>4 DEF AnswersLogged

\* The log is never cut.
LEMMA LogGrows ==
  ASSUME TypeOK, [Next]_vars
  PROVE  Len(log) \in Nat /\ Len(log') \in {Len(log), Len(log) + 1}
<1>1. log \in Seq(Events) /\ Len(log) \in Nat
  BY DEF TypeOK
<1>2. ASSUME NEW e \in Events, Write(e) PROVE Len(log') = Len(log) + 1
  BY <1>1, <1>2, Appended
<1>3. QED
  BY <1>1, <1>2, LogStep

\* What the agent has been told stands in the log.
LEMMA ToldLoggedStays ==
  ASSUME TypeOK, AnswersLogged, ToldLogged, [Next]_vars
  PROVE  ToldLogged'
<1>1. Len(log) \in Nat /\ Len(log') \in {Len(log), Len(log) + 1}
  BY LogGrows
<1>3. ASSUME NEW ip, Brought(ip, Len(log)) PROVE Brought(ip, Len(log))'
  <2>1. PICK n \in 0..Len(log) : n = Len(log)
    BY <1>1
  <2>2. Brought(ip, n)'
    BY <1>3, <2>1, BroughtStays
  <2>3. 1..n \subseteq 1..Len(log')
    BY <1>1, <2>1
  <2>4. QED
    BY <2>2, <2>3 DEF Brought
<1>4. ASSUME NEW ip \in told', ip \notin told PROVE Brought(ip, Len(log))
  <2>1. PICK q \in Queries : SendAnswer(q)
    BY <1>4 DEF Next, vars, historyVars, ServeDNS, ReceiveQuery, RejectMalformed, BlockQuery,
       UpstreamError, UpstreamAnswer, LearnRecord, LogAllowedQuery, SendFailure, Handle, Accept,
       NoOriginalDst, CheckDestination, LogBlocked, DialFails, DialSucceeds, LogAllowedConn, SpliceReturns,
       CopyEnds
  <2>2. qpc[q] = "answering" /\ \E r \in DOMAIN answer[q] : answer[q][r] = ip
    BY <1>4, <2>1 DEF SendAnswer, QueryGoes
  <2>3. \E j \in DOMAIN log : AllowedBy(j, q)
    BY <2>2 DEF AnswersLogged
  <2>4. DOMAIN log = 1..Len(log)
    BY DEF TypeOK
  <2>5. QED
    BY <2>2, <2>3, <2>4 DEF Brought
<1>5. QED
  BY <1>3, <1>4 DEF ToldLogged

\* A connection's destination is settled when it is accepted.
LEMMA DestinationStays ==
  ASSUME TypeOK, [Next]_vars, NEW k \in Conns, cpc[k] # "idle"
  PROVE  dst'[k] = dst[k]
<1> USE DEF TypeOK, connVars
<1>1. ASSUME NEW p \in Conns, Accept(p) PROVE dst'[k] = dst[k]
  BY <1>1 DEF Accept, ConnGoes
<1>2. CASE \A p \in Conns : ~Accept(p)
  BY <1>2 DEF Next, vars, ServeDNS, ReceiveQuery, RejectMalformed, BlockQuery, UpstreamError,
     UpstreamAnswer,
     LearnRecord, LogAllowedQuery, SendAnswer, SendFailure, Handle, NoOriginalDst, CheckDestination, LogBlocked,
     DialFails, DialSucceeds, LogAllowedConn, SpliceReturns, CopyEnds
<1>3. QED
  BY <1>1, <1>2

\* Who joins those that knew has just been accepted.
LEMMA KnewGrows ==
  ASSUME TypeOK, [Next]_vars, NEW k \in knew', k \notin knew
  PROVE  /\ k \in Conns /\ cpc[k] = "idle" /\ cpc'[k] = "accepted" /\ dst'[k] \in told
         /\ UNCHANGED <<log, told>>
<1>1. PICK p \in Conns : Accept(p)
  BY DEF Next, vars, historyVars, ServeDNS, ReceiveQuery, RejectMalformed, BlockQuery, UpstreamError,
     UpstreamAnswer, LearnRecord, LogAllowedQuery, SendAnswer, SendFailure, Handle, NoOriginalDst,
     CheckDestination, LogBlocked, DialFails, DialSucceeds, LogAllowedConn, SpliceReturns, CopyEnds
<1>2. QED
  BY <1>1 DEF TypeOK, Accept, ConnGoes

\* What the agent was told stays told, and is let through by the check.
LEMMA KnewAllowedStays ==
  ASSUME SafetyInv, KnewAllowed, [Next]_vars
  PROVE  KnewAllowed'
<1> USE DEF SafetyInv, TypeOK, policyVars, queryVars, connVars, historyVars
<1>1. told \subseteq told'
  BY DEF Next, vars, ServeDNS, ReceiveQuery, RejectMalformed, BlockQuery, UpstreamError,
     UpstreamAnswer, LearnRecord, LogAllowedQuery, SendAnswer, SendFailure, Handle, Accept, NoOriginalDst,
     CheckDestination, LogBlocked, DialFails, DialSucceeds, LogAllowedConn, SpliceReturns, CopyEnds
<1>2. SUFFICES ASSUME NEW k \in knew'
               PROVE  dst'[k] \in told' /\ cpc'[k] \notin {"idle", "refusing", "blocked", "error"}
  BY DEF KnewAllowed
<1>3. CASE k \notin knew
  BY <1>1, <1>3, KnewGrows
<1>4. CASE k \in knew
  <2>1. k \in Conns /\ dst[k] \in told /\ cpc[k] \notin {"idle", "refusing", "blocked", "error"}
    BY <1>4 DEF KnewAllowed
  <2>2. dst'[k] \in told'
    BY <1>1, <2>1, DestinationStays
  <2>3. dst[k] # NoIP /\ AllowsIP(dst[k])
    BY <2>1, ProxyAssumption DEF ToldLearned, AllowsIP
  <2>4. ASSUME NEW p \in Conns, Accept(p) \/ Handle(p) \/ \E d \in Directions : CopyEnds(p, d)
        PROVE  cpc'[k] \notin {"idle", "refusing", "blocked", "error"}
    <3>1. CASE p = k
      BY <2>1, <2>3, <2>4, <3>1 DEF Accept, Handle, NoOriginalDst, CheckDestination, LogBlocked,
         DialFails,
         DialSucceeds, LogAllowedConn, SpliceReturns, CopyEnds, ConnGoes
    <3>2. CASE p # k
      BY <2>1, <2>4, <3>2 DEF Accept, Handle, NoOriginalDst, CheckDestination, LogBlocked, DialFails,
         DialSucceeds, LogAllowedConn, SpliceReturns, CopyEnds, ConnGoes
    <3>3. QED
      BY <3>1, <3>2
  <2>5. ASSUME UNCHANGED connVars PROVE cpc'[k] \notin {"idle", "refusing", "blocked", "error"}
    BY <2>1, <2>5
  <2>6. cpc'[k] \notin {"idle", "refusing", "blocked", "error"}
    BY <2>4, <2>5 DEF Next, vars, ServeDNS, ReceiveQuery, RejectMalformed, BlockQuery, UpstreamError,
       UpstreamAnswer, LearnRecord, LogAllowedQuery, SendAnswer, SendFailure
  <2>7. QED
    BY <2>2, <2>6
<1>5. QED
  BY <1>3, <1>4

\* An event of a connection is written after what explains it.
LEMMA EventsExplainedStay ==
  ASSUME TypeOK, AccountInv, [Next]_vars
  PROVE  EventsExplained'
<1>1. SUFFICES ASSUME NEW k \in knew', NEW i \in EventsBy(k)' PROVE Brought(dst[k], i - 1)'
  BY DEF EventsExplained
<1>2. log \in Seq(Events) /\ Len(log) \in Nat /\ DOMAIN log = 1..Len(log)
  BY DEF TypeOK
<1>3. CASE k \notin knew
  <2>1. k \in Conns /\ cpc[k] = "idle" /\ log' = log
    BY <1>3, KnewGrows
  <2>2. EventsBy(k) = {}
    BY <2>1 DEF AccountInv, ToldOnce
  <2>3. EventsBy(k)' = EventsBy(k)
    BY <2>1 DEF EventsBy
  <2>4. QED
    BY <1>1, <2>2, <2>3
<1>4. CASE k \in knew
  <2>1. k \in Conns /\ dst[k] \in told /\ dst'[k] = dst[k]
    BY <1>4, DestinationStays DEF AccountInv, KnewAllowed, TypeOK
  <2>2. i \in EventsBy(k) \/ i = Len(log) + 1
    <3>1. ASSUME NEW e \in Events, Write(e) PROVE i \in EventsBy(k) \/ i = Len(log) + 1
      <4>1. EventsBy(k)' = EventsBy(k) \cup IF e.by = k THEN {Len(log) + 1} ELSE {}
        BY <1>2, <3>1, EventsAfter
      <4>2. QED
        BY <1>1, <4>1
    <3>2. CASE log' = log
      BY <1>1, <3>2 DEF EventsBy
    <3>3. QED
      BY <3>1, <3>2, LogStep
  <2>3. i - 1 \in 0..Len(log) /\ Brought(dst[k], i - 1)
    <3>1. CASE i \in EventsBy(k)
      BY <1>2, <1>4, <3>1 DEF AccountInv, EventsExplained, EventsBy
    <3>2. CASE i = Len(log) + 1
      <4>1. i - 1 = Len(log)
        BY <1>2, <3>2
      <4>2. QED
        BY <1>2, <2>1, <4>1 DEF AccountInv, ToldLogged
    <3>3. QED
      BY <2>2, <3>1, <3>2
  <2>4. PICK n \in 0..Len(log), ip \in told : n = i - 1 /\ ip = dst[k]
    BY <2>1, <2>3
  <2>5. Brought(ip, n)'
    BY <2>3, <2>4, BroughtStays DEF AccountInv
  <2>6. QED
    BY <2>1, <2>4, <2>5 DEF Brought
<1>5. QED
  BY <1>3, <1>4

\* The log tells every connection's story once, and read from the top explains it.
THEOREM SidecarAccounts == Spec => []ConnectionsAccounted
<1>1. Init => AccountInv
  BY DEF Init, AccountInv, ToldOnce, EventsBy, AnswersLogged, ToldLogged, KnewAllowed, EventsExplained
<1>2. SafetyInv /\ AccountInv /\ [Next]_vars => AccountInv'
  BY ToldOnceStays, AnswersLoggedStays, ToldLoggedStays, KnewAllowedStays, EventsExplainedStay
     DEF SafetyInv, AccountInv
<1>3. SafetyInv /\ AccountInv => ConnectionsAccounted
  <2> SUFFICES ASSUME SafetyInv, AccountInv PROVE ConnectionsAccounted
    OBVIOUS
  <2>1. ASSUME NEW k \in knew, NEW i \in EventsBy(k)
        PROVE  log[i].action \in {"allowed", "dial-error"} /\ Explained(k, i)
    <3>1. k \in Conns /\ cpc[k] \notin {"idle", "refusing", "blocked", "error"}
      BY DEF SafetyInv, TypeOK, AccountInv, KnewAllowed
    <3>2. ToldOnce(k)
      BY <3>1 DEF AccountInv
    <3>3. log[i].action \in {"allowed", "dial-error"}
      <4>1. cpc[k] \in {"splicing", "closed", "dial-error"}
        BY <2>1, <3>1, <3>2 DEF ToldOnce, SafetyInv, TypeOK
      <4>2. PICK j \in DOMAIN log : EventsBy(k) = {j} /\ log[j].action = IF k \in Relayed THEN "allowed" ELSE cpc[k]
        BY <3>2, <4>1 DEF ToldOnce
      <4>3. cpc[k] \in {"splicing", "closed"} => k \in Relayed
        BY <3>1 DEF Relayed
      <4>4. QED
        BY <2>1, <4>1, <4>2, <4>3
    <3>4. Brought(dst[k], i - 1)
      BY DEF AccountInv, EventsExplained
    <3>5. QED
      BY <3>3, <3>4 DEF Brought, AllowedBy, Explained
  <2>2. QED
    BY <2>1 DEF AccountInv, ConnectionsAccounted
<1>4. QED
  BY <1>1, <1>2, <1>3, SidecarInvariant, PTL DEF Spec
-----------------------------------------------------------------------------
(* Refinement: every step of the sidecar is a step of the gate or changes  *)
(* nothing the gate sees.                                                  *)

Fate == [k \in Conns |-> FateOf(k)]

\* A step of one connection's handler changes that connection's fate only.
LEMMA FateChanges ==
  ASSUME TypeOK, NEW k \in Conns, NEW at, cpc' = [cpc EXCEPT ![k] = at]
  PROVE  Fate' = [Fate EXCEPT ![k] = FateOf(k)']
  BY DEF TypeOK, Fate, FateOf

\* The query handlers and splice do not move any connection's fate.
LEMMA FateStays == cpc' = cpc => Fate' = Fate
  BY DEF Fate, FateOf

\* Who is learned depends on dynamicIPs alone.
LEMMA LearnedStays == dynamicIPs' = dynamicIPs => Learned' = Learned
  BY DEF Learned

\* Every step of the sidecar is a step of the gate, or none at all.
LEMMA StepRefines ==
  ASSUME SafetyInv, [Next]_vars
  PROVE  [Gate!GateNext]_(Gate!gateVars)
<1> USE DEF SafetyInv, TypeOK, policyVars, queryVars, connVars, historyVars, Gate!gateVars
<1> Fate = [k \in Conns |-> FateOf(k)] /\ Fate' = [k \in Conns |-> FateOf(k)']
  BY DEF Fate
<1> DEFINE Stutter == Learned' = Learned /\ told' = told /\ dst' = dst /\ Fate' = Fate
<1>0. Stutter => UNCHANGED Gate!gateVars
  BY DEF Fate
<1> HIDE DEF Stutter
<1>1. ASSUME NEW q \in Queries, ReceiveQuery(q) \/ ServeDNS(q)
      PROVE  [Gate!GateNext]_(Gate!gateVars)
  <2>1. dst' = dst /\ Fate' = Fate
    BY <1>1, FateStays DEF ServeDNS, ReceiveQuery, RejectMalformed, BlockQuery, UpstreamError,
       UpstreamAnswer, LearnRecord, LogAllowedQuery, SendAnswer, SendFailure
  <2>2. CASE LearnRecord(q)
    <3>1. told' = told
      BY <2>2 DEF LearnRecord
    <3>2. CASE answer[q][next[q]] \in IPs
      <4>1. NormalizeHost(question[q]) # NoHost
        BY <2>2, NormalizedIsHost, HostsAreNames, ProxyAssumption DEF LearnRecord
      <4>2. Learned' = Learned \cup {answer[q][next[q]]}
        BY <2>2, <3>2, <4>1 DEF LearnRecord, Learn, Learned
      <4>3. Gate!Grant(answer[q][next[q]])
        BY <2>1, <3>1, <4>2 DEF Gate!Grant
      <4>4. QED
        BY <3>2, <4>3 DEF Gate!GateNext
    <3>3. CASE answer[q][next[q]] \notin IPs
      <4>1. Learned' = Learned
        BY <2>2, <3>3, LearnedStays DEF LearnRecord
      <4>2. QED
        BY <1>0, <2>1, <3>1, <4>1 DEF Stutter
    <3>4. QED
      BY <3>2, <3>3
  <2>3. CASE SendAnswer(q)
    <3>1. Learned' = Learned
      BY <2>3, LearnedStays DEF SendAnswer
    <3>2. told' \subseteq Learned /\ told \subseteq told'
      BY <2>3, <3>1, ToldPreserved DEF ToldLearned, SendAnswer
    <3>3. Learned \subseteq IPs /\ told' = told \cup told'
      BY <3>2 DEF Learned
    <3>4. Gate!Tell(told')
      BY <2>1, <3>1, <3>2, <3>3 DEF Gate!Tell
    <3>5. QED
      BY <3>2, <3>3, <3>4 DEF Gate!GateNext
  <2>4. CASE ~(LearnRecord(q) \/ SendAnswer(q))
    <3>1. dynamicIPs' = dynamicIPs /\ told' = told
      BY <1>1, <2>4 DEF ServeDNS, ReceiveQuery, RejectMalformed, BlockQuery, UpstreamError,
         UpstreamAnswer, LogAllowedQuery, SendFailure
    <3>2. QED
      BY <1>0, <2>1, <3>1, LearnedStays DEF Stutter
  <2>5. QED
    BY <2>2, <2>3, <2>4
<1>2. ASSUME NEW k \in Conns, Accept(k) \/ Handle(k) \/ \E d \in Directions : CopyEnds(k, d)
      PROVE  [Gate!GateNext]_(Gate!gateVars)
  <2>1. Learned' = Learned /\ told' = told
    BY <1>2, LearnedStays DEF Handle, Accept, NoOriginalDst, CheckDestination, LogBlocked,
       DialFails, DialSucceeds, LogAllowedConn, SpliceReturns, CopyEnds
  <2>2. CASE Accept(k)
    <3>1. PICK ip \in IPs \cup {NoIP} : dst' = [dst EXCEPT ![k] = ip]
      BY <2>2 DEF Accept
    <3>2. cpc[k] = "idle" /\ cpc' = [cpc EXCEPT ![k] = "accepted"]
      BY <2>2 DEF Accept, ConnGoes
    <3>3. Fate' = [Fate EXCEPT ![k] = "pending"] /\ Fate[k] = "none"
      BY <3>2, FateChanges DEF FateOf, Fate
    <3>4. Gate!Ask(k, ip)
      BY <2>1, <3>1, <3>3 DEF Gate!Ask
    <3>5. QED
      BY <3>1, <3>4 DEF Gate!GateNext
  <2>3. dst' = dst \/ Accept(k)
    BY <1>2 DEF Handle, NoOriginalDst, CheckDestination, LogBlocked,
       DialFails, DialSucceeds, LogAllowedConn, SpliceReturns, CopyEnds
  <2>4. ASSUME NEW v \in {"relayed", "refused", "failed"}, dst' = dst,
               Fate[k] = "pending", Fate' = [Fate EXCEPT ![k] = v]
        PROVE  Gate!Decide(k, v)
    BY <2>1, <2>4 DEF Gate!Decide
  <2>5. CASE NoOriginalDst(k) \/ DialFails(k)
    <3>1. \E at \in {"error", "dial-error"} : cpc' = [cpc EXCEPT ![k] = at]
      BY <2>5 DEF NoOriginalDst, DialFails, ConnGoes
    <3>2. cpc[k] \in {"accepted", "dialing"} /\ dst' = dst
      BY <2>5 DEF NoOriginalDst, DialFails, ConnGoes
    <3>3. Fate' = [Fate EXCEPT ![k] = "failed"] /\ Fate[k] = "pending"
      <4>1. Fate' = [Fate EXCEPT ![k] = FateOf(k)']
        BY <3>1, FateChanges
      <4>2. cpc'[k] \in {"error", "dial-error"}
        BY <3>1
      <4>3. FateOf(k)' = "failed"
        BY <4>2 DEF FateOf
      <4>4. QED
        BY <3>2, <4>1, <4>3 DEF Fate, FateOf
    <3>4. QED
      BY <2>4, <3>2, <3>3 DEF Gate!GateNext, Gate!Fail
  <2>6. CASE CheckDestination(k)
    <3>1. dst' = dst /\ cpc[k] = "accepted" /\ dst[k] \in IPs
      BY <2>6 DEF CheckDestination, ConnGoes
    <3>2. CASE AllowsIP(dst[k])
      <4>1. cpc' = [cpc EXCEPT ![k] = "dialing"]
        BY <2>6, <3>2 DEF CheckDestination, ConnGoes
      <4>2. Fate' = [Fate EXCEPT ![k] = "pending"] /\ Fate[k] = "pending"
        BY <3>1, <4>1, FateChanges DEF FateOf, Fate
      <4>3. Fate' = Fate
        BY <4>2 DEF Fate
      <4>4. QED
        BY <1>0, <2>1, <3>1, <4>3 DEF Stutter
    <3>3. CASE ~AllowsIP(dst[k])
      <4>1. cpc' = [cpc EXCEPT ![k] = "refusing"]
        BY <2>6, <3>3 DEF CheckDestination, ConnGoes
      <4>2. Fate' = [Fate EXCEPT ![k] = "refused"] /\ Fate[k] = "pending"
        BY <3>1, <4>1, FateChanges DEF FateOf, Fate
      <4>3. Gate!Refuse(k)
        BY <2>4, <3>1, <3>3, <4>2 DEF Gate!Refuse, Gate!Reachable, AllowsIP
      <4>4. QED
        BY <4>3 DEF Gate!GateNext
    <3>4. QED
      BY <3>2, <3>3
  <2>7. CASE DialSucceeds(k)
    <3>1. dst' = dst /\ cpc[k] = "dialing" /\ cpc' = [cpc EXCEPT ![k] = "connected"]
      BY <2>7 DEF DialSucceeds, ConnGoes
    <3>2. Fate' = [Fate EXCEPT ![k] = "relayed"] /\ Fate[k] = "pending"
      BY <3>1, FateChanges DEF FateOf, Fate
    <3>3. dst[k] \in Learned \cup StaticIPs
      BY <3>1 DEF Judged, Judgement
    <3>4. Gate!Relay(k)
      BY <2>4, <3>1, <3>2, <3>3 DEF Gate!Relay, Gate!Reachable
    <3>5. QED
      BY <3>4 DEF Gate!GateNext
  <2>8. CASE LogBlocked(k) \/ LogAllowedConn(k) \/ SpliceReturns(k)
    <3>1. PICK at \in {"blocked", "splicing", "closed"} :
            /\ cpc' = [cpc EXCEPT ![k] = at]
            /\ at = "blocked" <=> cpc[k] = "refusing"
            /\ cpc[k] \in {"refusing", "connected", "splicing"}
      BY <2>8 DEF LogBlocked, LogAllowedConn, SpliceReturns, ConnGoes
    <3>2. dst' = dst
      BY <2>8 DEF LogBlocked, LogAllowedConn, SpliceReturns
    <3>3. Fate' = [Fate EXCEPT ![k] = Fate[k]]
      <4>1. Fate' = [Fate EXCEPT ![k] = FateOf(k)']
        BY <3>1, FateChanges
      <4>2. cpc'[k] = at
        BY <3>1
      <4>3. FateOf(k)' = FateOf(k)
        BY <3>1, <4>2 DEF FateOf
      <4>4. QED
        BY <4>1, <4>3 DEF Fate
    <3>4. QED
      BY <1>0, <2>1, <3>2, <3>3 DEF Stutter, Fate
  <2>9. CASE \E d \in Directions : CopyEnds(k, d)
    BY <1>0, <2>1, <2>9, FateStays DEF CopyEnds, Stutter
  <2>10. QED
    BY <1>2, <2>2, <2>5, <2>6, <2>7, <2>8, <2>9 DEF Handle
<1>3. CASE UNCHANGED vars
  BY <1>0, <1>3, FateStays, LearnedStays DEF vars, Stutter
<1>4. QED
  BY <1>1, <1>2, <1>3 DEF Next

\* The sidecar implements the gate's safety: what it relays, refuses and
\* answers are steps the gate allows.
THEOREM SidecarRefinesGate == Spec => Gate!GateSafety
<1>1. Init => Gate!GateInit
  BY ProxyAssumption DEF Init, Gate!GateInit, Learned, FateOf
<1>2. SafetyInv /\ [Next]_vars => [Gate!GateNext]_(Gate!gateVars)
  BY StepRefines
<1>3. QED
  BY <1>1, <1>2, SidecarInvariant, PTL DEF Spec, Gate!GateSafety
-----------------------------------------------------------------------------
(* Sequences of selected values *)

Below(I, k) == {j \in I : j < k}

LEMMA BelowGrown ==
  ASSUME NEW I \in SUBSET Nat, NEW i \in Nat, \A j \in I : j < i
  PROVE  /\ i \notin I
         /\ Below(I \cup {i}, i) = I
         /\ \A k \in I : Below(I \cup {i}, k) = Below(I, k)
<1>1. I \subseteq Nat /\ i \notin I
  OBVIOUS
<1>2. Below(I \cup {i}, i) = I
  <2>1. ~(i < i)
    OBVIOUS
  <2> QED  BY <2>1, Zenon DEF Below
<1>3. ASSUME NEW k \in I PROVE Below(I \cup {i}, k) = Below(I, k)
  BY <1>1 DEF Below
<1> QED  BY <1>1, <1>2, <1>3

LEMMA BelowSmaller ==
  ASSUME NEW I \in SUBSET Nat, IsFiniteSet(I), NEW k \in I
  PROVE  Cardinality(Below(I, k)) \in 0..Cardinality(I) - 1
<1>1. Below(I, k) \in SUBSET (I \ {k})
  BY DEF Below
<1>2. IsFiniteSet(I \ {k}) /\ Cardinality(I \ {k}) = Cardinality(I) - 1
  BY FS_RemoveElement
<1>3. IsFiniteSet(Below(I, k)) /\ Cardinality(Below(I, k)) <= Cardinality(I) - 1
  BY <1>1, <1>2, FS_Subset
<1>4. Cardinality(Below(I, k)) \in Nat /\ Cardinality(I) \in Nat
  BY <1>3, FS_CardinalityType
<1> QED  BY <1>3, <1>4

\* One more value, at a place behind all the others.
LEMMA SelectsNext ==
  ASSUME NEW S, NEW s \in Seq(S), NEW e \in S, NEW f, NEW g,
         NEW I \in SUBSET Nat, IsFiniteSet(I), NEW i \in Nat,
         \A j \in I : j < i, \A j \in I : g[j] = f[j],
         g[i] = e, Selects(s, f, I)
  PROVE  Selects(Append(s, e), g, I \cup {i})
<1>1. Len(s) = Cardinality(I) /\ Len(s) \in Nat
  BY DEF Selects
<1>2. \A k \in I : s[Cardinality(Below(I, k)) + 1] = f[k]
  BY DEF Selects, Below
<1>3. Cardinality(I \cup {i}) = Len(s) + 1
  BY <1>1, BelowGrown, FS_AddElement
<1>4. Append(s, e)[Cardinality(Below(I \cup {i}, i)) + 1] = g[i]
  BY <1>1, BelowGrown
<1>5. ASSUME NEW k \in I PROVE Append(s, e)[Cardinality(Below(I \cup {i}, k)) + 1] = g[k]
  <2>1. Below(I \cup {i}, k) = Below(I, k)
    BY BelowGrown
  <2>2. Cardinality(Below(I, k)) + 1 \in 1..Len(s)
    BY <1>1, BelowSmaller
  <2>3. s[Cardinality(Below(I, k)) + 1] = g[k]
    BY <1>2
  <2> QED  BY <2>1, <2>2, <2>3
<1>6. Len(Append(s, e)) = Len(s) + 1
  OBVIOUS
<1> QED  BY <1>3, <1>4, <1>5, <1>6 DEF Selects, Below

\* What is selected depends on the values at the places selected only.
LEMMA SelectsSame ==
  ASSUME NEW s, NEW f, NEW g, NEW I, \A i \in I : g[i] = f[i], Selects(s, f, I)
  PROVE  Selects(s, g, I)
BY DEF Selects

\* Dropping what is too old before a value comes, or after, is the same.
LEMMA LastOfAppend ==
  ASSUME NEW S, NEW s \in Seq(S), NEW e \in S, NEW k \in Nat \ {0}
  PROVE  /\ LastOf(s, k) \in Seq(S)
         /\ LastOf(Append(LastOf(s, k), e), k) = LastOf(Append(s, e), k)
<1>1. CASE Len(s) <= k
  <2>a. ~(Len(s) > k)
    BY <1>1
  <2>1. LastOf(s, k) = SubSeq(s, 1, Len(s))
    BY <2>a DEF LastOf
  <2> QED  BY <2>1, SubSeqFull
<1>2. CASE Len(s) > k
  <2>1. PICK m \in Nat : m = Len(s) - k /\ m > 0
    BY <1>2
  <2>2. PICK old : old = SubSeq(s, m + 1, Len(s))
    OBVIOUS
  <2>3. LastOf(s, k) = old
    BY <1>2, <2>1, <2>2 DEF LastOf
  <2>4. old \in Seq(S) /\ Len(old) = k
    BY <2>1, <2>2
  <2>5. \A i \in 1..k : old[i] = s[m + i]
    BY <2>1, <2>2
  <2>6. PICK grown : grown = Append(old, e)
    OBVIOUS
  <2>7. PICK new : new = Append(s, e)
    OBVIOUS
  <2>8. grown \in Seq(S) /\ Len(grown) = k + 1
    BY <2>4, <2>6
  <2>9. new \in Seq(S) /\ Len(new) = m + k + 1
    BY <2>1, <2>7
  <2>a. \A i \in 1..(k + 1) : grown[i] = new[m + i]
    <3>1. grown[k + 1] = e /\ new[m + k + 1] = e
      BY <2>1, <2>4, <2>6, <2>7
    <3>2. ASSUME NEW i \in 1..k PROVE grown[i] = new[m + i]
      <4>1. grown[i] = old[i]
        BY <2>4, <2>6
      <4>2. m + i \in 1..Len(s)
        BY <2>1
      <4>3. new[m + i] = s[m + i]
        BY <2>7, <4>2
      <4> QED  BY <4>1, <4>3, <2>5
    <3> QED  BY <3>1, <3>2
  <2>b. LastOf(grown, k) = SubSeq(grown, 2, k + 1) /\ LastOf(new, k) = SubSeq(new, m + 2, m + k + 1)
    BY <2>8, <2>9 DEF LastOf
  <2>c. SubSeq(grown, 2, k + 1) = SubSeq(new, m + 2, m + k + 1)
    <3>1. /\ SubSeq(grown, 2, k + 1) \in Seq(S) /\ Len(SubSeq(grown, 2, k + 1)) = k
          /\ \A i \in 1..k : SubSeq(grown, 2, k + 1)[i] = grown[i + 1]
      BY <2>8
    <3>2. /\ SubSeq(new, m + 2, m + k + 1) \in Seq(S) /\ Len(SubSeq(new, m + 2, m + k + 1)) = k
          /\ \A i \in 1..k : SubSeq(new, m + 2, m + k + 1)[i] = new[m + (i + 1)]
      BY <2>9
    <3>3. \A i \in 1..k : i + 1 \in 1..(k + 1)
      OBVIOUS
    <3>4. \A i \in 1..k : grown[i + 1] = new[m + (i + 1)]
      BY <2>a, <3>3
    <3> QED  BY <3>1, <3>2, <3>4, SeqEqual
  <2> QED  BY <2>3, <2>4, <2>6, <2>7, <2>b, <2>c
<1> QED  BY <1>1, <1>2
-----------------------------------------------------------------------------
(* What is in the file *)

\* Whoever is within a write has begun the last line and nobody else's; and a
\* line's end is just behind its beginning.
Written ==
  /\ writing # Nobody =>
       /\ enc[writing] = "ready" /\ file # <<>>
       /\ file[Len(file)].part = "start" /\ file[Len(file)].event.by = writing
  /\ \A i \in DOMAIN file : file[i].part = "finish" =>
       i - 1 \in DOMAIN file /\ file[i - 1] = Start(file[i].event)

\* The lines that are begun and will never be ended.
Torn ==
  {i \in DOMAIN file : /\ file[i].part = "start"
                       /\ IF i = Len(file) THEN writing = Nobody ELSE file[i + 1].part = "start"}

\* A sidecar leaves at most one, and writes no more.
TornApart ==
  /\ \A i \in Torn : enc[file[i].event.by] = "failed"
  /\ \A i, j \in Torn : file[i].event.by = file[j].event.by => i = j

readerVars == <<call, pc, tailVars, cancelled, viewVars>>

\* What a sidecar's step does to the file.
LEMMA SidecarStep ==
  ASSUME LogTypeOK, Written, NEW w \in Writers, Sidecar(w)
  PROVE  /\ UNCHANGED readerVars
         /\ \/ OpenLog(w) /\ UNCHANGED <<file, writing>>
            \/ \E p \in Pieces : BeginLine(w) /\ file' = Append(file, p) /\ p.part = "start" /\ p.event.by = w
            \/ \E p \in Pieces : EndLine(w) /\ file' = Append(file, p) /\ p = Finish(file[Len(file)].event)
            \/ WriteFails(w) /\ UNCHANGED file
<1>1. CASE OpenLog(w)
  BY <1>1 DEF OpenLog, readerVars
<1>2. CASE BeginLine(w)
  <2>1. PICK b \in BOOLEAN :
          file' = Append(file, Start([by |-> w, number |-> logged[w] + 1, blocked |-> b]))
    BY <1>2 DEF BeginLine
  <2>2. logged[w] + 1 \in 1..MaxEvents
    BY <1>2, NetLogAssumption DEF LogTypeOK, BeginLine, NetLogAssumption
  <2>3. [by |-> w, number |-> logged[w] + 1, blocked |-> b] \in Entries
    BY <2>2 DEF Entries
  <2> QED  BY <1>2, <2>1, <2>3 DEF BeginLine, readerVars, Start, Pieces
<1>3. CASE EndLine(w)
  <2>1. writing = w /\ w # Nobody
    BY <1>3, NetLogAssumption DEF EndLine, NetLogAssumption
  <2>2. file # <<>> /\ file \in Seq(Pieces)
    BY <2>1 DEF Written, LogTypeOK
  <2>3. file[Len(file)] \in Pieces
    BY <2>2
  <2>4. Finish(file[Len(file)].event) \in Pieces
    BY <2>3 DEF Finish, Pieces
  <2> QED  BY <1>3, <2>4 DEF EndLine, readerVars
<1>4. CASE WriteFails(w)
  BY <1>4 DEF WriteFails, readerVars
<1> QED  BY <1>1, <1>2, <1>3, <1>4 DEF Sidecar

LEMMA FileTypeStep ==
  ASSUME LogTypeOK, Written, NEW w \in Writers, Sidecar(w)
  PROVE  LogTypeOK'
<1>1. /\ call \in Commands
      /\ pc \in {"start", "running", "ended", "died", "killed"}
      /\ rpc \in {"open", "read", "wait", "send", "closed"}
      /\ partial \in Seq(Pieces)
      /\ held \in Entries \cup {None}
      /\ {readErr, cancelled, blockedOnly, errMsg} \subseteq BOOLEAN
      /\ events \in Seq(Entries) /\ delivered \in Seq(Entries)
      /\ allowedCount \in Nat /\ blockedCount \in Nat
      /\ file \in Seq(Pieces) /\ pos \in 0..Len(file)
  BY DEF LogTypeOK
<1>2. UNCHANGED readerVars
  BY SidecarStep
<1>3. file' = file \/ \E p \in Pieces : file' = Append(file, p)
  BY SidecarStep
<1>4. file' \in Seq(Pieces) /\ Len(file') >= Len(file)
  <2>1. CASE file' = file
    BY <1>1, <2>1
  <2>2. ASSUME NEW p \in Pieces, file' = Append(file, p)
        PROVE  file' \in Seq(Pieces) /\ Len(file') >= Len(file)
    BY <1>1, <2>2, AppendProperties
  <2> QED  BY <1>3, <2>1, <2>2
<1>5. pos' \in 0..Len(file')
  BY <1>1, <1>2, <1>4 DEF readerVars, tailVars
<1>6. /\ enc' \in [Writers -> {"unopened", "ready", "stdout", "failed"}]
      /\ writing' \in Writers \cup {Nobody}
      /\ created' \in BOOLEAN
  BY DEF LogTypeOK, Sidecar, OpenLog, BeginLine, EndLine, WriteFails
<1>7. logged' \in [Writers -> 0..MaxEvents]
  <2>1. logged \in [Writers -> 0..MaxEvents]
    BY DEF LogTypeOK
  <2>2. CASE UNCHANGED logged
    BY <2>1, <2>2
  <2>3. CASE logged[w] < MaxEvents /\ logged' = [logged EXCEPT ![w] = @ + 1]
    <3>1. logged[w] + 1 \in 0..MaxEvents
      BY <2>1, <2>3, NetLogAssumption DEF NetLogAssumption
    <3> QED  BY <2>1, <2>3, <3>1
  <2> QED  BY <2>2, <2>3 DEF Sidecar, OpenLog, BeginLine, EndLine, WriteFails
<1> QED  BY <1>1, <1>2, <1>4, <1>5, <1>6, <1>7 DEF LogTypeOK, readerVars, tailVars, viewVars

\* A piece more leaves the pieces before it where they are.
LEMMA LineAppended ==
  ASSUME NEW s \in Seq(Pieces), NEW p \in Pieces, NEW t, t = Append(s, p)
  PROVE  /\ t \in Seq(Pieces) /\ Len(t) = Len(s) + 1
         /\ t[Len(t)] = p
         /\ \A i \in DOMAIN s : i \in DOMAIN t /\ i # Len(t) /\ t[i] = s[i]
         /\ \A i \in DOMAIN t : i \in DOMAIN s \/ i = Len(t)
         /\ DOMAIN s = 1..Len(s) /\ DOMAIN t = 1..Len(t)
OBVIOUS

LEMMA WrittenStep ==
  ASSUME LogTypeOK, Written, TornApart, NEW w \in Writers, Sidecar(w)
  PROVE  Written' /\ TornApart'
<1>0. /\ file \in Seq(Pieces) /\ enc \in [Writers -> {"unopened", "ready", "stdout", "failed"}]
      /\ DOMAIN file = 1..Len(file) /\ Len(file) \in Nat
      /\ w # Nobody /\ writing \in Writers \cup {Nobody}
      /\ \A i \in DOMAIN file : file[i] \in Pieces /\ file[i].event.by \in Writers
  <2>1. /\ file \in Seq(Pieces) /\ enc \in [Writers -> {"unopened", "ready", "stdout", "failed"}]
        /\ w # Nobody /\ writing \in Writers \cup {Nobody}
    BY NetLogAssumption DEF LogTypeOK, NetLogAssumption
  <2>2. DOMAIN file = 1..Len(file) /\ Len(file) \in Nat /\ \A i \in DOMAIN file : file[i] \in Pieces
    BY <2>1, LenProperties
  <2>3. \A q \in Pieces : q.event.by \in Writers
    BY DEF Pieces, Entries
  <2> QED  BY <2>1, <2>2, <2>3
<1>1. CASE OpenLog(w) /\ UNCHANGED <<file, writing>>
  <2>1. enc[w] = "unopened" /\ \A v \in Writers \ {w} : enc'[v] = enc[v]
    BY <1>0, <1>1 DEF OpenLog
  <2>2. Written'
    BY <1>0, <1>1, <2>1 DEF Written
  <2>3. Torn' = Torn
    BY <1>1 DEF Torn
  <2>4. TornApart'
    BY <1>0, <1>1, <2>1, <2>3 DEF TornApart, Torn
  <2> QED  BY <2>2, <2>4
<1>2. ASSUME NEW p \in Pieces, BeginLine(w), file' = Append(file, p), p.part = "start", p.event.by = w
      PROVE  Written' /\ TornApart'
  <2>1. writing = Nobody /\ writing' = w /\ enc' = enc /\ enc[w] = "ready"
    BY <1>2 DEF BeginLine
  <2>2. /\ Len(file') = Len(file) + 1 /\ file'[Len(file')] = p
        /\ \A i \in DOMAIN file : i \in DOMAIN file' /\ i # Len(file') /\ file'[i] = file[i]
        /\ \A i \in DOMAIN file' : i \in DOMAIN file \/ i = Len(file')
        /\ DOMAIN file' = 1..Len(file')
    BY <1>0, <1>2, LineAppended
  <2>3. Written'
    <3>1. ASSUME NEW i \in DOMAIN file', file'[i].part = "finish"
          PROVE  i - 1 \in DOMAIN file' /\ file'[i - 1] = Start(file'[i].event)
      <4>1. i \in DOMAIN file
        BY <1>2, <2>2, <3>1
      <4>2. i - 1 \in DOMAIN file /\ file[i - 1] = Start(file[i].event)
        BY <2>2, <3>1, <4>1 DEF Written
      <4> QED  BY <2>2, <4>1, <4>2
    <3>2. file' # <<>>
      BY <1>0, <2>2
    <3> QED  BY <1>2, <2>1, <2>2, <3>1, <3>2 DEF Written
  <2>4. Torn' \subseteq Torn
    <3> SUFFICES ASSUME NEW i \in Torn' PROVE i \in Torn
      OBVIOUS
    <3>1. i \in DOMAIN file' /\ i # Len(file') /\ file'[i].part = "start" /\ file'[i + 1].part = "start"
      BY <1>0, <2>1 DEF Torn
    <3>2. i \in DOMAIN file /\ file[i].part = "start"
      BY <2>2, <3>1
    <3>3. i # Len(file) => file[i + 1].part = "start"
      <4>1. i # Len(file) => i + 1 \in DOMAIN file
        BY <1>0, <3>2
      <4> QED  BY <2>2, <3>1, <4>1
    <3> QED  BY <2>1, <3>2, <3>3 DEF Torn
  <2>5. TornApart'
    <3>1. \A i \in Torn' : i \in Torn /\ file'[i] = file[i]
      BY <2>2, <2>4 DEF Torn
    <3> QED  BY <2>1, <3>1 DEF TornApart
  <2> QED  BY <2>3, <2>5
<1>3. ASSUME NEW p \in Pieces, EndLine(w), file' = Append(file, p), p = Finish(file[Len(file)].event)
      PROVE  Written' /\ TornApart'
  <2>1. writing = w /\ writing' = Nobody /\ enc' = enc
    BY <1>3 DEF EndLine
  <2>2. /\ Len(file') = Len(file) + 1 /\ file'[Len(file')] = p
        /\ \A i \in DOMAIN file : i \in DOMAIN file' /\ i # Len(file') /\ file'[i] = file[i]
        /\ \A i \in DOMAIN file' : i \in DOMAIN file \/ i = Len(file')
        /\ DOMAIN file' = 1..Len(file')
    BY <1>0, <1>3, LineAppended
  <2>3. file # <<>> /\ file[Len(file)].part = "start" /\ Len(file) \in DOMAIN file
    BY <1>0, <2>1 DEF Written
  <2>4. p.part = "finish" /\ file[Len(file)] = Start(p.event)
    <3>1. file[Len(file)] \in Pieces
      BY <1>0, <2>3
    <3> QED  BY <1>3, <2>3, <3>1 DEF Finish, Start, Pieces
  <2>5. Written'
    <3>1. ASSUME NEW i \in DOMAIN file', file'[i].part = "finish"
          PROVE  i - 1 \in DOMAIN file' /\ file'[i - 1] = Start(file'[i].event)
      <4>1. CASE i = Len(file')
        <5>1. i - 1 = Len(file)
          BY <1>0, <2>2, <4>1
        <5> QED  BY <2>2, <2>3, <2>4, <4>1, <5>1
      <4>2. CASE i \in DOMAIN file
        <5>1. i - 1 \in DOMAIN file /\ file[i - 1] = Start(file[i].event)
          BY <2>2, <3>1, <4>2 DEF Written
        <5> QED  BY <2>2, <4>2, <5>1
      <4> QED  BY <2>2, <4>1, <4>2
    <3> QED  BY <2>1, <3>1 DEF Written
  <2>6. Torn' \subseteq Torn
    <3> SUFFICES ASSUME NEW i \in Torn' PROVE i \in Torn
      OBVIOUS
    <3>1. i \in DOMAIN file' /\ i # Len(file') /\ file'[i].part = "start" /\ file'[i + 1].part = "start"
      BY <2>2, <2>4 DEF Torn
    <3>2. i \in DOMAIN file /\ file[i].part = "start"
      BY <2>2, <3>1
    <3>3. i # Len(file)
      BY <2>2, <2>4, <3>1
    <3>4. i + 1 \in DOMAIN file
      BY <1>0, <3>2, <3>3
    <3> QED  BY <2>2, <3>1, <3>2, <3>3, <3>4 DEF Torn
  <2>7. TornApart'
    <3>1. \A i \in Torn' : i \in Torn /\ file'[i] = file[i]
      BY <2>2, <2>6 DEF Torn
    <3> QED  BY <2>1, <3>1 DEF TornApart
  <2> QED  BY <2>5, <2>7
<1>4. CASE WriteFails(w) /\ UNCHANGED file
  <2>1. /\ writing = w /\ writing' = Nobody /\ file' = file
        /\ enc'[w] = "failed" /\ \A v \in Writers \ {w} : enc'[v] = enc[v]
    BY <1>0, <1>4 DEF WriteFails
  <2>2. /\ enc[w] = "ready" /\ Len(file) \in DOMAIN file
        /\ file[Len(file)].part = "start" /\ file[Len(file)].event.by = w
    BY <1>0, <2>1 DEF Written
  <2>3. Written'
    BY <2>1 DEF Written
  <2>4. Torn' = Torn \cup {Len(file)} /\ Len(file) \notin Torn
    BY <1>0, <2>1, <2>2 DEF Torn
  <2>5. \A i \in Torn : file[i].event.by \in Writers \ {w} /\ enc[file[i].event.by] = "failed"
    BY <1>0, <2>2 DEF TornApart, Torn
  <2>6. TornApart'
    BY <2>1, <2>2, <2>4, <2>5 DEF TornApart
  <2> QED  BY <2>3, <2>6
<1> QED  BY <1>1, <1>2, <1>3, <1>4, SidecarStep
-----------------------------------------------------------------------------
Whole == {k \in 2..Len(file) : file[k].part = "finish"}
Failed == {w \in Writers : enc[w] = "failed"}

\* What was written whole and cannot be read was glued to a line that is torn,
\* and no two to the same sidecar's.
LEMMA TornLinesCostOne ==
  ASSUME LogTypeOK, Written, TornApart
  PROVE  Cardinality(Whole) <= Cardinality(ReadableIn(Len(file))) + Cardinality(Failed)
<1> DEFINE R == ReadableIn(Len(file))
           Glued == Whole \ R
<1>1. /\ file \in Seq(Pieces) /\ Len(file) \in Nat /\ DOMAIN file = 1..Len(file)
      /\ \A i \in DOMAIN file : file[i] \in Pieces /\ file[i].event.by \in Writers
  <2>1. file \in Seq(Pieces)
    BY DEF LogTypeOK
  <2>2. \A q \in Pieces : q.event.by \in Writers
    BY DEF Pieces, Entries
  <2> QED  BY <2>1, <2>2, LenProperties
<1>2. IsFiniteSet(Whole) /\ R \subseteq Whole
  <2>1. IsFiniteSet(2..Len(file))
    BY <1>1, FS_Interval
  <2>2. Whole \in SUBSET (2..Len(file))
    BY DEF Whole
  <2> QED  BY <2>1, <2>2, FS_Subset DEF Whole, ReadableIn
<1>3. ASSUME NEW k \in Glued
      PROVE  k - 2 \in Torn /\ file[k - 2].event.by \in Failed
  <2>1. k \in DOMAIN file /\ k \in 2..Len(file) /\ file[k].part = "finish" /\ k \notin R
    BY <1>1 DEF Whole
  <2>2. k - 1 \in DOMAIN file /\ file[k - 1] = Start(file[k].event)
    BY <2>1 DEF Written
  <2>3. k > 2 /\ file[k - 2].part # "finish"
    BY <2>1, <2>2 DEF ReadableIn
  <2>4. k - 2 \in DOMAIN file /\ k - 2 # Len(file) /\ (k - 2) + 1 = k - 1
    BY <1>1, <2>1, <2>3
  <2>5. file[k - 2].part = "start" /\ file[k - 1].part = "start"
    BY <1>1, <2>2, <2>3, <2>4 DEF Pieces, Start
  <2>6. k - 2 \in Torn
    BY <2>4, <2>5 DEF Torn
  <2> QED  BY <1>1, <2>4, <2>6 DEF TornApart, Failed
<1>4. PICK f : f = [k \in Glued |-> file[k - 2].event.by]
  OBVIOUS
<1>5. f \in Injection(Glued, Failed)
  <2>1. f \in [Glued -> Failed]
    BY <1>3, <1>4
  <2>2. ASSUME NEW a \in Glued, NEW b \in Glued, f[a] = f[b] PROVE a = b
    <3>1. a - 2 = b - 2
      BY <1>3, <1>4, <2>2 DEF TornApart
    <3>2. a \in Nat /\ b \in Nat
      BY DEF Whole
    <3> QED  BY <3>1, <3>2
  <2> QED  BY <2>1, <2>2 DEF Injection, IsInjective
<1>6. IsFiniteSet(Failed)
  <2>1. Failed \in SUBSET Writers /\ IsFiniteSet(Writers)
    BY NetLogAssumption DEF NetLogAssumption, Failed
  <2> QED  BY <2>1, FS_Subset
<1>7. Cardinality(Glued) <= Cardinality(Failed)
  BY <1>5, <1>6, FS_Injection
<1>8. Cardinality(Glued) = Cardinality(Whole) - Cardinality(R)
  <2>1. Whole \cap R = R
    BY <1>2
  <2> QED  BY <1>2, <2>1, FS_Difference
<1>9. /\ Cardinality(Whole) \in Nat /\ Cardinality(R) \in Nat
      /\ Cardinality(Glued) \in Nat /\ Cardinality(Failed) \in Nat
  <2>1. IsFiniteSet(R) /\ IsFiniteSet(Glued)
    BY <1>2, FS_Subset
  <2> QED  BY <1>2, <1>6, <2>1, FS_CardinalityType
<1> QED  BY <1>7, <1>8, <1>9
-----------------------------------------------------------------------------
(* The reader *)

Got == IF held = None THEN delivered ELSE Append(delivered, held)
EventAt == [k \in DOMAIN file |-> file[k].event]

\* What the reader holds of a line is the start of it, since the last line's end.
Tailing ==
  /\ Len(partial) <= pos
  /\ \A i \in 1..Len(partial) :
       partial[i] = file[pos - Len(partial) + i] /\ partial[i].part = "start"
  /\ Len(partial) < pos => file[pos - Len(partial)].part = "finish"

\* It holds an event from the end of its line until it has sent it.
Sending ==
  /\ held # None => rpc \in {"send", "closed"}
  /\ rpc = "send" => held # None

Delivered == Selects(Got, EventAt, ReadableIn(pos))

\* Why the channel is closed, and what has been made of it.
Closing ==
  /\ rpc = "closed" /\ call.follow => readErr \/ cancelled
  /\ pc = "start" => ~readErr
  /\ pc = "ended" /\ call.kind = "netlog" => ~readErr

NetLogInv == LogTypeOK /\ Written /\ TornApart /\ Tailing /\ Sending /\ Delivered /\ Closing /\ ViewAgrees

LEMMA ReadableFinite ==
  ASSUME NEW n \in Nat
  PROVE  /\ ReadableIn(n) \subseteq Nat /\ IsFiniteSet(ReadableIn(n))
         /\ \A k \in ReadableIn(n) : k <= n
<1>1. IsFiniteSet(2..n)
  BY FS_Interval
<1>2. ReadableIn(n) \in SUBSET (2..n)
  BY DEF ReadableIn
<1> QED  BY <1>1, <1>2, FS_Subset

\* What sidecars append changes nothing of what has been read.
LEMMA SidecarKeepsReader ==
  ASSUME NetLogInv, NEW w \in Writers, Sidecar(w)
  PROVE  NetLogInv'
<1>1. LogTypeOK /\ Written /\ TornApart /\ Tailing /\ Sending /\ Delivered /\ Closing /\ ViewAgrees
  BY DEF NetLogInv
<1>2. LogTypeOK' /\ Written' /\ TornApart'
  BY <1>1, FileTypeStep, WrittenStep
<1>3. UNCHANGED readerVars
  BY <1>1, SidecarStep
<1>4. file \in Seq(Pieces) /\ Len(file) \in Nat /\ DOMAIN file = 1..Len(file) /\ pos \in 0..Len(file) /\ partial \in Seq(Pieces)
  BY <1>1 DEF LogTypeOK
<1>5. \A i \in DOMAIN file : i \in DOMAIN file' /\ file'[i] = file[i]
  <2>1. CASE file' = file
    BY <2>1
  <2>2. ASSUME NEW p \in Pieces, file' = Append(file, p)
        PROVE  \A i \in DOMAIN file : i \in DOMAIN file' /\ file'[i] = file[i]
    BY <1>4, <2>2, LineAppended
  <2> QED  BY <1>1, <2>1, <2>2, SidecarStep
<1>6. Tailing'
  <2>1. \A i \in 1..Len(partial) : pos - Len(partial) + i \in DOMAIN file
    BY <1>1, <1>4 DEF Tailing
  <2>2. Len(partial) < pos => pos - Len(partial) \in DOMAIN file
    BY <1>4
  <2> QED  BY <1>1, <1>3, <1>5, <2>1, <2>2 DEF Tailing, readerVars, tailVars
<1>7. ReadableIn(pos)' = ReadableIn(pos)
  <2>1. \A k \in 2..pos : k \in DOMAIN file /\ k - 1 \in DOMAIN file /\ (k > 2 => k - 2 \in DOMAIN file)
    BY <1>4
  <2> QED  BY <1>3, <1>5, <2>1 DEF ReadableIn, readerVars, tailVars
<1>8. Delivered'
  <2>1. \A k \in ReadableIn(pos) : k \in DOMAIN file
    BY <1>4 DEF ReadableIn
  <2>2. \A k \in ReadableIn(pos) : EventAt'[k] = EventAt[k]
    BY <1>5, <2>1 DEF EventAt
  <2>3. Got' = Got
    BY <1>3 DEF Got, readerVars, tailVars, viewVars
  <2> QED  BY <1>1, <1>7, <2>2, <2>3, SelectsSame DEF Delivered
<1>9. Sending' /\ Closing' /\ ViewAgrees'
  BY <1>1, <1>3 DEF Sending, Closing, ViewAgrees, readerVars, tailVars, viewVars
<1> QED  BY <1>2, <1>6, <1>8, <1>9 DEF NetLogInv

\* The steps that neither read nor deliver, and no step when nothing changes.
LEMMA QuietSteps ==
  ASSUME NetLogInv,
         \/ StartCommand \/ OpenFile \/ ReadFails \/ Poll \/ StopSending
         \/ ReturnFromNetLog \/ ShowError \/ Interrupt \/ ToggleFilter \/ Quit
         \/ UNCHANGED logVars
  PROVE  NetLogInv'
<1>1. LogTypeOK /\ Written /\ TornApart /\ Tailing /\ Sending /\ Delivered /\ Closing /\ ViewAgrees
  BY DEF NetLogInv
<1>2. UNCHANGED <<enc, logged, writing, file, created, call, pos, partial, held,
                  events, allowedCount, blockedCount, delivered>>
  BY DEF StartCommand, OpenFile, ReadFails, Poll, StopSending, ReturnFromNetLog, ShowError,
         Interrupt, ToggleFilter, Quit, logVars, writerVars, tailVars, viewVars
<1>3. Written' /\ TornApart' /\ Tailing' /\ Delivered' /\ ViewAgrees'
  <2>1. Written' /\ Torn' = Torn /\ Tailing' /\ ViewAgrees'
    BY <1>1, <1>2 DEF Written, Torn, Tailing, ViewAgrees
  <2>2. Got' = Got /\ EventAt' = EventAt /\ ReadableIn(pos)' = ReadableIn(pos)
    BY <1>2 DEF Got, EventAt, ReadableIn
  <2> QED  BY <1>1, <1>2, <2>1, <2>2 DEF TornApart, Delivered
<1>4. /\ pc' \in {"start", "running", "ended", "died", "killed"}
      /\ rpc' \in {"open", "read", "wait", "send", "closed"}
      /\ readErr' \in BOOLEAN /\ cancelled' \in BOOLEAN /\ blockedOnly' \in BOOLEAN /\ errMsg' \in BOOLEAN
  BY <1>1 DEF LogTypeOK, StartCommand, OpenFile, ReadFails, Poll, StopSending, ReturnFromNetLog, ShowError,
              Interrupt, ToggleFilter, Quit, logVars, tailVars, viewVars
<1>5. LogTypeOK'
  BY <1>1, <1>2, <1>4 DEF LogTypeOK
<1>6. Sending'
  BY <1>1, <1>2 DEF Sending, StartCommand, OpenFile, ReadFails, Poll, StopSending, ReturnFromNetLog,
                    ShowError, Interrupt, ToggleFilter, Quit, logVars, tailVars
<1>7. Closing'
  <2>1. readErr \in BOOLEAN /\ cancelled \in BOOLEAN
    BY <1>1 DEF LogTypeOK
  <2>2. CASE StartCommand \/ OpenFile \/ ReadFails \/ Poll \/ StopSending
    BY <1>1, <2>2 DEF Closing, StartCommand, OpenFile, ReadFails, Poll, StopSending, tailVars
  <2>3. CASE ReturnFromNetLog \/ ShowError \/ Interrupt \/ ToggleFilter \/ Quit \/ UNCHANGED logVars
    BY <1>1, <2>1, <2>3 DEF Closing, ReturnFromNetLog, ShowError, Interrupt, ToggleFilter, Quit,
       tailVars, logVars
  <2> QED  BY <2>2, <2>3
<1> QED  BY <1>3, <1>5, <1>6, <1>7 DEF NetLogInv

LEMMA Smallest ==
  ASSUME NEW T \in SUBSET Nat, T # {}
  PROVE  \E k \in T : \A l \in T : k <= l
<1>1. PICK k \in T : \A l \in T : ~(<<l, k>> \in OpToRel(<, Nat))
  BY NatLessThanWellFounded, WFMin
<1>2. ASSUME NEW l \in T PROVE k <= l
  <2>1. l \in Nat /\ k \in Nat /\ <<l, k>> \in Nat \X Nat
    OBVIOUS
  <2>2. ~(l < k)
    BY <1>1, <2>1 DEF OpToRel
  <2> QED  BY <2>1, <2>2
<1> QED  BY <1>2

LEMMA NextEndIsFirst ==
  ASSUME LogTypeOK, LineEnds # {}
  PROVE  /\ NextEnd \in LineEnds
         /\ \A l \in LineEnds : NextEnd <= l
<1>1. LineEnds \in SUBSET Nat
  BY DEF LineEnds, LogTypeOK
<1>2. \E k \in LineEnds : \A l \in LineEnds : k <= l
  BY <1>1, Smallest
<1> QED  BY <1>2 DEF NextEnd

\* The pieces from the last line's end to the next are what a readable line is.
LEMMA ReadLineKeeps ==
  ASSUME NetLogInv, ReadLine
  PROVE  NetLogInv'
<1>1. LogTypeOK /\ Written /\ TornApart /\ Tailing /\ Sending /\ Delivered /\ Closing /\ ViewAgrees
  BY DEF NetLogInv
<1>2. PICK K : K = NextEnd
  OBVIOUS
<1>3. PICK m : m = Len(partial)
  OBVIOUS
<1>4. /\ file \in Seq(Pieces) /\ Len(file) \in Nat /\ DOMAIN file = 1..Len(file)
      /\ partial \in Seq(Pieces) /\ m \in 0..pos /\ pos \in 0..Len(file)
  BY <1>1, <1>3 DEF LogTypeOK, Tailing
<1>5. /\ K \in (pos + 1)..Len(file) /\ file[K].part = "finish"
      /\ \A l \in (pos + 1)..Len(file) : file[l].part = "finish" => K <= l
  BY <1>1, <1>2, NextEndIsFirst DEF ReadLine, LineEnds
<1>6. PICK line : line = partial \o SubSeq(file, pos + 1, K)
  OBVIOUS
<1>7. /\ line \in Seq(Pieces) /\ Len(line) = m + (K - pos)
      /\ \A i \in 1..m : line[i] = partial[i]
      /\ \A i \in (m + 1)..(m + (K - pos)) : line[i] = file[pos - m + i]
  <2>1. PICK rest : rest = SubSeq(file, pos + 1, K)
    OBVIOUS
  <2>2. /\ rest \in Seq(Pieces) /\ Len(rest) = K - pos
        /\ \A i \in 1..(K - pos) : rest[i] = file[pos + i]
    BY <1>4, <1>5, <2>1
  <2>3. /\ line \in Seq(Pieces) /\ Len(line) = m + (K - pos)
        /\ \A i \in 1..m : line[i] = partial[i]
        /\ \A i \in (m + 1)..(m + (K - pos)) : line[i] = rest[i - m]
    BY <1>3, <1>4, <1>5, <1>6, <2>1, <2>2, ConcatProperties
  <2>4. ASSUME NEW i \in (m + 1)..(m + (K - pos)) PROVE line[i] = file[pos - m + i]
    <3>1. i - m \in 1..(K - pos) /\ pos + (i - m) = pos - m + i
      BY <1>4, <1>5
    <3> QED  BY <2>2, <2>3, <3>1
  <2> QED  BY <2>3, <2>4
<1>8. \A i \in 1..Len(line) : line[i] = file[pos - m + i]
  BY <1>1, <1>3, <1>4, <1>7 DEF Tailing
\* Between the two ends there are only beginnings.
<1>9. \A i \in (pos - m + 1)..(K - 1) : i \in DOMAIN file /\ file[i].part # "finish"
  <2> SUFFICES ASSUME NEW i \in (pos - m + 1)..(K - 1)
               PROVE  i \in DOMAIN file /\ file[i].part # "finish"
    OBVIOUS
  <2>1. i \in DOMAIN file
    BY <1>4, <1>5
  <2>2. CASE i <= pos
    <3>1. i - (pos - m) \in 1..m
      BY <1>4, <1>5, <2>2
    <3>2. partial[i - (pos - m)] = file[i] /\ partial[i - (pos - m)].part = "start"
      <4>1. pos - m + (i - (pos - m)) = i
        BY <1>4
      <4> QED  BY <1>1, <1>3, <3>1, <4>1 DEF Tailing
    <3> QED  BY <2>1, <3>2
  <2>3. CASE i > pos
    BY <1>4, <1>5, <2>1, <2>3
  <2> QED  BY <1>4, <2>2, <2>3
<1>a. pos - m > 0 => file[pos - m].part = "finish"
  BY <1>1, <1>3, <1>4 DEF Tailing
<1>b. WellFormed(line) <=> K \in ReadableIn(K)
  <2>1. CASE K - (pos - m) = 2
    <3>1. Len(line) = 2 /\ pos - m = K - 2
      BY <1>4, <1>5, <1>7, <2>1
    <3>2. line[1] = file[K - 1] /\ line[2] = file[K]
      BY <1>4, <1>5, <1>8, <3>1
    <3>3. K >= 2 /\ (K > 2 => file[K - 2].part = "finish")
      BY <1>4, <1>5, <1>a, <3>1
    <3> QED  BY <1>5, <3>1, <3>2, <3>3 DEF WellFormed, ReadableIn
  <2>2. CASE K - (pos - m) # 2
    <3>1. ~WellFormed(line)
      BY <1>4, <1>5, <1>7, <2>2 DEF WellFormed
    <3>2. ASSUME K \in ReadableIn(K) PROVE FALSE
      <4>1. K >= 2 /\ file[K - 1].part = "start" /\ (K > 2 => file[K - 2].part = "finish")
        BY <3>2 DEF ReadableIn, Start
      <4>2. K - 1 # pos - m
        BY <1>4, <1>5, <1>a, <4>1
      <4>3. K - 2 \in (pos - m + 1)..(K - 1)
        BY <1>4, <1>5, <2>2, <4>2
      <4>4. K - 2 \in DOMAIN file /\ file[K - 2].part # "finish"
        BY <1>9, <4>3
      <4>5. K > 2
        BY <1>4, <1>5, <4>4
      <4> QED  BY <4>1, <4>4, <4>5
    <3> QED  BY <3>1, <3>2
  <2> QED  BY <2>1, <2>2
<1>c. ReadableIn(K) = ReadableIn(pos) \cup (IF WellFormed(line) THEN {K} ELSE {})
  <2>1. \A k \in ReadableIn(K) : k = K \/ k \in ReadableIn(pos)
    <3> SUFFICES ASSUME NEW k \in ReadableIn(K), k # K PROVE k \in ReadableIn(pos)
      OBVIOUS
    <3>1. k \in 2..(K - 1) /\ file[k].part = "finish"
      BY <1>4, <1>5 DEF ReadableIn
    <3>2. k <= pos
      BY <1>4, <1>5, <3>1
    <3> QED  BY <1>4, <3>1, <3>2 DEF ReadableIn
  <2>2. \A k \in ReadableIn(pos) : k \in ReadableIn(K) /\ k # K
    BY <1>4, <1>5 DEF ReadableIn
  <2> QED  BY <1>b, <2>1, <2>2
<1>d. /\ UNCHANGED <<enc, logged, writing, file, created, call, pc, readErr, cancelled>>
      /\ UNCHANGED <<events, allowedCount, blockedCount, blockedOnly, errMsg, delivered>>
      /\ pos' = K /\ partial' = <<>> /\ rpc = "read"
      /\ IF WellFormed(line) THEN rpc' = "send" /\ held' = line[2].event ELSE UNCHANGED <<rpc, held>>
  BY <1>2, <1>6 DEF ReadLine, writerVars, viewVars
<1>e. held = None
  BY <1>1, <1>d DEF Sending
<1>f. Delivered'
  <2>1. pos' \in Nat /\ pos \in Nat /\ K \in Nat
    BY <1>4, <1>5, <1>d
  <2>2. EventAt' = EventAt /\ ReadableIn(pos)' = ReadableIn(K)
    BY <1>d DEF EventAt, ReadableIn
  <2>3. Got = delivered
    BY <1>e DEF Got
  <2>4. CASE ~WellFormed(line)
    BY <1>1, <1>c, <1>d, <2>2, <2>4 DEF Delivered, Got
  <2>5. CASE WellFormed(line)
    <3>1. line[2] = file[K] /\ K \in DOMAIN file
      <4>1. Len(line) = 2 /\ 2 \in 1..Len(line)
        BY <2>5 DEF WellFormed
      <4>2. m \in Nat /\ pos \in Nat /\ K \in Nat /\ m + (K - pos) = 2
        <5>1. m \in Nat /\ pos \in Nat /\ K \in Nat
          BY <1>4, <1>5
        <5> QED  BY <1>7, <4>1, <5>1
      <4>3. pos - m + 2 = K
        BY <4>2
      <4>4. line[2] = file[pos - m + 2]
        BY <1>8, <4>1
      <4>5. K \in DOMAIN file
        BY <1>4, <1>5
      <4> QED  BY <4>3, <4>4, <4>5
    <3>2. line[2].event \in Entries /\ line[2].event # None
      <4>1. line[2] \in Pieces
        BY <1>4, <3>1
      <4>2. line[2].event \in Entries
        BY <4>1 DEF Pieces
      <4> QED  BY <4>2, NetLogAssumption DEF NetLogAssumption
    <3>3. Got' = Append(delivered, EventAt[K])
      BY <1>d, <2>5, <3>1, <3>2 DEF Got, EventAt
    <3>4. EventAt[K] \in Entries /\ delivered \in Seq(Entries)
      BY <1>1, <3>1, <3>2 DEF EventAt, LogTypeOK
    <3>5. ReadableIn(pos) \in SUBSET Nat /\ IsFiniteSet(ReadableIn(pos)) /\ \A j \in ReadableIn(pos) : j < K
      BY <1>4, <1>5, <2>1, ReadableFinite
    <3>6. Selects(delivered, EventAt, ReadableIn(pos))
      BY <1>1, <2>3 DEF Delivered
    <3>7. Selects(Append(delivered, EventAt[K]), EventAt, ReadableIn(pos) \cup {K})
      BY <2>1, <3>4, <3>5, <3>6, SelectsNext
    <3> QED  BY <1>c, <2>2, <2>5, <3>3, <3>7 DEF Delivered
  <2> QED  BY <2>4, <2>5
<1>g. LogTypeOK'
  <2>1. WellFormed(line) => line[2].event \in Entries
    <3>1. WellFormed(line) => line[2] \in Pieces
      BY <1>7 DEF WellFormed
    <3> QED  BY <3>1 DEF Pieces
  <2>2. held' \in Entries \cup {None} /\ rpc' \in {"open", "read", "wait", "send", "closed"}
    BY <1>1, <1>d, <2>1 DEF LogTypeOK
  <2>3. pos' \in 0..Len(file) /\ partial' \in Seq(Pieces)
    BY <1>4, <1>5, <1>d
  <2> QED  BY <1>1, <1>d, <2>2, <2>3 DEF LogTypeOK
<1>h. Written' /\ TornApart' /\ ViewAgrees' /\ Closing'
  <2>1. Written' /\ Torn' = Torn /\ ViewAgrees'
    BY <1>1, <1>d DEF Written, Torn, ViewAgrees
  <2>2. Closing'
    BY <1>1, <1>d DEF Closing
  <2> QED  BY <1>1, <1>d, <2>1, <2>2 DEF TornApart
<1>i. Tailing'
  BY <1>4, <1>5, <1>d DEF Tailing
<1>j. Sending'
  <2>1. WellFormed(line) => line[2].event \in Entries
    <3>1. WellFormed(line) => line[2] \in Pieces
      BY <1>7 DEF WellFormed
    <3> QED  BY <3>1 DEF Pieces
  <2>2. WellFormed(line) => line[2].event # None
    BY <2>1, NetLogAssumption DEF NetLogAssumption
  <2> QED  BY <1>d, <1>e, <2>2 DEF Sending
<1> QED  BY <1>f, <1>g, <1>h, <1>i, <1>j DEF NetLogInv

\* At the end of the file the start of a line is kept for the next round.
LEMMA ReachEndKeeps ==
  ASSUME NetLogInv, ReachEnd
  PROVE  NetLogInv'
<1>1. LogTypeOK /\ Written /\ TornApart /\ Tailing /\ Sending /\ Delivered /\ Closing /\ ViewAgrees
  BY DEF NetLogInv
<1>2. PICK m : m = Len(partial)
  OBVIOUS
<1>3. PICK n : n = Len(file)
  OBVIOUS
<1>4. /\ file \in Seq(Pieces) /\ n \in Nat /\ DOMAIN file = 1..n
      /\ partial \in Seq(Pieces) /\ m \in 0..pos /\ pos \in 0..n
  BY <1>1, <1>2, <1>3 DEF LogTypeOK, Tailing
<1>5. PICK rest : rest = SubSeq(file, pos + 1, n)
  OBVIOUS
<1>6. /\ rest \in Seq(Pieces) /\ Len(rest) = n - pos
      /\ \A i \in 1..(n - pos) : rest[i] = file[pos + i]
  BY <1>3, <1>4, <1>5
<1>7. /\ UNCHANGED <<enc, logged, writing, file, created, call, pc, held, readErr, cancelled>>
      /\ UNCHANGED <<events, allowedCount, blockedCount, blockedOnly, errMsg, delivered>>
      /\ pos' = n /\ partial' = partial \o rest /\ rpc = "read"
      /\ rpc' = IF call.follow THEN "wait" ELSE "closed"
  BY <1>3, <1>5 DEF ReachEnd, writerVars, viewVars
<1>8. /\ partial' \in Seq(Pieces) /\ Len(partial') = m + (n - pos)
      /\ \A i \in 1..m : partial'[i] = partial[i]
      /\ \A i \in (m + 1)..(m + (n - pos)) : partial'[i] = rest[i - m]
  BY <1>2, <1>4, <1>6, <1>7, ConcatProperties
<1>9. \A i \in (pos + 1)..n : file[i] \in Pieces /\ file[i].part = "start"
  <2> SUFFICES ASSUME NEW i \in (pos + 1)..n
               PROVE  file[i] \in Pieces /\ file[i].part = "start"
    OBVIOUS
  <2>1. file[i] \in Pieces
    BY <1>4
  <2>2. file[i].part # "finish"
    BY <1>3 DEF ReachEnd, LineEnds
  <2> QED  BY <2>1, <2>2 DEF Pieces
<1>a. Tailing'
  <2>1. m + (n - pos) <= n /\ n - (m + (n - pos)) = pos - m
    BY <1>4
  <2>2. ASSUME NEW i \in 1..(m + (n - pos))
        PROVE  partial'[i] = file[pos - m + i] /\ partial'[i].part = "start"
    <3>1. CASE i \in 1..m
      BY <1>1, <1>2, <1>8, <3>1 DEF Tailing
    <3>2. CASE i \in (m + 1)..(m + (n - pos))
      <4>1. i - m \in 1..(n - pos) /\ pos + (i - m) = pos - m + i /\ pos - m + i \in (pos + 1)..n
        BY <1>4, <3>2
      <4> QED  BY <1>6, <1>8, <1>9, <3>2, <4>1
    <3> QED  BY <1>4, <3>1, <3>2
  <2>3. m + (n - pos) < n => file[pos - m].part = "finish"
    <3>1. m + (n - pos) < n => m < pos
      BY <1>4
    <3> QED  BY <1>1, <1>2, <3>1 DEF Tailing
  <2> QED  BY <1>3, <1>7, <1>8, <2>1, <2>2, <2>3 DEF Tailing
<1>b. Delivered'
  <2>1. ReadableIn(n) = ReadableIn(pos)
    <3>1. \A k \in ReadableIn(n) : k \in ReadableIn(pos)
      <4> SUFFICES ASSUME NEW k \in ReadableIn(n) PROVE k \in ReadableIn(pos)
        OBVIOUS
      <4>1. k \in 2..n /\ file[k].part = "finish"
        BY DEF ReadableIn
      <4>2. k \in 2..pos
        BY <1>4, <1>9, <4>1
      <4> QED  BY <4>2 DEF ReadableIn
    <3>2. \A k \in ReadableIn(pos) : k \in ReadableIn(n)
      BY <1>4 DEF ReadableIn
    <3> QED  BY <3>1, <3>2
  <2>2. ReadableIn(pos)' = ReadableIn(n) /\ EventAt' = EventAt /\ Got' = Got
    BY <1>7 DEF ReadableIn, EventAt, Got
  <2> QED  BY <1>1, <2>1, <2>2 DEF Delivered
<1>c. Written' /\ TornApart' /\ ViewAgrees'
  <2>1. Written' /\ Torn' = Torn /\ ViewAgrees'
    BY <1>1, <1>7 DEF Written, Torn, ViewAgrees
  <2> QED  BY <1>1, <1>7, <2>1 DEF TornApart
<1>d. LogTypeOK'
  <2>1. rpc' \in {"open", "read", "wait", "send", "closed"} /\ pos' \in 0..Len(file)
    BY <1>3, <1>4, <1>7
  <2> QED  BY <1>1, <1>7, <1>8, <2>1 DEF LogTypeOK
<1>e. Sending' /\ Closing'
  BY <1>1, <1>7 DEF Sending, Closing
<1> QED  BY <1>a, <1>b, <1>c, <1>d, <1>e DEF NetLogInv

\* The event sent is shown, or not, as the events before it were.
LEMMA DeliverKeeps ==
  ASSUME NetLogInv, Deliver
  PROVE  NetLogInv'
<1>1. LogTypeOK /\ Written /\ TornApart /\ Tailing /\ Sending /\ Delivered /\ Closing /\ ViewAgrees
  BY DEF NetLogInv
<1>2. PICK e : e = held
  OBVIOUS
<1>3. e # None /\ e \in Entries /\ e.blocked \in BOOLEAN
  <2>1. e # None /\ e \in Entries
    BY <1>1, <1>2 DEF Deliver, Sending, LogTypeOK
  <2> QED  BY <2>1 DEF Entries
<1>4. /\ UNCHANGED <<enc, logged, writing, file, created, call, pc, pos, partial, readErr, cancelled>>
      /\ UNCHANGED <<blockedOnly, errMsg>>
      /\ held' = None /\ rpc' = "read" /\ pc = "running"
      /\ delivered' = Append(delivered, e)
  BY <1>2 DEF Deliver, Receive, writerVars
<1>5. PICK n : n = Len(delivered)
  OBVIOUS
<1>6. /\ delivered \in Seq(Entries) /\ events \in Seq(Entries) /\ n \in Nat /\ DOMAIN delivered = 1..n
      /\ allowedCount \in Nat /\ blockedCount \in Nat
  BY <1>1, <1>5 DEF LogTypeOK
<1>7. /\ delivered' \in Seq(Entries) /\ DOMAIN delivered' = 1..(n + 1) /\ Len(delivered') = n + 1
      /\ delivered'[n + 1] = e /\ \A i \in 1..n : delivered'[i] = delivered[i]
  BY <1>3, <1>4, <1>5, <1>6
<1>8. PICK B : B = {i \in DOMAIN delivered : delivered[i].blocked}
  OBVIOUS
<1>9. /\ B \in SUBSET Nat /\ IsFiniteSet(B) /\ B \subseteq 1..n
      /\ \A i \in B : i < n + 1
      /\ n + 1 \notin B
  <2>1. B \in SUBSET (1..n) /\ IsFiniteSet(1..n)
    BY <1>6, <1>8, FS_Interval
  <2>2. IsFiniteSet(B)
    BY <2>1, FS_Subset
  <2> QED  BY <1>6, <2>1, <2>2
<1>a. {i \in DOMAIN delivered' : delivered'[i].blocked} = IF e.blocked THEN B \cup {n + 1} ELSE B
  <2>1. \A i : i \in 1..(n + 1) <=> i \in 1..n \/ i = n + 1
    BY <1>6
  <2> QED  BY <1>6, <1>7, <1>8, <1>9, <2>1
<1>b. ViewAgrees' /\ events' \in Seq(Entries) /\ allowedCount' \in Nat /\ blockedCount' \in Nat
  <2>1. CASE call.kind = "netlog"
    <3>1. PICK I : I = IF call.blockedOnly THEN B ELSE DOMAIN delivered
      OBVIOUS
    <3>2. Selects(events, delivered, I)
      BY <1>1, <1>8, <2>1, <3>1 DEF ViewAgrees
    <3>3. /\ I \in SUBSET Nat /\ IsFiniteSet(I) /\ (\A i \in I : i < n + 1) /\ I \subseteq 1..n
      <4>1. 1..n \in SUBSET Nat /\ IsFiniteSet(1..n) /\ \A i \in 1..n : i < n + 1
        BY <1>6, FS_Interval
      <4> QED  BY <1>6, <1>9, <3>1, <4>1
    <3>4. events' = IF call.blockedOnly /\ ~e.blocked THEN events ELSE Append(events, e)
      BY <1>2, <2>1 DEF Deliver, Receive
    <3>5. UNCHANGED <<allowedCount, blockedCount>>
      BY <2>1 DEF Deliver, Receive
    <3>6. PICK J : J = IF call.blockedOnly THEN {i \in DOMAIN delivered' : delivered'[i].blocked}
                       ELSE DOMAIN delivered'
      OBVIOUS
    <3>7. CASE call.blockedOnly /\ ~e.blocked
      <4>1. Selects(events, delivered', I)
        BY <1>7, <3>2, <3>3, SelectsSame
      <4>2. I = J
        BY <1>a, <3>1, <3>6, <3>7
      <4> QED  BY <1>4, <1>6, <2>1, <3>4, <3>5, <3>6, <3>7, <4>1, <4>2 DEF ViewAgrees
    <3>8. CASE ~(call.blockedOnly /\ ~e.blocked)
      <4>1. \A i \in I : delivered'[i] = delivered[i]
        BY <1>7, <3>3
      <4>2. Selects(Append(events, e), delivered', I \cup {n + 1})
        <5>1. PICK f : f = delivered
          OBVIOUS
        <5>2. PICK g : g = delivered'
          OBVIOUS
        <5>3. PICK s \in Seq(Entries) : s = events
          BY <1>6
        <5>4. PICK i \in Nat : i = n + 1
          BY <1>6
        <5>5. \A j \in I : j < i
          BY <3>3, <5>4
        <5>6. \A j \in I : g[j] = f[j]
          BY <4>1, <5>1, <5>2
        <5>7. g[i] = e /\ Selects(s, f, I)
          BY <1>7, <3>2, <5>1, <5>2, <5>3, <5>4
        <5>8. Selects(Append(s, e), g, I \cup {i})
          BY <1>3, <3>3, <5>5, <5>6, <5>7, SelectsNext
        <5> QED  BY <5>2, <5>3, <5>4, <5>8
      <4>3. I \cup {n + 1} = J
        <5>1. (1..n) \cup {n + 1} = 1..(n + 1)
          BY <1>6
        <5> QED  BY <1>3, <1>6, <1>7, <1>a, <3>1, <3>6, <3>8, <5>1
      <4>4. Append(events, e) \in Seq(Entries)
        BY <1>3, <1>6
      <4> QED  BY <1>4, <1>6, <2>1, <3>4, <3>5, <3>6, <3>8, <4>2, <4>3, <4>4 DEF ViewAgrees
    <3> QED  BY <3>7, <3>8
  <2>2. CASE call.kind # "netlog"
    <3>1. events = LastOf(delivered, Keep) /\ blockedCount = Cardinality(B) /\ allowedCount = n - blockedCount
      BY <1>1, <1>5, <1>8, <2>2 DEF ViewAgrees
    <3>2. /\ events' = LastOf(Append(events, e), Keep)
          /\ blockedCount' = IF e.blocked THEN blockedCount + 1 ELSE blockedCount
          /\ allowedCount' = IF e.blocked THEN allowedCount ELSE allowedCount + 1
      BY <1>2, <2>2 DEF Deliver, Receive
    <3>3. events' = LastOf(delivered', Keep) /\ events' \in Seq(Entries)
      <4>1. Keep \in Nat \ {0}
        BY NetLogAssumption DEF NetLogAssumption
      <4>2. LastOf(delivered', Keep) \in Seq(Entries)
        BY <1>3, <1>7, <4>1, LastOfAppend
      <4>3. LastOf(Append(LastOf(delivered, Keep), e), Keep) = LastOf(Append(delivered, e), Keep)
        BY <1>3, <1>6, <4>1, LastOfAppend
      <4> QED  BY <1>4, <3>1, <3>2, <4>2, <4>3
    <3>4. PICK C : C = {i \in DOMAIN delivered' : delivered'[i].blocked}
      OBVIOUS
    <3>5. blockedCount' = Cardinality(C)
      <4>1. Cardinality(B \cup {n + 1}) = Cardinality(B) + 1
        BY <1>9, FS_AddElement
      <4> QED  BY <1>a, <3>1, <3>2, <3>4, <4>1
    <3>6. allowedCount' = (n + 1) - blockedCount' /\ blockedCount' \in Nat /\ allowedCount' \in Nat
      BY <1>3, <1>6, <3>1, <3>2
    <3> QED  BY <1>4, <1>7, <2>2, <3>3, <3>4, <3>5, <3>6 DEF ViewAgrees
  <2> QED  BY <2>1, <2>2
<1>c. LogTypeOK'
  <2>1. rpc' \in {"open", "read", "wait", "send", "closed"} /\ held' \in Entries \cup {None}
    BY <1>4
  <2> QED  BY <1>1, <1>4, <1>7, <1>b, <2>1 DEF LogTypeOK
<1>d. Written' /\ TornApart' /\ Tailing'
  <2>1. Written' /\ Torn' = Torn /\ Tailing'
    BY <1>1, <1>4 DEF Written, Torn, Tailing
  <2> QED  BY <1>1, <1>4, <2>1 DEF TornApart
<1>e. Delivered'
  <2>1. Got' = Got
    BY <1>2, <1>3, <1>4 DEF Got
  <2>2. EventAt' = EventAt /\ ReadableIn(pos)' = ReadableIn(pos)
    BY <1>4 DEF EventAt, ReadableIn
  <2> QED  BY <1>1, <2>1, <2>2 DEF Delivered
<1>f. Sending' /\ Closing'
  BY <1>1, <1>4 DEF Sending, Closing
<1> QED  BY <1>b, <1>c, <1>d, <1>e, <1>f DEF NetLogInv
-----------------------------------------------------------------------------
(* The theorems *)

LEMMA NetLogStart == LogInit => NetLogInv
<1> SUFFICES ASSUME LogInit PROVE NetLogInv
  OBVIOUS
<1> USE DEF LogInit
<1>1. LogTypeOK
  <2>1. call \in Commands /\ call.blockedOnly \in BOOLEAN
    BY NetLogAssumption DEF NetLogAssumption, Calls
  <2>2. logged \in [Writers -> 0..MaxEvents]
    BY NetLogAssumption DEF NetLogAssumption
  <2>3. file \in Seq(Pieces) /\ pos \in 0..Len(file) /\ partial \in Seq(Pieces)
    OBVIOUS
  <2>4. events \in Seq(Entries) /\ delivered \in Seq(Entries) /\ allowedCount \in Nat /\ blockedCount \in Nat
    OBVIOUS
  <2>5. enc \in [Writers -> {"unopened", "ready", "stdout", "failed"}] /\ writing \in Writers \cup {Nobody}
    OBVIOUS
  <2>6. {readErr, cancelled, blockedOnly, errMsg} \subseteq BOOLEAN /\ created \in BOOLEAN
    BY <2>1
  <2>7. held \in Entries \cup {None}
    OBVIOUS
  <2>8. pc \in {"start", "running", "ended", "died", "killed"} /\ rpc \in {"open", "read", "wait", "send", "closed"}
    OBVIOUS
  <2> HIDE DEF LogInit
  <2> QED  BY <2>1, <2>2, <2>3, <2>4, <2>5, <2>6, <2>7, <2>8 DEF LogTypeOK
<1>2. Written /\ TornApart
  BY DEF Written, TornApart, Torn
<1>3. Tailing /\ Sending /\ Closing
  BY DEF Tailing, Sending, Closing
<1>4. Delivered
  <2>1. ReadableIn(0) = {}
    BY DEF ReadableIn
  <2> QED  BY <2>1, FS_EmptySet DEF Delivered, Selects, Got
<1>5. ViewAgrees
  <2>1. {i \in DOMAIN delivered : delivered[i].blocked} = {} /\ DOMAIN delivered = {}
    OBVIOUS
  <2>2. Cardinality({}) = 0
    BY FS_EmptySet
  <2>3. CASE call.kind = "netlog"
    BY <2>1, <2>2, <2>3 DEF ViewAgrees, Selects
  <2>4. CASE call.kind # "netlog"
    <3>1. Keep \in Nat \ {0}
      BY NetLogAssumption DEF NetLogAssumption
    <3>2. LastOf(<<>>, Keep) = <<>>
      BY <3>1 DEF LastOf
    <3> QED  BY <2>1, <2>2, <2>4, <3>2 DEF ViewAgrees
  <2> QED  BY <2>3, <2>4
<1> QED  BY <1>1, <1>2, <1>3, <1>4, <1>5 DEF NetLogInv

LEMMA NetLogStep == NetLogInv /\ [LogNext]_logVars => NetLogInv'
<1> SUFFICES ASSUME NetLogInv, [LogNext]_logVars PROVE NetLogInv'
  OBVIOUS
<1>1. ASSUME NEW w \in Writers, Sidecar(w) PROVE NetLogInv'
  BY <1>1, SidecarKeepsReader
<1>2. CASE ReadLine
  BY <1>2, ReadLineKeeps
<1>3. CASE ReachEnd
  BY <1>3, ReachEndKeeps
<1>4. CASE Deliver
  BY <1>4, DeliverKeeps
<1>5. CASE \/ StartCommand \/ OpenFile \/ ReadFails \/ Poll \/ StopSending
           \/ ReturnFromNetLog \/ ShowError \/ Interrupt \/ ToggleFilter \/ Quit
           \/ UNCHANGED logVars
  BY <1>5, QuietSteps
<1> QED  BY <1>1, <1>2, <1>3, <1>4, <1>5 DEF LogNext, Command, User, TailEvents

\* The inductive invariant: what the sidecars have written, what the reader has
\* made of it, and why it stopped.
THEOREM NetLogInvariant == LogSpec => []NetLogInv
<1>1. LogInit => NetLogInv
  BY NetLogStart
<1>2. NetLogInv /\ [LogNext]_logVars => NetLogInv'
  BY NetLogStep
<1> QED  BY <1>1, <1>2, PTL DEF LogSpec

\* Every variable of the log's writers and its reader has its type.
THEOREM LogTypeCorrect == LogSpec => []LogTypeOK
<1>1. NetLogInv => LogTypeOK
  BY DEF NetLogInv
<1> QED  BY <1>1, NetLogInvariant, PTL

\* tailEvents delivers each readable line once and in order, wherever the file
\* ended when it looked, and a sidecar whose disk was full costs one line besides
\* its own.
THEOREM WholeLinesDelivered == LogSpec => []DeliversWholeLines
<1>1. NetLogInv => DeliversWholeLines
  <2> SUFFICES ASSUME NetLogInv PROVE DeliversWholeLines
    OBVIOUS
  <2>1. LogTypeOK /\ Written /\ TornApart /\ Delivered
    BY DEF NetLogInv
  <2>2. Selects(IF held = None THEN delivered ELSE Append(delivered, held),
                [k \in DOMAIN file |-> file[k].event], ReadableIn(pos))
    BY <2>1 DEF Delivered, Got, EventAt
  <2>3. Cardinality({k \in 2..Len(file) : file[k].part = "finish"})
          <= Cardinality(ReadableIn(Len(file))) + Cardinality({w \in Writers : enc[w] = "failed"})
    BY <2>1, TornLinesCostOne DEF Whole, Failed
  <2> QED  BY <2>2, <2>3 DEF DeliversWholeLines
<1> QED  BY <1>1, NetLogInvariant, PTL

\* netlog's output and netview's list and counts are those of the events received.
THEOREM ViewsAgree == LogSpec => []ViewAgrees
<1>1. NetLogInv => ViewAgrees
  BY DEF NetLogInv
<1> QED  BY <1>1, NetLogInvariant, PTL

\* cmdNetLog returns without an error only when tailEvents met none, and a
\* following one only after an interrupt.
THEOREM ErrorsReported == LogSpec => []ErrorsNotSwallowed
<1>1. NetLogInv => ErrorsNotSwallowed
  BY DEF NetLogInv, Closing, ErrorsNotSwallowed
<1> QED  BY <1>1, NetLogInvariant, PTL
=============================================================================
