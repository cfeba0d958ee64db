-------------------------------- MODULE NetLog --------------------------------
(***************************************************************************)
(* A project's network log: the sidecars of its sessions append to one     *)
(* file, and netlog or netview read it, perhaps while it grows.  A line is *)
(* one write; other writers wait for its end (the file is opened with      *)
(* O_APPEND), but a reader can find half of it, and a full disk leaves     *)
(* half of it for ever.  So a line is two pieces here, and the second one  *)
(* carries the newline.                                                    *)
(*                                                                         *)
(* Definitions marked "Fault" are not part of the specification: each is   *)
(* the definition after it with a mistake a change to the code could make, *)
(* kept to show that the properties below notice it.                       *)
(***************************************************************************)
EXTENDS Naturals, Sequences, FiniteSets

CONSTANTS
  Writers,    \* sidecars, of one session after the other or side by side
  Commands,   \* how the reader may be called
  Nobody,     \* no writer is within a write
  None,       \* no event is held
  MaxEvents,  \* bound: how many events a sidecar has to log
  Keep        \* netViewMaxEvents

Calls == [kind : {"netlog", "netview"}, follow : BOOLEAN, blockedOnly : BOOLEAN]

Entries == [by : Writers, number : 1..MaxEvents, blocked : BOOLEAN]

ASSUME NetLogAssumption ==
  /\ Commands \subseteq {c \in Calls : c.kind = "netview" => c.follow /\ ~c.blockedOnly}
  /\ IsFiniteSet(Writers) /\ Nobody \notin Writers
  /\ None \notin Entries
  /\ MaxEvents \in Nat
  /\ Keep \in Nat \ {0}

VARIABLES
  enc,        \* each sidecar's encoder: "unopened", "ready", "stdout" or "failed"
  logged,     \* how many events each sidecar has encoded
  writing,    \* the sidecar within its write
  file,       \* the pieces in the file
  created,    \* the file exists
  call,       \* the command and its flags
  pc,         \* the command: "start", "running", "ended", "died" or "killed"
  rpc,        \* tailEvents: "open", "read", "wait", "send" or "closed"
  pos,        \* how many pieces it has read
  partial,    \* the start of a line found at the end of the file
  held,       \* the event it is sending
  readErr,    \* an error is in errCh
  cancelled,  \* ctx is done
  events,     \* what netlog printed, or netview keeps
  allowedCount, blockedCount, blockedOnly,  \* netview's counts and filter
  errMsg,     \* netview shows the error
  delivered   \* history: the events received, all of them

writerVars == <<enc, logged, writing, file, created>>
tailVars   == <<rpc, pos, partial, held, readErr>>
viewVars   == <<events, allowedCount, blockedCount, blockedOnly, errMsg, delivered>>
logVars == <<writerVars, call, pc, tailVars, cancelled, viewVars>>
-----------------------------------------------------------------------------
Start(e)  == [event |-> e, part |-> "start"]
Finish(e) == [event |-> e, part |-> "finish"]
Pieces == [event : Entries, part : {"start", "finish"}]

\* The last k elements of s, or all of them.
LastOf(s, k) == SubSeq(s, IF Len(s) > k THEN Len(s) - k + 1 ELSE 1, Len(s))

LogInit ==
  /\ enc = [w \in Writers |-> "unopened"]
  /\ logged = [w \in Writers |-> 0]
  /\ writing = Nobody
  /\ file = <<>>
  /\ created = FALSE
  /\ call \in Commands
  /\ pc = "start"
  /\ rpc = "open"
  /\ pos = 0
  /\ partial = <<>>
  /\ held = None
  /\ readErr = FALSE
  /\ cancelled = FALSE
  /\ events = <<>>
  /\ allowedCount = 0
  /\ blockedCount = 0
  /\ blockedOnly = call.blockedOnly
  /\ errMsg = FALSE
  /\ delivered = <<>>
-----------------------------------------------------------------------------
\* ensureFileExists on the host, then eventLogWriter in the sidecar, which does
\* without the file if it cannot open it.
OpenLog(w) ==
  /\ enc[w] = "unopened"
  /\ created' = TRUE
  /\ \E to \in {"ready", "stdout"} : enc' = [enc EXCEPT ![w] = to]
  /\ UNCHANGED <<logged, writing, file, call, pc, tailVars, cancelled, viewVars>>

\* Logger.Event: the first bytes of the line are in the file.
BeginLine(w) ==
  /\ enc[w] = "ready"
  /\ writing = Nobody
  /\ logged[w] < MaxEvents
  /\ \E b \in BOOLEAN :
       file' = Append(file, Start([by |-> w, number |-> logged[w] + 1, blocked |-> b]))
  /\ logged' = [logged EXCEPT ![w] = @ + 1]
  /\ writing' = w
  /\ UNCHANGED <<enc, created, call, pc, tailVars, cancelled, viewVars>>

EndLine(w) ==
  /\ writing = w
  /\ file' = Append(file, Finish(file[Len(file)].event))
  /\ writing' = Nobody
  /\ UNCHANGED <<enc, logged, created, call, pc, tailVars, cancelled, viewVars>>

\* The disk is full: a json.Encoder that failed once writes nothing more.
WriteFails(w) ==
  /\ writing = w
  /\ writing' = Nobody
  /\ enc' = [enc EXCEPT ![w] = "failed"]
  /\ UNCHANGED <<logged, file, created, call, pc, tailVars, cancelled, viewVars>>

Sidecar(w) == OpenLog(w) \/ BeginLine(w) \/ EndLine(w) \/ WriteFails(w)
-----------------------------------------------------------------------------
\* cmdNetLog and cmdNetView: nothing to read, or tailEvents is started.
StartCommand ==
  /\ pc = "start"
  /\ pc' = IF created THEN "running" ELSE "ended"
  /\ UNCHANGED <<writerVars, call, tailVars, cancelled, viewVars>>

OpenFile ==
  /\ pc = "running"
  /\ rpc = "open"
  /\ \/ rpc' = "read" /\ UNCHANGED readErr
     \/ rpc' = "closed" /\ readErr' = TRUE
  /\ UNCHANGED <<writerVars, call, pc, pos, partial, held, cancelled, viewVars>>

LineEnds == {k \in pos + 1 .. Len(file) : file[k].part = "finish"}

\* The first newline not read yet.
NextEnd == CHOOSE k \in LineEnds : \A l \in LineEnds : k <= l

\* json.Unmarshal accepts it: one event, nothing before it on the line.
WellFormed(line) == Len(line) = 2 /\ line[1] = Start(line[2].event)

ReadLine ==
  /\ pc = "running"
  /\ rpc = "read"
  /\ LineEnds # {}
  /\ LET line == partial \o SubSeq(file, pos + 1, NextEnd)
     IN  IF WellFormed(line)
           THEN rpc' = "send" /\ held' = line[2].event
           ELSE UNCHANGED <<rpc, held>>
  /\ pos' = NextEnd
  /\ partial' = <<>>
  /\ UNCHANGED <<writerVars, call, pc, readErr, cancelled, viewVars>>

\* Fault: what was read before the end of the file is dropped.
ForgetPartial ==
  /\ pc = "running"
  /\ rpc = "read"
  /\ LineEnds = {}
  /\ pos' = Len(file)
  /\ rpc' = IF call.follow THEN "wait" ELSE "closed"
  /\ UNCHANGED <<writerVars, call, pc, partial, held, readErr, cancelled, viewVars>>

\* Fault: the next line is taken to start one piece further on.
SkipPastEnd ==
  /\ pc = "running"
  /\ rpc = "read"
  /\ LineEnds = {}
  /\ partial' = partial \o SubSeq(file, pos + 1, Len(file))
  /\ pos' = Len(file) + 1
  /\ rpc' = IF call.follow THEN "wait" ELSE "closed"
  /\ UNCHANGED <<writerVars, call, pc, held, readErr, cancelled, viewVars>>

\* Fault: the end of the file ends the tail, follow or not.
StopAtEnd ==
  /\ pc = "running"
  /\ rpc = "read"
  /\ LineEnds = {}
  /\ partial' = partial \o SubSeq(file, pos + 1, Len(file))
  /\ pos' = Len(file)
  /\ rpc' = "closed"
  /\ UNCHANGED <<writerVars, call, pc, held, readErr, cancelled, viewVars>>

ReachEnd ==
  /\ pc = "running"
  /\ rpc = "read"
  /\ LineEnds = {}
  /\ partial' = partial \o SubSeq(file, pos + 1, Len(file))
  /\ pos' = Len(file)
  /\ rpc' = IF call.follow THEN "wait" ELSE "closed"
  /\ UNCHANGED <<writerVars, call, pc, held, readErr, cancelled, viewVars>>

ReadFails ==
  /\ pc = "running"
  /\ rpc = "read"
  /\ rpc' = "closed"
  /\ readErr' = TRUE
  /\ UNCHANGED <<writerVars, call, pc, pos, partial, held, cancelled, viewVars>>

\* The poll interval is over, or ctx is.
Poll ==
  /\ pc = "running"
  /\ rpc = "wait"
  /\ rpc' \in IF cancelled THEN {"read", "closed"} ELSE {"read"}
  /\ UNCHANGED <<writerVars, call, pc, pos, partial, held, readErr, cancelled, viewVars>>

\* Fault: the counts are those of the events kept.
ReceiveCountingKept(e) ==
  /\ delivered' = Append(delivered, e)
  /\ IF call.kind = "netlog"
       THEN /\ events' = IF call.blockedOnly /\ ~e.blocked THEN events ELSE Append(events, e)
            /\ UNCHANGED <<allowedCount, blockedCount>>
       ELSE /\ events' = LastOf(Append(events, e), Keep)
            /\ blockedCount' = Cardinality({i \in DOMAIN events' : events'[i].blocked})
            /\ allowedCount' = Len(events') - blockedCount'

\* What netlog prints, or netViewModel.Update does with the event.
Receive(e) ==
  /\ delivered' = Append(delivered, e)
  /\ IF call.kind = "netlog"
       THEN /\ events' = IF call.blockedOnly /\ ~e.blocked THEN events ELSE Append(events, e)
            /\ UNCHANGED <<allowedCount, blockedCount>>
       ELSE /\ events' = LastOf(Append(events, e), Keep)
            /\ blockedCount' = IF e.blocked THEN blockedCount + 1 ELSE blockedCount
            /\ allowedCount' = IF e.blocked THEN allowedCount ELSE allowedCount + 1

Deliver ==
  /\ pc = "running"
  /\ rpc = "send"
  /\ Receive(held)
  /\ held' = None
  /\ rpc' = "read"
  /\ UNCHANGED <<writerVars, call, pc, pos, partial, readErr, cancelled, blockedOnly, errMsg>>

\* The other branch of the send: the event is dropped with the rest.
StopSending ==
  /\ pc = "running"
  /\ rpc = "send"
  /\ cancelled
  /\ rpc' = "closed"
  /\ UNCHANGED <<writerVars, call, pc, pos, partial, held, readErr, cancelled, viewVars>>

TailEvents ==
  OpenFile \/ ReadLine \/ ReachEnd \/ ReadFails \/ Poll \/ Deliver \/ StopSending
-----------------------------------------------------------------------------
\* Fault: nobody looks into errCh once the events have ended.
ReturnQuietly ==
  /\ pc = "running"
  /\ call.kind = "netlog"
  /\ rpc = "closed"
  /\ pc' = "ended"
  /\ UNCHANGED <<writerVars, call, tailVars, cancelled, viewVars>>

\* netlog's loop is over; tailEvents put its error before it closed the channel.
ReturnFromNetLog ==
  /\ pc = "running"
  /\ call.kind = "netlog"
  /\ rpc = "closed"
  /\ pc' = IF readErr THEN "died" ELSE "ended"
  /\ UNCHANGED <<writerVars, call, tailVars, cancelled, viewVars>>

\* SIGINT: netlog cancels when it follows; otherwise nothing handles the signal.
Interrupt ==
  /\ pc = "running"
  /\ call.kind = "netlog"
  /\ IF call.follow
       THEN cancelled' = TRUE /\ UNCHANGED pc
       ELSE pc' = "killed" /\ UNCHANGED cancelled
  /\ UNCHANGED <<writerVars, call, tailVars, viewVars>>

ShowError ==
  /\ pc = "running"
  /\ call.kind = "netview"
  /\ readErr
  /\ errMsg' = TRUE
  /\ UNCHANGED <<writerVars, call, pc, tailVars, cancelled,
                 events, allowedCount, blockedCount, blockedOnly, delivered>>

ToggleFilter ==
  /\ pc = "running"
  /\ call.kind = "netview"
  /\ blockedOnly' = ~blockedOnly
  /\ UNCHANGED <<writerVars, call, pc, tailVars, cancelled,
                 events, allowedCount, blockedCount, errMsg, delivered>>

Quit ==
  /\ pc = "running"
  /\ call.kind = "netview"
  /\ pc' = "ended"
  /\ UNCHANGED <<writerVars, call, tailVars, cancelled, viewVars>>

Command == StartCommand \/ TailEvents \/ ReturnFromNetLog \/ ShowError

User == Interrupt \/ ToggleFilter \/ Quit

LogNext == (\E w \in Writers : Sidecar(w)) \/ Command \/ User

LogSpec == LogInit /\ [][LogNext]_logVars

\* A started line is finished or has failed, and the command runs: its waits are
\* timers.  When ctx is done and the timer is too, select does not pick the timer
\* for ever.
LogFairSpec ==
  /\ LogSpec
  /\ \A w \in Writers : WF_logVars(EndLine(w) \/ WriteFails(w))
  /\ WF_logVars(Command)
  /\ SF_logVars(Poll /\ rpc' = "closed")
-----------------------------------------------------------------------------
LogTypeOK ==
  /\ enc \in [Writers -> {"unopened", "ready", "stdout", "failed"}]
  /\ logged \in [Writers -> 0..MaxEvents]
  /\ writing \in Writers \cup {Nobody}
  /\ file \in Seq(Pieces)
  /\ created \in BOOLEAN
  /\ call \in Commands
  /\ pc \in {"start", "running", "ended", "died", "killed"}
  /\ rpc \in {"open", "read", "wait", "send", "closed"}
  /\ pos \in 0..Len(file)
  /\ partial \in Seq(Pieces)
  /\ held \in Entries \cup {None}
  /\ {readErr, cancelled, blockedOnly, errMsg} \subseteq BOOLEAN
  /\ events \in Seq(Entries) /\ delivered \in Seq(Entries)
  /\ allowedCount \in Nat /\ blockedCount \in Nat

\* The pieces that finish a readable line of the file's first n: the line was
\* begun just before, and just after another line's end.
ReadableIn(n) ==
  {k \in 2..n : /\ file[k].part = "finish"
                /\ file[k - 1] = Start(file[k].event)
                /\ k > 2 => file[k - 2].part = "finish"}

\* s has the values of f at the places I, in their order, and no others.
Selects(s, f, I) ==
  /\ Len(s) = Cardinality(I)
  /\ \A i \in I : s[Cardinality({j \in I : j < i}) + 1] = f[i]

\* The reader delivers each readable line exactly once and in the file's order,
\* however the polls fall between the pieces of the lines; a line that was torn,
\* and what was glued to it, is skipped and nothing else is.  A torn line costs the
\* log at most one event that was written whole, the next that a sidecar appends.
DeliversWholeLines ==
  LET got   == IF held = None THEN delivered ELSE Append(delivered, held)
      whole == {k \in 2..Len(file) : file[k].part = "finish"}
      torn  == {w \in Writers : enc[w] = "failed"}
  IN  /\ Selects(got, [k \in DOMAIN file |-> file[k].event], ReadableIn(pos))
      /\ Cardinality(whole) <= Cardinality(ReadableIn(Len(file))) + Cardinality(torn)

\* netlog printed what it was asked to, and netview's list is the newest Keep
\* events while its counts go on counting those it has dropped.
ViewAgrees ==
  LET blocked == {i \in DOMAIN delivered : delivered[i].blocked}
  IN  IF call.kind = "netlog"
        THEN Selects(events, delivered, IF call.blockedOnly THEN blocked ELSE DOMAIN delivered)
        ELSE /\ events = LastOf(delivered, Keep)
             /\ blockedCount = Cardinality(blocked)
             /\ allowedCount = Len(delivered) - blockedCount

\* netlog never passes off a part of the history as the whole of it: it returns
\* quietly only at the end of the file or, when it follows, after an interrupt.
ErrorsNotSwallowed ==
  (pc = "ended" /\ call.kind = "netlog") =>
    /\ ~readErr
    /\ call.follow /\ rpc = "closed" => cancelled

\* A readable line reaches a reader that follows, unless it fails or is stopped;
\* netlog ends by itself when it does not follow, and after an interrupt when it
\* does; an error is reported by either command.
ReadersProgress ==
  /\ \A n \in 1..(MaxEvents * Cardinality(Writers)) :
       (pc = "running" /\ call.follow /\ Cardinality(ReadableIn(Len(file))) >= n) ~>
         (Len(delivered) >= n \/ readErr \/ cancelled \/ pc # "running")
  /\ (pc = "running" /\ call.kind = "netlog" /\ (cancelled \/ ~call.follow)) ~> (pc # "running")
  /\ (pc = "running" /\ readErr) ~> (errMsg \/ pc # "running")
=============================================================================
