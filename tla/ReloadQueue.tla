----------------------------- MODULE ReloadQueue -----------------------------
(***************************************************************************)
(* The run queue of check_reload_status: the daemon every other part of    *)
(* pfSense asks to reload the filter, an interface or a service.  It is one *)
(* libevent loop, so each callback is one atomic action here: a client's   *)
(* line (run_command), a queue entry's timer (fcgi_send_command or         *)
(* run_command_detailed) and a record read from the FastCGI server         *)
(* (socket_read_fcgi).  The server, the kernel's refusals and the          *)
(* monitor's restart are the environment.                                  *)
(*                                                                         *)
(* Time is left out: an armed timer may fire in any order, which includes  *)
(* the order the 1, 5 and 8 second delays give.                            *)
(***************************************************************************)
EXTENDS Integers, Sequences, FiniteSets, SequencesExt

CONSTANTS
  Command,      \* the scripts of server.h's tables
  Aggregated,   \* those flagged AGGREGATE
  ViaFcgi,      \* those flagged FCGICMD; the others run through /bin/sh
  Argument,     \* command -> the parameter strings its requests can carry
  Faults,       \* what the environment may refuse or break
  IdModulus,    \* request numbers on the wire are taken modulo this (2^16)
  MaxEvents,    \* bound: client requests in a behaviour
  MaxRequests   \* bound: FastCGI requests that reach the server

FaultKinds ==
  {"calloc", "vfork", "socket", "connect", "write", "recv", "refuse",
   "break", "crash"}

ASSUME QueueAssumption ==
  /\ Aggregated \subseteq Command
  /\ ViaFcgi \subseteq Command
  /\ Faults \subseteq FaultKinds
  /\ IdModulus \in Nat \ {0}
  /\ MaxEvents \in Nat
  /\ MaxRequests \in Nat
  /\ DOMAIN Argument = Command

VARIABLES
  cmds,         \* the TAILQ: a sequence of entries, head first
  requestId,    \* fcgi_send_command's counter, of the requests that were written
  fcgifd,       \* what the descriptor fcgifd designates
  inflight,     \* requests the FastCGI server holds and has not answered
  arrivals,     \* client requests so far, bounded by MaxEvents
  owed,         \* events accepted and not yet handed over since
  credit        \* per command: hand-overs asked for minus those done

vars == <<cmds, requestId, fcgifd, inflight, arrivals, owed, credit>>

-----------------------------------------------------------------------------
\* The number of a request that never reached the server: no answer carries it.
Unanswerable == -1

Params == UNION {Argument[c] : c \in Command}

\* struct runq; timer says whether its libevent timer is armed.
Entry ==
  [command : Command, params : Params, aggregate : Nat,
   dontexec : BOOLEAN, timer : BOOLEAN, requestId : Int]

Request == [command : Command, params : Params, id : Nat]

\* "closed": fcgifd = -1.  "up": connected.  "broken": the peer has gone.
\* "stale": the number of a descriptor fcgi_open_socket closed after a failed
\* connect and kept.  "client": that number, since given to an accepted client.
Descriptor == {"closed", "up", "broken", "stale", "client"}

EventOf(e) == <<e.command, e.params>>

Pending(e) == ~e.dontexec /\ e.timer

\* An accepted event that will still be handed over: a pending entry has it.
Covered(ev) == \E i \in DOMAIN cmds : Pending(cmds[i]) /\ EventOf(cmds[i]) = ev

Init ==
  /\ cmds = << >>
  /\ requestId = 0
  /\ fcgifd = "closed"
  /\ inflight = {}
  /\ arrivals = 0
  /\ owed = {}
  /\ credit = [c \in Command |-> 0]

-----------------------------------------------------------------------------
(***************************************************************************)
(* run_command.  Its scan adds up `aggregate' over the queued entries of   *)
(* the same script, whatever their params, and returns at the first one    *)
(* where the sum exceeds 1.  Every such entry has aggregate >= 1, so when  *)
(* the scan looks at a match that has an earlier one, the sum so far is 1. *)
(***************************************************************************)
Matching(c) ==
  {i \in DOMAIN cmds : c \in Aggregated /\ cmds[i].command = c}

\* Mutant: the entry itself counts as an earlier one.
HasEarlierOrSelf(c, i) == \E j \in Matching(c) : j <= i

HasEarlier(c, i) == \E j \in Matching(c) : j < i

AggregateAt(c, i) ==
  cmds[i].aggregate + (IF HasEarlier(c, i) THEN 1 ELSE 0)

ScanStopsAt(c, i) ==
  /\ i \in Matching(c)
  /\ AggregateAt(c, i) > 1
  /\ \A j \in Matching(c) : j < i => AggregateAt(c, j) <= 1

NewEntry(c, p) ==
  [command |-> c, params |-> p, dontexec |-> FALSE, timer |-> TRUE,
   aggregate |-> IF c \notin Aggregated THEN 0
                 ELSE IF Matching(c) = {} THEN 1 ELSE 2,
   requestId |-> 0]

\* Mutant: a request that meets a sent entry does not schedule it again.
AbsorbWithoutRearming(c, p) ==
  /\ \E i \in DOMAIN cmds : ScanStopsAt(c, i)
  /\ UNCHANGED cmds

\* The request meets a queued one: a sent entry is scheduled again.
Absorb(c, p) ==
  \E i \in DOMAIN cmds :
    /\ ScanStopsAt(c, i)
    /\ cmds' = IF cmds[i].dontexec /\ AggregateAt(c, i) < 3
               THEN [cmds EXCEPT ![i].dontexec = FALSE, ![i].timer = TRUE]
               ELSE cmds

\* Mutant: TAILQ_INSERT_TAIL.
EnqueueAtTail(c, p) ==
  /\ \A i \in DOMAIN cmds : ~ScanStopsAt(c, i)
  /\ cmds' = cmds \o <<NewEntry(c, p)>>

Enqueue(c, p) ==
  /\ \A i \in DOMAIN cmds : ~ScanStopsAt(c, i)
  /\ cmds' = <<NewEntry(c, p)>> \o cmds

\* The client was told OK before run_command looked at the queue.
RunCommand(c, p) ==
  /\ arrivals < MaxEvents
  /\ arrivals' = arrivals + 1
  /\ Absorb(c, p) \/ Enqueue(c, p)
  /\ owed' = owed \cup {<<c, p>>}
  /\ credit' = [credit EXCEPT ![c] = @ + 1]
  /\ UNCHANGED <<requestId, fcgifd, inflight>>

\* calloc fails after the client was told OK: its event is accepted, logged and
\* dropped.  A dropped request asks for no run, so it earns no credit.
RunCommandNoMemory(c, p) ==
  /\ "calloc" \in Faults
  /\ arrivals < MaxEvents
  /\ \A i \in DOMAIN cmds : ~ScanStopsAt(c, i)
  /\ arrivals' = arrivals + 1
  /\ owed' = owed \cup {<<c, p>>}
  /\ UNCHANGED <<cmds, requestId, fcgifd, inflight, credit>>

-----------------------------------------------------------------------------
(* The timer of entry i.  Firing disarms it. *)

Fires(i) == i \in DOMAIN cmds /\ cmds[i].timer

\* Mutant: the callback frees its entry without looking at dontexec.
ReapUnchecked(i) ==
  /\ Fires(i)
  /\ cmds' = RemoveAt(cmds, i)
  /\ UNCHANGED <<requestId, fcgifd, inflight, arrivals, owed, credit>>

\* Both callbacks first reap an entry whose hold-off has passed.
Reap(i) ==
  /\ Fires(i)
  /\ cmds[i].dontexec
  /\ cmds' = RemoveAt(cmds, i)
  /\ UNCHANGED <<requestId, fcgifd, inflight, arrivals, owed, credit>>

HandOver(i) ==
  /\ owed' = owed \ {EventOf(cmds[i])}
  /\ credit' = [credit EXCEPT ![cmds[i].command] = @ - 1]

\* fcgi_open_socket: only a failed socket() leaves fcgifd negative.
OpenOutcomes ==
  {"up"} \cup (IF "connect" \in Faults THEN {"stale"} ELSE {})
         \cup (IF "socket" \in Faults THEN {"closed"} ELSE {})

\* The descriptor fcgi_send_command writes to: opened only when negative.
WriteTargets == IF fcgifd = "closed" THEN OpenOutcomes ELSE {fcgifd}

\* Mutants: dontexec is not set; the 8 second timer is not armed.
SentNotHeld(e, id) ==
  [e EXCEPT !.requestId = id, !.timer = e.aggregate > 0]

SentWithoutTimer(e, id) ==
  [e EXCEPT !.requestId = id, !.dontexec = e.aggregate > 0, !.timer = FALSE]

\* After a successful write an aggregated entry is held off for 8 seconds;
\* any other waits for its answer with no timer.
Sent(e, id) ==
  [e EXCEPT !.requestId = id, !.dontexec = e.aggregate > 0,
            !.timer = e.aggregate > 0]

\* Mutant: the counter is set and not advanced, so two requests share a number.
FcgiSendSameNumber(i) ==
  /\ Fires(i)
  /\ ~cmds[i].dontexec
  /\ cmds[i].command \in ViaFcgi
  /\ fcgifd' \in WriteTargets
  /\ fcgifd' = "up"
  /\ requestId' = 1
  /\ cmds' = [cmds EXCEPT ![i] = Sent(@, requestId')]
  /\ inflight' = inflight \cup
       {[command |-> cmds[i].command, params |-> cmds[i].params,
         id |-> requestId']}
  /\ HandOver(i)
  /\ UNCHANGED arrivals

FcgiSend(i) ==
  /\ Fires(i)
  /\ ~cmds[i].dontexec
  /\ cmds[i].command \in ViaFcgi
  /\ fcgifd' \in WriteTargets
  /\ fcgifd' = "up"
  /\ requestId < MaxRequests
  /\ requestId' = requestId + 1
  /\ cmds' = [cmds EXCEPT ![i] = Sent(@, requestId')]
  /\ inflight' = inflight \cup
       {[command |-> cmds[i].command, params |-> cmds[i].params,
         id |-> requestId']}
  /\ HandOver(i)
  /\ UNCHANGED arrivals

\* The write succeeds on a descriptor that is now some client's socket.
FcgiSendAstray(i) ==
  /\ Fires(i)
  /\ ~cmds[i].dontexec
  /\ cmds[i].command \in ViaFcgi
  /\ fcgifd = "client"
  /\ cmds' = [cmds EXCEPT ![i] = Sent(@, Unanswerable)]
  /\ UNCHANGED <<requestId, fcgifd, inflight, arrivals, owed, credit>>

\* No connection, or the write fails: the timer is armed again (1 or 8 s).
FcgiSendFails(i) ==
  /\ Fires(i)
  /\ ~cmds[i].dontexec
  /\ cmds[i].command \in ViaFcgi
  /\ fcgifd' \in WriteTargets
  /\ \/ fcgifd' \in {"closed", "stale", "broken"}
     \/ fcgifd' = "up" /\ "write" \in Faults
  /\ cmds' = [cmds EXCEPT ![i].requestId = Unanswerable]
  /\ UNCHANGED <<requestId, inflight, arrivals, owed, credit>>

\* Mutant: an aggregated entry is not held off after it ran.
ShellRunNotHeld(i) ==
  /\ Fires(i)
  /\ ~cmds[i].dontexec
  /\ cmds[i].command \notin ViaFcgi
  /\ cmds' = IF cmds[i].aggregate > 0 THEN cmds ELSE RemoveAt(cmds, i)
  /\ HandOver(i)
  /\ UNCHANGED <<requestId, fcgifd, inflight, arrivals>>

\* run_command_detailed: vfork and exec of /bin/sh.
ShellRun(i) ==
  /\ Fires(i)
  /\ ~cmds[i].dontexec
  /\ cmds[i].command \notin ViaFcgi
  /\ cmds' = IF cmds[i].aggregate > 0
             THEN [cmds EXCEPT ![i].dontexec = TRUE]
             ELSE RemoveAt(cmds, i)
  /\ HandOver(i)
  /\ UNCHANGED <<requestId, fcgifd, inflight, arrivals>>

\* vfork fails: logged, and the entry stays with nothing to wake it.
ShellRunFails(i) ==
  /\ "vfork" \in Faults
  /\ Fires(i)
  /\ ~cmds[i].dontexec
  /\ cmds[i].command \notin ViaFcgi
  /\ cmds' = [cmds EXCEPT ![i].timer = FALSE]
  /\ UNCHANGED <<requestId, fcgifd, inflight, arrivals, owed, credit>>

-----------------------------------------------------------------------------
(***************************************************************************)
(* socket_read_fcgi on an FCGI_END_REQUEST: the answer is matched, by the   *)
(* 16 bit number on the wire, with the first queued entry of that          *)
(* requestId.  Output records change nothing and are left out.             *)
(***************************************************************************)
AnsweredBy(r) ==
  {i \in DOMAIN cmds :
     /\ cmds[i].requestId = r.id % IdModulus
     /\ \A j \in DOMAIN cmds :
          j < i => cmds[j].requestId # r.id % IdModulus}

\* Mutant: the answered entry is not freed.
AnswerKeepsEntry(r) ==
  /\ fcgifd = "up"
  /\ r \in inflight
  /\ inflight' = inflight \ {r}
  /\ UNCHANGED <<cmds, requestId, fcgifd, arrivals, owed, credit>>

AnswerComplete(r) ==
  /\ fcgifd = "up"
  /\ r \in inflight
  /\ inflight' = inflight \ {r}
  /\ \/ /\ AnsweredBy(r) = {}
        /\ UNCHANGED cmds
     \/ \E i \in AnsweredBy(r) : cmds' = RemoveAt(cmds, i)
  /\ UNCHANGED <<requestId, fcgifd, arrivals, owed, credit>>

\* The server refuses (cannot multiplex, overloaded, unknown role): what it
\* was handed has not been done and is owed again.
AnswerRefused(r) ==
  /\ "refuse" \in Faults
  /\ fcgifd = "up"
  /\ r \in inflight
  /\ inflight' = inflight \ {r}
  /\ \/ /\ AnsweredBy(r) = {}
        /\ UNCHANGED cmds
     \/ \E i \in AnsweredBy(r) : cmds' = [cmds EXCEPT ![i].dontexec = FALSE]
  /\ owed' = owed \cup {<<r.command, r.params>>}
  /\ credit' = [credit EXCEPT ![r.command] = @ + 1]
  /\ UNCHANGED <<requestId, fcgifd, arrivals>>

\* The header is read but its body is not there yet: the record is dropped.
AnswerDropped(r) ==
  /\ "recv" \in Faults
  /\ fcgifd = "up"
  /\ r \in inflight
  /\ inflight' = inflight \ {r}
  /\ UNCHANGED <<cmds, requestId, fcgifd, arrivals, owed, credit>>

-----------------------------------------------------------------------------
(* The environment. *)

\* php-fpm goes away; end of file on the socket is read and ignored.
ConnectionBreaks ==
  /\ "break" \in Faults
  /\ fcgifd = "up"
  /\ fcgifd' = "broken"
  /\ inflight' = {}
  /\ UNCHANGED <<cmds, requestId, arrivals, owed, credit>>

\* accept() gives the freed number to a client, until its socket is closed.
ClientTakesNumber ==
  /\ fcgifd = "stale"
  /\ fcgifd' = "client"
  /\ UNCHANGED <<cmds, requestId, inflight, arrivals, owed, credit>>

ClientLeaves ==
  /\ fcgifd = "client"
  /\ fcgifd' = "stale"
  /\ UNCHANGED <<cmds, requestId, inflight, arrivals, owed, credit>>

\* The daemon dies; its monitor process executes it afresh.
Restart ==
  /\ "crash" \in Faults
  /\ cmds # << >>
  /\ cmds' = << >>
  /\ requestId' = 0
  /\ fcgifd' = "closed"
  /\ inflight' = {}
  /\ UNCHANGED <<arrivals, owed, credit>>

-----------------------------------------------------------------------------
TimerStep(i) ==
  Reap(i) \/ FcgiSend(i) \/ FcgiSendAstray(i) \/ FcgiSendFails(i)
          \/ ShellRun(i) \/ ShellRunFails(i)

Next ==
  \/ \E c \in Command : \E p \in Argument[c] :
       RunCommand(c, p) \/ RunCommandNoMemory(c, p)
  \/ \E i \in DOMAIN cmds : TimerStep(i)
  \/ \E r \in inflight :
       AnswerComplete(r) \/ AnswerRefused(r) \/ AnswerDropped(r)
  \/ ConnectionBreaks
  \/ ClientTakesNumber
  \/ ClientLeaves
  \/ Restart

Spec == Init /\ [][Next]_vars

\* libevent runs every timer that is due, and the server answers what it got.
TimerOf(c) == \E i \in DOMAIN cmds : cmds[i].command = c /\ TimerStep(i)
Answer == \E r \in inflight : AnswerComplete(r)

Fairness ==
  /\ \A c \in Command : WF_vars(TimerOf(c))
  /\ WF_vars(Answer)

FairSpec == Spec /\ Fairness

-----------------------------------------------------------------------------
(* Properties. *)

\* Every variable keeps its type; the queue's entries are struct runq records.
TypeOK ==
  /\ cmds \in Seq(Entry)
  /\ requestId \in Nat
  /\ fcgifd \in Descriptor
  /\ inflight \in SUBSET Request
  /\ arrivals \in Nat
  /\ owed \in SUBSET (Command \X Params)
  /\ credit \in [Command -> Int]

\* run_command keeps at most two entries of an AGGREGATE script, and the one
\* nearer the head is the one with aggregate 2: were they ever the other way
\* round, the scan would sum to 3 and silently drop the request.
AggregationOrder ==
  /\ \A i \in DOMAIN cmds :
       cmds[i].aggregate \in IF cmds[i].command \in Aggregated THEN {1, 2} ELSE {0}
  /\ \A i, j \in DOMAIN cmds :
       /\ i < j
       /\ cmds[i].command = cmds[j].command
       /\ cmds[i].command \in Aggregated
       => cmds[i].aggregate = 2 /\ cmds[j].aggregate = 1

\* run_command's scan as the loop the code writes: `aggregate', the sum over the
\* entries of the script, after the first n entries of the queue.
LoopSum(c, n) ==
  LET sum[k \in 0..Len(cmds)] ==
        IF k = 0 THEN 0
        ELSE sum[k-1] + (IF k \in Matching(c) THEN cmds[k].aggregate ELSE 0)
  IN sum[n]

\* The closed form used for the scan finds the entry, the sum and the new entry's
\* aggregate that the loop of run_command finds.
ScanAgreesWithLoop ==
  \A c \in Command :
    /\ \A i \in DOMAIN cmds :
         ScanStopsAt(c, i) <=>
           /\ LoopSum(c, i) > 1
           /\ \A j \in 1..i-1 : LoopSum(c, j) <= 1
    /\ \A i \in DOMAIN cmds : ScanStopsAt(c, i) => AggregateAt(c, i) = LoopSum(c, i)
    /\ (\A i \in DOMAIN cmds : ~ScanStopsAt(c, i)) /\ c \in Aggregated =>
         \A p \in Argument[c] :
           NewEntry(c, p).aggregate = LoopSum(c, Len(cmds)) + 1

\* An entry held off after its run always has the timer that will reap it,
\* so no finished entry absorbs requests for ever; only aggregated entries
\* are held off.
HoldOffsExpire ==
  \A i \in DOMAIN cmds :
    cmds[i].dontexec => cmds[i].timer /\ cmds[i].aggregate > 0

\* An entry without a timer can only be freed by the answer to its request, so
\* that request must still be with the server.
ParkedEntriesAwaitAnswer ==
  \A i \in DOMAIN cmds :
    ~cmds[i].timer => \E r \in inflight : /\ r.id = cmds[i].requestId
                                         /\ EventOf(cmds[i]) = <<r.command, r.params>>

\* Coalescing only ever saves runs: the runs still queued for a script never
\* exceed the requests (and refusals) that asked for them.
NeverRunsMoreThanAsked ==
  \A c \in Command :
    Cardinality({i \in DOMAIN cmds : cmds[i].command = c /\ Pending(cmds[i])})
      <= credit[c]

\* "The event is not lost" (the comment in run_command): an event the client
\* was told OK for, and that was not handed over since, is still queued.
NoEventLost == \A ev \in owed : Covered(ev)

\* A shell entry that lost its timer to a failing vfork.
Stranded(i) == i \in DOMAIN cmds /\ cmds[i].command \notin ViaFcgi /\ ~cmds[i].timer

\* An accepted event goes unserved only because calloc fails for its own request,
\* by reading an answer, by a vfork that fails or has failed, by a request written
\* to a client's socket, or by a restart of the daemon: no other request, timer or
\* failed send loses one.
EventsAreLostFiveWays ==
  [][ \A ev \in owed' :
        (ev \notin owed \/ Covered(ev)) /\ ~Covered(ev)'
          => \/ RunCommandNoMemory(ev[1], ev[2])
             \/ \E r \in inflight : inflight' = inflight \ {r}
             \/ \E i \in DOMAIN cmds :
                  ShellRunFails(i) \/ Stranded(i) \/ FcgiSendAstray(i)
             \/ Restart ]_vars

\* An answer frees the entry whose request it answers and no other.
AnswersFreeTheirOwnEntry ==
  [][ \A r \in inflight :
        AnswerComplete(r) =>
          \A i \in AnsweredBy(r) :
             EventOf(cmds[i]) = <<r.command, r.params>> /\ cmds[i].requestId > 0 ]_vars

\* Every accepted event is eventually handed to the server or to the shell.
EventsAreHandedOver ==
  \A c \in Command : \A p \in Argument[c] : <<c, p>> \in owed ~> <<c, p>> \notin owed

\* The abstract service over this queue: a run is scheduled for an event while
\* a pending entry carries it.
Events == UNION {{<<c, p>> : p \in Argument[c]} : c \in Command}
Queued ==
  [ev \in Events |->
     Cardinality({i \in DOMAIN cmds : Pending(cmds[i]) /\ EventOf(cmds[i]) = ev})]

Service == INSTANCE ReloadService WITH Event <- Events, queued <- Queued

\* The queue implements the service: every accepted event is followed by a run
\* and no run begins that was not scheduled by an event.
ImplementsService == Service!ServiceSpec

=============================================================================
