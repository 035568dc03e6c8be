----------------------------- MODULE Classifyd -----------------------------
(***************************************************************************)
(* ipfw-classifyd takes packets from one divert(4) socket, looks for the   *)
(* protocol of their flow and writes them to another (classifyd.c).  A     *)
(* thread classifies and queues, one writes, one keeps a copy of the time  *)
(* in t_time, and one forgets silent flows and rereads the configuration.  *)
(* Packet memory comes from a stack of fixed size.                         *)
(*                                                                         *)
(* A packet is its number in the order of arrival.  The flow table is one  *)
(* chain of it; packets of no flow, or of another chain, are `Other`.      *)
(* Time is counted in the ten seconds between two readings of the clock    *)
(* and is relative: an age or a lag is how far something lies behind, and  *)
(* `Cap` stands for anything older than matters.  A thread that is due     *)
(* runs before time goes on.  What is matched with what, the port that     *)
(* carries the result and the growth of the table are left out.            *)
(***************************************************************************)
EXTENDS Integers, Sequences, FiniteSets

CONSTANTS
  Flow,        \* flows of the chain
  Other,       \* a packet that concerns no flow of the chain
  QMax,        \* fq_maxsz, the option -q
  StackSize,   \* IC_PKTSTACKSZ
  Expire,      \* time_expire, the option -e
  MaxPackets   \* bound: packets that arrive

ASSUME ClassifydAssumption ==
  /\ Other \notin Flow
  /\ QMax \in Nat /\ StackSize \in Nat /\ Expire \in Nat \ {0}
  /\ MaxPackets \in Nat

GarbagePeriod == 3
Cap == Expire + 2

VARIABLES
  pool,      \* ps_size, the free packets of the stack
  cpc,       \* where classify_pthread is
  cflow,     \* the flow of its packet
  arrived,   \* number of the packet received last
  queue,     \* outQ from its tail on: the oldest packet first
  wpc,       \* where write_pthread is
  pkts,      \* its list of packets, the oldest first
  last,      \* history: the packet given to sendto last
  chain,     \* the entries of the chain, each with the age of its stamp
  lag,       \* by how much t_time is behind
  clockdue,  \* is the clock thread about to read the time?
  gpc,       \* where garbage_pthread is
  rest,      \* how many entries its walk has still to look at
  due,       \* time to its next wakeup
  hup,       \* reconfigure_protocols
  unread,    \* history: was a SIGHUP that met no rereading followed by none?
  silent     \* history: time since the last packet of a flow was counted

stackVars == <<pool>>
classifyVars == <<cpc, cflow, arrived>>
writeVars == <<wpc, pkts, last>>
timeVars == <<lag, clockdue>>
garbageVars == <<gpc, rest, due>>
confVars == <<hup, unread>>
vars == <<stackVars, classifyVars, queue, writeVars, chain, timeVars, garbageVars, confVars, silent>>

Entry == [flow : Flow, age : 0..Cap]
Min2(a, b) == IF a < b THEN a ELSE b
Older(age) == Min2(age + 1, Cap)

\* Mutant: pktmem_init allocates one packet less.
FilledOneShort == IF StackSize = 0 THEN 0 ELSE StackSize - 1
Filled == StackSize

(* main; t_time is 0 until the clock thread has run. *)
Init ==
  /\ pool = Filled
  /\ cpc = "pop" /\ cflow = Other /\ arrived = 0
  /\ queue = <<>>
  /\ wpc = "look" /\ pkts = <<>> /\ last = 0
  /\ chain = <<>>
  /\ lag = Cap /\ clockdue = TRUE
  /\ gpc = "sleep" /\ rest = 0 /\ due = GarbagePeriod
  /\ hup = FALSE /\ unread = FALSE
  /\ silent = [f \in Flow |-> Cap]

(***************************************************************************)
(* pktmem_pop removes the head of the list before it looks at it, so an    *)
(* empty stack ends the program; pktmem_push frees what does not fit.      *)
(***************************************************************************)
Pushed(size) == IF size < StackSize THEN size + 1 ELSE size

Pop ==
  /\ cpc = "pop"
  /\ IF pool > 0
     THEN pool' = pool - 1 /\ cpc' = "recv"
     ELSE pool' = pool /\ cpc' = "crashed"
  /\ UNCHANGED <<cflow, arrived, queue, writeVars, chain, timeVars, garbageVars, confVars, silent>>

Drop ==
  /\ cpc' = "pop"
  /\ pool' = Pushed(pool)

InChain(f) == \E i \in DOMAIN chain : chain[i].flow = f

(* recvfrom, and the search for the flow. *)
Receive ==
  /\ cpc = "recv"
  /\ arrived < MaxPackets
  /\ arrived' = arrived + 1
  /\ \E f \in Flow \cup {Other} :
       /\ cflow' = f
       /\ cpc' = IF f = Other THEN "test" ELSE IF InChain(f) THEN "found" ELSE "new"
  /\ UNCHANGED <<stackVars, queue, writeVars, chain, timeVars, garbageVars, confVars, silent>>

(* No memory for the flow, its key or its data. *)
NoMemory ==
  /\ cpc \in {"new", "found"}
  /\ Drop
  /\ UNCHANGED <<cflow, arrived, queue, writeVars, chain, timeVars, garbageVars, confVars, silent>>

(***************************************************************************)
(* hashtable_insert puts the entry at the head.  Its expire is what malloc *)
(* left there until the flow is stamped.                                   *)
(***************************************************************************)
Insert ==
  /\ cpc = "new"
  /\ \E age \in {0, Cap} : chain' = <<[flow |-> cflow, age |-> age]>> \o chain
  /\ cpc' = "added"
  /\ UNCHANGED <<stackVars, cflow, arrived, queue, writeVars, timeVars, garbageVars, confVars, silent>>

(* A flow that was freed meanwhile is stamped all the same, to no effect. *)
Stamp ==
  /\ cpc \in {"found", "added"}
  /\ chain' = [i \in DOMAIN chain |->
                IF chain[i].flow = cflow THEN [chain[i] EXCEPT !.age = lag] ELSE chain[i]]
  /\ silent' = IF InChain(cflow) THEN [silent EXCEPT ![cflow] = 0] ELSE silent
  /\ cpc' = "test"
  /\ UNCHANGED <<stackVars, cflow, arrived, queue, writeVars, timeVars, garbageVars, confVars>>

(***************************************************************************)
(* The size of outQ is read without its lock.  The packet then goes to the *)
(* head of outQ, and the writer is woken.                                  *)
(***************************************************************************)
\* Mutants: the newest packet is taken first; a first packet wakes nobody.
Full == Len(queue) >= QMax
QueuedFirst == <<arrived>> \o queue
Queued == Append(queue, arrived)
SignalledUnlessFirst == IF wpc = "asleep" /\ queue # <<>> THEN "look" ELSE wpc
Signalled == IF wpc = "asleep" THEN "look" ELSE wpc

Test ==
  /\ cpc = "test"
  /\ IF Full THEN Drop ELSE cpc' = "enqueue" /\ pool' = pool
  /\ UNCHANGED <<cflow, arrived, queue, writeVars, chain, timeVars, garbageVars, confVars, silent>>

Enqueue ==
  /\ cpc = "enqueue"
  /\ queue' = Queued
  /\ wpc' = Signalled
  /\ cpc' = "pop"
  /\ UNCHANGED <<stackVars, cflow, arrived, pkts, last, chain, timeVars, garbageVars, confVars, silent>>

(***************************************************************************)
(* write_pthread takes all of outQ under its lock or waits for a signal,   *)
(* and then sends what it took; a packet is given back also when sendto    *)
(* fails.                                                                  *)
(***************************************************************************)
Look ==
  /\ wpc = "look"
  /\ wpc' = IF queue = <<>> THEN "asleep" ELSE "send"
  /\ pkts' = queue
  /\ queue' = <<>>
  /\ UNCHANGED <<stackVars, classifyVars, last, chain, timeVars, garbageVars, confVars, silent>>

Send ==
  /\ wpc = "send"
  /\ last' = Head(pkts)
  /\ pkts' = Tail(pkts)
  /\ wpc' = IF Tail(pkts) = <<>> THEN "look" ELSE "send"
  /\ pool' = Pushed(pool)
  /\ UNCHANGED <<classifyVars, queue, chain, timeVars, garbageVars, confVars, silent>>

(* classifyd_get_time. *)
ReadClock ==
  /\ clockdue
  /\ lag' = 0
  /\ clockdue' = FALSE
  /\ UNCHANGED <<stackVars, classifyVars, queue, writeVars, chain, garbageVars, confVars, silent>>

(***************************************************************************)
(* garbage_pthread sets t_time back by time_expire and walks the chain     *)
(* without a lock, to free the entries stamped earlier.  Freeing one makes *)
(* the entry after it the head of the chain: the entries before it are     *)
(* lost, expired or not, and with them what was inserted during the walk.  *)
(* Insertion is at the head, so what is left of the walk is counted from   *)
(* the end.                                                                *)
(***************************************************************************)
Wake ==
  /\ gpc = "sleep" /\ due = 0
  /\ lag' = Min2(lag + Expire, Cap)
  /\ gpc' = "walk"
  /\ UNCHANGED <<stackVars, classifyVars, queue, writeVars, chain, clockdue, rest, due, confVars, silent>>

BeginWalk ==
  /\ gpc = "walk"
  /\ rest' = Len(chain)
  /\ gpc' = IF chain = <<>> THEN "check" ELSE "sweep"
  /\ UNCHANGED <<stackVars, classifyVars, queue, writeVars, chain, timeVars, due, confVars, silent>>

At == Len(chain) - rest + 1
Expired == chain[At].age > lag

\* Mutant: the walk ends at the first entry that is kept.
StillToWalkWhileExpired == IF Expired THEN rest - 1 ELSE 0
StillToWalk == rest - 1

Sweep ==
  /\ gpc = "sweep"
  /\ chain' = IF Expired THEN SubSeq(chain, At + 1, Len(chain)) ELSE chain
  /\ rest' = StillToWalk
  /\ gpc' = IF StillToWalk = 0 THEN "check" ELSE "sweep"
  /\ UNCHANGED <<stackVars, classifyVars, queue, writeVars, timeVars, due, confVars, silent>>

(***************************************************************************)
(* reconfigure_protos runs if the flag of the signal handler is set, and   *)
(* the flag is cleared after it.                                           *)
(***************************************************************************)
\* Mutant: the flag is cleared whenever the thread wakes up.
CheckClearing ==
  /\ gpc = "check"
  /\ hup' = FALSE
  /\ gpc' = "sleep" /\ due' = GarbagePeriod
  /\ UNCHANGED <<stackVars, classifyVars, queue, writeVars, chain, timeVars, rest, unread, silent>>
Check ==
  /\ gpc = "check"
  /\ IF hup
     THEN gpc' = "reread" /\ unread' = FALSE /\ due' = due
     ELSE gpc' = "sleep" /\ unread' = unread /\ due' = GarbagePeriod
  /\ UNCHANGED <<stackVars, classifyVars, queue, writeVars, chain, timeVars, rest, hup, silent>>

Reread ==
  /\ gpc = "reread"
  /\ hup' = FALSE
  /\ gpc' = "sleep" /\ due' = GarbagePeriod
  /\ UNCHANGED <<stackVars, classifyVars, queue, writeVars, chain, timeVars, rest, unread, silent>>

(***************************************************************************)
(* The file changes and SIGHUP comes (handle_signal).  A garbage thread    *)
(* that takes the signal in its kevent makes a new kqueue and waits the    *)
(* whole period again.                                                     *)
(***************************************************************************)
Hangup ==
  /\ hup' = TRUE
  /\ unread' = (unread \/ gpc # "reread")
  /\ due' \in IF gpc = "sleep" THEN {due, GarbagePeriod} ELSE {due}
  /\ UNCHANGED <<stackVars, classifyVars, queue, writeVars, chain, timeVars, gpc, rest, silent>>

Tick ==
  /\ ~clockdue
  /\ gpc = "sleep" /\ due > 0
  /\ due' = due - 1
  /\ clockdue' = TRUE
  /\ lag' = Older(lag)
  /\ chain' = [i \in DOMAIN chain |-> [chain[i] EXCEPT !.age = Older(@)]]
  /\ silent' = [f \in Flow |-> Older(silent[f])]
  /\ UNCHANGED <<stackVars, classifyVars, queue, writeVars, gpc, rest, confVars>>

Classify == Pop \/ Receive \/ NoMemory \/ Insert \/ Stamp \/ Test \/ Enqueue
Write == Look \/ Send
Garbage == Wake \/ BeginWalk \/ Sweep \/ Check \/ Reread

Next == Classify \/ Write \/ ReadClock \/ Garbage \/ Hangup \/ Tick

Spec == Init /\ [][Next]_vars

TypeOK ==
  /\ pool \in 0..StackSize
  /\ cpc \in {"pop", "recv", "new", "found", "added", "test", "enqueue", "crashed"}
  /\ cflow \in Flow \cup {Other}
  /\ arrived \in 0..MaxPackets
  /\ queue \in Seq(1..MaxPackets) /\ pkts \in Seq(1..MaxPackets)
  /\ last \in 0..MaxPackets
  /\ wpc \in {"look", "asleep", "send"}
  /\ chain \in Seq(Entry)
  /\ lag \in 0..Cap /\ clockdue \in BOOLEAN
  /\ gpc \in {"sleep", "walk", "sweep", "check", "reread"} /\ rest \in Nat /\ due \in 0..GarbagePeriod
  /\ hup \in BOOLEAN /\ unread \in BOOLEAN
  /\ silent \in [Flow -> 0..Cap]

(***************************************************************************)
(* Packets leave in the order they came (write_pthread, enqueue:).         *)
(***************************************************************************)
Line == pkts \o queue \o (IF cpc \in {"pop", "recv", "crashed"} THEN <<>> ELSE <<arrived>>)
PacketsKeepOrder ==
  \A i, j \in DOMAIN Line : last < Line[i] /\ (i < j => Line[i] < Line[j])

(***************************************************************************)
(* The stack never runs out of packets when it holds more than twice the   *)
(* queue: the queue keeps its bound although the test of it is unlocked,   *)
(* the writer's list keeps it too, and every way out of classify_pthread   *)
(* and write_pthread gives the packet back.                                *)
(***************************************************************************)
PopsFindMemory == 2 * QMax < StackSize => cpc # "crashed"

(***************************************************************************)
(* The writer misses no signal: it does not sleep while a packet waits     *)
(* (pthread_cond_wait, pthread_cond_signal).                               *)
(***************************************************************************)
NoPacketIsForgotten == wpc = "asleep" => queue = <<>>

(***************************************************************************)
(* When the walk of garbage_pthread is over, the chain holds no flow that  *)
(* has been silent for longer than time_expire and the step of the clock,  *)
(* whichever of the threads that write t_time was last and whatever the    *)
(* classifier did to the chain meanwhile.  Only the flow that is just      *)
(* being inserted, whose stamp is not yet written, may look older.         *)
(***************************************************************************)
Unstamped(f) == cpc = "added" /\ f = cflow
Fresh(f) == Unstamped(f) \/ silent[f] <= Expire + 1
SilentFlowsGo == gpc = "check" => \A i \in DOMAIN chain : Fresh(chain[i].flow)

(***************************************************************************)
(* A file that a SIGHUP announced is in use or still flagged, unless the   *)
(* signal came while the one before it was being served: neither a wakeup  *)
(* for the timer nor a signal that restarts it loses the request           *)
(* (handle_signal, garbage_pthread).                                       *)
(***************************************************************************)
HangupsStayFlagged == unread => hup

(***************************************************************************)
(* "number of seconds before a flow is expired" (usage): a flow with       *)
(* packets in the last time_expire, less the step of the clock, is known.  *)
(***************************************************************************)
FlowsLast == \A f \in Flow : silent[f] < Expire - 1 => InChain(f)
=============================================================================
