------------------------------- MODULE Sasync -------------------------------
(***************************************************************************)
(* sasyncd keeps the IPsec SAs of a group of failover gateways alike.      *)
(* Every gateway runs one single-threaded daemon: it follows the state of  *)
(* a carp(4) interface (carp.c), tells its role to its peers over TCP      *)
(* (net.c, net_ctl.c), sends the changes of its kernel's SA database while *)
(* it is MASTER, and writes what the MASTER sends into its own kernel      *)
(* (pfkey.c).                                                              *)
(*                                                                         *)
(* A step is one handler of the loop of sasyncd_run, or a step of the      *)
(* world around it: carp elects, the kernel's database changes, a          *)
(* connection breaks, a daemon dies.  The handlers of one pass of a loop   *)
(* follow each other without steps of others, whose effects on what        *)
(* select() has already found ready would show in the next pass.           *)
(*                                                                         *)
(* A message is a record without its encryption; a connection is a pair of *)
(* FIFO channels.  SPD entries travel exactly as SAs do: members of Sa.    *)
(***************************************************************************)
EXTENDS Naturals, Sequences, FiniteSets, SequencesExt

CONSTANTS
  Node,         \* the gateways; each is a configured peer of all others
  Sa,           \* security associations and flows
  FlushMode,    \* flushmode of sasyncd.conf: "startup", "never" or "sync"
  CarpState,    \* what the interface may report; bound: FAIL may be left out
  Slot,         \* bound: connections remembered per initiator and acceptor
  MaxOps,       \* bound: changes of a kernel's database by others
  Troubles,     \* the kinds of trouble that happen, and
  MaxTroubles   \* bound: how many of them, all together

ASSUME SasyncAssumption ==
  /\ IsFiniteSet(Node)
  /\ {"SLAVE", "MASTER"} \subseteq CarpState /\ CarpState \subseteq {"SLAVE", "MASTER", "FAIL"}
  /\ FlushMode \in {"startup", "never", "sync"}
  /\ Troubles \subseteq {"flip", "refusal", "break", "death"}
  /\ MaxOps \in Nat /\ MaxTroubles \in Nat

VARIABLES
  up,       \* is the daemon running?
  carp,     \* what carp_get_state reports
  run,      \* cfgstate.runstate
  view,     \* runstate of each syncpeer
  snap,     \* pending pfkey_snapshot timers per peer
  sock,     \* socket of each syncpeer
  msgs,     \* msgs of each syncpeer
  todo,     \* the rest of what select() found ready, in the order of the loop
  backlog,  \* connections waiting for accept()
  shut,     \* the ends of a connection that are closed
  inbox,    \* what travels to each end of a connection
  promisc,  \* did pfkey_set_promisc ask the kernel for all messages?
  sadb,     \* the SA database of each kernel
  events,   \* messages waiting on the PF_KEY socket
  pfq,      \* pfkey_msglist
  left,     \* what the world may still do
  follows   \* history: a MASTER at rest sent a snapshot, nothing was lost since

nodeVars == <<up, carp, run>>
linkVars == <<sock, backlog, shut>>
dataVars == <<promisc, sadb, events, pfq>>
vars == <<up, carp, run, view, snap, sock, msgs, todo, backlog, shut, inbox,
          promisc, sadb, events, pfq, left, follows>>

Role == {"INIT", "SLAVE", "MASTER", "FAIL"}

(***************************************************************************)
(* An operation on a database, and a database after it.                    *)
(***************************************************************************)
Flush == [k |-> "flush"]
Op == [k : {"add", "del"}, s : Sa] \cup {Flush}
Do(db, op) == CASE op.k = "add" -> db \cup {op.s}
                [] op.k = "del" -> db \ {op.s}
                [] OTHER -> {}

State(r) == [t |-> "state", r |-> r]        \* CTL_STATE
Ack(r)   == [t |-> "ack", r |-> r]          \* CTL_ACK of a CTL_STATE
Error(o) == [t |-> "error", of |-> o]       \* CTL_ERROR
Data(op, r) == [t |-> "data", op |-> op,    \* MSG_PFKEYDATA; history: the role in
                by |-> r]                   \* which the sender queued it
Message  == {State(r) : r \in Role} \cup {Ack(r) : r \in Role}
              \cup {Error(o) : o \in {"state", "data"}} \cup {Data(op, r) : op \in Op, r \in Role}

(***************************************************************************)
(* Connections are named by initiator, acceptor and a slot; a slot that    *)
(* nobody refers to is used again.                                         *)
(***************************************************************************)
Conn == {c \in Node \X Node \X Slot : c[1] # c[2]}
NoConn == <<>>
Peer(n) == Node \ {n}
Other(c, n) == IF c[1] = n THEN c[2] ELSE c[1]
Refers(n, c) == sock[n][Other(c, n)] = c \/ c \in Range(backlog[n])
Free(n, p) == {k \in Slot : LET c == <<n, p, k>> IN ~Refers(n, c) /\ ~Refers(p, c)}
Fresh(n, p) == <<n, p, CHOOSE k \in Free(n, p) : TRUE>>
Quiet == [n \in Node |-> <<>>]

Init ==
  /\ up = [n \in Node |-> FALSE]
  /\ \E m \in Node : carp = [n \in Node |-> IF n = m THEN "MASTER" ELSE "SLAVE"]
  /\ run = [n \in Node |-> "INIT"]
  /\ view = [n \in Node |-> [p \in Peer(n) |-> "INIT"]]
  /\ snap = [n \in Node |-> [p \in Peer(n) |-> 0]]
  /\ sock = [n \in Node |-> [p \in Peer(n) |-> NoConn]]
  /\ msgs = [n \in Node |-> [p \in Peer(n) |-> <<>>]]
  /\ todo = <<>>
  /\ backlog = Quiet
  /\ shut = [c \in Conn |-> {}]
  /\ inbox = [c \in Conn |-> Quiet]
  /\ promisc = [n \in Node |-> FALSE]
  /\ sadb = [n \in Node |-> {}]
  /\ events = Quiet
  /\ pfq = Quiet
  /\ left = [ops |-> MaxOps, troubles |-> MaxTroubles]
  /\ follows = [n \in Node |-> [p \in Peer(n) |-> FALSE]]

(***************************************************************************)
(* sasyncd_run: the sockets select() finds ready, in the order in which    *)
(* the handlers go through them.  A socket that a handler of this pass     *)
(* replaces or closes is not in the sets and waits for the next pass.      *)
(***************************************************************************)
Ended(n, c) == inbox[c][n] = <<>> /\ Other(c, n) \in shut[c]
ForEach(n, h, peers) == [i \in 1..Cardinality(peers) |->
  LET p == SetToSeq(peers)[i] IN <<n, h, p, sock[n][p]>>]

Readable(n, p) == sock[n][p] # NoConn /\ (inbox[sock[n][p]][n] # <<>> \/ Ended(n, sock[n][p]))
Writable(n, p) == sock[n][p] # NoConn /\ msgs[n][p] # <<>>
Ready(n) ==
  (IF backlog[n] # <<>> THEN <<<<n, "accept">>>> ELSE <<>>)
  \o ForEach(n, "read", {p \in Peer(n) : Readable(n, p)})
  \o ForEach(n, "write", {p \in Peer(n) : Writable(n, p)})
  \o (IF events[n] # <<>> THEN <<<<n, "pfread">>>> ELSE <<>>)
  \o (IF pfq[n] # <<>> THEN <<<<n, "pfwrite">>>> ELSE <<>>)

Pass(n) == IF todo # <<>> THEN todo ELSE Ready(n)
Now(n, h) == up[n] /\ Pass(n) # <<>> /\ Head(Pass(n)) = h
Done(n) == todo' = SelectSeq(Tail(Pass(n)), LAMBDA h : Len(h) = 2 \/ sock'[n][h[3]] = h[4])
Idle(n) == up[n] /\ todo = <<>>      \* timers run at the end of a pass

(* A role change, a failed connect or write, a broken connection, a death. *)
Trouble(kind, k) ==
  /\ k > 0 => kind \in Troubles /\ left.troubles >= k
  /\ left' = [left EXCEPT !.troubles = @ - k]

(***************************************************************************)
(* net_queue to one peer: net_enqueue drops the message when the peer has  *)
(* no socket.  q is the queues so far.                                     *)
(***************************************************************************)
Enqueue(q, n, p, s) ==
  IF sock[n][p] = NoConn THEN q ELSE [q EXCEPT ![n][p] = @ \o s]

(***************************************************************************)
(* net_connect: a connection to every unconnected peer that answers, the   *)
(* role told to each, and a snapshot for it in two seconds if we are       *)
(* MASTER.  The peers in S answer; one that runs and does not is charged.  *)
(***************************************************************************)
Callable(n) == {p \in Peer(n) : sock[n][p] = NoConn /\ up[p] /\ Free(n, p) # {}}

Connect(n, S, role) ==
  /\ Trouble("refusal", Cardinality(Callable(n) \ S))
  /\ sock' = [sock EXCEPT ![n] = [p \in Peer(n) |-> IF p \in S THEN Fresh(n, p) ELSE @[p]]]
  /\ backlog' = [p \in Node |-> IF p \in S THEN Append(backlog[p], Fresh(n, p))
                                           ELSE backlog[p]]
  /\ snap' = IF role = "MASTER"
             THEN [snap EXCEPT ![n] = [p \in Peer(n) |-> IF p \in S THEN @[p] + 1 ELSE @[p]]]
             ELSE snap

(* What a call of net_connect, and the announcement after a change of role *)
(* (net_ctl_update_state), put on the queues of n.                         *)
Announce(q, n, S, role, changed) ==
  [q EXCEPT ![n] = [p \in Peer(n) |->
     @[p] \o (IF p \in S THEN <<State(role)>> ELSE <<>>)
          \o (IF changed /\ (p \in S \/ sock[n][p] # NoConn) THEN <<State(role)>> ELSE <<>>)]]

(***************************************************************************)
(* carp_check_state: take over the state of the interface; a new MASTER    *)
(* asks for all PF_KEY messages; peers are connected and told, those in    *)
(* "again" once more.                                                      *)
(***************************************************************************)
\* Mutant: the role is sent again whether it has changed or not.
CheckCarpAnswering(n, S, again) ==
  IF carp[n] = run[n]
  THEN /\ S = {}
       /\ msgs' = [msgs EXCEPT ![n] = [p \in Peer(n) |->
                     @[p] \o IF p \in again THEN <<State(run[n])>> ELSE <<>>]]
       /\ UNCHANGED <<run, promisc, left, sock, backlog, snap, follows>>
  ELSE /\ S \subseteq Callable(n)
       /\ run' = [run EXCEPT ![n] = carp[n]]
       /\ promisc' = [promisc EXCEPT ![n] = @ \/ carp[n] = "MASTER"]
       /\ Connect(n, S, carp[n])
       /\ msgs' = [Announce(msgs, n, S, carp[n], TRUE) EXCEPT ![n] =
                     [p \in Peer(n) |-> @[p] \o IF p \in again THEN <<State(carp[n])>> ELSE <<>>]]
       /\ follows' = [follows EXCEPT ![n] = [p \in Peer(n) |-> FALSE]]

CheckCarp(n, S, again) ==
  IF carp[n] = run[n]
  THEN /\ S = {}
       /\ UNCHANGED <<run, promisc, left, sock, backlog, snap, msgs, follows>>
  ELSE /\ S \subseteq Callable(n)
       /\ run' = [run EXCEPT ![n] = carp[n]]
       /\ promisc' = [promisc EXCEPT ![n] = @ \/ carp[n] = "MASTER"]
       /\ Connect(n, S, carp[n])
       /\ msgs' = [Announce(msgs, n, S, carp[n], TRUE) EXCEPT ![n] =
                     [p \in Peer(n) |-> @[p] \o IF p \in again THEN <<State(carp[n])>> ELSE <<>>]]
       /\ follows' = [follows EXCEPT ![n] = [p \in Peer(n) |-> FALSE]]

(* The timer of carp_state_tracker. *)
CarpTracker(n) ==
  /\ Idle(n)
  /\ carp[n] # run[n]
  /\ \E S \in SUBSET Callable(n) : CheckCarp(n, S, {})
  /\ UNCHANGED <<todo, up, carp, view, shut, inbox, sadb, events, pfq>>

(* The timer of net_check_peers, which renews itself. *)
\* Mutant: it does not.
PeersToCallAtStart(n) == IF run[n] = "INIT" THEN (SUBSET Callable(n)) \ {{}} ELSE {}
PeersToCall(n) == (SUBSET Callable(n)) \ {{}}

CheckPeers(n) ==
  /\ Idle(n)
  /\ \E S \in PeersToCall(n) :
       /\ Connect(n, S, run[n])
       /\ msgs' = Announce(msgs, n, S, run[n], FALSE)
  /\ UNCHANGED <<todo, nodeVars, view, shut, inbox, dataVars, follows>>

(***************************************************************************)
(* main: everything is fresh, carp_init refuses an interface in trouble,   *)
(* and net_init calls net_check_peers before the first look at carp.       *)
(***************************************************************************)
Start(n) ==
  /\ ~up[n] /\ todo = <<>>
  /\ carp[n] # "FAIL"
  /\ up' = [up EXCEPT ![n] = TRUE]
  /\ \E S \in SUBSET Callable(n) :
       /\ Connect(n, S, "INIT")
       /\ msgs' = Announce(msgs, n, S, "INIT", FALSE)
  /\ UNCHANGED <<todo, carp, run, view, shut, inbox, dataVars, follows>>

(***************************************************************************)
(* n lets go of its end of c: the kernel tells the other end if the socket *)
(* was closed, and keeps an open one that the program forgot.              *)
(***************************************************************************)
ShutAfter(c, n, closed) ==
  IF ~Refers(Other(c, n), c) THEN {} ELSE IF closed THEN shut[c] \cup {n} ELSE shut[c]
InboxAfter(c, n) ==
  IF Refers(Other(c, n), c) THEN [inbox[c] EXCEPT ![n] = <<>>] ELSE Quiet
LetGo(c, n, closed) ==
  IF c = NoConn THEN UNCHANGED <<shut, inbox>>
  ELSE /\ shut' = [shut EXCEPT ![c] = ShutAfter(c, n, closed)]
       /\ inbox' = [inbox EXCEPT ![c] = InboxAfter(c, n)]

(* A peer's socket goes: neither side's data surely reaches the other. *)
Unlinked(n, p) == [follows EXCEPT ![n][p] = FALSE, ![p][n] = FALSE]

(* net_accept: the connection replaces a socket the peer already has, which *)
(* stays open and is never read again.                                      *)
Accept(n) ==
  /\ Now(n, <<n, "accept">>) /\ backlog[n] # <<>>
  /\ LET c == Head(backlog[n])
         p == Other(c, n)
     IN /\ sock' = [sock EXCEPT ![n][p] = c]
        /\ snap' = IF run[n] = "MASTER" THEN [snap EXCEPT ![n][p] = @ + 1] ELSE snap
        /\ LetGo(sock[n][p], n, FALSE)
        /\ follows' = [Unlinked(n, p) EXCEPT ![p][n] = follows[p][n] /\ sock[p][n] = c]
  /\ backlog' = [backlog EXCEPT ![n] = Tail(@)]
  /\ UNCHANGED <<nodeVars, view, msgs, dataVars, left>>
  /\ Done(n)

(* net_disconnect_peer: the queue and the role of the peer are kept. *)
Disconnect(n, p) ==
  /\ sock' = [sock EXCEPT ![n][p] = NoConn]
  /\ LetGo(sock[n][p], n, TRUE)
  /\ follows' = Unlinked(n, p)
  /\ UNCHANGED backlog

(* net_read finds the end of the stream. *)
ReadEnd(n, p) ==
  /\ Now(n, <<n, "read", p, sock[n][p]>>)
  /\ sock[n][p] # NoConn /\ Ended(n, sock[n][p])
  /\ Disconnect(n, p)
  /\ UNCHANGED <<nodeVars, view, snap, msgs, dataVars, left>>
  /\ Done(n)

(***************************************************************************)
(* net_send_messages asks again for a socket and a message, as the other  *)
(* handlers do.  The first message of the queue leaves it, also when the   *)
(* write fails and the peer is disconnected.  What is written into a       *)
(* connection that nobody reads any more is lost.                          *)
(***************************************************************************)
Send(n, p) ==
  LET c == sock[n][p] IN
  /\ Now(n, <<n, "write", p, c>>) /\ Writable(n, p)
  /\ msgs' = [msgs EXCEPT ![n][p] = Tail(@)]
  /\ inbox' = IF Refers(p, c) /\ shut[c] = {}
              THEN [inbox EXCEPT ![c][p] = Append(@, Head(msgs[n][p]))]
              ELSE inbox
  /\ UNCHANGED <<nodeVars, view, snap, linkVars, dataVars, left, follows>>
  /\ Done(n)

SendFails(n, p) ==
  /\ Now(n, <<n, "write", p, sock[n][p]>>) /\ Writable(n, p)
  /\ \/ shut[sock[n][p]] # {} /\ UNCHANGED left
     \/ Trouble("break", 1)
  /\ msgs' = [msgs EXCEPT ![n][p] = Tail(@)]
  /\ Disconnect(n, p)
  /\ UNCHANGED <<nodeVars, view, snap, dataVars>>
  /\ Done(n)

(***************************************************************************)
(* net_handle_messages reads one message of a peer and answers it.         *)
(***************************************************************************)
Incoming(n, p) == inbox[sock[n][p]][n]

Take(n, p) ==
  /\ Now(n, <<n, "read", p, sock[n][p]>>)
  /\ sock[n][p] # NoConn /\ Incoming(n, p) # <<>>
  /\ inbox' = [inbox EXCEPT ![sock[n][p]][n] = Tail(@)]

(* net_ctl_check_state: two MASTERs cannot both be right. *)
Contradicts(n, r) == run[n] = "MASTER" /\ r = "MASTER"
Believe(n, p, r) ==
  view' = IF Contradicts(n, r) THEN view ELSE [view EXCEPT ![n][p] = r]

(* A CTL_STATE is answered by our own role, or by an error. *)
\* Mutant: only a contradiction is answered.
ReplyUnacked(n, r) == IF Contradicts(n, r) THEN <<Error("state")>> ELSE <<>>
Reply(n, r) == IF Contradicts(n, r) THEN <<Error("state")>> ELSE <<Ack(run[n])>>

HandleState(n, p) ==
  /\ Take(n, p)
  /\ LET m == Head(Incoming(n, p)) IN
       /\ m.t = "state"
       /\ Believe(n, p, m.r)
       /\ msgs' = Enqueue(msgs, n, p, Reply(n, m.r))
  /\ UNCHANGED <<nodeVars, snap, linkVars, dataVars, left, follows>>
  /\ Done(n)

HandleAck(n, p) ==
  /\ Take(n, p)
  /\ LET m == Head(Incoming(n, p)) IN
       /\ m.t = "ack"
       /\ Believe(n, p, m.r)
       /\ msgs' = IF Contradicts(n, m.r) THEN Enqueue(msgs, n, p, <<Error("state")>>) ELSE msgs
  /\ UNCHANGED <<nodeVars, snap, linkVars, dataVars, left, follows>>
  /\ Done(n)

(* A CTL_ERROR about our role makes us look at carp at once; a change is    *)
(* announced to all and then to the peer that complained.  Other errors are *)
(* ignored.                                                                 *)
HandleError(n, p) ==
  /\ Take(n, p)
  /\ LET m == Head(Incoming(n, p)) IN
       /\ m.t = "error"
       /\ IF m.of = "state"
          THEN \E S \in SUBSET Callable(n) : CheckCarp(n, S, {p})
          ELSE UNCHANGED <<run, promisc, left, sock, backlog, snap, msgs, follows>>
  /\ UNCHANGED <<up, carp, view, shut, sadb, events, pfq>>
  /\ Done(n)

(***************************************************************************)
(* MSG_PFKEYDATA is taken from a MASTER by one who is not, whatever the    *)
(* MASTER's role was when it was sent; else it is dropped and answered.    *)
(***************************************************************************)
\* Mutant of pfkey_queue_message: SIMPLEQ_INSERT_HEAD.
QueuedAtHead(n, op) == <<op>> \o pfq[n]
Queued(n, op) == Append(pfq[n], op)

\* Mutant: the last word of the peer about its role is not asked for.
TrustsAnyone(n, p) == run[n] # "MASTER"
Trusts(n, p) == view[n][p] = "MASTER" /\ run[n] # "MASTER"

HandleData(n, p) ==
  /\ Take(n, p)
  /\ LET m == Head(Incoming(n, p)) IN
       /\ m.t = "data"
       /\ IF Trusts(n, p)
          THEN /\ pfq' = [pfq EXCEPT ![n] = Queued(n, m.op)]
               /\ follows' = [q \in Node |-> [follows[q] EXCEPT ![n] = q = p /\ @]]
               /\ UNCHANGED msgs
          ELSE /\ msgs' = Enqueue(msgs, n, p, IF run[n] = "MASTER" THEN <<State("MASTER")>>
                                                                ELSE <<Error("data")>>)
               /\ follows' = [follows EXCEPT ![p][n] = FALSE]
               /\ UNCHANGED pfq
  /\ UNCHANGED <<nodeVars, view, snap, linkVars, promisc, sadb, events, left>>
  /\ Done(n)

(***************************************************************************)
(* The timer of pfkey_snapshot.  It fires for whatever role and socket we  *)
(* have by then.                                                           *)
(***************************************************************************)
Contents(db) == SetToSeq({[k |-> "add", s |-> s] : s \in db})
SnapshotOps(db) == (IF FlushMode = "startup" THEN <<Flush>> ELSE <<>>) \o Contents(db)
AsData(ops, r) == [i \in DOMAIN ops |-> Data(ops[i], r)]

(* A database after the operations that a sequence of messages carries. *)
After(db, s) ==
  LET at[i \in 0..Len(s)] == IF i = 0 THEN db
                             ELSE IF s[i].t = "data" THEN Do(at[i - 1], s[i].op) ELSE at[i - 1]
  IN  at[Len(s)]

(* Will p read what n writes to it? *)
Reaches(n, p) == /\ sock[n][p] # NoConn
                 /\ shut[sock[n][p]] = {}
                 /\ Refers(p, sock[n][p])

(* History: what n got as SLAVE has been written, and the events it has not *)
(* read yet are in its database.                                            *)
AtRest(n) == /\ pfq[n] = <<>>
             /\ After(sadb[n], AsData(events[n], "MASTER")) = sadb[n]

Snapshot(n, p) ==
  /\ Idle(n)
  /\ snap[n][p] > 0
  /\ snap' = [snap EXCEPT ![n][p] = @ - 1]
  /\ msgs' = Enqueue(msgs, n, p, AsData(SnapshotOps(sadb[n]), run[n]))
  /\ follows' = [follows EXCEPT ![n][p] =
                   @ \/ (FlushMode = "startup" /\ run[n] = "MASTER" /\ Reaches(n, p) /\ AtRest(n))]
  /\ UNCHANGED <<todo, nodeVars, view, linkVars, inbox, dataVars, left>>

(***************************************************************************)
(* pfkey_read: a MASTER passes what changed its kernel to all its peers,   *)
(* pfkey_msg_filter drops a flush in mode "never".                         *)
(***************************************************************************)
Synced(op) == op # Flush \/ FlushMode # "never"

PfkeyRead(n) ==
  /\ Now(n, <<n, "pfread">>) /\ events[n] # <<>>
  /\ events' = [events EXCEPT ![n] = Tail(@)]
  /\ LET op == Head(events[n]) IN
       msgs' = IF run[n] = "MASTER" /\ Synced(op)
               THEN [msgs EXCEPT ![n] = [p \in Peer(n) |->
                       IF sock[n][p] = NoConn THEN @[p] ELSE Append(@[p], Data(op, "MASTER"))]]
               ELSE msgs
  /\ UNCHANGED <<nodeVars, view, snap, linkVars, inbox, promisc, sadb, pfq, left, follows>>
  /\ Done(n)

(* pfkey_send_message: the kernel reports it back with our own pid, which  *)
(* pfkey_handle_message ignores.                                           *)
PfkeyWrite(n) ==
  /\ Now(n, <<n, "pfwrite">>) /\ pfq[n] # <<>>
  /\ sadb' = [sadb EXCEPT ![n] = Do(@, Head(pfq[n]))]
  /\ pfq' = [pfq EXCEPT ![n] = Tail(@)]
  /\ UNCHANGED <<nodeVars, view, snap, linkVars, msgs, inbox, promisc, events, left, follows>>
  /\ Done(n)

(***************************************************************************)
(* The world: carp elects, also two MASTERs while it is split; isakmpd on  *)
(* the carp MASTER changes its kernel's database.                          *)
(***************************************************************************)
Flip(n) ==
  /\ todo = <<>>
  /\ Trouble("flip", 1)
  /\ \E c \in CarpState \ {carp[n]} : carp' = [carp EXCEPT ![n] = c]
  /\ UNCHANGED <<todo, up, run, view, snap, sock, msgs, backlog, shut, inbox, dataVars, follows>>

KernelChange(n) ==
  /\ todo = <<>>
  /\ carp[n] = "MASTER"
  /\ left.ops > 0
  /\ left' = [left EXCEPT !.ops = @ - 1]
  /\ \E op \in Op :
       /\ Do(sadb[n], op) # sadb[n]
       /\ sadb' = [sadb EXCEPT ![n] = Do(@, op)]
       /\ events' = IF up[n] /\ promisc[n] THEN [events EXCEPT ![n] = Append(@, op)] ELSE events
  /\ follows' = [p \in Node |-> [follows[p] EXCEPT ![n] = FALSE]]
  /\ UNCHANGED <<todo, nodeVars, view, snap, linkVars, msgs, inbox, promisc, pfq>>

Linked(n, p) == sock[n][p] # NoConn /\ sock[n][p] = sock[p][n] /\ shut[sock[n][p]] = {}

(* The network or a firewall resets a connection. *)
Break(c) ==
  /\ todo = <<>>
  /\ Linked(c[1], c[2]) /\ sock[c[1]][c[2]] = c
  /\ shut[c] = {}
  /\ Trouble("break", 1)
  /\ shut' = [shut EXCEPT ![c] = {c[1], c[2]}]
  /\ inbox' = [inbox EXCEPT ![c] = Quiet]
  /\ follows' = Unlinked(c[1], c[2])
  /\ UNCHANGED <<todo, nodeVars, view, snap, sock, msgs, backlog, dataVars>>

(* A signal, SIGPIPE of a write to a closed connection among them, ends the *)
(* daemon; the kernel closes its sockets and keeps its database.            *)
Die(n) ==
  /\ todo = <<>>
  /\ up[n]
  /\ Trouble("death", 1)
  /\ LET Mine(c) == n \in {c[1], c[2]} /\ (Refers(n, c) \/ Refers(Other(c, n), c)) IN
       /\ shut' = [c \in Conn |-> IF Mine(c) THEN ShutAfter(c, n, TRUE) ELSE shut[c]]
       /\ inbox' = [c \in Conn |-> IF Mine(c) THEN InboxAfter(c, n) ELSE inbox[c]]
  /\ up' = [up EXCEPT ![n] = FALSE]
  /\ run' = [run EXCEPT ![n] = "INIT"]
  /\ view' = [view EXCEPT ![n] = [p \in Peer(n) |-> "INIT"]]
  /\ snap' = [snap EXCEPT ![n] = [p \in Peer(n) |-> 0]]
  /\ sock' = [sock EXCEPT ![n] = [p \in Peer(n) |-> NoConn]]
  /\ msgs' = [msgs EXCEPT ![n] = [p \in Peer(n) |-> <<>>]]
  /\ backlog' = [backlog EXCEPT ![n] = <<>>]
  /\ promisc' = [promisc EXCEPT ![n] = FALSE]
  /\ events' = [events EXCEPT ![n] = <<>>]
  /\ pfq' = [pfq EXCEPT ![n] = <<>>]
  /\ follows' = [p \in Node |-> [q \in Peer(p) |-> n \notin {p, q} /\ follows[p][q]]]
  /\ UNCHANGED <<todo, carp, sadb>>

(* One handler of the loop of sasyncd_run. *)
Daemon(n) ==
  \/ CarpTracker(n) \/ CheckPeers(n) \/ Accept(n) \/ PfkeyRead(n) \/ PfkeyWrite(n)
  \/ \E p \in Peer(n) :
       \/ ReadEnd(n, p) \/ Send(n, p) \/ SendFails(n, p) \/ Snapshot(n, p)
       \/ HandleState(n, p) \/ HandleAck(n, p) \/ HandleError(n, p) \/ HandleData(n, p)

World == \E n \in Node : Start(n) \/ Flip(n) \/ KernelChange(n) \/ Die(n)

Next == (\E n \in Node : Daemon(n)) \/ World \/ (\E c \in Conn : Break(c))

(* The loop runs: select() returns while a handler has something to do, and *)
(* a second later at most, when a timer is due.                             *)
Fairness == \A n \in Node : WF_vars(Daemon(n))

Spec == Init /\ [][Next]_vars /\ Fairness

(***************************************************************************)
(* Two daemons that use the same connection and have nothing left to tell  *)
(* each other know each other's role, though the messages cross role       *)
(* changes, lost connections, kept queues and restarts (net_ctl.c); two    *)
(* MASTERs never accept each other's word.                                 *)
(***************************************************************************)
Silent(n, p) == msgs[n][p] = <<>> /\ msgs[p][n] = <<>> /\ inbox[sock[n][p]] = Quiet
RolesKnown ==
  \A n \in Node : \A p \in Peer(n) :
    Linked(n, p) /\ Silent(n, p) /\ {run[n], run[p]} # {"MASTER"} => view[n][p] = run[p]

(***************************************************************************)
(* A peer that got a snapshot, and from whose connection nothing was lost, *)
(* ends with exactly the MASTER's database once everything on its way, in  *)
(* the queue of pfkey.c, the connection, the queue of net.c and the        *)
(* kernel's events, has been applied in that order.  The MASTER was at     *)
(* rest: a snapshot is taken of the kernel (pfkey_snapshot) and knows      *)
(* nothing of what the same daemon, SLAVE a moment ago, has still to write *)
(* into it; what it then writes is told to nobody.                         *)
(***************************************************************************)
Underway(n, p) ==
  AsData(pfq[p], "MASTER") \o inbox[sock[n][p]][p] \o msgs[n][p] \o AsData(events[n], "MASTER")
SlaveFollows ==
  \A n \in Node : \A p \in Peer(n) :
    follows[n][p] => After(sadb[p], Underway(n, p)) = sadb[n]

(***************************************************************************)
(* While no connection is lost, a kernel only gets what a MASTER sent as   *)
(* MASTER: the snapshot timer fires after the role is gone (net.c:511),    *)
(* but the change of role is ahead of what it sends.                       *)
(***************************************************************************)
OnlyMastersData ==
  \A n \in Node : \A p \in Peer(n) :
    sock[n][p] # NoConn /\ Incoming(n, p) # <<>> /\ Trusts(n, p) =>
      LET m == Head(Incoming(n, p)) IN m.t = "data" => m.by = "MASTER"

(***************************************************************************)
(* STATE, ACK and ERROR messages answer each other (net_ctl.c), yet no     *)
(* exchange of answers goes on for ever, also between two MASTERs.         *)
(***************************************************************************)
NothingUnderway ==
  \A n \in Node : \A p \in Peer(n) :
    up[n] /\ sock[n][p] # NoConn => msgs[n][p] = <<>> /\ inbox[sock[n][p]][n] = <<>>
MessagesDieOut == <>[]NothingUnderway

(***************************************************************************)
(* Daemons that keep running get a socket for each other again, whatever   *)
(* broke before (net_check_peers renews itself).                           *)
(***************************************************************************)
PeersReconnect == <>[](\A n \in Node : \A p \in Peer(n) : up[n] /\ up[p] => sock[n][p] # NoConn)

=============================================================================
