----------------------------- MODULE DhcpLeases -----------------------------
(***************************************************************************)
(* dhcpleases copies the leases of dhcpd into the hosts file of the DNS    *)
(* server (dhcpleases.c).  It watches the lease file with a one-shot       *)
(* kevent, cuts the hosts file where the lines of others end, appends its  *)
(* own and sends SIGHUP to the server.  Whoever rewrites the hosts file    *)
(* sends SIGHUP to dhcpleases, whose handler takes the new size for the    *)
(* end of the lines of others.                                             *)
(*                                                                         *)
(* The content of a lease file is a version number.  A hosts file is a     *)
(* sequence of lines: lines of others carry the generation of the rewrite  *)
(* they are from, own lines the version of the leases; sizes are in lines. *)
(* The run in the foreground and the run of a command (-f, -c) are left    *)
(* out.                                                                    *)
(***************************************************************************)
EXTENDS Naturals, Sequences, FiniteSets

CONSTANTS
  MaxChanges,   \* bound: changes of the leases
  MaxRewrites,  \* bound: rewrites of the hosts file
  MaxBase,      \* bound: lines of others in the hosts file
  MaxStarts     \* bound: starts of the daemon

ASSUME DhcpLeasesAssumption ==
  /\ MaxChanges \in Nat /\ MaxRewrites \in Nat /\ MaxStarts \in Nat
  /\ MaxBase \in Nat \ {0}

VARIABLES
  vers,       \* content of every lease file there was; the last has the name
  leasefd,    \* the lease file the daemon has open
  knote,      \* is the kevent registered?
  fflags,     \* what happened to leasefd since
  pc,         \* where the daemon is
  leases,     \* version of the list of leases it has read
  hostssize,  \* where the lines of others end
  offset,     \* offset of the descriptor of the hosts file
  hosts,      \* the hosts file
  gen,        \* generation of the last rewrite of it
  hup,        \* is a SIGHUP on its way to the daemon?
  dnshup,     \* does the DNS server have a SIGHUP pending?
  dns,        \* the versions of the own lines it last read in the hosts file
  starts,     \* number of starts
  shown,      \* history: version last written to the hosts file
  owed,       \* history: version at the last change while the kevent was registered
  missed,     \* history: did the leases change unwatched since they were read?
  others,     \* history: the hosts file at the last rewrite or start, whichever was
              \* later: the lines that are not of the daemon that runs
  raced       \* history: was this daemon awake during the last rewrite, or before it
              \* had the signal?

leaseVars == <<vers, leasefd, knote, fflags, owed, missed>>
hostsVars == <<hosts, gen, others, raced>>
dnsVars == <<dnshup, dns>>
vars == <<leaseVars, pc, leases, hostssize, offset, hostsVars, hup, dnsVars, starts, shown>>

Current == Len(vers)
Version == vers[Current]
Base(g, k) == [i \in 1..k |-> [base |-> g]]
(* A heading and a line per lease; their number alternates. *)
Own(v) == [i \in 1..(1 + (v % 2)) |-> [own |-> v]]
Hole == [base |-> 0]
Min2(a, b) == IF a < b THEN a ELSE b

Init ==
  /\ vers = <<1>>
  /\ leasefd = 1 /\ knote = FALSE /\ fflags = {} /\ owed = 0 /\ missed = FALSE
  /\ pc = "gone"
  /\ leases = 0 /\ hostssize = 0 /\ offset = 0
  /\ gen = 1 /\ hosts \in {Base(1, k) : k \in 1..MaxBase} /\ others = hosts
  /\ raced = FALSE
  /\ hup = FALSE
  /\ dnshup = FALSE /\ dns = {}
  /\ starts = 0
  /\ shown = 0

(***************************************************************************)
(* main up to daemon(): whatever is in the hosts file is taken for the     *)
(* lines of others, also the own lines an earlier process left there.      *)
(***************************************************************************)
Start ==
  /\ pc = "gone"
  /\ starts < MaxStarts
  /\ starts' = starts + 1
  /\ hostssize' = Len(hosts)
  /\ pc' = "open"
  /\ others' = hosts
  /\ raced' = FALSE
  /\ UNCHANGED <<leaseVars, leases, offset, hosts, gen, hup, dnsVars, shown>>

(* reopen: the lease file by its name; the new kqueue has no kevent. *)
Open ==
  /\ pc = "open"
  /\ leasefd' = Current
  /\ knote' = FALSE
  /\ fflags' = {}
  /\ pc' = "load"
  /\ UNCHANGED <<vers, owed, missed, leases, hostssize, offset, hostsVars, hup, dnsVars, starts, shown>>

(* load_dhcp reads the open file from its start. *)
LoadDhcp ==
  /\ pc = "load"
  /\ leases' = vers[leasefd]
  /\ missed' = (missed /\ leasefd # Current)
  /\ pc' = "stat"
  /\ UNCHANGED <<vers, leasefd, knote, fflags, owed, hostssize, offset, hostsVars, hup, dnsVars, starts, shown>>

(***************************************************************************)
(* write_status: a file that is shorter than the lines of others is taken  *)
(* as it is; the file is cut, and the own lines written from the offset    *)
(* that was its end at the time of lseek.                                  *)
(***************************************************************************)
SizeAfter(len) == Min2(len, hostssize)

WriteStat ==
  /\ pc = "stat"
  /\ hostssize' = SizeAfter(Len(hosts))
  /\ pc' = "cut"
  /\ UNCHANGED <<leaseVars, leases, offset, hostsVars, hup, dnsVars, starts, shown>>

Truncated(f, k) == [i \in 1..k |-> IF i \in DOMAIN f THEN f[i] ELSE Hole]
WrittenAt(f, k, lines) ==
  [i \in 1..(IF Len(f) > k + Len(lines) THEN Len(f) ELSE k + Len(lines)) |->
    IF i - k \in DOMAIN lines THEN lines[i - k] ELSE IF i \in DOMAIN f THEN f[i] ELSE Hole]

WriteCut ==
  /\ pc = "cut"
  /\ hosts' = Truncated(hosts, hostssize)
  /\ pc' = "seek"
  /\ UNCHANGED <<leaseVars, leases, hostssize, offset, gen, others, raced, hup, dnsVars, starts, shown>>

WriteSeek ==
  /\ pc = "seek"
  /\ offset' = Len(hosts)
  /\ pc' = "write"
  /\ UNCHANGED <<leaseVars, leases, hostssize, hostsVars, hup, dnsVars, starts, shown>>

WriteLines ==
  /\ pc = "write"
  /\ hosts' = WrittenAt(hosts, offset, Own(leases))
  /\ shown' = leases
  /\ pc' = "tell"
  /\ UNCHANGED <<leaseVars, leases, hostssize, offset, gen, others, raced, hup, dnsVars, starts>>

\* Mutants: the server is told first; the event is registered once only.
SignalProcessFirst ==
  /\ pc = "tell"
  /\ pc' = "kevent"
  /\ UNCHANGED <<leaseVars, leases, hostssize, offset, hostsVars, hup, dnsVars, starts, shown>>
RegisterOnce ==
  /\ pc = "kevent"
  /\ knote' = (owed = 0)
  /\ fflags' = {}
  /\ pc' = "wait"
  /\ UNCHANGED <<vers, leasefd, owed, missed, leases, hostssize, offset, hostsVars, hup, dnsVars, starts, shown>>

(* cleanup and signal_process. *)
SignalProcess ==
  /\ pc = "tell"
  /\ dnshup' = TRUE
  /\ pc' = "kevent"
  /\ UNCHANGED <<leaseVars, leases, hostssize, offset, hostsVars, hup, dns, starts, shown>>

(* kevent registers the one-shot event anew and waits. *)
Register ==
  /\ pc = "kevent"
  /\ knote' = TRUE
  /\ fflags' = {}
  /\ pc' = "wait"
  /\ UNCHANGED <<vers, leasefd, owed, missed, leases, hostssize, offset, hostsVars, hup, dnsVars, starts, shown>>

(***************************************************************************)
(* The event is delivered and gone.  A file that is no longer the lease    *)
(* file is left for the one that has its name.                             *)
(***************************************************************************)
\* Mutant: a file that was replaced is read again.
NeverLost == FALSE
Lost == "gone" \in fflags

Deliver ==
  /\ pc = "wait"
  /\ fflags # {}
  /\ knote' = FALSE
  /\ fflags' = {}
  /\ pc' = IF Lost THEN "open" ELSE "load"
  /\ raced' = (raced \/ hup)
  /\ UNCHANGED <<vers, leasefd, owed, missed, leases, hostssize, offset, hosts, gen, others, hup, dnsVars, starts, shown>>

(***************************************************************************)
(* handle_signal, between any two steps.  A kevent that waits is           *)
(* interrupted, which the loop takes for an error of the queue: the lease  *)
(* file is closed, and its event with it, and opened again.                *)
(***************************************************************************)
\* Mutant: the handler keeps the old size.
HupSizeKept == hostssize
HupSize == Len(hosts)

HandleSighup ==
  /\ hup
  /\ hup' = FALSE
  /\ hostssize' = HupSize
  /\ IF pc = "wait"
     THEN pc' = "open" /\ knote' = FALSE /\ fflags' = {}
     ELSE UNCHANGED <<pc, knote, fflags>>
  /\ UNCHANGED <<vers, leasefd, owed, missed, leases, offset, hostsVars, dnsVars, starts, shown>>

HandleSigterm ==
  /\ pc # "gone"
  /\ starts < MaxStarts
  /\ pc' = "gone"
  /\ knote' = FALSE
  /\ fflags' = {}
  /\ hup' = FALSE
  /\ UNCHANGED <<vers, leasefd, owed, missed, leases, hostssize, offset, hostsVars, dnsVars, starts, shown>>

(***************************************************************************)
(* The world: dhcpd appends to the lease file or replaces it, the system   *)
(* rewrites the hosts file in place and then signals, the server reads.    *)
(***************************************************************************)
(* Is the daemon past the moment that would show it a change of leasefd?   *)
Unwatched == pc \in {"stat", "cut", "seek", "write", "tell", "kevent"}

Append1 ==
  /\ Version < MaxChanges
  /\ vers' = [vers EXCEPT ![Current] = @ + 1]
  /\ LET seen == knote /\ leasefd = Current IN
       /\ fflags' = IF seen THEN fflags \cup {"write"} ELSE fflags
       /\ owed' = IF seen THEN Version + 1 ELSE owed
       /\ missed' = (missed \/ Unwatched)
  /\ UNCHANGED <<leasefd, knote, pc, leases, hostssize, offset, hostsVars, hup, dnsVars, starts, shown>>

Replace ==
  /\ Version < MaxChanges
  /\ vers' = Append(vers, Version + 1)
  /\ LET seen == knote /\ leasefd = Current IN
       /\ fflags' = IF seen THEN fflags \cup {"gone"} ELSE fflags
       /\ owed' = IF seen THEN Version + 1 ELSE owed
       /\ missed' = (missed \/ Unwatched \/ pc = "load")
  /\ UNCHANGED <<leasefd, knote, pc, leases, hostssize, offset, hostsVars, hup, dnsVars, starts, shown>>

Rewrite ==
  /\ gen <= MaxRewrites
  /\ ~hup
  /\ gen' = gen + 1
  /\ hosts' \in {Base(gen', k) : k \in 1..MaxBase}
  /\ others' = hosts'
  /\ hup' = (pc # "gone")
  /\ raced' = (pc \notin {"wait", "gone"})
  /\ UNCHANGED <<leaseVars, pc, leases, hostssize, offset, dnsVars, starts, shown>>

DnsReads ==
  /\ dnshup
  /\ dnshup' = FALSE
  /\ dns' = {hosts[i].own : i \in {j \in DOMAIN hosts : "own" \in DOMAIN hosts[j]}}
  /\ UNCHANGED <<leaseVars, pc, leases, hostssize, offset, hostsVars, hup, starts, shown>>

Daemon ==
  \/ Open \/ LoadDhcp \/ WriteStat \/ WriteCut \/ WriteSeek \/ WriteLines
  \/ SignalProcess \/ Register \/ Deliver

Next ==
  \/ Daemon \/ HandleSighup \/ Start \/ HandleSigterm
  \/ Append1 \/ Replace \/ Rewrite \/ DnsReads

(* The daemon and the server run, and pending signals are delivered. *)
Fairness == WF_vars(Daemon) /\ WF_vars(HandleSighup) /\ WF_vars(DnsReads)

Spec == Init /\ [][Next]_vars /\ Fairness

Quiet == pc = "wait" /\ fflags = {} /\ ~hup

(***************************************************************************)
(* When the daemon sleeps, the hosts file is what it held at the last      *)
(* rewrite, or at the daemon's start if that was later, and the leases     *)
(* after it (write_status, handle_signal, main), unless the daemon was     *)
(* awake between the rewrite and its signal.  Own lines an earlier process *)
(* left are among what the file held at the start: they stay until the     *)
(* next rewrite.                                                           *)
(***************************************************************************)
HostsWhole == Quiet => raced \/ hosts = others \o Own(shown)

(***************************************************************************)
(* When the daemon sleeps it has shown the leases as they are, unless they *)
(* changed between its reading them and the registration of the one-shot   *)
(* event (main): no other change is missed, also not one that comes with a *)
(* new lease file or with a signal.                                        *)
(***************************************************************************)
ShownUnlessMissed == Quiet => missed \/ shown = Version

(***************************************************************************)
(* The server is told after the file was written (signal_process), so      *)
(* without a signal pending it has read what the daemon wrote last, unless *)
(* a rewrite met the daemon awake and took the lines away again.           *)
(***************************************************************************)
DnsKnows == Quiet /\ ~dnshup => raced \/ shown \in dns

(***************************************************************************)
(* A change the kernel reported is shown in the end (or the daemon ended). *)
(***************************************************************************)
ReportedIsShown ==
  \A v \in 1..MaxChanges : owed >= v ~> (shown >= v \/ pc = "gone")
=============================================================================
