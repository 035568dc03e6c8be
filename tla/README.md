# Formal models of the pfSense daemons

The repository builds pfSense: shell scripts that assemble an image, FreeBSD
ports, patched kernel sources, and — under `src/pfPorts/` — the C daemons written
for pfSense itself. The scripts are sequential build drivers. The daemons are where
the program's own logic runs for months on a firewall: they queue reload requests,
track the addresses of host names, count failed logins, copy leases, classify
flows and replicate IPsec state; and carp decides which firewall of a group acts.
This directory holds TLA+ models of them, TLC configurations that check the models on
small instances, and TLAPS proofs of what holds for every instance.

    ReloadQueue  <- MCReloadQueue           check_reload_status: the run queue
        ^    |
        |    v
        |  ReloadService                    what the queue promises, abstractly
    ReloadQueue_proofs                      its shape, that no event is lost; numbers,
                                            runs, losses, the refinement
    CommandTree  <- MCCommandTree           check_reload_status: parsing a request
        ^
    CommandTree_proofs                      what it accepts, proved
    FilterDns    <- MCFilterDns             filterdns: threads, pf tables, SIGHUP
        ^
    FilterDns_proofs                        its thread list, tables and counts, proved
    SshLockout   <- MCSshLockout            sshlockout_pf: records of failed logins
        ^
    SshLockout_proofs                       that failures lock out, proved
    Sasync       <- MCSasync                sasyncd: peers, roles, replication
        ^
    Sasync_proofs                           what peers know and take over, proved
    DhcpLeases   <- MCDhcpLeases            dhcpleases: lease file to hosts file
        ^
    DhcpLeases_proofs                       what a sleeping daemon left, proved
    Classifyd    <- MCClassifyd             ipfw-classifyd: its four threads
        ^
    Classifyd_proofs                        its packets, flags and stamps, proved
    Carp         <- MCCarp                  carp(4): election and demotion
        ^
    Carp_proofs                             its routes, timers and count, proved

`A <- B`: B extends A with values for its constants. Each `.cfg` file names one
run of an `MC` module.

## 1. Inventory

### check_reload_status
`src/pfPorts/check_reload_status/files/check_reload_status.c`, `server.h`

*State.* The TAILQ `cmds` of `struct runq` (script, formatted params, request
number, aggregate, dontexec, libevent timer), the FastCGI descriptor `fcgifd`,
a request counter, the static command tables.
*Operations.* One libevent loop: accept a client and read its line
(`socket_read_command`, `parse_command`), queue a request (`run_command`), the
timer of an entry (`fcgi_send_command`, or `run_command_detailed` for a shell
command), a record from the FastCGI server (`socket_read_fcgi`). A monitor
process executes the daemon again when it dies.
*Interactions.* Clients (`pfSctl`, scripts, other daemons) write a line to a Unix
socket and get "OK" at once. The daemon multiplexes requests to php-fpm over
one FastCGI connection.
*Hard.* Requests for one script are coalesced while one is queued or was sent
less than 8 seconds ago; answers arrive later, carry 16 bits of the request
number, and may meet an entry that was re-armed meanwhile; every call can
fail; the client has been told OK long before.
*Correct when.* No accepted request is lost; the coalescing never runs a script
more often than asked; an entry is always freed in the end; answers free what
they answer; a malformed line is refused.

### filterdns
`src/pfPorts/filterdns/files/filterdns.c`, `filterdns.h`

*State.* `thread_list` of `struct thread_data` (host, table, `exit`, list of
addresses with reference counts, list of static addresses), the kernel's pf
tables, `main_lock`.
*Operations.* Per host a thread that resolves and updates its table
(`check_hostname`, `host_dns`), the merge of a new configuration by a signal
thread (`merge_config`), the end of a removed thread
(`clear_hostname_addresses`), SIGHUP and SIGTERM (`handle_signal`).
*Hard.* A pass holds `main_lock` for reading, the merge for writing, but the first
reading of the table, the end of a thread and the wait for SIGHUP run without
it; two hosts may resolve to the same address of the same table; ioctls are
tried three times and their failures added up.
*Correct when.* A table holds what its hosts resolve to, not less and in the end
not more; the list matches the file; nobody reaches freed memory; a reload
takes effect; removed threads end.

### sshlockout_pf
`src/pfPorts/sshlockout_pf/files/sshlockout_pf.c`

*State.* The TAILQ `lockouts` of failed attempts, newest first, `db_lock`, the two
pf tables.
*Operations.* The main thread reads log lines from syslogd and counts
(`doaction`); a second thread prunes day-old and inactive records every half
hour (`prune_24hour_records`).
*Hard.* Every attempt below the limit adds a record of its own; the record found is
marked after the lock was given back.
*Correct when.* MAXATTEMPTS failures block an address, fewer do not; the record
marked still exists.

### sasyncd
`src/pfPorts/sasyncd/`: `net.c`, `net_ctl.c`, `carp.c`, `pfkey.c`, `timer.c`, `sasyncd.c`

*State.* Per peer a socket, a queue of messages, the role it last told and the
snapshot timers; the own role; the queue of the PF_KEY socket; the listening
socket.
*Operations.* One loop over select(): accept, read a peer, write to a peer,
read and write PF_KEY, timers (carp state, reconnection, snapshots).
*Interactions.* Daemons talk to each other over TCP; each follows a carp interface
(modelled by itself in Carp) and reads and writes its kernel's SA database.
*Hard.* Roles change on both sides while messages and snapshots are under way;
both sides connect at once; a failing write takes its message with it; a snapshot
is sent two seconds after it was decided.
*Correct when.* A database is only written from a MASTER; a peer that got a snapshot
and lost nothing follows the MASTER's database; daemons that are connected and quiet
know each other's role; connections come back; answers do not go on for ever.

### dhcpleases
`src/pfPorts/dhcpleases/files/dhcpleases.c`

*State.* The open lease file with its one-shot kevent, the list of leases, the
size of the part of the hosts file that belongs to others.
*Operations.* Load, rewrite the tail of the hosts file, signal the DNS server,
wait; SIGHUP, SIGTERM.
*Interactions.* dhcpd appends to or replaces the lease file, the system rewrites the
hosts file and signals, dnsmasq reads it.
*Hard.* Changes between reading and registering; a signal handler that changes
the size between the main program's uses of it.
*Correct when.* The leases shown are the ones in the file; the lines of others
survive.

### ipfw-classifyd
`src/pfPorts/ipfw-classifyd/files/classifyd.c`, `hashtable.c`

*State.* A stack of packet buffers, the output queue with its lock and condition
variable, the flow table, the shared clock `t_time`, the flag of SIGHUP.
*Operations.* Four threads: classify, write, read the clock, collect garbage and
reread the configuration.
*Hard.* The bound of the queue is tested without its lock; three threads use the
clock and two write it; the table has no lock; the flag is cleared after the work.
*Correct when.* Buffers return to the stack; packets keep their order; the writer
misses no wakeup; a SIGHUP is served; silent flows are forgotten and others not.

### carp
`src/patches/misc/ip_carp.c`

*State.* A softc per virtual host id (INIT, BACKUP, MASTER, flags, two timers, error
counts), the parent's lock, and `carp_suppress_preempt` for the whole host.
*Operations.* Advertise, receive, time out, address set, link of the parent lost or
back, ifconfig up and down, state set by hand, destroy.
*Interactions.* Hosts exchange advertisements per id; a demotion by one interface is
announced through all, each under its own parent's lock.
*Hard.* A handler gives up its lock in the middle to announce; a timer that waits for
the lock cannot be stopped; advertisements are lost; outputs fail.
*Correct when.* A host counts its demotions exactly; an interface whose parent is up is
elected or waits for its turn; every id has one MASTER in the end.

### Not modelled
- **minicron** (`minicron.c`): a parent that restarts a helper; SIGTERM around `fork`
  can leave the helper running (`:98`).
- **dhcpleases6**: the loop of dhcpleases around another parser.
- **voucher** (`voucher.c`): packs roll and ticket numbers, magic number and
  checksum into an RSA block and back: a pure algorithm on big numbers.
- **clog** (`clog.c`): a circular log with an mmapped footer; its writer is in a
  patch of syslogd.

### Left out
Protocol clients without state (`fcgicli.c`, `pfSctl.c`), printers of kernel
counters and other one-loop tools (`qstats`, `pfStats`, `filterlog`, `blinkled`,
`cpustats`, `3gstat`, `log2lite`, `kbdcheck`, `alixresetbtn`), the PHP binding
(`pfSense.c`: one system call per function), the superseded
`check_reload_status_2.1`, the builder scripts (one process whose state is the
build host's disk), vendored ports and patches: openbgpd, pf (`pf.c`, `pf_ioctl.c`),
`dhclient.c` and the drivers under `src/patches/` are FreeBSD's and OpenBSD's
programs with small changes. They are most of the repository's lines, and what is
pfSense's own in them is a few lines each.

## 2. Modules and how they correspond to the code

### ReloadQueue
One action per callback of the event loop, which runs callbacks to completion.

| action | code |
|---|---|
| `RunCommand` (`Absorb`, `Enqueue`), `RunCommandNoMemory` | `run_command` |
| `Reap` | the `dontexec` test at the head of both timer callbacks |
| `FcgiSend`, `FcgiSendAstray`, `FcgiSendFails` | `fcgi_send_command` with `fcgi_open_socket` |
| `ShellRun`, `ShellRunFails` | `run_command_detailed` |
| `AnswerComplete`, `AnswerRefused`, `AnswerDropped` | `socket_read_fcgi` on FCGI_END_REQUEST |
| `ConnectionBreaks`, `ClientTakesNumber`, `ClientLeaves` | php-fpm and accept() |
| `Restart` | the monitor process of `main` |

`cmds` is the TAILQ as a sequence, head first. `fcgifd` says what the
descriptor's number designates: "stale" is a number that was closed after a
failed connect and kept, "client" the same number after accept() has given it to
a client. `inflight` holds the requests php-fpm has not answered. `owed` and
`credit` are history: events accepted and not handed over since, and hand-overs
asked for minus those done. Time is abstracted: an armed timer may fire at any
moment, in any order, which contains every order the 1, 5 and 8 second delays
allow. The scan of `run_command` sums `aggregate` along the list;
`HasEarlier`/`AggregateAt`/`ScanStopsAt` say in closed form where it stops, and
`ScanAgreesWithLoop` compares them with the loop, a recursive function, and section 4
proves that they agree.

An event is `owed` once its client has the "OK", whether or not there was memory for an
entry (`RunCommandNoMemory`). It is settled when a request is written to the server (or the shell is
started): what php-fpm then does is its own affair, except a refusal, which
makes the event owed again.

### ReloadService
The abstract service: `Ask` schedules a run or joins one that is scheduled,
`Begin` starts a scheduled run and settles the event. ReloadQueue instantiates
it as `Service` with `queued` counting the pending entries of an event (`Queued`);
`ImplementsService` is its specification, fairness included, and
`Service!ServiceSafety` the part without.

### CommandTree
`parse_command` one iteration a step, over the tables of `server.h`. A line is a
sequence of tokens in which "" is the empty token between two blanks, because
`socket_read_command` counts a token per separator while `argv` keeps only words:
the two counts are the hazard.

### FilterDns
| action | code |
|---|---|
| `Fetch` | `get_present_table_entries` |
| `Pass`, `PassUnresolved` | `host_dns` (`add_table_entry`, `filterdns_clean_table`, `pf_tableentry`) |
| `Leave`, `CleanLook`, `CleanDelete` | the end of `check_hostname`, `clear_hostname_addresses` |
| `ChangeConfig` | the file is replaced, `handle_signal(SIGHUP)` |
| `MergeBegin`, `MergeParse`, `MergeEnd` | `merge_config`, `clear_config` |

A pass runs under the read lock and is one step although passes of different
threads may overlap: two overlapping passes touch different threads' lists, and
of the shared table each deletes only addresses it tracks. The merge holds the
write lock; it is three steps because leaving threads, which hold no lock, can
see the list it has emptied. Every other lock-free section is a step of its own.
`threads` keeps a record for every `struct thread_data` ever made, also after it
was freed (`pc` = "gone"), so that a reference to freed memory is expressible.
`answer`, `left` and `victim` say what was resolved last and where a clean-up
stands. Left out: the ipfw and command kinds of a line, the netmask, `cmd`,
duplicate lines, SIGTERM, a /dev/pf that cannot be opened.

### SshLockout
`ReadFailure` and `ReadSuccess` are `doaction` up to its UNLOCK, `AddRecord` and
`LockOut` what follows, `Prune` the other thread, `Age` the passing of 24 hours
(records age from the tail, since `f_ts` only grows towards the head). `lockouts` is
a function from the number of the line a record was made for to the record: a line
makes one record at most, so the numbers tell records apart as their addresses do, and
as a record is put at the head, the TAILQ is its domain in descending order. "The
first record of the list such that" is then "the greatest number such that". `failed` and `counting` are history:
failures since the last success, and the addresses none of whose records was
refused by calloc or has aged. Left out: which log line means what
(`check_for_string`), the wording, the pf ioctl's failure.

### Sasync
| action | code |
|---|---|
| `CarpTracker`, `CheckPeers` | the timers `carp_state_tracker`, `net_check_peers`, with `net_connect` |
| `Accept`, `Disconnect`, `ReadEnd` | `net_accept`, `net_disconnect_peer`, the end of a connection in `net_handle_messages` |
| `Send`, `SendFails` | `net_send_messages` |
| `HandleState`, `HandleAck`, `HandleError` | `net_ctl_handle_msg` |
| `HandleData`, `PfkeyRead`, `PfkeyWrite` | `pfkey.c` |
| `Snapshot` | the timer of `pfkey_snapshot` |
| `Start`, `Die`, `Flip`, `KernelChange`, `Break` | `main`, `net_shutdown`, the world |

The handlers of one pass of the loop follow each other in the order of the code
(`todo`), without steps of other gateways between them. A connection is two FIFO
channels, kept apart from the others between the same two gateways by its initiator and a
`Slot`. `follows` is history: a MASTER at rest sent a snapshot and nothing was lost since. Left
out: encryption and malformed records, partial reads and writes, the privileged
monitor (a snapshot is read in one step), SKIP_LOCAL_SAS, several addresses to listen
on, failing allocations.

### DhcpLeases
One action per system call of the main loop that others can see (`Open`, `LoadDhcp`,
`WriteStat`, `WriteCut`, `WriteSeek`, `WriteLines`, `SignalProcess`, `Register`,
`Deliver`), the handlers `HandleSighup` and `HandleSigterm` between any two of them,
and the world (`Append1`, `Replace`, `Rewrite`, `DnsReads`). Files are sequences of
marked lines, lease files version numbers. `missed` and `raced` name two windows in
which the code does lose something: between a reading and the next registration, and
between a rewrite that meets the daemon awake and its signal. `others` is history too: what
the hosts file held at the last rewrite or, if that was later, at the start of the daemon.
It is what `fsize` takes for the lines of others (`:595`), own lines of an earlier process
included. Left out: the parsing and expiry of leases, `-f` and `-c`, a missing pid file.

### Classifyd
`Pop`, `Receive`, `Insert`, `Stamp`, `Test`, `Enqueue` (with `NoMemory`) are
`classify_pthread` between its accesses to shared memory, `Look` and `Send`
`write_pthread`, `ReadClock` the clock thread, `Wake`, `BeginWalk`, `Sweep`, `Check`,
`Reread` `garbage_pthread`: a `Sweep` is one entry of the walk (`At`), so flows are
inserted and stamped and the clock is set between any two of them. `rest` counts what the
walk has still to look at from the end of the chain, where nothing is inserted.
`Hangup` is the signal handler, `Tick` time. Time is relative: the
ages of stamps and the lag of `t_time` behind the clock, capped where they no longer
matter, so that the state space stays finite though the clock runs for ever. The
table is one chain of it, newest entry first. A stamp of a flow that was freed
meanwhile has no effect in the model; in the code it writes to freed memory. Left
out: what is matched with what, the port of the result, growth of the table, the
parser.

### Carp
A handler is a sequence of the calls the code makes (`Call`); what a handler finds and
changes is a record `y`. `carp_send_ad_all` is called with the lock given up: the
handler ends there, with the rest of its calls kept in `walks`, and `WalkOn` and
`WalkEnds` are the announcement to one interface after the other and the return.

| action | code |
|---|---|
| `SetAddr`, `SetFlags`, `SetVh`, `Destroy` | `carp_set_addr`, `carp_ioctl`, `carp_clone_destroy` |
| `LinkChanges`, `CarpdevState` | the parent's link, `carp_carpdev_state` in the link task |
| `AdExpires`, `SendAdTimer` | the timer `sc_ad_tmo` expires; `carp_send_ad` gets the lock |
| `MdExpires`, `MasterDownTimer` | `sc_md_tmo` and `carp_master_down` in the same way |
| `Input`, `Lose` | `carp_input_c`; an advertisement is lost |
| `WalkOn`, `WalkEnds` | `carp_send_ad_all` and what follows the call of it |

The model starts after an election. A master-down timer does not expire while a MASTER
is heard, unless advertisements are lost. Left out: IPv6, the removal of addresses,
`carpdetach`, authentication, ARP balancing, lookups, other values of advbase,
more than one processor changing the counter at once, and several carp interfaces on one
parent: the TAILQ_FOREACH over `vhif_vrs` in the link task (`ip_carp.c:2091`), whose body
gives up the lock, is one interface here.

## 3. Runs

All bounds are guards named in the module: `MaxEvents` and `MaxRequests`
(ReloadQueue), `MaxReloads`, `MaxPasses`, `MaxFailures` (FilterDns), `MaxLines`
(SshLockout), `MaxOps`, `MaxTroubles`, `Slot` (Sasync), `MaxChanges`, `MaxRewrites`,
`MaxBase`, `MaxStarts` (DhcpLeases), `MaxPackets` (Classifyd), `MaxTroubles` (Carp);
CommandTree is bounded by the length of a line. `CHECK_DEADLOCK FALSE` is given
because these bounds, and the end of a parse, leave states without a successor;
Carp, whose timers run for ever, is checked for deadlock.

| run | question |
|---|---|
| `ReloadFaults` | whatever fails, does the queue keep its shape, and in which ways can an event be lost? |
| `ReloadServed` | where nothing fails, is every event served, and does the queue implement the service? |
| `CommandTree` | are only complete commands accepted, with their argument? |
| `FilterDnsReloads` | do list, threads and file agree through reloads and failures? |
| `FilterDnsTables` | do the tables hold what the hosts resolve to while a host moves? |
| `Lockout` | do failures lock out, and do the two threads keep the records in order? |
| `Sasync` | does data only come from a MASTER, and does a peer follow it? |
| `SasyncLive` | do connections and the knowledge of roles survive troubles, and do answers end? |
| `DhcpLeases` | are leases shown, and the hosts file otherwise kept as it was, outside the two windows? |
| `Classifyd` | do packets, buffers, wakeups, SIGHUP and the table survive the interleaving of four threads? |
| `Carp` | does a host count its demotions, take part while it can, and does every id settle? |

- **ReloadFaults**: the three kinds of script (aggregated FastCGI, parameterised
  FastCGI, aggregated shell) and all nine faults. Three client requests: a sent
  entry (aggregate 1), a second one queued behind it (aggregate 2) and a third
  request that the scan absorbs; three requests to the server give an answer, a
  refusal and a repetition. `EventsAreLostFiveWays` is the central property: an
  accepted event stops being covered by a pending entry only by reading an
  answer, a vfork that fails or failed, a write to a client's socket, a restart, or a
  calloc that fails for its own entry. That one drops a request whose client has already
  read "OK" (`check_reload_status.c:459`, `:657`).
- **ReloadServed**: nothing fails; shell aggregation and parameterised FastCGI requests, four
  events and one number more than events, so that the bound on requests never
  stands in the way of progress. Checks no loss, that an entry without a timer
  always has its request at the server, liveness and the refinement.
- **CommandTree**: all lines of one to five tokens over ten words that reach every
  kind of table entry; the tables are four levels deep at most with an argument.
- **FilterDnsReloads**: one address suffices, since the properties are about
  threads; two reloads let a host be removed and added again while its first
  thread is still leaving. All faults, one failure.
- **FilterDnsTables**: three addresses of which one is static, two hosts of which
  one moves into the other's table, five passes: enough for an address to be
  found, counted down and deleted in one table while its host enters the other.
  getaddrinfo is called with NULL hints (`filterdns.c:382`) and lists an address once per
  socket type; here twice (`Repeats`), so counts do grow, fall and reach the deletion.
- **Lockout**: two addresses, both services, a limit of three, five lines: an
  address can be blocked, pruned and start again, and interleave with the other.
- **Sasync**: two gateways, one SA, one change of role and one change of a database,
  with FAIL as a possible state of carp and the default flush mode. Both may be MASTER
  for a while. The gateways are symmetric.
- **SasyncLive**: two gateways without data and one trouble of each kind: a role
  change, a refused connection, a broken one, a death. Crossed connections need no
  trouble. Liveness, so without symmetry.
- **DhcpLeases**: three versions of the leases, two rewrites of the hosts file to one or
  two lines and two starts: the file can shrink and grow under every state of the
  daemon, and two changes can meet in one window.
- **Classifyd**: two flows of one chain, a queue of two with a stack of five (the code
  has 2048 buffers and a queue of 256 by default), four packets, and time without end.
- **Carp**: two hosts with two ids and preemption, the second host slower, as pfSense sets up a
  backup. One trouble of any kind: a link that is lost (and comes back at any time, or
  not), failing outputs (the first is the trouble, the ones up to the limit follow
  it), a lost advertisement, another address, ifconfig up, down or a state by hand, no memory
  for an advertisement, a destroyed interface. The two limits on errors are 2 (the
  code has 3): with 1 every failure and success would be the last. With two troubles
  of any kind but "destroy" and without liveness there are 3 million states, and the
  invariants hold in them. So does `NoWalkInWalk`, which fails with three ("link", "failed"
  and "alias", with a limit of 1 on errors): an interface recovers while its failures still are
  announced, the count is 0 again, and the next interface of the list fails. Its
  first demotion calls `carp_send_ad_all` from within it (`ip_carp.c:826`), under the
  carp_mtx that is no recursive mutex (`:2138`).

### Where code and intent disagree
One run checks a property the repository states and shows a behaviour of the code
that breaks it.

| run | what happens |
|---|---|
| `ReloadLostByAnswer` | filter is sent; within the hold-off two more requests come, the last one re-arms the sent entry; the answer to the first run frees it (`check_reload_status.c:578`). |

Others were met on the way and can be seen by changing a configuration; they have
no run of their own:
- `NoEventLost` in a ReloadQueue with only "ifreload": a request for opt1 is absorbed
  by a queued one for wan, because the scan compares scripts and not params
  (`:448`); with "refuse" in `Faults`: the refused entry is cleared of dontexec but
  a parameterised one has no timer (`:585`); with `IdModulus` 2: an answer matches
  a younger entry (`:526`); with "vfork": the entry has no timer left (`:410`); with
  "calloc": `run_command` returns without an entry (`:459`) for a request that was
  answered with "OK" (`:657`).
- `ExtraWordsRefused` in CommandTree: "filter reload now" is accepted, since the
  count of remaining words is one too low (`:223`).
- `UnsharedAddressRunsOut` with "delete" in `Faults`: a deletion reported as failed
  leaves an entry with count 0, which the next pass decrements to 2^32 - 1
  (`filterdns.c:327`, `:353`). Where getaddrinfo lists an address r times, each pass that
  finds it adds r - 1 to its count (`:382`), and a pass that does not takes 1 away: an
  address seen in n passes outlives its disappearance by up to n(r - 1) passes. The
  property therefore says that it runs out, not that it leaves at once.
- `SharedAddressSurvives` with two reloads: a leaving thread looks at the list while
  a merge has emptied it, finds no other host and deletes a shared address
  (`:667`, `:715`). The property is checked with one reload, where no thread
  leaves during a merge.
- `AnswersAreInTable` where a host returns to a table its old thread is leaving: the new
  thread takes the old one's addresses for static ones and never adds them.
- `EventsAreHandedOver` in a ReloadQueue with only "filter", `Faults = {"connect"}` and
  `FairSpec`: one failed connect leaves a closed descriptor number in `fcgifd`; no later
  send reopens it (`check_reload_status.c:364`).
- `UnresolvedAddressRunsOut` in FilterDns (two hosts of one table, five passes): the
  search for another host with the address reads the asking thread's own list
  (`filterdns.c:302`), so in a shared table nothing is ever deleted.
- `ReloadTakesEffect` in FilterDns with two reloads: a SIGHUP during a merge signals a
  condition variable nobody waits on (`:722`). SIGTERM is handled by a thread that may
  hold `main_lock` for reading and then waits for the write lock (`:818`).
- `LockOutNeedsFailures` in SshLockout with `Ageing = FALSE` and six lines: a success
  counts as an attempt when the address has no record, and retires only the newest of
  several (`sshlockout_pf.c:304`, `:318`). At end of input main joins a thread that
  never ends (`:246`).
- `OnlyMastersData` in Sasync with `Troubles = {"flip", "break"}`, `MaxTroubles = 2` and
  `MaxOps = 0`: a failing write takes the message that would tell SLAVE with it
  (`net.c:596`), and a snapshot scheduled before (`:511`) is accepted (`pfkey.c:452` has
  no test of the own role). Seen in the model too: a daemon that connects in role INIT
  and becomes MASTER sends no snapshot over that connection, though sasyncd(8) says a
  MASTER does; crossed connections can leave each side writing to a socket that the
  other does not read.
- `SlaveFollows` in Sasync without `AtRest` in `Snapshot` and with three changes of role:
  a SLAVE that becomes MASTER with a PF_KEY message still in its queue takes a snapshot
  without it, then writes it into its kernel, and the kernel's report of its own pid is
  ignored (`pfkey.c:247`), so the peer never hears of it. The property therefore
  speaks of snapshots of a MASTER at rest: its queue written, and the events it has not
  read yet already in its kernel. In this form it is proved (`FollowersCatchUp`).
- `HostsWhole` and `ShownUnlessMissed` in DhcpLeases without `raced` and `missed`: a change
  of the leases between `load_dhcp` and the registration of the event is not seen
  (`dhcpleases.c:671`); a rewrite of the hosts file while the daemon is awake can cut
  lines of others or take own lines for theirs (`:407`-`:425`). A daemon that ends at SIGTERM
  leaves its lines (`:512`), and the next one takes them for lines of others (`:595`): they
  stay before its own until the next rewrite with its signal. `HostsWhole` does not hide
  this, it says that the file keeps what it held at the start. In states with `raced`
  `DnsKnows` says nothing either: the rewrite took the lines away that were written last. A SIGHUP ends kevent
  with EINTR, so the lease file is opened again and the old kqueue and FILE are lost
  (`:676`); the comment at `:636` promises a configuration file that there is none of.
- `FlowsLast` in Classifyd with `Expire = 3`: the garbage thread sets the shared clock back, the clock
  thread sets it right before the walk or during it, and flows seen a moment ago are freed
  (`classifyd.c:753`), although `-e` is the "number of seconds before a flow is expired"
  (`:980`). The removal of an entry also drops those before it in the chain
  (`:776`), one that was inserted during the walk included. With a queue of more than half the
  stack, `PopsFindMemory` has no premise, and `Pop` of an empty stack dereferences NULL.
  A SIGHUP during a rereading is lost (`:790`). The wakeup "every 5 seconds" is 30
  (`:735`). A stamp may go to a flow that has been freed (`:616`).
- `DemotionIsCounted` in Carp with `Overlap = {"addr"}`, a lost link and another address: `carp_set_addr`
  and the link task both find the parent down, and while the first one announces it the
  second counts again (`ip_carp.c:2110`): `carp_suppress_preempt` never returns to 0 and "the
  host will never get out of the carp supressing state" (`:413`). The same follows from
  destroying an interface that has failed to send too often ("failed" and "destroy", two
  troubles): only `sc_suppress` is taken back (`:414`).
- `UpTakesPart` in Carp with `Overlap = {"flap"}` and two lost links, or `Overlap = {"addr"}` and an address
  set before the link task saw a loss: a second down saves flags without IFF_UP
  (`:2102`) and the interface stays down when the parent is back; with "notag": an
  advertisement for which there is no tag does not set its timer again
  (`:920`). After ifconfig the property says nothing: an interface set up while its parent
  is down is MASTER there, and one set down while it is comes up with the link. A
  host demoted by its failing outputs that became BACKUP does not send, so it stays
  demoted. Two equal hosts both step down from equal advertisements (`:700`).

### Fairness
ReloadQueue: `WF(TimerOf(c))` for every script, because libevent runs every due
timer and entries of one script are finitely many; `WF(Answer)`, php-fpm answers
what it got. No fairness for clients, faults, or ClientTakesNumber. FilterDns:
`WF(Merge)` — the signal thread runs once woken, and pthreads' write lock is granted
in the end because readers release it and sleep — and `WF(Ends(t))`, the timed wait
of every thread ends. Passes and reloads are not fair. Sasync: `WF(Daemon(n))`, a
daemon whose loop has something to do does it; roles, troubles and restarts are not
fair. DhcpLeases: `WF(Daemon)`, `WF(HandleSighup)` and `WF(DnsReads)`: programs run
and pending signals are delivered. Carp: `WF` for announcements, input and the link task,
threads that get the locks they wait for; `SF` for each timer with its function,
since a timer that is set again and again expires in the end if nothing stops it for good.
CommandTree, SshLockout and Classifyd are checked for safety only.

Every property has a mutant in its module: an operator next to the definition it
would replace, named for the mistake, that breaks the property.

## 4. Proofs

Assumptions are those named in the modules (`QueueAssumption`, `LinesAssumption`,
`NullAssumption`, `FilterDnsAssumption`, `SshLockoutAssumption`, `ClassifydAssumption`,
`DhcpLeasesAssumption`, `SasyncAssumption`, `CarpAssumption`), which TLC evaluates in every run, and nothing else; a theorem that
holds only in a setting names it as its hypothesis. Type invariants are proved and not
run. Every inductive invariant was checked by TLC before it was proved.

**ReloadQueue_proofs.** The inductive invariant `QueueInv` is `TypeOK`,
`AggregationOrder` and `HoldOffsExpire` together: the order of two entries of a
script survives an insertion at the head only because a second entry is given
aggregate 2 and every queued one has 1 or 2, and that `Sent` arms the timer of
what it holds off needs the types. Three lemmas say what the queue's three
changes (remove, update in place, insert at the head) do to it; each action then
is one of them.

| theorem | says, for all constants |
|---|---|
| `QueueInvariant` | `QueueInv` holds in every reachable state |
| `TypeCorrect`, `QueueOrder`, `HoldOffsReaped` | its three parts |
| `EventsAreKept` | `SafeSetting => (Spec => []NoEventLost)` |

`SafeSetting` is where no event can be lost: FastCGI runs no aggregated script,
every aggregated script has one parameter string, request numbers have not
wrapped, no allocation, vfork or connect fails, the server refuses nothing and the daemon
is not restarted.
`KeptInv` adds to `QueueInv` what ties entries to answers: a pending entry has no
number an answer carries, an aggregated entry always has its timer, and every
request the server holds has a number already given out. Then an answer can
only free an entry that was handed over. Each clause is needed: section 3 names a
behaviour for every one that is dropped.

Six more arguments are over the same queue, each with an invariant of its own beside
`QueueInv`.

| theorem | says, for all scripts, clients and bounds | where |
|---|---|---|
| `NumbersAgree` | `NumberedInv` holds in every reachable state | always |
| `AnswersMeetTheirEntry` | `AnswersFreeTheirOwnEntry` | numbers have not wrapped |
| `LossesAreFive` | `EventsAreLostFiveWays` | `OneArgument` |
| `ParkedAwait` | `ParkedEntriesAwaitAnswer` | `AnsweredSetting` |
| `RunsNeverExceedRequests` | `NeverRunsMoreThanAsked` | numbers have not wrapped |
| `ServiceIsImplemented` | `Service!ServiceSafety` | `SafeSetting` |
| `ScanIsTheLoop` | `ScanAgreesWithLoop` | always |

- *Numbers* (`Numbered`): the counter is ahead of every number in use, no two entries
  and no two requests share one, and a request with the number of an entry carries
  its event. Failed sends and foreign descriptors keep this. That an answer then frees its
  own entry needs numbers that fit the 16 bits on the wire (`MaxRequests < IdModulus`).
- *Losses* (`EntriesShaped`): what an entry without a number, a timer or an
  aggregate may look like. Of each callback it then follows which events it can uncover:
  a request absorbed by another entry counts as covered only if that entry runs with the
  same parameters, hence `OneArgument` (one parameter string per AGGREGATE script: in
  server.h those without a format; the interface, openvpn and dyndns scripts have one
  string per interface). Section 3 names the behaviour without it.
- *Parked entries* (`Connectable`): in `AnsweredSetting`, where no vfork, connection,
  answer or request fails, the descriptor is closed or the server's, so that what is
  sent is at the server until the answer that frees it.
- *Runs* (`RunsAreAsked`): `NeverRunsMoreThanAsked` speaks of cardinalities, so the
  lemmas say of each change of the queue that it adds or removes at most one
  pending entry of one script (`RemovalLowers`, and its like), and each action is paid
  for by the credit it adds or the run it takes.
- *The refinement*: the initial states map to `ServiceInit`, and every callback to
  `Ask`, `Begin` or a stutter. Dropped answers, lost connections and clients change nothing the
  service sees; freed entries were handed over before (`KeptInv`).
- *The scan*: the aggregates of a script are 1 and 2 and a queue holds each at most once
  (`QueueInv`), so the loop's sum tells which were met. That the recursive function is
  that sum is proved by taking the least place where it is not (`LoopSumIsMet`).

**CommandTree_proofs.** `ParseInv`: the walk stays in the tables and argc is what the
tokens leave. What the tables of `server.h` have in common (`TableFacts`: an inner
entry leads to a table, COMPOUND entries are inner and NON entries leaves) is proved
from the tables themselves. For lines of any length:

| theorem | says, for all lines |
|---|---|
| `ParseInvariant` | `ParseInv` holds in every state of the loop |
| `AcceptedIsLeaf` | `OnlyLeavesAccepted` |
| `AcceptedHasArgument` | `ArgumentIsPassed` |

**FilterDns_proofs.** `ListInv` says that a thread is on `thread_list` or
`merge_config`'s list exactly while it has not been told to leave, that the two
lists are disjoint, that only a thread told to leave is on its way out, and what
`thread_list` holds in each phase of a merge. A step of a thread touches one
record (`ThreadStepKeepsInv`); the merge's steps are proved one by one, the
parse resting on `NewThreadsFacts`: every line gets one thread of its own.

| theorem | says, for all constants |
|---|---|
| `ListInvariant` | `ListInv` holds in every reachable state |
| `TypeCorrect` | types; reference counts stay in a u_int |
| `ListedThreadsAreAlive` | no listed thread is about to be freed (`FreedThreadsAreUnlisted`) |
| `ListFollowsConfig` | between merges one listed thread per line of the file (`ListMatchesConfig`) |

The second half is about what the threads do to the tables, in three layers, each resting
on the ones before and on `ListInv`.

| theorem | says, for all hosts, tables, answers and passes | where |
|---|---|---|
| `RulesetAddressesStay` | no address of the ruleset leaves a table | always |
| `CountInvariant` | `CountInv` holds in every reachable state | `CountSetting` |
| `UnsharedAddressGoes` | `UnsharedAddressRunsOut` | `CountSetting` |
| `TableInvariant` | `TableInv` holds in every reachable state | `TableSetting` |
| `AnswersStayInTable` | `AnswersAreInTable` | `TableSetting` |
| `TablesAreAccountedFor` | `NothingLeftBehind` | `TableSetting` |
| `SharedAddressStays` | `SharedAddressSurvives` | `TableSetting` |

`RulesetInv` says that a thread never tracks what was in the table when it looked, so it
never deletes that. `CountInv` bounds the counts of a thread that is alone in its table:
between 1 and one more than its passes can have added, so that a count wraps neither
at the top nor, decremented, at the bottom. `TableInv` adds `LeaversAreAlone` (a thread
leaves a table no listed thread has), `AnswersAreHeld` (what a listed thread answered it tracks
or found, and that is in the table) and `TablesAreHeld` (whatever else is in a table, a
thread tracks or is about to delete).

The settings are as wide as the code allows. `CountSetting`: no deletion is reported as
failed (a count of 0 stays behind and is decremented to the largest u_int), a file
that takes a host out of a table leaves no other host in that table (`TablesGoWhole`: of two
hosts that shared it, the one that stays has counts of 0 that only sharing excused), and
counts fit their width. `TableSetting`: besides, no addition fails (the address is
tracked although pf has not got it, and never added again) and the file changes once (a
table that comes back while its old thread is leaving: the new thread takes the old one's
addresses for static). Each clause is a behaviour TLC finds in the model without it.
Listed threads may share tables, hosts may move between tables and answers are
arbitrary.

**SshLockout_proofs.** `IInv` ties the records to the log: an active record is below the
limit unless main has just found it (`BelowLimit`), and the oldest active record of an address has
counted every failure since the last success, save a first one whose record is
still to be made (`FailuresAreCounted`). A failure that finds no record at the limit is
counted in all active ones, so the oldest goes on counting; pruning frees none that is
counted on, since these are neither retired nor a day old (`CountedAreRecent`). `GreatestOf`
gives the newest active record that a success retires.

| theorem | says, for any addresses, limit, log and pruning |
|---|---|
| `RecordInvariant` | `IInv` holds in every reachable state |
| `FailuresBlock` | `FailuresLockOut` |
| `MarkedRecordIsKept` | `FoundRecordIsKept` |

**Classifyd_proofs.** `IInv` is `TypeOK`, `Buffers`, `Sleep`, `Order`, `Tracked`, `Flagged` and `Walking`.
`Buffers` accounts for every packet buffer: the stack, the queue, the writer's list
and the classifier hold `StackSize` together, and queue and list keep their bounds although the
test of the bound is not under the lock — only the classifier adds to the queue, so
what it saw can only have become less. `Sleep` ties the sleeping writer to the empty
queue, `Order` the numbers of packets along their way, `Tracked` says that a packet whose
flow is looked up has one, `Flagged` ties the flag to the signal, and `Walking` keeps the
walk within the chain while it grows at its head.
`SweepsForget` needs three more: no stamp is younger than the last packet of its flow
(`Aged`), the clock is at most `Expire + 1` behind during a walk (`Clocked`), and what the
walk has passed is fresh whatever the classifier does meanwhile (`Walked`). Only a flow
between its insertion and its first stamp is exempt: its `expire` is what malloc left
there.

| theorem | says, for all constants |
|---|---|
| `PathInvariant` | `IInv` holds in every reachable state |
| `TypeCorrect` | types; the stack stays within its size |
| `ArrivalOrder` | `PacketsKeepOrder` |
| `StackSuffices` | `PopsFindMemory`: a stack of more than twice the queue is never empty |
| `WriterIsWoken` | `NoPacketIsForgotten` |
| `FlagIsKept` | `HangupsStayFlagged` |
| `SweepsForget` | `SilentFlowsGo` |

**DhcpLeases_proofs.** `IInv` is `Types /\ Watching /\ Writing /\ Telling`. `Watching`
follows the version read from the lease file to the list of leases and to the hosts
file, and says that a sleeping daemon has the file of that name open or an event pending.
`Writing` says what heads the hosts file at each step of `write_status`: the lines of
others, until the cut alone and after it followed by the daemon's; a rewrite that meets
a sleeping daemon holds until its signal. `Telling` rests on `Writing`: what the server
reads while the daemon is past its write contains the version shown. What `ftruncate`
and a write at the end do to a file are the lemmas `CutsBehindBase` and `Writes`.

| theorem | says, for all constants |
|---|---|
| `FileInvariant` | `IInv` holds in every reachable state |
| `HostsStayWhole` | `HostsWhole` |
| `LeasesAreShown` | `ShownUnlessMissed` |
| `ServerIsTold` | `DnsKnows` |

**Sasync_proofs.** Nothing in Sasync can be proved of one daemon alone: what a view is
worth depends on the messages still on their way in both directions, and these on which
process holds which end of which connection. The invariant is built in that order.

- `Types`: connections named in a socket, a backlog or a channel lie between the two
  gateways that use them; messages are records of their kind.
- `Wires`: a connection waits at most once in a backlog and only at the end it was made to;
  nobody reads an end before it is accepted; what nobody holds is empty. This is what
  makes a name fresh when it is used again, and covers crossed connections, where each
  side replaces its socket by the one it accepts.
- `Talks`: of a connection both ends of which are in use, whatever is said of the role of
  the other side is settled by the last message under way, or, if there is none, by the
  view; one who asks will be answered (`Knows`). Roles change without asking the
  channel, so the last word must be the current role; a contradiction is the one case in
  which both can be MASTER, and is excepted as the property excepts it. The handlers
  fall into two shapes, one that only writes and one that takes a message and answers
  (`SpeakStep`, `HearStep`), and the changes of connections are proved apart.
- `Calm`: data sent by one who is no MASTER (a late snapshot) is preceded, on its
  connection, by a message that denies the role and followed by none that claims it, or
  finds a view that is not MASTER (`Harmless`, `Doubted`). It needs that messages are not lost, which is the
  hypothesis of the theorem; section 3 has the behaviour without it.
- `AllFollowed`, with `Watch` and `Wires`: a MASTER that is followed is still MASTER, asked
  its kernel for all messages, is at rest and holds an open connection. Either the peer
  uses that connection too, and what is queued, on the way and unread leads from the
  peer's database to the MASTER's; or it has not accepted it yet, and the same messages
  lead there from any database at all, since the snapshot among them begins with a flush. This
  second half is needed because the peer's old connection may go on changing its
  database until it accepts.

The last part computes with `After`, a database after a sequence of messages. It is a
recursive function, and induction is out of the prover's reach; `AfterIsHeld` therefore
shows it equal to a closed form, an association is held if the last message about it adds
it or none does and it was there before (`Held`), by looking at the first index where the two
could differ (`AgreeFromZero`). From it follow `AfterBoth` (after `s \o u`: after `s`, then
`u`), `SnapshotMakes` (a snapshot makes any database the one it was taken of),
`LaterEvents` (a database its events leave alone is left alone by the later ones) and
`OneMoreEvent`; the last two keep a MASTER at rest while it reads events and its kernel changes.

| theorem | says, for any gateways, associations, modes and bounds | where |
|---|---|---|
| `TypeCorrect` | types | always |
| `NetInvariance` | `Types /\ Wires /\ Talks` holds in every reachable state | always |
| `PeersAgreeOnRoles` | `RolesKnown` | always |
| `OnlyMastersDataTaken` | `OnlyMastersData` | `{"break", "death"} \cap Troubles = {}` |
| `FollowersCatchUp` | `SlaveFollows` | always; says something in mode "startup" |

**Carp_proofs.** A handler gives up its lock in the middle of its calls, and what it
left undone is found by another. So no invariant is about a softc alone: `RouteGood`,
`PartGood` and `CountGood` are about a softc and the calls left to do with it, those of the
handler at work and the rests that walks keep.

- *One call.* `Effect` says what a call of the code changes, `CallEffect` that every call
  does just that: carp_send_ad_locked for each outcome, carp_setrun in each state.
- *Order.* Every handler makes its calls in order (`Orderly`): INIT is followed by
  carp_setrun, a BACKUP by carp_setrun and the deletion of its route, a MASTER by the addition of
  one, and one call at most touches the counter. This is what the three invariants lean
  on; the mutant `InputCallsSwapped` breaks it.
- *All calls.* `RouteStep`, `PartStep` and `CountStep` take an invariant over one call, `Keeps`
  collects them, and `DoKeeps` takes them over all calls of a handler, also when a walk
  opens in between and the others become its rest (`KeepsOpen`). `Do` is a recursive function:
  that it is the list of its steps is proved by its least counterexample (`FromZero`,
  `DoSteps`), in place of an induction.
- *The walk.* A rest is owed by its walk (`Merged`), and `WalkEnds` goes on with it as a
  handler does. An interface has one walk at most that still has to count it (`Singly`).
- *The counter.* It is the number of interfaces that are flagged or whose flag a walk
  owes, and of those with too many errors. `ErrorInv` says where errors come from: a trouble that was
  paid for.

`CarpInv` is all of this, and each action a lemma (`InputKeeps`, `SetAddrKeeps`, ...).

| theorem | says, for any hosts, ids, skews, limits and troubles | where |
|---|---|---|
| `CarpInvariant` | `CarpInv` holds in every reachable state | always |
| `CarpTypes` | types | always |
| `MasterHasRoute` | `RouteIffMaster` | always |
| `PartTaken` | `UpTakesPart` | `Quiet` |
| `DemotionCounted` | `DemotionIsCounted` | `Sole` |

`Quiet`: `Overlap = {}` and no packet tag is refused. `Sole`: carp_set_addr and the link task do
not overlap, and if interfaces are destroyed, outputs do not fail or one trouble is all
there is. TLC finds a counterexample without each clause, in section 3: "flap", "addr" and
"notag" for the first, "addr" and "destroy" with "failed" for the second. `DemotionCounted` holds with links that change unseen, and
`MasterHasRoute` whatever overlaps. TLC has checked `CarpInv` on the run, and with two troubles
("link", "alias", "notag") and both overlaps, a million states.

### Only model-checked
Liveness under fairness (`EventsAreHandedOver`, `RemovedHostsEnd`,
`AwaitedReloadTakesEffect`, `MessagesDieOut`, `PeersReconnect`, `ReportedIsShown`,
`Settles`) and the fair part of `ImplementsService` are out of the prover's reach. Of Carp,
`NoWalkInWalk` is no property of a run: section 3 has the behaviour that breaks it.

## 5. Plan

Done: the modules above and the proofs of section 4. Then, in this order:

1. **FilterDns**: SIGTERM and the deadlock of its handler, lines with a command.
2. **Sasync with Carp**: the role a daemon follows taken from Carp instead of `Flip`.
3. **Carp**: IPv6 with its second timer, the removal of addresses.
4. **MiniCron** and **Voucher**: signals around fork; packing and its inverse as
   functions, against each other over small widths.
