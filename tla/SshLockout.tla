----------------------------- MODULE SshLockout ------------------------------
(***************************************************************************)
(* sshlockout_pf: the main thread reads syslog's lines and counts failed   *)
(* logins per address; a second thread prunes the records.  The scan runs  *)
(* under db_lock and is one step; what follows it (a new record, or marking *)
(* the record found and blocking the address) is another, and the pruning  *)
(* thread may run between the two.                                         *)
(*                                                                         *)
(* The scan does not stop at a record that has not reached the limit, so    *)
(* every failure but the last adds a record of its own: the n-th record    *)
(* counts the failures since the n-th.                                     *)
(***************************************************************************)
EXTENDS Integers

CONSTANTS
  Host,         \* the IPv4 addresses in the log
  Service,      \* sshd and webConfigurator: a lockout table each
  MaxAttempts,  \* MAXATTEMPTS, the program's argument
  Releases,     \* whether successful logins are logged
  Ageing,       \* whether records get older than 24 hours
  Faults,       \* {"calloc"} or {}
  MaxLines      \* bound: lines read

ASSUME SshLockoutAssumption ==
  /\ MaxAttempts \in Nat \ {0}
  /\ Releases \in BOOLEAN
  /\ Ageing \in BOOLEAN
  /\ Faults \subseteq {"calloc"}
  /\ MaxLines \in Nat

VARIABLES
  lockouts,  \* the TAILQ of struct sshlog: records of host, attempts, inactive and
             \* old, which says that f_ts is more than 24 hours back.  A record is
             \* known by the number of the line it was made for; as it is put at
             \* the head, the list is in descending order of these
  pc,        \* main: "reading", "found" a record at the limit, or "missing" one
  sshlog,    \* the record main points to while "found"
  line,      \* the host and service of the line in hand
  blocked,   \* the pf tables: <<service, host>>
  lines,     \* lines read so far, bounded by MaxLines
  failed,    \* per host: failures since the last success
  counting   \* hosts whose failures have all been recorded, and recently

vars == <<lockouts, pc, sshlog, line, blocked, lines, failed, counting>>

-----------------------------------------------------------------------------
Init ==
  /\ lockouts = [i \in {} |-> 0]
  /\ pc = "reading"
  /\ sshlog = 0
  /\ line \in Host \X Service
  /\ blocked = {}
  /\ lines = 0
  /\ failed = [h \in Host |-> 0]
  /\ counting = Host

\* The active records of h.
Active(h) ==
  {i \in DOMAIN lockouts : lockouts[i].host = h /\ ~lockouts[i].inactive}

\* Mutant: the attempt in hand is not counted.
AtLimitLate(h) ==
  {i \in Active(h) :
     /\ lockouts[i].attempts >= MaxAttempts
     /\ \A j \in Active(h) : j > i => lockouts[j].attempts < MaxAttempts}

\* The scan goes from the newest record to the oldest and stops at the first
\* that reaches the limit.
AtLimit(h) ==
  {i \in Active(h) :
     /\ lockouts[i].attempts + 1 >= MaxAttempts
     /\ \A j \in Active(h) : j > i => lockouts[j].attempts + 1 < MaxAttempts}

\* The active records the scan passes, each counting the attempt.
Passed(h) == {i \in Active(h) : \A j \in AtLimit(h) : i >= j}

\* Mutant: the record that reaches the limit is marked as soon as it does.
CountedAndMarked(S) ==
  [i \in DOMAIN lockouts |->
     IF i \notin S THEN lockouts[i]
     ELSE [lockouts[i] EXCEPT !.attempts = @ + 1,
                              !.inactive = lockouts[i].attempts + 1 >= MaxAttempts]]

CountedIn(S) ==
  [i \in DOMAIN lockouts |->
     IF i \in S THEN [lockouts[i] EXCEPT !.attempts = @ + 1] ELSE lockouts[i]]

-----------------------------------------------------------------------------
\* doaction(BLOCK) up to its UNLOCK.
ReadFailure(h, s) ==
  /\ pc = "reading"
  /\ lines < MaxLines
  /\ lines' = lines + 1
  /\ line' = <<h, s>>
  /\ failed' = [failed EXCEPT ![h] = @ + 1]
  /\ lockouts' = CountedIn(Passed(h))
  /\ \/ /\ AtLimit(h) = {}
        /\ pc' = "missing"
        /\ UNCHANGED sshlog
     \/ \E i \in AtLimit(h) :
          /\ pc' = "found"
          /\ sshlog' = i
  /\ UNCHANGED <<blocked, counting>>

\* doaction(RELEASE): the newest active record is retired.  Without one the
\* function goes on as for a failure.
ReadSuccess(h, s) ==
  /\ Releases
  /\ pc = "reading"
  /\ lines < MaxLines
  /\ lines' = lines + 1
  /\ line' = <<h, s>>
  /\ failed' = [failed EXCEPT ![h] = 0]
  /\ \/ /\ Active(h) = {}
        /\ pc' = "missing"
        /\ UNCHANGED lockouts
     \/ \E i \in Active(h) :
          /\ \A j \in Active(h) : i >= j
          /\ lockouts' = [CountedIn({i}) EXCEPT ![i].inactive = TRUE]
          /\ UNCHANGED pc
  /\ UNCHANGED <<sshlog, blocked, counting>>

\* The first attempt, or one more below the limit: a new record at the head.
AddRecord ==
  /\ pc = "missing"
  /\ pc' = "reading"
  /\ \/ /\ lockouts' = [i \in DOMAIN lockouts \cup {lines} |->
                          IF i = lines
                          THEN [host |-> line[1], attempts |-> 1,
                                inactive |-> FALSE, old |-> FALSE]
                          ELSE lockouts[i]]
        /\ UNCHANGED counting
     \/ /\ "calloc" \in Faults
        /\ counting' = counting \ {line[1]}
        /\ UNCHANGED lockouts
  /\ UNCHANGED <<sshlog, line, blocked, lines, failed>>

\* The record found is marked, without the lock, and the address blocked.
LockOut ==
  /\ pc = "found"
  /\ pc' = "reading"
  /\ lockouts' = [i \in DOMAIN lockouts |->
                    IF i = sshlog
                    THEN [lockouts[i] EXCEPT !.inactive = TRUE]
                    ELSE lockouts[i]]
  /\ blocked' = blocked \cup {<<line[2], line[1]>>}
  /\ UNCHANGED <<sshlog, line, lines, failed, counting>>

\* prune_24hour_records, every half hour.
Kept == {i \in DOMAIN lockouts : ~lockouts[i].inactive /\ ~lockouts[i].old}

Prune ==
  /\ Kept # DOMAIN lockouts
  /\ lockouts' = [i \in Kept |-> lockouts[i]]
  /\ UNCHANGED <<pc, sshlog, line, blocked, lines, failed, counting>>

\* Time goes by: a record gets old after those behind it.
Age(i) ==
  /\ Ageing
  /\ ~lockouts[i].old
  /\ lockouts' = [j \in DOMAIN lockouts |->
                    IF j <= i THEN [lockouts[j] EXCEPT !.old = TRUE]
                    ELSE lockouts[j]]
  /\ counting' = counting \ {lockouts[j].host : j \in {k \in DOMAIN lockouts : k <= i}}
  /\ UNCHANGED <<pc, sshlog, line, blocked, lines, failed>>

Next ==
  \/ \E h \in Host, s \in Service : ReadFailure(h, s) \/ ReadSuccess(h, s)
  \/ AddRecord
  \/ LockOut
  \/ Prune
  \/ \E i \in DOMAIN lockouts : Age(i)

Spec == Init /\ [][Next]_vars

-----------------------------------------------------------------------------
(* Properties. *)

\* A host that failed MaxAttempts times in a row (one more when a first attempt
\* would be enough) is blocked, whatever else was logged and pruned in between,
\* unless a record of it was not to be had or is a day old.
FailuresLockOut ==
  pc = "reading" =>
    \A h \in counting :
      failed[h] >= MaxAttempts /\ failed[h] > 1
        => \E s \in Service : <<s, h>> \in blocked

\* The record main is going to mark after it has given the lock back is not
\* freed before that, unless it is a day old.
FoundRecordIsKept ==
  [][ /\ pc = "found"
      /\ sshlog \in DOMAIN lockouts
      /\ ~lockouts[sshlog].old
      => sshlog \in DOMAIN lockouts' ]_vars

\* "Locking out ... after %i invalid attempts": an address is blocked only after
\* that many failures since its last successful login.
LockOutNeedsFailures ==
  [][ LockOut => failed[line[1]] >= MaxAttempts ]_vars

=============================================================================
