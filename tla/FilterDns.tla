------------------------------ MODULE FilterDns ------------------------------
(***************************************************************************)
(* filterdns: one thread per configured host name resolves it and keeps    *)
(* the addresses it got in a pf table, and a signal thread merges a new    *)
(* configuration on SIGHUP.                                                *)
(*                                                                         *)
(* A resolving pass holds main_lock for reading and the merge holds it for *)
(* writing, so a pass is one step here and the merge three: it empties     *)
(* thread_list, parses and matches, and marks what is left over.  Three    *)
(* things run without the lock and are steps of their own: the first       *)
(* reading of the table by a new thread, and, in a removed thread, the     *)
(* look at thread_list and the pf ioctl that follows it.                   *)
(***************************************************************************)
EXTENDS Integers, Sequences, FiniteSets, SequencesExt, Functions

CONSTANTS
  Host, TableName, Address,
  NoAddress,
  FirstConfig,  \* the <<host, table>> lines of the file at start
  Configs,      \* the contents the file may be given later
  Static,       \* addresses the ruleset itself puts in every table
  Repeats,      \* how often getaddrinfo lists an address (once per socket type)
  RefModulus,   \* refcnt is a u_int: 2^32
  Faults,       \* the calls that may fail
  MaxReloads,   \* bound: changes of the file, each followed by a SIGHUP
  MaxPasses,    \* bound: successful resolving passes
  MaxFailures   \* bound: passes or deletions with a failing ioctl

ASSUME FilterDnsAssumption ==
  /\ \A c \in Configs \cup {FirstConfig} :
       c \subseteq Host \X TableName /\ IsFiniteSet(c)
  /\ Static \subseteq Address
  /\ NoAddress \notin Address
  /\ Repeats \in Nat \ {0}
  /\ RefModulus \in Nat \ {0}
  /\ Faults \subseteq {"add", "delete", "resolve", "create"}
  /\ {MaxReloads, MaxPasses, MaxFailures} \subseteq Nat

VARIABLES
  threads,     \* every struct thread_data ever made, in order of creation
  threadList,  \* the TAILQ thread_list: the indices in it
  oldList,     \* merge_config's tmp_thread_list
  pfTable,     \* the kernel's tables
  config,      \* the contents of the configuration file
  loaded,      \* the contents parse_config read last
  merge,       \* where the signal thread is
  reloads, passes, failures

vars == <<threads, threadList, oldList, pfTable, config, loaded, merge,
          reloads, passes, failures>>

-----------------------------------------------------------------------------
\* Where a thread is: not created, before its first look at the table, in its
\* loop, or in its end.
Leaving == {"cleaning", "deleting", "gone"}

\* The list rnh: address -> refcnt.
Counts == UNION {[S -> 0..RefModulus-1] : S \in SUBSET Address}

ThreadData ==
  [host : Host, table : TableName, exit : 0..2,
   pc : {"unborn", "starting", "sleeping"} \cup Leaving,
   refs : Counts, statics : SUBSET Address,
   answer : SUBSET Address, left : SUBSET Address,
   victim : Address \cup {NoAddress}]

(***************************************************************************)
(* struct thread_data: refs is the list rnh (address -> refcnt), statics   *)
(* the list static_rnh.  answer is what the last successful getaddrinfo    *)
(* gave; it is kept for the properties only.  left and victim are where    *)
(* the clean up of a removed thread stands.                                *)
(***************************************************************************)
NewThread(key, born) ==
  [host |-> key[1], table |-> key[2], exit |-> 0,
   pc |-> IF born THEN "starting" ELSE "unborn",
   refs |-> << >>, statics |-> {}, answer |-> {}, left |-> {}, victim |-> NoAddress]

Key(t) == <<threads[t].host, threads[t].table>>
Tracked(t) == DOMAIN threads[t].refs

\* pthread_create fails for some of the new lines, at most.
NewThreads(lines) ==
  {[i \in DOMAIN SetToSeq(lines) |->
      NewThread(SetToSeq(lines)[i], SetToSeq(lines)[i] \in born)] :
     born \in IF "create" \in Faults THEN SUBSET lines ELSE {lines}}

Init ==
  /\ threads \in NewThreads(FirstConfig)
  /\ threadList = DOMAIN threads
  /\ oldList = {}
  /\ pfTable = [tb \in TableName |-> Static]
  /\ config = FirstConfig
  /\ loaded = FirstConfig
  /\ merge = "waiting"
  /\ reloads = 0
  /\ passes = 0
  /\ failures = 0

\* main_lock is not held for writing.
Readable == merge \in {"waiting", "woken"}

\* The sets of addresses for which an ioctl of this kind may fail.
Failing(kind, S) ==
  IF kind \in Faults /\ failures < MaxFailures THEN SUBSET S ELSE {{}}

CountFailure(S) == failures' = failures + (IF S = {} THEN 0 ELSE 1)

-----------------------------------------------------------------------------
(* A thread's start and its passes. *)

\* get_present_table_entries: what is in the table now is static.
Fetch(t) ==
  /\ threads[t].pc = "starting"
  /\ threads' = [threads EXCEPT ![t].pc = "sleeping",
                                ![t].statics = pfTable[threads[t].table]]
  /\ UNCHANGED <<threadList, oldList, pfTable, config, loaded, merge, reloads,
                 passes, failures>>

\* Mutant: no thread is found to share the table.
NoneShares(t) == FALSE

\* filterdns_check_sameip_diff_hostname.  The inner loop runs over the list of
\* the asking thread, where the address always is: any other listed thread of
\* the same table is enough.
SameTable(t) ==
  \E u \in threadList : u # t /\ threads[u].table = threads[t].table

\* Mutants: an entry that exists is not counted again; one pass too many.
CountedOnce(refs, fresh) ==
  [a \in DOMAIN refs \cup fresh |->
     IF a \in DOMAIN refs THEN refs[a] ELSE (1 + Repeats) % RefModulus]

CountedHigh(refs, fresh) ==
  [a \in DOMAIN refs \cup fresh |->
     IF a \notin fresh THEN refs[a]
     ELSE IF a \in DOMAIN refs THEN (refs[a] + Repeats) % RefModulus
     ELSE (2 + Repeats) % RefModulus]

\* add_table_entry for every address of an answer, each seen Repeats times.
Counted(refs, fresh) ==
  [a \in DOMAIN refs \cup fresh |->
     IF a \notin fresh THEN refs[a]
     ELSE IF a \in DOMAIN refs THEN (refs[a] + Repeats) % RefModulus
     ELSE (1 + Repeats) % RefModulus]

\* filterdns_clean_table takes one from every count.
Released(refs) == [a \in DOMAIN refs |-> (refs[a] - 1) % RefModulus]

\* The addresses a pass tries to delete.
Expired(t, refs) == {a \in DOMAIN refs : refs[a] = 0 /\ ~SameTable(t)}

\* The addresses a pass hands to pf: the new ones, all of them after a reload.
ToAdd(t, fresh) ==
  IF threads[t].exit = 2 THEN fresh ELSE fresh \ Tracked(t)

(***************************************************************************)
(* host_dns.  pf_tableentry tries three times and returns how often it     *)
(* failed: a deletion that succeeded on a later try is reported as failed  *)
(* too.  Failed additions are not looked at.                               *)
(***************************************************************************)
Pass(t) ==
  /\ threads[t].pc = "sleeping"
  /\ threads[t].exit # 1
  /\ Readable
  /\ passes < MaxPasses
  /\ passes' = passes + 1
  /\ \E answer \in (SUBSET Address) \ {{}} :
       LET fresh   == answer \ threads[t].statics
           added   == ToAdd(t, fresh)
           refs    == Released(Counted(threads[t].refs, fresh))
           expired == Expired(t, refs)
       IN \E notAdded \in Failing("add", added) :
          \E reported \in Failing("delete", expired) :
          \E kept \in SUBSET reported :
            /\ threads' = [threads EXCEPT
                 ![t].exit = 0,
                 ![t].answer = answer,
                 ![t].refs = Restrict(refs, DOMAIN refs \ (expired \ reported))]
            /\ pfTable' = [pfTable EXCEPT ![threads[t].table] =
                 (@ \cup (added \ notAdded)) \ (expired \ kept)]
            /\ CountFailure(notAdded \cup reported)
  /\ UNCHANGED <<threadList, oldList, config, loaded, merge, reloads>>

\* getaddrinfo fails: the pass is over, and so is a refresh that was asked for.
PassUnresolved(t) ==
  /\ "resolve" \in Faults
  /\ threads[t].pc = "sleeping"
  /\ threads[t].exit = 2
  /\ Readable
  /\ threads' = [threads EXCEPT ![t].exit = 0]
  /\ UNCHANGED <<threadList, oldList, pfTable, config, loaded, merge, reloads,
                 passes, failures>>

-----------------------------------------------------------------------------
(* The end of a removed thread, outside main_lock. *)

\* Mutants: the thread ends without cleaning up; only a thread with something to
\* clean up ends.
LeaveUncleaned(t) ==
  /\ threads[t].pc = "sleeping"
  /\ threads[t].exit = 1
  /\ Readable
  /\ threads' = [threads EXCEPT ![t].pc = "gone"]
  /\ UNCHANGED <<threadList, oldList, pfTable, config, loaded, merge, reloads,
                 passes, failures>>

LeaveIfTracking(t) ==
  /\ threads[t].pc = "sleeping"
  /\ threads[t].exit = 1
  /\ Readable
  /\ Tracked(t) # {}
  /\ threads' = [threads EXCEPT ![t].pc = "cleaning", ![t].left = Tracked(t)]
  /\ UNCHANGED <<threadList, oldList, pfTable, config, loaded, merge, reloads,
                 passes, failures>>

\* The thread wakes and finds exit set; with nothing tracked it is done.
Leave(t) ==
  /\ threads[t].pc = "sleeping"
  /\ threads[t].exit = 1
  /\ Readable
  /\ threads' = [threads EXCEPT
       ![t].pc = IF Tracked(t) = {} THEN "gone" ELSE "cleaning",
       ![t].left = Tracked(t)]
  /\ UNCHANGED <<threadList, oldList, pfTable, config, loaded, merge, reloads,
                 passes, failures>>

Ended(t, left) == IF left = {} THEN "gone" ELSE "cleaning"

\* filterdns_clean_table with donotcheckrefcount: another thread of the table
\* keeps the address, otherwise the deletion comes next.
CleanLook(t) ==
  /\ threads[t].pc = "cleaning"
  /\ \E a \in threads[t].left :
       LET left == threads[t].left \ {a}
       IN threads' = IF SameTable(t)
                     THEN [threads EXCEPT ![t].left = left, ![t].pc = Ended(t, left)]
                     ELSE [threads EXCEPT ![t].left = left, ![t].victim = a,
                                          ![t].pc = "deleting"]
  /\ UNCHANGED <<threadList, oldList, pfTable, config, loaded, merge, reloads,
                 passes, failures>>

\* Whatever the ioctl returns, clear_hostname_addresses frees the entry.
CleanDelete(t) ==
  /\ threads[t].pc = "deleting"
  /\ \E kept \in Failing("delete", {threads[t].victim}) :
       /\ pfTable' = [pfTable EXCEPT
            ![threads[t].table] = @ \ ({threads[t].victim} \ kept)]
       /\ CountFailure(kept)
  /\ threads' = [threads EXCEPT ![t].victim = NoAddress,
                                ![t].pc = Ended(t, threads[t].left)]
  /\ UNCHANGED <<threadList, oldList, config, loaded, merge, reloads, passes>>

-----------------------------------------------------------------------------
(* SIGHUP and the signal thread. *)

\* The file is replaced and SIGHUP sent.  The condition variable has no
\* predicate: the signal reaches a waiting thread or nobody.
ChangeConfig(c) ==
  /\ reloads < MaxReloads
  /\ reloads' = reloads + 1
  /\ c # config
  /\ config' = c
  /\ merge' = IF merge = "waiting" THEN "woken" ELSE merge
  /\ UNCHANGED <<threads, threadList, oldList, pfTable, loaded, passes, failures>>

\* Mutant: the wait looks for a signal that is not pending any more.
MergeBeginUnwoken ==
  /\ merge = "waiting"
  /\ config # loaded
  /\ merge' = "emptied"
  /\ oldList' = threadList
  /\ threadList' = {}
  /\ UNCHANGED <<threads, pfTable, config, loaded, reloads, passes, failures>>

MergeBegin ==
  /\ merge = "woken"
  /\ merge' = "emptied"
  /\ oldList' = threadList
  /\ threadList' = {}
  /\ UNCHANGED <<threads, pfTable, config, loaded, reloads, passes, failures>>

\* Mutant: a thread that is kept stays on tmp_thread_list too.
MergeParseKeepingBoth ==
  /\ merge = "emptied"
  /\ merge' = "parsed"
  /\ loaded' = config
  /\ LET kept  == {t \in oldList : Key(t) \in config}
         lines == config \ {Key(t) : t \in kept}
     IN \E new \in NewThreads(lines) :
          /\ threads' = [t \in DOMAIN threads |->
                           IF t \in kept THEN [threads[t] EXCEPT !.exit = 2]
                           ELSE threads[t]] \o new
          /\ threadList' = kept \cup
               {Len(threads) + i : i \in DOMAIN new}
          /\ UNCHANGED oldList
  /\ UNCHANGED <<pfTable, config, reloads, passes, failures>>

\* A line that has a thread keeps it and asks it for a refresh; the others get
\* a new one.
MergeParse ==
  /\ merge = "emptied"
  /\ merge' = "parsed"
  /\ loaded' = config
  /\ LET kept  == {t \in oldList : Key(t) \in config}
         lines == config \ {Key(t) : t \in kept}
     IN \E new \in NewThreads(lines) :
          /\ threads' = [t \in DOMAIN threads |->
                           IF t \in kept THEN [threads[t] EXCEPT !.exit = 2]
                           ELSE threads[t]] \o new
          /\ threadList' = kept \cup
               {Len(threads) + i : i \in DOMAIN new}
          /\ oldList' = oldList \ kept
  /\ UNCHANGED <<pfTable, config, reloads, passes, failures>>

\* Mutant: clear_config without TAILQ_REMOVE.
MergeEndKeepingList ==
  /\ merge = "parsed"
  /\ merge' = "waiting"
  /\ threads' = [t \in DOMAIN threads |->
                   IF t \in oldList THEN [threads[t] EXCEPT !.exit = 1]
                   ELSE threads[t]]
  /\ UNCHANGED <<threadList, oldList, pfTable, config, loaded, reloads, passes,
                 failures>>

\* clear_config on the threads that are left over.
MergeEnd ==
  /\ merge = "parsed"
  /\ merge' = "waiting"
  /\ threads' = [t \in DOMAIN threads |->
                   IF t \in oldList THEN [threads[t] EXCEPT !.exit = 1]
                   ELSE threads[t]]
  /\ oldList' = {}
  /\ UNCHANGED <<threadList, pfTable, config, loaded, reloads, passes, failures>>

-----------------------------------------------------------------------------
Merge == MergeBegin \/ MergeParse \/ MergeEnd

Next ==
  \/ \E t \in DOMAIN threads :
       \/ Fetch(t)
       \/ Pass(t)
       \/ PassUnresolved(t)
       \/ Leave(t)
       \/ CleanLook(t)
       \/ CleanDelete(t)
  \/ \E c \in Configs : ChangeConfig(c)
  \/ Merge

Spec == Init /\ [][Next]_vars

\* Every thread wakes from its timed wait, and pthreads schedules all of them.
Ends(t) ==
  t \in DOMAIN threads /\ (Fetch(t) \/ Leave(t) \/ CleanLook(t) \/ CleanDelete(t))

MaxThreads == Cardinality(FirstConfig) + MaxReloads * Cardinality(Host \X TableName)

FairSpec ==
  /\ Spec
  /\ WF_vars(Merge)
  /\ \A t \in 1..MaxThreads : WF_vars(Ends(t))

-----------------------------------------------------------------------------
(* Properties. *)

\* Every variable keeps its type.
TypeOK ==
  /\ threads \in Seq(ThreadData)
  /\ threadList \cup oldList \subseteq DOMAIN threads
  /\ pfTable \in [TableName -> SUBSET Address]
  /\ config \in SUBSET (Host \X TableName)
  /\ loaded \in SUBSET (Host \X TableName)
  /\ merge \in {"waiting", "woken", "emptied", "parsed"}

\* A thread that is on its way to freeing its struct thread_data is on neither
\* list: no walk of thread_list under main_lock meets freed memory.
FreedThreadsAreUnlisted ==
  \A t \in threadList \cup oldList :
    threads[t].pc \notin Leaving

\* Between merges there is exactly one listed thread for each line read last,
\* and every other thread has been told to leave.
ListMatchesConfig ==
  Readable =>
    /\ {Key(t) : t \in threadList} = loaded
    /\ Cardinality(threadList) = Cardinality(loaded)
    /\ \A t \in DOMAIN threads : t \in threadList <=> threads[t].exit # 1

\* What a listed host resolved to last is in its table: neither the reference
\* counts nor another host's thread take a live address away.
AnswersAreInTable ==
  \A t \in threadList :
    threads[t].pc = "sleeping" => threads[t].answer \subseteq pfTable[threads[t].table]

\* An address in a table comes from the ruleset or is still known to a thread
\* that can delete it.
NothingLeftBehind ==
  \A t \in DOMAIN threads :
    pfTable[threads[t].table] \subseteq
      Static \cup UNION {Tracked(u) : u \in {v \in DOMAIN threads :
                           /\ threads[v].table = threads[t].table
                           /\ threads[v].pc # "gone"}}

Others(t) ==
  {u \in threadList : u # t /\ threads[u].table = threads[t].table}

\* A pass of t that was not disturbed by a failing ioctl.
CleanPass(t) == threads'[t].refs # threads[t].refs /\ failures' = failures

\* Every answer that lists an address Repeats times leaves its count that much
\* higher, but for the one the pass takes away.
Gained == passes * (Repeats - 1)

\* Each address the pass of t finds unresolved is out of the table, or has a count
\* left that this pass lowered and that is no more than the answers before gained.
RunsOutBy(t) ==
  \A a \in Tracked(t) \ threads'[t].answer :
    a \in pfTable'[threads[t].table] =>
      /\ a \in DOMAIN threads'[t].refs
      /\ threads'[t].refs[a] < threads[t].refs[a]
      /\ threads'[t].refs[a] \in 1..Gained

\* Where no other listed host has the table, an address its host does not resolve
\* to any more leaves the table after as many passes as its count has left, which
\* falls with each of them, never wraps round, and is at most what the repetitions
\* in earlier answers added: with one listing per answer the address leaves at once.
UnsharedAddressRunsOut ==
  [][ \A t \in DOMAIN threads :
        CleanPass(t) /\ Others(t) = {} => RunsOutBy(t) ]_vars

\* "If 2 dns names have same ip do not do any operation", and only then: the
\* same holds when the other hosts of the table do not have the address.
UnresolvedAddressRunsOut ==
  [][ \A t \in DOMAIN threads :
        /\ CleanPass(t)
        /\ \A u \in Others(t) : Tracked(u) \cap Tracked(t) = {}
        => RunsOutBy(t) ]_vars

\* "If 2 dns names have same ip do not do any operation": no thread deletes an
\* address that another listed host of the table resolved to last.
SharedAddressSurvives ==
  [][ \A t \in DOMAIN threads :
        /\ t \in threadList \cup oldList
        /\ threads[t].exit # 1
        /\ threads'[t] = threads[t]
        => \A a \in threads[t].answer \cap pfTable[threads[t].table] :
             a \in pfTable'[threads[t].table] ]_vars

\* A new configuration comes into force, unless it is replaced first.
ReloadTakesEffect ==
  \A c \in Configs : config = c ~> (loaded = c \/ config # c)

\* It does when its signal finds the signal thread waiting.
AwaitedReloadTakesEffect ==
  \A c \in Configs :
    config = c /\ merge = "woken" ~> (loaded = c \/ config # c)

\* The thread of a removed host ends, whatever it was doing.
RemovedHostsEnd ==
  \A t \in 1..MaxThreads :
    (t \in DOMAIN threads /\ threads[t].exit = 1 /\ threads[t].pc # "unborn")
      ~> (t \in DOMAIN threads /\ threads[t].pc = "gone")

=============================================================================
