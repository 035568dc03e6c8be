--------------------------- MODULE FilterDns_proofs ---------------------------
(***************************************************************************)
(* What holds of filterdns's threads, its thread_list and its pf tables    *)
(* for every set of hosts, every sequence of configurations and every      *)
(* failing call.                                                           *)
(***************************************************************************)
EXTENDS FilterDns, FunctionTheorems, FiniteSetTheorems, SequenceTheorems, TLAPS

-----------------------------------------------------------------------------
(* Reference counts. *)

\* Arithmetic on a u_int stays in its width.
LEMMA ModInRange ==
  ASSUME NEW n \in Int
  PROVE  n % RefModulus \in 0..RefModulus-1
  BY FilterDnsAssumption

\* A set of counts has addresses for its domain.
LEMMA CountsFacts ==
  ASSUME NEW refs
  PROVE  refs \in Counts <=> /\ DOMAIN refs \in SUBSET Address
                             /\ refs \in [DOMAIN refs -> 0..RefModulus-1]
<1>1. ASSUME refs \in Counts
      PROVE  /\ DOMAIN refs \in SUBSET Address
             /\ refs \in [DOMAIN refs -> 0..RefModulus-1]
  <2>1. PICK S \in SUBSET Address : refs \in [S -> 0..RefModulus-1]
    BY <1>1 DEF Counts
  <2>2. QED
    BY <2>1
<1>2. ASSUME DOMAIN refs \in SUBSET Address,
             refs \in [DOMAIN refs -> 0..RefModulus-1]
      PROVE  refs \in Counts
  BY <1>2 DEF Counts
<1>3. QED
  BY <1>1, <1>2

\* A pass counts the addresses it found and takes one from every count.
LEMMA PassCounts ==
  ASSUME NEW refs \in Counts, NEW fresh \in SUBSET Address, NEW gone
  PROVE  LET after == Released(Counted(refs, fresh))
         IN  Restrict(after, DOMAIN after \ gone) \in Counts
<1> DEFINE counted == Counted(refs, fresh)
           after == Released(counted)
           kept == Restrict(after, DOMAIN after \ gone)
<1>1. /\ DOMAIN refs \in SUBSET Address
      /\ \A a \in DOMAIN refs : refs[a] \in 0..RefModulus-1
  BY CountsFacts
<1>2. DOMAIN counted = DOMAIN refs \cup fresh
  BY DEF Counted
<1>3. ASSUME NEW a \in DOMAIN counted
      PROVE  counted[a] \in Int
  <2>1. CASE a \notin fresh
    BY <1>1, <1>2, <2>1 DEF Counted
  <2>2. CASE a \in fresh /\ a \in DOMAIN refs
    <3>1. counted[a] = (refs[a] + Repeats) % RefModulus
      BY <1>2, <2>2 DEF Counted
    <3>2. refs[a] + Repeats \in Int
      BY <1>1, <2>2, FilterDnsAssumption
    <3>3. QED
      BY <3>1, <3>2, ModInRange, FilterDnsAssumption
  <2>3. CASE a \in fresh /\ a \notin DOMAIN refs
    <3>1. counted[a] = (1 + Repeats) % RefModulus
      BY <1>2, <2>3 DEF Counted
    <3>2. 1 + Repeats \in Int
      BY FilterDnsAssumption
    <3>3. QED
      BY <3>1, <3>2, ModInRange, FilterDnsAssumption
  <2>4. QED
    BY <2>1, <2>2, <2>3
<1> HIDE DEF counted
<1>4. /\ DOMAIN after = DOMAIN counted
      /\ \A a \in DOMAIN counted : after[a] = (counted[a] - 1) % RefModulus
  BY DEF Released
<1>5. \A a \in DOMAIN counted : after[a] \in 0..RefModulus-1
  <2> TAKE a \in DOMAIN counted
  <2>1. counted[a] - 1 \in Int
    BY <1>3
  <2>2. QED
    BY <1>4, <2>1, ModInRange
<1> HIDE DEF after
<1>6. /\ DOMAIN kept = DOMAIN after \ gone
      /\ kept \in [DOMAIN after \ gone -> 0..RefModulus-1]
  BY <1>4, <1>5 DEF Restrict
<1>7. DOMAIN after \ gone \in SUBSET Address
  BY <1>1, <1>2, <1>4
<1>8. kept \in Counts
  BY <1>6, <1>7 DEF Counts
<1>9. QED
  BY <1>8 DEF kept, after, counted

-----------------------------------------------------------------------------
(* Threads made for the lines of a file. *)

KeyOf(d) == <<d.host, d.table>>

\* SetToSeq lists every element of a finite set once.
LEMMA SetToSeqFacts ==
  ASSUME NEW S, IsFiniteSet(S)
  PROVE  /\ Cardinality(S) \in Nat
         /\ SetToSeq(S) \in [1..Cardinality(S) -> S]
         /\ \A i, j \in 1..Cardinality(S) :
              SetToSeq(S)[i] = SetToSeq(S)[j] => i = j
         /\ \A x \in S : \E i \in 1..Cardinality(S) : SetToSeq(S)[i] = x
<1> DEFINE n == Cardinality(S)
           f == SetToSeq(S)
<1>1. n \in Nat /\ ExistsBijection(1..n, S)
  BY FS_CardinalityType
<1>2. \E g \in [1..n -> S] : IsInjective(g)
  BY <1>1 DEF ExistsBijection, Bijection, Injection
<1>3. f \in [1..n -> S] /\ IsInjective(f)
  BY <1>2 DEF SetToSeq
<1>4. f \in Injection(1..n, S)
  BY <1>3 DEF Injection
<1>5. Cardinality(1..n) = n
  BY <1>1, FS_Interval
<1>6. f \in Surjection(1..n, S)
  BY <1>4, <1>5, FS_Injection
<1>7. QED
  BY <1>1, <1>3, <1>6 DEF IsInjective, Surjection

\* A thread is made with nothing tracked, for the host and table of its line.
LEMMA NewThreadFacts ==
  ASSUME NEW key \in Host \X TableName, NEW born \in BOOLEAN
  PROVE  /\ NewThread(key, born) \in ThreadData
         /\ KeyOf(NewThread(key, born)) = key
         /\ NewThread(key, born).exit = 0
         /\ NewThread(key, born).pc \notin Leaving
<1>1. << >> \in Counts
  <2>1. DOMAIN << >> = {}
    OBVIOUS
  <2>2. << >> \in [{} -> 0..RefModulus-1]
    OBVIOUS
  <2>3. QED
    BY <2>2 DEF Counts
<1>2. key[1] \in Host /\ key[2] \in TableName /\ key = <<key[1], key[2]>>
  OBVIOUS
<1>3. QED
  BY <1>1, <1>2 DEF NewThread, ThreadData, KeyOf, Leaving

\* Every line of the file gets one thread of its own.
LEMMA NewThreadsFacts ==
  ASSUME NEW lines \in SUBSET (Host \X TableName), IsFiniteSet(lines),
         NEW new \in NewThreads(lines)
  PROVE  /\ new \in Seq(ThreadData)
         /\ \A i \in DOMAIN new : new[i].exit = 0 /\ new[i].pc \notin Leaving
         /\ \A i \in DOMAIN new : KeyOf(new[i]) \in lines
         /\ \A k \in lines : \E i \in DOMAIN new : KeyOf(new[i]) = k
         /\ \A i, j \in DOMAIN new : KeyOf(new[i]) = KeyOf(new[j]) => i = j
<1> DEFINE n == Cardinality(lines)
           f == SetToSeq(lines)
<1>1. /\ n \in Nat
      /\ f \in [1..n -> lines]
      /\ \A i, j \in 1..n : f[i] = f[j] => i = j
      /\ \A x \in lines : \E i \in 1..n : f[i] = x
  BY SetToSeqFacts
<1>2. PICK born : new = [i \in DOMAIN f |-> NewThread(f[i], f[i] \in born)]
  BY DEF NewThreads
<1> HIDE DEF n, f
<1>3. new = [i \in 1..n |-> NewThread(f[i], f[i] \in born)]
  BY <1>1, <1>2
<1>4. ASSUME NEW i \in 1..n
      PROVE  /\ new[i] \in ThreadData
             /\ KeyOf(new[i]) = f[i]
             /\ new[i].exit = 0
             /\ new[i].pc \notin Leaving
  <2>1. f[i] \in Host \X TableName
    BY <1>1
  <2>2. new[i] = NewThread(f[i], f[i] \in born)
    BY <1>3
  <2>3. new[i] = NewThread(f[i], TRUE) \/ new[i] = NewThread(f[i], FALSE)
    BY <2>2 DEF NewThread
  <2>4. ASSUME NEW b \in BOOLEAN, new[i] = NewThread(f[i], b)
        PROVE  /\ new[i] \in ThreadData
               /\ KeyOf(new[i]) = f[i]
               /\ new[i].exit = 0
               /\ new[i].pc \notin Leaving
    BY <2>1, <2>4, NewThreadFacts
  <2>5. QED
    BY <2>3, <2>4
<1>5. DOMAIN new = 1..n
  BY <1>3
<1>6. new \in Seq(ThreadData)
  <2>1. new \in [1..n -> ThreadData]
    BY <1>3, <1>4
  <2>2. QED
    BY <1>1, <2>1
<1>7. \A i \in DOMAIN new :
        /\ new[i].exit = 0
        /\ new[i].pc \notin Leaving
        /\ KeyOf(new[i]) \in lines
  BY <1>1, <1>4, <1>5
<1>8. \A k \in lines : \E i \in DOMAIN new : KeyOf(new[i]) = k
  BY <1>1, <1>4, <1>5
<1>9. \A i, j \in DOMAIN new : KeyOf(new[i]) = KeyOf(new[j]) => i = j
  BY <1>1, <1>4, <1>5
<1>10. QED
  BY <1>6, <1>7, <1>8, <1>9

-----------------------------------------------------------------------------
(***************************************************************************)
(* The inductive invariant: a thread is on one of the two lists exactly    *)
(* while it has not been told to leave, and only a thread that was told to *)
(* leave is on its way out.  thread_list holds one thread for each line    *)
(* between merges, nothing in the middle of one, and one for each line of  *)
(* the new file after it was parsed.                                       *)
(***************************************************************************)
Files == Configs \cup {FirstConfig}

OneThreadPerLine(S, lines) ==
  /\ {Key(t) : t \in S} = lines
  /\ \A t, u \in S : Key(t) = Key(u) => t = u

ListsByPhase ==
  /\ merge = "emptied" => threadList = {}
  /\ merge # "emptied" => OneThreadPerLine(threadList, loaded)
  /\ merge \in {"waiting", "woken"} => oldList = {}

LeaversAreUnlisted ==
  /\ threadList \cap oldList = {}
  /\ \A t \in DOMAIN threads : threads[t].exit # 1 <=> t \in threadList \cup oldList
  /\ \A t \in DOMAIN threads : threads[t].pc \in Leaving => threads[t].exit = 1

ListInv ==
  /\ TypeOK
  /\ config \in Files
  /\ loaded \in Files
  /\ ListsByPhase
  /\ \A t, u \in oldList : Key(t) = Key(u) => t = u
  /\ LeaversAreUnlisted

\* Every file is a finite set of lines.
LEMMA FilesAreFinite ==
  ASSUME NEW c \in Files
  PROVE  c \in SUBSET (Host \X TableName) /\ IsFiniteSet(c)
  BY FilterDnsAssumption DEF Files

\* The threads of a well typed state are records of ThreadData.
LEMMA ThreadsFacts ==
  ASSUME TypeOK
  PROVE  /\ Len(threads) \in Nat
         /\ DOMAIN threads = 1..Len(threads)
         /\ \A t \in DOMAIN threads : threads[t] \in ThreadData
  BY LenProperties, ElementOfSeq DEF TypeOK

\* A step of one thread that leaves its host and table alone, does not change
\* whether it was told to leave, and is on its way out only if it was.
LEMMA ThreadStepKeepsInv ==
  ASSUME ListInv, NEW t \in DOMAIN threads, NEW d \in ThreadData,
         threads' = [threads EXCEPT ![t] = d],
         KeyOf(d) = KeyOf(threads[t]),
         d.exit = 1 <=> threads[t].exit = 1,
         d.pc \in Leaving => d.exit = 1,
         pfTable' \in [TableName -> SUBSET Address],
         UNCHANGED <<threadList, oldList, config, loaded, merge>>
  PROVE  ListInv'
<1>1. /\ threads \in Seq(ThreadData)
      /\ DOMAIN threads = 1..Len(threads)
      /\ t \in 1..Len(threads)
  BY ThreadsFacts DEF ListInv, TypeOK
<1>2. /\ threads' \in Seq(ThreadData)
      /\ Len(threads') = Len(threads)
      /\ \A u \in DOMAIN threads : threads'[u] = IF u = t THEN d ELSE threads[u]
  BY <1>1, ExceptSeq
<1>3. DOMAIN threads' = DOMAIN threads
  BY <1>1, <1>2, LenProperties
<1>4. \A u \in DOMAIN threads :
        /\ Key(u)' = Key(u)
        /\ threads'[u].exit = 1 <=> threads[u].exit = 1
        /\ threads'[u].pc \in Leaving => threads'[u].exit = 1
  BY <1>2 DEF Key, KeyOf, ListInv, LeaversAreUnlisted
<1>5. threadList \cup oldList \subseteq DOMAIN threads
  BY DEF ListInv, TypeOK
<1>6. TypeOK'
  BY <1>2, <1>3 DEF ListInv, TypeOK
<1>7. LeaversAreUnlisted'
  BY <1>3, <1>4 DEF ListInv, LeaversAreUnlisted
<1>8. {Key(u) : u \in threadList}' = {Key(u) : u \in threadList}
  BY <1>4, <1>5
<1>9. ListsByPhase'
  BY <1>4, <1>5, <1>8 DEF ListInv, ListsByPhase, OneThreadPerLine
<1>10. \A u, v \in oldList' : Key(u)' = Key(v)' => u = v
  BY <1>4, <1>5 DEF ListInv
<1>11. QED
  BY <1>6, <1>7, <1>9, <1>10 DEF ListInv

\* The record of a thread, field by field.
LEMMA ThreadFields ==
  ASSUME TypeOK, NEW t \in DOMAIN threads
  PROVE  /\ threads[t] \in ThreadData
         /\ threads[t].exit \in 0..2
         /\ threads[t].table \in TableName
         /\ threads[t].refs \in Counts
         /\ threads[t].statics \in SUBSET Address
         /\ threads[t].left \in SUBSET Address
         /\ threads[t].victim \in Address \cup {NoAddress}
         /\ Tracked(t) \in SUBSET Address
         /\ pfTable[threads[t].table] \in SUBSET Address
<1>1. threads[t] \in ThreadData
  BY ThreadsFacts
<1>2. /\ threads[t].exit \in 0..2
      /\ threads[t].table \in TableName
      /\ threads[t].refs \in Counts
      /\ threads[t].statics \in SUBSET Address
      /\ threads[t].left \in SUBSET Address
      /\ threads[t].victim \in Address \cup {NoAddress}
  BY <1>1 DEF ThreadData
<1>3. Tracked(t) \in SUBSET Address
  BY <1>2, CountsFacts DEF Tracked
<1>4. pfTable[threads[t].table] \in SUBSET Address
  BY <1>2 DEF TypeOK
<1>5. QED
  BY <1>1, <1>2, <1>3, <1>4

\* The start of a thread.
LEMMA FetchKeepsInv ==
  ASSUME ListInv, NEW t \in DOMAIN threads, Fetch(t)
  PROVE  ListInv'
<1> DEFINE d == [threads[t] EXCEPT !.pc = "sleeping",
                                   !.statics = pfTable[threads[t].table]]
<1>1. /\ threads[t] \in ThreadData
      /\ pfTable[threads[t].table] \in SUBSET Address
  BY ThreadFields DEF ListInv
<1>2. /\ d \in ThreadData
      /\ KeyOf(d) = KeyOf(threads[t])
      /\ d.exit = threads[t].exit
      /\ d.pc \notin Leaving
  BY <1>1 DEF ThreadData, KeyOf, Leaving
<1>3. /\ threads' = [threads EXCEPT ![t] = d]
      /\ UNCHANGED <<pfTable, threadList, oldList, config, loaded, merge>>
  BY DEF Fetch
<1>4. pfTable' \in [TableName -> SUBSET Address]
  BY <1>3 DEF ListInv, TypeOK
<1> HIDE DEF d
<1>5. QED
  BY <1>2, <1>3, <1>4, ThreadStepKeepsInv

\* The record of a thread after a pass.
Passed(x, answer, refs) == [x EXCEPT !.exit = 0, !.answer = answer, !.refs = refs]

\* A pass leaves host, table and place of a thread, and its request is served.
LEMMA PassedFacts ==
  ASSUME NEW x \in ThreadData, NEW answer \in SUBSET Address, NEW after \in Counts
  PROVE  /\ Passed(x, answer, after) \in ThreadData
         /\ KeyOf(Passed(x, answer, after)) = KeyOf(x)
         /\ Passed(x, answer, after).exit = 0
         /\ Passed(x, answer, after).pc = x.pc
<1> DEFINE d1 == [x EXCEPT !.exit = 0]
           d2 == [d1 EXCEPT !.answer = answer]
           d3 == [d2 EXCEPT !.refs = after]
<1>1. /\ d1 \in ThreadData /\ KeyOf(d1) = KeyOf(x)
      /\ d1.exit = 0 /\ d1.pc = x.pc
  BY DEF ThreadData, KeyOf
<1> HIDE DEF d1
<1>2. /\ d2 \in ThreadData /\ KeyOf(d2) = KeyOf(d1)
      /\ d2.exit = d1.exit /\ d2.pc = d1.pc
  BY <1>1 DEF ThreadData, KeyOf
<1> HIDE DEF d2
<1>3. /\ d3 \in ThreadData /\ KeyOf(d3) = KeyOf(d2)
      /\ d3.exit = d2.exit /\ d3.pc = d2.pc
  BY <1>2 DEF ThreadData, KeyOf
<1>4. Passed(x, answer, after) = d3
  BY DEF Passed, d1, d2
<1> HIDE DEF d3
<1>5. QED
  BY <1>1, <1>2, <1>3, <1>4

\* A pass: what it adds to the table and counts are addresses.
LEMMA PassKeepsInv ==
  ASSUME ListInv, NEW t \in DOMAIN threads, Pass(t)
  PROVE  ListInv'
<1>1. PICK answer \in (SUBSET Address) \ {{}} :
        LET fresh   == answer \ threads[t].statics
            added   == ToAdd(t, fresh)
            refs    == Released(Counted(threads[t].refs, fresh))
            expired == Expired(t, refs)
        IN \E notAdded \in Failing("add", added) :
           \E reported \in Failing("delete", expired) :
           \E kept \in SUBSET reported :
             /\ threads' = [threads EXCEPT
                  ![t].exit = 0,
                  ![t].answer = answer,
                  ![t].refs = Restrict(refs, DOMAIN refs \ (expired \ reported))]
             /\ pfTable' = [pfTable EXCEPT ![threads[t].table] =
                  (@ \cup (added \ notAdded)) \ (expired \ kept)]
             /\ CountFailure(notAdded \cup reported)
  BY DEF Pass
<1> DEFINE fresh   == answer \ threads[t].statics
           added   == ToAdd(t, fresh)
           refs    == Released(Counted(threads[t].refs, fresh))
           expired == Expired(t, refs)
<1>2. \E notAdded \in Failing("add", added) :
      \E reported \in Failing("delete", expired) :
      \E kept \in SUBSET reported :
        /\ threads' = [threads EXCEPT
             ![t].exit = 0,
             ![t].answer = answer,
             ![t].refs = Restrict(refs, DOMAIN refs \ (expired \ reported))]
        /\ pfTable' = [pfTable EXCEPT ![threads[t].table] =
             (@ \cup (added \ notAdded)) \ (expired \ kept)]
        /\ CountFailure(notAdded \cup reported)
  BY <1>1
<1> HIDE DEF fresh, added, refs, expired
<1>3. PICK notAdded \in Failing("add", added) :
      \E reported \in Failing("delete", expired) :
      \E kept \in SUBSET reported :
        /\ threads' = [threads EXCEPT
             ![t].exit = 0,
             ![t].answer = answer,
             ![t].refs = Restrict(refs, DOMAIN refs \ (expired \ reported))]
        /\ pfTable' = [pfTable EXCEPT ![threads[t].table] =
             (@ \cup (added \ notAdded)) \ (expired \ kept)]
  BY <1>2
<1>4. PICK reported \in Failing("delete", expired) :
      \E kept \in SUBSET reported :
        /\ threads' = [threads EXCEPT
             ![t].exit = 0,
             ![t].answer = answer,
             ![t].refs = Restrict(refs, DOMAIN refs \ (expired \ reported))]
        /\ pfTable' = [pfTable EXCEPT ![threads[t].table] =
             (@ \cup (added \ notAdded)) \ (expired \ kept)]
  BY <1>3
<1>5. PICK kept \in SUBSET reported :
        /\ threads' = [threads EXCEPT
             ![t].exit = 0,
             ![t].answer = answer,
             ![t].refs = Restrict(refs, DOMAIN refs \ (expired \ reported))]
        /\ pfTable' = [pfTable EXCEPT ![threads[t].table] =
             (@ \cup (added \ notAdded)) \ (expired \ kept)]
  BY <1>4
<1> DEFINE after == Restrict(refs, DOMAIN refs \ (expired \ reported))
           d == Passed(threads[t], answer, after)
<1> HIDE DEF after, d
<1>6. /\ threads[t].exit # 1
      /\ threads[t].pc = "sleeping"
      /\ UNCHANGED <<threadList, oldList, config, loaded, merge>>
  BY DEF Pass
<1>7. /\ threads[t] \in ThreadData
      /\ threads[t].refs \in Counts
      /\ threads[t].table \in TableName
      /\ pfTable[threads[t].table] \in SUBSET Address
  BY ThreadFields DEF ListInv
<1>8. fresh \in SUBSET Address
  BY DEF fresh
<1>9. added \in SUBSET Address
  BY <1>8 DEF added, ToAdd
<1>10. after \in Counts
  BY <1>7, <1>8, PassCounts DEF after, refs
<1>11. pfTable' \in [TableName -> SUBSET Address]
  BY <1>5, <1>7, <1>9 DEF ListInv, TypeOK
<1>12. /\ d \in ThreadData
       /\ KeyOf(d) = KeyOf(threads[t])
       /\ d.exit = 0
       /\ d.pc = "sleeping"
  BY <1>6, <1>7, <1>10, PassedFacts DEF d
<1>13. threads' = [threads EXCEPT ![t] = d]
  BY <1>5 DEF d, after, Passed
<1>14. "sleeping" \notin Leaving
  BY DEF Leaving
<1>15. (d.exit = 1 <=> threads[t].exit = 1) /\ (d.pc \in Leaving => d.exit = 1)
  BY <1>6, <1>12, <1>14
<1>16. QED
  BY <1>6, <1>11, <1>12, <1>13, <1>15, ThreadStepKeepsInv

\* A pass that resolves nothing.
LEMMA PassUnresolvedKeepsInv ==
  ASSUME ListInv, NEW t \in DOMAIN threads, PassUnresolved(t)
  PROVE  ListInv'
<1> DEFINE d == [threads[t] EXCEPT !.exit = 0]
<1>1. threads[t] \in ThreadData
  BY ThreadFields DEF ListInv
<1>2. threads[t].exit = 2 /\ threads[t].pc = "sleeping"
  BY DEF PassUnresolved
<1>3. /\ d \in ThreadData
      /\ KeyOf(d) = KeyOf(threads[t])
      /\ d.exit = 0
      /\ d.pc \notin Leaving
  BY <1>1, <1>2 DEF ThreadData, KeyOf, Leaving
<1>4. /\ threads' = [threads EXCEPT ![t] = d]
      /\ UNCHANGED <<pfTable, threadList, oldList, config, loaded, merge>>
  BY DEF PassUnresolved
<1>5. pfTable' \in [TableName -> SUBSET Address]
  BY <1>4 DEF ListInv, TypeOK
<1> HIDE DEF d
<1>6. (d.exit = 1 <=> threads[t].exit = 1) /\ (d.pc \in Leaving => d.exit = 1)
  BY <1>2, <1>3
<1>7. QED
  BY <1>3, <1>4, <1>5, <1>6, ThreadStepKeepsInv

\* A thread that finds exit set goes to its end.
LEMMA LeaveKeepsInv ==
  ASSUME ListInv, NEW t \in DOMAIN threads, Leave(t)
  PROVE  ListInv'
<1> DEFINE next == IF Tracked(t) = {} THEN "gone" ELSE "cleaning"
           d == [threads[t] EXCEPT !.pc = next, !.left = Tracked(t)]
<1>1. threads[t] \in ThreadData /\ Tracked(t) \in SUBSET Address
  BY ThreadFields DEF ListInv
<1>2. threads[t].exit = 1 /\ next \in Leaving
  BY DEF Leave, Leaving
<1>3. /\ threads' = [threads EXCEPT ![t] = d]
      /\ UNCHANGED <<pfTable, threadList, oldList, config, loaded, merge>>
  BY DEF Leave
<1> HIDE DEF next
<1>4. /\ d \in ThreadData
      /\ KeyOf(d) = KeyOf(threads[t])
      /\ d.exit = 1
  BY <1>1, <1>2 DEF ThreadData, KeyOf
<1>5. pfTable' \in [TableName -> SUBSET Address]
  BY <1>3 DEF ListInv, TypeOK
<1> HIDE DEF d
<1>6. QED
  BY <1>2, <1>3, <1>4, <1>5, ThreadStepKeepsInv

\* The record of a thread that is cleaning up.
Cleaned(x, next, left, victim) ==
  [x EXCEPT !.pc = next, !.left = left, !.victim = victim]

\* Cleaning up changes only where the clean up stands.
LEMMA CleanedFacts ==
  ASSUME NEW x \in ThreadData, NEW next \in Leaving, NEW left \in SUBSET Address,
         NEW victim \in Address \cup {NoAddress}
  PROVE  /\ Cleaned(x, next, left, victim) \in ThreadData
         /\ KeyOf(Cleaned(x, next, left, victim)) = KeyOf(x)
         /\ Cleaned(x, next, left, victim).exit = x.exit
<1> DEFINE d1 == [x EXCEPT !.pc = next]
           d2 == [d1 EXCEPT !.left = left]
           d3 == [d2 EXCEPT !.victim = victim]
<1>1. d1 \in ThreadData /\ KeyOf(d1) = KeyOf(x) /\ d1.exit = x.exit
  BY DEF ThreadData, KeyOf
<1> HIDE DEF d1
<1>2. d2 \in ThreadData /\ KeyOf(d2) = KeyOf(d1) /\ d2.exit = d1.exit
  BY <1>1 DEF ThreadData, KeyOf
<1> HIDE DEF d2
<1>3. d3 \in ThreadData /\ KeyOf(d3) = KeyOf(d2) /\ d3.exit = d2.exit
  BY <1>2 DEF ThreadData, KeyOf
<1>4. Cleaned(x, next, left, victim) = d3
  BY DEF Cleaned, d1, d2
<1> HIDE DEF d3
<1>5. QED
  BY <1>1, <1>2, <1>3, <1>4

\* The two steps of the clean up.
LEMMA CleanKeepsInv ==
  ASSUME ListInv, NEW t \in DOMAIN threads, CleanLook(t) \/ CleanDelete(t)
  PROVE  ListInv'
<1>1. /\ threads[t] \in ThreadData
      /\ threads[t].left \in SUBSET Address
      /\ threads[t].victim \in Address \cup {NoAddress}
      /\ threads[t].table \in TableName
  BY ThreadFields DEF ListInv
<1>2. threads[t].pc \in Leaving
  BY DEF CleanLook, CleanDelete, Leaving
<1>3. threads[t].exit = 1
  BY <1>2 DEF ListInv, LeaversAreUnlisted
<1>4. UNCHANGED <<threadList, oldList, config, loaded, merge>>
  BY DEF CleanLook, CleanDelete
<1>5. pfTable' \in [TableName -> SUBSET Address]
  <2>1. CASE CleanLook(t)
    BY <2>1 DEF CleanLook, ListInv, TypeOK
  <2>2. CASE CleanDelete(t)
    <3>1. PICK kept : pfTable' = [pfTable EXCEPT
            ![threads[t].table] = @ \ ({threads[t].victim} \ kept)]
      BY <2>2 DEF CleanDelete
    <3>2. QED
      BY <1>1, <3>1 DEF ListInv, TypeOK
  <2>3. QED
    BY <2>1, <2>2
<1>6. \E next \in Leaving, left \in SUBSET Address,
         victim \in Address \cup {NoAddress} :
        threads' = [threads EXCEPT ![t] = Cleaned(threads[t], next, left, victim)]
  <2>1. CASE CleanLook(t) /\ SameTable(t)
    <3>1. PICK a \in threads[t].left :
            threads' = [threads EXCEPT ![t].left = threads[t].left \ {a},
                                       ![t].pc = Ended(t, threads[t].left \ {a})]
      BY <2>1 DEF CleanLook
    <3>2. threads' = [threads EXCEPT
            ![t] = Cleaned(threads[t], Ended(t, threads[t].left \ {a}),
                           threads[t].left \ {a}, threads[t].victim)]
      BY <1>1, <3>1 DEF Cleaned, ThreadData
    <3>3. Ended(t, threads[t].left \ {a}) \in Leaving
      BY DEF Ended, Leaving
    <3>4. QED
      BY <1>1, <3>2, <3>3
  <2>2. CASE CleanLook(t) /\ ~SameTable(t)
    <3>1. PICK a \in threads[t].left :
            threads' = [threads EXCEPT ![t].left = threads[t].left \ {a},
                                       ![t].victim = a, ![t].pc = "deleting"]
      BY <2>2 DEF CleanLook
    <3>2. threads' = [threads EXCEPT
            ![t] = Cleaned(threads[t], "deleting", threads[t].left \ {a}, a)]
      BY <1>1, <3>1 DEF Cleaned, ThreadData
    <3>3. "deleting" \in Leaving
      BY DEF Leaving
    <3>4. QED
      BY <1>1, <3>2, <3>3
  <2>3. CASE CleanDelete(t)
    <3>1. threads' = [threads EXCEPT ![t].victim = NoAddress,
                                     ![t].pc = Ended(t, threads[t].left)]
      BY <2>3 DEF CleanDelete
    <3>2. threads' = [threads EXCEPT
            ![t] = Cleaned(threads[t], Ended(t, threads[t].left), threads[t].left,
                           NoAddress)]
      BY <1>1, <3>1 DEF Cleaned, ThreadData
    <3>3. Ended(t, threads[t].left) \in Leaving
      BY DEF Ended, Leaving
    <3>4. QED
      BY <1>1, <3>2, <3>3
  <2>4. QED
    BY <2>1, <2>2, <2>3
<1>7. PICK next \in Leaving, left \in SUBSET Address,
           victim \in Address \cup {NoAddress} :
        threads' = [threads EXCEPT ![t] = Cleaned(threads[t], next, left, victim)]
  BY <1>6
<1> DEFINE d == Cleaned(threads[t], next, left, victim)
<1>8. d \in ThreadData /\ KeyOf(d) = KeyOf(threads[t]) /\ d.exit = 1
  BY <1>1, <1>3, CleanedFacts
<1> HIDE DEF d
<1>9. QED
  BY <1>3, <1>4, <1>5, <1>7, <1>8, ThreadStepKeepsInv DEF d

-----------------------------------------------------------------------------
(* The merge. *)

\* The signal thread moves thread_list to its own list.
LEMMA MergeBeginKeepsInv == ListInv /\ MergeBegin => ListInv'
<1> SUFFICES ASSUME ListInv, MergeBegin
             PROVE  ListInv'
  OBVIOUS
<1>1. /\ merge = "woken" /\ merge' = "emptied"
      /\ oldList' = threadList /\ threadList' = {}
      /\ UNCHANGED <<threads, pfTable, config, loaded>>
  BY DEF MergeBegin
<1>2. oldList = {} /\ OneThreadPerLine(threadList, loaded)
  BY <1>1 DEF ListInv, ListsByPhase
<1>3. TypeOK'
  BY <1>1 DEF ListInv, TypeOK
<1>4. ListsByPhase'
  BY <1>1 DEF ListsByPhase
<1>5. \A t, u \in oldList' : Key(t)' = Key(u)' => t = u
  BY <1>1, <1>2 DEF OneThreadPerLine, Key
<1>6. LeaversAreUnlisted'
  BY <1>1, <1>2 DEF ListInv, LeaversAreUnlisted
<1>7. QED
  BY <1>1, <1>3, <1>4, <1>5, <1>6 DEF ListInv

\* What is left over is told to leave.
LEMMA MergeEndKeepsInv == ListInv /\ MergeEnd => ListInv'
<1> SUFFICES ASSUME ListInv, MergeEnd
             PROVE  ListInv'
  OBVIOUS
<1>1. /\ merge = "parsed" /\ merge' = "waiting"
      /\ threads' = [t \in DOMAIN threads |->
                       IF t \in oldList THEN [threads[t] EXCEPT !.exit = 1]
                       ELSE threads[t]]
      /\ oldList' = {}
      /\ UNCHANGED <<threadList, pfTable, config, loaded>>
  BY DEF MergeEnd
<1>2. /\ Len(threads) \in Nat
      /\ DOMAIN threads = 1..Len(threads)
      /\ \A t \in DOMAIN threads : threads[t] \in ThreadData
  BY ThreadsFacts DEF ListInv
<1>3. ASSUME NEW t \in DOMAIN threads
      PROVE  /\ threads'[t] \in ThreadData
             /\ KeyOf(threads'[t]) = KeyOf(threads[t])
             /\ threads'[t].exit = IF t \in oldList THEN 1 ELSE threads[t].exit
             /\ threads'[t].pc = threads[t].pc
  <2>1. CASE t \in oldList
    <3>1. threads'[t] = [threads[t] EXCEPT !.exit = 1]
      BY <1>1, <2>1
    <3>2. QED
      BY <1>2, <2>1, <3>1 DEF ThreadData, KeyOf
  <2>2. CASE t \notin oldList
    BY <1>1, <1>2, <2>2
  <2>3. QED
    BY <2>1, <2>2
<1>4. DOMAIN threads' = DOMAIN threads
  BY <1>1
<1>5. threads' \in Seq(ThreadData)
  <2>1. threads' \in [1..Len(threads) -> ThreadData]
    BY <1>1, <1>2, <1>3
  <2>2. QED
    BY <1>2, <2>1
<1>6. threadList \subseteq DOMAIN threads
  BY DEF ListInv, TypeOK
<1>7. \A t \in DOMAIN threads : Key(t)' = Key(t)
  BY <1>3 DEF Key, KeyOf
<1>8. TypeOK'
  BY <1>1, <1>4, <1>5, <1>6 DEF ListInv, TypeOK
<1>9. ListsByPhase'
  <2>1. OneThreadPerLine(threadList, loaded)
    BY <1>1 DEF ListInv, ListsByPhase
  <2>2. {Key(t) : t \in threadList}' = {Key(t) : t \in threadList}
    BY <1>1, <1>6, <1>7
  <2>3. OneThreadPerLine(threadList, loaded)'
    BY <1>1, <1>6, <1>7, <2>1, <2>2 DEF OneThreadPerLine
  <2>4. QED
    BY <1>1, <2>3 DEF ListsByPhase
<1>10. LeaversAreUnlisted'
  <2>1. \A t \in DOMAIN threads :
          /\ threads[t].exit # 1 <=> t \in threadList \cup oldList
          /\ threads[t].pc \in Leaving => threads[t].exit = 1
    BY DEF ListInv, LeaversAreUnlisted
  <2>2. threadList \cap oldList = {}
    BY DEF ListInv, LeaversAreUnlisted
  <2>3. \A t \in DOMAIN threads :
          /\ threads'[t].exit # 1 <=> t \in threadList
          /\ threads'[t].pc \in Leaving => threads'[t].exit = 1
    BY <1>3, <2>1, <2>2
  <2>4. QED
    BY <1>1, <1>4, <2>3 DEF LeaversAreUnlisted
<1>11. QED
  BY <1>1, <1>8, <1>9, <1>10 DEF ListInv

\* Every line of the new file keeps its thread or gets a new one.
LEMMA MergeParseKeepsInv == ListInv /\ MergeParse => ListInv'
<1> SUFFICES ASSUME ListInv, MergeParse
             PROVE  ListInv'
  OBVIOUS
<1> DEFINE kept  == {t \in oldList : Key(t) \in config}
           lines == config \ {Key(t) : t \in kept}
           old   == [t \in DOMAIN threads |->
                       IF t \in kept THEN [threads[t] EXCEPT !.exit = 2]
                       ELSE threads[t]]
<1>0. PICK n \in Nat : n = Len(threads)
  BY ThreadsFacts DEF ListInv
<1>1. PICK new \in NewThreads(lines) :
        /\ threads' = old \o new
        /\ threadList' = kept \cup {n + i : i \in DOMAIN new}
        /\ oldList' = oldList \ kept
  BY <1>0 DEF MergeParse
<1>2. /\ merge = "emptied" /\ merge' = "parsed" /\ loaded' = config
      /\ UNCHANGED <<pfTable, config>>
  BY DEF MergeParse
<1>3. /\ n \in Nat
      /\ DOMAIN threads = 1..n
      /\ \A t \in 1..n : threads[t] \in ThreadData
      /\ oldList \subseteq 1..n
  BY <1>0, ThreadsFacts DEF ListInv, TypeOK
<1>4. /\ \A t \in 1..n : threads[t].exit # 1 <=> t \in oldList
      /\ \A t \in 1..n : threads[t].pc \in Leaving => threads[t].exit = 1
      /\ \A t, u \in oldList : Key(t) = Key(u) => t = u
  BY <1>2, <1>3 DEF ListInv, ListsByPhase, LeaversAreUnlisted
<1>5. /\ lines \in SUBSET (Host \X TableName)
      /\ IsFiniteSet(lines)
  <2>1. config \in SUBSET (Host \X TableName) /\ IsFiniteSet(config)
    BY FilesAreFinite DEF ListInv
  <2>2. QED
    BY <2>1, FS_Difference
<1> HIDE DEF lines
<1>6. /\ new \in Seq(ThreadData)
      /\ \A i \in DOMAIN new : new[i].exit = 0 /\ new[i].pc \notin Leaving
      /\ \A i \in DOMAIN new : KeyOf(new[i]) \in lines
      /\ \A k \in lines : \E i \in DOMAIN new : KeyOf(new[i]) = k
      /\ \A i, j \in DOMAIN new : KeyOf(new[i]) = KeyOf(new[j]) => i = j
  BY <1>5, NewThreadsFacts
<1>7. Len(new) \in Nat /\ DOMAIN new = 1..Len(new)
  BY <1>6, LenProperties
<1>8. ASSUME NEW t \in 1..n
      PROVE  /\ old[t] \in ThreadData
             /\ KeyOf(old[t]) = Key(t)
             /\ old[t].exit = IF t \in kept THEN 2 ELSE threads[t].exit
             /\ old[t].pc = threads[t].pc
  <2>1. CASE t \in kept
    <3>1. old[t] = [threads[t] EXCEPT !.exit = 2]
      BY <1>3, <2>1
    <3> HIDE DEF old, kept
    <3>2. QED
      BY <1>3, <2>1, <3>1 DEF ThreadData, KeyOf, Key
  <2>2. CASE t \notin kept
    <3>1. old[t] = threads[t]
      BY <1>3, <2>2
    <3> HIDE DEF old, kept
    <3>2. QED
      BY <1>3, <2>2, <3>1 DEF KeyOf, Key
  <2>3. QED
    BY <2>1, <2>2
<1>9. old \in Seq(ThreadData) /\ Len(old) = n
  <2>1. old \in [1..n -> ThreadData]
    <3>1. DOMAIN old = 1..n /\ old = [t \in 1..n |-> old[t]]
      BY <1>3
    <3> HIDE DEF old
    <3>2. QED
      BY <1>8, <3>1
  <2> HIDE DEF old
  <2>2. QED
    BY <1>3, <2>1
<1> HIDE DEF old
<1>10. /\ threads' \in Seq(ThreadData)
       /\ Len(threads') = n + Len(new)
       /\ \A t \in 1..n + Len(new) :
            threads'[t] = IF t <= n THEN old[t] ELSE new[t - n]
  <2>1. /\ old \o new \in Seq(ThreadData)
        /\ Len(old \o new) = Len(old) + Len(new)
        /\ \A t \in 1..Len(old) + Len(new) :
             (old \o new)[t] = IF t <= Len(old) THEN old[t] ELSE new[t - Len(old)]
    <3>1. old \in Seq(ThreadData) /\ new \in Seq(ThreadData)
      BY <1>6, <1>9
    <3>2. QED
      BY <3>1, ConcatProperties
  <2>2. QED
    BY <1>1, <1>9, <2>1
<1>11. DOMAIN threads' = 1..n + Len(new)
  BY <1>10, LenProperties
<1> HIDE DEF kept
<1>12. kept \subseteq oldList /\ oldList' = oldList \ kept
  BY <1>1 DEF kept
<1>13. ASSUME NEW t \in 1..n
       PROVE  /\ t \in DOMAIN threads'
              /\ Key(t)' = Key(t)
              /\ threads'[t].exit = IF t \in kept THEN 2 ELSE threads[t].exit
              /\ threads'[t].pc = threads[t].pc
  <2>1. t \in 1..n + Len(new) /\ threads'[t] = old[t]
    BY <1>3, <1>7, <1>10
  <2>2. QED
    BY <1>8, <1>11, <2>1 DEF Key, KeyOf
<1>14. ASSUME NEW i \in DOMAIN new
       PROVE  /\ n + i \in DOMAIN threads' /\ n + i \notin 1..n
              /\ Key(n + i)' = KeyOf(new[i])
              /\ threads'[n + i].exit = 0
              /\ threads'[n + i].pc \notin Leaving
  <2>1. n + i \in 1..n + Len(new) /\ n + i > n /\ (n + i) - n = i
    BY <1>3, <1>7
  <2>2. threads'[n + i] = new[i]
    BY <1>3, <1>10, <2>1
  <2>3. Key(n + i)' = KeyOf(new[i])
    BY <2>2 DEF Key, KeyOf
  <2>4. QED
    BY <1>3, <1>6, <1>11, <2>1, <2>2, <2>3
<1>15. ASSUME NEW t \in DOMAIN threads'
       PROVE  t \in 1..n \/ \E i \in DOMAIN new : t = n + i
  <2>1. CASE t <= n
    BY <1>3, <1>7, <1>11, <2>1
  <2>2. CASE t > n
    <3>1. t - n \in DOMAIN new /\ t = n + (t - n)
      BY <1>3, <1>7, <1>11, <2>2
    <3>2. QED
      BY <3>1
  <2>3. QED
    BY <1>3, <1>7, <1>11, <2>1, <2>2
<1>16. threadList' \subseteq DOMAIN threads' /\ oldList' \subseteq DOMAIN threads'
  BY <1>1, <1>3, <1>12, <1>13, <1>14
<1>17. TypeOK'
  BY <1>2, <1>10, <1>16 DEF ListInv, TypeOK
<1>18. LeaversAreUnlisted'
  <2>1. threadList' \cap oldList' = {}
    BY <1>1, <1>3, <1>12, <1>14
  <2>2. ASSUME NEW t \in DOMAIN threads'
        PROVE  /\ threads'[t].exit # 1 <=> t \in threadList' \cup oldList'
               /\ threads'[t].pc \in Leaving => threads'[t].exit = 1
    <3>1. CASE t \in 1..n
      <4>1. t \in threadList' \cup oldList' <=> t \in oldList
        BY <1>1, <1>12, <1>14, <3>1
      <4>2. QED
        BY <1>4, <1>12, <1>13, <3>1, <4>1
    <3>2. CASE \E i \in DOMAIN new : t = n + i
      BY <1>1, <1>14, <3>2
    <3>3. QED
      BY <1>15, <3>1, <3>2
  <2>3. QED
    BY <2>1, <2>2 DEF LeaversAreUnlisted
<1>19. OneThreadPerLine(threadList, loaded)'
  <2>1. ASSUME NEW k \in config
        PROVE  \E t \in threadList' : Key(t)' = k
    <3>1. CASE k \in lines
      <4>1. PICK i \in DOMAIN new : KeyOf(new[i]) = k
        BY <1>6, <3>1
      <4>2. n + i \in threadList' /\ Key(n + i)' = k
        BY <1>1, <1>14, <4>1
      <4>3. QED
        BY <4>2
    <3>2. CASE k \notin lines
      <4>1. PICK t \in kept : Key(t) = k
        BY <3>2 DEF lines
      <4>2. t \in threadList' /\ Key(t)' = k
        BY <1>1, <1>3, <1>12, <1>13, <4>1
      <4>3. QED
        BY <4>2
    <3>3. QED
      BY <3>1, <3>2
  <2>2. ASSUME NEW t \in threadList'
        PROVE  Key(t)' \in config
    <3>1. CASE t \in kept
      BY <1>3, <1>12, <1>13, <3>1 DEF kept
    <3>2. CASE \E i \in DOMAIN new : t = n + i
      BY <1>6, <1>14, <3>2 DEF lines
    <3>3. QED
      BY <1>1, <3>1, <3>2
  <2>3. ASSUME NEW t \in threadList', NEW u \in threadList', Key(t)' = Key(u)'
        PROVE  t = u
    <3>1. CASE t \in kept /\ u \in kept
      BY <1>3, <1>4, <1>12, <1>13, <2>3, <3>1
    <3>2. CASE \E i, j \in DOMAIN new : t = n + i /\ u = n + j
      <4>1. PICK i \in DOMAIN new, j \in DOMAIN new : t = n + i /\ u = n + j
        BY <3>2
      <4>2. KeyOf(new[i]) = KeyOf(new[j])
        BY <1>14, <2>3, <4>1
      <4>3. QED
        BY <1>6, <4>1, <4>2
    <3>3. ASSUME NEW a \in kept, NEW i \in DOMAIN new, Key(a)' = Key(n + i)'
          PROVE  FALSE
      <4>1. Key(a) \in lines
        BY <1>3, <1>6, <1>12, <1>13, <1>14, <3>3
      <4>2. QED
        BY <4>1 DEF lines
    <3>4. QED
      BY <1>1, <2>3, <3>1, <3>2, <3>3
  <2>4. QED
    BY <1>2, <2>1, <2>2, <2>3 DEF OneThreadPerLine
<1>20. ListsByPhase'
  BY <1>2, <1>19 DEF ListsByPhase
<1>21. ASSUME NEW t \in oldList', NEW u \in oldList', Key(t)' = Key(u)'
       PROVE  t = u
  <2>1. t \in oldList /\ u \in oldList
    BY <1>12
  <2>2. Key(t)' = Key(t) /\ Key(u)' = Key(u)
    BY <1>3, <1>13, <2>1
  <2>3. QED
    BY <1>4, <1>21, <2>1, <2>2
<1>22. QED
  BY <1>2, <1>17, <1>18, <1>20, <1>21 DEF ListInv

-----------------------------------------------------------------------------
(* The theorems. *)

\* SIGHUP touches no list.
LEMMA ChangeConfigKeepsInv ==
  ASSUME ListInv, NEW c \in Configs, ChangeConfig(c)
  PROVE  ListInv'
<1>1. /\ config' = c
      /\ merge' = IF merge = "waiting" THEN "woken" ELSE merge
      /\ UNCHANGED <<threads, threadList, oldList, pfTable, loaded>>
  BY DEF ChangeConfig
<1>2. c \in Files /\ c \in SUBSET (Host \X TableName)
  BY FilesAreFinite DEF Files
<1>3. TypeOK'
  BY <1>1, <1>2 DEF ListInv, TypeOK
<1>4. ListsByPhase'
  BY <1>1 DEF ListInv, ListsByPhase, OneThreadPerLine, Key
<1>5. LeaversAreUnlisted'
  BY <1>1 DEF ListInv, LeaversAreUnlisted
<1>6. QED
  BY <1>1, <1>2, <1>3, <1>4, <1>5 DEF ListInv, Key

\* Every step of filterdns keeps the invariant.
LEMMA StepKeepsInv == ListInv /\ [Next]_vars => ListInv'
<1> SUFFICES ASSUME ListInv, [Next]_vars
             PROVE  ListInv'
  OBVIOUS
<1>1. ASSUME NEW t \in DOMAIN threads,
             \/ Fetch(t) \/ Pass(t) \/ PassUnresolved(t)
             \/ Leave(t) \/ CleanLook(t) \/ CleanDelete(t)
      PROVE  ListInv'
  BY <1>1, FetchKeepsInv, PassKeepsInv, PassUnresolvedKeepsInv, LeaveKeepsInv,
     CleanKeepsInv
<1>2. CASE \E c \in Configs : ChangeConfig(c)
  BY <1>2, ChangeConfigKeepsInv
<1>3. CASE Merge
  BY <1>3, MergeBeginKeepsInv, MergeParseKeepsInv, MergeEndKeepsInv DEF Merge
<1>4. CASE UNCHANGED vars
  BY <1>4 DEF vars, ListInv, TypeOK, ListsByPhase, OneThreadPerLine, Key,
     LeaversAreUnlisted
<1>5. QED
  BY <1>1, <1>2, <1>3, <1>4 DEF Next

\* The threads of the first file.
LEMMA InitEstablishesInv == Init => ListInv
<1> SUFFICES ASSUME Init
             PROVE  ListInv
  OBVIOUS
<1>1. /\ threads \in NewThreads(FirstConfig)
      /\ threadList = DOMAIN threads
      /\ oldList = {}
      /\ pfTable = [tb \in TableName |-> Static]
      /\ config = FirstConfig /\ loaded = FirstConfig
      /\ merge = "waiting"
  BY DEF Init
<1>2. FirstConfig \in SUBSET (Host \X TableName) /\ IsFiniteSet(FirstConfig)
  BY FilterDnsAssumption
<1>3. /\ threads \in Seq(ThreadData)
      /\ \A i \in DOMAIN threads : threads[i].exit = 0 /\ threads[i].pc \notin Leaving
      /\ \A i \in DOMAIN threads : KeyOf(threads[i]) \in FirstConfig
      /\ \A k \in FirstConfig : \E i \in DOMAIN threads : KeyOf(threads[i]) = k
      /\ \A i, j \in DOMAIN threads : KeyOf(threads[i]) = KeyOf(threads[j]) => i = j
  BY <1>1, <1>2, NewThreadsFacts
<1>4. TypeOK
  <2>1. pfTable \in [TableName -> SUBSET Address]
    BY <1>1, FilterDnsAssumption
  <2>2. QED
    BY <1>1, <1>2, <1>3, <2>1 DEF TypeOK
<1>5. OneThreadPerLine(threadList, loaded)
  BY <1>1, <1>3 DEF OneThreadPerLine, Key, KeyOf
<1>6. ListsByPhase
  BY <1>1, <1>5 DEF ListsByPhase
<1>7. LeaversAreUnlisted
  BY <1>1, <1>3 DEF LeaversAreUnlisted
<1>8. QED
  BY <1>1, <1>4, <1>6, <1>7 DEF ListInv, Files

\* The lists, the threads' exit flags and their ends agree in every reachable
\* state, for any hosts, tables, reloads and failures.
THEOREM ListInvariant == Spec => []ListInv
<1>1. QED
  BY InitEstablishesInv, StepKeepsInv, PTL DEF Spec

\* Every variable of filterdns keeps its type; reference counts stay in a u_int.
THEOREM TypeCorrect == Spec => []TypeOK
<1>1. ListInv => TypeOK
  BY DEF ListInv
<1>2. QED
  BY <1>1, ListInvariant, PTL

\* No walk of thread_list or of merge_config's list meets a struct thread_data
\* that its thread is about to free: with any number of reloads, at any moment.
THEOREM ListedThreadsAreAlive == Spec => []FreedThreadsAreUnlisted
<1>1. ListInv => FreedThreadsAreUnlisted
  <2> SUFFICES ASSUME ListInv, NEW t \in threadList \cup oldList
               PROVE  threads[t].pc \notin Leaving
    BY DEF FreedThreadsAreUnlisted
  <2>1. t \in DOMAIN threads
    BY DEF ListInv, TypeOK
  <2>2. QED
    BY <2>1 DEF ListInv, LeaversAreUnlisted
<1>2. QED
  BY <1>1, ListInvariant, PTL

\* Between merges thread_list has exactly one thread for each line of the file
\* read last, and every other thread has been told to leave.
THEOREM ListFollowsConfig == Spec => []ListMatchesConfig
<1>1. ListInv => ListMatchesConfig
  <2> SUFFICES ASSUME ListInv, Readable
               PROVE  /\ {Key(t) : t \in threadList} = loaded
                      /\ Cardinality(threadList) = Cardinality(loaded)
                      /\ \A t \in DOMAIN threads :
                           t \in threadList <=> threads[t].exit # 1
    BY DEF ListMatchesConfig
  <2>1. oldList = {} /\ OneThreadPerLine(threadList, loaded)
    BY DEF ListInv, ListsByPhase, Readable
  <2>2. IsFiniteSet(threadList)
    <3>1. IsFiniteSet(loaded)
      BY FilesAreFinite DEF ListInv
    <3> DEFINE f == [t \in threadList |-> Key(t)]
    <3>2. f \in Injection(threadList, loaded)
      BY <2>1 DEF OneThreadPerLine, Injection, IsInjective
    <3> HIDE DEF f
    <3>3. QED
      BY <3>1, <3>2, FS_Injection
  <2>3. Cardinality(threadList) = Cardinality(loaded)
    <3> DEFINE f == [t \in threadList |-> Key(t)]
    <3>1. f \in Bijection(threadList, loaded)
      BY <2>1 DEF OneThreadPerLine, Bijection, Injection, Surjection, IsInjective
    <3>2. ExistsBijection(threadList, loaded)
      BY <3>1 DEF ExistsBijection
    <3>3. QED
      BY <2>2, <3>2, FS_Bijection
  <2>4. \A t \in DOMAIN threads : t \in threadList <=> threads[t].exit # 1
    BY <2>1 DEF ListInv, LeaversAreUnlisted
  <2>5. QED
    BY <2>1, <2>3, <2>4 DEF OneThreadPerLine
<1>2. QED
  BY <1>1, ListInvariant, PTL

-----------------------------------------------------------------------------
(***************************************************************************)
(* What the threads do to the pf tables.  The addresses of the ruleset are *)
(* safe whatever happens.  What a host resolved to is in its table, and    *)
(* nothing else is, as long as pf takes every change, no count wraps round *)
(* and no table outlives a host that is taken out of it.                   *)
(***************************************************************************)

\* A file that takes a host out of a table has no other host for the table.
TablesGoWhole ==
  \A c \in Configs : \A d \in Files :
    \A k \in d \ c, l \in c : k[2] # l[2]

\* No address is seen so often that its count wraps round.
CountsFit == 2 + MaxPasses * (Repeats - 1) < RefModulus

\* Failing deletions are out of the question, tables go whole and counts fit.
CountSetting ==
  /\ "delete" \notin Faults
  /\ TablesGoWhole
  /\ CountsFit

\* Besides, pf takes every addition and the file is changed once: a table that
\* has gone does not come back while the threads that had it are leaving.
TableSetting ==
  /\ CountSetting
  /\ "add" \notin Faults
  /\ \A c, d \in Configs : c = d

-----------------------------------------------------------------------------
(* The invariants. *)

Listed == threadList \cup oldList
Table(t) == threads[t].table

\* What is static for a thread is never tracked or deleted by it, and what the
\* ruleset put into a table is static for every thread that looked.
Respects(t) ==
  /\ Tracked(t) \cap threads[t].statics = {}
  /\ threads[t].left \subseteq Tracked(t)
  /\ threads[t].victim \in Tracked(t) \cup {NoAddress}
  /\ threads[t].pc \notin Leaving => threads[t].left = {}
  /\ threads[t].pc # "deleting" => threads[t].victim = NoAddress
  /\ IF threads[t].pc \in {"unborn", "starting"}
     THEN Tracked(t) = {} /\ threads[t].answer = {}
     ELSE Static \subseteq threads[t].statics

RulesetInv ==
  /\ \A tb \in TableName : Static \subseteq pfTable[tb]
  /\ \A t \in DOMAIN threads : Respects(t)

Lone(t) == \A u \in Listed : Table(u) = Table(t) => u = t

\* While no other host has the table, a count tells what it should.  Between
\* parsing and clear_config no host that stays shares a table with one that goes.
CountInv ==
  /\ passes \in 0..MaxPasses
  /\ merge # "waiting" => config \in Configs
  /\ merge = "emptied" => \A u \in oldList : Key(u) \in loaded
  /\ merge = "parsed" =>
       \A t \in threadList, u \in oldList : Table(t) # Table(u)
  /\ \A t \in Listed : Lone(t) =>
       \A a \in Tracked(t) : threads[t].refs[a] \in 1..1 + passes * (Repeats - 1)

\* The addresses a thread is still going to delete, or keep.
Holds(t) ==
  CASE threads[t].pc \in {"cleaning", "deleting"} ->
         threads[t].left \cup {threads[t].victim}
    [] threads[t].pc = "gone" -> {}
    [] OTHER -> Tracked(t)

\* A thread that leaves does so after the last merge, from a table that no listed
\* thread has.
LeaversAreAlone ==
  \A t \in DOMAIN threads : threads[t].exit = 1 =>
    /\ merge = "waiting" /\ config \in Configs
    /\ \A u \in Listed : Table(u) # Table(t)

\* A listed thread's table has what it found there and what it tracks, and its
\* answer is among these.
AnswersAreHeld ==
  \A t \in Listed : threads[t].pc = "sleeping" =>
    /\ threads[t].answer \subseteq threads[t].statics \cup Tracked(t)
    /\ threads[t].statics \cup Tracked(t) \subseteq pfTable[Table(t)]

\* Whatever else a table has, some thread holds.
TablesAreHeld ==
  \A tb \in TableName : \A a \in pfTable[tb] \ Static :
    \E t \in DOMAIN threads : Table(t) = tb /\ a \in Holds(t)

TableInv ==
  /\ LeaversAreAlone
  /\ AnswersAreHeld
  /\ TablesAreHeld

-----------------------------------------------------------------------------
(* What the steps do, field by field. *)

\* Everything of a thread stays but exit, which a merge sets.
SameButExit(t) ==
  /\ threads'[t].host = threads[t].host
  /\ threads'[t].table = threads[t].table
  /\ threads'[t].pc = threads[t].pc
  /\ threads'[t].refs = threads[t].refs
  /\ threads'[t].statics = threads[t].statics
  /\ threads'[t].answer = threads[t].answer
  /\ threads'[t].left = threads[t].left
  /\ threads'[t].victim = threads[t].victim

OnlyThread(t) ==
  /\ DOMAIN threads' = DOMAIN threads
  /\ \A u \in DOMAIN threads : u # t => threads'[u] = threads[u]
  /\ threads'[t].host = threads[t].host
  /\ threads'[t].table = threads[t].table

ListsStay == UNCHANGED <<threadList, oldList, config, loaded, merge>>

\* The first reading of the table finds the static addresses, and changes the
\* one thread only (get_present_table_entries).
LEMMA FetchEffect ==
  ASSUME TypeOK, NEW t \in DOMAIN threads, Fetch(t)
  PROVE  /\ OnlyThread(t) /\ ListsStay
         /\ UNCHANGED <<pfTable, passes>>
         /\ threads[t].pc = "starting" /\ threads'[t].pc = "sleeping"
         /\ threads'[t].exit = threads[t].exit
         /\ threads'[t].refs = threads[t].refs
         /\ threads'[t].answer = threads[t].answer
         /\ threads'[t].left = threads[t].left
         /\ threads'[t].victim = threads[t].victim
         /\ threads'[t].statics = pfTable[Table(t)]
<1>1. threads[t] \in ThreadData
  BY ThreadFields
<1> QED
  BY <1>1 DEF Fetch, OnlyThread, ListsStay, Table, ThreadData

\* A name that does not resolve any more is noted and nothing else changes.
LEMMA PassUnresolvedEffect ==
  ASSUME TypeOK, NEW t \in DOMAIN threads, PassUnresolved(t)
  PROVE  /\ OnlyThread(t) /\ ListsStay
         /\ UNCHANGED <<pfTable, passes>>
         /\ SameButExit(t)
         /\ threads[t].exit = 2 /\ threads'[t].exit = 0
<1>1. threads[t] \in ThreadData
  BY ThreadFields
<1> QED
  BY <1>1 DEF PassUnresolved, OnlyThread, ListsStay, SameButExit, ThreadData

\* A thread told to leave begins to clean up, or is freed if it tracks nothing.
LEMMA LeaveEffect ==
  ASSUME TypeOK, NEW t \in DOMAIN threads, Leave(t)
  PROVE  /\ OnlyThread(t) /\ ListsStay
         /\ UNCHANGED <<pfTable, passes>>
         /\ threads[t].exit = 1 /\ threads'[t].exit = 1
         /\ threads[t].pc = "sleeping"
         /\ threads'[t].pc = IF Tracked(t) = {} THEN "gone" ELSE "cleaning"
         /\ threads'[t].refs = threads[t].refs
         /\ threads'[t].answer = threads[t].answer
         /\ threads'[t].left = Tracked(t)
         /\ threads'[t].victim = threads[t].victim
         /\ threads'[t].statics = threads[t].statics
<1>1. threads[t] \in ThreadData
  BY ThreadFields
<1> QED
  BY <1>1 DEF Leave, OnlyThread, ListsStay, ThreadData

\* A leaving thread looks at the list for another host with the address: it
\* decides to delete, or drops the address and goes on.
LEMMA CleanLookEffect ==
  ASSUME TypeOK, NEW t \in DOMAIN threads, CleanLook(t)
  PROVE  /\ OnlyThread(t) /\ ListsStay
         /\ UNCHANGED <<pfTable, passes>>
         /\ threads[t].pc = "cleaning"
         /\ threads'[t].exit = threads[t].exit
         /\ threads'[t].refs = threads[t].refs
         /\ threads'[t].answer = threads[t].answer
         /\ threads'[t].statics = threads[t].statics
         /\ \E a \in threads[t].left :
              /\ threads'[t].left = threads[t].left \ {a}
              /\ IF SameTable(t)
                 THEN /\ threads'[t].pc = Ended(t, threads[t].left \ {a})
                      /\ threads'[t].victim = threads[t].victim
                 ELSE /\ threads'[t].pc = "deleting"
                      /\ threads'[t].victim = a
<1>1. threads[t] \in ThreadData
  BY ThreadFields
<1>2. PICK a \in threads[t].left :
        threads' = IF SameTable(t)
                   THEN [threads EXCEPT ![t].left = threads[t].left \ {a},
                                        ![t].pc = Ended(t, threads[t].left \ {a})]
                   ELSE [threads EXCEPT ![t].left = threads[t].left \ {a},
                                        ![t].victim = a, ![t].pc = "deleting"]
  BY DEF CleanLook
<1>3. threads[t].pc = "cleaning" /\ ListsStay /\ UNCHANGED <<pfTable, passes>>
  BY DEF CleanLook, ListsStay
<1>4. CASE SameTable(t)
  BY <1>1, <1>2, <1>3, <1>4 DEF OnlyThread, ThreadData
<1>5. CASE ~SameTable(t)
  BY <1>1, <1>2, <1>3, <1>5 DEF OnlyThread, ThreadData
<1> QED
  BY <1>4, <1>5

\* A leaving thread deletes the address it has decided to delete, and no other.
LEMMA CleanDeleteEffect ==
  ASSUME TypeOK, NEW t \in DOMAIN threads, CleanDelete(t)
  PROVE  /\ OnlyThread(t) /\ ListsStay
         /\ passes' = passes
         /\ threads[t].pc = "deleting"
         /\ threads'[t].exit = threads[t].exit
         /\ threads'[t].refs = threads[t].refs
         /\ threads'[t].answer = threads[t].answer
         /\ threads'[t].left = threads[t].left
         /\ threads'[t].statics = threads[t].statics
         /\ threads'[t].pc = Ended(t, threads[t].left)
         /\ threads'[t].victim = NoAddress
         /\ DOMAIN pfTable' = DOMAIN pfTable
         /\ \A tb \in TableName : tb # Table(t) => pfTable'[tb] = pfTable[tb]
         /\ \E kept \in Failing("delete", {threads[t].victim}) :
              pfTable'[Table(t)] = pfTable[Table(t)] \ ({threads[t].victim} \ kept)
<1>1. threads[t] \in ThreadData /\ Table(t) \in TableName
  BY ThreadFields DEF Table
<1>2. PICK kept \in Failing("delete", {threads[t].victim}) :
        pfTable' = [pfTable EXCEPT ![threads[t].table] = @ \ ({threads[t].victim} \ kept)]
  BY DEF CleanDelete
<1>3. /\ pfTable \in [TableName -> SUBSET Address]
  BY DEF TypeOK
<1>4. threads' = [threads EXCEPT ![t].victim = NoAddress,
                                 ![t].pc = Ended(t, threads[t].left)]
  BY DEF CleanDelete
<1>5. threads[t].pc = "deleting" /\ ListsStay /\ passes' = passes
  BY DEF CleanDelete, ListsStay
<1> QED
  BY <1>1, <1>2, <1>3, <1>4, <1>5 DEF OnlyThread, ThreadData, Table

\* The end of a merge tells the threads of the old list to leave, and them only.
LEMMA MergeEndEffect ==
  ASSUME TypeOK, MergeEnd
  PROVE  /\ merge = "parsed" /\ merge' = "waiting"
         /\ oldList' = {} /\ UNCHANGED <<threadList, pfTable, config, loaded, passes>>
         /\ DOMAIN threads' = DOMAIN threads
         /\ \A t \in DOMAIN threads :
              /\ SameButExit(t)
              /\ threads'[t].exit = IF t \in oldList THEN 1 ELSE threads[t].exit
<1>1. \A t \in DOMAIN threads : threads[t] \in ThreadData
  BY ThreadsFacts
<1> QED
  BY <1>1 DEF MergeEnd, SameButExit, ThreadData

Newborn(d) ==
  /\ d.exit = 0
  /\ d.pc \in {"unborn", "starting"}
  /\ DOMAIN d.refs = {}
  /\ d.statics = {}
  /\ d.answer = {}
  /\ d.left = {}
  /\ d.victim = NoAddress

\* A thread made by a merge has tracked, answered and deleted nothing yet.
LEMMA NewThreadsAreNewborn ==
  ASSUME NEW lines, NEW new \in NewThreads(lines), NEW i \in DOMAIN new
  PROVE  Newborn(new[i])
<1>1. PICK born : new = [j \in DOMAIN SetToSeq(lines) |->
                           NewThread(SetToSeq(lines)[j], SetToSeq(lines)[j] \in born)]
  BY DEF NewThreads
<1>2. DOMAIN << >> = {}
  OBVIOUS
<1>3. new[i] = NewThread(SetToSeq(lines)[i], SetToSeq(lines)[i] \in born)
  BY <1>1
<1> QED
  BY <1>2, <1>3 DEF NewThread, Newborn

\* The parse keeps the threads of the lines that stay, and adds newborn ones.
LEMMA MergeParseEffect ==
  ASSUME ListInv, MergeParse
  PROVE  /\ merge = "emptied" /\ merge' = "parsed" /\ loaded' = config
         /\ UNCHANGED <<pfTable, config, passes>>
         /\ DOMAIN threads \subseteq DOMAIN threads'
         /\ \A t \in DOMAIN threads :
              /\ SameButExit(t)
              /\ t \in Listed' <=> t \in oldList
              /\ threads'[t].exit = 1 <=> threads[t].exit = 1
         /\ \A t \in DOMAIN threads' \ DOMAIN threads :
              t \in threadList' /\ Newborn(threads'[t])
         /\ \A u \in oldList' : u \in oldList /\ Key(u) \notin config
<1> DEFINE kept  == {t \in oldList : Key(t) \in config}
           lines == config \ {Key(t) : t \in kept}
           old   == [t \in DOMAIN threads |->
                       IF t \in kept THEN [threads[t] EXCEPT !.exit = 2]
                       ELSE threads[t]]
<1>1. PICK n \in Nat : n = Len(threads)
  BY ThreadsFacts DEF ListInv
<1>2. PICK new \in NewThreads(lines) :
        /\ threads' = old \o new
        /\ threadList' = kept \cup {n + i : i \in DOMAIN new}
        /\ oldList' = oldList \ kept
  BY <1>1 DEF MergeParse
<1>3. /\ merge = "emptied" /\ merge' = "parsed" /\ loaded' = config
      /\ UNCHANGED <<pfTable, config, passes>>
  BY DEF MergeParse
<1>4. /\ DOMAIN threads = 1..n
      /\ \A t \in 1..n : threads[t] \in ThreadData
      /\ oldList \subseteq 1..n
      /\ \A t \in 1..n : threads[t].exit # 1 <=> t \in oldList
  BY <1>1, <1>3, ThreadsFacts DEF ListInv, TypeOK, ListsByPhase, LeaversAreUnlisted
<1>5. new \in Seq(ThreadData)
  <2>1. config \in SUBSET (Host \X TableName) /\ IsFiniteSet(config)
    BY FilesAreFinite DEF ListInv
  <2>2. lines \in SUBSET (Host \X TableName) /\ IsFiniteSet(lines)
    BY <2>1, FS_Difference
  <2> HIDE DEF lines
  <2> QED
    BY <2>2, NewThreadsFacts
<1> HIDE DEF lines
<1>6. Len(new) \in Nat /\ DOMAIN new = 1..Len(new)
  BY <1>5, LenProperties
<1>7. ASSUME NEW t \in 1..n
      PROVE  /\ old[t] \in ThreadData
             /\ old[t].host = threads[t].host /\ old[t].table = threads[t].table
             /\ old[t].pc = threads[t].pc /\ old[t].refs = threads[t].refs
             /\ old[t].statics = threads[t].statics /\ old[t].answer = threads[t].answer
             /\ old[t].left = threads[t].left /\ old[t].victim = threads[t].victim
             /\ old[t].exit = IF t \in kept THEN 2 ELSE threads[t].exit
  <2>1. old[t] = IF t \in kept THEN [threads[t] EXCEPT !.exit = 2] ELSE threads[t]
    BY <1>4
  <2> HIDE DEF old, kept
  <2> QED
    BY <1>4, <2>1 DEF ThreadData
<1>8. old \in Seq(ThreadData) /\ Len(old) = n
  <2>1. DOMAIN old = 1..n /\ old = [t \in 1..n |-> old[t]]
    BY <1>4
  <2> HIDE DEF old
  <2>2. old \in [1..n -> ThreadData]
    BY <1>7, <2>1
  <2> QED
    BY <1>1, <2>2
<1> HIDE DEF old
<1>9. /\ DOMAIN threads' = 1..n + Len(new)
      /\ \A t \in 1..n + Len(new) :
           threads'[t] = IF t <= n THEN old[t] ELSE new[t - n]
  <2>1. /\ old \o new \in Seq(ThreadData)
        /\ Len(old \o new) = Len(old) + Len(new)
        /\ \A t \in 1..Len(old) + Len(new) :
             (old \o new)[t] = IF t <= Len(old) THEN old[t] ELSE new[t - Len(old)]
    BY <1>5, <1>8, ConcatProperties
  <2> QED
    BY <1>2, <1>8, <2>1, LenProperties
<1>10. kept \subseteq oldList /\ \A u \in oldList \ kept : Key(u) \notin config
  OBVIOUS
<1> HIDE DEF kept
<1>11. ASSUME NEW t \in 1..n
       PROVE  /\ t \in DOMAIN threads' /\ SameButExit(t)
              /\ t \in Listed' <=> t \in oldList
              /\ threads'[t].exit = 1 <=> threads[t].exit = 1
  <2>1. t \in DOMAIN threads' /\ threads'[t] = old[t]
    BY <1>6, <1>9
  <2>2. \A i \in DOMAIN new : t # n + i
    BY <1>6
  <2>3. t \in Listed' <=> t \in oldList
    BY <1>2, <1>10, <2>2 DEF Listed
  <2> QED
    BY <1>4, <1>7, <1>10, <2>1, <2>3 DEF SameButExit
<1>12. ASSUME NEW t \in DOMAIN threads' \ DOMAIN threads
       PROVE  t \in threadList' /\ Newborn(threads'[t])
  <2>1. t - n \in DOMAIN new /\ t = n + (t - n) /\ threads'[t] = new[t - n]
    BY <1>4, <1>6, <1>9
  <2>2. t \in threadList'
    BY <1>2, <2>1
  <2> QED
    BY <2>1, <2>2, NewThreadsAreNewborn
<1> QED
  BY <1>2, <1>3, <1>4, <1>10, <1>11, <1>12

-----------------------------------------------------------------------------
(* A pass. *)

Fresh(t, answer) == answer \ threads[t].statics
After(t, answer) == Released(Counted(threads[t].refs, Fresh(t, answer)))
Dead(t, answer) == Expired(t, After(t, answer))

PassWith(t, answer, notAdded, reported, kept) ==
  /\ answer \in SUBSET Address
  /\ notAdded \in Failing("add", ToAdd(t, Fresh(t, answer)))
  /\ reported \in Failing("delete", Dead(t, answer))
  /\ kept \subseteq reported
  /\ threads'[t].answer = answer
  /\ threads'[t].refs =
       Restrict(After(t, answer),
                DOMAIN After(t, answer) \ (Dead(t, answer) \ reported))
  /\ pfTable'[Table(t)] =
       (pfTable[Table(t)] \cup (ToAdd(t, Fresh(t, answer)) \ notAdded))
       \ (Dead(t, answer) \ kept)
  /\ CountFailure(notAdded \cup reported)

\* What a pass adds, it tracks; what it deletes, it tracked.  A deletion that is
\* reported to have failed leaves its address tracked.
LEMMA PassEffect ==
  ASSUME TypeOK, NEW t \in DOMAIN threads, Pass(t)
  PROVE  /\ OnlyThread(t) /\ ListsStay
         /\ Readable /\ passes < MaxPasses /\ passes' = passes + 1
         /\ threads[t].pc = "sleeping" /\ threads'[t].pc = "sleeping"
         /\ threads[t].exit # 1 /\ threads'[t].exit = 0
         /\ threads'[t].statics = threads[t].statics
         /\ threads'[t].left = threads[t].left
         /\ threads'[t].victim = threads[t].victim
         /\ \A tb \in TableName : tb # Table(t) => pfTable'[tb] = pfTable[tb]
         /\ \E answer, notAdded, reported, kept :
              PassWith(t, answer, notAdded, reported, kept)
<1>1. /\ threads[t] \in ThreadData /\ Table(t) \in TableName
      /\ pfTable \in [TableName -> SUBSET Address]
  BY ThreadFields DEF Table, TypeOK
<1>2. PICK answer \in (SUBSET Address) \ {{}} :
        \E notAdded \in Failing("add", ToAdd(t, Fresh(t, answer))) :
        \E reported \in Failing("delete", Dead(t, answer)) :
        \E kept \in SUBSET reported :
          /\ threads' = [threads EXCEPT
               ![t].exit = 0,
               ![t].answer = answer,
               ![t].refs = Restrict(After(t, answer),
                             DOMAIN After(t, answer) \ (Dead(t, answer) \ reported))]
          /\ pfTable' = [pfTable EXCEPT ![threads[t].table] =
               (@ \cup (ToAdd(t, Fresh(t, answer)) \ notAdded))
               \ (Dead(t, answer) \ kept)]
          /\ CountFailure(notAdded \cup reported)
  BY DEF Pass, Fresh, After, Dead
<1>3. PICK notAdded \in Failing("add", ToAdd(t, Fresh(t, answer))),
           reported \in Failing("delete", Dead(t, answer)) :
        \E kept \in SUBSET reported :
          /\ threads' = [threads EXCEPT
               ![t].exit = 0,
               ![t].answer = answer,
               ![t].refs = Restrict(After(t, answer),
                             DOMAIN After(t, answer) \ (Dead(t, answer) \ reported))]
          /\ pfTable' = [pfTable EXCEPT ![threads[t].table] =
               (@ \cup (ToAdd(t, Fresh(t, answer)) \ notAdded))
               \ (Dead(t, answer) \ kept)]
          /\ CountFailure(notAdded \cup reported)
  BY <1>2
<1>4. PICK kept \in SUBSET reported :
          /\ threads' = [threads EXCEPT
               ![t].exit = 0,
               ![t].answer = answer,
               ![t].refs = Restrict(After(t, answer),
                             DOMAIN After(t, answer) \ (Dead(t, answer) \ reported))]
          /\ pfTable' = [pfTable EXCEPT ![threads[t].table] =
               (@ \cup (ToAdd(t, Fresh(t, answer)) \ notAdded))
               \ (Dead(t, answer) \ kept)]
          /\ CountFailure(notAdded \cup reported)
  BY <1>3
<1> DEFINE refs == Restrict(After(t, answer),
                            DOMAIN After(t, answer) \ (Dead(t, answer) \ reported))
<1> HIDE DEF refs
<1>5. threads' = [threads EXCEPT ![t].exit = 0, ![t].answer = answer, ![t].refs = refs]
  BY <1>4 DEF refs
<1>6. /\ OnlyThread(t)
      /\ threads'[t].pc = threads[t].pc /\ threads'[t].exit = 0
      /\ threads'[t].statics = threads[t].statics
      /\ threads'[t].left = threads[t].left /\ threads'[t].victim = threads[t].victim
      /\ threads'[t].answer = answer /\ threads'[t].refs = refs
  BY <1>1, <1>5 DEF OnlyThread, ThreadData
<1>7. /\ ListsStay /\ Readable /\ passes < MaxPasses /\ passes' = passes + 1
      /\ threads[t].pc = "sleeping" /\ threads[t].exit # 1
  BY DEF Pass, ListsStay
<1>8. /\ \A tb \in TableName : tb # Table(t) => pfTable'[tb] = pfTable[tb]
      /\ pfTable'[Table(t)] =
           (pfTable[Table(t)] \cup (ToAdd(t, Fresh(t, answer)) \ notAdded))
           \ (Dead(t, answer) \ kept)
  BY <1>1, <1>4 DEF Table
<1>9. PassWith(t, answer, notAdded, reported, kept)
  BY <1>4, <1>6, <1>8 DEF refs, PassWith
<1> QED
  BY <1>6, <1>7, <1>8, <1>9

\* What the list of a thread is after a pass: the addresses it had and those it
\* found, where a count of 0 means that the address has been deleted or is shared.
LEMMA AfterFacts ==
  ASSUME TypeOK, NEW t \in DOMAIN threads, NEW answer \in SUBSET Address
  PROVE  /\ DOMAIN After(t, answer) = Tracked(t) \cup Fresh(t, answer)
         /\ Dead(t, answer) \subseteq DOMAIN After(t, answer)
         /\ \A a \in Dead(t, answer) : After(t, answer)[a] = 0
         /\ SameTable(t) => Dead(t, answer) = {}
         /\ \A a \in DOMAIN After(t, answer) :
              After(t, answer)[a] = 0 => a \in Dead(t, answer) \/ SameTable(t)
  BY DEF After, Dead, Expired, Released, Counted, Tracked

\* A count below the modulus is not changed by its width.
LEMMA ModBelow ==
  ASSUME NEW n \in 0..RefModulus-1
  PROVE  n % RefModulus = n
  BY FilterDnsAssumption

\* The bound on a count, p passes of r each, grows by r with a pass.
LEMMA OneMorePass ==
  ASSUME NEW p \in Nat, NEW m \in Nat, p < m, NEW r \in Nat
  PROVE  /\ p * r \in Nat /\ (p + 1) * r \in Nat
         /\ (p + 1) * r = p * r + r
         /\ (p + 1) * r <= m * r
  BY SMTT(30)

\* A count goes up with every pass that sees the address and down to 0 with the
\* first that does not see a new one.
LEMMA CountsGrow ==
  ASSUME TypeOK, CountsFit, NEW t \in DOMAIN threads,
         NEW answer \in SUBSET Address,
         passes \in Nat, passes < MaxPasses,
         \A a \in Tracked(t) : threads[t].refs[a] \in 1..1 + passes * (Repeats - 1)
  PROVE  \A a \in Tracked(t) \cup Fresh(t, answer) :
           /\ After(t, answer)[a] \in 0..1 + (passes + 1) * (Repeats - 1)
           /\ a \in Fresh(t, answer) => After(t, answer)[a] # 0
           /\ a \notin Fresh(t, answer) =>
                After(t, answer)[a] = threads[t].refs[a] - 1
<1> DEFINE r == Repeats - 1
           refs == threads[t].refs
           fresh == Fresh(t, answer)
           counted == Counted(refs, fresh)
<1>1. r \in Nat /\ MaxPasses \in Nat /\ RefModulus \in Nat
  BY FilterDnsAssumption
<1> HIDE DEF r
<1>2. /\ passes * r \in Nat /\ (passes + 1) * r \in Nat
      /\ (passes + 1) * r = passes * r + r
      /\ (passes + 1) * r <= MaxPasses * r
  BY <1>1, OneMorePass
<1>3. 2 + (passes + 1) * r < RefModulus
  <2>1. MaxPasses * r \in Nat
    BY <1>1
  <2>2. 2 + MaxPasses * r < RefModulus
    BY DEF CountsFit, r
  <2> QED
    BY <1>1, <1>2, <2>1, <2>2
<1>4. DOMAIN counted = Tracked(t) \cup fresh
  BY DEF Counted, Tracked
<1>5. ASSUME NEW a \in Tracked(t) \cup fresh
      PROVE  /\ counted[a] \in 1..2 + (passes + 1) * r
             /\ a \in fresh => counted[a] # 1
             /\ a \notin fresh => counted[a] = refs[a]
  <2>1. CASE a \notin fresh
    <3>1. counted[a] = refs[a] /\ a \in Tracked(t)
      BY <2>1 DEF Counted, Tracked
    <3>2. refs[a] \in 1..1 + passes * r
      BY <3>1 DEF r
    <3> QED
      BY <1>1, <1>2, <2>1, <3>1, <3>2
  <2>2. CASE a \in fresh /\ a \in Tracked(t)
    <3>1. counted[a] = (refs[a] + Repeats) % RefModulus
      BY <2>2 DEF Counted, Tracked
    <3>2. refs[a] \in 1..1 + passes * r
      BY <2>2 DEF r
    <3>3. refs[a] + Repeats \in 2..2 + (passes + 1) * r
      BY <1>1, <1>2, <3>2, FilterDnsAssumption DEF r
    <3>4. counted[a] = refs[a] + Repeats
      BY <1>1, <1>2, <1>3, <3>1, <3>3, ModBelow
    <3> QED
      BY <1>2, <2>2, <3>3, <3>4
  <2>3. CASE a \in fresh /\ a \notin Tracked(t)
    <3>1. counted[a] = (1 + Repeats) % RefModulus
      BY <2>3 DEF Counted, Tracked
    <3>2. 1 + Repeats \in 2..2 + (passes + 1) * r
      BY <1>1, <1>2, FilterDnsAssumption DEF r
    <3>3. counted[a] = 1 + Repeats
      BY <1>1, <1>2, <1>3, <3>1, <3>2, ModBelow
    <3> QED
      BY <1>2, <2>3, <3>2, <3>3
  <2> QED
    BY <2>1, <2>2, <2>3
<1>6. ASSUME NEW a \in Tracked(t) \cup fresh
      PROVE  After(t, answer)[a] = counted[a] - 1
  <2>1. After(t, answer)[a] = (counted[a] - 1) % RefModulus
    BY <1>4 DEF After, Released
  <2>2. counted[a] - 1 \in 0..RefModulus - 1
    BY <1>1, <1>2, <1>3, <1>5
  <2> HIDE DEF counted
  <2> QED
    BY <2>1, <2>2, ModBelow
<1> HIDE DEF counted
<1> QED
  BY <1>2, <1>5, <1>6 DEF r

-----------------------------------------------------------------------------
(* The addresses of the ruleset. *)

\* A step of one thread keeps RulesetInv if it does so for that thread and table.
LEMMA RulesetThreadStep ==
  ASSUME RulesetInv, NEW t \in DOMAIN threads, OnlyThread(t), Respects(t)',
         \A tb \in TableName : Static \subseteq pfTable'[tb]
  PROVE  RulesetInv'
<1>1. \A u \in DOMAIN threads : u # t => Tracked(u)' = Tracked(u)
  BY DEF OnlyThread, Tracked
<1>2. \A u \in DOMAIN threads : Respects(u)'
  BY <1>1 DEF RulesetInv, Respects, OnlyThread
<1> QED
  BY <1>2 DEF RulesetInv, Respects, OnlyThread

\* A pass neither tracks nor deletes a static address.
LEMMA PassKeepsRuleset ==
  ASSUME ListInv, RulesetInv, NEW t \in DOMAIN threads, Pass(t)
  PROVE  RulesetInv'
<1> USE DEF ListInv
<1>1. /\ threads'[t].pc = "sleeping" /\ threads[t].pc = "sleeping"
      /\ threads'[t].statics = threads[t].statics
      /\ threads'[t].left = threads[t].left
      /\ threads'[t].victim = threads[t].victim
      /\ OnlyThread(t)
      /\ \A tb \in TableName : tb # Table(t) => pfTable'[tb] = pfTable[tb]
  BY PassEffect
<1>2. PICK answer, notAdded, reported, kept :
        PassWith(t, answer, notAdded, reported, kept)
  BY PassEffect
<1>3. /\ answer \in SUBSET Address
      /\ threads'[t].refs =
           Restrict(After(t, answer),
                    DOMAIN After(t, answer) \ (Dead(t, answer) \ reported))
      /\ pfTable'[Table(t)] =
           (pfTable[Table(t)] \cup (ToAdd(t, Fresh(t, answer)) \ notAdded))
           \ (Dead(t, answer) \ kept)
  BY <1>2 DEF PassWith
<1>4. Tracked(t)' = DOMAIN After(t, answer) \ (Dead(t, answer) \ reported)
  BY <1>3 DEF Tracked, Restrict
<1>5. /\ DOMAIN After(t, answer) = Tracked(t) \cup Fresh(t, answer)
      /\ Dead(t, answer) \subseteq DOMAIN After(t, answer)
  BY <1>3, AfterFacts
<1>6. /\ Tracked(t) \cap threads[t].statics = {}
      /\ Static \subseteq threads[t].statics
      /\ threads[t].left = {} /\ threads[t].victim = NoAddress
  BY <1>1 DEF RulesetInv, Respects, Leaving
<1>7. Fresh(t, answer) \cap threads[t].statics = {}
  BY DEF Fresh
<1>8. Respects(t)'
  BY <1>1, <1>4, <1>5, <1>6, <1>7 DEF Respects, Leaving
<1>9. Static \subseteq pfTable'[Table(t)]
  <2>1. Static \subseteq pfTable[Table(t)] /\ Table(t) \in TableName
    BY ThreadFields DEF RulesetInv, Table
  <2> QED
    BY <1>3, <1>5, <1>6, <1>7, <2>1
<1>10. \A tb \in TableName : Static \subseteq pfTable'[tb]
  BY <1>1, <1>9 DEF RulesetInv
<1> QED
  BY <1>1, <1>8, <1>10, RulesetThreadStep

\* Nothing is tracked in the beginning.
LEMMA RulesetInit == Init => RulesetInv
<1> SUFFICES ASSUME Init
             PROVE  RulesetInv
  OBVIOUS
<1>1. \A t \in DOMAIN threads : Newborn(threads[t])
  BY NewThreadsAreNewborn DEF Init
<1> QED
  BY <1>1 DEF Init, RulesetInv, Respects, Tracked, Newborn, Leaving

\* No step takes a static address out of the table or tracks it.
LEMMA RulesetStep ==
  ASSUME ListInv, RulesetInv, [Next]_vars
  PROVE  RulesetInv'
<1>0. TypeOK
  BY DEF ListInv
<1>1. ASSUME NEW t \in DOMAIN threads, Fetch(t)
      PROVE  RulesetInv'
  <2>1. Respects(t)'
    BY <1>0, <1>1, FetchEffect, ThreadFields
       DEF RulesetInv, Respects, Tracked, Leaving, Table
  <2> QED
    BY <1>0, <1>1, <2>1, FetchEffect, RulesetThreadStep DEF RulesetInv
<1>2. ASSUME NEW t \in DOMAIN threads, PassUnresolved(t)
      PROVE  RulesetInv'
  <2>1. Respects(t)'
    BY <1>0, <1>2, PassUnresolvedEffect
       DEF RulesetInv, Respects, Tracked, Leaving, SameButExit
  <2> QED
    BY <1>0, <1>2, <2>1, PassUnresolvedEffect, RulesetThreadStep DEF RulesetInv
<1>3. ASSUME NEW t \in DOMAIN threads, Leave(t)
      PROVE  RulesetInv'
  <2>1. Respects(t)'
    BY <1>0, <1>3, LeaveEffect DEF RulesetInv, Respects, Tracked, Leaving
  <2> QED
    BY <1>0, <1>3, <2>1, LeaveEffect, RulesetThreadStep DEF RulesetInv
<1>4. ASSUME NEW t \in DOMAIN threads, CleanLook(t)
      PROVE  RulesetInv'
  <2>1. Respects(t)'
    BY <1>0, <1>4, CleanLookEffect DEF RulesetInv, Respects, Tracked, Leaving, Ended
  <2> QED
    BY <1>0, <1>4, <2>1, CleanLookEffect, RulesetThreadStep DEF RulesetInv
<1>5. ASSUME NEW t \in DOMAIN threads, CleanDelete(t)
      PROVE  RulesetInv'
  <2>1. Respects(t)'
    BY <1>0, <1>5, CleanDeleteEffect DEF RulesetInv, Respects, Tracked, Leaving, Ended
  <2>2. threads[t].victim \notin Static /\ Table(t) \in TableName
    BY <1>0, <1>5, CleanDeleteEffect, ThreadFields, FilterDnsAssumption
       DEF RulesetInv, Respects, Table
  <2>3. \A tb \in TableName : Static \subseteq pfTable'[tb]
    BY <1>0, <1>5, <2>2, CleanDeleteEffect DEF RulesetInv
  <2> QED
    BY <1>0, <1>5, <2>1, <2>3, CleanDeleteEffect, RulesetThreadStep
<1>6. CASE MergeParse
  <2>1. ASSUME NEW t \in DOMAIN threads'
        PROVE  Respects(t)'
    <3>1. CASE t \in DOMAIN threads
      BY <1>6, <3>1, MergeParseEffect DEF RulesetInv, Respects, Tracked, SameButExit
    <3>2. CASE t \notin DOMAIN threads
      BY <1>6, <3>2, MergeParseEffect DEF Newborn, Respects, Tracked, Leaving
    <3> QED
      BY <3>1, <3>2
  <2> QED
    BY <1>6, <2>1, MergeParseEffect DEF RulesetInv
<1>7. CASE MergeEnd
  BY <1>0, <1>7, MergeEndEffect DEF RulesetInv, Respects, Tracked, SameButExit
<1>8. CASE MergeBegin \/ (\E c \in Configs : ChangeConfig(c)) \/ UNCHANGED vars
  BY <1>8 DEF MergeBegin, ChangeConfig, vars, RulesetInv, Respects, Tracked
<1> QED
  BY <1>1, <1>2, <1>3, <1>4, <1>5, <1>6, <1>7, <1>8, PassKeepsRuleset
     DEF Next, Merge

-----------------------------------------------------------------------------
(* The counts. *)

\* Where nothing is counted and no list changes, nothing is to be shown.
LEMMA CountQuietStep ==
  ASSUME ListInv, CountInv, ListsStay, passes' = passes,
         \A u \in DOMAIN threads :
           /\ threads'[u].host = threads[u].host
           /\ threads'[u].table = threads[u].table
           /\ threads'[u].refs = threads[u].refs
  PROVE  CountInv'
<1>1. threadList \subseteq DOMAIN threads /\ oldList \subseteq DOMAIN threads
  BY DEF ListInv, TypeOK
<1>2. \A u \in DOMAIN threads :
        /\ Table(u)' = Table(u) /\ Tracked(u)' = Tracked(u) /\ Key(u)' = Key(u)
  BY DEF Table, Tracked, Key
<1>3. Listed' = Listed
  BY DEF ListsStay, Listed
<1>4. \A u \in Listed : Lone(u)' <=> Lone(u)
  BY <1>1, <1>2, <1>3 DEF Lone, Listed
<1> QED
  BY <1>1, <1>2, <1>3, <1>4 DEF CountInv, ListsStay, Listed

\* A pass leaves every count between 0 and what its passes can have added.
LEMMA PassKeepsCounts ==
  ASSUME ListInv, CountInv, CountSetting, NEW t \in DOMAIN threads, Pass(t)
  PROVE  CountInv'
<1>0. TypeOK
  BY DEF ListInv
<1>1. /\ OnlyThread(t) /\ ListsStay
      /\ passes < MaxPasses /\ passes' = passes + 1
      /\ threads[t].exit # 1
  BY <1>0, PassEffect
<1>2. PICK answer, notAdded, reported, kept :
        PassWith(t, answer, notAdded, reported, kept)
  BY <1>0, PassEffect
<1>3. reported = {}
  BY <1>2 DEF PassWith, Failing, CountSetting
<1>4. /\ answer \in SUBSET Address
      /\ threads'[t].refs =
           Restrict(After(t, answer), DOMAIN After(t, answer) \ Dead(t, answer))
  BY <1>2, <1>3 DEF PassWith
<1>5. /\ passes \in Nat /\ Repeats - 1 \in Nat /\ MaxPasses \in Nat
      /\ passes * (Repeats - 1) \in Nat /\ (passes + 1) * (Repeats - 1) \in Nat
      /\ passes * (Repeats - 1) <= (passes + 1) * (Repeats - 1)
  <2>1. passes \in Nat /\ Repeats - 1 \in Nat /\ MaxPasses \in Nat
    BY FilterDnsAssumption DEF CountInv
  <2> QED
    BY <1>1, <2>1, OneMorePass
<1>6. threadList \subseteq DOMAIN threads /\ oldList \subseteq DOMAIN threads
  BY <1>0 DEF TypeOK
<1>7. /\ Listed' = Listed
      /\ \A u \in DOMAIN threads : Table(u)' = Table(u) /\ Key(u)' = Key(u)
  BY <1>1 DEF ListsStay, Listed, OnlyThread, Table, Key
<1>8. \A u \in Listed : Lone(u)' <=> Lone(u)
  BY <1>6, <1>7 DEF Lone, Listed
<1>9. ASSUME NEW u \in Listed, Lone(u), NEW a \in Tracked(u)'
      PROVE  threads'[u].refs[a] \in 1..1 + passes' * (Repeats - 1)
  <2>1. CASE u # t
    <3>1. threads'[u] = threads[u] /\ a \in Tracked(u)
      BY <1>1, <1>6, <1>9, <2>1 DEF OnlyThread, Tracked, Listed
    <3>2. threads[u].refs[a] \in 1..1 + passes * (Repeats - 1)
      BY <1>9, <3>1 DEF CountInv
    <3> QED
      BY <1>1, <1>5, <3>1, <3>2
  <2>2. CASE u = t
    <3>1. ~SameTable(t)
      BY <1>9, <2>2 DEF Lone, SameTable, Listed, Table
    <3>2. /\ a \in DOMAIN After(t, answer) \ Dead(t, answer)
          /\ threads'[t].refs[a] = After(t, answer)[a]
      BY <1>4, <1>9, <2>2 DEF Tracked, Restrict
    <3>3. a \in Tracked(t) \cup Fresh(t, answer) /\ After(t, answer)[a] # 0
      BY <1>0, <1>4, <3>1, <3>2, AfterFacts
    <3>4. \A b \in Tracked(t) : threads[t].refs[b] \in 1..1 + passes * (Repeats - 1)
      BY <1>9, <2>2 DEF CountInv
    <3>5. After(t, answer)[a] \in 0..1 + (passes + 1) * (Repeats - 1)
      BY <1>0, <1>1, <1>4, <1>5, <3>3, <3>4, CountsGrow DEF CountSetting
    <3> QED
      BY <1>1, <1>5, <2>2, <3>2, <3>3, <3>5
  <2> QED
    BY <2>1, <2>2
<1>10. passes' \in 0..MaxPasses
  BY <1>1, <1>5
<1>11. /\ merge' = "emptied" => \A u \in oldList' : Key(u)' \in loaded'
       /\ merge' = "parsed" =>
            \A u \in threadList', v \in oldList' : Table(u)' # Table(v)'
       /\ merge' # "waiting" => config' \in Configs
  BY <1>1, <1>6, <1>7 DEF CountInv, ListsStay
<1> QED
  BY <1>7, <1>8, <1>9, <1>10, <1>11 DEF CountInv

\* A merge adds threads without counts and moves the others to a list.
LEMMA MergeParseKeepsCounts ==
  ASSUME ListInv, ListInv', CountInv, CountSetting, MergeParse
  PROVE  CountInv'
<1>1. /\ merge = "emptied" /\ merge' = "parsed" /\ loaded' = config
      /\ UNCHANGED <<pfTable, config, passes>>
      /\ DOMAIN threads \subseteq DOMAIN threads'
      /\ \A t \in DOMAIN threads :
           /\ SameButExit(t)
           /\ t \in Listed' <=> t \in oldList
      /\ \A t \in DOMAIN threads' \ DOMAIN threads : Newborn(threads'[t])
      /\ \A u \in oldList' : u \in oldList /\ Key(u) \notin config
  BY MergeParseEffect
<1>2. config \in Configs /\ loaded \in Files
  BY <1>1 DEF CountInv, ListInv
<1>3. \A u \in oldList : u \in DOMAIN threads /\ u \in Listed /\ Key(u) \in loaded
  BY <1>1 DEF ListInv, TypeOK, CountInv, Listed
<1>4. ASSUME NEW t \in threadList', NEW u \in oldList'
      PROVE  Table(t)' # Table(u)'
  <2>1. Key(t)' \in config
    BY <1>1 DEF ListInv, ListsByPhase, OneThreadPerLine
  <2>2. Key(u) \in loaded \ config
    BY <1>1, <1>3
  <2>3. Key(t)'[2] # Key(u)[2]
    BY <1>2, <2>1, <2>2 DEF CountSetting, TablesGoWhole
  <2>4. Key(t)'[2] = Table(t)' /\ Key(u)[2] = Table(u) /\ Table(u)' = Table(u)
    BY <1>1, <1>3 DEF Key, Table, SameButExit
  <2> QED
    BY <2>3, <2>4
<1>5. Listed' \subseteq DOMAIN threads'
  BY DEF ListInv, TypeOK, Listed
<1>6. ASSUME NEW t \in Listed', Lone(t)', NEW a \in Tracked(t)'
      PROVE  threads'[t].refs[a] \in 1..1 + passes' * (Repeats - 1)
  <2>1. t \in DOMAIN threads /\ t \in oldList
    BY <1>1, <1>5, <1>6 DEF Newborn, Tracked
  <2>2. Listed = oldList
    BY <1>1 DEF ListInv, ListsByPhase, Listed
  <2>3. Lone(t)
    BY <1>1, <1>3, <1>6, <2>1, <2>2 DEF Lone, Table, SameButExit
  <2>4. a \in Tracked(t) /\ threads'[t].refs = threads[t].refs
    BY <1>1, <1>6, <2>1 DEF Tracked, SameButExit
  <2> QED
    BY <1>1, <1>3, <2>1, <2>3, <2>4 DEF CountInv
<1> QED
  BY <1>1, <1>2, <1>4, <1>6 DEF CountInv

\* The end of a merge leaves the counts alone.
LEMMA MergeEndKeepsCounts ==
  ASSUME ListInv, CountInv, MergeEnd
  PROVE  CountInv'
<1>1. /\ merge = "parsed" /\ merge' = "waiting"
      /\ oldList' = {} /\ UNCHANGED <<threadList, pfTable, config, loaded, passes>>
      /\ DOMAIN threads' = DOMAIN threads
      /\ \A t \in DOMAIN threads : SameButExit(t)
  BY MergeEndEffect DEF ListInv
<1>2. threadList \subseteq DOMAIN threads /\ oldList \subseteq DOMAIN threads
  BY DEF ListInv, TypeOK
<1>3. Listed' = threadList
  BY <1>1 DEF Listed
<1>4. \A t \in DOMAIN threads : Table(t)' = Table(t) /\ Tracked(t)' = Tracked(t)
  BY <1>1 DEF Table, Tracked, SameButExit
<1>5. \A t \in threadList : Lone(t)' => Lone(t)
  BY <1>1, <1>2, <1>3, <1>4 DEF Lone, CountInv, Listed
<1>6. \A t \in threadList : t \in Listed /\ threads'[t].refs = threads[t].refs
  BY <1>1, <1>2 DEF Listed, SameButExit
<1> QED
  BY <1>1, <1>2, <1>3, <1>4, <1>5, <1>6 DEF CountInv

\* Every step keeps the counts within their bounds.
LEMMA CountStep ==
  ASSUME ListInv, ListInv', CountInv, CountSetting, [Next]_vars
  PROVE  CountInv'
<1>0. TypeOK
  BY DEF ListInv
<1>1. ASSUME NEW t \in DOMAIN threads,
             \/ Fetch(t) \/ PassUnresolved(t)
             \/ Leave(t) \/ CleanLook(t) \/ CleanDelete(t)
      PROVE  CountInv'
  <2>1. /\ OnlyThread(t) /\ ListsStay /\ passes' = passes
        /\ threads'[t].refs = threads[t].refs
    BY <1>0, <1>1, FetchEffect, PassUnresolvedEffect, LeaveEffect,
       CleanLookEffect, CleanDeleteEffect DEF SameButExit
  <2> QED
    BY <2>1, CountQuietStep DEF OnlyThread
<1>2. CASE MergeBegin
  <2>1. /\ merge = "woken" /\ merge' = "emptied"
        /\ oldList' = threadList /\ threadList' = {} /\ oldList = {}
        /\ UNCHANGED <<threads, loaded, config, passes>>
    BY <1>2 DEF MergeBegin, ListInv, ListsByPhase
  <2>2. Listed' = Listed
    BY <2>1 DEF Listed
  <2>3. \A u \in threadList : Key(u) \in loaded
    BY <2>1 DEF ListInv, ListsByPhase, OneThreadPerLine
  <2> QED
    BY <2>1, <2>2, <2>3 DEF CountInv, Lone, Table, Tracked, Key
<1>3. ASSUME NEW c \in Configs, ChangeConfig(c)
      PROVE  CountInv'
  <2>1. /\ config' = c
        /\ merge' = IF merge = "waiting" THEN "woken" ELSE merge
        /\ UNCHANGED <<threads, threadList, oldList, loaded, passes>>
    BY <1>3 DEF ChangeConfig
  <2> QED
    BY <2>1 DEF CountInv, Lone, Table, Tracked, Key, Listed
<1>4. CASE UNCHANGED vars
  BY <1>4 DEF vars, CountInv, Lone, Table, Tracked, Key, Listed
<1> QED
  BY <1>1, <1>2, <1>3, <1>4, PassKeepsCounts, MergeParseKeepsCounts,
     MergeEndKeepsCounts DEF Next, Merge

\* There are no counts in the beginning.
LEMMA CountInit == Init => CountInv
<1> SUFFICES ASSUME Init
             PROVE  CountInv
  OBVIOUS
<1>1. \A t \in DOMAIN threads : Newborn(threads[t])
  BY NewThreadsAreNewborn DEF Init
<1>2. Listed = DOMAIN threads
  BY DEF Init, Listed
<1> QED
  BY <1>1, <1>2, FilterDnsAssumption DEF Init, CountInv, Tracked, Newborn

-----------------------------------------------------------------------------
(* The tables. *)

\* No step gives the table of a leaving thread back to its host, or makes a host
\* share the address a thread alone was about to delete.
LEMMA LeaversStep ==
  ASSUME ListInv, ListInv', CountInv, LeaversAreAlone, TableSetting, [Next]_vars
  PROVE  LeaversAreAlone'
<1>0. TypeOK /\ Listed \subseteq DOMAIN threads
  BY DEF ListInv, TypeOK, Listed
<1>1. ASSUME NEW t \in DOMAIN threads,
             \/ Fetch(t) \/ Pass(t) \/ PassUnresolved(t)
             \/ Leave(t) \/ CleanLook(t) \/ CleanDelete(t)
      PROVE  LeaversAreAlone'
  <2>1. OnlyThread(t) /\ ListsStay /\ (threads'[t].exit = 1 => threads[t].exit = 1)
    <3>1. CASE Fetch(t)
      BY <1>0, <3>1, FetchEffect
    <3>2. CASE Pass(t)
      <4>1. OnlyThread(t) /\ ListsStay /\ threads'[t].exit = 0
        BY <1>0, <3>2, PassEffect
      <4> QED
        BY <4>1
    <3>3. CASE PassUnresolved(t)
      BY <1>0, <3>3, PassUnresolvedEffect
    <3>4. CASE Leave(t)
      BY <1>0, <3>4, LeaveEffect
    <3>5. CASE CleanLook(t)
      BY <1>0, <3>5, CleanLookEffect
    <3>6. CASE CleanDelete(t)
      BY <1>0, <3>6, CleanDeleteEffect
    <3> QED
      BY <1>1, <3>1, <3>2, <3>3, <3>4, <3>5, <3>6
  <2>2. /\ Listed' = Listed /\ merge' = merge /\ config' = config
        /\ \A u \in DOMAIN threads :
             /\ Table(u)' = Table(u)
             /\ threads'[u].exit = 1 => threads[u].exit = 1
    BY <2>1 DEF OnlyThread, ListsStay, Listed, Table
  <2> QED
    BY <1>0, <2>1, <2>2 DEF LeaversAreAlone, OnlyThread
<1>2. ASSUME NEW c \in Configs, ChangeConfig(c)
      PROVE  LeaversAreAlone'
  <2>1. UNCHANGED threads /\ c # config
    BY <1>2 DEF ChangeConfig
  <2>2. \A t \in DOMAIN threads : threads[t].exit # 1
    BY <2>1 DEF LeaversAreAlone, TableSetting
  <2> QED
    BY <2>1, <2>2 DEF LeaversAreAlone
<1>3. CASE MergeBegin
  <2>1. UNCHANGED threads /\ merge = "woken"
    BY <1>3 DEF MergeBegin
  <2> QED
    BY <2>1 DEF LeaversAreAlone
<1>4. CASE MergeParse
  <2>1. \A t \in DOMAIN threads : threads[t].exit # 1
    BY <1>4, MergeParseEffect DEF LeaversAreAlone
  <2>2. \A t \in DOMAIN threads' : threads'[t].exit # 1
    BY <1>4, <2>1, MergeParseEffect DEF Newborn
  <2> QED
    BY <2>2 DEF LeaversAreAlone
<1>5. CASE MergeEnd
  <2>1. /\ merge = "parsed" /\ merge' = "waiting" /\ oldList' = {}
        /\ threadList' = threadList /\ config' = config
        /\ DOMAIN threads' = DOMAIN threads
        /\ \A t \in DOMAIN threads :
             /\ SameButExit(t)
             /\ threads'[t].exit = IF t \in oldList THEN 1 ELSE threads[t].exit
    BY <1>0, <1>5, MergeEndEffect
  <2>2. \A t \in DOMAIN threads : threads[t].exit # 1
    BY <2>1 DEF LeaversAreAlone
  <2>3. config \in Configs /\ \A t \in oldList, u \in threadList : Table(u) # Table(t)
    BY <2>1 DEF CountInv
  <2>4. \A t \in DOMAIN threads : Table(t)' = Table(t)
    BY <2>1 DEF Table, SameButExit
  <2> QED
    BY <1>0, <2>1, <2>2, <2>3, <2>4 DEF LeaversAreAlone, Listed
<1>6. CASE UNCHANGED vars
  BY <1>6 DEF vars, LeaversAreAlone, Table, Listed
<1> QED
  BY <1>1, <1>2, <1>3, <1>4, <1>5, <1>6 DEF Next, Merge

\* Where pf takes every change, a pass puts into the table what it begins to
\* track and takes out what it gives up, which is nothing it has just seen.
LEMMA PassHolds ==
  ASSUME ListInv, RulesetInv, CountInv, TableSetting,
         NEW t \in DOMAIN threads, Pass(t)
  PROVE  \E fresh, added, dead :
           /\ pfTable'[Table(t)] = (pfTable[Table(t)] \cup added) \ dead
           /\ Tracked(t)' = (Tracked(t) \cup fresh) \ dead
           /\ added \subseteq fresh /\ fresh \ added \subseteq Tracked(t)
           /\ dead \cap (fresh \cup threads[t].statics) = {}
           /\ SameTable(t) => dead = {}
           /\ threads'[t].answer \subseteq threads[t].statics \cup fresh
<1>0. TypeOK
  BY DEF ListInv
<1>1. Readable /\ passes < MaxPasses /\ threads[t].exit # 1 /\ threads[t].pc = "sleeping"
  BY <1>0, PassEffect
<1>2. PICK answer, notAdded, reported, kept :
        PassWith(t, answer, notAdded, reported, kept)
  BY <1>0, PassEffect
<1>3. notAdded = {} /\ reported = {} /\ kept = {}
  BY <1>2 DEF PassWith, Failing, TableSetting, CountSetting
<1> DEFINE fresh == Fresh(t, answer)
           added == ToAdd(t, fresh)
           dead == Dead(t, answer)
<1>4. /\ answer \in SUBSET Address /\ threads'[t].answer = answer
      /\ threads'[t].refs =
           Restrict(After(t, answer), DOMAIN After(t, answer) \ dead)
      /\ pfTable'[Table(t)] = (pfTable[Table(t)] \cup added) \ dead
  BY <1>2, <1>3 DEF PassWith
<1>5. Tracked(t)' = (Tracked(t) \cup fresh) \ dead
  <2>1. DOMAIN After(t, answer) = Tracked(t) \cup fresh
    BY <1>0, <1>4, AfterFacts
  <2> QED
    BY <1>4, <2>1 DEF Tracked, Restrict
<1>6. added \subseteq fresh /\ fresh \ added \subseteq Tracked(t)
  BY DEF ToAdd
<1>7. /\ dead \subseteq Tracked(t) \cup fresh
      /\ SameTable(t) => dead = {}
      /\ \A a \in dead : After(t, answer)[a] = 0
  BY <1>0, <1>4, AfterFacts
<1>8. dead \cap fresh = {}
  <2> SUFFICES ASSUME NEW a \in dead, a \in fresh
               PROVE  FALSE
    OBVIOUS
  <2>1. oldList = {} /\ t \in threadList
    BY <1>1 DEF ListInv, ListsByPhase, LeaversAreUnlisted, Readable
  <2>2. Lone(t) /\ t \in Listed
    BY <1>7, <2>1 DEF Lone, Listed, SameTable, Table
  <2>3. \A b \in Tracked(t) : threads[t].refs[b] \in 1..1 + passes * (Repeats - 1)
    BY <2>2 DEF CountInv
  <2>4. passes \in Nat
    BY DEF CountInv
  <2>5. After(t, answer)[a] # 0
    BY <1>0, <1>1, <1>4, <2>3, <2>4, CountsGrow DEF TableSetting, CountSetting
  <2> QED
    BY <1>7, <2>5
<1>9. dead \cap threads[t].statics = {}
  <2>1. Tracked(t) \cap threads[t].statics = {}
    BY DEF RulesetInv, Respects
  <2> QED
    BY <1>7, <1>8, <2>1
<1>10. answer \subseteq threads[t].statics \cup fresh
  BY DEF Fresh
<1> HIDE DEF fresh, added, dead
<1> QED
  BY <1>4, <1>5, <1>6, <1>7, <1>8, <1>9, <1>10

\* The part of AnswersAreHeld that is about one thread.
HeldBy(u) ==
  threads[u].pc = "sleeping" =>
    /\ threads[u].answer \subseteq threads[u].statics \cup Tracked(u)
    /\ threads[u].statics \cup Tracked(u) \subseteq pfTable[Table(u)]

\* No step takes the address that a listed thread resolved last out of its table.
LEMMA AnswersStep ==
  ASSUME ListInv, ListInv', RulesetInv, CountInv, TableInv, TableSetting, [Next]_vars
  PROVE  AnswersAreHeld'
<1>0. /\ TypeOK /\ Listed \subseteq DOMAIN threads
      /\ \A u \in DOMAIN threads : threads[u].exit # 1 <=> u \in Listed
      /\ \A u \in DOMAIN threads : threads[u].pc \in Leaving => threads[u].exit = 1
      /\ \A u \in Listed : HeldBy(u)
  BY DEF ListInv, TypeOK, Listed, LeaversAreUnlisted, TableInv, AnswersAreHeld, HeldBy
<1>1. SUFFICES ASSUME NEW u \in Listed'
               PROVE  HeldBy(u)'
  BY DEF AnswersAreHeld, HeldBy
<1>2. ASSUME NEW t \in DOMAIN threads, OnlyThread(t), ListsStay, u # t,
             u \in DOMAIN threads => pfTable[Table(u)] \subseteq pfTable'[Table(u)]
      PROVE  HeldBy(u)'
  <2>1. u \in Listed /\ threads'[u] = threads[u]
    BY <1>0, <1>2 DEF OnlyThread, ListsStay, Listed
  <2> QED
    BY <1>0, <1>2, <2>1 DEF HeldBy, Tracked, Table
<1>3. ASSUME NEW t \in DOMAIN threads, Fetch(t)
      PROVE  HeldBy(u)'
  <2>1. CASE u = t
    <3>1. Tracked(t) = {} /\ threads[t].answer = {}
      BY <1>0, <1>3, FetchEffect DEF RulesetInv, Respects
    <3> QED
      BY <1>0, <1>3, <2>1, <3>1, FetchEffect DEF HeldBy, Tracked, Table, OnlyThread
  <2>2. CASE u # t
    BY <1>0, <1>2, <1>3, <2>2, FetchEffect
  <2> QED
    BY <2>1, <2>2
<1>4. ASSUME NEW t \in DOMAIN threads, PassUnresolved(t)
      PROVE  HeldBy(u)'
  <2>0. OnlyThread(t) /\ ListsStay /\ SameButExit(t) /\ UNCHANGED pfTable
    BY <1>0, <1>4, PassUnresolvedEffect
  <2>1. CASE u = t
    <3>1. HeldBy(t)
      BY <1>0, <2>0, <2>1 DEF ListsStay, Listed
    <3> QED
      BY <2>0, <2>1, <3>1 DEF HeldBy, Tracked, Table, SameButExit
  <2>2. CASE u # t
    BY <1>2, <2>0, <2>2
  <2> QED
    BY <2>1, <2>2
<1>5. ASSUME NEW t \in DOMAIN threads, Pass(t)
      PROVE  HeldBy(u)'
  <2>0. /\ OnlyThread(t) /\ ListsStay /\ Readable
        /\ threads[t].pc = "sleeping" /\ threads[t].exit # 1
        /\ threads'[t].statics = threads[t].statics
        /\ \A tb \in TableName : tb # Table(t) => pfTable'[tb] = pfTable[tb]
    BY <1>0, <1>5, PassEffect
  <2>1. PICK fresh, added, dead :
          /\ pfTable'[Table(t)] = (pfTable[Table(t)] \cup added) \ dead
          /\ Tracked(t)' = (Tracked(t) \cup fresh) \ dead
          /\ added \subseteq fresh /\ fresh \ added \subseteq Tracked(t)
          /\ dead \cap (fresh \cup threads[t].statics) = {}
          /\ SameTable(t) => dead = {}
          /\ threads'[t].answer \subseteq threads[t].statics \cup fresh
    BY <1>5, PassHolds
  <2>2. CASE u = t
    <3>1. threads[t].statics \cup Tracked(t) \subseteq pfTable[Table(t)]
      BY <1>0, <2>0 DEF HeldBy
    <3>2. threads'[t].statics \cup Tracked(t)' \subseteq pfTable'[Table(t)]
      BY <2>0, <2>1, <3>1
    <3>3. threads'[t].answer \subseteq threads'[t].statics \cup Tracked(t)'
      BY <2>0, <2>1
    <3> QED
      BY <2>0, <2>2, <3>2, <3>3 DEF HeldBy, Table, OnlyThread
  <2>3. CASE u # t
    <3>1. u \in threadList
      BY <2>0 DEF ListsStay, Listed, Readable, ListInv, ListsByPhase
    <3>2. u \in DOMAIN threads /\ Table(u) \in TableName
      BY <1>0, <3>1, ThreadFields DEF Listed, Table
    <3>3. pfTable[Table(u)] \subseteq pfTable'[Table(u)]
      BY <2>0, <2>1, <2>3, <3>1, <3>2 DEF SameTable, Table
    <3> QED
      BY <1>2, <2>0, <2>3, <3>3
  <2> QED
    BY <2>2, <2>3
<1>6. ASSUME NEW t \in DOMAIN threads, Leave(t) \/ CleanLook(t) \/ CleanDelete(t)
      PROVE  HeldBy(u)'
  <2>1. OnlyThread(t) /\ ListsStay /\ threads[t].exit = 1
    <3>1. CASE Leave(t)
      BY <1>0, <3>1, LeaveEffect
    <3>2. CASE CleanLook(t)
      BY <1>0, <3>2, CleanLookEffect DEF Leaving
    <3>3. CASE CleanDelete(t)
      BY <1>0, <3>3, CleanDeleteEffect DEF Leaving
    <3> QED
      BY <1>6, <3>1, <3>2, <3>3
  <2>2. u \in Listed /\ u # t /\ u \in DOMAIN threads
    BY <1>0, <2>1 DEF ListsStay, Listed
  <2>3. Table(u) # Table(t) /\ Table(u) \in TableName
    BY <1>0, <2>1, <2>2, ThreadFields DEF TableInv, LeaversAreAlone, Table
  <2>4. pfTable'[Table(u)] = pfTable[Table(u)]
    <3>1. CASE Leave(t)
      BY <1>0, <3>1, LeaveEffect
    <3>2. CASE CleanLook(t)
      BY <1>0, <3>2, CleanLookEffect
    <3>3. CASE CleanDelete(t)
      BY <1>0, <2>3, <3>3, CleanDeleteEffect
    <3> QED
      BY <1>6, <3>1, <3>2, <3>3
  <2> QED
    BY <1>2, <2>1, <2>2, <2>4
<1>7. CASE MergeParse
  <2>1. CASE u \in DOMAIN threads
    <3>1. u \in Listed /\ SameButExit(u) /\ UNCHANGED pfTable
      BY <1>7, <2>1, MergeParseEffect DEF Listed
    <3> QED
      BY <1>0, <3>1 DEF HeldBy, Tracked, Table, SameButExit
  <2>2. CASE u \notin DOMAIN threads
    <3>1. u \in DOMAIN threads'
      BY DEF ListInv, TypeOK, Listed
    <3> QED
      BY <1>7, <2>2, <3>1, MergeParseEffect DEF Newborn, HeldBy
  <2> QED
    BY <2>1, <2>2
<1>8. CASE MergeEnd
  <2>1. u \in Listed /\ u \in DOMAIN threads /\ SameButExit(u) /\ UNCHANGED pfTable
    BY <1>0, <1>8, MergeEndEffect DEF Listed
  <2> QED
    BY <1>0, <2>1 DEF HeldBy, Tracked, Table, SameButExit
<1>9. CASE MergeBegin \/ (\E c \in Configs : ChangeConfig(c)) \/ UNCHANGED vars
  <2>1. u \in Listed /\ UNCHANGED <<threads, pfTable>>
    BY <1>9 DEF MergeBegin, ChangeConfig, vars, Listed
  <2> QED
    BY <1>0, <2>1 DEF HeldBy, Tracked, Table
<1> QED
  BY <1>3, <1>4, <1>5, <1>6, <1>7, <1>8, <1>9 DEF Next, Merge

\* What holds an address goes on holding it, unless the address goes.
LEMMA HoldsThreadStep ==
  ASSUME TypeOK, TablesAreHeld, NEW t \in DOMAIN threads, OnlyThread(t),
         \A tb \in TableName : tb # Table(t) => pfTable'[tb] \subseteq pfTable[tb],
         \A a \in pfTable'[Table(t)] :
           \/ a \in Holds(t)'
           \/ a \in pfTable[Table(t)] \ Holds(t)
  PROVE  TablesAreHeld'
<1>1. /\ Table(t)' = Table(t)
      /\ \A u \in DOMAIN threads : u # t =>
           Table(u)' = Table(u) /\ Holds(u)' = Holds(u)
  BY DEF OnlyThread, Table, Holds, Tracked
<1> SUFFICES ASSUME NEW tb \in TableName, NEW a \in pfTable'[tb] \ Static
             PROVE  \E u \in DOMAIN threads' : Table(u)' = tb /\ a \in Holds(u)'
  BY DEF TablesAreHeld
<1>2. DOMAIN threads' = DOMAIN threads
  BY DEF OnlyThread
<1>3. CASE tb = Table(t) /\ a \in Holds(t)'
  BY <1>1, <1>2, <1>3
<1>4. CASE ~(tb = Table(t) /\ a \in Holds(t)')
  <2>1. a \in pfTable[tb] /\ (tb = Table(t) => a \notin Holds(t))
    BY <1>4
  <2>2. PICK u \in DOMAIN threads : Table(u) = tb /\ a \in Holds(u)
    BY <2>1 DEF TablesAreHeld
  <2>3. u # t
    BY <2>1, <2>2
  <2> QED
    BY <1>1, <1>2, <2>2, <2>3
<1> QED
  BY <1>3, <1>4

\* Whatever a step leaves in a table is tracked by a thread or static.
LEMMA TablesStep ==
  ASSUME ListInv, ListInv', RulesetInv, CountInv, TableInv, TableSetting, [Next]_vars
  PROVE  TablesAreHeld'
<1>0. TypeOK /\ TablesAreHeld
  BY DEF ListInv, TableInv
<1>1. ASSUME NEW t \in DOMAIN threads, Fetch(t) \/ PassUnresolved(t)
      PROVE  TablesAreHeld'
  <2>1. OnlyThread(t) /\ UNCHANGED pfTable
    BY <1>0, <1>1, FetchEffect, PassUnresolvedEffect
  <2>2. Holds(t)' = Holds(t)
    <3>1. CASE Fetch(t)
      BY <1>0, <3>1, FetchEffect DEF Holds, Tracked
    <3>2. CASE PassUnresolved(t)
      BY <1>0, <3>2, PassUnresolvedEffect DEF Holds, Tracked, SameButExit
    <3> QED
      BY <1>1, <3>1, <3>2
  <2> QED
    BY <1>0, <2>1, <2>2, HoldsThreadStep
<1>2. ASSUME NEW t \in DOMAIN threads, Pass(t)
      PROVE  TablesAreHeld'
  <2>0. /\ OnlyThread(t)
        /\ threads[t].pc = "sleeping" /\ threads'[t].pc = "sleeping"
        /\ \A tb \in TableName : tb # Table(t) => pfTable'[tb] = pfTable[tb]
    BY <1>0, <1>2, PassEffect
  <2>1. PICK fresh, added, dead :
          /\ pfTable'[Table(t)] = (pfTable[Table(t)] \cup added) \ dead
          /\ Tracked(t)' = (Tracked(t) \cup fresh) \ dead
          /\ added \subseteq fresh
    BY <1>2, PassHolds
  <2>2. Holds(t) = Tracked(t) /\ Holds(t)' = Tracked(t)'
    BY <2>0 DEF Holds
  <2> QED
    BY <1>0, <2>0, <2>1, <2>2, HoldsThreadStep
<1>3. ASSUME NEW t \in DOMAIN threads, Leave(t)
      PROVE  TablesAreHeld'
  <2>1. OnlyThread(t) /\ UNCHANGED pfTable
    BY <1>0, <1>3, LeaveEffect
  <2>2. Holds(t) \subseteq Holds(t)'
    BY <1>0, <1>3, LeaveEffect DEF Holds
  <2> QED
    BY <1>0, <2>1, <2>2, HoldsThreadStep
<1>4. ASSUME NEW t \in DOMAIN threads, CleanLook(t)
      PROVE  TablesAreHeld'
  <2>1. OnlyThread(t) /\ UNCHANGED pfTable /\ threads[t].pc = "cleaning"
    BY <1>0, <1>4, CleanLookEffect
  <2>2. ~SameTable(t)
    <3>1. threads[t].exit = 1
      BY <2>1 DEF ListInv, LeaversAreUnlisted, Leaving
    <3> QED
      BY <3>1 DEF TableInv, LeaversAreAlone, SameTable, Listed, Table
  <2>3. PICK a \in threads[t].left :
          /\ threads'[t].left = threads[t].left \ {a}
          /\ threads'[t].pc = "deleting" /\ threads'[t].victim = a
    BY <1>0, <1>4, <2>2, CleanLookEffect
  <2>4. threads[t].victim = NoAddress
    BY <2>1 DEF RulesetInv, Respects
  <2>5. pfTable[Table(t)] \subseteq Address /\ NoAddress \notin Address
    BY <1>0, ThreadFields, FilterDnsAssumption DEF Table
  <2>6. Holds(t) = threads[t].left \cup {NoAddress} /\ Holds(t)' = threads[t].left
    BY <2>1, <2>3, <2>4 DEF Holds
  <2> QED
    BY <1>0, <2>1, <2>5, <2>6, HoldsThreadStep
<1>5. ASSUME NEW t \in DOMAIN threads, CleanDelete(t)
      PROVE  TablesAreHeld'
  <2>1. /\ OnlyThread(t) /\ threads[t].pc = "deleting"
        /\ threads'[t].left = threads[t].left
        /\ threads'[t].pc = Ended(t, threads[t].left)
        /\ \A tb \in TableName : tb # Table(t) => pfTable'[tb] = pfTable[tb]
    BY <1>0, <1>5, CleanDeleteEffect
  <2>2. PICK kept \in Failing("delete", {threads[t].victim}) :
          pfTable'[Table(t)] = pfTable[Table(t)] \ ({threads[t].victim} \ kept)
    BY <1>0, <1>5, CleanDeleteEffect
  <2>3. kept = {}
    BY <2>2 DEF Failing, TableSetting, CountSetting
  <2>4. /\ Holds(t) = threads[t].left \cup {threads[t].victim}
        /\ threads[t].left \subseteq Holds(t)'
    BY <2>1 DEF Holds, Ended
  <2> QED
    BY <1>0, <2>1, <2>2, <2>3, <2>4, HoldsThreadStep
<1>6. CASE MergeParse
  <2>1. /\ UNCHANGED pfTable
        /\ \A t \in DOMAIN threads :
             t \in DOMAIN threads' /\ Table(t)' = Table(t) /\ Holds(t)' = Holds(t)
    BY <1>6, MergeParseEffect DEF SameButExit, Table, Holds, Tracked
  <2> QED
    BY <1>0, <2>1 DEF TablesAreHeld
<1>7. CASE MergeEnd
  <2>1. /\ UNCHANGED pfTable
        /\ \A t \in DOMAIN threads :
             t \in DOMAIN threads' /\ Table(t)' = Table(t) /\ Holds(t)' = Holds(t)
    BY <1>0, <1>7, MergeEndEffect DEF SameButExit, Table, Holds, Tracked
  <2> QED
    BY <1>0, <2>1 DEF TablesAreHeld
<1>8. CASE MergeBegin \/ (\E c \in Configs : ChangeConfig(c)) \/ UNCHANGED vars
  <2>1. UNCHANGED <<threads, pfTable>>
    BY <1>8 DEF MergeBegin, ChangeConfig, vars
  <2> QED
    BY <1>0, <2>1 DEF TablesAreHeld, Holds, Tracked, Table
<1> QED
  BY <1>1, <1>2, <1>3, <1>4, <1>5, <1>6, <1>7, <1>8 DEF Next, Merge

\* The tables hold their static addresses in the beginning.
LEMMA TableInit == Init => TableInv
<1> SUFFICES ASSUME Init
             PROVE  TableInv
  OBVIOUS
<1>1. \A t \in DOMAIN threads : Newborn(threads[t])
  BY NewThreadsAreNewborn DEF Init
<1>2. Listed = DOMAIN threads
  BY DEF Init, Listed
<1>3. LeaversAreAlone /\ AnswersAreHeld
  BY <1>1, <1>2 DEF LeaversAreAlone, AnswersAreHeld, Newborn
<1>4. TablesAreHeld
  BY DEF Init, TablesAreHeld
<1> QED
  BY <1>3, <1>4 DEF TableInv

-----------------------------------------------------------------------------
(* The theorems. *)

\* What is static for a thread stays apart from what it tracks, through failures
\* of every kind.
LEMMA RulesetInvariant == Spec => []RulesetInv
<1>1. Init => ListInv /\ RulesetInv
  BY InitEstablishesInv, RulesetInit
<1>2. ListInv /\ RulesetInv /\ [Next]_vars => (ListInv /\ RulesetInv)'
  BY StepKeepsInv, RulesetStep
<1> QED
  BY <1>1, <1>2, PTL DEF Spec

RulesetIsKept == \A tb \in TableName : Static \subseteq pfTable[tb]

\* Whatever hosts resolve to, however often the file changes and whichever calls
\* fail, filterdns never deletes an address that the ruleset put into a table.
THEOREM RulesetAddressesStay == Spec => []RulesetIsKept
<1>1. RulesetInv => RulesetIsKept
  BY DEF RulesetInv, RulesetIsKept
<1> QED
  BY <1>1, RulesetInvariant, PTL

\* The counts of a host that has a table to itself stay between 1 and what the
\* passes can have added, through any number of reloads that take tables whole.
THEOREM CountInvariant == ASSUME CountSetting PROVE Spec => []CountInv
<1>1. Init => CountInv
  BY CountInit
<1>2. ListInv /\ ListInv' /\ CountInv /\ [Next]_vars => CountInv'
  BY CountStep
<1> QED
  BY <1>1, <1>2, ListInvariant, PTL DEF Spec

\* What the listed threads track and what the leaving ones are still going to
\* delete account for every table, in both directions.
THEOREM TableInvariant == ASSUME TableSetting PROVE Spec => []TableInv
<1>1. Init => TableInv
  BY TableInit
<1>2. ListInv /\ ListInv' /\ RulesetInv /\ CountInv /\ TableInv /\ [Next]_vars
        => TableInv'
  BY LeaversStep, AnswersStep, TablesStep DEF TableInv
<1>3. CountSetting
  BY DEF TableSetting
<1> QED
  BY <1>1, <1>2, <1>3, ListInvariant, RulesetInvariant, CountInvariant, PTL DEF Spec

\* What a listed host resolved to last is in its table: for any hosts that share
\* tables, any answers and any number of passes that a count can take.
THEOREM AnswersStayInTable == ASSUME TableSetting PROVE Spec => []AnswersAreInTable
<1>1. TableInv => AnswersAreInTable
  BY DEF TableInv, AnswersAreHeld, AnswersAreInTable, Listed, Table
<1> QED
  BY <1>1, TableInvariant, PTL

\* Whatever is in a table and not the ruleset's has a thread that can delete it.
THEOREM TablesAreAccountedFor == ASSUME TableSetting PROVE Spec => []NothingLeftBehind
<1>1. RulesetInv /\ ListInv /\ TableInv => NothingLeftBehind
  <2> SUFFICES ASSUME RulesetInv, ListInv, TableInv, NEW t \in DOMAIN threads,
                      NEW a \in pfTable[Table(t)] \ Static
               PROVE  \E u \in DOMAIN threads :
                        /\ threads[u].table = threads[t].table
                        /\ threads[u].pc # "gone"
                        /\ a \in Tracked(u)
    BY DEF NothingLeftBehind, Table
  <2>1. Table(t) \in TableName /\ a \in Address
    BY ThreadFields DEF ListInv, Table
  <2>2. PICK u \in DOMAIN threads : Table(u) = Table(t) /\ a \in Holds(u)
    BY <2>1 DEF TableInv, TablesAreHeld
  <2>3. a \in Tracked(u) /\ threads[u].pc # "gone"
    BY <2>1, <2>2, FilterDnsAssumption DEF Holds, RulesetInv, Respects
  <2> QED
    BY <2>2, <2>3 DEF Table
<1> QED
  BY <1>1, ListInvariant, RulesetInvariant, TableInvariant, PTL

\* No thread deletes an address that another listed host of the table resolved to
\* last: "If 2 dns names have same ip do not do any operation".
THEOREM SharedAddressStays == ASSUME TableSetting PROVE Spec => SharedAddressSurvives
<1>1. ListInv /\ ListInv' /\ RulesetInv /\ TableInv' /\ [Next]_vars =>
        [ \A t \in DOMAIN threads :
            /\ t \in threadList \cup oldList
            /\ threads[t].exit # 1
            /\ threads'[t] = threads[t]
            => \A a \in threads[t].answer \cap pfTable[threads[t].table] :
                 a \in pfTable'[threads[t].table] ]_vars
  <2> SUFFICES ASSUME ListInv, ListInv', RulesetInv, TableInv',
                      NEW t \in DOMAIN threads, [Next]_vars,
                      threads[t].exit # 1, threads'[t] = threads[t],
                      NEW a \in threads[t].answer
               PROVE  a \in pfTable'[Table(t)]
    BY DEF Table
  <2>1. threads[t].pc = "sleeping"
    <3>1. threads[t].pc \notin Leaving /\ threads[t] \in ThreadData
      BY ThreadFields DEF ListInv, LeaversAreUnlisted
    <3>2. threads[t].pc \notin {"unborn", "starting"}
      BY DEF RulesetInv, Respects
    <3> QED
      BY <3>1, <3>2 DEF ThreadData
  <2>2. t \in DOMAIN threads'
    <3>1. CASE MergeParse
      BY <3>1, MergeParseEffect
    <3>2. CASE MergeEnd
      BY <3>2, MergeEndEffect DEF ListInv
    <3>3. ASSUME NEW u \in DOMAIN threads,
                 \/ Fetch(u) \/ Pass(u) \/ PassUnresolved(u)
                 \/ Leave(u) \/ CleanLook(u) \/ CleanDelete(u)
          PROVE  t \in DOMAIN threads'
      <4>1. OnlyThread(u)
        BY <3>3, FetchEffect, PassEffect, PassUnresolvedEffect, LeaveEffect,
           CleanLookEffect, CleanDeleteEffect DEF ListInv
      <4> QED
        BY <4>1 DEF OnlyThread
    <3>4. CASE \/ MergeBegin \/ (\E c \in Configs : ChangeConfig(c))
               \/ UNCHANGED vars
      BY <3>4 DEF MergeBegin, ChangeConfig, vars
    <3> QED
      BY <3>1, <3>2, <3>3, <3>4 DEF Next, Merge
  <2>3. t \in Listed'
    BY <2>2 DEF ListInv, LeaversAreUnlisted, Listed
  <2>4. a \in threads'[t].statics \cup Tracked(t)' /\ Table(t)' = Table(t)
    BY <2>1, <2>3 DEF TableInv, AnswersAreHeld, Table
  <2> QED
    BY <2>1, <2>3, <2>4 DEF TableInv, AnswersAreHeld, Table
<1> QED
  BY <1>1, ListInvariant, RulesetInvariant, TableInvariant, PTL
     DEF Spec, SharedAddressSurvives

\* However often getaddrinfo lists an address, where no other listed host has the
\* table a pass takes an address that the host does not resolve to any more out of
\* the table, or lowers a count that stays positive and within what the answers
\* before gained: the address goes after that many passes more, whatever was
\* reloaded before and whichever additions failed.
THEOREM UnsharedAddressGoes ==
  ASSUME CountSetting
  PROVE  Spec => UnsharedAddressRunsOut
<1>1. ListInv /\ CountInv /\ [Next]_vars =>
        [ \A t \in DOMAIN threads :
            CleanPass(t) /\ Others(t) = {} => RunsOutBy(t) ]_vars
  <2> SUFFICES ASSUME ListInv, CountInv, Next, NEW t \in DOMAIN threads,
                      threads'[t].refs # threads[t].refs,
                      Others(t) = {},
                      NEW a \in Tracked(t) \ threads'[t].answer,
                      a \in pfTable'[Table(t)]
               PROVE  /\ a \in DOMAIN threads'[t].refs
                      /\ threads'[t].refs[a] < threads[t].refs[a]
                      /\ threads'[t].refs[a] \in 1..Gained
    BY DEF CleanPass, RunsOutBy, Table
  <2>0. TypeOK
    BY DEF ListInv
  <2>1. Pass(t)
    <3>1. ASSUME NEW u \in DOMAIN threads, Pass(u)
          PROVE  u = t
      BY <2>0, <3>1, PassEffect DEF OnlyThread
    <3>2. ASSUME NEW u \in DOMAIN threads,
                 \/ Fetch(u) \/ PassUnresolved(u)
                 \/ Leave(u) \/ CleanLook(u) \/ CleanDelete(u)
          PROVE  FALSE
      <4>1. OnlyThread(u) /\ threads'[u].refs = threads[u].refs
        BY <2>0, <3>2, FetchEffect, PassUnresolvedEffect, LeaveEffect,
           CleanLookEffect, CleanDeleteEffect DEF SameButExit
      <4> QED
        BY <4>1 DEF OnlyThread
    <3>3. CASE MergeParse
      BY <3>3, MergeParseEffect DEF SameButExit
    <3>4. CASE MergeEnd
      BY <2>0, <3>4, MergeEndEffect DEF SameButExit
    <3>5. CASE MergeBegin \/ \E c \in Configs : ChangeConfig(c)
      BY <3>5 DEF MergeBegin, ChangeConfig
    <3> QED
      BY <3>1, <3>2, <3>3, <3>4, <3>5 DEF Next, Merge
  <2>2. Readable /\ passes < MaxPasses /\ threads[t].exit # 1
    BY <2>0, <2>1, PassEffect
  <2>3. PICK answer, notAdded, reported, kept :
          PassWith(t, answer, notAdded, reported, kept)
    BY <2>0, <2>1, PassEffect
  <2>4. kept = {}
    BY <2>3 DEF PassWith, Failing, CountSetting
  <2>5. /\ answer \in SUBSET Address /\ threads'[t].answer = answer
        /\ pfTable'[Table(t)] =
             (pfTable[Table(t)] \cup (ToAdd(t, Fresh(t, answer)) \ notAdded))
             \ Dead(t, answer)
    BY <2>3, <2>4 DEF PassWith
  <2>6. ~SameTable(t)
    BY DEF SameTable, Others
  <2>7. Lone(t) /\ t \in Listed
    BY <2>2, <2>6 DEF ListInv, ListsByPhase, LeaversAreUnlisted, Readable, Lone,
       Listed, SameTable, Table
  <2>8. /\ threads[t].refs[a] \in 1..1 + Gained /\ Gained \in Nat
        /\ \A b \in Tracked(t) : threads[t].refs[b] \in 1..1 + passes * (Repeats - 1)
    <3>1. \A b \in Tracked(t) : threads[t].refs[b] \in 1..1 + passes * (Repeats - 1)
      BY <2>7 DEF CountInv
    <3>2. passes \in Nat /\ Repeats - 1 \in Nat
      BY FilterDnsAssumption DEF CountInv
    <3>3. passes * (Repeats - 1) \in Nat
      BY <3>2
    <3> QED
      BY <3>1, <3>3 DEF Gained
  <2>9. a \notin Fresh(t, answer) /\ a \in Tracked(t)
    BY <2>5 DEF Fresh
  <2>10. After(t, answer)[a] = threads[t].refs[a] - 1
    BY <2>0, <2>2, <2>5, <2>8, <2>9, CountsGrow DEF CountSetting, CountInv
  <2>11. a \notin Dead(t, answer)
    BY <2>5
  <2>12. /\ a \in DOMAIN threads'[t].refs
         /\ threads'[t].refs[a] = After(t, answer)[a]
    BY <2>0, <2>3, <2>5, <2>9, <2>11, AfterFacts DEF PassWith, Restrict
  <2>13. After(t, answer)[a] # 0
    BY <2>0, <2>5, <2>6, <2>9, <2>11, AfterFacts
  <2> QED
    BY <2>8, <2>10, <2>12, <2>13
<1> QED
  BY <1>1, ListInvariant, CountInvariant, PTL DEF Spec, UnsharedAddressRunsOut

===============================================================================
