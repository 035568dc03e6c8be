-------------------------- MODULE ReloadQueue_proofs --------------------------
(***************************************************************************)
(* What holds of check_reload_status's queue for every set of scripts,     *)
(* every number of clients and every fault of the environment; and then    *)
(* what ties it to its server and its clients: the numbers of requests,    *)
(* the runs that are asked for and done, and the service of which the      *)
(* queue is an implementation.                                             *)
(***************************************************************************)
EXTENDS ReloadQueue, SequenceTheorems, FiniteSetTheorems, WellFoundedInduction, TLAPS

-----------------------------------------------------------------------------
(* The two ways the queue changes its length. *)

\* TAILQ_REMOVE of the i-th entry closes the gap and keeps the others in order.
LEMMA RemoveAtFacts ==
  ASSUME NEW S, NEW s \in Seq(S), NEW i \in DOMAIN s
  PROVE  /\ RemoveAt(s, i) \in Seq(S)
         /\ Len(RemoveAt(s, i)) = Len(s) - 1
         /\ \A j \in 1..Len(s)-1 :
              RemoveAt(s, i)[j] = IF j < i THEN s[j] ELSE s[j+1]
<1>1. /\ i \in 1..Len(s)
      /\ Len(s) \in Nat
  BY LenProperties
<1>2. /\ SubSeq(s, 1, i-1) \in Seq(S)
      /\ Len(SubSeq(s, 1, i-1)) = i - 1
      /\ \A j \in 1..i-1 : SubSeq(s, 1, i-1)[j] = s[j]
  BY <1>1
<1>3. /\ SubSeq(s, i+1, Len(s)) \in Seq(S)
      /\ Len(SubSeq(s, i+1, Len(s))) = Len(s) - i
      /\ \A j \in 1..Len(s)-i : SubSeq(s, i+1, Len(s))[j] = s[i+j]
  BY <1>1
<1> DEFINE front == SubSeq(s, 1, i-1)
           back  == SubSeq(s, i+1, Len(s))
<1>4. /\ RemoveAt(s, i) \in Seq(S)
      /\ Len(RemoveAt(s, i)) = Len(s) - 1
      /\ \A j \in 1..Len(s)-1 :
           RemoveAt(s, i)[j] = IF j <= i - 1 THEN front[j] ELSE back[j - (i-1)]
  <2>1. RemoveAt(s, i) = front \o back
    BY DEF RemoveAt
  <2>2. Len(front) + Len(back) = Len(s) - 1
    <3>1. Len(front) = i - 1 /\ Len(back) = Len(s) - i
      BY <1>2, <1>3
    <3> HIDE DEF front, back
    <3>2. QED
      BY <1>1, <3>1
  <2>3. /\ front \o back \in Seq(S)
        /\ Len(front \o back) = Len(front) + Len(back)
        /\ \A j \in 1..Len(front)+Len(back) :
             (front \o back)[j] = IF j <= Len(front) THEN front[j]
                                  ELSE back[j - Len(front)]
    <3> HIDE DEF front, back
    <3> QED
      BY <1>2, <1>3, ConcatProperties DEF front, back
  <2>4. QED
    <3> HIDE DEF front, back
    <3> QED
      BY <1>2, <2>1, <2>2, <2>3 DEF front
<1>5. ASSUME NEW j \in 1..Len(s)-1
      PROVE  RemoveAt(s, i)[j] = IF j < i THEN s[j] ELSE s[j+1]
  <2>1. CASE j < i
    BY <1>1, <1>2, <1>4, <2>1
  <2>2. CASE j >= i
    <3>1. /\ j - (i-1) \in 1..Len(s)-i
          /\ i + (j - (i-1)) = j + 1
      BY <1>1, <2>2
    <3>2. SubSeq(s, i+1, Len(s))[j - (i-1)] = s[i + (j - (i-1))]
      BY <1>3, <3>1
    <3>3. QED
      BY <1>1, <1>4, <2>2, <3>1, <3>2
  <2>3. QED
    BY <1>1, <2>1, <2>2
<1>6. QED
  BY <1>4, <1>5

\* TAILQ_INSERT_HEAD shifts every entry one place towards the tail.
LEMMA InsertHeadFacts ==
  ASSUME NEW S, NEW s \in Seq(S), NEW e \in S
  PROVE  /\ <<e>> \o s \in Seq(S)
         /\ Len(<<e>> \o s) = Len(s) + 1
         /\ (<<e>> \o s)[1] = e
         /\ \A j \in 2..Len(s)+1 : (<<e>> \o s)[j] = s[j-1]
  OBVIOUS

-----------------------------------------------------------------------------
(* The inductive invariant of the queue, and the three changes it survives. *)

QueueInv == TypeOK /\ AggregationOrder /\ HoldOffsExpire

QueueShape == cmds \in Seq(Entry) /\ AggregationOrder /\ HoldOffsExpire

\* Freeing an entry leaves the order of the others.
LEMMA RemovalKeepsShape ==
  ASSUME QueueShape, NEW i \in DOMAIN cmds, cmds' = RemoveAt(cmds, i)
  PROVE  QueueShape'
<1> DEFINE Old(j) == IF j < i THEN j ELSE j + 1
<1>1. /\ cmds \in Seq(Entry)
      /\ Len(cmds) \in Nat
      /\ DOMAIN cmds = 1..Len(cmds)
      /\ i \in 1..Len(cmds)
  BY LenProperties DEF QueueShape
<1>2. /\ cmds' \in Seq(Entry)
      /\ Len(cmds') = Len(cmds) - 1
      /\ \A j \in 1..Len(cmds)-1 : cmds'[j] = cmds[Old(j)]
  <2>1. \A j \in 1..Len(cmds)-1 :
          RemoveAt(cmds, i)[j] = IF j < i THEN cmds[j] ELSE cmds[j+1]
    BY <1>1, RemoveAtFacts
  <2>2. RemoveAt(cmds, i) \in Seq(Entry) /\ Len(RemoveAt(cmds, i)) = Len(cmds) - 1
    BY <1>1, RemoveAtFacts
  <2>3. QED
    BY <2>1, <2>2
<1>3. DOMAIN cmds' = 1..Len(cmds)-1
  BY <1>1, <1>2, LenProperties
<1>4. \A j \in DOMAIN cmds' : Old(j) \in DOMAIN cmds /\ cmds'[j] = cmds[Old(j)]
  BY <1>1, <1>2, <1>3
<1>5. \A j, k \in DOMAIN cmds' : j < k => Old(j) < Old(k)
  BY <1>1, <1>3
<1>6. HoldOffsExpire'
  BY <1>4 DEF QueueShape, HoldOffsExpire
<1>7. AggregationOrder'
  BY <1>4, <1>5 DEF QueueShape, AggregationOrder
<1>8. QED
  BY <1>2, <1>6, <1>7 DEF QueueShape

\* Changing the flags of an entry, not its script, keeps the shape as long as
\* a held-off entry has its timer.
LEMMA UpdateKeepsShape ==
  ASSUME QueueShape, NEW i \in DOMAIN cmds, NEW e \in Entry,
         e.command = cmds[i].command, e.aggregate = cmds[i].aggregate,
         e.dontexec => e.timer /\ e.aggregate > 0,
         cmds' = [cmds EXCEPT ![i] = e]
  PROVE  QueueShape'
<1>1. /\ cmds \in Seq(Entry)
      /\ i \in 1..Len(cmds)
      /\ DOMAIN cmds = 1..Len(cmds)
  BY LenProperties DEF QueueShape
<1>2. /\ cmds' \in Seq(Entry)
      /\ Len(cmds') = Len(cmds)
      /\ \A j \in DOMAIN cmds : cmds'[j] = IF j = i THEN e ELSE cmds[j]
  BY <1>1, ExceptSeq
<1>3. DOMAIN cmds' = DOMAIN cmds
  BY <1>1, <1>2, LenProperties
<1>4. HoldOffsExpire'
  BY <1>2, <1>3 DEF QueueShape, HoldOffsExpire
<1>5. AggregationOrder'
  BY <1>2, <1>3 DEF QueueShape, AggregationOrder
<1>6. QED
  BY <1>2, <1>4, <1>5 DEF QueueShape

\* A new entry goes in front with aggregate 2 only when the one already queued
\* has aggregate 1.
LEMMA EnqueueKeepsShape ==
  ASSUME QueueShape, NEW c \in Command, NEW p \in Params, Enqueue(c, p)
  PROVE  QueueShape'
<1> DEFINE e == NewEntry(c, p)
<1>1. /\ cmds \in Seq(Entry)
      /\ Len(cmds) \in Nat
      /\ DOMAIN cmds = 1..Len(cmds)
      /\ \A i \in DOMAIN cmds : cmds[i] \in Entry
  BY LenProperties, ElementOfSeq DEF QueueShape
<1>2. e \in Entry
  BY DEF NewEntry, Entry
<1>3. /\ cmds' \in Seq(Entry)
      /\ Len(cmds') = Len(cmds) + 1
      /\ cmds'[1] = e
      /\ \A j \in 2..Len(cmds)+1 : cmds'[j] = cmds[j-1]
  BY <1>1, <1>2, InsertHeadFacts DEF Enqueue
<1>4. DOMAIN cmds' = 1..Len(cmds)+1
  BY <1>1, <1>3, LenProperties
<1>5. \A j \in DOMAIN cmds' : j # 1 => j-1 \in DOMAIN cmds /\ cmds'[j] = cmds[j-1]
  BY <1>1, <1>3, <1>4
<1>6. HoldOffsExpire'
  BY <1>3, <1>5 DEF QueueShape, HoldOffsExpire, NewEntry
<1>7. ASSUME NEW j \in DOMAIN cmds, cmds[j].command = c, c \in Aggregated
      PROVE  cmds[j].aggregate = 1 /\ e.aggregate = 2
  <2>1. j \in Matching(c)
    BY <1>7 DEF Matching
  <2>2. /\ cmds[j].aggregate \in Nat
        /\ cmds[j].aggregate > 0
    BY <1>1, <1>7 DEF QueueShape, AggregationOrder, Entry
  <2>3. CASE HasEarlier(c, j)
    <3>1. PICK k \in Matching(c) : k < j
      BY <2>3 DEF HasEarlier
    <3>2. k \in DOMAIN cmds /\ cmds[k].command = c
      BY DEF Matching
    <3>3. cmds[k].aggregate = 2
      BY <1>7, <3>1, <3>2 DEF QueueShape, AggregationOrder
    <3>4. ~HasEarlier(c, k)
      BY <1>1, <1>7, <3>2, <3>3 DEF QueueShape, AggregationOrder, HasEarlier, Matching
    <3>5. ScanStopsAt(c, k)
      BY <3>1, <3>3, <3>4 DEF ScanStopsAt, AggregateAt, HasEarlier
    <3>6. QED
      BY <3>2, <3>5 DEF Enqueue
  <2>4. CASE ~HasEarlier(c, j)
    <3>1. ~ScanStopsAt(c, j)
      BY <1>7 DEF Enqueue
    <3>2. ~(AggregateAt(c, j) > 1)
      BY <2>1, <2>4, <3>1 DEF ScanStopsAt, HasEarlier
    <3>3. cmds[j].aggregate = 1
      BY <2>2, <2>4, <3>2 DEF AggregateAt
    <3>4. QED
      BY <1>7, <2>1, <3>3 DEF NewEntry
  <2>5. QED
    BY <2>3, <2>4
<1>8. AggregationOrder'
  <2>1. ASSUME NEW j \in DOMAIN cmds'
        PROVE  cmds'[j].aggregate \in IF cmds'[j].command \in Aggregated
                                      THEN {1, 2} ELSE {0}
    BY <1>3, <1>5 DEF QueueShape, AggregationOrder, NewEntry
  <2>2. ASSUME NEW j \in DOMAIN cmds', NEW k \in DOMAIN cmds', j < k,
               cmds'[j].command = cmds'[k].command,
               cmds'[j].command \in Aggregated
        PROVE  cmds'[j].aggregate = 2 /\ cmds'[k].aggregate = 1
    <3>1. k # 1 /\ k - 1 \in DOMAIN cmds /\ cmds'[k] = cmds[k-1]
      BY <1>4, <1>5, <2>2
    <3>2. CASE j = 1
      BY <1>3, <1>7, <2>2, <3>1, <3>2 DEF NewEntry
    <3>3. CASE j # 1
      BY <1>1, <1>4, <1>5, <2>2, <3>1, <3>3 DEF QueueShape, AggregationOrder
    <3>4. QED
      BY <3>2, <3>3
  <2>3. QED
    BY <2>1, <2>2 DEF AggregationOrder
<1>9. QED
  BY <1>3, <1>6, <1>8 DEF QueueShape

-----------------------------------------------------------------------------
(* Every step keeps the invariant. *)

\* An entry of the queue carries a script and parameters of the constants.
LEMMA EntryTypes ==
  ASSUME TypeOK, NEW i \in DOMAIN cmds
  PROVE  /\ cmds[i] \in Entry
         /\ EventOf(cmds[i]) \in Command \X Params
<1>1. cmds[i] \in Entry
  BY ElementOfSeq, LenProperties DEF TypeOK
<1>2. cmds[i].command \in Command /\ cmds[i].params \in Params
  BY <1>1 DEF Entry
<1>3. QED
  BY <1>1, <1>2 DEF EventOf

\* A written request holds its entry off exactly when it is aggregated.
LEMMA SentFacts ==
  ASSUME NEW x \in Entry, NEW id \in Int
  PROVE  /\ Sent(x, id) \in Entry
         /\ Sent(x, id).command = x.command
         /\ Sent(x, id).params = x.params
         /\ Sent(x, id).aggregate = x.aggregate
         /\ Sent(x, id).requestId = id
         /\ Sent(x, id).dontexec <=> x.aggregate > 0
         /\ Sent(x, id).timer <=> x.aggregate > 0
         /\ Sent(x, id).dontexec =>
              Sent(x, id).timer /\ Sent(x, id).aggregate > 0
<1> DEFINE held == x.aggregate > 0
<1>1. held \in BOOLEAN
  OBVIOUS
<1>2. Sent(x, id) = [x EXCEPT !.requestId = id, !.dontexec = held, !.timer = held]
  BY DEF Sent
<1> HIDE DEF held
<1>3. /\ Sent(x, id) \in Entry
      /\ Sent(x, id).command = x.command
      /\ Sent(x, id).params = x.params
      /\ Sent(x, id).aggregate = x.aggregate
      /\ Sent(x, id).requestId = id
      /\ Sent(x, id).dontexec = held
      /\ Sent(x, id).timer = held
  BY <1>1, <1>2 DEF Entry
<1>4. QED
  BY <1>3 DEF held

\* A client's request.
LEMMA RunCommandKeepsInv ==
  ASSUME QueueInv, NEW c \in Command, NEW p \in Argument[c],
         RunCommand(c, p) \/ RunCommandNoMemory(c, p)
  PROVE  QueueInv'
<1>1. p \in Params
  BY DEF Params
<1>2. QueueShape
  BY DEF QueueInv, QueueShape, TypeOK
<1>3. QueueShape'
  <2>1. CASE RunCommandNoMemory(c, p)
    BY <1>2, <2>1 DEF RunCommandNoMemory, QueueShape, AggregationOrder, HoldOffsExpire
  <2>2. CASE RunCommand(c, p) /\ Enqueue(c, p)
    BY <1>1, <1>2, <2>2, EnqueueKeepsShape
  <2>3. CASE RunCommand(c, p) /\ Absorb(c, p)
    <3>1. PICK i \in DOMAIN cmds :
            /\ ScanStopsAt(c, i)
            /\ cmds' = IF cmds[i].dontexec /\ AggregateAt(c, i) < 3
                       THEN [cmds EXCEPT ![i].dontexec = FALSE, ![i].timer = TRUE]
                       ELSE cmds
      BY <2>3 DEF Absorb
    <3>2. CASE cmds' = cmds
      BY <1>2, <3>2 DEF QueueShape, AggregationOrder, HoldOffsExpire
    <3>3. CASE cmds' = [cmds EXCEPT ![i].dontexec = FALSE, ![i].timer = TRUE]
      <4> DEFINE e == [cmds[i] EXCEPT !.dontexec = FALSE, !.timer = TRUE]
      <4>1. cmds[i] \in Entry
        BY EntryTypes DEF QueueInv
      <4>2. /\ e \in Entry
            /\ e.command = cmds[i].command
            /\ e.aggregate = cmds[i].aggregate
            /\ e.dontexec = FALSE
        BY <4>1 DEF Entry
      <4>3. cmds' = [cmds EXCEPT ![i] = e]
        BY <3>3
      <4> HIDE DEF e
      <4>4. QED
        BY <1>2, <4>2, <4>3, UpdateKeepsShape
    <3>4. QED
      BY <3>1, <3>2, <3>3
  <2>4. QED
    BY <2>1, <2>2, <2>3 DEF RunCommand
<1>4. <<c, p>> \in Command \X Params
  BY <1>1
<1>5. /\ requestId' \in Nat
      /\ fcgifd' \in Descriptor
      /\ inflight' \in SUBSET Request
      /\ arrivals' \in Nat
      /\ owed' \in SUBSET (Command \X Params)
      /\ credit' \in [Command -> Int]
  <2>1. /\ UNCHANGED <<requestId, fcgifd, inflight>>
        /\ arrivals' = arrivals + 1
        /\ owed' = owed \/ owed' = owed \cup {<<c, p>>}
        /\ credit' = credit \/ credit' = [credit EXCEPT ![c] = @ + 1]
    BY DEF RunCommand, RunCommandNoMemory
  <2>2. QED
    BY <1>4, <2>1 DEF QueueInv, TypeOK
<1>6. QED
  BY <1>3, <1>5 DEF QueueInv, QueueShape, TypeOK

\* An entry's timer.
LEMMA TimerKeepsInv ==
  ASSUME QueueInv, NEW i \in DOMAIN cmds, TimerStep(i)
  PROVE  QueueInv'
<1>1. /\ cmds[i] \in Entry
      /\ EventOf(cmds[i]) \in Command \X Params
      /\ cmds[i].command \in Command
      /\ cmds[i].params \in Params
      /\ cmds[i].aggregate \in Nat
  BY EntryTypes DEF QueueInv, Entry
<1>2. QueueShape
  BY DEF QueueInv, QueueShape, TypeOK
<1>3. ASSUME NEW e \in Entry, e.command = cmds[i].command,
             e.aggregate = cmds[i].aggregate,
             e.dontexec => e.timer /\ e.aggregate > 0,
             cmds' = [cmds EXCEPT ![i] = e]
      PROVE  QueueShape'
  BY <1>2, <1>3, UpdateKeepsShape
<1>4. ASSUME cmds' = RemoveAt(cmds, i)
      PROVE  QueueShape'
  BY <1>2, <1>4, RemovalKeepsShape
<1>5. /\ HandOver(i) => owed' \subseteq owed /\ credit' \in [Command -> Int]
      /\ owed \in SUBSET (Command \X Params)
  BY <1>1 DEF HandOver, QueueInv, TypeOK
<1>6. OpenOutcomes \subseteq Descriptor /\ WriteTargets \subseteq Descriptor
  BY DEF OpenOutcomes, WriteTargets, Descriptor, QueueInv, TypeOK
<1>7. CASE Reap(i)
  BY <1>4, <1>7 DEF Reap, QueueInv, QueueShape, TypeOK
<1>8. CASE FcgiSend(i)
  <2> DEFINE e == Sent(cmds[i], requestId')
  <2>1. requestId' \in Nat /\ requestId' \in Int
    BY <1>8 DEF FcgiSend, QueueInv, TypeOK
  <2>2. /\ e \in Entry
        /\ e.command = cmds[i].command
        /\ e.aggregate = cmds[i].aggregate
        /\ e.dontexec => e.timer /\ e.aggregate > 0
    BY <1>1, <2>1, SentFacts, Zenon
  <2>3. cmds' = [cmds EXCEPT ![i] = e]
    BY <1>8 DEF FcgiSend
  <2>4. QueueShape'
    <3> HIDE DEF e
    <3> QED
      BY <1>3, <2>2, <2>3
  <2>5. inflight' \in SUBSET Request
    BY <1>1, <1>8, <2>1 DEF FcgiSend, QueueInv, TypeOK, Request
  <2>6. QED
    BY <1>5, <1>6, <1>8, <2>1, <2>4, <2>5 DEF FcgiSend, QueueInv, QueueShape, TypeOK
<1>9. CASE FcgiSendAstray(i)
  <2> DEFINE e == Sent(cmds[i], Unanswerable)
  <2>0. Unanswerable \in Int
    BY DEF Unanswerable
  <2>1. /\ e \in Entry
        /\ e.command = cmds[i].command
        /\ e.aggregate = cmds[i].aggregate
        /\ e.dontexec => e.timer /\ e.aggregate > 0
    BY <1>1, <2>0, SentFacts, Zenon
  <2>2. cmds' = [cmds EXCEPT ![i] = e]
    BY <1>9 DEF FcgiSendAstray
  <2>3. QueueShape'
    <3> HIDE DEF e
    <3> QED
      BY <1>3, <2>1, <2>2
  <2>4. QED
    BY <1>9, <2>3 DEF FcgiSendAstray, QueueInv, QueueShape, TypeOK
<1>10. CASE FcgiSendFails(i)
  <2> DEFINE e == [cmds[i] EXCEPT !.requestId = Unanswerable]
  <2>1. /\ e \in Entry
        /\ e.command = cmds[i].command
        /\ e.aggregate = cmds[i].aggregate
        /\ e.dontexec => e.timer /\ e.aggregate > 0
    BY <1>1, <1>10 DEF FcgiSendFails, Entry, Unanswerable
  <2>2. cmds' = [cmds EXCEPT ![i] = e]
    BY <1>10 DEF FcgiSendFails
  <2>3. QueueShape'
    <3> HIDE DEF e
    <3> QED
      BY <1>3, <2>1, <2>2
  <2>4. QED
    BY <1>6, <1>10, <2>3 DEF FcgiSendFails, QueueInv, QueueShape, TypeOK
<1>11. CASE ShellRun(i)
  <2> DEFINE e == [cmds[i] EXCEPT !.dontexec = TRUE]
  <2>1. ASSUME cmds[i].aggregate > 0
        PROVE  QueueShape'
    <3>1. /\ e \in Entry
          /\ e.command = cmds[i].command
          /\ e.aggregate = cmds[i].aggregate
          /\ e.dontexec => e.timer /\ e.aggregate > 0
      BY <1>1, <1>11, <2>1 DEF ShellRun, Fires, Entry
    <3>2. cmds' = [cmds EXCEPT ![i] = e]
      BY <1>11, <2>1 DEF ShellRun
    <3> HIDE DEF e
    <3>3. QED
      BY <1>3, <3>1, <3>2
  <2>2. ASSUME ~(cmds[i].aggregate > 0)
        PROVE  QueueShape'
    BY <1>4, <1>11, <2>2 DEF ShellRun
  <2>3. QED
    <3>1. UNCHANGED <<requestId, fcgifd, inflight, arrivals>> /\ HandOver(i)
      BY <1>11 DEF ShellRun
    <3>2. QED
      BY <1>5, <2>1, <2>2, <3>1 DEF QueueInv, QueueShape, TypeOK
<1>12. CASE ShellRunFails(i)
  <2> DEFINE e == [cmds[i] EXCEPT !.timer = FALSE]
  <2>1. /\ e \in Entry
        /\ e.command = cmds[i].command
        /\ e.aggregate = cmds[i].aggregate
        /\ e.dontexec => e.timer /\ e.aggregate > 0
    BY <1>1, <1>12 DEF ShellRunFails, Entry
  <2>2. cmds' = [cmds EXCEPT ![i] = e]
    BY <1>12 DEF ShellRunFails
  <2>3. QueueShape'
    <3> HIDE DEF e
    <3> QED
      BY <1>3, <2>1, <2>2
  <2>4. QED
    <3>1. UNCHANGED <<requestId, fcgifd, inflight, arrivals, owed, credit>>
      BY <1>12 DEF ShellRunFails
    <3>2. QED
      BY <2>3, <3>1 DEF QueueInv, QueueShape, TypeOK
<1>13. QED
  BY <1>7, <1>8, <1>9, <1>10, <1>11, <1>12 DEF TimerStep

\* A record from the FastCGI server.
LEMMA AnswerKeepsInv ==
  ASSUME QueueInv, NEW r \in inflight,
         AnswerComplete(r) \/ AnswerRefused(r) \/ AnswerDropped(r)
  PROVE  QueueInv'
<1>1. QueueShape
  BY DEF QueueInv, QueueShape, TypeOK
<1>2. r.command \in Command /\ <<r.command, r.params>> \in Command \X Params
  BY DEF QueueInv, TypeOK, Request
<1>3. CASE UNCHANGED cmds
  BY <1>1, <1>2, <1>3 DEF AnswerComplete, AnswerRefused, AnswerDropped,
     QueueInv, TypeOK, AggregationOrder, HoldOffsExpire
<1>4. ASSUME AnswerComplete(r), NEW i \in AnsweredBy(r), cmds' = RemoveAt(cmds, i)
      PROVE  QueueInv'
  <2>1. i \in DOMAIN cmds
    BY DEF AnsweredBy
  <2>2. QueueShape'
    BY <1>1, <1>4, <2>1, RemovalKeepsShape
  <2>3. QED
    BY <1>4, <2>2 DEF AnswerComplete, QueueInv, QueueShape, TypeOK
<1>5. ASSUME AnswerRefused(r), NEW i \in AnsweredBy(r),
             cmds' = [cmds EXCEPT ![i].dontexec = FALSE]
      PROVE  QueueInv'
  <2> DEFINE e == [cmds[i] EXCEPT !.dontexec = FALSE]
  <2>1. i \in DOMAIN cmds
    BY DEF AnsweredBy
  <2>2. cmds[i] \in Entry
    BY <2>1, EntryTypes DEF QueueInv
  <2>3. /\ e \in Entry
        /\ e.command = cmds[i].command
        /\ e.aggregate = cmds[i].aggregate
        /\ e.dontexec = FALSE
    BY <2>2 DEF Entry
  <2>4. cmds' = [cmds EXCEPT ![i] = e]
    BY <1>5
  <2>5. QueueShape'
    <3> HIDE DEF e
    <3> QED
      BY <1>1, <2>1, <2>3, <2>4, UpdateKeepsShape
  <2>6. QED
    BY <1>2, <1>5, <2>5 DEF AnswerRefused, QueueInv, QueueShape, TypeOK
<1>6. QED
  BY <1>3, <1>4, <1>5 DEF AnswerComplete, AnswerRefused, AnswerDropped

\* No step of the daemon or its environment breaks the invariant.
LEMMA StepKeepsInv == QueueInv /\ [Next]_vars => QueueInv'
<1> SUFFICES ASSUME QueueInv, [Next]_vars
             PROVE  QueueInv'
  OBVIOUS
<1>1. ASSUME NEW c \in Command, NEW p \in Argument[c],
             RunCommand(c, p) \/ RunCommandNoMemory(c, p)
      PROVE  QueueInv'
  BY <1>1, RunCommandKeepsInv
<1>2. ASSUME NEW i \in DOMAIN cmds, TimerStep(i)
      PROVE  QueueInv'
  BY <1>2, TimerKeepsInv
<1>3. ASSUME NEW r \in inflight,
             AnswerComplete(r) \/ AnswerRefused(r) \/ AnswerDropped(r)
      PROVE  QueueInv'
  BY <1>3, AnswerKeepsInv
<1>4. CASE ConnectionBreaks \/ ClientTakesNumber \/ ClientLeaves
  BY <1>4 DEF ConnectionBreaks, ClientTakesNumber, ClientLeaves, Descriptor,
     QueueInv, TypeOK, AggregationOrder, HoldOffsExpire
<1>5. CASE Restart
  BY <1>5, EmptySeq DEF Restart, Descriptor, QueueInv, TypeOK, AggregationOrder,
     HoldOffsExpire
<1>6. CASE UNCHANGED vars
  BY <1>6 DEF vars, QueueInv, TypeOK, AggregationOrder, HoldOffsExpire
<1>7. QED
  BY <1>1, <1>2, <1>3, <1>4, <1>5, <1>6 DEF Next

\* The queue keeps its type, its order and its timers whatever the clients ask
\* and whatever the kernel or the server refuses, for any number of requests:
\* at most two entries per AGGREGATE script, the second request in front, and
\* every held-off entry with the timer that frees it.
THEOREM QueueInvariant == Spec => []QueueInv
<1>1. Init => QueueInv
  BY EmptySeq DEF Init, QueueInv, TypeOK, AggregationOrder, HoldOffsExpire,
     Descriptor
<1>2. QED
  BY <1>1, StepKeepsInv, PTL DEF Spec

\* The variables of check_reload_status always have their types.
THEOREM TypeCorrect == Spec => []TypeOK
<1>1. QueueInv => TypeOK
  BY DEF QueueInv
<1>2. QED
  BY <1>1, QueueInvariant, PTL

\* run_command's scan never meets the entries of a script in the order that
\* would make it drop a request.
THEOREM QueueOrder == Spec => []AggregationOrder
<1>1. QueueInv => AggregationOrder
  BY DEF QueueInv
<1>2. QED
  BY <1>1, QueueInvariant, PTL

\* No held-off entry is left without the timer that reaps it.
THEOREM HoldOffsReaped == Spec => []HoldOffsExpire
<1>1. QueueInv => HoldOffsExpire
  BY DEF QueueInv
<1>2. QED
  BY <1>1, QueueInvariant, PTL

-----------------------------------------------------------------------------
(***************************************************************************)
(* Where no accepted event can be lost: AGGREGATE scripts run by the shell *)
(* and other scripts run by the server, each AGGREGATE script with one     *)
(* parameter string, while request numbers have not wrapped, calloc and    *)
(* vfork work, connects succeed, the server does not refuse and the daemon *)
(* stays up.                                                               *)
(***************************************************************************)
SafeSetting ==
  /\ ViaFcgi \cap Aggregated = {}
  /\ \A c \in Aggregated : \A p, q \in Argument[c] : p = q
  /\ MaxRequests < IdModulus
  /\ Faults \cap {"calloc", "vfork", "connect", "refuse", "crash"} = {}

\* An unsent entry has no number an answer carries, nor has a shell script's;
\* an aggregated entry always has its timer; an entry's parameter string is one
\* its script takes.
EntryKept(e) ==
  /\ e.command \notin ViaFcgi => e.requestId = 0
  /\ Pending(e) => e.requestId <= 0
  /\ e.command \in Aggregated => e.timer
  /\ e.params \in Argument[e.command]

EntriesKept == \A i \in DOMAIN cmds : EntryKept(cmds[i])

ServerSide ==
  /\ requestId <= MaxRequests
  /\ fcgifd \in {"closed", "up", "broken"}
  /\ \A r \in inflight : r.id \in 1..requestId

KeptInv == QueueInv /\ ServerSide /\ EntriesKept /\ NoEventLost

\* Freeing an entry that is not pending, or whose event is settled, loses no
\* other event.
LEMMA RemovalKeepsEvents ==
  ASSUME KeptInv, NEW i \in DOMAIN cmds, cmds' = RemoveAt(cmds, i),
         \A ev \in owed' : ev \in owed /\ (Pending(cmds[i]) => ev # EventOf(cmds[i]))
  PROVE  EntriesKept' /\ NoEventLost'
<1>1. /\ cmds \in Seq(Entry)
      /\ Len(cmds) \in Nat
      /\ DOMAIN cmds = 1..Len(cmds)
  BY LenProperties DEF KeptInv, QueueInv, TypeOK
<1>2. /\ cmds' \in Seq(Entry)
      /\ Len(cmds') = Len(cmds) - 1
      /\ \A j \in 1..Len(cmds)-1 :
           cmds'[j] = IF j < i THEN cmds[j] ELSE cmds[j+1]
  BY <1>1, RemoveAtFacts
<1>3. DOMAIN cmds' = 1..Len(cmds)-1
  BY <1>1, <1>2, LenProperties
<1>4. \A j \in DOMAIN cmds' : \E k \in DOMAIN cmds : cmds'[j] = cmds[k]
  BY <1>1, <1>2, <1>3
<1>5. \A k \in DOMAIN cmds : k # i => \E j \in DOMAIN cmds' : cmds'[j] = cmds[k]
  <2> SUFFICES ASSUME NEW k \in DOMAIN cmds, k # i
               PROVE  \E j \in DOMAIN cmds' : cmds'[j] = cmds[k]
    OBVIOUS
  <2>1. CASE k < i
    <3>1. k \in DOMAIN cmds' /\ cmds'[k] = cmds[k]
      BY <1>1, <1>2, <1>3, <2>1
    <3>2. QED
      BY <3>1
  <2>2. CASE k > i
    <3>1. k-1 \in DOMAIN cmds' /\ cmds'[k-1] = cmds[k]
      BY <1>1, <1>2, <1>3, <2>2
    <3>2. QED
      BY <3>1
  <2>3. QED
    BY <1>1, <2>1, <2>2
<1>6. EntriesKept'
  BY <1>4 DEF KeptInv, EntriesKept, EntryKept, Pending
<1>7. ASSUME NEW ev \in owed'
      PROVE  Covered(ev)'
  <2>1. PICK k \in DOMAIN cmds : Pending(cmds[k]) /\ EventOf(cmds[k]) = ev
    BY <1>7 DEF KeptInv, NoEventLost, Covered
  <2>2. k # i
    BY <1>7, <2>1
  <2>3. QED
    BY <1>5, <2>1, <2>2 DEF Covered, Pending, EventOf
<1>8. QED
  BY <1>6, <1>7 DEF NoEventLost

\* Rewriting an entry's flags loses no event as long as the entry stays pending
\* or its own event is settled.
LEMMA UpdateKeepsEvents ==
  ASSUME KeptInv, NEW i \in DOMAIN cmds, NEW e \in Entry, EntryKept(e),
         EventOf(e) = EventOf(cmds[i]), cmds' = [cmds EXCEPT ![i] = e],
         \A ev \in owed' :
           \/ ev \in owed /\ ev # EventOf(cmds[i])
           \/ ev \in owed /\ (Pending(cmds[i]) => Pending(e))
           \/ ev = EventOf(e) /\ Pending(e)
  PROVE  EntriesKept' /\ NoEventLost'
<1>1. /\ cmds \in Seq(Entry)
      /\ i \in 1..Len(cmds)
      /\ DOMAIN cmds = 1..Len(cmds)
  BY LenProperties DEF KeptInv, QueueInv, TypeOK
<1>2. /\ cmds' \in Seq(Entry)
      /\ Len(cmds') = Len(cmds)
      /\ \A j \in DOMAIN cmds : cmds'[j] = IF j = i THEN e ELSE cmds[j]
  BY <1>1, ExceptSeq
<1>3. DOMAIN cmds' = DOMAIN cmds
  BY <1>1, <1>2, LenProperties
<1>4. EntriesKept'
  BY <1>2, <1>3 DEF KeptInv, EntriesKept, EntryKept, Pending
<1>5. ASSUME NEW ev \in owed'
      PROVE  Covered(ev)'
  <2>1. CASE ev = EventOf(e) /\ Pending(e)
    BY <1>2, <1>3, <2>1 DEF Covered, Pending, EventOf
  <2>2. CASE ev \in owed /\ (ev # EventOf(cmds[i]) \/ (Pending(cmds[i]) => Pending(e)))
    <3>1. PICK k \in DOMAIN cmds : Pending(cmds[k]) /\ EventOf(cmds[k]) = ev
      BY <2>2 DEF KeptInv, NoEventLost, Covered
    <3>2. CASE k = i
      BY <1>2, <1>3, <2>2, <3>1, <3>2 DEF Covered, Pending, EventOf
    <3>3. CASE k # i
      BY <1>2, <1>3, <3>1, <3>3 DEF Covered, Pending, EventOf
    <3>4. QED
      BY <3>2, <3>3
  <2>3. QED
    BY <1>5, <2>1, <2>2
<1>6. QED
  BY <1>4, <1>5 DEF NoEventLost

\* An event of an AGGREGATE script that meets a queued entry of it leaves that
\* entry pending, with the event's parameters.
LEMMA AbsorbKeepsEvents ==
  ASSUME SafeSetting, KeptInv, NEW c \in Command, NEW p \in Argument[c],
         Absorb(c, p), owed' = owed \cup {<<c, p>>}
  PROVE  EntriesKept' /\ NoEventLost'
<1>1. PICK i \in DOMAIN cmds :
        /\ ScanStopsAt(c, i)
        /\ cmds' = IF cmds[i].dontexec /\ AggregateAt(c, i) < 3
                   THEN [cmds EXCEPT ![i].dontexec = FALSE, ![i].timer = TRUE]
                   ELSE cmds
  BY DEF Absorb
<1>2. /\ cmds[i] \in Entry
      /\ EntryKept(cmds[i])
  BY EntryTypes DEF KeptInv, QueueInv, EntriesKept
<1>3. /\ cmds[i].command = c
      /\ c \in Aggregated
      /\ cmds[i].timer
  BY <1>1, <1>2 DEF ScanStopsAt, Matching, EntryKept
<1>4. EventOf(cmds[i]) = <<c, p>>
  BY <1>2, <1>3 DEF EntryKept, EventOf, SafeSetting
<1>5. AggregateAt(c, i) < 3
  <2>1. cmds[i].aggregate \in {1, 2}
    BY <1>3 DEF KeptInv, QueueInv, AggregationOrder
  <2>2. CASE HasEarlier(c, i)
    <3>1. PICK j \in Matching(c) : j < i
      BY <2>2 DEF HasEarlier
    <3>2. cmds[j].aggregate = 2
      BY <1>3, <3>1 DEF Matching, KeptInv, QueueInv, AggregationOrder
    <3>3. ~(AggregateAt(c, j) <= 1)
      BY <3>2 DEF AggregateAt
    <3>4. QED
      BY <1>1, <3>1, <3>3 DEF ScanStopsAt
  <2>3. CASE ~HasEarlier(c, i)
    BY <2>1, <2>3 DEF AggregateAt
  <2>4. QED
    BY <2>2, <2>3
<1>6. CASE cmds[i].dontexec
  <2> DEFINE e == [cmds[i] EXCEPT !.dontexec = FALSE, !.timer = TRUE]
  <2>1. /\ e \in Entry
        /\ e.command = c
        /\ e.params = cmds[i].params
        /\ e.dontexec = FALSE
        /\ e.timer = TRUE
        /\ e.requestId = cmds[i].requestId
    BY <1>2, <1>3 DEF Entry
  <2>2. cmds' = [cmds EXCEPT ![i] = e]
    BY <1>1, <1>5, <1>6
  <2>3. EntryKept(e) /\ Pending(e) /\ EventOf(e) = EventOf(cmds[i])
    BY <1>2, <1>3, <2>1 DEF EntryKept, Pending, EventOf, SafeSetting
  <2> HIDE DEF e
  <2>4. QED
    BY <1>4, <2>1, <2>2, <2>3, UpdateKeepsEvents
<1>7. CASE ~cmds[i].dontexec
  <2>1. cmds' = cmds
    BY <1>1, <1>7
  <2>2. Covered(<<c, p>>)
    BY <1>3, <1>4, <1>7 DEF Covered, Pending
  <2>3. QED
    BY <2>1, <2>2 DEF KeptInv, EntriesKept, EntryKept, NoEventLost, Covered, Pending, EventOf
<1>8. QED
  BY <1>6, <1>7

\* A request that gets an entry of its own is covered by it, and no other event is lost.
LEMMA EnqueueKeepsEvents ==
  ASSUME KeptInv, NEW c \in Command, NEW p \in Argument[c],
         Enqueue(c, p), owed' = owed \cup {<<c, p>>}
  PROVE  EntriesKept' /\ NoEventLost'
<1> DEFINE e == NewEntry(c, p)
<1>1. /\ cmds \in Seq(Entry)
      /\ Len(cmds) \in Nat
      /\ DOMAIN cmds = 1..Len(cmds)
  BY LenProperties DEF KeptInv, QueueInv, TypeOK
<1>2. /\ e \in Entry
      /\ EntryKept(e)
      /\ Pending(e)
      /\ EventOf(e) = <<c, p>>
  BY DEF NewEntry, Entry, EntryKept, Pending, EventOf, Params
<1>3. /\ cmds' \in Seq(Entry)
      /\ Len(cmds') = Len(cmds) + 1
      /\ cmds'[1] = e
      /\ \A j \in 2..Len(cmds)+1 : cmds'[j] = cmds[j-1]
  BY <1>1, <1>2, InsertHeadFacts DEF Enqueue
<1>4. DOMAIN cmds' = 1..Len(cmds)+1
  BY <1>1, <1>3, LenProperties
<1>5. \A j \in DOMAIN cmds' : j # 1 => j-1 \in DOMAIN cmds /\ cmds'[j] = cmds[j-1]
  BY <1>1, <1>3, <1>4
<1>6. \A k \in DOMAIN cmds : k+1 \in DOMAIN cmds' /\ cmds'[k+1] = cmds[k]
  BY <1>1, <1>3, <1>4
<1> HIDE DEF e
<1>7. EntriesKept'
  BY <1>2, <1>3, <1>5 DEF KeptInv, EntriesKept, EntryKept, Pending
<1>8. ASSUME NEW ev \in owed'
      PROVE  Covered(ev)'
  <2>1. CASE ev = <<c, p>>
    <3>1. 1 \in DOMAIN cmds'
      BY <1>1, <1>4
    <3>2. QED
      BY <1>2, <1>3, <2>1, <3>1 DEF Covered, Pending, EventOf
  <2>2. CASE ev \in owed
    <3>1. PICK k \in DOMAIN cmds : Pending(cmds[k]) /\ EventOf(cmds[k]) = ev
      BY <2>2 DEF KeptInv, NoEventLost, Covered
    <3>2. QED
      BY <1>6, <3>1 DEF Covered, Pending, EventOf
  <2>3. QED
    BY <1>8, <2>1, <2>2
<1>9. QED
  BY <1>7, <1>8 DEF NoEventLost

\* A timer hands its own event over or leaves its entry pending.
LEMMA TimerKeepsEvents ==
  ASSUME SafeSetting, KeptInv, NEW i \in DOMAIN cmds, TimerStep(i)
  PROVE  ServerSide' /\ EntriesKept' /\ NoEventLost'
<1>1. /\ cmds[i] \in Entry
      /\ EntryKept(cmds[i])
      /\ requestId \in Nat
      /\ owed \in SUBSET (Command \X Params)
  BY EntryTypes DEF KeptInv, QueueInv, TypeOK, EntriesKept
<1>2. WriteTargets \subseteq {"closed", "up", "broken"}
  BY DEF WriteTargets, OpenOutcomes, SafeSetting, KeptInv, ServerSide
<1>3. CASE Reap(i)
  <2>1. ~Pending(cmds[i])
    BY <1>3 DEF Reap, Pending
  <2>2. EntriesKept' /\ NoEventLost'
    BY <1>3, <2>1, RemovalKeepsEvents DEF Reap
  <2>3. QED
    BY <1>3, <2>2 DEF Reap, KeptInv, ServerSide
<1>4. CASE FcgiSend(i)
  <2> DEFINE e == Sent(cmds[i], requestId')
  <2>1. /\ requestId' = requestId + 1
        /\ requestId' \in Int
        /\ requestId' <= MaxRequests
    BY <1>1, <1>4, QueueAssumption DEF FcgiSend
  <2>2. cmds[i].command \in ViaFcgi /\ cmds[i].command \notin Aggregated
    BY <1>4 DEF FcgiSend, SafeSetting
  <2>3. ~(cmds[i].aggregate > 0)
    BY <2>2 DEF KeptInv, QueueInv, AggregationOrder
  <2>4. /\ e \in Entry
        /\ e.command = cmds[i].command
        /\ e.params = cmds[i].params
        /\ ~e.timer
    BY <1>1, <2>1, <2>3, SentFacts, Zenon
  <2>5. cmds' = [cmds EXCEPT ![i] = e]
    BY <1>4 DEF FcgiSend
  <2> HIDE DEF e
  <2>6. EntryKept(e) /\ EventOf(e) = EventOf(cmds[i])
    BY <1>1, <2>2, <2>4 DEF EntryKept, Pending, EventOf
  <2>7. owed' = owed \ {EventOf(cmds[i])}
    BY <1>4 DEF FcgiSend, HandOver
  <2>8. EntriesKept' /\ NoEventLost'
    BY <2>4, <2>5, <2>6, <2>7, UpdateKeepsEvents
  <2>9. /\ fcgifd' = "up"
        /\ \A r \in inflight' : r \in inflight \/ r.id = requestId'
    BY <1>4 DEF FcgiSend
  <2>10. QED
    BY <1>1, <2>1, <2>8, <2>9 DEF KeptInv, ServerSide
<1>5. CASE FcgiSendAstray(i)
  BY <1>5 DEF FcgiSendAstray, KeptInv, ServerSide
<1>6. CASE FcgiSendFails(i)
  <2> DEFINE e == [cmds[i] EXCEPT !.requestId = Unanswerable]
  <2>1. /\ e \in Entry
        /\ e.command = cmds[i].command
        /\ e.params = cmds[i].params
        /\ e.dontexec = cmds[i].dontexec
        /\ e.timer = cmds[i].timer
        /\ e.requestId = -1
    BY <1>1 DEF Entry, Unanswerable
  <2>2. cmds' = [cmds EXCEPT ![i] = e] /\ owed' = owed /\ cmds[i].command \in ViaFcgi
    BY <1>6 DEF FcgiSendFails
  <2> HIDE DEF e
  <2>3. EntryKept(e) /\ EventOf(e) = EventOf(cmds[i]) /\ (Pending(cmds[i]) => Pending(e))
    BY <1>1, <2>1, <2>2 DEF EntryKept, Pending, EventOf
  <2>4. EntriesKept' /\ NoEventLost'
    BY <2>1, <2>2, <2>3, UpdateKeepsEvents
  <2>5. fcgifd' \in {"closed", "up", "broken"} /\ UNCHANGED <<requestId, inflight>>
    BY <1>2, <1>6 DEF FcgiSendFails
  <2>6. QED
    BY <2>4, <2>5 DEF KeptInv, ServerSide
<1>7. CASE ShellRun(i)
  <2>1. owed' = owed \ {EventOf(cmds[i])} /\ UNCHANGED <<requestId, fcgifd, inflight>>
    BY <1>7 DEF ShellRun, HandOver
  <2>2. CASE cmds' = RemoveAt(cmds, i)
    <3>1. EntriesKept' /\ NoEventLost'
      BY <2>1, <2>2, RemovalKeepsEvents
    <3>2. QED
      BY <2>1, <3>1 DEF KeptInv, ServerSide
  <2>3. CASE cmds' = [cmds EXCEPT ![i].dontexec = TRUE]
    <3> DEFINE e == [cmds[i] EXCEPT !.dontexec = TRUE]
    <3>1. /\ e \in Entry
          /\ e.command = cmds[i].command
          /\ e.params = cmds[i].params
          /\ e.dontexec
          /\ e.timer = cmds[i].timer
          /\ e.requestId = cmds[i].requestId
      BY <1>1 DEF Entry
    <3>2. cmds' = [cmds EXCEPT ![i] = e]
      BY <2>3
    <3> HIDE DEF e
    <3>3. EntryKept(e) /\ EventOf(e) = EventOf(cmds[i])
      BY <1>1, <3>1 DEF EntryKept, Pending, EventOf
    <3>4. EntriesKept' /\ NoEventLost'
      BY <2>1, <3>1, <3>2, <3>3, UpdateKeepsEvents
    <3>5. QED
      BY <2>1, <3>4 DEF KeptInv, ServerSide
  <2>4. QED
    BY <1>7, <2>2, <2>3 DEF ShellRun
<1>8. CASE ShellRunFails(i)
  BY <1>8 DEF ShellRunFails, SafeSetting
<1>9. QED
  BY <1>3, <1>4, <1>5, <1>6, <1>7, <1>8 DEF TimerStep

\* An answer frees an entry whose event was handed over before.
LEMMA AnswerKeepsEvents ==
  ASSUME SafeSetting, KeptInv, NEW r \in inflight,
         AnswerComplete(r) \/ AnswerRefused(r) \/ AnswerDropped(r)
  PROVE  ServerSide' /\ EntriesKept' /\ NoEventLost'
<1>1. UNCHANGED <<requestId, fcgifd, owed>> /\ inflight' \subseteq inflight
  BY DEF AnswerComplete, AnswerRefused, AnswerDropped, SafeSetting
<1>2. ServerSide'
  BY <1>1 DEF KeptInv, ServerSide
<1>3. CASE UNCHANGED cmds
  BY <1>1, <1>2, <1>3 DEF KeptInv, EntriesKept, EntryKept, Pending, NoEventLost,
     Covered, EventOf
<1>4. ASSUME NEW i \in AnsweredBy(r), cmds' = RemoveAt(cmds, i)
      PROVE  EntriesKept' /\ NoEventLost'
  <2>1. i \in DOMAIN cmds /\ cmds[i].requestId = r.id % IdModulus
    BY DEF AnsweredBy
  <2>2. r.id \in Nat /\ r.id > 0 /\ r.id < IdModulus /\ IdModulus \in Nat
    BY QueueAssumption DEF KeptInv, QueueInv, TypeOK, ServerSide, SafeSetting
  <2>3. r.id % IdModulus = r.id
    BY <2>2
  <2>4. ~Pending(cmds[i])
    BY <2>1, <2>2, <2>3 DEF KeptInv, EntriesKept, EntryKept
  <2>5. QED
    BY <1>1, <1>4, <2>1, <2>4, RemovalKeepsEvents
<1>5. QED
  BY <1>2, <1>3, <1>4 DEF AnswerComplete, AnswerRefused, AnswerDropped, SafeSetting

\* No step of the setting below loses an event.
LEMMA StepKeepsEvents ==
  ASSUME SafeSetting
  PROVE  KeptInv /\ [Next]_vars => KeptInv'
<1> SUFFICES ASSUME KeptInv, [Next]_vars
             PROVE  KeptInv'
  OBVIOUS
<1>1. QueueInv'
  BY StepKeepsInv DEF KeptInv
<1>2. CASE UNCHANGED <<cmds, owed>> /\ ServerSide'
  BY <1>1, <1>2 DEF KeptInv, EntriesKept, EntryKept, Pending, NoEventLost,
     Covered, EventOf
<1>3. ASSUME NEW c \in Command, NEW p \in Argument[c], RunCommand(c, p)
      PROVE  KeptInv'
  <2>1. EntriesKept' /\ NoEventLost'
    BY <1>3, AbsorbKeepsEvents, EnqueueKeepsEvents DEF RunCommand
  <2>2. ServerSide'
    BY <1>3 DEF RunCommand, KeptInv, ServerSide
  <2>3. QED
    BY <1>1, <2>1, <2>2 DEF KeptInv
<1>4. ASSUME NEW c \in Command, NEW p \in Argument[c], RunCommandNoMemory(c, p)
      PROVE  KeptInv'
  BY <1>4 DEF RunCommandNoMemory, SafeSetting
<1>5. ASSUME NEW i \in DOMAIN cmds, TimerStep(i)
      PROVE  KeptInv'
  BY <1>1, <1>5, TimerKeepsEvents DEF KeptInv
<1>6. ASSUME NEW r \in inflight,
             AnswerComplete(r) \/ AnswerRefused(r) \/ AnswerDropped(r)
      PROVE  KeptInv'
  BY <1>1, <1>6, AnswerKeepsEvents DEF KeptInv
<1>7. CASE ConnectionBreaks
  BY <1>2, <1>7 DEF ConnectionBreaks, KeptInv, ServerSide
<1>8. CASE ClientTakesNumber \/ ClientLeaves
  BY <1>8 DEF ClientTakesNumber, ClientLeaves, KeptInv, ServerSide
<1>9. CASE Restart
  BY <1>9 DEF Restart, SafeSetting
<1>10. CASE UNCHANGED vars
  BY <1>2, <1>10 DEF vars, KeptInv, ServerSide
<1>11. QED
  BY <1>3, <1>4, <1>5, <1>6, <1>7, <1>8, <1>9, <1>10 DEF Next

\* The setting keeps its invariant.
LEMMA EventsStayKept == SafeSetting => (Spec => []KeptInv)
<1> SUFFICES ASSUME SafeSetting
             PROVE  Spec => []KeptInv
  OBVIOUS
<1>1. Init => KeptInv
  <2>1. Init => QueueInv
    BY EmptySeq DEF Init, QueueInv, TypeOK, AggregationOrder, HoldOffsExpire,
       Descriptor
  <2>2. QED
    BY <2>1, EmptySeq, QueueAssumption DEF Init, KeptInv, ServerSide, EntriesKept,
       NoEventLost
<1>2. KeptInv /\ [Next]_vars => KeptInv'
  BY StepKeepsEvents
<1>3. QED
  BY <1>1, <1>2, PTL DEF Spec

\* Every event the daemon said OK to, and has not handed over since, is still
\* queued with an armed timer: for any number of clients, scripts and requests
\* below the wrap of the request number, in the setting above.  Outside each of
\* its clauses the code can lose an event; README.md names how.
THEOREM EventsAreKept == SafeSetting => (Spec => []NoEventLost)
<1>1. KeptInv => NoEventLost
  BY DEF KeptInv
<1>2. QED
  BY <1>1, EventsStayKept, PTL

-----------------------------------------------------------------------------
(* What the three changes of the queue do to each entry. *)

\* After TAILQ_REMOVE of the i-th entry the queue holds the others, in order.
LEMMA RemovedEntries ==
  ASSUME NEW s \in Seq(Entry), NEW i \in DOMAIN s, NEW t, t = RemoveAt(s, i)
  PROVE  /\ t \in Seq(Entry)
         /\ DOMAIN t = 1..Len(s)-1 /\ DOMAIN s = 1..Len(s) /\ Len(s) \in Nat
         /\ \A j \in DOMAIN t :
              LET k == IF j < i THEN j ELSE j + 1
              IN  k \in DOMAIN s \ {i} /\ t[j] = s[k]
         /\ \A k \in DOMAIN s \ {i} :
              LET j == IF k < i THEN k ELSE k - 1
              IN  j \in DOMAIN t /\ t[j] = s[k]
<1>1. DOMAIN s = 1..Len(s) /\ Len(s) \in Nat /\ i \in 1..Len(s)
  BY LenProperties
<1>2. /\ t \in Seq(Entry) /\ Len(t) = Len(s) - 1
      /\ \A j \in 1..Len(s)-1 : t[j] = IF j < i THEN s[j] ELSE s[j+1]
  BY RemoveAtFacts
<1>3. DOMAIN t = 1..Len(s)-1
  BY <1>1, <1>2, LenProperties
<1>4. ASSUME NEW j \in DOMAIN t, NEW k, k = IF j < i THEN j ELSE j + 1
      PROVE  k \in DOMAIN s \ {i} /\ t[j] = s[k]
  BY <1>1, <1>2, <1>3, <1>4
<1>5. ASSUME NEW k \in DOMAIN s \ {i}, NEW j, j = IF k < i THEN k ELSE k - 1
      PROVE  j \in DOMAIN t /\ t[j] = s[k]
  BY <1>1, <1>2, <1>3, <1>5
<1> QED
  BY <1>1, <1>2, <1>3, <1>4, <1>5

\* Rewriting the i-th entry leaves the others.
LEMMA UpdatedEntries ==
  ASSUME NEW s \in Seq(Entry), NEW i \in DOMAIN s, NEW e \in Entry,
         NEW t, t = [s EXCEPT ![i] = e]
  PROVE  /\ t \in Seq(Entry)
         /\ DOMAIN t = DOMAIN s
         /\ t[i] = e
         /\ \A j \in DOMAIN s \ {i} : t[j] = s[j]
<1>1. DOMAIN s = 1..Len(s)
  BY LenProperties
<1>2. t \in Seq(Entry) /\ Len(t) = Len(s)
  BY <1>1, ExceptSeq
<1> QED
  BY <1>1, <1>2, LenProperties

\* After TAILQ_INSERT_HEAD the new entry is the first and the others follow.
LEMMA InsertedEntries ==
  ASSUME NEW s \in Seq(Entry), NEW e \in Entry, NEW t, t = <<e>> \o s
  PROVE  /\ t \in Seq(Entry)
         /\ DOMAIN t = 1..Len(s)+1 /\ DOMAIN s = 1..Len(s) /\ Len(s) \in Nat
         /\ t[1] = e
         /\ \A j \in DOMAIN t \ {1} : j - 1 \in DOMAIN s /\ t[j] = s[j-1]
         /\ \A k \in DOMAIN s : k + 1 \in DOMAIN t /\ t[k+1] = s[k]
<1>1. DOMAIN s = 1..Len(s) /\ Len(s) \in Nat
  BY LenProperties
<1>2. /\ t \in Seq(Entry) /\ Len(t) = Len(s) + 1 /\ t[1] = e
      /\ \A j \in 2..Len(s)+1 : t[j] = s[j-1]
  BY InsertHeadFacts
<1>3. DOMAIN t = 1..Len(s)+1
  BY <1>1, <1>2, LenProperties
<1> QED
  BY <1>1, <1>2, <1>3

-----------------------------------------------------------------------------
(***************************************************************************)
(* Numbers.  The counter of fcgi_send_command is ahead of every number in  *)
(* use, no two requests and no two entries share one, and a request with   *)
(* the number of an entry carries its event.                               *)
(***************************************************************************)
EntriesNumbered ==
  /\ \A i \in DOMAIN cmds : cmds[i].requestId <= requestId
  /\ \A i, j \in DOMAIN cmds :
       cmds[i].requestId = cmds[j].requestId /\ cmds[i].requestId > 0 => i = j

RequestsNumbered ==
  /\ requestId \in 0..MaxRequests
  /\ \A r \in inflight : r.id \in 1..requestId
  /\ \A r, q \in inflight : r.id = q.id => r = q

NumbersMatch ==
  \A i \in DOMAIN cmds : \A r \in inflight :
    cmds[i].requestId = r.id => EventOf(cmds[i]) = <<r.command, r.params>>

Numbered == EntriesNumbered /\ RequestsNumbered /\ NumbersMatch

NumberedInv == QueueInv /\ Numbered

\* An entry freed, and any requests gone, leave the numbers of the others.
LEMMA RemovalKeepsNumbers ==
  ASSUME NumberedInv, NEW i \in DOMAIN cmds, cmds' = RemoveAt(cmds, i),
         inflight' \subseteq inflight, requestId' = requestId
  PROVE  Numbered'
<1>1. cmds \in Seq(Entry)
  BY DEF NumberedInv, QueueInv, TypeOK
<1>2. /\ \A j \in DOMAIN cmds' :
           LET k == IF j < i THEN j ELSE j + 1
           IN  k \in DOMAIN cmds \ {i} /\ cmds'[j] = cmds[k]
      /\ DOMAIN cmds' = 1..Len(cmds)-1 /\ DOMAIN cmds = 1..Len(cmds) /\ Len(cmds) \in Nat
  BY <1>1, RemovedEntries
<1>3. EntriesNumbered'
  BY <1>2 DEF NumberedInv, Numbered, EntriesNumbered
<1>4. RequestsNumbered' /\ NumbersMatch'
  BY <1>2 DEF NumberedInv, Numbered, RequestsNumbered, NumbersMatch, EventOf
<1> QED
  BY <1>3, <1>4 DEF Numbered

\* So does an entry that keeps its event and gets no new number but one that
\* nobody answers.
LEMMA UpdateKeepsNumbers ==
  ASSUME NumberedInv, NEW i \in DOMAIN cmds, NEW e \in Entry,
         EventOf(e) = EventOf(cmds[i]),
         e.requestId \in {cmds[i].requestId, Unanswerable},
         cmds' = [cmds EXCEPT ![i] = e],
         inflight' \subseteq inflight, requestId' = requestId
  PROVE  Numbered'
<1>1. cmds \in Seq(Entry)
  BY DEF NumberedInv, QueueInv, TypeOK
<1>2. /\ DOMAIN cmds' = DOMAIN cmds /\ cmds'[i] = e
      /\ \A j \in DOMAIN cmds \ {i} : cmds'[j] = cmds[j]
  BY <1>1, UpdatedEntries
<1>3. \A j \in DOMAIN cmds : /\ cmds'[j].requestId \in {cmds[j].requestId, Unanswerable}
                             /\ EventOf(cmds'[j]) = EventOf(cmds[j])
                             /\ cmds[j].requestId \in Int
  BY <1>1, <1>2, EntryTypes DEF NumberedInv, QueueInv, Entry
<1>4. requestId \in Nat
  BY DEF NumberedInv, QueueInv, TypeOK
<1>5. EntriesNumbered'
  BY <1>2, <1>3, <1>4 DEF NumberedInv, Numbered, EntriesNumbered, Unanswerable
<1>6. RequestsNumbered'
  BY DEF NumberedInv, Numbered, RequestsNumbered
<1>7. NumbersMatch'
  <2> SUFFICES ASSUME NEW j \in DOMAIN cmds', NEW r \in inflight', cmds'[j].requestId = r.id
               PROVE  EventOf(cmds'[j]) = <<r.command, r.params>>
    BY DEF NumbersMatch, EventOf
  <2>1. j \in DOMAIN cmds /\ r \in inflight /\ r.id > 0
    BY <1>2, <1>4 DEF NumberedInv, Numbered, RequestsNumbered
  <2>2. cmds[j].requestId = r.id
    BY <1>3, <2>1 DEF Unanswerable
  <2> QED
    BY <1>3, <2>1, <2>2 DEF NumberedInv, Numbered, NumbersMatch
<1> QED
  BY <1>5, <1>6, <1>7 DEF Numbered

\* A written request takes a number nobody has (fcgi_send_command).
LEMMA SendKeepsNumbers ==
  ASSUME NumberedInv, NEW i \in DOMAIN cmds, FcgiSend(i)
  PROVE  Numbered'
<1> DEFINE e == Sent(cmds[i], requestId')
           n == [command |-> cmds[i].command, params |-> cmds[i].params, id |-> requestId']
<1>1. cmds \in Seq(Entry) /\ requestId \in Nat /\ cmds[i] \in Entry
  BY EntryTypes DEF NumberedInv, QueueInv, TypeOK
<1>2. requestId' = requestId + 1 /\ requestId' \in 0..MaxRequests
  BY <1>1, QueueAssumption DEF FcgiSend
<1>3. e \in Entry /\ e.requestId = requestId' /\ EventOf(e) = EventOf(cmds[i])
  BY <1>1, <1>2, SentFacts DEF EventOf
<1>4. cmds' = [cmds EXCEPT ![i] = e] /\ inflight' = inflight \cup {n}
  BY DEF FcgiSend
<1>5. n.id = requestId' /\ <<n.command, n.params>> = EventOf(e)
  BY <1>3 DEF EventOf
<1> HIDE DEF e, n
<1>6. /\ DOMAIN cmds' = DOMAIN cmds /\ cmds'[i] = e
      /\ \A j \in DOMAIN cmds \ {i} : cmds'[j] = cmds[j]
  BY <1>1, <1>3, <1>4, UpdatedEntries
<1>7. \A j \in DOMAIN cmds : cmds[j].requestId \in Int /\ cmds[j].requestId <= requestId
  BY <1>1, EntryTypes DEF NumberedInv, Numbered, EntriesNumbered, QueueInv, Entry
<1>8. \A r \in inflight : r.id \in 1..requestId
  BY DEF NumberedInv, Numbered, RequestsNumbered
<1>9. EntriesNumbered'
  <2>1. \A j \in DOMAIN cmds' : cmds'[j].requestId <= requestId'
    BY <1>1, <1>2, <1>3, <1>6, <1>7
  <2>2. ASSUME NEW j \in DOMAIN cmds', NEW k \in DOMAIN cmds',
               cmds'[j].requestId = cmds'[k].requestId, cmds'[j].requestId > 0
        PROVE  j = k
    <3>1. CASE j # i /\ k # i
      BY <1>6, <2>2, <3>1 DEF NumberedInv, Numbered, EntriesNumbered
    <3>2. CASE j = i /\ k # i
      BY <1>1, <1>2, <1>3, <1>6, <1>7, <2>2, <3>2
    <3>3. CASE j # i /\ k = i
      BY <1>1, <1>2, <1>3, <1>6, <1>7, <2>2, <3>3
    <3> QED
      BY <3>1, <3>2, <3>3
  <2> QED
    BY <2>1, <2>2 DEF EntriesNumbered
<1>10. RequestsNumbered'
  BY <1>1, <1>2, <1>4, <1>5, <1>8 DEF NumberedInv, Numbered, RequestsNumbered
<1>11. NumbersMatch'
  <2> SUFFICES ASSUME NEW j \in DOMAIN cmds', NEW r \in inflight', cmds'[j].requestId = r.id
               PROVE  EventOf(cmds'[j]) = <<r.command, r.params>>
    BY DEF NumbersMatch, EventOf
  <2>1. CASE j = i
    <3>1. r = n
      BY <1>1, <1>2, <1>3, <1>4, <1>6, <1>8, <2>1
    <3> QED
      BY <1>5, <1>6, <2>1, <3>1
  <2>2. CASE j # i
    <3>1. cmds'[j] = cmds[j] /\ j \in DOMAIN cmds
      BY <1>6, <2>2
    <3>2. r \in inflight
      BY <1>1, <1>2, <1>4, <1>5, <1>7, <3>1
    <3> QED
      BY <3>1, <3>2 DEF NumberedInv, Numbered, NumbersMatch
  <2> QED
    BY <2>1, <2>2
<1> QED
  BY <1>9, <1>10, <1>11 DEF Numbered

\* A new entry has no number yet.
LEMMA EnqueueKeepsNumbers ==
  ASSUME NumberedInv, NEW c \in Command, NEW p \in Argument[c], Enqueue(c, p),
         UNCHANGED <<inflight, requestId>>
  PROVE  Numbered'
<1> DEFINE e == NewEntry(c, p)
<1>1. cmds \in Seq(Entry) /\ requestId \in Nat
  BY DEF NumberedInv, QueueInv, TypeOK
<1>2. e \in Entry /\ e.requestId = 0
  BY DEF NewEntry, Entry, Params
<1>3. cmds' = <<e>> \o cmds
  BY DEF Enqueue
<1> HIDE DEF e
<1>4. /\ cmds'[1] = e
      /\ \A j \in DOMAIN cmds' \ {1} : j - 1 \in DOMAIN cmds /\ cmds'[j] = cmds[j-1]
      /\ DOMAIN cmds' = 1..Len(cmds)+1 /\ Len(cmds) \in Nat
  BY <1>1, <1>2, <1>3, InsertedEntries
<1>5. EntriesNumbered'
  <2>1. \A j \in DOMAIN cmds' : cmds'[j].requestId <= requestId'
    BY <1>1, <1>2, <1>4 DEF NumberedInv, Numbered, EntriesNumbered
  <2>2. ASSUME NEW j \in DOMAIN cmds', NEW k \in DOMAIN cmds',
               cmds'[j].requestId = cmds'[k].requestId, cmds'[j].requestId > 0
        PROVE  j = k
    <3>1. j # 1 /\ k # 1
      BY <1>2, <1>4, <2>2
    <3>2. j - 1 = k - 1
      BY <1>4, <2>2, <3>1 DEF NumberedInv, Numbered, EntriesNumbered
    <3> QED
      BY <1>4, <3>2
  <2> QED
    BY <2>1, <2>2 DEF EntriesNumbered
<1>6. RequestsNumbered'
  BY DEF NumberedInv, Numbered, RequestsNumbered
<1>7. NumbersMatch'
  BY <1>2, <1>4 DEF NumberedInv, Numbered, RequestsNumbered, NumbersMatch, EventOf
<1> QED
  BY <1>5, <1>6, <1>7 DEF Numbered

\* A client's request.
LEMMA RunCommandKeepsNumbers ==
  ASSUME NumberedInv, NEW c \in Command, NEW p \in Argument[c],
         RunCommand(c, p) \/ RunCommandNoMemory(c, p)
  PROVE  Numbered'
<1>1. UNCHANGED <<inflight, requestId>>
  BY DEF RunCommand, RunCommandNoMemory
<1>2. CASE UNCHANGED cmds
  BY <1>1, <1>2 DEF NumberedInv, Numbered, EntriesNumbered, RequestsNumbered,
     NumbersMatch, EventOf
<1>3. CASE Enqueue(c, p)
  BY <1>1, <1>3, EnqueueKeepsNumbers
<1>4. ASSUME NEW i \in DOMAIN cmds,
             cmds' = [cmds EXCEPT ![i].dontexec = FALSE, ![i].timer = TRUE]
      PROVE  Numbered'
  <2> DEFINE e == [cmds[i] EXCEPT !.dontexec = FALSE, !.timer = TRUE]
  <2>1. cmds[i] \in Entry
    BY EntryTypes DEF NumberedInv, QueueInv
  <2>2. e \in Entry /\ EventOf(e) = EventOf(cmds[i]) /\ e.requestId = cmds[i].requestId
    BY <2>1 DEF Entry, EventOf
  <2>3. cmds' = [cmds EXCEPT ![i] = e]
    BY <1>4
  <2> HIDE DEF e
  <2> QED
    BY <1>1, <2>2, <2>3, UpdateKeepsNumbers
<1> QED
  BY <1>2, <1>3, <1>4 DEF RunCommand, RunCommandNoMemory, Absorb

\* An entry's timer.
LEMMA TimerKeepsNumbers ==
  ASSUME NumberedInv, NEW i \in DOMAIN cmds, TimerStep(i)
  PROVE  Numbered'
<1>1. cmds[i] \in Entry
  BY EntryTypes DEF NumberedInv, QueueInv
<1>2. CASE FcgiSend(i)
  BY <1>2, SendKeepsNumbers
<1>3. ASSUME UNCHANGED <<inflight, requestId>>, cmds' = RemoveAt(cmds, i)
      PROVE  Numbered'
  BY <1>3, RemovalKeepsNumbers
<1>4. ASSUME UNCHANGED <<inflight, requestId>>, NEW e \in Entry,
             EventOf(e) = EventOf(cmds[i]),
             e.requestId \in {cmds[i].requestId, Unanswerable},
             cmds' = [cmds EXCEPT ![i] = e]
      PROVE  Numbered'
  BY <1>4, UpdateKeepsNumbers
<1>5. CASE Reap(i)
  BY <1>3, <1>5 DEF Reap
<1>6. CASE FcgiSendAstray(i)
  <2> DEFINE e == Sent(cmds[i], Unanswerable)
  <2>1. Unanswerable \in Int
    BY DEF Unanswerable
  <2>2. e \in Entry /\ EventOf(e) = EventOf(cmds[i]) /\ e.requestId = Unanswerable
    BY <1>1, <2>1, SentFacts DEF EventOf
  <2>3. cmds' = [cmds EXCEPT ![i] = e] /\ UNCHANGED <<inflight, requestId>>
    BY <1>6 DEF FcgiSendAstray
  <2> HIDE DEF e
  <2> QED
    BY <1>4, <2>2, <2>3
<1>7. CASE FcgiSendFails(i)
  <2> DEFINE e == [cmds[i] EXCEPT !.requestId = Unanswerable]
  <2>1. e \in Entry /\ EventOf(e) = EventOf(cmds[i]) /\ e.requestId = Unanswerable
    BY <1>1 DEF Entry, EventOf, Unanswerable
  <2>2. cmds' = [cmds EXCEPT ![i] = e] /\ UNCHANGED <<inflight, requestId>>
    BY <1>7 DEF FcgiSendFails
  <2> HIDE DEF e
  <2> QED
    BY <1>4, <2>1, <2>2
<1>8. CASE ShellRun(i)
  <2> DEFINE e == [cmds[i] EXCEPT !.dontexec = TRUE]
  <2>1. e \in Entry /\ EventOf(e) = EventOf(cmds[i]) /\ e.requestId = cmds[i].requestId
    BY <1>1 DEF Entry, EventOf
  <2>2. /\ cmds' = [cmds EXCEPT ![i] = e] \/ cmds' = RemoveAt(cmds, i)
        /\ UNCHANGED <<inflight, requestId>>
    BY <1>8 DEF ShellRun
  <2> HIDE DEF e
  <2> QED
    BY <1>3, <1>4, <2>1, <2>2
<1>9. CASE ShellRunFails(i)
  <2> DEFINE e == [cmds[i] EXCEPT !.timer = FALSE]
  <2>1. e \in Entry /\ EventOf(e) = EventOf(cmds[i]) /\ e.requestId = cmds[i].requestId
    BY <1>1 DEF Entry, EventOf
  <2>2. cmds' = [cmds EXCEPT ![i] = e] /\ UNCHANGED <<inflight, requestId>>
    BY <1>9 DEF ShellRunFails
  <2> HIDE DEF e
  <2> QED
    BY <1>4, <2>1, <2>2
<1> QED
  BY <1>2, <1>5, <1>6, <1>7, <1>8, <1>9 DEF TimerStep

\* A record from the FastCGI server.
LEMMA AnswerKeepsNumbers ==
  ASSUME NumberedInv, NEW r \in inflight,
         AnswerComplete(r) \/ AnswerRefused(r) \/ AnswerDropped(r)
  PROVE  Numbered'
<1>1. inflight' \subseteq inflight /\ requestId' = requestId
  BY DEF AnswerComplete, AnswerRefused, AnswerDropped
<1>2. CASE UNCHANGED cmds
  BY <1>1, <1>2 DEF NumberedInv, Numbered, EntriesNumbered, RequestsNumbered,
     NumbersMatch, EventOf
<1>3. ASSUME NEW i \in AnsweredBy(r), cmds' = RemoveAt(cmds, i)
      PROVE  Numbered'
  <2>1. i \in DOMAIN cmds
    BY DEF AnsweredBy
  <2> QED
    BY <1>1, <1>3, <2>1, RemovalKeepsNumbers
<1>4. ASSUME NEW i \in AnsweredBy(r), cmds' = [cmds EXCEPT ![i].dontexec = FALSE]
      PROVE  Numbered'
  <2> DEFINE e == [cmds[i] EXCEPT !.dontexec = FALSE]
  <2>1. i \in DOMAIN cmds
    BY DEF AnsweredBy
  <2>2. cmds[i] \in Entry
    BY <2>1, EntryTypes DEF NumberedInv, QueueInv
  <2>3. e \in Entry /\ EventOf(e) = EventOf(cmds[i]) /\ e.requestId = cmds[i].requestId
    BY <2>2 DEF Entry, EventOf
  <2>4. cmds' = [cmds EXCEPT ![i] = e]
    BY <1>4
  <2> HIDE DEF e
  <2> QED
    BY <1>1, <2>1, <2>3, <2>4, UpdateKeepsNumbers
<1> QED
  BY <1>2, <1>3, <1>4 DEF AnswerComplete, AnswerRefused, AnswerDropped

\* No step of the daemon or its environment mixes the numbers up.
LEMMA StepKeepsNumbers == NumberedInv /\ [Next]_vars => NumberedInv'
<1> SUFFICES ASSUME NumberedInv, [Next]_vars
             PROVE  Numbered'
  BY StepKeepsInv DEF NumberedInv
<1>1. ASSUME NEW c \in Command, NEW p \in Argument[c],
             RunCommand(c, p) \/ RunCommandNoMemory(c, p)
      PROVE  Numbered'
  BY <1>1, RunCommandKeepsNumbers
<1>2. ASSUME NEW i \in DOMAIN cmds, TimerStep(i)
      PROVE  Numbered'
  BY <1>2, TimerKeepsNumbers
<1>3. ASSUME NEW r \in inflight,
             AnswerComplete(r) \/ AnswerRefused(r) \/ AnswerDropped(r)
      PROVE  Numbered'
  BY <1>3, AnswerKeepsNumbers
<1>4. CASE ConnectionBreaks \/ ClientTakesNumber \/ ClientLeaves \/ UNCHANGED vars
  <2>1. UNCHANGED <<cmds, requestId>> /\ inflight' \subseteq inflight
    BY <1>4 DEF ConnectionBreaks, ClientTakesNumber, ClientLeaves, vars
  <2> QED
    BY <2>1 DEF NumberedInv, Numbered, EntriesNumbered, RequestsNumbered,
       NumbersMatch, EventOf
<1>5. CASE Restart
  BY <1>5, EmptySeq, QueueAssumption DEF Restart, Numbered, EntriesNumbered,
     RequestsNumbered, NumbersMatch
<1> QED
  BY <1>1, <1>2, <1>3, <1>4, <1>5 DEF Next

\* The numbers of the requests, of the entries and of the counter of
\* fcgi_send_command agree whatever the environment refuses or breaks, for any
\* number of requests.
THEOREM NumbersAgree == Spec => []NumberedInv
<1>1. Init => QueueInv
  BY EmptySeq DEF Init, QueueInv, TypeOK, AggregationOrder, HoldOffsExpire, Descriptor
<1>2. Init => Numbered
  BY EmptySeq, QueueAssumption DEF Init, Numbered, EntriesNumbered,
     RequestsNumbered, NumbersMatch
<1> QED
  BY <1>1, <1>2, StepKeepsNumbers, PTL DEF Spec, NumberedInv

\* While the numbers on the wire have not wrapped, an answer frees the entry
\* whose request it answers and no other (socket_read_fcgi's walk of the queue).
THEOREM AnswersMeetTheirEntry ==
  MaxRequests < IdModulus => (Spec => AnswersFreeTheirOwnEntry)
<1> SUFFICES ASSUME MaxRequests < IdModulus
             PROVE  Spec => AnswersFreeTheirOwnEntry
  OBVIOUS
<1>1. ASSUME NumberedInv, NEW r \in inflight, NEW i \in AnsweredBy(r)
      PROVE  EventOf(cmds[i]) = <<r.command, r.params>> /\ cmds[i].requestId > 0
  <2>1. r.id > 0 /\ r.id < IdModulus /\ r.id \in Nat /\ IdModulus \in Nat
    BY <1>1, QueueAssumption DEF NumberedInv, Numbered, RequestsNumbered
  <2>2. r.id % IdModulus = r.id
    BY <2>1
  <2>3. i \in DOMAIN cmds /\ cmds[i].requestId = r.id
    BY <2>2 DEF AnsweredBy
  <2> QED
    BY <1>1, <2>1, <2>3 DEF NumberedInv, Numbered, NumbersMatch
<1>2. NumberedInv => [ \A r \in inflight :
        AnswerComplete(r) =>
          \A i \in AnsweredBy(r) :
             EventOf(cmds[i]) = <<r.command, r.params>> /\ cmds[i].requestId > 0 ]_vars
  BY <1>1
<1> QED
  BY <1>2, NumbersAgree, PTL DEF AnswersFreeTheirOwnEntry

-----------------------------------------------------------------------------
(***************************************************************************)
(* Losses.  With one parameter string per AGGREGATE script, an entry that  *)
(* has lost its timer is a sent one, a shell script whose vfork failed, or *)
(* a request written to a client's socket.                                 *)
(***************************************************************************)
EntryShape(e) ==
  /\ e.params \in Argument[e.command]
  /\ e.command \in ViaFcgi \cap Aggregated => e.timer

EntriesShaped == \A i \in DOMAIN cmds : EntryShape(cmds[i])

ShapedInv == QueueInv /\ EntriesShaped

\* An event stays covered when another entry than its own is freed.
LEMMA CoverSurvivesRemoval ==
  ASSUME QueueInv, NEW i \in DOMAIN cmds, cmds' = RemoveAt(cmds, i),
         NEW ev, Covered(ev), Pending(cmds[i]) => EventOf(cmds[i]) # ev
  PROVE  Covered(ev)'
<1>1. cmds \in Seq(Entry)
  BY DEF QueueInv, TypeOK
<1>2. \A k \in DOMAIN cmds \ {i} :
        LET j == IF k < i THEN k ELSE k - 1
        IN  j \in DOMAIN cmds' /\ cmds'[j] = cmds[k]
  BY <1>1, RemovedEntries
<1>3. PICK k \in DOMAIN cmds : Pending(cmds[k]) /\ EventOf(cmds[k]) = ev
  BY DEF Covered
<1>4. k # i
  BY <1>3
<1>5. PICK j \in DOMAIN cmds' : cmds'[j] = cmds[k]
  BY <1>2, <1>4
<1> QED
  BY <1>3, <1>5 DEF Covered, Pending, EventOf

\* An event stays covered when another entry is rewritten, or its own stays pending.
LEMMA CoverSurvivesUpdate ==
  ASSUME QueueInv, NEW i \in DOMAIN cmds, NEW e \in Entry,
         cmds' = [cmds EXCEPT ![i] = e], EventOf(e) = EventOf(cmds[i]),
         NEW ev, Covered(ev),
         EventOf(cmds[i]) # ev \/ (Pending(cmds[i]) => Pending(e))
  PROVE  Covered(ev)'
<1>1. cmds \in Seq(Entry)
  BY DEF QueueInv, TypeOK
<1>2. /\ DOMAIN cmds' = DOMAIN cmds /\ cmds'[i] = e
      /\ \A j \in DOMAIN cmds \ {i} : cmds'[j] = cmds[j]
  BY <1>1, UpdatedEntries
<1>3. PICK k \in DOMAIN cmds : Pending(cmds[k]) /\ EventOf(cmds[k]) = ev
  BY DEF Covered
<1>4. CASE k = i
  BY <1>2, <1>3, <1>4 DEF Covered, Pending, EventOf
<1>5. CASE k # i
  BY <1>2, <1>3, <1>5 DEF Covered, Pending, EventOf
<1> QED
  BY <1>4, <1>5

\* Freeing an entry leaves the shape of the others.
LEMMA RemovalKeepsEntryShape ==
  ASSUME ShapedInv, NEW i \in DOMAIN cmds, cmds' = RemoveAt(cmds, i)
  PROVE  EntriesShaped'
<1>1. cmds \in Seq(Entry)
  BY DEF ShapedInv, QueueInv, TypeOK
<1>2. \A j \in DOMAIN cmds' :
        LET k == IF j < i THEN j ELSE j + 1
        IN  k \in DOMAIN cmds \ {i} /\ cmds'[j] = cmds[k]
  BY <1>1, RemovedEntries
<1> QED
  BY <1>2 DEF ShapedInv, EntriesShaped, EntryShape

\* So does rewriting one, as long as the new one has the shape.
LEMMA UpdateKeepsEntryShape ==
  ASSUME ShapedInv, NEW i \in DOMAIN cmds, NEW e \in Entry, EntryShape(e),
         cmds' = [cmds EXCEPT ![i] = e]
  PROVE  EntriesShaped'
<1>1. cmds \in Seq(Entry)
  BY DEF ShapedInv, QueueInv, TypeOK
<1>2. /\ DOMAIN cmds' = DOMAIN cmds /\ cmds'[i] = e
      /\ \A j \in DOMAIN cmds \ {i} : cmds'[j] = cmds[j]
  BY <1>1, UpdatedEntries
<1> QED
  BY <1>2 DEF ShapedInv, EntriesShaped, EntryShape

\* What each timer makes of its entry: it frees it, or rewrites it with the
\* same event, which stays pending unless it is handed over, stranded or sent
\* to a client.
LEMMA TimerEffects ==
  ASSUME QueueInv, NEW i \in DOMAIN cmds, TimerStep(i)
  PROVE  \/ /\ cmds' = RemoveAt(cmds, i)
            /\ \/ ~Pending(cmds[i]) /\ UNCHANGED <<owed, credit>>
               \/ Pending(cmds[i]) /\ HandOver(i)
         \/ \E e \in Entry :
              /\ cmds' = [cmds EXCEPT ![i] = e]
              /\ EventOf(e) = EventOf(cmds[i])
              /\ e.aggregate = cmds[i].aggregate
              /\ e.timer <=> IF ShellRunFails(i) THEN FALSE
                             ELSE IF FcgiSend(i) \/ FcgiSendAstray(i)
                                  THEN e.aggregate > 0 ELSE cmds[i].timer
              /\ Pending(cmds[i])
              /\ \/ Pending(e) /\ UNCHANGED <<owed, credit>>
                 \/ ~Pending(e) /\ HandOver(i)
                 \/ /\ ~Pending(e) /\ UNCHANGED <<owed, credit>>
                    /\ ShellRunFails(i) \/ FcgiSendAstray(i)
<1>1. cmds[i] \in Entry /\ requestId \in Nat
  BY EntryTypes DEF QueueInv, TypeOK
<1>2. CASE Reap(i)
  BY <1>2 DEF Reap, Pending
<1>3. CASE FcgiSend(i)
  <2> DEFINE e == Sent(cmds[i], requestId')
  <2>1. requestId' \in Int
    BY <1>1, <1>3 DEF FcgiSend
  <2>2. /\ e \in Entry /\ EventOf(e) = EventOf(cmds[i])
        /\ e.aggregate = cmds[i].aggregate
        /\ e.dontexec <=> cmds[i].aggregate > 0
        /\ e.timer <=> cmds[i].aggregate > 0
    BY <1>1, <2>1, SentFacts DEF EventOf
  <2>3. /\ cmds' = [cmds EXCEPT ![i] = e] /\ Pending(cmds[i]) /\ HandOver(i)
        /\ ~ShellRunFails(i)
    BY <1>3 DEF FcgiSend, Fires, Pending, ShellRunFails
  <2> HIDE DEF e
  <2>4. ~Pending(e)
    BY <2>2 DEF Pending
  <2> QED
    BY <1>3, <2>2, <2>3, <2>4
<1>4. CASE FcgiSendAstray(i)
  <2> DEFINE e == Sent(cmds[i], Unanswerable)
  <2>1. Unanswerable \in Int
    BY DEF Unanswerable
  <2>2. /\ e \in Entry /\ EventOf(e) = EventOf(cmds[i])
        /\ e.aggregate = cmds[i].aggregate
        /\ e.dontexec <=> cmds[i].aggregate > 0
        /\ e.timer <=> cmds[i].aggregate > 0
    BY <1>1, <2>1, SentFacts DEF EventOf
  <2>3. /\ cmds' = [cmds EXCEPT ![i] = e] /\ Pending(cmds[i])
        /\ UNCHANGED <<owed, credit>> /\ ~ShellRunFails(i)
    BY <1>4 DEF FcgiSendAstray, Fires, Pending, ShellRunFails
  <2> HIDE DEF e
  <2>4. ~Pending(e)
    BY <2>2 DEF Pending
  <2> QED
    BY <1>4, <2>2, <2>3, <2>4
<1>5. CASE FcgiSendFails(i) /\ ~FcgiSend(i) /\ ~FcgiSendAstray(i)
  <2> DEFINE e == [cmds[i] EXCEPT !.requestId = Unanswerable]
  <2>1. /\ e \in Entry /\ EventOf(e) = EventOf(cmds[i])
        /\ e.aggregate = cmds[i].aggregate
        /\ e.dontexec = cmds[i].dontexec /\ e.timer = cmds[i].timer
    BY <1>1 DEF Entry, EventOf, Unanswerable
  <2>2. /\ cmds' = [cmds EXCEPT ![i] = e] /\ Pending(cmds[i])
        /\ UNCHANGED <<owed, credit>> /\ ~ShellRunFails(i)
    BY <1>5 DEF FcgiSendFails, Fires, Pending, ShellRunFails
  <2> HIDE DEF e
  <2>3. Pending(e)
    BY <2>1, <2>2 DEF Pending
  <2> QED
    BY <1>5, <2>1, <2>2, <2>3
<1>6. CASE ShellRun(i) /\ ~ShellRunFails(i)
  <2> DEFINE e == [cmds[i] EXCEPT !.dontexec = TRUE]
  <2>1. /\ e \in Entry /\ EventOf(e) = EventOf(cmds[i])
        /\ e.aggregate = cmds[i].aggregate /\ e.dontexec /\ e.timer = cmds[i].timer
    BY <1>1 DEF Entry, EventOf
  <2>2. /\ cmds' = [cmds EXCEPT ![i] = e] \/ cmds' = RemoveAt(cmds, i)
        /\ Pending(cmds[i]) /\ HandOver(i) /\ ~FcgiSend(i) /\ ~FcgiSendAstray(i)
    BY <1>6 DEF ShellRun, Fires, Pending, FcgiSend, FcgiSendAstray
  <2> HIDE DEF e
  <2>3. ~Pending(e)
    BY <2>1 DEF Pending
  <2> QED
    BY <1>6, <2>1, <2>2, <2>3
<1>7. CASE ShellRunFails(i)
  <2> DEFINE e == [cmds[i] EXCEPT !.timer = FALSE]
  <2>1. /\ e \in Entry /\ EventOf(e) = EventOf(cmds[i])
        /\ e.aggregate = cmds[i].aggregate /\ e.timer = FALSE
    BY <1>1 DEF Entry, EventOf
  <2>2. /\ cmds' = [cmds EXCEPT ![i] = e] /\ Pending(cmds[i])
        /\ UNCHANGED <<owed, credit>>
    BY <1>7 DEF ShellRunFails, Fires, Pending
  <2> HIDE DEF e
  <2>3. ~Pending(e)
    BY <2>1 DEF Pending
  <2> QED
    BY <1>7, <2>1, <2>2, <2>3
<1> QED
  BY <1>2, <1>3, <1>4, <1>5, <1>6, <1>7 DEF TimerStep

\* A request that meets a queued entry of its script leaves it as it is when it
\* has still to run, and schedules it again when it is held off: the sum of the
\* scan never reaches the 3 at which run_command would drop the request.
LEMMA AbsorbEffects ==
  ASSUME QueueInv, NEW c \in Command, NEW p, Absorb(c, p)
  PROVE  \E i \in DOMAIN cmds :
           /\ cmds[i].command = c /\ c \in Aggregated
           /\ \/ ~cmds[i].dontexec /\ cmds' = cmds
              \/ /\ cmds[i].dontexec
                 /\ \E e \in Entry :
                      /\ cmds' = [cmds EXCEPT ![i] = e]
                      /\ EventOf(e) = EventOf(cmds[i])
                      /\ e.aggregate = cmds[i].aggregate
                      /\ e.timer /\ Pending(e)
<1>1. PICK i \in DOMAIN cmds :
        /\ ScanStopsAt(c, i)
        /\ cmds' = IF cmds[i].dontexec /\ AggregateAt(c, i) < 3
                   THEN [cmds EXCEPT ![i].dontexec = FALSE, ![i].timer = TRUE]
                   ELSE cmds
  BY DEF Absorb
<1>2. cmds[i] \in Entry
  BY EntryTypes DEF QueueInv
<1>3. cmds[i].command = c /\ c \in Aggregated
  BY <1>1 DEF ScanStopsAt, Matching
<1>4. AggregateAt(c, i) < 3
  <2>1. cmds[i].aggregate \in {1, 2}
    BY <1>3 DEF QueueInv, AggregationOrder
  <2>2. CASE HasEarlier(c, i)
    <3>1. PICK j \in Matching(c) : j < i
      BY <2>2 DEF HasEarlier
    <3>2. cmds[j].aggregate = 2
      BY <1>3, <3>1 DEF Matching, QueueInv, AggregationOrder
    <3>3. ~(AggregateAt(c, j) <= 1)
      BY <3>2 DEF AggregateAt
    <3> QED
      BY <1>1, <3>1, <3>3 DEF ScanStopsAt
  <2>3. CASE ~HasEarlier(c, i)
    BY <2>1, <2>3 DEF AggregateAt
  <2> QED
    BY <2>2, <2>3
<1>5. CASE cmds[i].dontexec
  <2> DEFINE e == [cmds[i] EXCEPT !.dontexec = FALSE, !.timer = TRUE]
  <2>1. /\ e \in Entry /\ EventOf(e) = EventOf(cmds[i])
        /\ e.aggregate = cmds[i].aggregate /\ e.timer /\ Pending(e)
    BY <1>2 DEF Entry, EventOf, Pending
  <2>2. cmds' = [cmds EXCEPT ![i] = e]
    BY <1>1, <1>4, <1>5
  <2> HIDE DEF e
  <2> QED
    BY <1>3, <1>5, <2>1, <2>2
<1>6. CASE ~cmds[i].dontexec
  BY <1>1, <1>3, <1>6
<1> QED
  BY <1>5, <1>6

\* A new entry is pending with its request's event.
LEMMA EnqueueEffects ==
  ASSUME QueueInv, NEW c \in Command, NEW p \in Argument[c], Enqueue(c, p)
  PROVE  \E e \in Entry : /\ cmds' = <<e>> \o cmds
                          /\ EventOf(e) = <<c, p>> /\ e.command = c /\ e.params = p
                          /\ Pending(e) /\ e.timer
<1>1. NewEntry(c, p) \in Entry
  BY DEF NewEntry, Entry, Params
<1> QED
  BY <1>1 DEF Enqueue, NewEntry, EventOf, Pending

\* Every step keeps the shape of the entries.
LEMMA StepKeepsEntryShape == ShapedInv /\ [Next]_vars => ShapedInv'
<1> SUFFICES ASSUME ShapedInv, [Next]_vars
             PROVE  EntriesShaped'
  BY StepKeepsInv DEF ShapedInv
<1>1. QueueInv /\ cmds \in Seq(Entry)
  BY DEF ShapedInv, QueueInv, TypeOK
<1>2. CASE UNCHANGED cmds
  BY <1>2 DEF ShapedInv, EntriesShaped, EntryShape
<1>3. ASSUME NEW c \in Command, NEW p \in Argument[c], RunCommand(c, p)
      PROVE  EntriesShaped'
  <2>1. CASE Enqueue(c, p)
    <3>1. PICK e \in Entry : /\ cmds' = <<e>> \o cmds
                             /\ e.command = c /\ e.params = p /\ e.timer
      BY <1>1, <2>1, EnqueueEffects
    <3>2. /\ cmds'[1] = e
          /\ \A j \in DOMAIN cmds' \ {1} : j - 1 \in DOMAIN cmds /\ cmds'[j] = cmds[j-1]
      BY <1>1, <3>1, InsertedEntries
    <3> QED
      BY <3>1, <3>2 DEF ShapedInv, EntriesShaped, EntryShape
  <2>2. CASE Absorb(c, p)
    <3>1. PICK i \in DOMAIN cmds :
            \/ cmds' = cmds
            \/ \E e \in Entry : /\ cmds' = [cmds EXCEPT ![i] = e]
                                /\ EventOf(e) = EventOf(cmds[i]) /\ e.timer
      BY <1>1, <2>2, AbsorbEffects
    <3>2. ASSUME NEW e \in Entry, cmds' = [cmds EXCEPT ![i] = e],
                 EventOf(e) = EventOf(cmds[i]), e.timer
          PROVE  EntriesShaped'
      <4>1. EntryShape(e)
        BY <3>2 DEF ShapedInv, EntriesShaped, EntryShape, EventOf
      <4> QED
        BY <3>2, <4>1, UpdateKeepsEntryShape
    <3> QED
      BY <1>2, <3>1, <3>2
  <2> QED
    BY <1>3, <2>1, <2>2 DEF RunCommand
<1>4. ASSUME NEW i \in DOMAIN cmds, TimerStep(i)
      PROVE  EntriesShaped'
  <2>1. CASE cmds' = RemoveAt(cmds, i)
    BY <2>1, RemovalKeepsEntryShape
  <2>2. ASSUME NEW e \in Entry, cmds' = [cmds EXCEPT ![i] = e],
               EventOf(e) = EventOf(cmds[i]), e.aggregate = cmds[i].aggregate,
               e.timer <=> IF ShellRunFails(i) THEN FALSE
                           ELSE IF FcgiSend(i) \/ FcgiSendAstray(i)
                                THEN e.aggregate > 0 ELSE cmds[i].timer
        PROVE  EntriesShaped'
    <3>1. e.command = cmds[i].command /\ e.params = cmds[i].params
      BY <2>2 DEF EventOf
    <3>2. e.command \in ViaFcgi \cap Aggregated => e.timer
      <4> SUFFICES ASSUME e.command \in ViaFcgi, e.command \in Aggregated
                   PROVE  e.timer
        OBVIOUS
      <4>1. ~ShellRunFails(i)
        BY <3>1 DEF ShellRunFails
      <4>2. e.aggregate > 0
        BY <2>2, <3>1 DEF ShapedInv, QueueInv, AggregationOrder
      <4>3. cmds[i].timer
        BY <3>1 DEF ShapedInv, EntriesShaped, EntryShape
      <4> QED
        BY <2>2, <4>1, <4>2, <4>3
    <3>3. EntryShape(e)
      BY <3>1, <3>2 DEF ShapedInv, EntriesShaped, EntryShape
    <3> QED
      BY <2>2, <3>3, UpdateKeepsEntryShape
  <2> QED
    BY <1>1, <1>4, <2>1, <2>2, TimerEffects
<1>5. ASSUME NEW r \in inflight,
             AnswerComplete(r) \/ AnswerRefused(r) \/ AnswerDropped(r)
      PROVE  EntriesShaped'
  <2>1. \A i \in AnsweredBy(r) : i \in DOMAIN cmds
    BY DEF AnsweredBy
  <2>2. ASSUME NEW i \in AnsweredBy(r), cmds' = [cmds EXCEPT ![i].dontexec = FALSE]
        PROVE  EntriesShaped'
    <3> DEFINE e == [cmds[i] EXCEPT !.dontexec = FALSE]
    <3>1. cmds[i] \in Entry
      BY <1>1, <2>1, EntryTypes DEF QueueInv
    <3>2. e \in Entry /\ EntryShape(e)
      BY <2>1, <3>1 DEF Entry, ShapedInv, EntriesShaped, EntryShape
    <3>3. cmds' = [cmds EXCEPT ![i] = e]
      BY <2>2
    <3> HIDE DEF e
    <3> QED
      BY <2>1, <3>2, <3>3, UpdateKeepsEntryShape
  <2>3. ASSUME NEW i \in AnsweredBy(r), cmds' = RemoveAt(cmds, i)
        PROVE  EntriesShaped'
    BY <2>1, <2>3, RemovalKeepsEntryShape
  <2> QED
    BY <1>2, <1>5, <2>2, <2>3 DEF AnswerComplete, AnswerRefused, AnswerDropped
<1>6. CASE Restart
  BY <1>6, EmptySeq DEF Restart, EntriesShaped
<1> QED
  BY <1>2, <1>3, <1>4, <1>5, <1>6 DEF Next, RunCommandNoMemory, ConnectionBreaks,
     ClientTakesNumber, ClientLeaves, vars

\* The entries' shape holds in every behaviour.
LEMMA EntriesKeepShape == Spec => []ShapedInv
<1>1. Init => ShapedInv
  BY EmptySeq DEF Init, ShapedInv, QueueInv, TypeOK, AggregationOrder,
     HoldOffsExpire, Descriptor, EntriesShaped
<1> QED
  BY <1>1, StepKeepsEntryShape, PTL DEF Spec

OneArgument == \A c \in Aggregated : \A p, q \in Argument[c] : p = q

\* How a step may leave an accepted event to nobody.
LosesEvents ==
  \/ \E r \in inflight : inflight' = inflight \ {r}
  \/ \E i \in DOMAIN cmds : ShellRunFails(i) \/ Stranded(i) \/ FcgiSendAstray(i)
  \/ Restart

\* A client's request is covered, and loses no other, unless it meets a
\* stranded entry.
LEMMA RequestsAreCovered ==
  ASSUME OneArgument, ShapedInv, NEW c \in Command, NEW p \in Argument[c],
         RunCommand(c, p), NEW ev \in owed', ev \notin owed \/ Covered(ev)
  PROVE  Covered(ev)' \/ LosesEvents
<1>1. QueueInv /\ cmds \in Seq(Entry)
  BY DEF ShapedInv, QueueInv, TypeOK
<1>2. ev = <<c, p>> \/ Covered(ev)
  BY DEF RunCommand
<1>3. CASE Enqueue(c, p)
  <2>1. PICK e \in Entry : /\ cmds' = <<e>> \o cmds
                           /\ EventOf(e) = <<c, p>> /\ Pending(e)
    BY <1>1, <1>3, EnqueueEffects
  <2>2. /\ cmds'[1] = e /\ DOMAIN cmds' = 1..Len(cmds)+1 /\ Len(cmds) \in Nat
        /\ \A k \in DOMAIN cmds : k + 1 \in DOMAIN cmds' /\ cmds'[k+1] = cmds[k]
    BY <1>1, <2>1, InsertedEntries
  <2>3. 1 \in DOMAIN cmds'
    BY <2>2
  <2> QED
    BY <1>2, <2>1, <2>2, <2>3 DEF Covered, Pending, EventOf
<1>4. CASE Absorb(c, p)
  <2>1. PICK i \in DOMAIN cmds :
          /\ cmds[i].command = c /\ c \in Aggregated
          /\ \/ ~cmds[i].dontexec /\ cmds' = cmds
             \/ /\ cmds[i].dontexec
                /\ \E e \in Entry :
                     /\ cmds' = [cmds EXCEPT ![i] = e]
                     /\ EventOf(e) = EventOf(cmds[i])
                     /\ e.aggregate = cmds[i].aggregate
                     /\ e.timer /\ Pending(e)
    BY <1>1, <1>4, AbsorbEffects
  <2>2. EventOf(cmds[i]) = <<c, p>>
    BY <2>1 DEF OneArgument, ShapedInv, EntriesShaped, EntryShape, EventOf
  <2>3. CASE ~cmds[i].dontexec /\ cmds' = cmds
    <3>1. CASE cmds[i].timer
      BY <1>2, <2>2, <2>3, <3>1 DEF Covered, Pending, EventOf
    <3>2. CASE ~cmds[i].timer
      <4>1. Stranded(i)
        BY <2>1, <3>2 DEF ShapedInv, EntriesShaped, EntryShape, Stranded
      <4> QED
        BY <4>1 DEF LosesEvents
    <3> QED
      BY <3>1, <3>2
  <2>4. ASSUME NEW e \in Entry, cmds' = [cmds EXCEPT ![i] = e],
               EventOf(e) = EventOf(cmds[i]), Pending(e)
        PROVE  Covered(ev)'
    <3>1. CASE Covered(ev)
      BY <1>1, <2>4, <3>1, CoverSurvivesUpdate
    <3>2. CASE ev = <<c, p>>
      <4>1. i \in DOMAIN cmds' /\ cmds'[i] = e
        BY <1>1, <2>4, UpdatedEntries
      <4> QED
        BY <2>2, <2>4, <3>2, <4>1 DEF Covered, Pending, EventOf
    <3> QED
      BY <1>2, <3>1, <3>2
  <2> QED
    BY <2>1, <2>3, <2>4
<1> QED
  BY <1>3, <1>4 DEF RunCommand

\* A timer loses no event but its own, and that only in one of the ways.
LEMMA TimersLoseNothingElse ==
  ASSUME ShapedInv, NEW i \in DOMAIN cmds, TimerStep(i),
         NEW ev \in owed', ev \notin owed \/ Covered(ev)
  PROVE  Covered(ev)' \/ LosesEvents
<1>1. QueueInv
  BY DEF ShapedInv
<1>2. CASE ShellRunFails(i) \/ FcgiSendAstray(i)
  BY <1>2 DEF LosesEvents
<1>3. CASE UNCHANGED owed \/ HandOver(i)
  <2>1. /\ ev \in owed /\ Covered(ev)
        /\ HandOver(i) => ev # EventOf(cmds[i])
    BY <1>3 DEF HandOver
  <2>2. CASE cmds' = RemoveAt(cmds, i) /\ (~Pending(cmds[i]) \/ HandOver(i))
    BY <1>1, <2>1, <2>2, CoverSurvivesRemoval
  <2>3. ASSUME NEW e \in Entry, cmds' = [cmds EXCEPT ![i] = e],
               EventOf(e) = EventOf(cmds[i]), Pending(e) \/ HandOver(i)
        PROVE  Covered(ev)'
    BY <1>1, <2>1, <2>3, CoverSurvivesUpdate
  <2> QED
    BY <1>1, <1>2, <2>2, <2>3, TimerEffects
<1> QED
  BY <1>1, <1>2, <1>3, TimerEffects

\* While each AGGREGATE script has one parameter string, an accepted event goes
\* unserved only by calloc failing for its own request, by reading an answer, by
\* vfork failing or having failed, by a request written to a client's socket, or by
\* a restart of the daemon.
THEOREM LossesAreFive == OneArgument => (Spec => EventsAreLostFiveWays)
<1> SUFFICES ASSUME OneArgument
             PROVE  Spec => EventsAreLostFiveWays
  OBVIOUS
<1>1. ASSUME ShapedInv, [Next]_vars, NEW ev \in owed',
             ev \notin owed \/ Covered(ev), ~Covered(ev)'
      PROVE  RunCommandNoMemory(ev[1], ev[2]) \/ LosesEvents \/ UNCHANGED vars
  <2>1. ASSUME NEW c \in Command, NEW p \in Argument[c], RunCommand(c, p)
        PROVE  LosesEvents
    BY <1>1, <2>1, RequestsAreCovered
  <2>2. ASSUME NEW i \in DOMAIN cmds, TimerStep(i)
        PROVE  LosesEvents
    BY <1>1, <2>2, TimersLoseNothingElse
  <2>3. ASSUME NEW r \in inflight,
               AnswerComplete(r) \/ AnswerRefused(r) \/ AnswerDropped(r)
        PROVE  LosesEvents
    BY <2>3 DEF AnswerComplete, AnswerRefused, AnswerDropped, LosesEvents
  <2>4. ~UNCHANGED <<cmds, owed>>
    BY <1>1 DEF Covered, Pending, EventOf
  <2>5. CASE Restart
    BY <2>5 DEF LosesEvents
  <2>6. ASSUME NEW c \in Command, NEW p \in Argument[c], RunCommandNoMemory(c, p)
        PROVE  RunCommandNoMemory(ev[1], ev[2])
    <3>1. owed' = owed \cup {<<c, p>>} /\ UNCHANGED cmds
      BY <2>6 DEF RunCommandNoMemory
    <3>2. ~Covered(ev)
      BY <1>1, <3>1 DEF Covered, Pending, EventOf
    <3>3. ev[1] = c /\ ev[2] = p
      BY <1>1, <3>1, <3>2
    <3> QED
      BY <2>6, <3>3
  <2> QED
    BY <1>1, <2>1, <2>2, <2>3, <2>4, <2>5, <2>6 DEF Next,
       ConnectionBreaks, ClientTakesNumber, ClientLeaves
<1>2. ShapedInv /\ [Next]_vars =>
        [ \A ev \in owed' :
            (ev \notin owed \/ Covered(ev)) /\ ~Covered(ev)'
              => \/ RunCommandNoMemory(ev[1], ev[2])
                 \/ \E r \in inflight : inflight' = inflight \ {r}
                 \/ \E i \in DOMAIN cmds :
                      ShellRunFails(i) \/ Stranded(i) \/ FcgiSendAstray(i)
                 \/ Restart ]_vars
  BY <1>1 DEF LosesEvents
<1> QED
  BY <1>2, EntriesKeepShape, PTL DEF Spec, EventsAreLostFiveWays

-----------------------------------------------------------------------------
(***************************************************************************)
(* Parked entries.  Where vfork works, connects succeed, the server does   *)
(* not refuse, answers are read whole and the connection stays, what has   *)
(* no timer waits for an answer that can still come.                       *)
(***************************************************************************)
AnsweredSetting ==
  /\ MaxRequests < IdModulus
  /\ Faults \cap {"vfork", "connect", "refuse", "recv", "break"} = {}

Connectable == fcgifd \in {"closed", "up"}

ParkedInv ==
  /\ NumberedInv
  /\ Connectable
  /\ ParkedEntriesAwaitAnswer

Awaits(e, requests) ==
  \E r \in requests : /\ r.id = e.requestId
                      /\ EventOf(e) = <<r.command, r.params>>

\* A new or rewritten entry with a timer, and requests that stay, park nothing.
LEMMA TimersParkNothing ==
  ASSUME ParkedInv, inflight \subseteq inflight',
         \A j \in DOMAIN cmds' :
           \/ cmds'[j].timer
           \/ Awaits(cmds'[j], inflight')
           \/ \E k \in DOMAIN cmds : cmds'[j] = cmds[k]
  PROVE  ParkedEntriesAwaitAnswer'
<1>1. \A k \in DOMAIN cmds : ~cmds[k].timer => Awaits(cmds[k], inflight')
  BY DEF ParkedInv, ParkedEntriesAwaitAnswer, Awaits
<1>2. \A j \in DOMAIN cmds' : ~cmds'[j].timer => Awaits(cmds'[j], inflight')
  BY <1>1
<1> QED
  BY <1>2 DEF ParkedEntriesAwaitAnswer, Awaits, EventOf

\* The timer of an entry parks it only by sending its request.
LEMMA TimerParksSent ==
  ASSUME AnsweredSetting, ParkedInv, NEW i \in DOMAIN cmds, TimerStep(i)
  PROVE  ParkedEntriesAwaitAnswer' /\ Connectable'
<1>1. /\ NumberedInv /\ QueueInv /\ cmds \in Seq(Entry)
      /\ cmds[i] \in Entry /\ requestId \in Nat
  BY EntryTypes DEF ParkedInv, NumberedInv, QueueInv, TypeOK
<1>2. ~ShellRunFails(i) /\ ~FcgiSendAstray(i)
  BY DEF ShellRunFails, FcgiSendAstray, AnsweredSetting, ParkedInv, Connectable
<1>3. Connectable'
  BY <1>2 DEF TimerStep, Reap, FcgiSend, FcgiSendFails, ShellRun, WriteTargets,
     OpenOutcomes, AnsweredSetting, ParkedInv, Connectable
<1>4. inflight \subseteq inflight'
  BY <1>2 DEF TimerStep, Reap, FcgiSend, FcgiSendFails, ShellRun
<1>5. CASE FcgiSend(i)
  <2> DEFINE e == Sent(cmds[i], requestId')
             n == [command |-> cmds[i].command, params |-> cmds[i].params,
                   id |-> requestId']
  <2>1. requestId' \in Int
    BY <1>1, <1>5 DEF FcgiSend
  <2>2. e \in Entry /\ EventOf(e) = EventOf(cmds[i]) /\ e.requestId = requestId'
    BY <1>1, <2>1, SentFacts DEF EventOf
  <2>3. cmds' = [cmds EXCEPT ![i] = e] /\ n \in inflight'
    BY <1>5 DEF FcgiSend
  <2>4. n.id = requestId' /\ EventOf(cmds[i]) = <<n.command, n.params>>
    BY DEF EventOf
  <2> HIDE DEF e, n
  <2>5. Awaits(e, inflight')
    BY <2>2, <2>3, <2>4 DEF Awaits
  <2>6. /\ DOMAIN cmds' = DOMAIN cmds /\ cmds'[i] = e
        /\ \A j \in DOMAIN cmds \ {i} : cmds'[j] = cmds[j]
    BY <1>1, <2>2, <2>3, UpdatedEntries
  <2> QED
    BY <1>3, <1>4, <2>5, <2>6, TimersParkNothing
<1>6. CASE ~FcgiSend(i)
  <2>1. CASE cmds' = RemoveAt(cmds, i)
    <3>1. \A j \in DOMAIN cmds' :
            LET k == IF j < i THEN j ELSE j + 1
            IN  k \in DOMAIN cmds \ {i} /\ cmds'[j] = cmds[k]
      BY <1>1, <2>1, RemovedEntries
    <3> QED
      BY <1>3, <1>4, <3>1, TimersParkNothing
  <2>2. ASSUME NEW e \in Entry, cmds' = [cmds EXCEPT ![i] = e],
               e.timer <=> cmds[i].timer
        PROVE  ParkedEntriesAwaitAnswer'
    <3>1. cmds[i].timer
      BY <1>2, <1>6 DEF TimerStep, Reap, FcgiSendFails, ShellRun, Fires
    <3>2. /\ DOMAIN cmds' = DOMAIN cmds /\ cmds'[i] = e
          /\ \A j \in DOMAIN cmds \ {i} : cmds'[j] = cmds[j]
      BY <1>1, <2>2, UpdatedEntries
    <3> QED
      BY <1>4, <2>2, <3>1, <3>2, TimersParkNothing
  <2> QED
    BY <1>1, <1>2, <1>3, <1>6, <2>1, <2>2, TimerEffects
<1> QED
  BY <1>5, <1>6

\* An answer frees the one entry that waits for it.
LEMMA AnswerParksNothing ==
  ASSUME AnsweredSetting, ParkedInv, NEW r \in inflight, AnswerComplete(r)
  PROVE  ParkedEntriesAwaitAnswer'
<1>1. NumberedInv /\ cmds \in Seq(Entry)
  BY DEF ParkedInv, NumberedInv, QueueInv, TypeOK
<1>2. r.id \in Nat /\ r.id > 0 /\ r.id % IdModulus = r.id
  <2>1. r.id \in Nat /\ r.id > 0 /\ r.id < IdModulus /\ IdModulus \in Nat
    BY <1>1, QueueAssumption DEF NumberedInv, Numbered, RequestsNumbered, AnsweredSetting
  <2> QED
    BY <2>1
<1>3. \A i, j \in DOMAIN cmds :
        cmds[i].requestId = r.id /\ cmds[j].requestId = r.id => i = j
  BY <1>1, <1>2 DEF NumberedInv, Numbered, EntriesNumbered
<1>4. DOMAIN cmds = 1..Len(cmds)
  BY <1>1, LenProperties
<1>5. \A i \in DOMAIN cmds : cmds[i].requestId = r.id => i \in AnsweredBy(r)
  BY <1>2, <1>3, <1>4 DEF AnsweredBy
<1>6. \A j \in DOMAIN cmds' : \E k \in DOMAIN cmds : cmds'[j] = cmds[k] /\ cmds[k].requestId # r.id
  <2>1. CASE AnsweredBy(r) = {} /\ cmds' = cmds
    BY <1>5, <2>1
  <2>2. ASSUME NEW i \in AnsweredBy(r), cmds' = RemoveAt(cmds, i)
        PROVE  <1>6!:
    <3>1. i \in DOMAIN cmds /\ cmds[i].requestId = r.id
      BY <1>2 DEF AnsweredBy
    <3>2. \A j \in DOMAIN cmds' :
            LET k == IF j < i THEN j ELSE j + 1
            IN  k \in DOMAIN cmds \ {i} /\ cmds'[j] = cmds[k]
      BY <1>1, <2>2, <3>1, RemovedEntries
    <3> QED
      BY <1>3, <3>1, <3>2
  <2> QED
    BY <2>1, <2>2 DEF AnswerComplete
<1>7. inflight' = inflight \ {r}
  BY DEF AnswerComplete
<1>8. ASSUME NEW j \in DOMAIN cmds', ~cmds'[j].timer
      PROVE  Awaits(cmds'[j], inflight')
  <2>1. PICK k \in DOMAIN cmds : cmds'[j] = cmds[k] /\ cmds[k].requestId # r.id
    BY <1>6
  <2>2. Awaits(cmds[k], inflight)
    BY <1>8, <2>1 DEF ParkedInv, ParkedEntriesAwaitAnswer, Awaits
  <2> QED
    BY <1>7, <2>1, <2>2 DEF Awaits
<1> QED
  BY <1>8 DEF ParkedEntriesAwaitAnswer, Awaits, EventOf

\* Every entry without a timer has its request with the server, in the setting above.
THEOREM ParkedAwait == AnsweredSetting => (Spec => []ParkedEntriesAwaitAnswer)
<1> SUFFICES ASSUME AnsweredSetting
             PROVE  Spec => []ParkedEntriesAwaitAnswer
  OBVIOUS
<1>1. Init => Connectable /\ ParkedEntriesAwaitAnswer
  BY EmptySeq DEF Init, ParkedEntriesAwaitAnswer, Connectable
<1>2. NumberedInv /\ Connectable /\ ParkedEntriesAwaitAnswer /\ [Next]_vars
        => Connectable' /\ ParkedEntriesAwaitAnswer'
  <2> SUFFICES ASSUME NumberedInv, Connectable, ParkedEntriesAwaitAnswer,
                      [Next]_vars
               PROVE  Connectable' /\ ParkedEntriesAwaitAnswer'
    OBVIOUS
  <2>1. ParkedInv /\ QueueInv /\ cmds \in Seq(Entry)
    BY DEF ParkedInv, NumberedInv, QueueInv, TypeOK
  <2>2. ASSUME NEW c \in Command, NEW p \in Argument[c], RunCommand(c, p)
        PROVE  ParkedEntriesAwaitAnswer'
    <3>1. inflight' = inflight
      BY <2>2 DEF RunCommand
    <3>2. CASE Enqueue(c, p)
      <4>1. PICK e \in Entry : cmds' = <<e>> \o cmds /\ e.timer
        BY <2>1, <3>2, EnqueueEffects
      <4>2. /\ cmds'[1] = e
            /\ \A j \in DOMAIN cmds' \ {1} : j - 1 \in DOMAIN cmds /\ cmds'[j] = cmds[j-1]
        BY <2>1, <4>1, InsertedEntries
      <4> QED
        BY <2>1, <3>1, <4>1, <4>2, TimersParkNothing
    <3>3. CASE Absorb(c, p)
      <4>1. PICK i \in DOMAIN cmds :
              \/ cmds' = cmds
              \/ \E e \in Entry : cmds' = [cmds EXCEPT ![i] = e] /\ e.timer
        BY <2>1, <3>3, AbsorbEffects
      <4>2. CASE cmds' = cmds
        BY <2>1, <3>1, <4>2, TimersParkNothing
      <4>3. ASSUME NEW e \in Entry, cmds' = [cmds EXCEPT ![i] = e], e.timer
            PROVE  ParkedEntriesAwaitAnswer'
        <5>1. /\ DOMAIN cmds' = DOMAIN cmds /\ cmds'[i] = e
              /\ \A j \in DOMAIN cmds \ {i} : cmds'[j] = cmds[j]
          BY <2>1, <4>3, UpdatedEntries
        <5> QED
          BY <2>1, <3>1, <4>3, <5>1, TimersParkNothing
      <4> QED
        BY <4>1, <4>2, <4>3
    <3> QED
      BY <2>2, <3>2, <3>3 DEF RunCommand
  <2>3. ASSUME UNCHANGED <<cmds, inflight>>
        PROVE  ParkedEntriesAwaitAnswer'
    BY <2>1, <2>3, TimersParkNothing
  <2>4. ASSUME Restart
        PROVE  ParkedEntriesAwaitAnswer'
    BY <2>4, EmptySeq DEF Restart, ParkedEntriesAwaitAnswer
  <2>5. ASSUME NEW i \in DOMAIN cmds, TimerStep(i)
        PROVE  ParkedEntriesAwaitAnswer' /\ Connectable'
    BY <2>1, <2>5, TimerParksSent
  <2>6. ASSUME NEW r \in inflight, AnswerComplete(r)
        PROVE  ParkedEntriesAwaitAnswer'
    BY <2>1, <2>6, AnswerParksNothing
  <2>7. ASSUME NEW r \in inflight
        PROVE  ~AnswerRefused(r) /\ ~AnswerDropped(r)
    BY DEF AnswerRefused, AnswerDropped, AnsweredSetting
  <2>8. ~ConnectionBreaks /\ ~ClientTakesNumber /\ ~ClientLeaves
    BY DEF ConnectionBreaks, ClientTakesNumber, ClientLeaves, AnsweredSetting, Connectable
  <2>9. ParkedEntriesAwaitAnswer'
    BY <2>2, <2>3, <2>4, <2>5, <2>6, <2>7, <2>8 DEF Next, RunCommandNoMemory, vars
  <2>10. Connectable'
    BY <2>5, <2>7, <2>8 DEF Next, RunCommand, RunCommandNoMemory, AnswerComplete,
       Restart, vars, Connectable
  <2> QED
    BY <2>9, <2>10
<1> QED
  BY <1>1, <1>2, NumbersAgree, PTL DEF Spec

-----------------------------------------------------------------------------
(* How many entries of a queue are in a set, and what each change makes of it. *)

Places(s, G) == {i \in DOMAIN s : s[i] \in G}

Count(s, G) == Cardinality(Places(s, G))

\* A queue has finitely many places.
LEMMA CountType ==
  ASSUME NEW s \in Seq(Entry), NEW G
  PROVE  IsFiniteSet(Places(s, G)) /\ Count(s, G) \in Nat
<1>1. DOMAIN s = 1..Len(s) /\ Len(s) \in Nat
  BY LenProperties
<1>2. IsFiniteSet(1..Len(s))
  BY <1>1, FS_Interval
<1>3. IsFiniteSet(Places(s, G))
  BY <1>1, <1>2, FS_Subset DEF Places
<1> QED
  BY <1>3, FS_CardinalityType DEF Count

\* An empty queue has none.
LEMMA CountEmpty ==
  ASSUME NEW G
  PROVE  Count(<< >>, G) = 0
<1>1. Places(<< >>, G) = {}
  BY EmptySeq DEF Places
<1> QED
  BY <1>1, FS_EmptySet DEF Count

\* A freed entry is no longer counted; the others are.
LEMMA CountRemove ==
  ASSUME NEW G, NEW s \in Seq(Entry), NEW i \in DOMAIN s, NEW t, t = RemoveAt(s, i)
  PROVE  /\ s[i] \in G => Count(t, G) = Count(s, G) - 1
         /\ s[i] \notin G => Count(t, G) = Count(s, G)
<1> DEFINE S == Places(s, G) \ {i}
           T == Places(t, G)
           f == [j \in T |-> IF j < i THEN j ELSE j + 1]
<1>1. /\ DOMAIN t = 1..Len(s)-1 /\ DOMAIN s = 1..Len(s) /\ Len(s) \in Nat
      /\ \A j \in DOMAIN t :
           LET k == IF j < i THEN j ELSE j + 1
           IN  k \in DOMAIN s \ {i} /\ t[j] = s[k]
      /\ \A k \in DOMAIN s \ {i} :
           LET j == IF k < i THEN k ELSE k - 1
           IN  j \in DOMAIN t /\ t[j] = s[k]
  BY RemovedEntries
<1>2. t \in Seq(Entry)
  BY RemovedEntries
<1>3. f \in [T -> S]
  BY <1>1 DEF Places
<1>4. \A j, k \in T : f[j] = f[k] => j = k
  BY <1>1 DEF Places
<1>5. \A k \in S : \E j \in T : f[j] = k
  <2> SUFFICES ASSUME NEW k \in S
               PROVE  \E j \in T : f[j] = k
    OBVIOUS
  <2> DEFINE j == IF k < i THEN k ELSE k - 1
  <2>1. k \in 1..Len(s) /\ k # i /\ s[k] \in G /\ i \in 1..Len(s)
    BY <1>1 DEF Places
  <2>2. j \in T
    BY <1>1, <2>1 DEF Places
  <2>3. f[j] = k
    BY <1>1, <2>1, <2>2
  <2> QED
    BY <2>2, <2>3
<1>6. f \in Bijection(T, S)
  BY <1>3, <1>4, <1>5 DEF Bijection, Injection, Surjection, IsInjective
<1>7. Cardinality(S) = Cardinality(T)
  <2>1. ExistsBijection(T, S)
    BY <1>6 DEF ExistsBijection
  <2>2. IsFiniteSet(T)
    BY <1>2, CountType
  <2> HIDE DEF S, T
  <2> QED
    BY <2>1, <2>2, FS_Bijection
<1>8. IsFiniteSet(Places(s, G))
  BY CountType
<1>9. Cardinality(S) = IF i \in Places(s, G) THEN Cardinality(Places(s, G)) - 1
                       ELSE Cardinality(Places(s, G))
  BY <1>8, FS_RemoveElement
<1> QED
  BY <1>7, <1>9 DEF Count, Places

\* A rewritten entry counts as what it has become.
LEMMA CountUpdate ==
  ASSUME NEW G, NEW s \in Seq(Entry), NEW i \in DOMAIN s, NEW e, NEW t,
         DOMAIN t = DOMAIN s, t[i] = e, \A j \in DOMAIN s \ {i} : t[j] = s[j]
  PROVE  /\ s[i] \in G /\ e \in G => Count(t, G) = Count(s, G)
         /\ s[i] \notin G /\ e \notin G => Count(t, G) = Count(s, G)
         /\ s[i] \in G /\ e \notin G => Count(t, G) = Count(s, G) - 1
         /\ s[i] \notin G /\ e \in G => Count(t, G) = Count(s, G) + 1
<1>2. IsFiniteSet(Places(s, G))
  BY CountType
<1>3. ASSUME s[i] \in G <=> e \in G
      PROVE  Places(t, G) = Places(s, G)
  BY <1>3 DEF Places
<1>4. ASSUME s[i] \in G, e \notin G
      PROVE  Places(t, G) = Places(s, G) \ {i} /\ i \in Places(s, G)
  BY <1>4 DEF Places
<1>5. ASSUME s[i] \notin G, e \in G
      PROVE  Places(t, G) = Places(s, G) \cup {i} /\ i \notin Places(s, G)
  BY <1>5 DEF Places
<1>6. /\ Cardinality(Places(s, G) \ {i}) = IF i \in Places(s, G)
            THEN Cardinality(Places(s, G)) - 1 ELSE Cardinality(Places(s, G))
      /\ Cardinality(Places(s, G) \cup {i}) = IF i \in Places(s, G)
            THEN Cardinality(Places(s, G)) ELSE Cardinality(Places(s, G)) + 1
  BY <1>2, FS_RemoveElement, FS_AddElement
<1> QED
  BY <1>3, <1>4, <1>5, <1>6 DEF Count

\* A new entry is counted with the others.
LEMMA CountInsert ==
  ASSUME NEW G, NEW s \in Seq(Entry), NEW e \in Entry, NEW t, t = <<e>> \o s
  PROVE  /\ e \in G => Count(t, G) = Count(s, G) + 1
         /\ e \notin G => Count(t, G) = Count(s, G)
<1> DEFINE S == Places(s, G)
           T == Places(t, G) \ {1}
           f == [j \in S |-> j + 1]
<1>1. /\ t \in Seq(Entry)
      /\ DOMAIN t = 1..Len(s)+1 /\ DOMAIN s = 1..Len(s) /\ Len(s) \in Nat
      /\ t[1] = e
      /\ \A j \in DOMAIN t \ {1} : j - 1 \in DOMAIN s /\ t[j] = s[j-1]
      /\ \A k \in DOMAIN s : k + 1 \in DOMAIN t /\ t[k+1] = s[k]
  BY InsertedEntries
<1>2. f \in [S -> T]
  BY <1>1 DEF Places
<1>3. \A j, k \in S : f[j] = f[k] => j = k
  BY <1>1 DEF Places
<1>4. \A k \in T : k - 1 \in S /\ f[k - 1] = k
  BY <1>1 DEF Places
<1>5. f \in Bijection(S, T)
  BY <1>2, <1>3, <1>4 DEF Bijection, Injection, Surjection, IsInjective
<1>6. Cardinality(S) = Cardinality(T)
  <2>1. ExistsBijection(S, T)
    BY <1>5 DEF ExistsBijection
  <2>2. IsFiniteSet(S)
    BY CountType
  <2> HIDE DEF S, T
  <2> QED
    BY <2>1, <2>2, FS_Bijection
<1>7. IsFiniteSet(Places(t, G)) /\ Cardinality(Places(t, G)) \in Nat
  BY <1>1, CountType DEF Count
<1>8. Cardinality(T) = IF 1 \in Places(t, G) THEN Cardinality(Places(t, G)) - 1
                       ELSE Cardinality(Places(t, G))
  BY <1>7, FS_RemoveElement
<1>9. 1 \in Places(t, G) <=> e \in G
  BY <1>1 DEF Places
<1> QED
  BY <1>6, <1>7, <1>8, <1>9 DEF Count

\* The entries still to run for one of the events V, and how many are queued.
PendingFor(V) == {e \in Entry : Pending(e) /\ EventOf(e) \in V}

Left(V) == Count(cmds, PendingFor(V))

\* A step that schedules one run more, or one run less, for one event, or none.
Raised(ev) ==
  \A V : /\ ev \in V => Left(V)' = Left(V) + 1
         /\ ev \notin V => Left(V)' = Left(V)

Lowered(ev) ==
  \A V : /\ ev \in V => Left(V)' = Left(V) - 1
         /\ ev \notin V => Left(V)' = Left(V)

Kept == \A V : Left(V)' = Left(V)

\* The runs left to hand over are a number.
LEMMA LeftType ==
  ASSUME QueueInv, NEW V
  PROVE  Left(V) \in Nat
  BY CountType DEF Left, QueueInv, TypeOK

\* Freeing an entry takes the run it still had.
LEMMA RemovalLowers ==
  ASSUME QueueInv, NEW i \in DOMAIN cmds, cmds' = RemoveAt(cmds, i)
  PROVE  /\ Pending(cmds[i]) => Lowered(EventOf(cmds[i]))
         /\ ~Pending(cmds[i]) => Kept
<1>1. cmds \in Seq(Entry) /\ cmds[i] \in Entry
  BY EntryTypes DEF QueueInv, TypeOK
<1>2. \A V : cmds[i] \in PendingFor(V) <=> Pending(cmds[i]) /\ EventOf(cmds[i]) \in V
  BY <1>1 DEF PendingFor
<1>3. \A V : /\ cmds[i] \in PendingFor(V) => Left(V)' = Left(V) - 1
             /\ cmds[i] \notin PendingFor(V) => Left(V)' = Left(V)
  <2> SUFFICES ASSUME NEW V
               PROVE  /\ cmds[i] \in PendingFor(V) => Left(V)' = Left(V) - 1
                      /\ cmds[i] \notin PendingFor(V) => Left(V)' = Left(V)
    OBVIOUS
  <2> DEFINE G == PendingFor(V)
  <2>1. Left(V) = Count(cmds, G) /\ Left(V)' = Count(cmds', G)
    BY DEF Left, PendingFor
  <2> HIDE DEF G
  <2>2. /\ cmds[i] \in G => Count(cmds', G) = Count(cmds, G) - 1
        /\ cmds[i] \notin G => Count(cmds', G) = Count(cmds, G)
    BY <1>1, CountRemove
  <2> QED
    BY <2>1, <2>2 DEF G
<1> QED
  BY <1>2, <1>3 DEF Lowered, Kept

\* Rewriting an entry takes or gives a run when its being pending changes.
LEMMA UpdateCounts ==
  ASSUME QueueInv, NEW i \in DOMAIN cmds, NEW e \in Entry,
         EventOf(e) = EventOf(cmds[i]), cmds' = [cmds EXCEPT ![i] = e]
  PROVE  /\ (Pending(cmds[i]) <=> Pending(e)) => Kept
         /\ Pending(cmds[i]) /\ ~Pending(e) => Lowered(EventOf(cmds[i]))
         /\ ~Pending(cmds[i]) /\ Pending(e) => Raised(EventOf(cmds[i]))
<1>1. cmds \in Seq(Entry) /\ cmds[i] \in Entry
  BY EntryTypes DEF QueueInv, TypeOK
<1>2. \A V : /\ cmds[i] \in PendingFor(V) <=> Pending(cmds[i]) /\ EventOf(cmds[i]) \in V
             /\ e \in PendingFor(V) <=> Pending(e) /\ EventOf(cmds[i]) \in V
  BY <1>1 DEF PendingFor
<1>3. \A V :
        LET G == PendingFor(V)
        IN  /\ (cmds[i] \in G <=> e \in G) => Left(V)' = Left(V)
            /\ cmds[i] \in G /\ e \notin G => Left(V)' = Left(V) - 1
            /\ cmds[i] \notin G /\ e \in G => Left(V)' = Left(V) + 1
  <2>1. \A G, t :
          DOMAIN t = DOMAIN cmds /\ t[i] = e /\ (\A j \in DOMAIN cmds \ {i} : t[j] = cmds[j])
          => /\ cmds[i] \in G /\ e \in G => Count(t, G) = Count(cmds, G)
             /\ cmds[i] \notin G /\ e \notin G => Count(t, G) = Count(cmds, G)
             /\ cmds[i] \in G /\ e \notin G => Count(t, G) = Count(cmds, G) - 1
             /\ cmds[i] \notin G /\ e \in G => Count(t, G) = Count(cmds, G) + 1
    BY <1>1, CountUpdate
  <2>2. /\ DOMAIN cmds' = DOMAIN cmds /\ cmds'[i] = e
        /\ \A j \in DOMAIN cmds \ {i} : cmds'[j] = cmds[j]
    BY <1>1, UpdatedEntries
  <2>3. \A V : Left(V) = Count(cmds, PendingFor(V)) /\ Left(V)' = Count(cmds', PendingFor(V))
    BY DEF Left, PendingFor
  <2> QED
    BY <2>1, <2>2, <2>3
<1> QED
  BY <1>2, <1>3 DEF Raised, Lowered, Kept

\* A new entry that is pending gives its event a run.
LEMMA InsertRaises ==
  ASSUME QueueInv, NEW e \in Entry, Pending(e), cmds' = <<e>> \o cmds
  PROVE  Raised(EventOf(e))
<1>1. cmds \in Seq(Entry)
  BY DEF QueueInv, TypeOK
<1> SUFFICES ASSUME NEW V
             PROVE  /\ EventOf(e) \in V => Left(V)' = Left(V) + 1
                    /\ EventOf(e) \notin V => Left(V)' = Left(V)
  BY DEF Raised
<1>2. Left(V) = Count(cmds, PendingFor(V)) /\ Left(V)' = Count(cmds', PendingFor(V))
  BY DEF Left, PendingFor
<1>3. e \in PendingFor(V) <=> EventOf(e) \in V
  BY DEF PendingFor
<1>4. \A G : /\ e \in G => Count(cmds', G) = Count(cmds, G) + 1
             /\ e \notin G => Count(cmds', G) = Count(cmds, G)
  BY <1>1, CountInsert
<1> QED
  BY <1>2, <1>3, <1>4

\* A client's request gives a run to an event of its script, or finds one.
LEMMA RequestRaises ==
  ASSUME QueueInv, NEW c \in Command, NEW p \in Argument[c], RunCommand(c, p)
  PROVE  \/ Enqueue(c, p) /\ Raised(<<c, p>>)
         \/ \E i \in DOMAIN cmds :
              /\ cmds[i].command = c /\ c \in Aggregated
              /\ \/ ~cmds[i].dontexec /\ cmds' = cmds /\ Kept
                 \/ Raised(EventOf(cmds[i]))
<1>1. CASE Enqueue(c, p)
  <2>1. PICK e \in Entry : /\ cmds' = <<e>> \o cmds
                           /\ EventOf(e) = <<c, p>> /\ Pending(e)
    BY <1>1, EnqueueEffects
  <2>2. Raised(EventOf(e))
    BY <2>1, InsertRaises
  <2> QED
    BY <1>1, <2>1, <2>2
<1>2. CASE Absorb(c, p)
  <2>1. PICK i \in DOMAIN cmds :
          /\ cmds[i].command = c /\ c \in Aggregated
          /\ \/ ~cmds[i].dontexec /\ cmds' = cmds
             \/ /\ cmds[i].dontexec
                /\ \E e \in Entry :
                     /\ cmds' = [cmds EXCEPT ![i] = e]
                     /\ EventOf(e) = EventOf(cmds[i])
                     /\ e.aggregate = cmds[i].aggregate
                     /\ e.timer /\ Pending(e)
    BY <1>2, AbsorbEffects
  <2>2. cmds' = cmds => Kept
    BY DEF Kept, Left, PendingFor
  <2>3. ASSUME NEW e \in Entry, cmds[i].dontexec, cmds' = [cmds EXCEPT ![i] = e],
               EventOf(e) = EventOf(cmds[i]), Pending(e)
        PROVE  Raised(EventOf(cmds[i]))
    <3>1. ~Pending(cmds[i])
      BY <2>3 DEF Pending
    <3> QED
      BY <2>3, <3>1, UpdateCounts
  <2> QED
    BY <2>1, <2>2, <2>3
<1> QED
  BY <1>1, <1>2 DEF RunCommand

\* A timer hands over one run of its event, keeps all, or loses its own.
LEMMA TimerLowers ==
  ASSUME QueueInv, NEW i \in DOMAIN cmds, TimerStep(i)
  PROVE  \/ Kept /\ UNCHANGED <<owed, credit>>
         \/ Pending(cmds[i]) /\ Lowered(EventOf(cmds[i])) /\ HandOver(i)
         \/ /\ Lowered(EventOf(cmds[i])) /\ UNCHANGED <<owed, credit>>
            /\ ShellRunFails(i) \/ FcgiSendAstray(i)
<1>1. CASE cmds' = RemoveAt(cmds, i) /\ ~Pending(cmds[i]) /\ UNCHANGED <<owed, credit>>
  BY <1>1, RemovalLowers
<1>2. CASE cmds' = RemoveAt(cmds, i) /\ Pending(cmds[i]) /\ HandOver(i)
  BY <1>2, RemovalLowers
<1>3. ASSUME NEW e \in Entry, cmds' = [cmds EXCEPT ![i] = e],
             EventOf(e) = EventOf(cmds[i]), Pending(cmds[i]),
             \/ Pending(e) /\ UNCHANGED <<owed, credit>>
             \/ ~Pending(e) /\ HandOver(i)
             \/ /\ ~Pending(e) /\ UNCHANGED <<owed, credit>>
                /\ ShellRunFails(i) \/ FcgiSendAstray(i)
      PROVE  \/ Kept /\ UNCHANGED <<owed, credit>>
             \/ Pending(cmds[i]) /\ Lowered(EventOf(cmds[i])) /\ HandOver(i)
             \/ /\ Lowered(EventOf(cmds[i])) /\ UNCHANGED <<owed, credit>>
                /\ ShellRunFails(i) \/ FcgiSendAstray(i)
  BY <1>3, UpdateCounts
<1> QED
  BY <1>1, <1>2, <1>3, TimerEffects

-----------------------------------------------------------------------------
(***************************************************************************)
(* Runs and requests.  Every run still queued for a script was asked for   *)
(* by a request or a refusal that no hand-over has used.                   *)
(***************************************************************************)
OfScript(c) == {c} \X Params

RunsAreAsked == \A c \in Command : Left(OfScript(c)) <= credit[c]

\* A raise for a script is paid by a request or a refusal of that script.
LEMMA RaiseIsPaid ==
  ASSUME QueueInv, RunsAreAsked, NEW c \in Command, NEW p, Raised(<<c, p>>),
         credit' = [credit EXCEPT ![c] = @ + 1]
  PROVE  RunsAreAsked'
<1> SUFFICES ASSUME NEW d \in Command
             PROVE  Left(OfScript(d))' <= credit'[d]
  BY DEF RunsAreAsked, OfScript, Params
<1>1. Left(OfScript(d)) \in Nat /\ credit[d] \in Int /\ credit \in [Command -> Int]
  BY LeftType DEF QueueInv, TypeOK
<1>2. Left(OfScript(d)) <= credit[d]
  BY DEF RunsAreAsked
<1>3. CASE d = c
  <2>1. Left(OfScript(d))' <= Left(OfScript(d)) + 1
    BY <1>1 DEF Raised
  <2> QED
    BY <1>1, <1>2, <1>3, <2>1 DEF Raised
<1>4. CASE d # c
  <2>1. <<c, p>> \notin OfScript(d)
    BY <1>4 DEF OfScript
  <2> QED
    BY <1>1, <1>2, <1>4, <2>1 DEF Raised
<1> QED
  BY <1>3, <1>4

\* A hand-over uses one run of its script.
LEMMA LoweringIsPaid ==
  ASSUME QueueInv, RunsAreAsked, NEW i \in DOMAIN cmds, Lowered(EventOf(cmds[i])),
         credit' = credit \/ HandOver(i)
  PROVE  RunsAreAsked'
<1> SUFFICES ASSUME NEW d \in Command
             PROVE  Left(OfScript(d))' <= credit'[d]
  BY DEF RunsAreAsked, OfScript, Params
<1>1. Left(OfScript(d)) \in Nat /\ credit[d] \in Int /\ credit \in [Command -> Int]
  BY LeftType DEF QueueInv, TypeOK
<1>2. Left(OfScript(d)) <= credit[d]
  BY DEF RunsAreAsked
<1>3. /\ cmds[i] \in Entry
      /\ EventOf(cmds[i]) \in OfScript(d) <=> cmds[i].command = d
  <2>1. cmds[i] \in Entry
    BY EntryTypes DEF QueueInv
  <2>2. cmds[i].command \in Command /\ cmds[i].params \in Params
    BY <2>1 DEF Entry
  <2> QED
    BY <2>1, <2>2 DEF EventOf, OfScript
<1>4. CASE cmds[i].command = d
  <2>1. Left(OfScript(d))' = Left(OfScript(d)) - 1
    BY <1>3, <1>4 DEF Lowered
  <2>2. credit'[d] = credit[d] \/ credit'[d] = credit[d] - 1
    BY <1>1, <1>4 DEF HandOver
  <2> QED
    BY <1>1, <1>2, <2>1, <2>2
<1>5. CASE cmds[i].command # d
  <2>1. Left(OfScript(d))' = Left(OfScript(d))
    BY <1>3, <1>5 DEF Lowered
  <2>2. credit'[d] = credit[d]
    BY <1>1, <1>5 DEF HandOver
  <2> QED
    BY <1>2, <2>1, <2>2
<1> QED
  BY <1>4, <1>5

\* Where no run is added, none can be unasked for.
LEMMA KeptIsPaid ==
  ASSUME QueueInv, RunsAreAsked, Kept, NEW c, c \in Command,
         credit' = credit \/ credit' = [credit EXCEPT ![c] = @ + 1]
  PROVE  RunsAreAsked'
<1> SUFFICES ASSUME NEW d \in Command
             PROVE  Left(OfScript(d))' <= credit'[d]
  BY DEF RunsAreAsked, OfScript, Params
<1>1. Left(OfScript(d)) \in Nat /\ credit[d] \in Int /\ credit \in [Command -> Int]
  BY LeftType DEF QueueInv, TypeOK
<1>2. Left(OfScript(d)) <= credit[d] /\ Left(OfScript(d))' = Left(OfScript(d))
  BY DEF RunsAreAsked, Kept
<1>3. credit'[d] = credit[d] \/ credit'[d] = credit[d] + 1
  BY <1>1
<1> QED
  BY <1>1, <1>2, <1>3

\* An answer frees its entry, or re-arms it and is asked for again.
LEMMA AnswerIsPaid ==
  ASSUME MaxRequests < IdModulus, NumberedInv, RunsAreAsked, NEW r \in inflight,
         AnswerComplete(r) \/ AnswerRefused(r) \/ AnswerDropped(r)
  PROVE  RunsAreAsked'
<1>1. QueueInv /\ r \in Request /\ r.command \in Command
  BY DEF NumberedInv, QueueInv, TypeOK, Request
<1>2. /\ credit' = credit \/ credit' = [credit EXCEPT ![r.command] = @ + 1]
      /\ AnswerRefused(r) => credit' = [credit EXCEPT ![r.command] = @ + 1]
      /\ AnswerComplete(r) => credit' = credit
  BY DEF AnswerComplete, AnswerRefused, AnswerDropped
<1>3. CASE UNCHANGED cmds
  <2>1. Kept
    BY <1>3 DEF Kept, Left, PendingFor
  <2> QED
    BY <1>1, <1>2, <2>1, KeptIsPaid
<1>4. ASSUME NEW i \in AnsweredBy(r)
      PROVE  i \in DOMAIN cmds /\ EventOf(cmds[i]) = <<r.command, r.params>>
  <2>1. r.id \in Nat /\ r.id > 0 /\ r.id < IdModulus /\ IdModulus \in Nat
    BY QueueAssumption DEF NumberedInv, Numbered, RequestsNumbered
  <2>2. r.id % IdModulus = r.id
    BY <2>1
  <2> QED
    BY <2>2 DEF AnsweredBy, NumberedInv, Numbered, NumbersMatch
<1>5. ASSUME NEW i \in AnsweredBy(r), AnswerComplete(r), cmds' = RemoveAt(cmds, i)
      PROVE  RunsAreAsked'
  <2>1. Kept \/ Lowered(EventOf(cmds[i]))
    BY <1>1, <1>4, <1>5, RemovalLowers
  <2> QED
    BY <1>1, <1>2, <1>4, <1>5, <2>1, KeptIsPaid, LoweringIsPaid
<1>6. ASSUME NEW i \in AnsweredBy(r), AnswerRefused(r),
             cmds' = [cmds EXCEPT ![i].dontexec = FALSE]
      PROVE  RunsAreAsked'
  <2> DEFINE e == [cmds[i] EXCEPT !.dontexec = FALSE]
  <2>1. cmds[i] \in Entry
    BY <1>1, <1>4, EntryTypes DEF QueueInv
  <2>2. /\ e \in Entry /\ EventOf(e) = EventOf(cmds[i])
        /\ Pending(cmds[i]) => Pending(e)
    BY <2>1 DEF Entry, EventOf, Pending
  <2>3. cmds' = [cmds EXCEPT ![i] = e]
    BY <1>6
  <2> HIDE DEF e
  <2>4. Kept \/ Raised(<<r.command, r.params>>)
    BY <1>1, <1>4, <2>2, <2>3, UpdateCounts
  <2> QED
    BY <1>1, <1>2, <1>6, <2>4, KeptIsPaid, RaiseIsPaid
<1> QED
  BY <1>3, <1>5, <1>6 DEF AnswerComplete, AnswerRefused, AnswerDropped

\* While the numbers on the wire have not wrapped, no script has more runs
\* queued than requests and refusals that asked for them, whatever fails.
THEOREM RunsNeverExceedRequests ==
  MaxRequests < IdModulus => (Spec => []NeverRunsMoreThanAsked)
<1> SUFFICES ASSUME MaxRequests < IdModulus
             PROVE  Spec => []NeverRunsMoreThanAsked
  OBVIOUS
<1>1. Init => RunsAreAsked
  BY CountEmpty DEF Init, RunsAreAsked, Left
<1>2. NumberedInv /\ RunsAreAsked /\ [Next]_vars => RunsAreAsked'
  <2> SUFFICES ASSUME NumberedInv, RunsAreAsked, [Next]_vars
               PROVE  RunsAreAsked'
    OBVIOUS
  <2>1. QueueInv
    BY DEF NumberedInv
  <2>2. ASSUME NEW c \in Command, NEW p \in Argument[c], RunCommand(c, p)
        PROVE  RunsAreAsked'
    <3>1. credit' = [credit EXCEPT ![c] = @ + 1]
      BY <2>2 DEF RunCommand
    <3>2. Raised(<<c, p>>) \/ Kept
            \/ \E i \in DOMAIN cmds : cmds[i].command = c /\ Raised(EventOf(cmds[i]))
      BY <2>1, <2>2, RequestRaises
    <3>3. \A i \in DOMAIN cmds :
            cmds[i].command = c => EventOf(cmds[i]) = <<c, cmds[i].params>>
      BY DEF EventOf
    <3> QED
      BY <2>1, <3>1, <3>2, <3>3, RaiseIsPaid, KeptIsPaid
  <2>3. ASSUME NEW i \in DOMAIN cmds, TimerStep(i)
        PROVE  RunsAreAsked'
    <3>1. cmds[i].command \in Command
      BY <2>1, EntryTypes DEF QueueInv, Entry
    <3> QED
      BY <2>1, <2>3, <3>1, TimerLowers, KeptIsPaid, LoweringIsPaid
  <2>4. ASSUME NEW r \in inflight,
               AnswerComplete(r) \/ AnswerRefused(r) \/ AnswerDropped(r)
        PROVE  RunsAreAsked'
    BY <2>4, AnswerIsPaid
  <2>5. ASSUME UNCHANGED <<cmds, credit>>
        PROVE  RunsAreAsked'
    BY <2>5 DEF RunsAreAsked, Left, PendingFor, OfScript, Params
  <2>6. ASSUME Restart
        PROVE  RunsAreAsked'
    <3>1. cmds' = << >> /\ credit' = credit
      BY <2>6 DEF Restart
    <3>2. \A c \in Command : Left(OfScript(c))' = 0
      BY <3>1, CountEmpty DEF Left
    <3>3. \A c \in Command : Left(OfScript(c)) \in Nat /\ credit[c] \in Int
      BY <2>1, LeftType DEF QueueInv, TypeOK
    <3> QED
      BY <3>1, <3>2, <3>3 DEF RunsAreAsked, OfScript, Params
  <2> QED
    BY <2>2, <2>3, <2>4, <2>5, <2>6 DEF Next, RunCommandNoMemory, ConnectionBreaks,
       ClientTakesNumber, ClientLeaves, vars
<1>3. NumberedInv /\ RunsAreAsked => NeverRunsMoreThanAsked
  <2> SUFFICES ASSUME NumberedInv, RunsAreAsked, NEW c \in Command
               PROVE  {i \in DOMAIN cmds : cmds[i].command = c /\ Pending(cmds[i])}
                        = Places(cmds, PendingFor(OfScript(c)))
    BY DEF RunsAreAsked, NeverRunsMoreThanAsked, Left, Count
  <2>1. \A i \in DOMAIN cmds : cmds[i] \in Entry
    BY EntryTypes DEF NumberedInv, QueueInv
  <2>2. \A i \in DOMAIN cmds :
          cmds[i] \in PendingFor(OfScript(c)) <=> cmds[i].command = c /\ Pending(cmds[i])
    BY <2>1 DEF PendingFor, OfScript, EventOf, Entry
  <2> QED
    BY <2>2 DEF Places
<1> QED
  BY <1>1, <1>2, <1>3, NumbersAgree, PTL DEF Spec

-----------------------------------------------------------------------------
(***************************************************************************)
(* The service.  In the setting where no event is lost, the queue is an    *)
(* implementation of ReloadService: every step of it accepts an event,     *)
(* begins a run that was scheduled, or is none of the service's concern.   *)
(***************************************************************************)

\* The service's runs for an event are the entries still to run for it.
LEMMA PlacesOfEvent ==
  ASSUME NEW s \in Seq(Entry), NEW ev
  PROVE  {i \in DOMAIN s : Pending(s[i]) /\ EventOf(s[i]) = ev}
           = Places(s, PendingFor({ev}))
<1>1. \A i \in DOMAIN s : s[i] \in Entry
  BY ElementOfSeq, LenProperties
<1> QED
  BY <1>1 DEF Places, PendingFor

\* A covered event has a run.
LEMMA CoveredIsLeft ==
  ASSUME QueueInv, NEW i \in DOMAIN cmds, Pending(cmds[i])
  PROVE  Left({EventOf(cmds[i])}) > 0
<1> DEFINE P == Places(cmds, PendingFor({EventOf(cmds[i])}))
<1>1. cmds[i] \in Entry /\ cmds \in Seq(Entry)
  BY EntryTypes DEF QueueInv, TypeOK
<1>2. i \in P
  BY <1>1 DEF Places, PendingFor
<1>3. IsFiniteSet(P) /\ Cardinality(P) \in Nat
  BY <1>1, CountType DEF Count
<1>4. Cardinality(P) # 0
  <2> HIDE DEF P
  <2> QED
    BY <1>2, <1>3, FS_EmptySet
<1> QED
  BY <1>3, <1>4 DEF Left, Count

\* What the three changes of the runs are to the service.
LEMMA ServiceSees ==
  ASSUME QueueInv, QueueInv', NEW ev \in Events
  PROVE  /\ Kept => Queued' = Queued
         /\ Raised(ev) => Queued' = [Queued EXCEPT ![ev] = @ + 1]
         /\ Lowered(ev) => Queued' = [Queued EXCEPT ![ev] = @ - 1]
<1>1. \A d \in Events : Queued[d] = Left({d}) /\ Queued'[d] = Left({d})'
  <2>1. cmds \in Seq(Entry) /\ cmds' \in Seq(Entry)
    BY DEF QueueInv, TypeOK
  <2> QED
    BY <2>1, PlacesOfEvent DEF Queued, Left, Count, Events, PendingFor
<1>2. /\ Queued = [d \in Events |-> Queued[d]]
      /\ Queued' = [d \in Events |-> Queued'[d]]
  BY DEF Queued, Events
<1> HIDE DEF Queued
<1>3. ASSUME Kept PROVE Queued' = Queued
  BY <1>1, <1>2, <1>3 DEF Kept
<1>4. ASSUME Raised(ev) PROVE Queued' = [Queued EXCEPT ![ev] = @ + 1]
  <2>1. \A d \in Events : Queued'[d] = IF d = ev THEN Queued[d] + 1 ELSE Queued[d]
    BY <1>1, <1>4 DEF Raised
  <2> QED
    BY <1>2, <2>1
<1>5. ASSUME Lowered(ev) PROVE Queued' = [Queued EXCEPT ![ev] = @ - 1]
  <2>1. \A d \in Events : Queued'[d] = IF d = ev THEN Queued[d] - 1 ELSE Queued[d]
    BY <1>1, <1>5 DEF Lowered
  <2> QED
    BY <1>2, <2>1
<1> QED
  BY <1>3, <1>4, <1>5

\* A client's request is Ask.
LEMMA RequestIsAsk ==
  ASSUME SafeSetting, KeptInv, QueueInv', NEW c \in Command, NEW p \in Argument[c],
         RunCommand(c, p)
  PROVE  Service!Ask(<<c, p>>)
<1>1. QueueInv /\ <<c, p>> \in Events
  BY DEF KeptInv, Events
<1>2. owed' = owed \cup {<<c, p>>}
  BY DEF RunCommand
<1>3. CASE Raised(<<c, p>>)
  BY <1>1, <1>2, <1>3, ServiceSees DEF Service!Ask
<1>4. ASSUME NEW i \in DOMAIN cmds, cmds[i].command = c, c \in Aggregated
      PROVE  EventOf(cmds[i]) = <<c, p>> /\ cmds[i].timer
  BY <1>4 DEF KeptInv, EntriesKept, EntryKept, EventOf, SafeSetting
<1>5. ASSUME NEW i \in DOMAIN cmds, cmds[i].command = c, c \in Aggregated,
             ~cmds[i].dontexec, Kept
      PROVE  Service!Ask(<<c, p>>)
  <2>1. Left({<<c, p>>}) > 0
    BY <1>1, <1>4, <1>5, CoveredIsLeft DEF Pending
  <2>2. Queued[<<c, p>>] = Left({<<c, p>>})
    <3>1. cmds \in Seq(Entry)
      BY <1>1 DEF QueueInv, TypeOK
    <3> QED
      BY <1>1, <3>1, PlacesOfEvent DEF Queued, Left, Count
  <2>3. Queued' = Queued
    BY <1>1, <1>5, ServiceSees
  <2> QED
    BY <1>2, <2>1, <2>2, <2>3 DEF Service!Ask
<1> QED
  BY <1>1, <1>3, <1>4, <1>5, RequestRaises

\* A timer is Begin of its entry's event, or nothing the service sees.
LEMMA TimerIsBegin ==
  ASSUME SafeSetting, KeptInv, QueueInv', NEW i \in DOMAIN cmds, TimerStep(i)
  PROVE  Service!ServiceNext \/ UNCHANGED <<owed, Queued>>
<1>1. QueueInv /\ cmds \in Seq(Entry)
  BY DEF KeptInv, QueueInv, TypeOK
<1>2. EventOf(cmds[i]) \in Events
  <2>1. cmds[i].command \in Command
    BY <1>1, EntryTypes DEF QueueInv, Entry
  <2> QED
    BY <2>1 DEF KeptInv, EntriesKept, EntryKept, EventOf, Events
<1>3. ~ShellRunFails(i) /\ ~FcgiSendAstray(i)
  BY DEF ShellRunFails, FcgiSendAstray, SafeSetting, KeptInv, ServerSide
<1>4. CASE Kept /\ UNCHANGED owed
  BY <1>1, <1>2, <1>4, ServiceSees
<1>5. CASE Pending(cmds[i]) /\ Lowered(EventOf(cmds[i])) /\ HandOver(i)
  <2>1. Left({EventOf(cmds[i])}) > 0
    BY <1>1, <1>5, CoveredIsLeft
  <2>2. Queued[EventOf(cmds[i])] = Left({EventOf(cmds[i])})
    BY <1>1, <1>2, PlacesOfEvent DEF Queued, Left, Count
  <2>3. Queued' = [Queued EXCEPT ![EventOf(cmds[i])] = @ - 1]
    BY <1>1, <1>2, <1>5, ServiceSees
  <2>4. owed' = owed \ {EventOf(cmds[i])}
    BY <1>5 DEF HandOver
  <2>5. Service!Begin(EventOf(cmds[i]))
    BY <2>1, <2>2, <2>3, <2>4 DEF Service!Begin
  <2> QED
    BY <1>2, <2>5 DEF Service!ServiceNext
<1> QED
  BY <1>1, <1>3, <1>4, <1>5, TimerLowers

\* The service does not see an answer: the entry it frees has begun its run.
LEMMA AnswerIsHidden ==
  ASSUME SafeSetting, KeptInv, QueueInv', NEW r \in inflight,
         AnswerComplete(r) \/ AnswerRefused(r) \/ AnswerDropped(r)
  PROVE  UNCHANGED owed /\ Kept
<1>1. owed' = owed
  BY DEF AnswerComplete, AnswerRefused, AnswerDropped, SafeSetting
<1>2. CASE UNCHANGED cmds
  BY <1>1, <1>2 DEF Kept, Left, PendingFor
<1>3. ASSUME NEW i \in AnsweredBy(r), cmds' = RemoveAt(cmds, i)
      PROVE  Kept
  <2>1. i \in DOMAIN cmds /\ cmds[i].requestId = r.id % IdModulus
    BY DEF AnsweredBy
  <2>2. r.id \in Nat /\ r.id > 0 /\ r.id < IdModulus /\ IdModulus \in Nat
    BY QueueAssumption DEF KeptInv, QueueInv, TypeOK, ServerSide, SafeSetting
  <2>3. r.id % IdModulus = r.id
    BY <2>2
  <2>4. ~Pending(cmds[i])
    BY <2>1, <2>2, <2>3 DEF KeptInv, EntriesKept, EntryKept
  <2>5. QueueInv
    BY DEF KeptInv
  <2> QED
    BY <1>3, <2>1, <2>4, <2>5, RemovalLowers
<1> QED
  BY <1>1, <1>2, <1>3 DEF AnswerComplete, AnswerRefused, AnswerDropped, SafeSetting

\* The queue of check_reload_status implements ReloadService in the setting
\* where it loses no event, for any scripts, clients and requests: nothing runs
\* that no event scheduled, and every event is owed until its run begins.  (That
\* every scheduled run does begin is what ImplementsService adds to it.)
THEOREM ServiceIsImplemented == SafeSetting => (Spec => Service!ServiceSafety)
<1> SUFFICES ASSUME SafeSetting
             PROVE  Spec => Service!ServiceSafety
  OBVIOUS
<1>1. Init => Service!ServiceInit
  <2> SUFFICES ASSUME Init
               PROVE  Service!ServiceInit
    OBVIOUS
  <2>1. cmds = << >> /\ owed = {} /\ cmds \in Seq(Entry)
    BY EmptySeq DEF Init
  <2>2. \A ev : {i \in DOMAIN cmds : Pending(cmds[i]) /\ EventOf(cmds[i]) = ev} = {}
    BY <2>1, EmptySeq
  <2>3. \A ev : Cardinality({i \in DOMAIN cmds : Pending(cmds[i]) /\ EventOf(cmds[i]) = ev}) = 0
    BY <2>2, FS_EmptySet
  <2> QED
    BY <2>1, <2>3 DEF Service!ServiceInit, Queued
<1>2. KeptInv /\ KeptInv' /\ [Next]_vars => [Service!ServiceNext]_(Service!svars)
  <2> SUFFICES ASSUME KeptInv, KeptInv', [Next]_vars
               PROVE  Service!ServiceNext \/ UNCHANGED <<owed, Queued>>
    BY DEF Service!svars
  <2>1. QueueInv /\ QueueInv'
    BY DEF KeptInv
  <2>2. ASSUME UNCHANGED <<cmds, owed>>
        PROVE  UNCHANGED <<owed, Queued>>
    BY <2>2 DEF Queued, Pending, EventOf, Events
  <2>3. ASSUME NEW c \in Command, NEW p \in Argument[c], RunCommand(c, p)
        PROVE  Service!ServiceNext
    <3>1. <<c, p>> \in Events
      BY DEF Events
    <3> QED
      BY <2>1, <2>3, <3>1, RequestIsAsk DEF Service!ServiceNext
  <2>4. ASSUME NEW i \in DOMAIN cmds, TimerStep(i)
        PROVE  Service!ServiceNext \/ UNCHANGED <<owed, Queued>>
    BY <2>1, <2>4, TimerIsBegin
  <2>5. ASSUME NEW r \in inflight,
               AnswerComplete(r) \/ AnswerRefused(r) \/ AnswerDropped(r)
        PROVE  UNCHANGED <<owed, Queued>>
    <3>1. UNCHANGED owed /\ Kept
      BY <2>1, <2>5, AnswerIsHidden
    <3>2. PICK ev : ev \in Events
      <4>1. r.params \in Params
        BY <2>1 DEF QueueInv, TypeOK, Request
      <4>2. PICK c \in Command : r.params \in Argument[c]
        BY <4>1 DEF Params
      <4>3. <<c, r.params>> \in Events
        BY <4>2 DEF Events
      <4> QED
        BY <4>3
    <3> QED
      BY <2>1, <3>1, <3>2, ServiceSees
  <2>6. /\ ~Restart
        /\ \A c \in Command : \A p \in Argument[c] : ~RunCommandNoMemory(c, p)
    BY DEF Restart, RunCommandNoMemory, SafeSetting
  <2> QED
    BY <2>2, <2>3, <2>4, <2>5, <2>6 DEF Next, ConnectionBreaks,
       ClientTakesNumber, ClientLeaves, vars
<1> QED
  BY <1>1, <1>2, EventsStayKept, PTL DEF Spec, Service!ServiceSafety

-----------------------------------------------------------------------------
(***************************************************************************)
(* The scan of run_command.  An AGGREGATE script has at most one entry of  *)
(* aggregate 1 and one of aggregate 2, so the loop's sum says which of the *)
(* two it has met.                                                         *)
(***************************************************************************)
Met(c, n, a) == \E j \in Matching(c) : j <= n /\ cmds[j].aggregate = a

SumOfMet(c, n) == (IF Met(c, n, 1) THEN 1 ELSE 0) + (IF Met(c, n, 2) THEN 2 ELSE 0)

\* One iteration adds the aggregate of an entry the loop has not met before.
LEMMA OneIteration ==
  ASSUME QueueInv, NEW c \in Command, NEW n \in 1..Len(cmds)
  PROVE  SumOfMet(c, n) =
           SumOfMet(c, n-1) + (IF n \in Matching(c) THEN cmds[n].aggregate ELSE 0)
<1>1. Len(cmds) \in Nat /\ DOMAIN cmds = 1..Len(cmds)
  BY LenProperties DEF QueueInv, TypeOK
<1>2. /\ \A j \in Matching(c) : j \in 1..Len(cmds) /\ cmds[j].aggregate \in {1, 2}
      /\ \A i, j \in Matching(c) :
           i < j => cmds[i].aggregate = 2 /\ cmds[j].aggregate = 1
  BY <1>1 DEF QueueInv, AggregationOrder, Matching
<1>3. CASE n \notin Matching(c)
  <2>1. \A j \in Matching(c) : j <= n <=> j <= n-1
    BY <1>1, <1>2, <1>3
  <2>2. Met(c, n, 1) = Met(c, n-1, 1) /\ Met(c, n, 2) = Met(c, n-1, 2)
    BY <2>1 DEF Met
  <2> QED
    BY <1>3, <2>2 DEF SumOfMet
<1>4. CASE n \in Matching(c) /\ cmds[n].aggregate = 1
  <2>1. Met(c, n, 1) /\ ~Met(c, n-1, 1)
    BY <1>1, <1>2, <1>4 DEF Met
  <2>2. Met(c, n, 2) = Met(c, n-1, 2)
    BY <1>1, <1>2, <1>4 DEF Met
  <2> QED
    BY <1>4, <2>1, <2>2 DEF SumOfMet
<1>5. CASE n \in Matching(c) /\ cmds[n].aggregate = 2
  <2>1. \A j \in Matching(c) : ~(j <= n-1)
    BY <1>1, <1>2, <1>5
  <2>2. Met(c, n, 2) /\ ~Met(c, n, 1) /\ ~Met(c, n-1, 1) /\ ~Met(c, n-1, 2)
    BY <1>1, <1>2, <1>5, <2>1 DEF Met
  <2> QED
    BY <1>5, <2>2 DEF SumOfMet
<1> QED
  BY <1>2, <1>3, <1>4, <1>5

\* Two functions on an initial segment of the numbers that agree wherever they
\* agree one step before are equal.
LEMMA AgreeFromZero ==
  ASSUME NEW m \in Nat, NEW f, NEW g, f[0] = g[0],
         \A k \in 1..m : f[k-1] = g[k-1] => f[k] = g[k]
  PROVE  \A k \in 0..m : f[k] = g[k]
<1> DEFINE Bad == {k \in 0..m : f[k] # g[k]}
<1>1. Bad \subseteq Nat
  OBVIOUS
<1>2. SUFFICES ASSUME Bad # {}
               PROVE  FALSE
  OBVIOUS
<1> HIDE DEF Bad
<1>3. PICK x \in Bad : \A y \in Bad : <<y, x>> \notin OpToRel(<, Nat)
  BY <1>1, <1>2, WFMin, NatLessThanWellFounded, Zenon
<1>4. ASSUME NEW y \in Bad
      PROVE  ~ (y < x)
  BY <1>1, <1>3, Zenon DEF OpToRel
<1>5. x \in 1..m /\ f[x] # g[x]
  <2>1. x \in Bad
    BY <1>3, Zenon
  <2>2. x \in 0..m /\ f[x] # g[x]
    BY <2>1 DEF Bad
  <2>3. x # 0
    BY <2>2
  <2> QED
    BY <2>2, <2>3
<1>6. x - 1 \notin Bad
  BY <1>4, <1>5
<1> QED
  BY <1>5, <1>6 DEF Bad

\* The sum of the loop is the sum of the aggregates it has met.
LEMMA LoopSumIsMet ==
  ASSUME QueueInv, NEW c \in Command, NEW n \in 0..Len(cmds)
  PROVE  LoopSum(c, n) = SumOfMet(c, n)
<1> DEFINE Added(k) == IF k \in Matching(c) THEN cmds[k].aggregate ELSE 0
           IsLoop(f) == f = [k \in 0..Len(cmds) |->
                               IF k = 0 THEN 0 ELSE f[k-1] + Added(k)]
           loop == CHOOSE f : IsLoop(f)
           met == [k \in 0..Len(cmds) |-> SumOfMet(c, k)]
<1>1. Len(cmds) \in Nat
  BY LenProperties DEF QueueInv, TypeOK
<1>2. SumOfMet(c, 0) = 0
  <2>1. \A j \in Matching(c) : ~(j <= 0)
    BY <1>1, LenProperties DEF Matching, QueueInv, TypeOK
  <2>2. ~Met(c, 0, 1) /\ ~Met(c, 0, 2)
    BY <2>1 DEF Met
  <2> QED
    BY <2>2 DEF SumOfMet
<1>3. \A k \in 1..Len(cmds) : met[k] = met[k-1] + Added(k)
  <2>1. SUFFICES ASSUME NEW k \in 1..Len(cmds)
                 PROVE  met[k] = met[k-1] + Added(k)
    OBVIOUS
  <2>2. met[k] = SumOfMet(c, k) /\ met[k-1] = SumOfMet(c, k-1)
    BY <1>1
  <2> QED
    BY <2>2, OneIteration
<1>4. IsLoop(met)
  <2>1. met[0] = 0
    BY <1>1, <1>2
  <2>2. met = [k \in 0..Len(cmds) |-> met[k]]
    OBVIOUS
  <2> HIDE DEF met, Added
  <2>3. \A k \in 0..Len(cmds) : met[k] = IF k = 0 THEN 0 ELSE met[k-1] + Added(k)
    BY <1>1, <1>3, <2>1
  <2> QED
    BY <2>2, <2>3
<1> HIDE DEF IsLoop
<1>5. IsLoop(loop)
  BY <1>4
<1> HIDE DEF loop, Added
<1>6. \A k \in 0..Len(cmds) : loop[k] = IF k = 0 THEN 0 ELSE loop[k-1] + Added(k)
  BY <1>5 DEF IsLoop
<1>7. met[0] = 0
  BY <1>1, <1>2
<1> HIDE DEF met
<1>8. \A k \in 0..Len(cmds) : loop[k] = met[k]
  <2>1. loop[0] = met[0]
    BY <1>1, <1>6, <1>7
  <2>2. \A k \in 1..Len(cmds) : loop[k-1] = met[k-1] => loop[k] = met[k]
    BY <1>1, <1>3, <1>6
  <2> QED
    BY <1>1, <2>1, <2>2, AgreeFromZero, Zenon
<1>9. LoopSum(c, n) = loop[n]
  BY DEF LoopSum, loop, IsLoop, Added
<1> QED
  BY <1>8, <1>9 DEF met

\* The closed form of the scan is the loop of run_command, for any queue it
\* can meet: it stops at the same entry with the same sum, and a new entry gets
\* the same aggregate.
THEOREM ScanIsTheLoop == Spec => []ScanAgreesWithLoop
<1>1. QueueInv => ScanAgreesWithLoop
  <2>1. SUFFICES ASSUME QueueInv, NEW c \in Command
                 PROVE
          /\ \A i \in DOMAIN cmds :
               ScanStopsAt(c, i) <=>
                 /\ LoopSum(c, i) > 1
                 /\ \A j \in 1..i-1 : LoopSum(c, j) <= 1
          /\ \A i \in DOMAIN cmds :
               ScanStopsAt(c, i) => AggregateAt(c, i) = LoopSum(c, i)
          /\ (\A i \in DOMAIN cmds : ~ScanStopsAt(c, i)) /\ c \in Aggregated =>
               \A p \in Argument[c] :
                 NewEntry(c, p).aggregate = LoopSum(c, Len(cmds)) + 1
    BY DEF ScanAgreesWithLoop
  <2>2. Len(cmds) \in Nat /\ DOMAIN cmds = 1..Len(cmds)
    BY <2>1, LenProperties DEF QueueInv, TypeOK
  <2>3. \A n \in 0..Len(cmds) : LoopSum(c, n) = SumOfMet(c, n)
    BY <2>1, LoopSumIsMet
  <2>4. /\ \A j \in Matching(c) : j \in 1..Len(cmds) /\ cmds[j].aggregate \in {1, 2}
        /\ \A i, j \in Matching(c) :
             i < j => cmds[i].aggregate = 2 /\ cmds[j].aggregate = 1
    BY <2>1, <2>2 DEF QueueInv, AggregationOrder, Matching
  <2>5. ASSUME NEW i \in DOMAIN cmds, ScanStopsAt(c, i)
        PROVE  /\ AggregateAt(c, i) = SumOfMet(c, i)
               /\ SumOfMet(c, i) > 1
               /\ \A j \in 1..i-1 : SumOfMet(c, j) <= 1
    <3>1. i \in Matching(c) /\ AggregateAt(c, i) > 1
      BY <2>5 DEF ScanStopsAt
    <3>2. \A j \in Matching(c) : ~(j < i)
      BY <2>4, <2>5 DEF ScanStopsAt, AggregateAt
    <3>3. AggregateAt(c, i) = 2 /\ cmds[i].aggregate = 2
      BY <2>4, <3>1, <3>2 DEF AggregateAt, HasEarlier
    <3>4. Met(c, i, 2) /\ ~Met(c, i, 1)
      BY <2>2, <2>4, <3>1, <3>2, <3>3 DEF Met
    <3>5. \A j \in 1..i-1, a \in {1, 2} : ~Met(c, j, a)
      BY <2>2, <2>4, <3>2 DEF Met
    <3> QED
      BY <3>3, <3>4, <3>5 DEF SumOfMet
  <2>6. ASSUME NEW i \in DOMAIN cmds, SumOfMet(c, i) > 1,
               \A j \in 1..i-1 : SumOfMet(c, j) <= 1
        PROVE  ScanStopsAt(c, i)
    <3>1. Met(c, i, 2)
      BY <2>6 DEF SumOfMet
    <3>2. PICK k \in Matching(c) : k <= i /\ cmds[k].aggregate = 2
      BY <3>1 DEF Met
    <3>3. SumOfMet(c, k) \in Nat /\ ~(SumOfMet(c, k) <= 1)
      BY <2>4, <3>2 DEF SumOfMet, Met
    <3>4. k = i
      BY <2>2, <2>4, <2>6, <3>2, <3>3
    <3>5. \A j \in Matching(c) : ~(j < i)
      BY <2>4, <3>2, <3>4
    <3> QED
      BY <3>2, <3>4, <3>5 DEF ScanStopsAt, AggregateAt
  <2>7. ASSUME \A i \in DOMAIN cmds : ~ScanStopsAt(c, i), c \in Aggregated, NEW p \in Argument[c]
        PROVE  NewEntry(c, p).aggregate = SumOfMet(c, Len(cmds)) + 1
    <3>1. \A k \in Matching(c) : cmds[k].aggregate = 1
      <4>1. SUFFICES ASSUME NEW k \in Matching(c), cmds[k].aggregate = 2
                     PROVE  FALSE
        BY <2>4
      <4>2. \A j \in Matching(c) : ~(j < k)
        BY <2>4, <4>1
      <4>3. ScanStopsAt(c, k)
        BY <4>1, <4>2 DEF ScanStopsAt, AggregateAt
      <4> QED
        BY <2>2, <2>4, <2>7, <4>3
    <3>2. ~Met(c, Len(cmds), 2) /\ (Met(c, Len(cmds), 1) <=> Matching(c) # {})
      BY <2>2, <2>4, <3>1 DEF Met
    <3> QED
      BY <2>7, <3>2 DEF NewEntry, SumOfMet
  <2> QED
    BY <2>2, <2>3, <2>5, <2>6, <2>7
<1> QED
  BY <1>1, QueueInvariant, PTL

=============================================================================
