-------------------------- MODULE Classifyd_proofs --------------------------
(***************************************************************************)
(* What holds of the packet path, the flow table and the signals of        *)
(* ipfw-classifyd for every number of flows, packets and packet buffers,   *)
(* every queue length and every expiry time.                               *)
(***************************************************************************)
EXTENDS Classifyd, SequenceTheorems, TLAPS

-----------------------------------------------------------------------------
(* The operators. *)

\* Ages are natural numbers up to Cap, and stay so when time goes on.
LEMMA CapFacts ==
  /\ Cap \in Nat /\ Cap > 0
  /\ \A age \in 0..Cap : Older(age) \in 0..Cap
  /\ \A age \in 0..Cap : Min2(age + Expire, Cap) \in 0..Cap
BY ClassifydAssumption DEF Cap, Older, Min2

\* A list of packets is a sequence of positive numbers.
LEMMA Numbers ==
  ASSUME NEW s \in Seq(1..MaxPackets)
  PROVE  /\ Len(s) \in Nat /\ DOMAIN s = 1..Len(s)
         /\ \A i \in DOMAIN s : s[i] \in Nat
<1>1. /\ Len(s) \in Nat /\ DOMAIN s = 1..Len(s)
  BY LenProperties
<1>2. ASSUME NEW i \in DOMAIN s PROVE s[i] \in Nat
  <2>1. s[i] \in 1..MaxPackets
    BY <1>1, ElementOfSeq
  <2> QED
    BY <2>1, ClassifydAssumption
<1> QED
  BY <1>1, <1>2

-----------------------------------------------------------------------------
(***************************************************************************)
(* The inductive invariant: where the packet buffers are, how long the     *)
(* two lists can be, and that the numbers in them and in the hands of the  *)
(* classifier grow.                                                        *)
(***************************************************************************)
Idle == cpc \in {"pop", "recv", "crashed"}
Held == IF cpc \in {"pop", "crashed"} THEN 0 ELSE 1

Buffers ==
  /\ pool + Held + Len(queue) + Len(pkts) = StackSize
  /\ Len(queue) <= QMax /\ Len(pkts) <= QMax
  /\ cpc = "enqueue" => Len(queue) < QMax
  /\ cpc = "crashed" => StackSize <= 2 * QMax

Sleep ==
  /\ wpc = "send" <=> pkts # <<>>
  /\ wpc = "asleep" => queue = <<>>

Growing(s) == \A i, j \in DOMAIN s : i < j => s[i] < s[j]
Order ==
  /\ Growing(pkts) /\ Growing(queue)
  /\ \A i \in DOMAIN pkts : last < pkts[i] /\ pkts[i] <= arrived
  /\ \A i \in DOMAIN queue : last < queue[i] /\ queue[i] <= arrived
  /\ \A i \in DOMAIN pkts, j \in DOMAIN queue : pkts[i] < queue[j]
  /\ last <= arrived
  /\ ~Idle => /\ last < arrived
              /\ \A i \in DOMAIN pkts : pkts[i] < arrived
              /\ \A i \in DOMAIN queue : queue[i] < arrived

Tracked == cpc \in {"new", "found", "added"} => cflow \in Flow

\* What is cleared after a rereading was set before it.
Flagged == HangupsStayFlagged /\ (gpc = "reread" => ~unread)

\* A walk has entries before it until it ends; the chain only grows at its head.
Walking == gpc = "sweep" => rest \in 1..Len(chain)

IInv == TypeOK /\ Buffers /\ Sleep /\ Order /\ Tracked /\ Flagged /\ Walking

-----------------------------------------------------------------------------
(* Initially the stack is full and nothing waits. *)
LEMMA InitIInv == Init => IInv
<1> SUFFICES ASSUME Init PROVE IInv
  OBVIOUS
<1>1. TypeOK
  <2>1. /\ pool \in 0..StackSize /\ arrived \in 0..MaxPackets /\ last \in 0..MaxPackets
        /\ lag \in 0..Cap /\ due \in 0..GarbagePeriod
    BY ClassifydAssumption, CapFacts DEF Init, Filled, GarbagePeriod
  <2>2. queue \in Seq(1..MaxPackets) /\ pkts \in Seq(1..MaxPackets) /\ chain \in Seq(Entry)
    BY DEF Init
  <2>3. silent \in [Flow -> 0..Cap]
    BY CapFacts DEF Init
  <2> QED
    BY <2>1, <2>2, <2>3 DEF Init, TypeOK
<1>2. Buffers /\ Sleep /\ Order /\ Tracked /\ Flagged /\ Walking
  BY ClassifydAssumption
  DEF Init, Filled, Buffers, Held, Sleep, Order, Growing, Idle, Tracked, Flagged, HangupsStayFlagged,
      Walking
<1> QED
  BY <1>1, <1>2 DEF IInv

-----------------------------------------------------------------------------
(* Every step keeps each part. *)

\* Every step keeps the types.
LEMMA TypeStep ==
  ASSUME IInv, [Next]_vars
  PROVE  TypeOK'
<1> USE DEF vars, stackVars, classifyVars, writeVars,
            timeVars, garbageVars, confVars
<1>0. TypeOK
  BY DEF IInv
<1>1. CASE Pop
  <2>1. /\ pool' \in 0..StackSize
        /\ cpc' \in {"pop", "recv", "new", "found", "added", "test", "enqueue", "crashed"}
    BY <1>0, <1>1, ClassifydAssumption DEF Pop, TypeOK
  <2>2. UNCHANGED <<cflow, arrived, queue, wpc, pkts, last, chain, lag,
                   clockdue, gpc, rest, due, hup, unread, silent>>
    BY <1>1 DEF Pop
  <2> QED
    BY <1>0, <2>1, <2>2 DEF TypeOK
<1>2. CASE Receive
  <2>1. /\ cpc' \in {"pop", "recv", "new", "found", "added", "test", "enqueue", "crashed"}
        /\ cflow' \in Flow \cup {Other}
    BY <1>0, <1>2 DEF Receive, TypeOK
  <2>2. arrived' \in 0..MaxPackets
    BY <1>0, <1>2, ClassifydAssumption DEF Receive, TypeOK
  <2>3. UNCHANGED <<pool, queue, wpc, pkts, last, chain, lag, clockdue, gpc,
                   rest, due, hup, unread, silent>>
    BY <1>2 DEF Receive
  <2> QED
    BY <1>0, <2>1, <2>2, <2>3 DEF TypeOK
<1>3. CASE NoMemory
  <2>1. /\ pool' \in 0..StackSize
        /\ cpc' \in {"pop", "recv", "new", "found", "added", "test", "enqueue", "crashed"}
    BY <1>0, <1>3, ClassifydAssumption DEF NoMemory, Drop, Pushed, TypeOK
  <2>2. UNCHANGED <<cflow, arrived, queue, wpc, pkts, last, chain, lag,
                   clockdue, gpc, rest, due, hup, unread, silent>>
    BY <1>3 DEF NoMemory, Drop
  <2> QED
    BY <1>0, <2>1, <2>2 DEF TypeOK
<1>4. CASE Insert
  <2>1. PICK age \in {0, Cap} : chain' = <<[flow |-> cflow, age |-> age]>> \o chain
    BY <1>4 DEF Insert
  <2>2. cflow \in Flow /\ age \in 0..Cap
    <3>1. cflow \in Flow
      BY <1>4 DEF Insert, IInv, Tracked
    <3>2. 0 \in 0..Cap /\ Cap \in 0..Cap
      BY CapFacts
    <3> QED
      BY <2>1, <3>1, <3>2, Zenon
  <2>3. [flow |-> cflow, age |-> age] \in Entry
    BY <2>2 DEF Entry
  <2>4. chain' \in Seq(Entry)
    BY <1>0, <2>1, <2>3 DEF TypeOK
  <2>5. cpc' \in {"pop", "recv", "new", "found", "added", "test", "enqueue", "crashed"}
    BY <1>4 DEF Insert
  <2>6. UNCHANGED <<pool, cflow, arrived, queue, wpc, pkts, last, lag,
                   clockdue, gpc, rest, due, hup, unread, silent>>
    BY <1>4 DEF Insert
  <2> QED
    BY <1>0, <2>4, <2>5, <2>6 DEF TypeOK
<1>5. CASE Stamp
  <2>1. /\ DOMAIN chain = 1..Len(chain) /\ Len(chain) \in Nat
        /\ \A i \in DOMAIN chain : chain[i] \in Entry
    BY <1>0, LenProperties, ElementOfSeq DEF TypeOK
  <2>2. \A e \in Entry : [e EXCEPT !.age = lag] \in Entry
    BY <1>0 DEF TypeOK, Entry
  <2>3. chain' \in Seq(Entry)
    BY <1>5, <2>1, <2>2 DEF Stamp
  <2>4. silent' \in [Flow -> 0..Cap]
    <3>1. 0 \in 0..Cap /\ silent \in [Flow -> 0..Cap]
      BY <1>0, CapFacts DEF TypeOK
    <3>2. silent' = silent \/ silent' = [silent EXCEPT ![cflow] = 0]
      BY <1>5 DEF Stamp
    <3> QED
      BY <3>1, <3>2
  <2>5. cpc' \in {"pop", "recv", "new", "found", "added", "test", "enqueue", "crashed"}
    BY <1>5 DEF Stamp
  <2>6. UNCHANGED <<pool, cflow, arrived, queue, wpc, pkts, last, lag,
                   clockdue, gpc, rest, due, hup, unread>>
    BY <1>5 DEF Stamp
  <2> QED
    BY <1>0, <2>3, <2>4, <2>5, <2>6 DEF TypeOK
<1>6. CASE Test
  <2>1. pool' \in 0..StackSize
    BY <1>0, <1>6, ClassifydAssumption DEF Test, Drop, Pushed, TypeOK
  <2>2. cpc' \in {"pop", "recv", "new", "found", "added", "test", "enqueue", "crashed"}
    BY <1>6 DEF Test, Drop
  <2>3. UNCHANGED <<cflow, arrived, queue, wpc, pkts, last, chain, lag,
                   clockdue, gpc, rest, due, hup, unread, silent>>
    BY <1>6 DEF Test, Drop
  <2> QED
    BY <1>0, <2>1, <2>2, <2>3 DEF TypeOK
<1>7. CASE Enqueue
  <2>1. arrived \in 1..MaxPackets
    BY <1>7, ClassifydAssumption DEF Enqueue, IInv, TypeOK, Order, Idle
  <2>2. queue' \in Seq(1..MaxPackets)
    BY <1>0, <1>7, <2>1 DEF Enqueue, Queued, TypeOK
  <2>3. /\ wpc' \in {"look", "asleep", "send"}
        /\ cpc' \in {"pop", "recv", "new", "found", "added", "test", "enqueue", "crashed"}
    BY <1>0, <1>7 DEF Enqueue, Signalled, TypeOK
  <2>4. UNCHANGED <<pool, cflow, arrived, pkts, last, chain, lag, clockdue,
                   gpc, rest, due, hup, unread, silent>>
    BY <1>7 DEF Enqueue
  <2> QED
    BY <1>0, <2>2, <2>3, <2>4 DEF TypeOK
<1>8. CASE Look
  <2>1. /\ queue' \in Seq(1..MaxPackets)
        /\ pkts' \in Seq(1..MaxPackets)
    BY <1>0, <1>8 DEF Look, TypeOK
  <2>2. wpc' \in {"look", "asleep", "send"}
    BY <1>8 DEF Look
  <2>3. UNCHANGED <<pool, cpc, cflow, arrived, last, chain, lag, clockdue,
                   gpc, rest, due, hup, unread, silent>>
    BY <1>8 DEF Look
  <2> QED
    BY <1>0, <2>1, <2>2, <2>3 DEF TypeOK
<1>9. CASE Send
  <2>1. pkts # <<>>
    BY <1>9 DEF Send, IInv, Sleep
  <2>2. Head(pkts) \in 1..MaxPackets /\ Tail(pkts) \in Seq(1..MaxPackets)
    BY <1>0, <2>1, HeadTailProperties DEF TypeOK
  <2>3. /\ last' \in 0..MaxPackets
        /\ pkts' \in Seq(1..MaxPackets)
    BY <1>9, <2>2, ClassifydAssumption DEF Send
  <2>4. pool' \in 0..StackSize
    BY <1>0, <1>9, ClassifydAssumption DEF Send, Pushed, TypeOK
  <2>5. wpc' \in {"look", "asleep", "send"}
    BY <1>9 DEF Send
  <2>6. UNCHANGED <<cpc, cflow, arrived, queue, chain, lag, clockdue, gpc,
                   rest, due, hup, unread, silent>>
    BY <1>9 DEF Send
  <2> QED
    BY <1>0, <2>3, <2>4, <2>5, <2>6 DEF TypeOK
<1>10. CASE ReadClock
  <2>1. lag' \in 0..Cap
    BY <1>10, CapFacts DEF ReadClock
  <2>2. clockdue' \in BOOLEAN
    BY <1>10, Zenon DEF ReadClock
  <2>3. UNCHANGED <<pool, cpc, cflow, arrived, queue, wpc, pkts, last,
                   chain, gpc, rest, due, hup, unread, silent>>
    BY <1>10 DEF ReadClock
  <2> QED
    BY <1>0, <2>1, <2>2, <2>3 DEF TypeOK
<1>11. CASE Wake
  <2>1. /\ lag' \in 0..Cap
        /\ gpc' \in {"sleep", "walk", "sweep", "check", "reread"}
    BY <1>0, <1>11, CapFacts DEF Wake, TypeOK
  <2>2. UNCHANGED <<pool, cpc, cflow, arrived, queue, wpc, pkts, last,
                   chain, clockdue, rest, due, hup, unread, silent>>
    BY <1>11 DEF Wake
  <2> QED
    BY <1>0, <2>1, <2>2 DEF TypeOK
<1>12. CASE Sweep
  <2>1. gpc = "sweep" /\ rest \in 1..Len(chain) /\ Len(chain) \in Nat
    BY <1>0, <1>12 DEF Sweep, IInv, Walking, TypeOK
  <2>2. chain' \in Seq(Entry)
    <3>1. SubSeq(chain, At + 1, Len(chain)) \in Seq(Entry)
      BY <1>0, <2>1 DEF TypeOK, At
    <3>2. chain' = SubSeq(chain, At + 1, Len(chain)) \/ chain' = chain
      BY <1>12 DEF Sweep
    <3> QED
      BY <1>0, <3>1, <3>2 DEF TypeOK
  <2>3. gpc' \in {"sleep", "walk", "sweep", "check", "reread"} /\ rest' \in Nat
    BY <1>12, <2>1 DEF Sweep, StillToWalk
  <2>4. UNCHANGED <<pool, cpc, cflow, arrived, queue, wpc, pkts, last, lag,
                   clockdue, due, hup, unread, silent>>
    BY <1>12 DEF Sweep
  <2> QED
    BY <1>0, <2>2, <2>3, <2>4 DEF TypeOK
<1>13. CASE Check
  <2>1. /\ gpc' \in {"sleep", "walk", "sweep", "check", "reread"}
        /\ due' \in 0..GarbagePeriod
    BY <1>0, <1>13 DEF Check, TypeOK, GarbagePeriod
  <2>2. unread' \in BOOLEAN
    BY <1>0, <1>13, Zenon DEF Check, TypeOK
  <2>3. UNCHANGED <<pool, cpc, cflow, arrived, queue, wpc, pkts, last,
                   chain, lag, clockdue, rest, hup, silent>>
    BY <1>13 DEF Check
  <2> QED
    BY <1>0, <2>1, <2>2, <2>3 DEF TypeOK
<1>14. CASE Reread
  <2>1. /\ gpc' \in {"sleep", "walk", "sweep", "check", "reread"}
        /\ due' \in 0..GarbagePeriod
    BY <1>14 DEF Reread, GarbagePeriod
  <2>2. hup' \in BOOLEAN
    BY <1>14, Zenon DEF Reread
  <2>3. UNCHANGED <<pool, cpc, cflow, arrived, queue, wpc, pkts, last,
                   chain, lag, clockdue, rest, unread, silent>>
    BY <1>14 DEF Reread
  <2> QED
    BY <1>0, <2>1, <2>2, <2>3 DEF TypeOK
<1>15. CASE Hangup
  <2>1. due' \in 0..GarbagePeriod
    BY <1>0, <1>15 DEF Hangup, TypeOK, GarbagePeriod
  <2>2. /\ hup' \in BOOLEAN
        /\ unread' \in BOOLEAN
    BY <1>0, <1>15, Zenon DEF Hangup, TypeOK
  <2>3. UNCHANGED <<pool, cpc, cflow, arrived, queue, wpc, pkts, last,
                   chain, lag, clockdue, gpc, rest, silent>>
    BY <1>15 DEF Hangup
  <2> QED
    BY <1>0, <2>1, <2>2, <2>3 DEF TypeOK
<1>16. CASE Tick
  <2>1. /\ DOMAIN chain = 1..Len(chain) /\ Len(chain) \in Nat
        /\ \A i \in DOMAIN chain : chain[i] \in Entry
    BY <1>0, LenProperties, ElementOfSeq DEF TypeOK
  <2>2. \A e \in Entry : [e EXCEPT !.age = Older(@)] \in Entry
    BY CapFacts DEF Entry
  <2>3. chain' \in Seq(Entry)
    BY <1>16, <2>1, <2>2 DEF Tick
  <2>4. /\ silent' \in [Flow -> 0..Cap]
        /\ lag' \in 0..Cap
    BY <1>0, <1>16, CapFacts DEF Tick, TypeOK
  <2>5. clockdue' \in BOOLEAN
    BY <1>16, Zenon DEF Tick
  <2>6. due' \in 0..GarbagePeriod
    BY <1>0, <1>16 DEF Tick, TypeOK, GarbagePeriod
  <2>7. UNCHANGED <<pool, cpc, cflow, arrived, queue, wpc, pkts, last, gpc,
                   rest, hup, unread>>
    BY <1>16 DEF Tick
  <2> QED
    BY <1>0, <2>3, <2>4, <2>5, <2>6, <2>7 DEF TypeOK
<1>17. CASE UNCHANGED vars
  BY <1>0, <1>17 DEF TypeOK
<1>18. CASE BeginWalk
  <2>1. gpc' \in {"sleep", "walk", "sweep", "check", "reread"} /\ rest' \in Nat
    BY <1>0, <1>18 DEF BeginWalk, TypeOK
  <2>2. UNCHANGED <<pool, cpc, cflow, arrived, queue, wpc, pkts, last,
                   chain, lag, clockdue, due, hup, unread, silent>>
    BY <1>18 DEF BeginWalk
  <2> QED
    BY <1>0, <2>1, <2>2 DEF TypeOK
<1> QED
  BY <1>1, <1>2, <1>3, <1>4, <1>5, <1>6, <1>7, <1>8, <1>9, <1>10, <1>11, <1>12, <1>13, <1>14, <1>15, <1>16, <1>17, <1>18 DEF Next, Classify, Write, Garbage

\* Every step keeps account of the packet buffers, and the lists within bounds.
LEMMA BuffersStep ==
  ASSUME IInv, [Next]_vars
  PROVE  Buffers'
<1> USE DEF vars, stackVars, classifyVars, writeVars,
            timeVars, garbageVars, confVars
<1>1. CASE Pop
  <2>1. /\ Len(queue) \in Nat /\ Len(pkts) \in Nat /\ pool \in Nat
        /\ QMax \in Nat /\ StackSize \in Nat
    BY ClassifydAssumption DEF IInv, TypeOK
  <2>2. /\ cpc = "pop" /\ UNCHANGED <<queue, pkts>>
        /\ \/ pool > 0 /\ pool' = pool - 1 /\ cpc' = "recv"
           \/ ~(pool > 0) /\ pool' = pool /\ cpc' = "crashed"
    BY <1>1 DEF Pop
  <2>3. pool + Len(queue) + Len(pkts) = StackSize /\ Len(queue) <= QMax /\ Len(pkts) <= QMax
    BY <2>1, <2>2 DEF IInv, Buffers, Held
  <2> QED
    BY <2>1, <2>2, <2>3 DEF Buffers, Held
<1>2. CASE Receive
  <2>1. Len(queue) \in Nat /\ Len(pkts) \in Nat
    BY DEF IInv, TypeOK
  <2> QED
    BY <1>2, <2>1, ClassifydAssumption DEF Receive, IInv, TypeOK, Buffers, Held
<1>3. CASE NoMemory
  <2>1. Len(queue) \in Nat /\ Len(pkts) \in Nat
    BY DEF IInv, TypeOK
  <2> QED
    BY <1>3, <2>1, ClassifydAssumption DEF NoMemory, Drop, Pushed, IInv, TypeOK, Buffers, Held
<1>4. CASE Insert
  <2>1. Len(queue) \in Nat /\ Len(pkts) \in Nat
    BY DEF IInv, TypeOK
  <2> QED
    BY <1>4, <2>1, ClassifydAssumption DEF Insert, IInv, TypeOK, Buffers, Held
<1>5. CASE Stamp
  <2>1. Len(queue) \in Nat /\ Len(pkts) \in Nat
    BY DEF IInv, TypeOK
  <2> QED
    BY <1>5, <2>1, ClassifydAssumption DEF Stamp, IInv, TypeOK, Buffers, Held
<1>6. CASE Test
  <2>1. Len(queue) \in Nat /\ Len(pkts) \in Nat
    BY DEF IInv, TypeOK
  <2> QED
    <3>1. UNCHANGED <<queue, pkts>> /\ pool \in Nat /\ cpc = "test"
      BY <1>6, ClassifydAssumption DEF Test, IInv, TypeOK
    <3>2. CASE Full
      <4>1. cpc' = "pop" /\ pool' = Pushed(pool)
        BY <1>6, <3>2 DEF Test, Drop
      <4> QED
        BY <2>1, <3>1, <4>1, ClassifydAssumption DEF Pushed, IInv, Buffers, Held
    <3>3. CASE ~Full
      <4>1. cpc' = "enqueue" /\ pool' = pool /\ Len(queue) < QMax
        BY <1>6, <2>1, <3>3, ClassifydAssumption DEF Test, Full
      <4> QED
        BY <2>1, <3>1, <4>1, ClassifydAssumption DEF IInv, Buffers, Held
    <3> QED
      BY <3>2, <3>3
<1>7. CASE Enqueue
  <2>1. queue \in Seq(1..MaxPackets) /\ Len(queue) \in Nat /\ Len(queue') = Len(queue) + 1
    BY <1>7 DEF Enqueue, Queued, IInv, TypeOK
  <2>2. Len(pkts) \in Nat
    BY DEF IInv, TypeOK
  <2> QED
    BY <1>7, <2>1, <2>2, ClassifydAssumption DEF Enqueue, IInv, TypeOK, Buffers, Held
<1>8. CASE Look
  <2>1. pkts = <<>>
    BY <1>8 DEF Look, IInv, Sleep
  <2>2. /\ Len(queue) \in Nat /\ Len(queue') = 0
        /\ Len(pkts) = 0 /\ Len(pkts') = Len(queue)
        /\ cpc' = cpc /\ pool' = pool /\ pool \in Nat
    BY <1>8, <2>1, ClassifydAssumption DEF Look, IInv, TypeOK
  <2>3. QMax \in Nat /\ StackSize \in Nat /\ Held \in {0, 1} /\ Held' = Held
    BY <2>2, ClassifydAssumption DEF Held
  <2>4. cpc # "enqueue" \/ 0 < QMax
    BY <2>2, <2>3 DEF IInv, Buffers
  <2> QED
    BY <2>2, <2>3, <2>4 DEF IInv, Buffers
<1>9. CASE Send
  <2>1. pkts # <<>> /\ pkts \in Seq(1..MaxPackets)
    BY <1>9 DEF Send, IInv, Sleep, TypeOK
  <2>2. Len(pkts) \in Nat \ {0} /\ Len(pkts') = Len(pkts) - 1
    BY <1>9, <2>1 DEF Send
  <2>3. Len(queue) \in Nat
    BY DEF IInv, TypeOK
  <2> QED
    <3>1. /\ cpc' = cpc /\ queue' = queue /\ pool' = Pushed(pool)
          /\ pool \in Nat /\ QMax \in Nat /\ StackSize \in Nat
      BY <1>9, ClassifydAssumption DEF Send, IInv, TypeOK
    <3>2. Held \in {0, 1} /\ Held' = Held
      BY <3>1 DEF Held
    <3>3. pool < StackSize
      BY <2>2, <2>3, <3>1, <3>2 DEF IInv, Buffers
    <3> QED
      BY <2>2, <2>3, <3>1, <3>2, <3>3 DEF Pushed, IInv, Buffers
<1>10. CASE ReadClock
  BY <1>10 DEF ReadClock, IInv, Buffers, Held
<1>11. CASE Wake
  BY <1>11 DEF Wake, IInv, Buffers, Held
<1>12. CASE Sweep
  BY <1>12 DEF Sweep, IInv, Buffers, Held
<1>13. CASE Check
  BY <1>13 DEF Check, IInv, Buffers, Held
<1>14. CASE Reread
  BY <1>14 DEF Reread, IInv, Buffers, Held
<1>15. CASE Hangup
  BY <1>15 DEF Hangup, IInv, Buffers, Held
<1>16. CASE Tick
  BY <1>16 DEF Tick, IInv, Buffers, Held
<1>17. CASE UNCHANGED vars
  BY <1>17 DEF IInv, Buffers, Held
<1>18. CASE BeginWalk
  BY <1>18 DEF BeginWalk, IInv, Buffers, Held
<1> QED
  BY <1>1, <1>2, <1>3, <1>4, <1>5, <1>6, <1>7, <1>8, <1>9, <1>10, <1>11, <1>12, <1>13, <1>14, <1>15, <1>16, <1>17, <1>18 DEF Next, Classify, Write, Garbage

\* Every step that queues a packet wakes the writer.
LEMMA SleepStep ==
  ASSUME IInv, [Next]_vars
  PROVE  Sleep'
<1> USE DEF vars, stackVars, classifyVars, writeVars,
            timeVars, garbageVars, confVars
<1>1. CASE Pop
  BY <1>1 DEF Pop, IInv, Sleep
<1>2. CASE Receive
  BY <1>2 DEF Receive, IInv, Sleep
<1>3. CASE NoMemory
  BY <1>3 DEF NoMemory, IInv, Sleep
<1>4. CASE Insert
  BY <1>4 DEF Insert, IInv, Sleep
<1>5. CASE Stamp
  BY <1>5 DEF Stamp, IInv, Sleep
<1>6. CASE Test
  BY <1>6 DEF Test, IInv, Sleep
<1>7. CASE Enqueue
  BY <1>7 DEF Enqueue, Signalled, IInv, Sleep
<1>8. CASE Look
  BY <1>8 DEF Look, IInv, Sleep
<1>9. CASE Send
  BY <1>9 DEF Send, IInv, Sleep
<1>10. CASE ReadClock
  BY <1>10 DEF ReadClock, IInv, Sleep
<1>11. CASE Wake
  BY <1>11 DEF Wake, IInv, Sleep
<1>12. CASE Sweep
  BY <1>12 DEF Sweep, IInv, Sleep
<1>13. CASE Check
  BY <1>13 DEF Check, IInv, Sleep
<1>14. CASE Reread
  BY <1>14 DEF Reread, IInv, Sleep
<1>15. CASE Hangup
  BY <1>15 DEF Hangup, IInv, Sleep
<1>16. CASE Tick
  BY <1>16 DEF Tick, IInv, Sleep
<1>17. CASE UNCHANGED vars
  BY <1>17 DEF IInv, Sleep
<1>18. CASE BeginWalk
  BY <1>18 DEF BeginWalk, IInv, Sleep
<1> QED
  BY <1>1, <1>2, <1>3, <1>4, <1>5, <1>6, <1>7, <1>8, <1>9, <1>10, <1>11, <1>12, <1>13, <1>14, <1>15, <1>16, <1>17, <1>18 DEF Next, Classify, Write, Garbage

\* Every step keeps the packets in the order of arrival.
LEMMA OrderStep ==
  ASSUME IInv, [Next]_vars
  PROVE  Order'
<1> USE DEF vars, stackVars, classifyVars, writeVars,
            timeVars, garbageVars, confVars
<1>1. CASE Pop
  BY <1>1 DEF Pop, IInv, Order, Growing, Idle
<1>2. CASE Receive
  <2>1. /\ queue \in Seq(1..MaxPackets) /\ pkts \in Seq(1..MaxPackets)
        /\ arrived \in Nat /\ last \in Nat /\ arrived' = arrived + 1
    BY <1>2 DEF Receive, IInv, TypeOK
  <2>2. /\ \A i \in DOMAIN queue : queue[i] \in Nat
        /\ \A i \in DOMAIN pkts : pkts[i] \in Nat
    BY <2>1, Numbers
  <2> QED
    BY <1>2, <2>1, <2>2 DEF Receive, IInv, Order, Growing, Idle
<1>3. CASE NoMemory
  BY <1>3 DEF NoMemory, Drop, IInv, Order, Growing, Idle
<1>4. CASE Insert
  BY <1>4 DEF Insert, IInv, Order, Growing, Idle
<1>5. CASE Stamp
  BY <1>5 DEF Stamp, IInv, Order, Growing, Idle
<1>6. CASE Test
  BY <1>6 DEF Test, Drop, IInv, Order, Growing, Idle
<1>7. CASE Enqueue
  <2>1. /\ queue \in Seq(1..MaxPackets) /\ pkts \in Seq(1..MaxPackets)
        /\ arrived \in Nat /\ last \in Nat
    BY DEF IInv, TypeOK
  <2>2. /\ DOMAIN queue = 1..Len(queue) /\ Len(queue) \in Nat
        /\ DOMAIN queue' = 1..Len(queue) + 1
        /\ \A i \in DOMAIN queue : queue'[i] = queue[i] /\ queue[i] \in Nat
        /\ queue'[Len(queue) + 1] = arrived
    BY <1>7, <2>1, Numbers, AppendProperties DEF Enqueue, Queued
  <2>3. /\ last < arrived
        /\ \A i \in DOMAIN pkts : pkts[i] < arrived
        /\ \A i \in DOMAIN queue : queue[i] < arrived
    BY <1>7 DEF Enqueue, IInv, Order, Idle
  <2>4. Growing(queue)'
    BY <2>1, <2>2, <2>3 DEF IInv, Order, Growing
  <2>5. \A i \in DOMAIN queue' : last < queue'[i] /\ queue'[i] <= arrived
    BY <2>1, <2>2, <2>3 DEF IInv, Order
  <2>6. \A i \in DOMAIN pkts, j \in DOMAIN queue' : pkts[i] < queue'[j]
    BY <2>1, <2>2, <2>3 DEF IInv, Order
  <2> QED
    BY <1>7, <2>4, <2>5, <2>6 DEF Enqueue, IInv, Order, Growing, Idle
<1>8. CASE Look
  <2>1. pkts = <<>> /\ pkts' = queue /\ queue' = <<>>
    BY <1>8 DEF Look, IInv, Sleep
  <2>2. DOMAIN queue' = {}
    BY <2>1
  <2> QED
    BY <1>8, <2>1, <2>2 DEF Look, IInv, Order, Growing, Idle
<1>9. CASE Send
  <2>1. /\ pkts # <<>> /\ pkts \in Seq(1..MaxPackets) /\ queue \in Seq(1..MaxPackets)
        /\ last \in Nat /\ arrived \in Nat
    BY <1>9 DEF Send, IInv, Sleep, TypeOK
  <2>2. /\ Len(pkts) \in Nat \ {0} /\ DOMAIN pkts = 1..Len(pkts)
        /\ last' = pkts[1]
        /\ DOMAIN pkts' = 1..Len(pkts) - 1
        /\ \A i \in DOMAIN pkts' : pkts'[i] = pkts[i + 1] /\ i + 1 \in DOMAIN pkts
        /\ \A i \in DOMAIN pkts : pkts[i] \in Nat
    BY <1>9, <2>1, Numbers DEF Send
  <2>3. Growing(pkts)'
    BY <2>2 DEF IInv, Order, Growing
  <2>4. \A i \in DOMAIN pkts' : last' < pkts'[i] /\ pkts'[i] <= arrived
    <3> SUFFICES ASSUME NEW i \in DOMAIN pkts'
                 PROVE  last' < pkts'[i] /\ pkts'[i] <= arrived
      OBVIOUS
    <3>1. i + 1 \in DOMAIN pkts /\ 1 \in DOMAIN pkts /\ 1 < i + 1 /\ pkts'[i] = pkts[i + 1]
      BY <2>2
    <3> QED
      BY <2>2, <3>1 DEF IInv, Order, Growing
  <2>5. 1 \in DOMAIN pkts /\ queue' = queue /\ arrived' = arrived /\ cpc' = cpc
    <3>1. 1 \in DOMAIN pkts
      BY <2>2
    <3> QED
      BY <1>9, <3>1 DEF Send
  <2>6. \A i \in DOMAIN queue : last' < queue[i] /\ queue[i] <= arrived
    BY <2>2, <2>5 DEF IInv, Order
  <2>7. \A i \in DOMAIN pkts', j \in DOMAIN queue : pkts'[i] < queue[j]
    BY <2>2 DEF IInv, Order
  <2>8. last' <= arrived
    BY <2>2, <2>5 DEF IInv, Order
  <2>9. ~Idle => /\ last' < arrived
                 /\ \A i \in DOMAIN pkts' : pkts'[i] < arrived
                 /\ \A i \in DOMAIN queue : queue[i] < arrived
    BY <2>2, <2>5 DEF IInv, Order
  <2> QED
    BY <2>3, <2>4, <2>5, <2>6, <2>7, <2>8, <2>9 DEF IInv, Order, Growing, Idle
<1>10. CASE ReadClock
  BY <1>10 DEF ReadClock, IInv, Order, Growing, Idle
<1>11. CASE Wake
  BY <1>11 DEF Wake, IInv, Order, Growing, Idle
<1>12. CASE Sweep
  BY <1>12 DEF Sweep, IInv, Order, Growing, Idle
<1>13. CASE Check
  BY <1>13 DEF Check, IInv, Order, Growing, Idle
<1>14. CASE Reread
  BY <1>14 DEF Reread, IInv, Order, Growing, Idle
<1>15. CASE Hangup
  BY <1>15 DEF Hangup, IInv, Order, Growing, Idle
<1>16. CASE Tick
  BY <1>16 DEF Tick, IInv, Order, Growing, Idle
<1>17. CASE UNCHANGED vars
  BY <1>17 DEF IInv, Order, Growing, Idle
<1>18. CASE BeginWalk
  BY <1>18 DEF BeginWalk, IInv, Order, Growing, Idle
<1> QED
  BY <1>1, <1>2, <1>3, <1>4, <1>5, <1>6, <1>7, <1>8, <1>9, <1>10, <1>11, <1>12, <1>13, <1>14, <1>15, <1>16, <1>17, <1>18 DEF Next, Classify, Write, Garbage

\* Every step knows the flow of a packet that has one.
LEMMA TrackedStep ==
  ASSUME IInv, [Next]_vars
  PROVE  Tracked'
<1> USE DEF vars, stackVars, classifyVars, writeVars,
            timeVars, garbageVars, confVars
<1>1. CASE Pop
  BY <1>1 DEF Pop, IInv, Tracked
<1>2. CASE Receive
  BY <1>2 DEF Receive, IInv, Tracked
<1>3. CASE NoMemory
  BY <1>3 DEF NoMemory, Drop, IInv, Tracked
<1>4. CASE Insert
  BY <1>4 DEF Insert, IInv, Tracked
<1>5. CASE Stamp
  BY <1>5 DEF Stamp, IInv, Tracked
<1>6. CASE Test
  BY <1>6 DEF Test, Drop, IInv, Tracked
<1>7. CASE Enqueue
  BY <1>7 DEF Enqueue, IInv, Tracked
<1>8. CASE Look
  BY <1>8 DEF Look, IInv, Tracked
<1>9. CASE Send
  BY <1>9 DEF Send, IInv, Tracked
<1>10. CASE ReadClock
  BY <1>10 DEF ReadClock, IInv, Tracked
<1>11. CASE Wake
  BY <1>11 DEF Wake, IInv, Tracked
<1>12. CASE Sweep
  BY <1>12 DEF Sweep, IInv, Tracked
<1>13. CASE Check
  BY <1>13 DEF Check, IInv, Tracked
<1>14. CASE Reread
  BY <1>14 DEF Reread, IInv, Tracked
<1>15. CASE Hangup
  BY <1>15 DEF Hangup, IInv, Tracked
<1>16. CASE Tick
  BY <1>16 DEF Tick, IInv, Tracked
<1>17. CASE UNCHANGED vars
  BY <1>17 DEF IInv, Tracked
<1>18. CASE BeginWalk
  BY <1>18 DEF BeginWalk, IInv, Tracked
<1> QED
  BY <1>1, <1>2, <1>3, <1>4, <1>5, <1>6, <1>7, <1>8, <1>9, <1>10, <1>11, <1>12, <1>13, <1>14, <1>15, <1>16, <1>17, <1>18 DEF Next, Classify, Write, Garbage

\* Every step keeps the flag of a file that is announced and not read.
LEMMA FlagStep ==
  ASSUME IInv, [Next]_vars
  PROVE  Flagged'
<1> USE DEF vars, stackVars, classifyVars, writeVars,
            timeVars, garbageVars, confVars
<1>0. Flagged
  BY DEF IInv
<1>1. CASE Pop
  <2>1. UNCHANGED <<gpc, hup, unread>>
    BY <1>1 DEF Pop
  <2> QED
    BY <1>0, <2>1 DEF Flagged, HangupsStayFlagged
<1>2. CASE Receive
  <2>1. UNCHANGED <<gpc, hup, unread>>
    BY <1>2 DEF Receive
  <2> QED
    BY <1>0, <2>1 DEF Flagged, HangupsStayFlagged
<1>3. CASE NoMemory
  <2>1. UNCHANGED <<gpc, hup, unread>>
    BY <1>3 DEF NoMemory, Drop
  <2> QED
    BY <1>0, <2>1 DEF Flagged, HangupsStayFlagged
<1>4. CASE Insert
  <2>1. UNCHANGED <<gpc, hup, unread>>
    BY <1>4 DEF Insert
  <2> QED
    BY <1>0, <2>1 DEF Flagged, HangupsStayFlagged
<1>5. CASE Stamp
  <2>1. UNCHANGED <<gpc, hup, unread>>
    BY <1>5 DEF Stamp
  <2> QED
    BY <1>0, <2>1 DEF Flagged, HangupsStayFlagged
<1>6. CASE Test
  <2>1. UNCHANGED <<gpc, hup, unread>>
    BY <1>6 DEF Test, Drop
  <2> QED
    BY <1>0, <2>1 DEF Flagged, HangupsStayFlagged
<1>7. CASE Enqueue
  <2>1. UNCHANGED <<gpc, hup, unread>>
    BY <1>7 DEF Enqueue
  <2> QED
    BY <1>0, <2>1 DEF Flagged, HangupsStayFlagged
<1>8. CASE Look
  <2>1. UNCHANGED <<gpc, hup, unread>>
    BY <1>8 DEF Look
  <2> QED
    BY <1>0, <2>1 DEF Flagged, HangupsStayFlagged
<1>9. CASE Send
  <2>1. UNCHANGED <<gpc, hup, unread>>
    BY <1>9 DEF Send
  <2> QED
    BY <1>0, <2>1 DEF Flagged, HangupsStayFlagged
<1>10. CASE ReadClock
  <2>1. UNCHANGED <<gpc, hup, unread>>
    BY <1>10 DEF ReadClock
  <2> QED
    BY <1>0, <2>1 DEF Flagged, HangupsStayFlagged
<1>11. CASE Wake
  BY <1>0, <1>11, Zenon DEF Wake, Flagged, HangupsStayFlagged
<1>12. CASE Sweep
  BY <1>0, <1>12, Zenon DEF Sweep, Flagged, HangupsStayFlagged
<1>13. CASE Check
  BY <1>0, <1>13, Zenon DEF Check, Flagged, HangupsStayFlagged
<1>14. CASE Reread
  BY <1>0, <1>14, Zenon DEF Reread, Flagged, HangupsStayFlagged
<1>15. CASE Hangup
  BY <1>0, <1>15, Zenon DEF Hangup, Flagged, HangupsStayFlagged
<1>16. CASE Tick
  <2>1. UNCHANGED <<gpc, hup, unread>>
    BY <1>16 DEF Tick
  <2> QED
    BY <1>0, <2>1 DEF Flagged, HangupsStayFlagged
<1>17. CASE UNCHANGED vars
  BY <1>0, <1>17 DEF Flagged, HangupsStayFlagged
<1>18. CASE BeginWalk
  BY <1>0, <1>18, Zenon DEF BeginWalk, Flagged, HangupsStayFlagged
<1> QED
  BY <1>1, <1>2, <1>3, <1>4, <1>5, <1>6, <1>7, <1>8, <1>9, <1>10, <1>11, <1>12, <1>13, <1>14, <1>15, <1>16, <1>17, <1>18 DEF Next, Classify, Write, Garbage

\* An entry names a flow, and its age is a number.
LEMMA Entries ==
  ASSUME TypeOK
  PROVE  /\ DOMAIN chain = 1..Len(chain) /\ Len(chain) \in Nat
         /\ \A i \in DOMAIN chain : chain[i].flow \in Flow /\ chain[i].age \in 0..Cap
<1>1. /\ DOMAIN chain = 1..Len(chain) /\ Len(chain) \in Nat
      /\ \A i \in DOMAIN chain : chain[i] \in Entry
  BY LenProperties, ElementOfSeq DEF TypeOK
<1> QED
  BY <1>1 DEF Entry

\* An entry is inserted before all others.
LEMMA InsertLengthens ==
  ASSUME IInv, Insert
  PROVE  /\ DOMAIN chain' = 1..Len(chain) + 1 /\ Len(chain') = Len(chain) + 1
         /\ chain'[1].flow = cflow
         /\ \A i \in 2..Len(chain) + 1 : chain'[i] = chain[i - 1]
<1>1. PICK age \in {0, Cap} : chain' = <<[flow |-> cflow, age |-> age]>> \o chain
  BY DEF Insert
<1>2. [flow |-> cflow, age |-> age] \in Entry
  <2>1. cflow \in Flow
    BY DEF Insert, IInv, Tracked
  <2>2. age \in 0..Cap
    <3>1. 0 \in 0..Cap /\ Cap \in 0..Cap
      BY CapFacts
    <3> QED
      BY <1>1, <3>1, Zenon
  <2> QED
    BY <2>1, <2>2 DEF Entry
<1> DEFINE e == [flow |-> cflow, age |-> age]
           one == <<e>>
<1>3. one \in Seq(Entry) /\ Len(one) = 1 /\ one[1] = e /\ e.flow = cflow /\ chain' = one \o chain
  BY <1>1, <1>2
<1>4. chain \in Seq(Entry) /\ Len(chain) \in Nat
  BY DEF IInv, TypeOK
<1> HIDE DEF one, e
<1>5. /\ chain' \in Seq(Entry) /\ Len(chain') = 1 + Len(chain)
      /\ \A i \in 1..1 + Len(chain) : chain'[i] = IF i <= 1 THEN one[i] ELSE chain[i - 1]
  <2>1. /\ one \o chain \in Seq(Entry) /\ Len(one \o chain) = Len(one) + Len(chain)
        /\ \A i \in 1..Len(one) + Len(chain) :
             (one \o chain)[i] = IF i <= Len(one) THEN one[i] ELSE chain[i - Len(one)]
    BY <1>3, <1>4, ConcatProperties
  <2> QED
    BY <1>3, <2>1
<1>6. DOMAIN chain' = 1..Len(chain) + 1 /\ Len(chain') = Len(chain) + 1
  BY <1>4, <1>5, LenProperties
<1>7. chain'[1] = e
  BY <1>3, <1>4, <1>5
<1>8. \A i \in 2..Len(chain) + 1 : chain'[i] = chain[i - 1]
  BY <1>4, <1>5
<1> QED
  BY <1>3, <1>6, <1>7, <1>8

\* A step of the walk leaves the chain or all that follows the entry looked at.
LEMMA SweepCuts ==
  ASSUME IInv, Sweep
  PROVE  \/ /\ ~Expired /\ chain' = chain
         \/ /\ Expired /\ Len(chain') = rest - 1 /\ DOMAIN chain' = 1..rest - 1
            /\ \A i \in DOMAIN chain' : /\ i + At \in DOMAIN chain
                                         /\ chain'[i] = chain[i + At]
<1>1. /\ chain \in Seq(Entry) /\ Len(chain) \in Nat /\ DOMAIN chain = 1..Len(chain)
      /\ rest \in 1..Len(chain)
  BY LenProperties DEF IInv, TypeOK, Walking, Sweep
<1>2. CASE Expired
  <2>1. chain' = SubSeq(chain, Len(chain) - rest + 2, Len(chain))
    BY <1>1, <1>2 DEF Sweep, At
  <2>2. /\ Len(chain') = rest - 1 /\ DOMAIN chain' = 1..rest - 1
        /\ \A i \in 1..rest - 1 : chain'[i] = chain[i + (Len(chain) - rest + 1)]
    BY <1>1, <2>1
  <2> QED
    BY <1>1, <1>2, <2>2 DEF At
<1>3. CASE ~Expired
  BY <1>3 DEF Sweep
<1> QED
  BY <1>2, <1>3

\* Every step of the classifier leaves a walk the entries it has still to look at.
LEMMA WalkingStep ==
  ASSUME IInv, [Next]_vars
  PROVE  Walking'
<1> USE DEF vars, stackVars, classifyVars, writeVars,
            timeVars, garbageVars, confVars
<1>0. /\ TypeOK /\ Walking /\ DOMAIN chain = 1..Len(chain) /\ Len(chain) \in Nat
  BY LenProperties DEF IInv, TypeOK
<1>1. CASE Pop
  <2>1. UNCHANGED <<gpc, rest, chain>>
    BY <1>1 DEF Pop
  <2> QED
    BY <1>0, <2>1 DEF Walking
<1>2. CASE Receive
  <2>1. UNCHANGED <<gpc, rest, chain>>
    BY <1>2 DEF Receive
  <2> QED
    BY <1>0, <2>1 DEF Walking
<1>3. CASE NoMemory
  <2>1. UNCHANGED <<gpc, rest, chain>>
    BY <1>3 DEF NoMemory
  <2> QED
    BY <1>0, <2>1 DEF Walking
<1>4. CASE Insert
  <2>1. UNCHANGED <<gpc, rest>> /\ Len(chain') = Len(chain) + 1
    BY <1>4, InsertLengthens DEF Insert
  <2> QED
    BY <1>0, <2>1 DEF Walking
<1>5. CASE Stamp
  <2>1. UNCHANGED <<gpc, rest>> /\ DOMAIN chain' = 1..Len(chain)
    BY <1>0, <1>5 DEF Stamp
  <2>2. Len(chain') = Len(chain)
    BY <1>0, <2>1, TypeStep, LenProperties DEF TypeOK
  <2> QED
    BY <1>0, <2>1, <2>2 DEF Walking
<1>6. CASE Test
  <2>1. UNCHANGED <<gpc, rest, chain>>
    BY <1>6 DEF Test
  <2> QED
    BY <1>0, <2>1 DEF Walking
<1>7. CASE Enqueue
  <2>1. UNCHANGED <<gpc, rest, chain>>
    BY <1>7 DEF Enqueue
  <2> QED
    BY <1>0, <2>1 DEF Walking
<1>8. CASE Look
  <2>1. UNCHANGED <<gpc, rest, chain>>
    BY <1>8 DEF Look
  <2> QED
    BY <1>0, <2>1 DEF Walking
<1>9. CASE Send
  <2>1. UNCHANGED <<gpc, rest, chain>>
    BY <1>9 DEF Send
  <2> QED
    BY <1>0, <2>1 DEF Walking
<1>10. CASE ReadClock
  <2>1. UNCHANGED <<gpc, rest, chain>>
    BY <1>10 DEF ReadClock
  <2> QED
    BY <1>0, <2>1 DEF Walking
<1>11. CASE Wake
  BY <1>11 DEF Wake, Walking
<1>12. CASE Sweep
  <2>1. gpc = "sweep" /\ rest \in 1..Len(chain) /\ rest' = rest - 1 /\ (gpc' = "sweep" => rest' # 0)
    BY <1>0, <1>12 DEF Sweep, StillToWalk, Walking
  <2>2. Len(chain') = Len(chain) \/ Len(chain') = rest - 1
    BY <1>0, <1>12, SweepCuts
  <2> QED
    BY <1>0, <2>1, <2>2 DEF Walking
<1>13. CASE Check
  BY <1>13 DEF Check, Walking
<1>14. CASE Reread
  BY <1>14 DEF Reread, Walking
<1>15. CASE Hangup
  <2>1. UNCHANGED <<gpc, rest, chain>>
    BY <1>15 DEF Hangup
  <2> QED
    BY <1>0, <2>1 DEF Walking
<1>16. CASE Tick
  BY <1>16 DEF Tick, Walking
<1>17. CASE UNCHANGED vars
  BY <1>0, <1>17 DEF Walking
<1>18. CASE BeginWalk
  BY <1>0, <1>18 DEF BeginWalk, Walking, TypeOK
<1> QED
  BY <1>1, <1>2, <1>3, <1>4, <1>5, <1>6, <1>7, <1>8, <1>9, <1>10, <1>11, <1>12, <1>13, <1>14, <1>15, <1>16, <1>17, <1>18 DEF Next, Classify, Write, Garbage

-----------------------------------------------------------------------------
\* The inductive invariant holds in every reachable state.
THEOREM PathInvariant == Spec => []IInv
<1>1. IInv /\ [Next]_vars => IInv'
  BY TypeStep, BuffersStep, SleepStep, OrderStep, TrackedStep, FlagStep, WalkingStep DEF IInv
<1> QED
  BY InitIInv, <1>1, PTL DEF Spec

\* Every variable of ipfw-classifyd keeps its type.
THEOREM TypeCorrect == Spec => []TypeOK
BY PathInvariant, PTL DEF IInv

\* The packets that are on their way are in the order in which they came.
THEOREM ArrivalOrder == Spec => []PacketsKeepOrder
<1>1. IInv => PacketsKeepOrder
  <2> SUFFICES ASSUME IInv PROVE PacketsKeepOrder
    OBVIOUS
  <2> DEFINE own == IF cpc \in {"pop", "recv", "crashed"} THEN <<>> ELSE <<arrived>>
             both == pkts \o queue
  <2>1. /\ pkts \in Seq(1..MaxPackets) /\ queue \in Seq(1..MaxPackets)
        /\ arrived \in Nat /\ last \in Nat
    BY ClassifydAssumption DEF IInv, TypeOK
  <2>2. /\ both \in Seq(1..MaxPackets) /\ DOMAIN both = 1..Len(pkts) + Len(queue)
        /\ Len(both) = Len(pkts) + Len(queue) /\ Len(both) \in Nat
        /\ \A i \in DOMAIN both :
             \/ i \in DOMAIN pkts /\ both[i] = pkts[i]
             \/ i - Len(pkts) \in DOMAIN queue /\ i > Len(pkts) /\ both[i] = queue[i - Len(pkts)]
    BY <2>1
  <2>3. \A i \in DOMAIN both : last < both[i] /\ (~Idle => both[i] < arrived)
    BY <2>2 DEF IInv, Order
  <2>4. \A i, j \in DOMAIN both : i < j => both[i] < both[j]
    BY <2>1, <2>2 DEF IInv, Order, Growing
  <2>5. CASE Idle
    <3>1. Line = both
      BY <2>1, <2>2, <2>5 DEF Line, Idle
    <3> QED
      BY <2>3, <2>4, <3>1 DEF PacketsKeepOrder
  <2>6. CASE ~Idle
    <3>1. Line = Append(both, arrived)
      BY <2>1, <2>2, <2>6 DEF Line, Idle
    <3>2. last < arrived
      BY <2>6 DEF IInv, Order
    <3> HIDE DEF both
    <3>3. /\ DOMAIN Line = 1..Len(both) + 1 /\ DOMAIN both = 1..Len(both) /\ Len(both) \in Nat
          /\ \A i \in DOMAIN both : Line[i] = both[i] /\ both[i] \in Nat
          /\ Line[Len(both) + 1] = arrived
      BY <2>1, <2>2, <3>1, Numbers
    <3> QED
      BY <2>1, <2>3, <2>4, <2>6, <3>2, <3>3 DEF PacketsKeepOrder
  <2> QED
    BY <2>5, <2>6
<1> QED
  BY PathInvariant, <1>1, PTL

\* pktmem_pop never meets an empty stack that holds more than twice the queue.
THEOREM StackSuffices == Spec => []PopsFindMemory
<1>1. IInv => PopsFindMemory
  BY ClassifydAssumption DEF IInv, TypeOK, Buffers, PopsFindMemory
<1> QED
  BY PathInvariant, <1>1, PTL

\* The writer does not sleep while a packet waits.
THEOREM WriterIsWoken == Spec => []NoPacketIsForgotten
<1>1. IInv => NoPacketIsForgotten
  BY DEF IInv, Sleep, NoPacketIsForgotten
<1> QED
  BY PathInvariant, <1>1, PTL

\* No announced file is forgotten, except one announced during a rereading.
THEOREM FlagIsKept == Spec => []HangupsStayFlagged
<1>1. IInv => HangupsStayFlagged
  BY DEF IInv, Flagged
<1> QED
  BY PathInvariant, <1>1, PTL

-----------------------------------------------------------------------------
(***************************************************************************)
(* The flow table and the clock.  No stamp is younger than the last packet *)
(* of its flow, but for one not yet written; and by the time the garbage   *)
(* thread wakes up, the clock thread has undone its last shift of t_time.  *)
(***************************************************************************)
Aged ==
  \A i \in DOMAIN chain :
    \/ cpc = "added" /\ chain[i].flow = cflow
    \/ chain[i].age >= silent[chain[i].flow]

Clocked ==
  /\ gpc = "sleep" /\ due = 2 /\ ~clockdue => lag = 0
  /\ gpc = "sleep" /\ due < 2 => lag <= 1 /\ (~clockdue => lag = 0)
  /\ gpc \in {"walk", "sweep"} => lag <= Expire + 1

\* Every step keeps the order of stamps and packets.
LEMMA AgedStep ==
  ASSUME IInv, Aged, [Next]_vars
  PROVE  Aged'
<1> USE DEF vars, stackVars, classifyVars, writeVars,
            timeVars, garbageVars, confVars
<1>0. /\ TypeOK /\ DOMAIN chain = 1..Len(chain) /\ Len(chain) \in Nat
      /\ \A i \in DOMAIN chain : chain[i].flow \in Flow /\ chain[i].age \in 0..Cap
  BY Entries DEF IInv
<1>1. CASE Pop
  <2>1. cpc # "added" /\ UNCHANGED <<chain, silent>>
    BY <1>1 DEF Pop
  <2> QED
    BY <2>1 DEF Aged
<1>2. CASE Receive
  <2>1. cpc = "recv" /\ UNCHANGED <<chain, silent>>
    BY <1>2 DEF Receive
  <2> QED
    BY <2>1 DEF Aged
<1>3. CASE NoMemory
  <2>1. cpc # "added" /\ UNCHANGED <<chain, silent>>
    BY <1>3 DEF NoMemory
  <2> QED
    BY <2>1 DEF Aged
<1>4. CASE Insert
  <2>2. cpc = "new" /\ cpc' = "added" /\ UNCHANGED <<cflow, silent>>
    BY <1>4 DEF Insert
  <2>3. /\ DOMAIN chain' = 1..Len(chain) + 1
        /\ chain'[1].flow = cflow
        /\ \A i \in 2..Len(chain) + 1 : chain'[i] = chain[i - 1]
    BY <1>4, InsertLengthens
  <2>4. ASSUME NEW i \in DOMAIN chain'
        PROVE  chain'[i].flow = cflow \/ chain'[i].age >= silent[chain'[i].flow]
    <3>1. CASE i = 1
      BY <2>3, <3>1
    <3>2. CASE i # 1
      <4>1. i - 1 \in DOMAIN chain /\ chain'[i] = chain[i - 1]
        BY <1>0, <2>3, <3>2
      <4> QED
        BY <2>2, <4>1 DEF Aged
    <3> QED
      BY <3>1, <3>2
  <2> QED
    BY <2>2, <2>4 DEF Aged
<1>5. CASE Stamp
  <2>1. /\ DOMAIN chain' = DOMAIN chain /\ cpc' = "test" /\ cflow' = cflow
        /\ \A i \in DOMAIN chain :
             chain'[i] = IF chain[i].flow = cflow THEN [chain[i] EXCEPT !.age = lag] ELSE chain[i]
    BY <1>5 DEF Stamp
  <2>2. silent \in [Flow -> 0..Cap] /\ lag \in 0..Cap
    BY <1>0 DEF TypeOK
  <2>3. ASSUME NEW i \in DOMAIN chain
        PROVE  chain'[i].age >= silent'[chain'[i].flow]
    <3>1. CASE chain[i].flow = cflow
      <4>1. chain[i] \in Entry
        BY <1>0, ElementOfSeq DEF TypeOK
      <4>2. chain'[i].flow = cflow /\ chain'[i].age = lag
        BY <2>1, <3>1, <4>1 DEF Entry
      <4>3. InChain(cflow) /\ cflow \in Flow
        BY <1>0, <3>1 DEF InChain
      <4>4. silent'[cflow] = 0
        BY <1>5, <2>2, <4>3 DEF Stamp
      <4> QED
        BY <2>2, <4>2, <4>4, CapFacts
    <3>2. CASE chain[i].flow # cflow
      <4>1. chain'[i] = chain[i] /\ chain[i].age >= silent[chain[i].flow]
        BY <2>1, <3>2 DEF Aged
      <4>2. silent'[chain[i].flow] = silent[chain[i].flow]
        BY <1>0, <1>5, <2>2, <3>2 DEF Stamp
      <4> QED
        BY <4>1, <4>2
    <3> QED
      BY <3>1, <3>2
  <2> QED
    BY <2>1, <2>3 DEF Aged
<1>6. CASE Test
  <2>1. cpc # "added" /\ UNCHANGED <<chain, silent>>
    BY <1>6 DEF Test
  <2> QED
    BY <2>1 DEF Aged
<1>7. CASE Enqueue
  <2>1. cpc # "added" /\ UNCHANGED <<chain, silent>>
    BY <1>7 DEF Enqueue
  <2> QED
    BY <2>1 DEF Aged
<1>8. CASE Look
  BY <1>8 DEF Look, Aged
<1>9. CASE Send
  BY <1>9 DEF Send, Aged
<1>10. CASE ReadClock
  BY <1>10 DEF ReadClock, Aged
<1>11. CASE Wake
  BY <1>11 DEF Wake, Aged
<1>12. CASE Sweep
  <2>1. UNCHANGED <<cpc, cflow, silent>>
    BY <1>12 DEF Sweep
  <2>2. chain' = chain \/ \A i \in DOMAIN chain' : i + At \in DOMAIN chain /\ chain'[i] = chain[i + At]
    BY <1>12, SweepCuts
  <2> QED
    BY <2>1, <2>2 DEF Aged
<1>13. CASE Check
  BY <1>13 DEF Check, Aged
<1>14. CASE Reread
  BY <1>14 DEF Reread, Aged
<1>15. CASE Hangup
  BY <1>15 DEF Hangup, Aged
<1>16. CASE Tick
  <2>1. /\ DOMAIN chain' = DOMAIN chain /\ UNCHANGED <<cpc, cflow>>
        /\ \A i \in DOMAIN chain : chain'[i] = [chain[i] EXCEPT !.age = Older(@)]
        /\ \A f \in Flow : silent'[f] = Older(silent[f])
    BY <1>16 DEF Tick
  <2>2. \A a, b \in 0..Cap : a >= b => Older(a) >= Older(b)
    BY CapFacts DEF Older, Min2
  <2>3. ASSUME NEW i \in DOMAIN chain
        PROVE  \/ cpc = "added" /\ chain'[i].flow = cflow
               \/ chain'[i].age >= silent'[chain'[i].flow]
    <3>1. chain[i] \in Entry
      BY <1>0, ElementOfSeq DEF TypeOK
    <3>2. chain'[i].flow = chain[i].flow /\ chain'[i].age = Older(chain[i].age)
      BY <2>1, <3>1 DEF Entry
    <3>3. silent[chain[i].flow] \in 0..Cap
      BY <1>0 DEF TypeOK
    <3> QED
      BY <1>0, <2>1, <2>2, <3>2, <3>3 DEF Aged
  <2> QED
    BY <2>1, <2>3 DEF Aged
<1>17. CASE UNCHANGED vars
  BY <1>17 DEF Aged
<1>18. CASE BeginWalk
  BY <1>18 DEF BeginWalk, Aged
<1> QED
  BY <1>1, <1>2, <1>3, <1>4, <1>5, <1>6, <1>7, <1>8, <1>9, <1>10, <1>11, <1>12, <1>13, <1>14, <1>15, <1>16, <1>17, <1>18 DEF Next, Classify, Write, Garbage

\* Every step lets the clock thread undo a shift before the next one.
LEMMA ClockedStep ==
  ASSUME IInv, Clocked, [Next]_vars
  PROVE  Clocked'
<1> USE DEF vars, stackVars, classifyVars, writeVars,
            timeVars, garbageVars, confVars
<1>0. lag \in 0..Cap /\ due \in 0..3 /\ Cap \in Nat /\ Expire \in Nat
  BY CapFacts, ClassifydAssumption DEF IInv, TypeOK, GarbagePeriod
<1>1. CASE Pop
  <2>1. UNCHANGED <<gpc, due, lag, clockdue>>
    BY <1>1 DEF Pop
  <2> QED
    BY <2>1 DEF Clocked
<1>2. CASE Receive
  <2>1. UNCHANGED <<gpc, due, lag, clockdue>>
    BY <1>2 DEF Receive
  <2> QED
    BY <2>1 DEF Clocked
<1>3. CASE NoMemory
  <2>1. UNCHANGED <<gpc, due, lag, clockdue>>
    BY <1>3 DEF NoMemory
  <2> QED
    BY <2>1 DEF Clocked
<1>4. CASE Insert
  <2>1. UNCHANGED <<gpc, due, lag, clockdue>>
    BY <1>4 DEF Insert
  <2> QED
    BY <2>1 DEF Clocked
<1>5. CASE Stamp
  <2>1. UNCHANGED <<gpc, due, lag, clockdue>>
    BY <1>5 DEF Stamp
  <2> QED
    BY <2>1 DEF Clocked
<1>6. CASE Test
  <2>1. UNCHANGED <<gpc, due, lag, clockdue>>
    BY <1>6 DEF Test
  <2> QED
    BY <2>1 DEF Clocked
<1>7. CASE Enqueue
  <2>1. UNCHANGED <<gpc, due, lag, clockdue>>
    BY <1>7 DEF Enqueue
  <2> QED
    BY <2>1 DEF Clocked
<1>8. CASE Look
  <2>1. UNCHANGED <<gpc, due, lag, clockdue>>
    BY <1>8 DEF Look
  <2> QED
    BY <2>1 DEF Clocked
<1>9. CASE Send
  <2>1. UNCHANGED <<gpc, due, lag, clockdue>>
    BY <1>9 DEF Send
  <2> QED
    BY <2>1 DEF Clocked
<1>10. CASE ReadClock
  BY <1>0, <1>10 DEF ReadClock, Clocked, GarbagePeriod
<1>11. CASE Wake
  <2>1. gpc = "sleep" /\ due = 0 /\ gpc' = "walk" /\ lag' = Min2(lag + Expire, Cap)
    BY <1>11 DEF Wake
  <2>2. lag <= 1
    BY <2>1 DEF Clocked
  <2> QED
    BY <1>0, <2>1, <2>2 DEF Clocked, Min2
<1>12. CASE Sweep
  BY <1>0, <1>12 DEF Sweep, Clocked, GarbagePeriod
<1>13. CASE Check
  BY <1>0, <1>13 DEF Check, Clocked, GarbagePeriod
<1>14. CASE Reread
  BY <1>0, <1>14 DEF Reread, Clocked, GarbagePeriod
<1>15. CASE Hangup
  BY <1>0, <1>15 DEF Hangup, Clocked, GarbagePeriod
<1>16. CASE Tick
  <2>1. /\ ~clockdue /\ clockdue' /\ gpc = "sleep" /\ due > 0 /\ due' = due - 1
        /\ lag' = Older(lag) /\ gpc' = gpc
    BY <1>16 DEF Tick
  <2>2. Older(0) <= 1
    BY <1>0 DEF Older, Min2
  <2> QED
    BY <1>0, <2>1, <2>2 DEF Clocked
<1>17. CASE UNCHANGED vars
  BY <1>17 DEF Clocked
<1>18. CASE BeginWalk
  BY <1>0, <1>18 DEF BeginWalk, Clocked, GarbagePeriod
<1> QED
  BY <1>1, <1>2, <1>3, <1>4, <1>5, <1>6, <1>7, <1>8, <1>9, <1>10, <1>11, <1>12, <1>13, <1>14, <1>15, <1>16, <1>17, <1>18 DEF Next, Classify, Write, Garbage

(***************************************************************************)
(* What the walk has passed is fresh, or just being inserted; at its end   *)
(* this is the whole chain.                                                *)
(***************************************************************************)
Walked ==
  /\ gpc = "sweep" => \A i \in DOMAIN chain : i < At => Fresh(chain[i].flow)
  /\ SilentFlowsGo

\* An entry that is not expired is fresh.
LEMMA KeptIsFresh ==
  ASSUME IInv, Aged, Clocked, Sweep, ~Expired
  PROVE  At \in DOMAIN chain /\ Fresh(chain[At].flow)
<1>1. /\ DOMAIN chain = 1..Len(chain) /\ Len(chain) \in Nat
      /\ \A j \in DOMAIN chain : chain[j].flow \in Flow /\ chain[j].age \in 0..Cap
  BY Entries DEF IInv
<1>2. At \in DOMAIN chain
  BY <1>1 DEF IInv, Walking, Sweep, At
<1>3. lag \in 0..Cap /\ Cap \in Nat /\ Expire \in Nat /\ chain[At].age \in 0..Cap
      /\ chain[At].flow \in Flow /\ silent \in [Flow -> 0..Cap]
  BY <1>1, <1>2, CapFacts, ClassifydAssumption DEF IInv, TypeOK
<1>4. /\ chain[At].age \in Nat /\ lag \in Nat /\ silent[chain[At].flow] \in Nat /\ Expire \in Nat
      /\ chain[At].age <= lag /\ lag <= Expire + 1
  <2>1. lag <= Expire + 1
    BY DEF Sweep, Clocked
  <2>2. silent[chain[At].flow] \in 0..Cap
    BY <1>3
  <2> QED
    BY <1>3, <2>1, <2>2 DEF Expired
<1>5. (cpc = "added" /\ chain[At].flow = cflow) \/ chain[At].age >= silent[chain[At].flow]
  BY <1>2 DEF Aged
<1> QED
  BY <1>2, <1>4, <1>5 DEF Fresh, Unstamped

\* A flow of the chain stays fresh while no time passes.
LEMMA FreshStep ==
  ASSUME IInv, [Next]_vars, ~Tick, NEW f \in Flow, InChain(f), Fresh(f)
  PROVE  Fresh(f)'
<1> USE DEF vars, stackVars, classifyVars, writeVars,
            timeVars, garbageVars, confVars
<1>1. CASE Stamp
  <2>1. silent \in [Flow -> 0..Cap] /\ UNCHANGED cflow
    BY <1>1 DEF IInv, TypeOK, Stamp
  <2>2. CASE f = cflow
    <3>1. silent'[f] = 0
      BY <1>1, <2>1, <2>2 DEF Stamp
    <3> QED
      BY <3>1, ClassifydAssumption DEF Fresh
  <2>3. CASE f # cflow
    <3>1. silent'[f] = silent[f]
      BY <1>1, <2>1, <2>3 DEF Stamp
    <3>2. silent[f] <= Expire + 1
      BY <2>3 DEF Fresh, Unstamped
    <3> QED
      BY <3>1, <3>2 DEF Fresh
  <2> QED
    BY <2>2, <2>3
<1>2. CASE Pop \/ Receive \/ NoMemory \/ Insert \/ Test \/ Enqueue
  <2>1. cpc # "added" /\ UNCHANGED silent
    BY <1>2 DEF Pop, Receive, NoMemory, Insert, Test, Enqueue
  <2> QED
    BY <2>1 DEF Fresh, Unstamped
<1>3. CASE Write \/ ReadClock \/ Garbage \/ Hangup \/ UNCHANGED vars
  <2>1. UNCHANGED <<cpc, cflow, silent>>
    BY <1>3 DEF Write, Look, Send, ReadClock, Garbage, Wake, BeginWalk, Sweep, Check, Reread, Hangup
  <2> QED
    BY <2>1 DEF Fresh, Unstamped
<1> QED
  BY <1>1, <1>2, <1>3 DEF Next, Classify

\* A step that leaves the walk and the flows of the chain leaves what is passed fresh.
LEMMA ElsewhereStep ==
  ASSUME IInv, Walked, [Next]_vars, ~Tick, UNCHANGED <<gpc, rest>>,
         Len(chain') = Len(chain), DOMAIN chain' = DOMAIN chain,
         \A i \in DOMAIN chain : chain'[i].flow = chain[i].flow
  PROVE  Walked'
<1>1. \A i \in DOMAIN chain : chain[i].flow \in Flow
  BY Entries DEF IInv
<1>2. ASSUME NEW i \in DOMAIN chain, Fresh(chain[i].flow)
      PROVE  Fresh(chain[i].flow)'
  <2>1. PICK f \in Flow : f = chain[i].flow
    BY <1>1
  <2>2. Fresh(f)'
    BY <1>2, <2>1, FreshStep DEF InChain
  <2>3. chain'[i].flow = f
    BY <2>1
  <2> QED
    BY <2>2, <2>3 DEF Fresh, Unstamped
<1> QED
  BY <1>2 DEF Walked, SilentFlowsGo, At, Fresh, Unstamped

\* Every step leaves what the walk has passed fresh.
LEMMA WalkedStep ==
  ASSUME IInv, Aged, Clocked, Walked, [Next]_vars
  PROVE  Walked'
<1> USE DEF vars, stackVars, classifyVars, writeVars,
            timeVars, garbageVars, confVars
<1>0. DOMAIN chain = 1..Len(chain) /\ Len(chain) \in Nat
  BY Entries DEF IInv
<1>1. CASE Pop \/ Receive \/ NoMemory \/ Test \/ Enqueue \/ Write \/ ReadClock \/ Hangup \/ UNCHANGED vars
  <2>1. UNCHANGED <<gpc, rest, chain>>
    BY <1>1 DEF Pop, Receive, NoMemory, Test, Enqueue, Write, Look, Send, ReadClock, Hangup
  <2>2. CASE Tick
    BY <2>1, <2>2 DEF Tick, Walked, SilentFlowsGo
  <2>3. CASE ~Tick
    BY <2>1, <2>3, ElsewhereStep
  <2> QED
    BY <2>2, <2>3
<1>2. CASE Insert
  <2>1. /\ DOMAIN chain' = 1..Len(chain) + 1 /\ Len(chain') = Len(chain) + 1
        /\ chain'[1].flow = cflow
        /\ \A i \in 2..Len(chain) + 1 : chain'[i] = chain[i - 1]
    BY <1>2, InsertLengthens
  <2>2. cpc = "new" /\ cpc' = "added" /\ UNCHANGED <<cflow, silent, gpc, rest>>
    BY <1>2 DEF Insert
  <2>3. ASSUME NEW i \in DOMAIN chain', i = 1 \/ Fresh(chain[i - 1].flow)
        PROVE  Fresh(chain[i].flow)'
    <3>1. CASE i = 1
      BY <2>1, <2>2, <3>1 DEF Fresh, Unstamped
    <3>2. CASE i # 1
      <4>1. chain'[i] = chain[i - 1]
        BY <1>0, <2>1, <3>2
      <4> QED
        BY <2>2, <2>3, <3>2, <4>1 DEF Fresh, Unstamped
    <3> QED
      BY <3>1, <3>2
  <2>4. At \in Int /\ At' = At + 1
    BY <1>0, <2>1, <2>2 DEF IInv, TypeOK, At
  <2>5. ASSUME gpc = "sweep", NEW i \in DOMAIN chain', i < At'
        PROVE  Fresh(chain[i].flow)'
    <3>1. CASE i = 1
      BY <2>3, <3>1
    <3>2. CASE i # 1
      <4>1. i - 1 \in DOMAIN chain /\ i - 1 < At
        BY <1>0, <2>1, <2>4, <2>5, <3>2
      <4>2. Fresh(chain[i - 1].flow)
        BY <2>5, <4>1 DEF Walked
      <4> QED
        BY <2>3, <4>2
    <3> QED
      BY <3>1, <3>2
  <2>6. ASSUME gpc = "check", NEW i \in DOMAIN chain'
        PROVE  Fresh(chain[i].flow)'
    <3>1. CASE i = 1
      BY <2>3, <3>1
    <3>2. CASE i # 1
      <4>1. i - 1 \in DOMAIN chain
        BY <1>0, <2>1, <3>2
      <4>2. Fresh(chain[i - 1].flow)
        BY <2>6, <4>1 DEF Walked, SilentFlowsGo
      <4> QED
        BY <2>3, <4>2
    <3> QED
      BY <3>1, <3>2
  <2>7. gpc' = gpc
    BY <2>2
  <2> QED
    BY <2>5, <2>6, <2>7 DEF Walked, SilentFlowsGo, Fresh, Unstamped
<1>3. CASE Stamp
  <2>1. /\ chain \in Seq(Entry) /\ DOMAIN chain' = DOMAIN chain /\ UNCHANGED <<gpc, rest>>
        /\ chain' = [i \in DOMAIN chain |->
             IF chain[i].flow = cflow THEN [chain[i] EXCEPT !.age = lag] ELSE chain[i]]
    BY <1>3 DEF Stamp, IInv, TypeOK
  <2>2. \A i \in DOMAIN chain : chain'[i].flow = chain[i].flow
    <3>1. \A i \in DOMAIN chain : chain[i] \in Entry
      BY <2>1, ElementOfSeq
    <3> QED
      BY <2>1, <3>1 DEF Entry
  <2>3. Len(chain') = Len(chain)
    BY <1>0, <2>1, TypeStep, LenProperties DEF TypeOK
  <2>4. CASE Tick
    BY <2>4, <2>1 DEF Tick, Walked, SilentFlowsGo
  <2>5. CASE ~Tick
    BY <2>1, <2>2, <2>3, <2>5, ElsewhereStep
  <2> QED
    BY <2>4, <2>5
<1>4. CASE Wake \/ Check \/ Reread \/ Tick
  <2>1. gpc' \notin {"sweep", "check"}
    BY <1>4 DEF Wake, Check, Reread, Tick
  <2> QED
    BY <2>1 DEF Walked, SilentFlowsGo
<1>5. CASE BeginWalk
  <2>1. chain' = chain /\ rest' = Len(chain) /\ (gpc' = "check" => chain = <<>>)
    BY <1>5 DEF BeginWalk
  <2>2. At' = 1 /\ DOMAIN chain' = 1..Len(chain)
    BY <1>0, <2>1 DEF At
  <2>3. gpc' = "check" => DOMAIN chain' = {}
    BY <2>1
  <2> QED
    BY <2>2, <2>3 DEF Walked, SilentFlowsGo
<1>6. CASE Sweep
  <2>1. /\ gpc = "sweep" /\ rest \in 1..Len(chain) /\ rest' = rest - 1
        /\ (gpc' = "check" => rest' = 0) /\ UNCHANGED <<cpc, cflow, silent>>
    BY <1>6 DEF Sweep, StillToWalk, IInv, Walking
  <2>2. CASE Expired
    <3>1. Len(chain') = rest - 1 /\ DOMAIN chain' = 1..rest - 1
      BY <1>6, <2>2, SweepCuts
    <3>2. At' = 1
      BY <2>1, <3>1 DEF At
    <3> QED
      BY <1>0, <2>1, <3>1, <3>2 DEF Walked, SilentFlowsGo
  <2>3. CASE ~Expired
    <3>1. chain' = chain
      BY <1>6, <2>3, SweepCuts
    <3>2. At \in DOMAIN chain /\ Fresh(chain[At].flow)
      BY <1>6, <2>3, KeptIsFresh
    <3>3. ASSUME NEW i \in DOMAIN chain, i <= At
          PROVE  Fresh(chain[i].flow)'
      <4>1. Fresh(chain[i].flow)
        BY <1>0, <2>1, <3>2, <3>3 DEF Walked
      <4> QED
        BY <2>1, <3>1, <4>1 DEF Fresh, Unstamped
    <3>4. At' = At + 1 /\ (rest' = 0 => At = Len(chain))
      BY <1>0, <2>1, <3>1 DEF At
    <3> QED
      BY <1>0, <2>1, <3>1, <3>2, <3>3, <3>4 DEF Walked, SilentFlowsGo, Fresh, Unstamped
  <2> QED
    BY <2>2, <2>3
<1> QED
  BY <1>1, <1>2, <1>3, <1>4, <1>5, <1>6 DEF Next, Classify, Garbage

\* When the walk is over, the chain holds no flow that was silent for longer than
\* time_expire and a step of the clock, but for the one that is just being inserted.
THEOREM SweepsForget == Spec => []SilentFlowsGo
<1>1. Init => Aged /\ Clocked /\ Walked
  BY DEF Init, Aged, Clocked, Walked, SilentFlowsGo, GarbagePeriod
<1>2. IInv /\ Aged /\ Clocked /\ Walked /\ [Next]_vars => (Aged /\ Clocked /\ Walked)'
  BY AgedStep, ClockedStep, WalkedStep
<1>3. Walked => SilentFlowsGo
  BY DEF Walked
<1> QED
  BY PathInvariant, <1>1, <1>2, <1>3, PTL DEF Spec
=============================================================================
