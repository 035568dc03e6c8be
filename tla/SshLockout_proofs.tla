-------------------------- MODULE SshLockout_proofs ---------------------------
(***************************************************************************)
(* What sshlockout_pf does with the failures it reads, for any addresses,  *)
(* limit, log and times at which the pruning thread runs.                  *)
(***************************************************************************)
EXTENDS SshLockout, WellFoundedInduction, TLAPS

\* Of numbers not above n one is greatest.
LEMMA GreatestOf ==
  ASSUME NEW n \in Nat, NEW S, S \subseteq 0..n, S # {}
  PROVE  \E i \in S : \A j \in S : j <= i
<1> DEFINE T == {n - i : i \in S}
<1>1. T \subseteq Nat /\ T # {}
  <2>1. \A i \in S : i \in Nat /\ n - i \in Nat
    OBVIOUS
  <2>2. PICK i \in S : TRUE
    OBVIOUS
  <2>3. n - i \in T
    OBVIOUS
  <2> QED
    BY <2>1, <2>3
<1> HIDE DEF T
<1>2. PICK x \in T : \A y \in T : <<y, x>> \notin OpToRel(<, Nat)
  BY <1>1, WFMin, NatLessThanWellFounded, Zenon
<1>3. ASSUME NEW y \in T
      PROVE  ~ (y < x)
  BY <1>1, <1>2, Zenon DEF OpToRel
<1>4. PICK i \in S : x = n - i
  BY <1>2 DEF T
<1>5. ASSUME NEW j \in S
      PROVE  j <= i
  <2>1. n - j \in T
    BY DEF T
  <2>2. ~ (n - j < n - i)
    BY <2>1, <1>3, <1>4
  <2> QED
    BY <2>2
<1> QED
  BY <1>5

-----------------------------------------------------------------------------
(* The invariant. *)

Sshlog ==
  [host : Host, attempts : Nat \ {0}, inactive : BOOLEAN, old : BOOLEAN]

TypeOK ==
  /\ DOMAIN lockouts \subseteq 0..lines
  /\ \A i \in DOMAIN lockouts : lockouts[i] \in Sshlog
  /\ lockouts = [i \in DOMAIN lockouts |-> lockouts[i]]
  /\ pc \in {"reading", "found", "missing"}
  /\ line \in Host \X Service
  /\ blocked \subseteq Service \X Host
  /\ lines \in Nat
  /\ failed \in [Host -> Nat]
  /\ counting \subseteq Host

\* A record is made once per line.
NumberIsFree == pc = "missing" => lines \notin DOMAIN lockouts

\* main keeps a pointer to an active record of the line's host.
FoundIsActive ==
  pc = "found" /\ sshlog \in DOMAIN lockouts => sshlog \in Active(line[1])

\* The scan leaves behind no active record at the limit but the one it found.
\* A new one is there however low the limit is.
BelowLimit ==
  \A i \in DOMAIN lockouts :
    \/ lockouts[i].inactive
    \/ lockouts[i].attempts < MaxAttempts
    \/ lockouts[i].attempts = 1
    \/ pc = "found" /\ i = sshlog

\* What is counted is not yet a day old.
CountedAreRecent ==
  \A i \in DOMAIN lockouts : lockouts[i].host \in counting => ~lockouts[i].old

\* h is blocked, or main is about to do it.
Caught(h) ==
  \/ \E s \in Service : <<s, h>> \in blocked
  \/ pc = "found" /\ line[1] = h

\* The oldest active record of a host counts every failure since the last
\* success, but for a first one that main is about to record.
FailuresAreCounted ==
  \A h \in counting :
    \/ Caught(h)
    \/ failed[h] = 0
    \/ failed[h] = 1 /\ pc = "missing" /\ line[1] = h
    \/ \E i \in Active(h) : lockouts[i].attempts >= failed[h]

IInv ==
  /\ TypeOK
  /\ NumberIsFree
  /\ FoundIsActive
  /\ BelowLimit
  /\ CountedAreRecent
  /\ FailuresAreCounted

-----------------------------------------------------------------------------
(* The scan. *)

\* Counting an attempt changes the attempts of the records passed by one.
LEMMA CountedInFacts ==
  ASSUME TypeOK, NEW S
  PROVE  LET t == CountedIn(S) IN
         /\ t = [i \in DOMAIN lockouts |-> t[i]]
         /\ DOMAIN t = DOMAIN lockouts
         /\ \A i \in DOMAIN lockouts :
              /\ t[i] \in Sshlog
              /\ t[i].host = lockouts[i].host
              /\ t[i].inactive = lockouts[i].inactive
              /\ t[i].old = lockouts[i].old
              /\ t[i].attempts = lockouts[i].attempts + (IF i \in S THEN 1 ELSE 0)
<1>1. ASSUME NEW i \in DOMAIN lockouts
      PROVE  /\ CountedIn(S)[i] = IF i \in S
                                  THEN [lockouts[i] EXCEPT !.attempts = @ + 1]
                                  ELSE lockouts[i]
             /\ lockouts[i] \in Sshlog
  BY DEF CountedIn, TypeOK
<1> QED
  BY <1>1 DEF CountedIn, Sshlog

\* A scan that finds no record at the limit has passed all of them.
LEMMA NoneAtLimit ==
  ASSUME TypeOK, NEW h \in Host, AtLimit(h) = {}
  PROVE  /\ Passed(h) = Active(h)
         /\ \A i \in Active(h) : lockouts[i].attempts + 1 < MaxAttempts
<1> DEFINE S == {i \in Active(h) : lockouts[i].attempts + 1 >= MaxAttempts}
<1>1. S \subseteq 0..lines /\ lines \in Nat
  BY DEF Active, TypeOK
<1>2. ASSUME NEW i \in Active(h)
      PROVE  i \in Nat /\ lockouts[i].attempts \in Nat
  BY DEF Active, TypeOK, Sshlog
<1>3. S = {}
  <2>1. SUFFICES ASSUME S # {}
                 PROVE  FALSE
    OBVIOUS
  <2>2. PICK i \in S : \A j \in S : j <= i
    <3> HIDE DEF S
    <3> QED
      BY <1>1, <2>1, GreatestOf
  <2>3. i \in AtLimit(h)
    BY <1>2, <2>2, SshLockoutAssumption DEF AtLimit
  <2> QED
    BY <2>3
<1> QED
  BY <1>2, <1>3, SshLockoutAssumption DEF Passed

\* Of the records a scan passes all but the one it stops at stay below the limit.
LEMMA OneAtLimit ==
  ASSUME TypeOK, NEW h \in Host, NEW i \in AtLimit(h)
  PROVE  /\ i \in Active(h)
         /\ i \in Passed(h)
         /\ \A j \in Passed(h) \ {i} : lockouts[j].attempts + 1 < MaxAttempts
<1>1. ASSUME NEW j \in Active(h)
      PROVE  j \in Nat /\ lockouts[j].attempts \in Nat
  BY DEF Active, TypeOK, Sshlog
<1>2. ASSUME NEW j \in AtLimit(h)
      PROVE  j = i
  BY <1>1, <1>2, SshLockoutAssumption DEF AtLimit
<1>3. i \in Active(h) /\ i \in Passed(h)
  BY <1>1, <1>2 DEF AtLimit, Passed
<1>4. ASSUME NEW j \in Passed(h) \ {i}
      PROVE  lockouts[j].attempts + 1 < MaxAttempts
  BY <1>1, <1>3 DEF AtLimit, Passed
<1> QED
  BY <1>3, <1>4

-----------------------------------------------------------------------------
(* The steps. *)

\* The database is empty in the beginning.
LEMMA InitIsGood == Init => IInv
  BY DEF Init, IInv, TypeOK, NumberIsFree, FoundIsActive, BelowLimit,
         CountedAreRecent, FailuresAreCounted

\* A failure is counted in every active record up to the first at the limit.
LEMMA FailureKeeps ==
  ASSUME IInv, NEW h \in Host, NEW s \in Service, ReadFailure(h, s)
  PROVE  IInv'
<1> USE DEF IInv
<1>1. /\ pc = "reading" /\ lines' = lines + 1 /\ line' = <<h, s>>
      /\ failed' = [failed EXCEPT ![h] = @ + 1]
      /\ lockouts' = CountedIn(Passed(h))
      /\ blocked' = blocked /\ counting' = counting
  BY DEF ReadFailure
<1>2. \/ AtLimit(h) = {} /\ pc' = "missing" /\ sshlog' = sshlog
      \/ pc' = "found" /\ sshlog' \in AtLimit(h)
  BY DEF ReadFailure
<1>3. /\ lockouts' = [i \in DOMAIN lockouts |-> lockouts'[i]]
      /\ DOMAIN lockouts' = DOMAIN lockouts
      /\ \A i \in DOMAIN lockouts :
           /\ lockouts'[i] \in Sshlog
           /\ lockouts'[i].host = lockouts[i].host
           /\ lockouts'[i].inactive = lockouts[i].inactive
           /\ lockouts'[i].old = lockouts[i].old
           /\ lockouts'[i].attempts =
                lockouts[i].attempts + (IF i \in Passed(h) THEN 1 ELSE 0)
  BY <1>1, CountedInFacts
<1>4. /\ lines \in Nat /\ DOMAIN lockouts \subseteq 0..lines
      /\ failed \in [Host -> Nat] /\ counting \subseteq Host
      /\ \A i \in DOMAIN lockouts : lockouts[i].attempts \in Nat
  BY DEF TypeOK, Sshlog
<1>5. \A g : Active(g)' = Active(g)
  BY <1>3 DEF Active
<1>6. TypeOK'
  BY <1>1, <1>2, <1>3, <1>4 DEF TypeOK
<1>7. NumberIsFree'
  BY <1>1, <1>3, <1>4 DEF NumberIsFree
<1>8. FoundIsActive'
  BY <1>1, <1>2, <1>5, OneAtLimit DEF FoundIsActive
<1>9. BelowLimit'
  <2> SUFFICES ASSUME NEW i \in DOMAIN lockouts, ~lockouts[i].inactive,
                      ~(pc' = "found" /\ i = sshlog')
               PROVE  lockouts'[i].attempts < MaxAttempts \/ lockouts'[i].attempts = 1
    BY <1>3 DEF BelowLimit
  <2>1. CASE i \in Passed(h)
    <3>1. lockouts[i].attempts + 1 < MaxAttempts
      BY <1>2, <2>1, NoneAtLimit, OneAtLimit
    <3> QED
      BY <1>3, <2>1, <3>1
  <2>2. CASE i \notin Passed(h)
    BY <1>1, <1>3, <1>4, <2>2 DEF BelowLimit
  <2> QED
    BY <2>1, <2>2
<1>10. CountedAreRecent'
  BY <1>1, <1>3 DEF CountedAreRecent
<1>11. FailuresAreCounted'
  <2> SUFFICES ASSUME NEW g \in counting, ~Caught(g)',
                      failed'[g] # 0,
                      ~(failed'[g] = 1 /\ pc' = "missing" /\ line'[1] = g)
               PROVE  \E i \in Active(g) : lockouts'[i].attempts >= failed'[g]
    BY <1>1, <1>5 DEF FailuresAreCounted
  <2>1. ~Caught(g)
    BY <1>1 DEF Caught
  <2>2. CASE g # h
    <3>1. PICK i \in Active(g) : lockouts[i].attempts >= failed[g]
      BY <1>1, <1>4, <2>1, <2>2 DEF FailuresAreCounted
    <3>2. i \in DOMAIN lockouts
      BY DEF Active
    <3> QED
      BY <1>1, <1>3, <1>4, <2>2, <3>1, <3>2
  <2>3. CASE g = h
    <3>1. pc' = "missing" /\ AtLimit(h) = {}
      BY <1>1, <1>2, <2>3 DEF Caught
    <3>2. failed'[h] = failed[h] + 1 /\ failed[h] # 0
      BY <1>1, <1>4, <2>3, <3>1
    <3>3. PICK i \in Active(h) : lockouts[i].attempts >= failed[h]
      BY <1>1, <2>1, <2>3, <3>2 DEF FailuresAreCounted
    <3>4. i \in DOMAIN lockouts /\ i \in Passed(h)
      BY <3>1, NoneAtLimit DEF Active
    <3> QED
      BY <1>3, <1>4, <2>3, <3>2, <3>3, <3>4
  <2> QED
    BY <2>2, <2>3
<1> QED
  BY <1>6, <1>7, <1>8, <1>9, <1>10, <1>11

\* A success retires the newest active record and starts the count again.
LEMMA SuccessKeeps ==
  ASSUME IInv, NEW h \in Host, NEW s \in Service, ReadSuccess(h, s)
  PROVE  IInv'
<1> USE DEF IInv
<1>1. /\ pc = "reading" /\ lines' = lines + 1 /\ line' = <<h, s>>
      /\ failed' = [failed EXCEPT ![h] = 0]
      /\ blocked' = blocked /\ counting' = counting /\ sshlog' = sshlog
  BY DEF ReadSuccess
<1>2. /\ lines \in Nat /\ DOMAIN lockouts \subseteq 0..lines
      /\ failed \in [Host -> Nat] /\ counting \subseteq Host
      /\ \A i \in DOMAIN lockouts : lockouts[i].attempts \in Nat
  BY DEF TypeOK, Sshlog
<1>3. CASE Active(h) = {} /\ pc' = "missing" /\ lockouts' = lockouts
  <2>1. \A g : Active(g)' = Active(g)
    BY <1>3 DEF Active
  <2>2. TypeOK'
    BY <1>1, <1>2, <1>3 DEF TypeOK
  <2>3. NumberIsFree' /\ FoundIsActive' /\ CountedAreRecent'
    BY <1>1, <1>2, <1>3 DEF NumberIsFree, FoundIsActive, CountedAreRecent
  <2>4. BelowLimit'
    BY <1>1, <1>3 DEF BelowLimit
  <2>5. FailuresAreCounted'
    BY <1>1, <1>2, <1>3, <2>1 DEF FailuresAreCounted, Caught
  <2> QED
    BY <2>2, <2>3, <2>4, <2>5
<1>4. ASSUME NEW i \in Active(h),
             lockouts' = [CountedIn({i}) EXCEPT ![i].inactive = TRUE],
             pc' = pc
      PROVE  IInv'
  <2>1. i \in DOMAIN lockouts /\ lockouts[i].host = h
    BY DEF Active
  <2>2. /\ lockouts' = [j \in DOMAIN lockouts |-> lockouts'[j]]
        /\ DOMAIN lockouts' = DOMAIN lockouts
        /\ lockouts'[i].inactive
        /\ \A j \in DOMAIN lockouts :
             /\ lockouts'[j] \in Sshlog
             /\ lockouts'[j].host = lockouts[j].host
             /\ lockouts'[j].old = lockouts[j].old
        /\ \A j \in DOMAIN lockouts \ {i} : lockouts'[j] = lockouts[j]
    <3>1. \A t : [t EXCEPT ![i].inactive = TRUE] =
                   [j \in DOMAIN t |-> IF j = i THEN [t[i] EXCEPT !.inactive = TRUE]
                                       ELSE t[j]]
      OBVIOUS
    <3>2. ASSUME NEW j \in DOMAIN lockouts \ {i}
          PROVE  CountedIn({i})[j] = lockouts[j]
      BY DEF CountedIn
    <3>3. CountedIn({i})[i] \in Sshlog /\ CountedIn({i})[i].host = lockouts[i].host
          /\ CountedIn({i})[i].old = lockouts[i].old
      BY <2>1, CountedInFacts
    <3>4. DOMAIN CountedIn({i}) = DOMAIN lockouts
      BY DEF CountedIn
    <3>5. lockouts' = [j \in DOMAIN lockouts |->
                         IF j = i THEN [CountedIn({i})[i] EXCEPT !.inactive = TRUE]
                         ELSE CountedIn({i})[j]]
      BY <1>4, <3>1, <3>4
    <3>6. \A r \in Sshlog : LET q == [r EXCEPT !.inactive = TRUE] IN
                              /\ q \in Sshlog /\ q.inactive
                              /\ q.host = r.host /\ q.old = r.old
      BY DEF Sshlog
    <3>7. \A j \in DOMAIN lockouts : lockouts[j] \in Sshlog
      BY DEF TypeOK
    <3> QED
      BY <2>1, <3>2, <3>3, <3>5, <3>6, <3>7
  <2>3. \A g : g # h => Active(g)' = Active(g)
    BY <2>1, <2>2 DEF Active
  <2>4. TypeOK'
    <3>1. /\ DOMAIN lockouts' \subseteq 0..lines'
          /\ \A j \in DOMAIN lockouts' : lockouts'[j] \in Sshlog
      BY <1>1, <1>2, <2>2
    <3>2. /\ pc' = "reading" /\ line' \in Host \X Service
          /\ lines' \in Nat /\ failed' \in [Host -> Nat]
          /\ blocked' \subseteq Service \X Host
          /\ counting' \subseteq Host
      BY <1>1, <1>2, <1>4 DEF TypeOK
    <3> QED
      BY <2>2, <3>1, <3>2 DEF TypeOK
  <2>5. NumberIsFree' /\ FoundIsActive'
    BY <1>1, <1>4 DEF NumberIsFree, FoundIsActive
  <2>6. CountedAreRecent'
    BY <1>1, <2>2 DEF CountedAreRecent
  <2>7. BelowLimit'
    BY <1>1, <1>4, <2>2 DEF BelowLimit
  <2>8. FailuresAreCounted'
    <3> SUFFICES ASSUME NEW g \in counting, ~Caught(g)', failed'[g] # 0
                 PROVE  \E j \in Active(g)' : lockouts'[j].attempts >= failed'[g]
      BY <1>1 DEF FailuresAreCounted
    <3>1. g # h /\ failed'[g] = failed[g] /\ ~Caught(g)
      BY <1>1, <1>2, <1>4 DEF Caught
    <3>2. PICK j \in Active(g) : lockouts[j].attempts >= failed[g]
      BY <1>1, <3>1 DEF FailuresAreCounted
    <3>3. j \in DOMAIN lockouts \ {i}
      BY <2>1, <3>1 DEF Active
    <3> QED
      BY <2>2, <2>3, <3>1, <3>2, <3>3
  <2> QED
    BY <2>4, <2>5, <2>6, <2>7, <2>8
<1> QED
  BY <1>3, <1>4 DEF ReadSuccess

\* The record added counts the failures from this one on; without memory for
\* it the address is not counted any more.
LEMMA AddRecordKeeps ==
  ASSUME IInv, AddRecord
  PROVE  IInv'
<1> USE DEF IInv
<1>1. /\ pc = "missing" /\ pc' = "reading" /\ lines' = lines /\ line' = line
      /\ failed' = failed /\ blocked' = blocked
  BY DEF AddRecord
<1>2. /\ lines \in Nat /\ DOMAIN lockouts \subseteq 0..lines
      /\ lines \notin DOMAIN lockouts
      /\ line[1] \in Host /\ failed \in [Host -> Nat] /\ counting \subseteq Host
  BY <1>1 DEF TypeOK, NumberIsFree
<1>3. NumberIsFree' /\ FoundIsActive'
  BY <1>1 DEF NumberIsFree, FoundIsActive
<1>4. CASE lockouts' = lockouts /\ counting' = counting \ {line[1]}
  <2>1. \A g : Active(g)' = Active(g)
    BY <1>4 DEF Active
  <2>2. TypeOK' /\ BelowLimit' /\ CountedAreRecent'
    BY <1>1, <1>2, <1>4 DEF TypeOK, BelowLimit, CountedAreRecent
  <2>3. FailuresAreCounted'
    BY <1>1, <1>4, <2>1 DEF FailuresAreCounted, Caught
  <2> QED
    BY <1>3, <2>2, <2>3
<1>5. CASE /\ counting' = counting
           /\ lockouts' = [i \in DOMAIN lockouts \cup {lines} |->
                             IF i = lines
                             THEN [host |-> line[1], attempts |-> 1,
                                   inactive |-> FALSE, old |-> FALSE]
                             ELSE lockouts[i]]
  <2>1. /\ DOMAIN lockouts' = DOMAIN lockouts \cup {lines}
        /\ lockouts'[lines] = [host |-> line[1], attempts |-> 1,
                               inactive |-> FALSE, old |-> FALSE]
        /\ \A i \in DOMAIN lockouts : lockouts'[i] = lockouts[i]
        /\ lockouts' = [i \in DOMAIN lockouts' |-> lockouts'[i]]
    BY <1>2, <1>5
  <2>2. lockouts'[lines] \in Sshlog
    BY <1>2, <2>1 DEF Sshlog
  <2>3. TypeOK'
    BY <1>1, <1>2, <1>5, <2>1, <2>2 DEF TypeOK
  <2>4. BelowLimit'
    BY <1>1, <2>1 DEF BelowLimit
  <2>5. CountedAreRecent'
    BY <1>5, <2>1 DEF CountedAreRecent
  <2>6. FailuresAreCounted'
    <3> SUFFICES ASSUME NEW g \in counting, ~Caught(g)', failed[g] # 0
                 PROVE  \E i \in Active(g)' : lockouts'[i].attempts >= failed[g]
      BY <1>1, <1>5 DEF FailuresAreCounted
    <3>1. CASE failed[g] = 1 /\ line[1] = g
      <4>1. lines \in Active(g)'
        BY <2>1, <3>1 DEF Active
      <4> QED
        BY <2>1, <3>1, <4>1
    <3>2. CASE ~(failed[g] = 1 /\ line[1] = g)
      <4>1. ~Caught(g)
        BY <1>1 DEF Caught
      <4>2. PICK i \in Active(g) : lockouts[i].attempts >= failed[g]
        BY <1>1, <3>2, <4>1 DEF FailuresAreCounted
      <4>3. i \in DOMAIN lockouts /\ i \in Active(g)'
        BY <2>1, <4>2 DEF Active
      <4> QED
        BY <2>1, <4>2, <4>3
    <3> QED
      BY <3>1, <3>2
  <2> QED
    BY <1>3, <2>3, <2>4, <2>5, <2>6
<1> QED
  BY <1>4, <1>5 DEF AddRecord

\* The record found is retired and its address blocked.
LEMMA LockOutKeeps ==
  ASSUME IInv, LockOut
  PROVE  IInv'
<1> USE DEF IInv
<1>1. /\ pc = "found" /\ pc' = "reading" /\ lines' = lines /\ line' = line
      /\ failed' = failed /\ counting' = counting /\ sshlog' = sshlog
      /\ blocked' = blocked \cup {<<line[2], line[1]>>}
      /\ lockouts' = [i \in DOMAIN lockouts |->
                        IF i = sshlog THEN [lockouts[i] EXCEPT !.inactive = TRUE]
                        ELSE lockouts[i]]
  BY DEF LockOut
<1>2. \A i \in DOMAIN lockouts : lockouts[i] \in Sshlog
  BY DEF TypeOK
<1>3. line \in Host \X Service
  BY DEF TypeOK
<1>4. /\ lockouts' = [i \in DOMAIN lockouts |-> lockouts'[i]]
      /\ DOMAIN lockouts' = DOMAIN lockouts
      /\ \A i \in DOMAIN lockouts :
           /\ lockouts'[i] \in Sshlog
           /\ lockouts'[i].host = lockouts[i].host
           /\ lockouts'[i].old = lockouts[i].old
           /\ i = sshlog => lockouts'[i].inactive
           /\ i # sshlog => lockouts'[i] = lockouts[i]
  <2>1. \A r \in Sshlog : LET q == [r EXCEPT !.inactive = TRUE] IN
                            /\ q \in Sshlog /\ q.inactive
                            /\ q.host = r.host /\ q.old = r.old
    BY DEF Sshlog
  <2> QED
    BY <1>1, <1>2, <2>1
<1>5. TypeOK'
  <2>1. blocked' \subseteq Service \X Host
    BY <1>1, <1>3 DEF TypeOK
  <2> QED
    BY <1>1, <1>4, <2>1 DEF TypeOK
<1>6. NumberIsFree' /\ FoundIsActive'
  BY <1>1 DEF NumberIsFree, FoundIsActive
<1>7. BelowLimit'
  BY <1>1, <1>4 DEF BelowLimit
<1>8. CountedAreRecent'
  BY <1>1, <1>4 DEF CountedAreRecent
<1>9. FailuresAreCounted'
  <2> SUFFICES ASSUME NEW g \in counting, ~Caught(g)', failed[g] # 0
               PROVE  \E i \in Active(g)' : lockouts'[i].attempts >= failed[g]
    BY <1>1 DEF FailuresAreCounted
  <2>1. line[1] # g /\ ~Caught(g)
    BY <1>1, <1>3 DEF Caught
  <2>2. PICK i \in Active(g) : lockouts[i].attempts >= failed[g]
    BY <1>1, <2>1 DEF FailuresAreCounted
  <2>3. i \in DOMAIN lockouts /\ i # sshlog
    BY <1>1, <2>1, <2>2 DEF FoundIsActive, Active
  <2>4. i \in Active(g)'
    BY <1>4, <2>2, <2>3 DEF Active
  <2> QED
    BY <1>4, <2>2, <2>3, <2>4
<1> QED
  BY <1>5, <1>6, <1>7, <1>8, <1>9

\* Pruning frees retired and old records, none of which is counted on.
LEMMA PruneKeeps ==
  ASSUME IInv, Prune
  PROVE  IInv'
<1> USE DEF IInv
<1>1. /\ lockouts' = [i \in Kept |-> lockouts[i]]
      /\ UNCHANGED <<pc, sshlog, line, blocked, lines, failed, counting>>
  BY DEF Prune
<1>2. /\ Kept \subseteq DOMAIN lockouts /\ DOMAIN lockouts' = Kept
      /\ \A i \in Kept : lockouts'[i] = lockouts[i]
  BY <1>1 DEF Kept
<1>3. TypeOK'
  BY <1>1, <1>2 DEF TypeOK
<1>4. NumberIsFree' /\ BelowLimit' /\ CountedAreRecent'
  BY <1>1, <1>2 DEF NumberIsFree, BelowLimit, CountedAreRecent
<1>5. FoundIsActive'
  BY <1>1, <1>2 DEF FoundIsActive, Active
<1>6. ASSUME NEW g \in counting, NEW i \in Active(g)
      PROVE  i \in Kept /\ i \in Active(g)'
  BY <1>2 DEF CountedAreRecent, Active, Kept
<1>7. FailuresAreCounted'
  BY <1>1, <1>2, <1>6 DEF FailuresAreCounted, Caught
<1> QED
  BY <1>3, <1>4, <1>5, <1>7

\* An address one of whose records gets old is not counted any more.
LEMMA AgeKeeps ==
  ASSUME IInv, NEW n \in DOMAIN lockouts, Age(n)
  PROVE  IInv'
<1> USE DEF IInv
<1>1. /\ lockouts' = [j \in DOMAIN lockouts |->
                        IF j <= n THEN [lockouts[j] EXCEPT !.old = TRUE]
                        ELSE lockouts[j]]
      /\ counting' = counting \ {lockouts[j].host : j \in {k \in DOMAIN lockouts : k <= n}}
      /\ UNCHANGED <<pc, sshlog, line, blocked, lines, failed>>
  BY DEF Age
<1>2. \A i \in DOMAIN lockouts : lockouts[i] \in Sshlog
  BY DEF TypeOK
<1>3. /\ lockouts' = [i \in DOMAIN lockouts |-> lockouts'[i]]
      /\ DOMAIN lockouts' = DOMAIN lockouts
      /\ \A i \in DOMAIN lockouts :
           /\ lockouts'[i] \in Sshlog
           /\ lockouts'[i].host = lockouts[i].host
           /\ lockouts'[i].inactive = lockouts[i].inactive
           /\ lockouts'[i].attempts = lockouts[i].attempts
           /\ ~(i <= n) => lockouts'[i] = lockouts[i]
  <2>1. \A r \in Sshlog : LET q == [r EXCEPT !.old = TRUE] IN
                            /\ q \in Sshlog /\ q.inactive = r.inactive
                            /\ q.host = r.host /\ q.attempts = r.attempts
    BY DEF Sshlog
  <2> QED
    BY <1>1, <1>2, <2>1
<1>4. \A g : Active(g)' = Active(g)
  BY <1>3 DEF Active
<1>5. TypeOK'
  BY <1>1, <1>3 DEF TypeOK
<1>6. NumberIsFree' /\ FoundIsActive'
  BY <1>1, <1>3, <1>4 DEF NumberIsFree, FoundIsActive
<1>7. BelowLimit'
  BY <1>1, <1>3 DEF BelowLimit
<1>8. CountedAreRecent'
  <2> SUFFICES ASSUME NEW i \in DOMAIN lockouts, lockouts[i].host \in counting'
               PROVE  ~lockouts'[i].old
    BY <1>3 DEF CountedAreRecent
  <2>1. ~(i <= n) /\ lockouts[i].host \in counting
    BY <1>1
  <2> QED
    BY <1>3, <2>1 DEF CountedAreRecent
<1>9. FailuresAreCounted'
  <2>1. counting' \subseteq counting /\ \A g : Active(g) \subseteq DOMAIN lockouts
    BY <1>1 DEF Active
  <2> QED
    BY <1>1, <1>3, <1>4, <2>1 DEF FailuresAreCounted, Caught
<1> QED
  BY <1>5, <1>6, <1>7, <1>8, <1>9

\* Every step of the two threads keeps the invariant.
LEMMA StepKeeps == IInv /\ [Next]_vars => IInv'
<1> SUFFICES ASSUME IInv, [Next]_vars
             PROVE  IInv'
  OBVIOUS
<1>1. ASSUME NEW h \in Host, NEW s \in Service,
             ReadFailure(h, s) \/ ReadSuccess(h, s)
      PROVE  IInv'
  BY <1>1, FailureKeeps, SuccessKeeps
<1>2. CASE AddRecord
  BY <1>2, AddRecordKeeps
<1>3. CASE LockOut
  BY <1>3, LockOutKeeps
<1>4. CASE Prune
  BY <1>4, PruneKeeps
<1>5. ASSUME NEW n \in DOMAIN lockouts, Age(n)
      PROVE  IInv'
  BY <1>5, AgeKeeps
<1>6. CASE UNCHANGED vars
  BY <1>6 DEF vars, IInv, TypeOK, NumberIsFree, FoundIsActive, BelowLimit,
              CountedAreRecent, FailuresAreCounted, Caught, Active
<1> QED
  BY <1>1, <1>2, <1>3, <1>4, <1>5, <1>6 DEF Next

-----------------------------------------------------------------------------
(* The theorems. *)

\* The records and what main knows of them between its two steps stay related as
\* IInv says, whatever the log holds and whenever the other thread prunes.
THEOREM RecordInvariant == Spec => []IInv
<1>1. Init => IInv
  BY InitIsGood
<1>2. IInv /\ [Next]_vars => IInv'
  BY StepKeeps
<1> QED
  BY <1>1, <1>2, PTL DEF Spec

\* A host that fails MaxAttempts times in a row (twice when the limit is one) is
\* blocked, unless calloc refused a record of it or a record got a day old.
THEOREM FailuresBlock == Spec => []FailuresLockOut
<1>1. IInv => FailuresLockOut
  <2> SUFFICES ASSUME IInv, pc = "reading", NEW h \in counting,
                      failed[h] >= MaxAttempts, failed[h] > 1,
                      ~ \E s \in Service : <<s, h>> \in blocked
               PROVE  FALSE
    BY DEF FailuresLockOut
  <2>1. failed[h] \in Nat
    BY DEF IInv, TypeOK
  <2>2. PICK i \in Active(h) : lockouts[i].attempts >= failed[h]
    BY <2>1 DEF IInv, FailuresAreCounted, Caught
  <2>3. i \in DOMAIN lockouts /\ lockouts[i].attempts \in Nat /\ ~lockouts[i].inactive
    BY DEF Active, IInv, TypeOK, Sshlog
  <2>4. lockouts[i].attempts < MaxAttempts \/ lockouts[i].attempts = 1
    BY <2>3 DEF IInv, BelowLimit
  <2> QED
    BY <2>1, <2>2, <2>3, <2>4, SshLockoutAssumption
<1> QED
  BY <1>1, RecordInvariant, PTL

\* The pruning thread, which may run after doaction has given the lock back, does
\* not free the record doaction is about to mark before that is a day old.
THEOREM MarkedRecordIsKept == Spec => FoundRecordIsKept
<1>1. IInv /\ [Next]_vars =>
        [ /\ pc = "found"
          /\ sshlog \in DOMAIN lockouts
          /\ ~lockouts[sshlog].old
          => sshlog \in DOMAIN lockouts' ]_vars
  <2> SUFFICES ASSUME IInv, Next, pc = "found", sshlog \in DOMAIN lockouts,
                      ~lockouts[sshlog].old
               PROVE  sshlog \in DOMAIN lockouts'
    OBVIOUS
  <2>1. CASE Prune
    <3>1. sshlog \in Kept
      BY DEF IInv, FoundIsActive, Active, Kept
    <3> QED
      BY <2>1, <3>1 DEF Prune
  <2>2. CASE LockOut
    BY <2>2 DEF LockOut
  <2>3. ASSUME NEW n \in DOMAIN lockouts, Age(n)
        PROVE  sshlog \in DOMAIN lockouts'
    BY <2>3 DEF Age
  <2> QED
    BY <2>1, <2>2, <2>3 DEF Next, ReadFailure, ReadSuccess, AddRecord
<1> QED
  BY <1>1, RecordInvariant, PTL DEF Spec, FoundRecordIsKept

===============================================================================
