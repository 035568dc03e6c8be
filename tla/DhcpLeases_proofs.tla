------------------------- MODULE DhcpLeases_proofs -------------------------
(***************************************************************************)
(* What dhcpleases guarantees for any number of changes, rewrites, lines   *)
(* and starts, proved from one inductive invariant in four parts: the      *)
(* types, what a sleeping or writing daemon knows of the lease file, what  *)
(* the hosts file holds at each step, and what the DNS server has read.    *)
(***************************************************************************)
EXTENDS DhcpLeases, SequenceTheorems, TLAPS

Line == [base : Nat] \cup [own : Nat]

Types ==
  /\ vers \in Seq(Nat) /\ vers # <<>>
  /\ leasefd \in 1..Len(vers)
  /\ knote \in BOOLEAN /\ missed \in BOOLEAN
  /\ raced \in BOOLEAN /\ hup \in BOOLEAN /\ dnshup \in BOOLEAN
  /\ fflags \subseteq {"write", "gone"}
  /\ pc \in {"gone", "open", "load", "stat", "cut", "seek", "write", "tell", "kevent", "wait"}
  /\ leases \in Nat /\ shown \in Nat
  /\ hosts \in Seq(Line) /\ others \in Seq(Line)
  /\ hostssize \in Nat /\ offset \in Nat
  /\ gen \in Nat

(***************************************************************************)
(* What was read is what the lease file holds, on the way to the hosts     *)
(* file and then there; a daemon that sleeps has the right file open, or   *)
(* an event pending that says so.                                          *)
(***************************************************************************)
Watching ==
  /\ pc = "load" /\ ~missed => leasefd = Current
  /\ pc \in {"stat", "cut", "seek", "write"} /\ ~missed => leasefd = Current /\ leases = Version
  /\ pc \in {"tell", "kevent"} /\ ~missed => leasefd = Current /\ shown = Version
  /\ pc = "wait" => knote
  /\ pc = "wait" /\ ~missed =>
       /\ "gone" \in fflags \/ leasefd = Current
       /\ fflags # {} \/ shown = Version

(***************************************************************************)
(* The lines of others head the hosts file until it is cut after them, and *)
(* the own lines follow; a rewrite meets a sleeping daemon and waits for   *)
(* its signal.                                                             *)
(***************************************************************************)
Headed == Len(hosts) >= Len(others) /\ \A i \in 1..Len(others) : hosts[i] = others[i]

Writing ==
  /\ pc = "gone" => ~hup
  /\ ~raced /\ hup => pc = "wait" /\ hosts = others
  /\ ~raced /\ ~hup =>
       /\ pc # "gone" => hostssize = Len(others)
       /\ pc \in {"open", "load", "stat", "cut"} => Headed
       /\ pc \in {"seek", "write"} => hosts = others
       /\ pc = "write" => offset = Len(others)
       /\ pc \in {"tell", "kevent", "wait"} => hosts = others \o Own(shown)

Telling == pc \in {"kevent", "wait"} /\ ~raced /\ ~hup /\ ~dnshup => shown \in dns

IInv == Types /\ Watching /\ Writing /\ Telling

-----------------------------------------------------------------------------
(* The contents of files. *)

\* The lines of others, as they are rewritten.
LEMMA Bases ==
  ASSUME NEW g \in Nat, NEW k \in Nat
  PROVE  /\ Base(g, k) \in Seq(Line)
         /\ Len(Base(g, k)) = k
         /\ \A i \in 1..k : Base(g, k)[i] = [base |-> g]
<1>1. \A i \in 1..k : [base |-> g] \in Line
  BY DEF Line
<1>2. Base(g, k) \in [1..k -> Line]
  BY <1>1 DEF Base
<1> QED
  BY <1>2 DEF Base

\* The lines of the daemon: at least one, the first of its version.
LEMMA Owns ==
  ASSUME NEW v \in Nat
  PROVE  /\ Own(v) \in Seq(Line)
         /\ Len(Own(v)) \in Nat \ {0}
         /\ Own(v)[1] = [own |-> v]
<1> DEFINE n == 1 + (v % 2)
<1>1. n \in Nat \ {0}
  OBVIOUS
<1>2. [own |-> v] \in Line
  BY DEF Line
<1> HIDE DEF n
<1>3. Own(v) = [i \in 1..n |-> [own |-> v]]
  BY DEF Own, n
<1>4. Own(v) \in [1..n -> Line]
  BY <1>2, <1>3
<1> QED
  BY <1>1, <1>3, <1>4

\* ftruncate makes a file of lines, also of one that was shorter.
LEMMA Cuts ==
  ASSUME NEW f \in Seq(Line), NEW k \in Nat
  PROVE  Truncated(f, k) \in Seq(Line)
<1>1. \A i \in DOMAIN f : f[i] \in Line
  BY ElementOfSeq
<1>2. Hole \in Line
  BY DEF Hole, Line
<1>3. Truncated(f, k) \in [1..k -> Line]
  BY <1>1, <1>2 DEF Truncated
<1> QED
  BY <1>3

\* A file cut behind the lines that head it is these lines.
LEMMA CutsBehindHead ==
  ASSUME NEW f \in Seq(Line), NEW g \in Seq(Line),
         Len(f) >= Len(g), \A i \in 1..Len(g) : f[i] = g[i]
  PROVE  Truncated(f, Len(g)) = g
<1>1. /\ DOMAIN f = 1..Len(f) /\ Len(f) \in Nat
      /\ DOMAIN g = 1..Len(g) /\ Len(g) \in Nat
  BY LenProperties
<1>2. \A i \in 1..Len(g) : i \in DOMAIN f
  BY <1>1
<1>3. g = [i \in 1..Len(g) |-> g[i]]
  BY <1>1
<1> QED
  BY <1>2, <1>3 DEF Truncated

\* What is written at the end of a file follows it.
LEMMA Writes ==
  ASSUME NEW f \in Seq(Line), NEW k \in Nat, NEW lines \in Seq(Line)
  PROVE  /\ WrittenAt(f, k, lines) \in Seq(Line)
         /\ k = Len(f) => WrittenAt(f, k, lines) = f \o lines
<1> DEFINE n == IF Len(f) > k + Len(lines) THEN Len(f) ELSE k + Len(lines)
           line(i) == IF i - k \in DOMAIN lines THEN lines[i - k]
                      ELSE IF i \in DOMAIN f THEN f[i] ELSE Hole
<1>1. /\ Len(f) \in Nat /\ DOMAIN f = 1..Len(f)
      /\ Len(lines) \in Nat /\ DOMAIN lines = 1..Len(lines)
  BY LenProperties
<1>2. n \in Nat
  BY <1>1
<1>3. \A i \in 1..n : line(i) \in Line
  <2>1. Hole \in Line
    BY DEF Hole, Line
  <2>2. \A i \in DOMAIN f : f[i] \in Line
    BY ElementOfSeq
  <2>3. \A i \in DOMAIN lines : lines[i] \in Line
    BY ElementOfSeq
  <2> QED
    BY <2>1, <2>2, <2>3
<1>4. WrittenAt(f, k, lines) = [i \in 1..n |-> line(i)]
  BY DEF WrittenAt
<1>5. WrittenAt(f, k, lines) \in Seq(Line)
  <2> HIDE DEF n, line
  <2> QED
    BY <1>2, <1>3, <1>4
<1>6. ASSUME k = Len(f) PROVE WrittenAt(f, k, lines) = f \o lines
  <2>1. n = Len(f) + Len(lines)
    BY <1>1, <1>6
  <2>2. /\ f \o lines \in Seq(Line) /\ Len(f \o lines) = n
        /\ \A i \in 1..n : (f \o lines)[i] = IF i <= Len(f) THEN f[i] ELSE lines[i - Len(f)]
    BY <2>1, ConcatProperties
  <2>3. \A i \in 1..n : line(i) = (f \o lines)[i]
    BY <1>1, <1>6, <2>1, <2>2
  <2>4. f \o lines = [i \in 1..n |-> (f \o lines)[i]]
    BY <2>2, LenProperties
  <2> QED
    BY <1>4, <2>3, <2>4
<1> QED
  BY <1>5, <1>6

-----------------------------------------------------------------------------
(* The steps. *)

\* There is a lease file, and every one holds a version.
LEMMA Leases ==
  ASSUME Types
  PROVE  /\ Current \in Nat \ {0} /\ Version \in Nat
         /\ \A i \in 1..Len(vers) : vers[i] \in Nat
<1>1. Len(vers) \in Nat /\ Len(vers) # 0
  BY EmptySeq, LenProperties DEF Types
<1>2. \A i \in 1..Len(vers) : vers[i] \in Nat
  BY ElementOfSeq DEF Types
<1> QED
  BY <1>1, <1>2 DEF Current, Version

\* The invariant holds before the first start.
LEMMA InitIInv == Init => IInv
<1> SUFFICES ASSUME Init PROVE IInv
  OBVIOUS
<1>1. PICK k \in 1..MaxBase : gen = 1 /\ hosts = Base(1, k) /\ others = hosts
  BY DEF Init
<1>2. vers \in Seq(Nat) /\ vers # <<>> /\ Len(vers) = 1
  BY DEF Init
<1>3. hosts \in Seq(Line) /\ others \in Seq(Line)
  <2>1. k \in Nat
    BY DhcpLeasesAssumption
  <2> QED
    BY <1>1, <2>1, Bases
<1>4. leasefd \in 1..Len(vers)
  BY <1>2 DEF Init
<1>5. /\ knote \in BOOLEAN /\ missed \in BOOLEAN /\ raced \in BOOLEAN
      /\ hup \in BOOLEAN /\ dnshup \in BOOLEAN
      /\ fflags \subseteq {"write", "gone"} /\ pc = "gone"
  BY DEF Init
<1>6. leases \in Nat /\ shown \in Nat /\ hostssize \in Nat /\ offset \in Nat
  BY DEF Init
<1>7. Types
  BY <1>1, <1>2, <1>3, <1>4, <1>5, <1>6 DEF Types
<1> QED
  BY <1>7 DEF Init, IInv, Watching, Writing, Telling

\* Types are kept, by what the writes and the world do to the two files.
LEMMA TypesKept ==
  ASSUME Types, [Next]_vars
  PROVE  Types'
<1> USE DEF leaseVars, hostsVars, dnsVars
<1>0. /\ Len(vers) \in Nat \ {0} /\ Version \in Nat
      /\ \A i \in 1..Len(vers) : vers[i] \in Nat
  BY Leases DEF Current
<1>1. CASE Open
  <2>1. Current \in 1..Len(vers)
    BY <1>0 DEF Current
  <2> QED
    BY <1>1, <2>1 DEF Open, Types
<1>2. CASE LoadDhcp
  BY <1>0, <1>2 DEF LoadDhcp, Types
<1>3. CASE WriteStat
  <2>1. Len(hosts) \in Nat
    BY LenProperties DEF Types
  <2> QED
    BY <1>3, <2>1 DEF WriteStat, SizeAfter, Min2, Types
<1>4. CASE WriteCut
  <2>1. hosts' \in Seq(Line)
    BY <1>4, Cuts DEF WriteCut, Types
  <2> QED
    BY <1>4, <2>1 DEF WriteCut, Types
<1>5. CASE WriteSeek
  <2>1. Len(hosts) \in Nat
    BY LenProperties DEF Types
  <2> QED
    BY <1>5, <2>1 DEF WriteSeek, Types
<1>6. CASE WriteLines
  <2>1. hosts' \in Seq(Line)
    BY <1>6, Writes, Owns DEF WriteLines, Types
  <2> QED
    BY <1>6, <2>1 DEF WriteLines, Types
<1>7. CASE SignalProcess
  BY <1>7 DEF SignalProcess, Types
<1>8. CASE Register
  BY <1>8 DEF Register, Types
<1>9. CASE Deliver
  BY <1>9 DEF Deliver, Lost, Types
<1>10. CASE HandleSighup
  <2>1. Len(hosts) \in Nat
    BY LenProperties DEF Types
  <2> QED
    BY <1>10, <2>1 DEF HandleSighup, HupSize, Types
<1>11. CASE Start
  <2>1. Len(hosts) \in Nat
    BY LenProperties DEF Types
  <2> QED
    BY <1>11, <2>1 DEF Start, Types
<1>12. CASE HandleSigterm
  BY <1>12 DEF HandleSigterm, Types
<1>13. CASE Append1
  <2>1. /\ vers' \in Seq(Nat) /\ Len(vers') = Len(vers)
    BY <1>0, <1>13, ExceptSeq DEF Append1, Types, Current, Version
  <2>2. vers' # <<>>
    BY <1>0, <2>1, EmptySeq
  <2> QED
    BY <1>13, <2>1, <2>2 DEF Append1, Types
<1>14. CASE Replace
  <2>1. vers' \in Seq(Nat) /\ vers' # <<>> /\ Len(vers') = Len(vers) + 1
    <3>1. vers' = Append(vers, Version + 1) /\ Version + 1 \in Nat
      BY <1>0, <1>14 DEF Replace
    <3>2. vers \in Seq(Nat)
      BY DEF Types
    <3> HIDE DEF Version
    <3> QED
      BY <3>1, <3>2, AppendProperties
  <2> QED
    BY <1>0, <1>14, <2>1 DEF Replace, Types
<1>15. CASE Rewrite
  <2>1. gen' \in Nat
    BY <1>15 DEF Rewrite, Types
  <2>2. PICK k \in 1..MaxBase : hosts' = Base(gen', k) /\ others' = hosts'
    BY <1>15 DEF Rewrite
  <2>3. k \in Nat
    BY DhcpLeasesAssumption
  <2>4. hosts' \in Seq(Line) /\ others' \in Seq(Line)
    BY <2>1, <2>2, <2>3, Bases
  <2> QED
    BY <1>15, <2>1, <2>4 DEF Rewrite, Types
<1>16. CASE DnsReads
  BY <1>16 DEF DnsReads, Types
<1>17. CASE UNCHANGED vars
  BY <1>17 DEF vars, Types
<1> QED
  BY <1>1, <1>2, <1>3, <1>4, <1>5, <1>6, <1>7, <1>8, <1>9, <1>10, <1>11, <1>12,
     <1>13, <1>14, <1>15, <1>16, <1>17 DEF Next, Daemon

\* What the daemon knows of the lease file is kept.
LEMMA WatchingKept ==
  ASSUME Types, Watching, [Next]_vars
  PROVE  Watching'
<1> USE DEF leaseVars, hostsVars, dnsVars
<1>0. /\ Len(vers) \in Nat \ {0} /\ Version \in Nat
      /\ \A i \in 1..Len(vers) : vers[i] \in Nat
  BY Leases DEF Current
<1>1. CASE Open
  BY <1>1 DEF Open, Watching, Current, Version
<1>2. CASE LoadDhcp
  BY <1>2 DEF LoadDhcp, Watching, Current, Version
<1>3. CASE WriteStat \/ WriteCut \/ WriteSeek
  BY <1>3 DEF WriteStat, WriteCut, WriteSeek, Watching, Current, Version
<1>4. CASE WriteLines
  BY <1>4 DEF WriteLines, Watching, Current, Version
<1>5. CASE SignalProcess
  BY <1>5 DEF SignalProcess, Watching, Current, Version
<1>6. CASE Register
  BY <1>6 DEF Register, Watching, Current, Version
<1>7. CASE Deliver
  BY <1>7 DEF Deliver, Lost, Watching, Current, Version
<1>8. CASE HandleSighup
  BY <1>8 DEF HandleSighup, Watching, Current, Version
<1>9. CASE Start \/ HandleSigterm
  BY <1>9 DEF Start, HandleSigterm, Watching, Current, Version
<1>10. CASE Append1
  <2>1. Current' = Current
    BY <1>0, <1>10, ExceptSeq DEF Append1, Types, Current, Version
  <2> QED
    BY <1>10, <2>1 DEF Append1, Unwatched, Types, Watching
<1>11. CASE Replace
  BY <1>11 DEF Replace, Unwatched, Types, Watching
<1>12. CASE Rewrite \/ DnsReads \/ UNCHANGED vars
  BY <1>12 DEF Rewrite, DnsReads, vars, Watching, Current, Version
<1> QED
  BY <1>1, <1>2, <1>3, <1>4, <1>5, <1>6, <1>7, <1>8, <1>9, <1>10, <1>11, <1>12
     DEF Next, Daemon

\* What a file of the lines of others and the leases has at its head and
\* behind it.
LEMMA Sections ==
  ASSUME Types, NEW v \in Nat, hosts = others \o Own(v)
  PROVE  /\ Headed
         /\ \E i \in DOMAIN hosts : hosts[i] = [own |-> v]
<1>1. /\ others \in Seq(Line) /\ Len(others) \in Nat
      /\ DOMAIN hosts = 1..Len(hosts)
  BY LenProperties DEF Types
<1>2. /\ Own(v) \in Seq(Line) /\ Len(Own(v)) \in Nat \ {0}
      /\ Own(v)[1] = [own |-> v]
  BY Owns
<1>3. /\ Len(hosts) = Len(others) + Len(Own(v))
      /\ \A i \in 1..Len(others) + Len(Own(v)) :
           hosts[i] = IF i <= Len(others) THEN others[i] ELSE Own(v)[i - Len(others)]
  <2>1. ASSUME NEW f \in Seq(Line), NEW g \in Seq(Line)
        PROVE  /\ Len(f \o g) = Len(f) + Len(g)
               /\ \A i \in 1..Len(f) + Len(g) :
                    (f \o g)[i] = IF i <= Len(f) THEN f[i] ELSE g[i - Len(f)]
    BY ConcatProperties
  <2> QED
    BY <1>1, <1>2, <2>1
<1>4. Headed
  BY <1>1, <1>2, <1>3 DEF Headed
<1>5. Len(others) + 1 \in DOMAIN hosts /\ hosts[Len(others) + 1] = Own(v)[1]
  <2>1. /\ Len(others) + 1 \in 1..Len(others) + Len(Own(v))
        /\ ~(Len(others) + 1 <= Len(others))
        /\ (Len(others) + 1) - Len(others) = 1
    BY <1>1, <1>2
  <2> QED
    BY <1>1, <1>3, <2>1
<1> QED
  BY <1>2, <1>4, <1>5

\* What the hosts file holds is kept.
LEMMA WritingKept ==
  ASSUME Types, Writing, [Next]_vars
  PROVE  Writing'
<1> USE DEF leaseVars, hostsVars, dnsVars
<1>0. Len(hosts) \in Nat /\ Len(others) \in Nat
  BY LenProperties DEF Types
<1>1. CASE Open \/ LoadDhcp
  BY <1>1 DEF Open, LoadDhcp, Writing, Headed
<1>2. CASE WriteStat
  <2>1. ~raced => hostssize' = Len(others)
    BY <1>0, <1>2 DEF WriteStat, SizeAfter, Min2, Writing, Headed
  <2> QED
    BY <1>2, <2>1 DEF WriteStat, Writing, Headed
<1>3. CASE WriteCut
  <2>1. ~raced => hosts' = others
    BY <1>3, CutsBehindHead DEF WriteCut, Writing, Headed, Types
  <2> QED
    BY <1>3, <2>1 DEF WriteCut, Writing
<1>4. CASE WriteSeek
  <2>1. ~raced => offset' = Len(others)
    BY <1>4 DEF WriteSeek, Writing
  <2> QED
    BY <1>4, <2>1 DEF WriteSeek, Writing
<1>5. CASE WriteLines
  <2>1. ~raced => hosts' = others \o Own(leases)
    <3>1. others \in Seq(Line)
      BY DEF Types
    <3>2. Own(leases) \in Seq(Line)
      BY Owns DEF Types
    <3>3. WrittenAt(others, Len(others), Own(leases)) = others \o Own(leases)
      BY <1>0, <3>1, <3>2, Writes
    <3>4. ~raced => hosts = others /\ offset = Len(others)
      BY <1>5 DEF WriteLines, Writing
    <3> QED
      BY <1>5, <3>3, <3>4 DEF WriteLines
  <2> QED
    BY <1>5, <2>1 DEF WriteLines, Writing
<1>6. CASE SignalProcess \/ Register
  BY <1>6 DEF SignalProcess, Register, Writing
<1>7. CASE Deliver
  <2>1. ~raced' => Headed
    BY <1>7, Sections DEF Deliver, Writing, Types
  <2> QED
    BY <1>7, <2>1 DEF Deliver, Lost, Writing, Headed
<1>8. CASE HandleSighup
  <2>1. ~raced => pc = "wait" /\ hosts = others
    BY <1>8 DEF HandleSighup, Writing
  <2>2. ~raced => hostssize' = Len(others) /\ Headed
    BY <1>0, <1>8, <2>1 DEF HandleSighup, HupSize, Headed
  <2> QED
    BY <1>8, <2>1, <2>2 DEF HandleSighup, Writing, Headed
<1>9. CASE Start
  <2>1. others' = hosts' /\ hostssize' = Len(others') /\ Headed'
    BY <1>0, <1>9 DEF Start, Headed
  <2> QED
    BY <1>9, <2>1 DEF Start, Writing
<1>10. CASE HandleSigterm
  BY <1>10 DEF HandleSigterm, Writing
<1>11. CASE Append1 \/ Replace
  <2>1. UNCHANGED <<pc, hostssize, offset, hosts, others, raced, hup, shown>>
    BY <1>11 DEF Append1, Replace
  <2> QED
    BY <2>1 DEF Writing, Headed
<1>12. CASE Rewrite
  BY <1>12 DEF Rewrite, Types, Writing
<1>13. CASE DnsReads \/ UNCHANGED vars
  BY <1>13 DEF DnsReads, vars, Writing, Headed
<1> QED
  BY <1>1, <1>2, <1>3, <1>4, <1>5, <1>6, <1>7, <1>8, <1>9, <1>10, <1>11, <1>12,
     <1>13 DEF Next, Daemon

\* What the server has read is kept.
LEMMA TellingKept ==
  ASSUME Types, Writing, Telling, [Next]_vars
  PROVE  Telling'
<1> USE DEF leaseVars, hostsVars, dnsVars
<1>1. CASE Open \/ LoadDhcp \/ WriteStat \/ WriteCut \/ WriteSeek \/ WriteLines
  BY <1>1 DEF Open, LoadDhcp, WriteStat, WriteCut, WriteSeek, WriteLines, Telling
<1>2. CASE SignalProcess \/ Register
  BY <1>2 DEF SignalProcess, Register, Telling
<1>3. CASE Deliver \/ Start \/ HandleSigterm
  BY <1>3 DEF Deliver, Lost, Start, HandleSigterm, Telling
<1>4. CASE HandleSighup
  BY <1>4 DEF HandleSighup, Writing, Telling
<1>5. CASE Append1 \/ Replace
  BY <1>5 DEF Append1, Replace, Telling
<1>6. CASE Rewrite
  BY <1>6 DEF Rewrite, Telling
<1>7. CASE DnsReads
  <2> SUFFICES ASSUME pc \in {"kevent", "wait"}, ~raced, ~hup
               PROVE  shown \in dns'
    BY <1>7 DEF DnsReads, Telling
  <2>1. shown \in Nat /\ hosts = others \o Own(shown)
    BY DEF Writing, Types
  <2>2. PICK i \in DOMAIN hosts : hosts[i] = [own |-> shown]
    BY <2>1, Sections
  <2>3. "own" \in DOMAIN hosts[i] /\ hosts[i].own = shown
    BY <2>2
  <2> QED
    BY <1>7, <2>2, <2>3 DEF DnsReads
<1>8. CASE UNCHANGED vars
  BY <1>8 DEF vars, Telling
<1> QED
  BY <1>1, <1>2, <1>3, <1>4, <1>5, <1>6, <1>7, <1>8 DEF Next, Daemon

-----------------------------------------------------------------------------
(* The results. *)

\* The four parts hold in every state, whatever the order of changes of the
\* leases, rewrites of the hosts file, signals, restarts and reads.
THEOREM FileInvariant == Spec => []IInv
<1>1. IInv /\ [Next]_vars => IInv'
  BY TypesKept, WatchingKept, WritingKept, TellingKept DEF IInv
<1> QED
  BY <1>1, InitIInv, PTL DEF Spec

\* A daemon that sleeps leaves the hosts file as it was at the last rewrite, or at
\* its own start if that was later, with its lines behind, unless a rewrite met it
\* awake (write_status, handle_signal, main).  After a restart the lines an earlier
\* process left are among the first.
THEOREM HostsStayWhole == Spec => []HostsWhole
<1>1. IInv => HostsWhole
  BY DEF IInv, Writing, HostsWhole, Quiet
<1> QED
  BY <1>1, FileInvariant, PTL

\* A daemon that sleeps has shown the leases as they are, unless they changed
\* between its reading them and the next registration of the event (main).
THEOREM LeasesAreShown == Spec => []ShownUnlessMissed
<1>1. IInv => ShownUnlessMissed
  BY DEF IInv, Watching, ShownUnlessMissed, Quiet
<1> QED
  BY <1>1, FileInvariant, PTL

\* A server without a signal pending has read what a sleeping daemon wrote last,
\* unless a rewrite met the daemon awake (signal_process after the file was
\* written).
THEOREM ServerIsTold == Spec => []DnsKnows
<1>1. IInv => DnsKnows
  BY DEF IInv, Telling, DnsKnows, Quiet
<1> QED
  BY <1>1, FileInvariant, PTL

=============================================================================
