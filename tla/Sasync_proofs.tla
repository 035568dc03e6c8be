---------------------------- MODULE Sasync_proofs ----------------------------
(***************************************************************************)
(* What the daemons of a group know of each other, and that a follower's   *)
(* database becomes its MASTER's, proved for any number of gateways,       *)
(* associations, connections and any trouble; and what they believe,       *)
(* proved for any number of role changes and refused connections.          *)
(***************************************************************************)
EXTENDS Sasync, SequenceTheorems, FiniteSetTheorems, WellFoundedInduction, TLAPS

\* Of numbers not above n one is greatest.
LEMMA GreatestOf ==
  ASSUME NEW n \in Nat, NEW S, S \subseteq 0..n, S # {}
  PROVE  \E i \in S : \A j \in S : j <= i
<1> DEFINE T == {n - i : i \in S}
<1>1. T \subseteq Nat /\ T # {}
  <2>1. \A i \in S : i \in Nat /\ n - i \in Nat
    OBVIOUS
  <2>2. PICK i \in S : TRUE
    OBVIOUS
  <2>3. n - i \in T
    OBVIOUS
  <2> QED
    BY <2>1, <2>3
<1> HIDE DEF T
<1>2. PICK x \in T : \A y \in T : <<y, x>> \notin OpToRel(<, Nat)
  BY <1>1, WFMin, NatLessThanWellFounded, Zenon
<1>3. ASSUME NEW y \in T
      PROVE  ~ (y < x)
  BY <1>1, <1>2, Zenon DEF OpToRel
<1>4. PICK i \in S : x = n - i
  BY <1>2 DEF T
<1>5. ASSUME NEW j \in S
      PROVE  j <= i
  <2>1. n - j \in T
    BY DEF T
  <2>2. ~ (n - j < n - i)
    BY <2>1, <1>3, <1>4
  <2> QED
    BY <2>2
<1> QED
  BY <1>5

-----------------------------------------------------------------------------
(***************************************************************************)
(* What a sequence of messages says.  RoleKind are the types that carry a  *)
(* role, Asking those that are answered with one.                          *)
(***************************************************************************)
RoleKind == {"state", "ack"}
Asking == {"state"}

\* The last message of a type in T carries the role r.
Ends(s, T, r) ==
  \E i \in 1..Len(s) : /\ s[i].t \in T /\ s[i].r = r
                       /\ \A j \in 1..Len(s) : i < j => s[j].t \notin T
Lacks(s, T) == \A i \in 1..Len(s) : s[i].t \notin T

\* What a daemon adds to a queue while its role goes from r to q: roles are
\* the new one, a new role is told, data is only sent in the role it has.
Says(u, r, q) ==
  /\ \A i \in 1..Len(u) : u[i].t \in RoleKind => u[i].r = q
  /\ \A i \in 1..Len(u) : u[i].t = "data" => u[i].by = q /\ r = q
  /\ r # q => ~Lacks(u, Asking)

LEMMA EndsLonger ==
  ASSUME NEW s \in Seq(Message), NEW u \in Seq(Message), NEW T, NEW r,
         Ends(s, T, r), Lacks(u, T)
  PROVE  Ends(s \o u, T, r)
<1>1. PICK i \in 1..Len(s) : /\ s[i].t \in T /\ s[i].r = r
                             /\ \A j \in 1..Len(s) : i < j => s[j].t \notin T
  BY DEF Ends
<1>2. /\ Len(s \o u) = Len(s) + Len(u) /\ Len(s) \in Nat /\ Len(u) \in Nat
      /\ \A j \in 1..Len(s) + Len(u) :
           (s \o u)[j] = IF j <= Len(s) THEN s[j] ELSE u[j - Len(s)]
  BY ConcatProperties, LenProperties
<1>3. i \in 1..Len(s \o u) /\ (s \o u)[i] = s[i]
  BY <1>2
<1>4. ASSUME NEW j \in 1..Len(s \o u), i < j
      PROVE  (s \o u)[j].t \notin T
  <2>1. CASE j <= Len(s)
    BY <2>1, <1>1, <1>2, <1>4
  <2>2. CASE ~ (j <= Len(s))
    <3>1. j - Len(s) \in 1..Len(u) /\ (s \o u)[j] = u[j - Len(s)]
      BY <2>2, <1>2
    <3> QED
      BY <3>1 DEF Lacks
  <2> QED
    BY <2>1, <2>2
<1> QED
  BY <1>1, <1>3, <1>4 DEF Ends

LEMMA EndsNew ==
  ASSUME NEW s \in Seq(Message), NEW u \in Seq(Message), NEW T, NEW r,
         ~Lacks(u, T), \A i \in 1..Len(u) : u[i].t \in T => u[i].r = r
  PROVE  Ends(s \o u, T, r)
<1> DEFINE P == {i \in 1..Len(u) : u[i].t \in T}
<1>1. P # {}
  BY DEF Lacks
<1>2. Len(u) \in Nat /\ P \subseteq 0..Len(u)
  BY LenProperties
<1>3. PICK k \in P : \A j \in P : j <= k
  <2> HIDE DEF P
  <2> QED
    BY <1>1, <1>2, GreatestOf
<1>4. /\ Len(s \o u) = Len(s) + Len(u) /\ Len(s) \in Nat
      /\ \A j \in 1..Len(s) + Len(u) :
           (s \o u)[j] = IF j <= Len(s) THEN s[j] ELSE u[j - Len(s)]
  BY ConcatProperties, LenProperties
<1>5. k + Len(s) \in 1..Len(s \o u) /\ (s \o u)[k + Len(s)] = u[k]
  BY <1>2, <1>4
<1>6. ASSUME NEW j \in 1..Len(s \o u), k + Len(s) < j
      PROVE  (s \o u)[j].t \notin T
  <2>1. j - Len(s) \in 1..Len(u) /\ (s \o u)[j] = u[j - Len(s)] /\ ~ (j - Len(s) <= k)
    BY <1>2, <1>4, <1>6
  <2> QED
    BY <2>1, <1>3
<1> QED
  BY <1>3, <1>5, <1>6 DEF Ends

LEMMA LacksBoth ==
  ASSUME NEW s \in Seq(Message), NEW u \in Seq(Message), NEW T
  PROVE  Lacks(s \o u, T) <=> Lacks(s, T) /\ Lacks(u, T)
<1>1. /\ Len(s \o u) = Len(s) + Len(u) /\ Len(s) \in Nat /\ Len(u) \in Nat
      /\ \A j \in 1..Len(s) + Len(u) :
           (s \o u)[j] = IF j <= Len(s) THEN s[j] ELSE u[j - Len(s)]
  BY ConcatProperties, LenProperties
<1>2. \A j \in 1..Len(s) : j \in 1..Len(s \o u) /\ (s \o u)[j] = s[j]
  BY <1>1
<1>3. \A j \in 1..Len(u) : j + Len(s) \in 1..Len(s \o u) /\ (s \o u)[j + Len(s)] = u[j]
  BY <1>1
<1>4. \A j \in 1..Len(s \o u) : \/ j \in 1..Len(s) /\ (s \o u)[j] = s[j]
                                \/ j - Len(s) \in 1..Len(u) /\ (s \o u)[j] = u[j - Len(s)]
  BY <1>1
<1> QED
  BY <1>2, <1>3, <1>4 DEF Lacks

\* Taking the first message.
LEMMA TailFacts ==
  ASSUME NEW s \in Seq(Message), s # <<>>, NEW T, NEW r
  PROVE  /\ Lacks(s, T) <=> Head(s).t \notin T /\ Lacks(Tail(s), T)
         /\ Ends(s, T, r) <=> \/ Ends(Tail(s), T, r)
                              \/ Lacks(Tail(s), T) /\ Head(s).t \in T /\ Head(s).r = r
<1>1. /\ Len(s) \in Nat \ {0} /\ Len(Tail(s)) = Len(s) - 1 /\ Head(s) = s[1]
      /\ \A i \in 1..Len(Tail(s)) : Tail(s)[i] = s[i + 1]
  BY HeadTailProperties, EmptySeq, LenProperties
<1>2. \A i \in 1..Len(Tail(s)) : i + 1 \in 1..Len(s) /\ Tail(s)[i] = s[i + 1]
  BY <1>1
<1>3. \A i \in 1..Len(s) : i = 1 \/ (i - 1 \in 1..Len(Tail(s)) /\ s[i] = Tail(s)[i - 1])
  BY <1>1
<1>4. 1 \in 1..Len(s)
  BY <1>1
<1>5. Lacks(s, T) <=> Head(s).t \notin T /\ Lacks(Tail(s), T)
  BY <1>1, <1>2, <1>3, <1>4 DEF Lacks
<1>6. ASSUME Ends(s, T, r)
      PROVE  \/ Ends(Tail(s), T, r)
             \/ Lacks(Tail(s), T) /\ Head(s).t \in T /\ Head(s).r = r
  <2>1. PICK i \in 1..Len(s) : /\ s[i].t \in T /\ s[i].r = r
                               /\ \A j \in 1..Len(s) : i < j => s[j].t \notin T
    BY <1>6 DEF Ends
  <2>2. CASE i = 1
    <3>1. \A j \in 1..Len(Tail(s)) : j + 1 \in 1..Len(s) /\ i < j + 1 /\ Tail(s)[j] = s[j + 1]
      BY <1>1, <2>2
    <3> QED
      BY <3>1, <2>1, <2>2, <1>1 DEF Lacks
  <2>3. CASE i # 1
    <3>1. i - 1 \in 1..Len(Tail(s)) /\ s[i] = Tail(s)[i - 1]
      BY <2>3, <1>3
    <3>2. \A j \in 1..Len(Tail(s)) : i - 1 < j =>
             j + 1 \in 1..Len(s) /\ i < j + 1 /\ Tail(s)[j] = s[j + 1]
      BY <1>1
    <3> QED
      BY <3>1, <3>2, <2>1 DEF Ends
  <2> QED
    BY <2>2, <2>3
<1>7. ASSUME Ends(Tail(s), T, r)
      PROVE  Ends(s, T, r)
  <2>1. PICK i \in 1..Len(Tail(s)) :
          /\ Tail(s)[i].t \in T /\ Tail(s)[i].r = r
          /\ \A j \in 1..Len(Tail(s)) : i < j => Tail(s)[j].t \notin T
    BY <1>7 DEF Ends
  <2>2. i + 1 \in 1..Len(s) /\ s[i + 1] = Tail(s)[i]
    BY <1>2
  <2>3. \A j \in 1..Len(s) : i + 1 < j =>
           j - 1 \in 1..Len(Tail(s)) /\ i < j - 1 /\ s[j] = Tail(s)[j - 1]
    BY <1>1
  <2> QED
    BY <2>1, <2>2, <2>3 DEF Ends
<1>8. ASSUME Lacks(Tail(s), T), Head(s).t \in T, Head(s).r = r
      PROVE  Ends(s, T, r)
  <2>1. \A j \in 1..Len(s) : 1 < j => j - 1 \in 1..Len(Tail(s)) /\ s[j] = Tail(s)[j - 1]
    BY <1>1
  <2> QED
    BY <1>8, <1>1, <1>4, <2>1 DEF Ends, Lacks
<1> QED
  BY <1>5, <1>6, <1>7, <1>8

LEMMA EndsOrLacks ==
  ASSUME NEW s \in Seq(Message), NEW T, NEW r, Ends(s, T, r)
  PROVE  ~Lacks(s, T)
BY DEF Ends, Lacks

\* A message is written, read from a stream, or added to one.
LEMMA StreamFacts ==
  ASSUME NEW a \in Seq(Message), NEW b \in Seq(Message), NEW u \in Seq(Message)
  PROVE  /\ a \o b \in Seq(Message)
         /\ a \o (b \o u) = (a \o b) \o u
         /\ b # <<>> => Append(a, Head(b)) \o Tail(b) = a \o b
         /\ a # <<>> => /\ a \o b # <<>>
                        /\ Head(a \o b) = Head(a)
                        /\ Tail(a \o b) = Tail(a) \o b
<1>1. a \o b \in Seq(Message) /\ a \o (b \o u) = (a \o b) \o u
  <2>1. a \o b \in Seq(Message)
    BY ConcatProperties
  <2>2. (a \o b) \o u = a \o (b \o u)
    BY ConcatAssociative, SMT
  <2> QED
    BY <2>1, <2>2
<1>2. ASSUME b # <<>>
      PROVE  Append(a, Head(b)) \o Tail(b) = a \o b
  <2>1. /\ Head(b) \in Message /\ Tail(b) \in Seq(Message) /\ Head(b) = b[1]
        /\ Len(Tail(b)) = Len(b) - 1 /\ Len(b) \in Nat \ {0} /\ Len(a) \in Nat
        /\ \A i \in 1..Len(Tail(b)) : Tail(b)[i] = b[i + 1]
    BY <1>2, HeadTailProperties, EmptySeq, LenProperties
  <2>2. /\ Append(a, Head(b)) \in Seq(Message)
        /\ Len(Append(a, Head(b))) = Len(a) + 1
        /\ \A i \in 1..Len(a) : Append(a, Head(b))[i] = a[i]
        /\ Append(a, Head(b))[Len(a) + 1] = Head(b)
    BY <2>1, AppendProperties
  <2>3. /\ Append(a, Head(b)) \o Tail(b) \in Seq(Message)
        /\ Len(Append(a, Head(b)) \o Tail(b)) = Len(a) + Len(b)
        /\ \A i \in 1..Len(a) + Len(b) : (Append(a, Head(b)) \o Tail(b))[i] =
             IF i <= Len(a) + 1 THEN Append(a, Head(b))[i] ELSE Tail(b)[i - (Len(a) + 1)]
    <3> DEFINE x == Append(a, Head(b))  y == Tail(b)
    <3>1. /\ x \o y \in Seq(Message) /\ Len(x \o y) = Len(x) + Len(y)
          /\ \A i \in 1..Len(x) + Len(y) : (x \o y)[i] =
               IF i <= Len(x) THEN x[i] ELSE y[i - Len(x)]
      BY <2>1, <2>2, ConcatProperties
    <3> QED
      BY <3>1, <2>1, <2>2
  <2>4. /\ Len(a \o b) = Len(a) + Len(b)
        /\ \A i \in 1..Len(a) + Len(b) : (a \o b)[i] =
             IF i <= Len(a) THEN a[i] ELSE b[i - Len(a)]
    BY ConcatProperties
  <2>5. ASSUME NEW i \in 1..Len(a) + Len(b)
        PROVE  (Append(a, Head(b)) \o Tail(b))[i] = (a \o b)[i]
    <3>1. CASE i <= Len(a)
      BY <3>1, <2>1, <2>2, <2>3, <2>4
    <3>2. CASE i = Len(a) + 1
      BY <3>2, <2>1, <2>2, <2>3, <2>4
    <3>3. CASE i > Len(a) + 1
      <4>1. i - (Len(a) + 1) \in 1..Len(Tail(b)) /\ i - (Len(a) + 1) + 1 = i - Len(a)
        BY <3>3, <2>1
      <4> QED
        BY <4>1, <3>3, <2>1, <2>3, <2>4
    <3> QED
      BY <3>1, <3>2, <3>3, <2>1
  <2> DEFINE x == Append(a, Head(b)) \o Tail(b)  y == a \o b
  <2>6. x \in Seq(Message) /\ y \in Seq(Message) /\ Len(x) = Len(y)
        /\ \A i \in 1..Len(x) : x[i] = y[i]
    BY <2>3, <2>4, <2>5, <1>1
  <2> HIDE DEF x, y
  <2>7. x = y
    BY <2>6, SeqEqual
  <2> QED
    BY <2>7 DEF x, y
<1>3. ASSUME a # <<>>
      PROVE  /\ a \o b # <<>> /\ Head(a \o b) = Head(a)
             /\ Tail(a \o b) = Tail(a) \o b
  <2>1. /\ Tail(a) \in Seq(Message) /\ Head(a) = a[1]
        /\ Len(Tail(a)) = Len(a) - 1 /\ Len(a) \in Nat \ {0} /\ Len(b) \in Nat
        /\ \A i \in 1..Len(Tail(a)) : Tail(a)[i] = a[i + 1]
    BY <1>3, HeadTailProperties, EmptySeq, LenProperties
  <2>2. /\ Len(a \o b) = Len(a) + Len(b)
        /\ \A i \in 1..Len(a) + Len(b) : (a \o b)[i] =
             IF i <= Len(a) THEN a[i] ELSE b[i - Len(a)]
    BY ConcatProperties
  <2>3. a \o b # <<>> /\ Head(a \o b) = a[1]
    BY <2>1, <2>2, EmptySeq
  <2> DEFINE ab == a \o b
  <2>4. /\ Tail(ab) \in Seq(Message) /\ Len(Tail(ab)) = Len(ab) - 1
        /\ \A i \in 1..Len(Tail(ab)) : Tail(ab)[i] = ab[i + 1]
    BY <1>1, <2>3, HeadTailProperties
  <2>5. /\ Tail(a) \o b \in Seq(Message) /\ Len(Tail(a) \o b) = Len(Tail(a)) + Len(b)
        /\ \A i \in 1..Len(Tail(a)) + Len(b) : (Tail(a) \o b)[i] =
             IF i <= Len(Tail(a)) THEN Tail(a)[i] ELSE b[i - Len(Tail(a))]
    BY <2>1, ConcatProperties
  <2>6. ASSUME NEW i \in 1..Len(Tail(ab))
        PROVE  Tail(ab)[i] = (Tail(a) \o b)[i]
    <3>1. Tail(ab)[i] = ab[i + 1] /\ i + 1 \in 1..Len(a) + Len(b) /\ i \in Nat \ {0}
      BY <2>1, <2>2, <2>4
    <3>2. CASE i <= Len(a) - 1
      BY <3>1, <3>2, <2>1, <2>2, <2>5
    <3>3. CASE ~ (i <= Len(a) - 1)
      BY <3>1, <3>3, <2>1, <2>2, <2>5
    <3> QED
      BY <3>2, <3>3
  <2> DEFINE x == Tail(ab)  y == Tail(a) \o b
  <2>7. x \in Seq(Message) /\ y \in Seq(Message) /\ Len(x) = Len(y)
        /\ \A i \in 1..Len(x) : x[i] = y[i]
    BY <2>1, <2>2, <2>4, <2>5, <2>6
  <2> HIDE DEF x, y
  <2>8. x = y
    BY <2>7, SeqEqual
  <2> QED
    BY <2>3, <2>8, <2>1 DEF x, y
<1> QED
  BY <1>1, <1>2, <1>3

-----------------------------------------------------------------------------
(***************************************************************************)
(* What a reader with the role rn, that holds v for the role of a peer     *)
(* with the role rp, can rely on: s is on its way to it, b back.           *)
(***************************************************************************)
Settled(v, s, rp) == Ends(s, RoleKind, rp) \/ (Lacks(s, RoleKind) /\ v = rp)
Knows(v, s, b, rn, rp) ==
  \/ Settled(v, s, rp)
  \/ Ends(b, Asking, rn)
  \/ rn = "MASTER" /\ rp = "MASTER"

\* Something is said, and a role may change with it.
LEMMA SaysSettles ==
  ASSUME NEW v, NEW s \in Seq(Message), NEW u \in Seq(Message), NEW r, NEW q,
         Says(u, r, q)
  PROVE  /\ Settled(v, s, r) \/ ~Lacks(u, RoleKind) => Settled(v, s \o u, q)
         /\ Ends(s, Asking, r) \/ ~Lacks(u, Asking) => Ends(s \o u, Asking, q)
         /\ Lacks(u, Asking) => r = q
<1>1. Lacks(u, Asking) => r = q
  BY DEF Says
<1>2. /\ \A i \in 1..Len(u) : u[i].t \in RoleKind => u[i].r = q
      /\ \A i \in 1..Len(u) : u[i].t \in Asking => u[i].r = q
  BY DEF Says, RoleKind, Asking
<1>3. Lacks(u, RoleKind) => Lacks(u, Asking)
  BY DEF Lacks, RoleKind, Asking
<1>4. ~Lacks(u, RoleKind) => Settled(v, s \o u, q)
  BY <1>2, EndsNew DEF Settled
<1>5. Lacks(u, RoleKind) /\ Settled(v, s, r) => Settled(v, s \o u, q)
  BY <1>1, <1>3, EndsLonger, LacksBoth DEF Settled
<1>6. ~Lacks(u, Asking) => Ends(s \o u, Asking, q)
  BY <1>2, EndsNew
<1>7. Lacks(u, Asking) /\ Ends(s, Asking, r) => Ends(s \o u, Asking, q)
  BY <1>1, EndsLonger
<1> QED
  BY <1>1, <1>4, <1>5, <1>6, <1>7

\* Both ends of a connection know each other's role, or will: n says u.
LEMMA SayingKeepsKnowing ==
  ASSUME NEW v, NEW w, NEW s \in Seq(Message), NEW b \in Seq(Message),
         NEW u \in Seq(Message), NEW rn, NEW rp, NEW q,
         Knows(v, s, b, rn, rp), Knows(w, b, s, rp, rn), Says(u, rn, q)
  PROVE  Knows(v, s, b \o u, q, rp) /\ Knows(w, b \o u, s, rp, q)
<1>1. /\ Settled(w, b, rn) \/ ~Lacks(u, RoleKind) => Settled(w, b \o u, q)
      /\ Ends(b, Asking, rn) \/ ~Lacks(u, Asking) => Ends(b \o u, Asking, q)
      /\ Lacks(u, Asking) => rn = q
  BY SaysSettles
<1>2. ~Lacks(u, Asking) => ~Lacks(u, RoleKind)
  BY DEF Lacks, RoleKind, Asking
<1> QED
  BY <1>1, <1>2 DEF Knows

\* n, in the role rn, takes a message from the stream and answers with u.
Answers(m, v, v2, rn, u) ==
  /\ m.t \notin RoleKind \/ (rn = "MASTER" /\ m.r = "MASTER") => v2 = v
  /\ m.t \in RoleKind /\ ~(rn = "MASTER" /\ m.r = "MASTER") => v2 = m.r
  /\ m.t \in Asking /\ ~(rn = "MASTER" /\ m.r = "MASTER") => ~Lacks(u, RoleKind)

LEMMA ReadingKeepsKnowing ==
  ASSUME NEW v, NEW v2, NEW w, NEW s \in Seq(Message), NEW b \in Seq(Message),
         NEW u \in Seq(Message), NEW rn, NEW rp, NEW q, s # <<>>,
         Knows(v, s, b, rn, rp), Knows(w, b, s, rp, rn),
         Says(u, rn, q), Answers(Head(s), v, v2, rn, u)
  PROVE  Knows(v2, Tail(s), b \o u, q, rp) /\ Knows(w, b \o u, Tail(s), rp, q)
<1> DEFINE m == Head(s)
<1>1. Tail(s) \in Seq(Message)
  BY HeadTailProperties
<1>2. /\ Settled(w, b, rn) \/ ~Lacks(u, RoleKind) => Settled(w, b \o u, q)
      /\ Ends(b, Asking, rn) \/ ~Lacks(u, Asking) => Ends(b \o u, Asking, q)
      /\ Lacks(u, Asking) => rn = q
  BY SaysSettles
<1>3. ~Lacks(u, Asking) => ~Lacks(u, RoleKind)
  BY DEF Lacks, RoleKind, Asking
<1>4. /\ Lacks(s, RoleKind) <=> m.t \notin RoleKind /\ Lacks(Tail(s), RoleKind)
      /\ Ends(s, RoleKind, rp) <=>
           \/ Ends(Tail(s), RoleKind, rp)
           \/ Lacks(Tail(s), RoleKind) /\ m.t \in RoleKind /\ m.r = rp
      /\ Ends(s, Asking, rp) <=>
           \/ Ends(Tail(s), Asking, rp)
           \/ Lacks(Tail(s), Asking) /\ m.t \in Asking /\ m.r = rp
  <2>1. \A T :
          /\ Lacks(s, T) <=> m.t \notin T /\ Lacks(Tail(s), T)
          /\ Ends(s, T, rp) <=> \/ Ends(Tail(s), T, rp)
                                \/ Lacks(Tail(s), T) /\ m.t \in T /\ m.r = rp
    BY TailFacts
  <2> QED
    BY <2>1
<1>5. m.t \in Asking => m.t \in RoleKind
  BY DEF Asking, RoleKind
<1>6. Settled(v, s, rp) => Settled(v2, Tail(s), rp) \/ (rn = "MASTER" /\ rp = "MASTER")
  BY <1>4 DEF Settled, Answers
<1>7. Knows(v2, Tail(s), b \o u, q, rp)
  BY <1>2, <1>3, <1>6 DEF Knows
<1>8. Ends(s, Asking, rp) => \/ Ends(Tail(s), Asking, rp)
                             \/ Settled(w, b \o u, q)
                             \/ rn = "MASTER" /\ rp = "MASTER"
  BY <1>2, <1>4 DEF Answers
<1>9. Knows(w, b \o u, Tail(s), rp, q)
  BY <1>2, <1>3, <1>8 DEF Knows
<1> QED
  BY <1>7, <1>9

-----------------------------------------------------------------------------
(* The types. *)

PerPeer(f, T) == DOMAIN f = Node /\ \A n \in Node : f[n] \in [Peer(n) -> T]
Between(n, p) == {c \in Conn : {c[1], c[2]} = {n, p}}

NodeTypes ==
  /\ up \in [Node -> BOOLEAN] /\ carp \in [Node -> CarpState] /\ run \in [Node -> Role]
  /\ promisc \in [Node -> BOOLEAN]
  /\ \A n \in Node : ~up[n] => run[n] = "INIT"
SockTypes ==
  /\ PerPeer(sock, Conn \cup {NoConn})
  /\ \A n \in Node : \A p \in Peer(n) : sock[n][p] \in Between(n, p) \cup {NoConn}
  /\ backlog \in [Node -> Seq(Conn)]
  /\ \A n \in Node : \A c \in Range(backlog[n]) : c[2] = n
MsgTypes == PerPeer(msgs, Seq(Message))
ConnTypes == shut \in [Conn -> SUBSET Node] /\ inbox \in [Conn -> [Node -> Seq(Message)]]
DataTypes ==
  /\ sadb \in [Node -> SUBSET Sa] /\ \A n \in Node : IsFiniteSet(sadb[n])
  /\ events \in [Node -> Seq(Op)] /\ pfq \in [Node -> Seq(Op)]
CountTypes == PerPeer(snap, Nat) /\ left \in [ops : Nat, troubles : Nat]
Types ==
  /\ NodeTypes /\ SockTypes /\ MsgTypes /\ ConnTypes /\ DataTypes /\ CountTypes
  /\ PerPeer(view, Role)

LEMMA UpdateRow ==
  ASSUME NEW f, NEW T, PerPeer(f, T), NEW n \in Node, NEW h \in [Peer(n) -> T],
         NEW g, g = [f EXCEPT ![n] = h]
  PROVE  /\ PerPeer(g, T)
         /\ \A m \in Node : \A q \in Peer(m) : g[m][q] = IF m = n THEN h[q] ELSE f[m][q]
BY DEF PerPeer

LEMMA MessageTypes ==
  /\ \A r \in Role : State(r) \in Message /\ Ack(r) \in Message
  /\ \A o \in {"state", "data"} : Error(o) \in Message
  /\ \A op \in Op, r \in Role : Data(op, r) \in Message
  /\ \A m \in Message : /\ m.t \in RoleKind => m.r \in Role
                        /\ m.t = "data" => m.op \in Op /\ m.by \in Role
  /\ \A m \in Message : m.t \in {"state", "ack", "error", "data"}
<1>1. ASSUME NEW m \in Message
      PROVE  \/ \E r \in Role : m = State(r) \/ m = Ack(r)
             \/ \E o \in {"state", "data"} : m = Error(o)
             \/ \E op \in Op, r \in Role : m = Data(op, r)
  BY DEF Message
<1>2. /\ \A r : /\ State(r).t = "state" /\ State(r).r = r
               /\ Ack(r).t = "ack" /\ Ack(r).r = r
      /\ \A o : Error(o).t = "error"
      /\ \A op, r : Data(op, r).t = "data" /\ Data(op, r).op = op /\ Data(op, r).by = r
  BY DEF State, Ack, Error, Data
<1>3. ASSUME NEW m \in Message
      PROVE  /\ m.t \in RoleKind => m.r \in Role
             /\ m.t = "data" => m.op \in Op /\ m.by \in Role
             /\ m.t \in {"state", "ack", "error", "data"}
  BY <1>1, <1>2 DEF RoleKind
<1>4. /\ \A r \in Role : State(r) \in Message /\ Ack(r) \in Message
      /\ \A o \in {"state", "data"} : Error(o) \in Message
      /\ \A op \in Op, r \in Role : Data(op, r) \in Message
  BY DEF Message
<1> QED
  BY <1>3, <1>4

LEMMA ConnFacts ==
  /\ \A n \in Node : \A p \in Peer(n) : \A c \in Between(n, p) :
       /\ c \in Conn /\ c # NoConn /\ Other(c, n) = p /\ Other(c, p) = n /\ c \in Between(p, n)
  /\ \A c \in Conn : /\ c[1] \in Node /\ c[2] \in Node /\ c[1] # c[2] /\ c # NoConn
                     /\ Other(c, c[2]) = c[1] /\ Other(c, c[1]) = c[2]
                     /\ c[1] \in Peer(c[2]) /\ c[2] \in Peer(c[1])
                     /\ c \in Between(c[1], c[2]) /\ c \in Between(c[2], c[1])
  /\ \A n \in Node : \A p \in Peer(n) : p \in Node /\ n \in Peer(p) /\ n # p
<1>1. \A c \in Conn : c[1] \in Node /\ c[2] \in Node /\ c[1] # c[2] /\ c # NoConn
  BY DEF Conn, NoConn
<1>2. \A n \in Node : \A p \in Peer(n) : p \in Node /\ n \in Peer(p) /\ n # p
  BY DEF Peer
<1>3. \A n \in Node : \A p \in Peer(n) : \A c \in Between(n, p) :
        c \in Conn /\ Other(c, n) = p /\ Other(c, p) = n /\ c \in Between(p, n)
  BY <1>1, <1>2 DEF Between, Other
<1>4. \A c \in Conn : /\ Other(c, c[2]) = c[1] /\ Other(c, c[1]) = c[2]
                      /\ c[1] \in Peer(c[2]) /\ c[2] \in Peer(c[1])
                      /\ c \in Between(c[1], c[2]) /\ c \in Between(c[2], c[1])
  BY <1>1 DEF Between, Other, Peer
<1> QED
  BY <1>1, <1>2, <1>3, <1>4

LEMMA RangeFacts ==
  ASSUME NEW T, NEW s \in Seq(T)
  PROVE  /\ Range(s) \subseteq T
         /\ \A x \in T : Range(Append(s, x)) = Range(s) \cup {x}
         /\ s # <<>> => /\ Head(s) \in Range(s)
                        /\ Range(Tail(s)) \subseteq Range(s)
                        /\ Range(s) \subseteq Range(Tail(s)) \cup {Head(s)}
<1>1. \A t \in Seq(T) : Range(t) = {t[i] : i \in 1..Len(t)}
  BY RangeEquality
<1>2. Range(s) \subseteq T
  BY RangeOfSeq
<1>3. ASSUME NEW x \in T
      PROVE  Range(Append(s, x)) = Range(s) \cup {x}
  <2>1. /\ Append(s, x) \in Seq(T) /\ Len(Append(s, x)) = Len(s) + 1 /\ Len(s) \in Nat
        /\ \A i \in 1..Len(s) : Append(s, x)[i] = s[i]
        /\ Append(s, x)[Len(s) + 1] = x
    BY AppendProperties, LenProperties
  <2>2. \A i \in 1..Len(s) + 1 : i \in 1..Len(s) \/ i = Len(s) + 1
    BY <2>1
  <2>3. 1..Len(s) \subseteq 1..Len(s) + 1 /\ Len(s) + 1 \in 1..Len(s) + 1
    BY <2>1
  <2>4. /\ Range(Append(s, x)) = {Append(s, x)[i] : i \in 1..Len(s) + 1}
        /\ Range(s) = {s[i] : i \in 1..Len(s)}
    BY <1>1, <2>1
  <2> QED
    BY <2>1, <2>2, <2>3, <2>4
<1>4. ASSUME s # <<>>
      PROVE  /\ Head(s) \in Range(s) /\ Range(Tail(s)) \subseteq Range(s)
             /\ Range(s) \subseteq Range(Tail(s)) \cup {Head(s)}
  <2>1. /\ Tail(s) \in Seq(T) /\ Head(s) = s[1] /\ Len(s) \in Nat \ {0}
        /\ Len(Tail(s)) = Len(s) - 1
        /\ \A i \in 1..Len(Tail(s)) : Tail(s)[i] = s[i + 1]
    BY <1>4, HeadTailProperties, EmptySeq, LenProperties
  <2>2. 1 \in 1..Len(s) /\ \A i \in 1..Len(Tail(s)) : i + 1 \in 1..Len(s)
    BY <2>1
  <2>3. \A i \in 1..Len(s) : i = 1 \/ (i - 1 \in 1..Len(Tail(s)) /\ Tail(s)[i - 1] = s[i])
    BY <2>1
  <2>4. /\ Range(Tail(s)) = {Tail(s)[i] : i \in 1..Len(Tail(s))}
        /\ Range(s) = {s[i] : i \in 1..Len(s)}
    BY <1>1, <2>1
  <2>5. Range(Tail(s)) \subseteq Range(s)
    BY <2>1, <2>2, <2>4
  <2>6. Range(s) \subseteq Range(Tail(s)) \cup {Head(s)}
    BY <2>1, <2>3, <2>4
  <2>7. Head(s) \in Range(s)
    BY <2>1, <2>2, <2>4
  <2> QED
    BY <2>5, <2>6, <2>7
<1> QED
  BY <1>2, <1>3, <1>4

LEMMA FreshFacts ==
  ASSUME NEW n \in Node, NEW p \in Callable(n)
  PROVE  /\ p \in Peer(n) /\ sock[n][p] = NoConn /\ up[p]
         /\ Fresh(n, p) \in Between(n, p) /\ Fresh(n, p) \in Conn
         /\ Fresh(n, p)[1] = n /\ Fresh(n, p)[2] = p
         /\ ~Refers(n, Fresh(n, p)) /\ ~Refers(p, Fresh(n, p))
<1>1. p \in Peer(n) /\ sock[n][p] = NoConn /\ up[p] /\ Free(n, p) # {}
  BY DEF Callable
<1> DEFINE k == CHOOSE j \in Free(n, p) : TRUE
<1>2. k \in Free(n, p)
  BY <1>1
<1>3. Fresh(n, p) = <<n, p, k>>
  BY DEF Fresh
<1>4. k \in Slot /\ ~Refers(n, <<n, p, k>>) /\ ~Refers(p, <<n, p, k>>)
  BY <1>2 DEF Free
<1> HIDE DEF k
<1> QED
  BY <1>1, <1>3, <1>4 DEF Conn, Between, Peer

-----------------------------------------------------------------------------
(***************************************************************************)
(* What a step of n puts on its queues.                                    *)
(***************************************************************************)
DataKind == {"data"}

\* n calls the peers in S and adds u to the queue of p.
Utters(n, p, S, u) ==
  /\ u \in Seq(Message)
  /\ msgs'[n][p] = msgs[n][p] \o u
  /\ Says(u, run[n], run'[n])
  /\ p \in S => ~Lacks(u, Asking) /\ Lacks(u, DataKind)
Speaks(n, S) ==
  /\ S \subseteq Callable(n)
  /\ \A x \in Node : \A y \in Peer(x) :
       sock'[x][y] = IF x = n /\ y \in S THEN Fresh(n, y) ELSE sock[x][y]
  /\ \A x \in Node :
       backlog'[x] = IF x \in S THEN Append(backlog[x], Fresh(n, x)) ELSE backlog[x]
  /\ shut' = shut
  /\ \A x \in Node : x # n => run'[x] = run[x]
  /\ \A x \in Node : \A y \in Peer(x) : x # n => msgs'[x][y] = msgs[x][y]
  /\ \A p \in Peer(n) : sock'[n][p] = NoConn => msgs'[n][p] = msgs[n][p]
  /\ \A p \in Peer(n) : sock'[n][p] # NoConn => \E u : Utters(n, p, S, u)
Hears(n, p, S) ==
  LET c == sock[n][p] IN
  /\ c # NoConn /\ inbox[c][n] # <<>>
  /\ inbox' = [inbox EXCEPT ![c][n] = Tail(@)]
  /\ \A x \in Node : \A y \in Peer(x) : x # n \/ y # p => view'[x][y] = view[x][y]
  /\ \E u : /\ Utters(n, p, S, u)
            /\ Answers(Head(inbox[c][n]), view[n][p], view'[n][p], run[n], u)

\* A sequence that only tells the role r.
Tells(u, r) == u \in Seq(Message) /\ \A i \in 1..Len(u) : u[i] = State(r)

LEMMA TellingFacts ==
  ASSUME NEW r \in Role
  PROVE  /\ \A a : Tells(IF a THEN <<State(r)>> ELSE <<>>, r)
         /\ \A a : ~a => Lacks(IF a THEN <<State(r)>> ELSE <<>>, Asking)
         /\ \A a : a => ~Lacks(IF a THEN <<State(r)>> ELSE <<>>, Asking)
         /\ \A u, w : Tells(u, r) /\ Tells(w, r) => Tells(u \o w, r)
         /\ \A u, q : Tells(u, r) /\ (q # r => ~Lacks(u, Asking)) => Says(u, q, r)
         /\ \A u : Tells(u, r) => Lacks(u, DataKind)
<1>1. State(r) \in Message /\ State(r).t = "state" /\ State(r).r = r
  BY MessageTypes DEF State
<1>2. /\ <<State(r)>> \in Seq(Message) /\ Len(<<State(r)>>) = 1 /\ <<State(r)>>[1] = State(r)
      /\ <<>> \in Seq(Message) /\ Len(<<>>) = 0
  BY <1>1
<1>3. Tells(<<State(r)>>, r) /\ Tells(<<>>, r)
  BY <1>2 DEF Tells
<1>4. Lacks(<<>>, Asking) /\ ~Lacks(<<State(r)>>, Asking)
  BY <1>1, <1>2 DEF Lacks, Asking
<1>5. ASSUME NEW u, NEW w, Tells(u, r), Tells(w, r)
      PROVE  Tells(u \o w, r)
  <2>1. u \in Seq(Message) /\ w \in Seq(Message)
    BY <1>5 DEF Tells
  <2>2. /\ u \o w \in Seq(Message) /\ Len(u \o w) = Len(u) + Len(w)
        /\ Len(u) \in Nat /\ Len(w) \in Nat
        /\ \A i \in 1..Len(u) + Len(w) :
             (u \o w)[i] = IF i <= Len(u) THEN u[i] ELSE w[i - Len(u)]
    BY <2>1, ConcatProperties, LenProperties
  <2>3. \A i \in 1..Len(u \o w) :
          \/ i \in 1..Len(u) /\ (u \o w)[i] = u[i]
          \/ i - Len(u) \in 1..Len(w) /\ (u \o w)[i] = w[i - Len(u)]
    BY <2>2
  <2> QED
    BY <1>5, <2>2, <2>3 DEF Tells
<1>6. ASSUME NEW u, NEW q, Tells(u, r), q # r => ~Lacks(u, Asking)
      PROVE  Says(u, q, r)
  BY <1>1, <1>6 DEF Tells, Says
<1>7. ASSUME NEW u, Tells(u, r)
      PROVE  Lacks(u, DataKind)
  BY <1>1, <1>7 DEF Tells, Lacks, DataKind
<1> QED
  BY <1>3, <1>4, <1>5, <1>6, <1>7

LEMMA ContentsType ==
  ASSUME NEW db, db \subseteq Sa, IsFiniteSet(db)
  PROVE  Contents(db) \in Seq(Op)
<1> DEFINE T == {[k |-> "add", s |-> s] : s \in db}
           f == [s \in db |-> [k |-> "add", s |-> s]]
<1>1. f \in Surjection(db, T)
  BY DEF Surjection
<1>2. T \subseteq Op
  BY DEF Op
<1> HIDE DEF T, f
<1>3. IsFiniteSet(T)
  BY <1>1, FS_Surjection
<1>4. Cardinality(T) \in Nat /\ ExistsBijection(1..Cardinality(T), T)
  BY <1>3, FS_CardinalityType
<1>5. \E g \in [1..Cardinality(T) -> T] : IsInjective(g)
  BY <1>4 DEF ExistsBijection, Bijection, Injection
<1>6. SetToSeq(T) \in [1..Cardinality(T) -> T]
  BY <1>5 DEF SetToSeq
<1>7. SetToSeq(T) \in Seq(Op)
  BY <1>2, <1>4, <1>6, IsASeq
<1> QED
  BY <1>7 DEF Contents, T

LEMMA SnapshotSays ==
  ASSUME NEW db, db \subseteq Sa, IsFiniteSet(db), NEW r \in Role
  PROVE  /\ AsData(SnapshotOps(db), r) \in Seq(Message)
         /\ Says(AsData(SnapshotOps(db), r), r, r)
<1> DEFINE ops == SnapshotOps(db)  u == AsData(ops, r)
<1>1. <<Flush>> \in Seq(Op) /\ <<>> \in Seq(Op) /\ Contents(db) \in Seq(Op)
  BY ContentsType DEF Op
<1>2. ops \in Seq(Op)
  <2>1. \A a \in Seq(Op) : a \o Contents(db) \in Seq(Op)
    BY <1>1, ConcatProperties
  <2> QED
    BY <1>1, <2>1 DEF SnapshotOps
<1> HIDE DEF ops
<1>3. Len(ops) \in Nat /\ DOMAIN ops = 1..Len(ops) /\ \A i \in 1..Len(ops) : ops[i] \in Op
  BY <1>2, LenProperties
<1>4. u = [i \in 1..Len(ops) |-> Data(ops[i], r)]
  BY <1>3 DEF AsData
<1>5. \A i \in 1..Len(ops) : Data(ops[i], r) \in Message
  BY <1>3, MessageTypes
<1>6. u \in Seq(Message) /\ Len(u) = Len(ops)
  BY <1>3, <1>4, <1>5, IsASeq
<1>7. \A i \in 1..Len(u) : u[i].t = "data" /\ u[i].by = r
  BY <1>4, <1>6 DEF Data
<1>8. Says(u, r, r)
  BY <1>7 DEF Says, RoleKind
<1> QED
  BY <1>6, <1>8 DEF ops

-----------------------------------------------------------------------------
(***************************************************************************)
(* The steps in which a daemon calls, speaks and reads, and their types.   *)
(***************************************************************************)
Quietly == view' = view /\ inbox' = inbox

LEMMA ConnectCalls ==
  ASSUME Types, NEW n \in Node, NEW S \in SUBSET Callable(n), NEW role, Connect(n, S, role)
  PROVE  /\ SockTypes' /\ CountTypes'
         /\ \A x \in Node : \A y \in Peer(x) :
              sock'[x][y] = IF x = n /\ y \in S THEN Fresh(n, y) ELSE sock[x][y]
         /\ \A x \in Node :
              backlog'[x] = IF x \in S THEN Append(backlog[x], Fresh(n, x)) ELSE backlog[x]
<1> USE DEF Types
<1>1. S \subseteq Peer(n) /\ S \subseteq Node /\ Callable(n) \subseteq Node
  BY DEF Callable, Peer
<1>2. \A p \in S : /\ Fresh(n, p) \in Between(n, p) /\ Fresh(n, p) \in Conn
                   /\ Fresh(n, p)[2] = p
  BY FreshFacts
<1>3. /\ PerPeer(sock', Conn \cup {NoConn})
      /\ \A x \in Node : \A y \in Peer(x) :
           sock'[x][y] = IF x = n /\ y \in S THEN Fresh(n, y) ELSE sock[x][y]
  <2> DEFINE h == [p \in Peer(n) |-> IF p \in S THEN Fresh(n, p) ELSE sock[n][p]]
  <2>1. PerPeer(sock, Conn \cup {NoConn})
    BY DEF SockTypes
  <2>2. h \in [Peer(n) -> Conn \cup {NoConn}]
    BY <1>2, <2>1 DEF PerPeer
  <2>3. sock' = [sock EXCEPT ![n] = h]
    BY DEF Connect
  <2>4. \A p \in Peer(n) : h[p] = IF p \in S THEN Fresh(n, p) ELSE sock[n][p]
    OBVIOUS
  <2> HIDE DEF h
  <2>5. /\ PerPeer(sock', Conn \cup {NoConn})
        /\ \A m \in Node : \A q \in Peer(m) :
             sock'[m][q] = IF m = n THEN h[q] ELSE sock[m][q]
    BY <2>1, <2>2, <2>3 DEF PerPeer
  <2> QED
    BY <2>4, <2>5
<1>4. \A x \in Node :
        backlog'[x] = IF x \in S THEN Append(backlog[x], Fresh(n, x)) ELSE backlog[x]
  BY DEF Connect
<1>5. backlog' \in [Node -> Seq(Conn)]
  <2>1. ASSUME NEW x \in Node
        PROVE  backlog'[x] \in Seq(Conn)
    <3>1. backlog[x] \in Seq(Conn)
      BY DEF SockTypes
    <3>2. CASE x \in S
      <4> DEFINE s == backlog[x]  c == Fresh(n, x)
      <4>1. s \in Seq(Conn) /\ c \in Conn /\ backlog'[x] = Append(s, c)
        BY <1>2, <1>4, <3>1, <3>2
      <4> HIDE DEF s, c
      <4> QED
        BY <4>1, AppendProperties
    <3> QED
      BY <1>4, <3>1, <3>2
  <2> QED
    BY <2>1 DEF Connect
<1>6. ASSUME NEW x \in Node, NEW c \in Range(backlog'[x])
      PROVE  c[2] = x
  <2>1. CASE x \in S
    <3>1. Range(backlog'[x]) = Range(backlog[x]) \cup {Fresh(n, x)}
      BY <2>1, <1>2, <1>4, RangeFacts DEF SockTypes
    <3> QED
      BY <3>1, <2>1, <1>2 DEF SockTypes
  <2>2. CASE x \notin S
    BY <2>2, <1>4 DEF SockTypes
  <2> QED
    BY <2>1, <2>2
<1>7. \A x \in Node : \A y \in Peer(x) : sock'[x][y] \in Between(x, y) \cup {NoConn}
  BY <1>2, <1>3 DEF SockTypes
<1>8. SockTypes'
  BY <1>3, <1>5, <1>6, <1>7 DEF SockTypes, PerPeer, Between, NoConn, Conn, Peer
<1>9. PerPeer(snap', Nat)
  <2> DEFINE h == [p \in Peer(n) |-> IF p \in S THEN snap[n][p] + 1 ELSE snap[n][p]]
  <2>1. PerPeer(snap, Nat) /\ h \in [Peer(n) -> Nat]
    BY DEF CountTypes, PerPeer
  <2>2. snap' = [snap EXCEPT ![n] = h] \/ snap' = snap
    BY DEF Connect
  <2> HIDE DEF h
  <2> QED
    BY <2>1, <2>2, UpdateRow
<1>10. left' \in [ops : Nat, troubles : Nat]
  <2> DEFINE k == Cardinality(Callable(n) \ S)
  <2>1. k \in Nat
    <3>1. IsFiniteSet(Callable(n) \ S)
      BY <1>1, SasyncAssumption, FS_Subset
    <3> QED
      BY <3>1, FS_CardinalityType
  <2>2. left.troubles \in Nat /\ left \in [ops : Nat, troubles : Nat]
    BY DEF CountTypes
  <2>3. /\ k > 0 => left.troubles >= k
        /\ left' = [left EXCEPT !.troubles = @ - k]
    BY DEF Connect, Trouble
  <2> HIDE DEF k
  <2>4. left.troubles - k \in Nat
    BY <2>1, <2>2, <2>3
  <2> QED
    BY <2>2, <2>3, <2>4
<1> QED
  BY <1>3, <1>4, <1>8, <1>9, <1>10 DEF CountTypes, PerPeer, Peer

Announced(q, n, S, role, changed) ==
  /\ PerPeer(q, Seq(Message))
  /\ \A x \in Node \ {n} : \A y \in Peer(x) : q[x][y] = msgs[x][y]
  /\ \A p \in Peer(n) : \E u :
       /\ Tells(u, role) /\ q[n][p] = msgs[n][p] \o u
       /\ p \notin S /\ ~(changed /\ sock[n][p] # NoConn) => u = <<>>
       /\ p \in S \/ (changed /\ sock[n][p] # NoConn) => ~Lacks(u, Asking)

LEMMA AnnounceTells ==
  ASSUME Types, NEW n \in Node, NEW S \in SUBSET Callable(n), NEW role \in Role,
         NEW changed \in BOOLEAN,
         NEW q, q = Announce(msgs, n, S, role, changed)
  PROVE  Announced(q, n, S, role, changed)
<1> DEFINE w1(p) == IF p \in S THEN <<State(role)>> ELSE <<>>
           w2(p) == IF changed /\ (p \in S \/ sock[n][p] # NoConn) THEN <<State(role)>> ELSE <<>>
           h == [p \in Peer(n) |-> msgs[n][p] \o w1(p) \o w2(p)]
<1>1. PerPeer(msgs, Seq(Message))
  BY DEF Types, MsgTypes
<1>2. \A p : Tells(w1(p), role) /\ Tells(w2(p), role) /\ Tells(w1(p) \o w2(p), role)
  BY TellingFacts
<1>3. ASSUME NEW p \in Peer(n)
      PROVE  /\ msgs[n][p] \in Seq(Message)
             /\ h[p] = msgs[n][p] \o (w1(p) \o w2(p)) /\ h[p] \in Seq(Message)
  <2>1. msgs[n][p] \in Seq(Message) /\ w1(p) \in Seq(Message) /\ w2(p) \in Seq(Message)
    BY <1>1, <1>2 DEF Tells, PerPeer
  <2> DEFINE m == msgs[n][p]  a == w1(p)  b == w2(p)
  <2>2. h[p] = m \o a \o b
    OBVIOUS
  <2>3. m \in Seq(Message) /\ a \in Seq(Message) /\ b \in Seq(Message)
    BY <2>1
  <2> HIDE DEF m, a, b, h
  <2>4. m \o a \in Seq(Message)
    BY <2>3, ConcatProperties
  <2>5. m \o a \o b \in Seq(Message)
    BY <2>3, <2>4, ConcatProperties
  <2>6. m \o (a \o b) = m \o a \o b
    BY <2>3, StreamFacts
  <2> QED
    BY <2>2, <2>3, <2>5, <2>6 DEF m, a, b
<1>4. h \in [Peer(n) -> Seq(Message)]
  BY <1>3
<1>5. q = [msgs EXCEPT ![n] = h]
  BY DEF Announce
<1>6. ASSUME NEW p \in Peer(n)
      PROVE  /\ p \notin S /\ ~(changed /\ sock[n][p] # NoConn) => w1(p) \o w2(p) = <<>>
             /\ p \in S \/ (changed /\ sock[n][p] # NoConn) => ~Lacks(w1(p) \o w2(p), Asking)
  <2>1. /\ p \in S => ~Lacks(w1(p), Asking)
        /\ changed /\ sock[n][p] # NoConn => ~Lacks(w2(p), Asking)
    BY TellingFacts
  <2>2. w1(p) \in Seq(Message) /\ w2(p) \in Seq(Message)
    BY <1>2 DEF Tells
  <2>3. Lacks(w1(p) \o w2(p), Asking) <=> Lacks(w1(p), Asking) /\ Lacks(w2(p), Asking)
    <3> DEFINE a == w1(p)  b == w2(p)
    <3>1. a \in Seq(Message) /\ b \in Seq(Message)
      BY <2>2
    <3> HIDE DEF a, b
    <3>2. Lacks(a \o b, Asking) <=> Lacks(a, Asking) /\ Lacks(b, Asking)
      BY <3>1, LacksBoth
    <3> QED
      BY <3>2 DEF a, b
  <2>4. p \notin S /\ ~(changed /\ sock[n][p] # NoConn) => w1(p) = <<>> /\ w2(p) = <<>>
    OBVIOUS
  <2>5. <<>> \o <<>> = <<>>
    BY ConcatEmptySeq, <2>2, <1>3
  <2> QED
    BY <2>1, <2>3, <2>4, <2>5
<1> HIDE DEF h
<1>7. /\ PerPeer(q, Seq(Message))
      /\ \A m \in Node : \A p \in Peer(m) : q[m][p] = IF m = n THEN h[p] ELSE msgs[m][p]
  BY <1>1, <1>4, <1>5 DEF PerPeer
<1>8. ASSUME NEW p \in Peer(n)
      PROVE  \E u : /\ Tells(u, role) /\ q[n][p] = msgs[n][p] \o u
                    /\ p \notin S /\ ~(changed /\ sock[n][p] # NoConn) => u = <<>>
                    /\ p \in S \/ (changed /\ sock[n][p] # NoConn) => ~Lacks(u, Asking)
  <2> DEFINE u == w1(p) \o w2(p)
  <2>1. Tells(u, role)
    BY <1>2
  <2>2. q[n][p] = msgs[n][p] \o u
    <3>1. q[n][p] = h[p]
      BY <1>7
    <3> QED
      BY <1>3, <3>1
  <2>3. /\ p \notin S /\ ~(changed /\ sock[n][p] # NoConn) => u = <<>>
        /\ p \in S \/ (changed /\ sock[n][p] # NoConn) => ~Lacks(u, Asking)
    BY <1>6
  <2> HIDE DEF u
  <2> QED
    BY <2>1, <2>2, <2>3
<1> QED
  BY <1>7, <1>8 DEF Announced

\* n tells the peers in S, and all or none of the others, and some again.
LEMMA TellingSpeaks ==
  ASSUME Types, NEW n \in Node, NEW S \in SUBSET Callable(n), NEW role \in Role,
         NEW changed \in BOOLEAN,
         NEW again \in SUBSET Peer(n), \A p \in again : sock[n][p] # NoConn,
         Connect(n, S, role), shut' = shut,
         \A x \in Node : x # n => run'[x] = run[x],
         run'[n] = role, run[n] # role => changed,
         msgs' = [Announce(msgs, n, S, role, changed) EXCEPT ![n] =
                    [p \in Peer(n) |-> @[p] \o IF p \in again THEN <<State(role)>> ELSE <<>>]]
  PROVE  Speaks(n, S) /\ MsgTypes'
<1>0. PICK q : q = Announce(msgs, n, S, role, changed)
  OBVIOUS
<1> DEFINE w(p) == IF p \in again THEN <<State(role)>> ELSE <<>>
           h == [p \in Peer(n) |-> q[n][p] \o w(p)]
<1>1. /\ PerPeer(q, Seq(Message))
      /\ \A x \in Node \ {n} : \A y \in Peer(x) : q[x][y] = msgs[x][y]
      /\ \A p \in Peer(n) : \E u :
           /\ Tells(u, role) /\ q[n][p] = msgs[n][p] \o u
           /\ p \notin S /\ ~(changed /\ sock[n][p] # NoConn) => u = <<>>
           /\ p \in S \/ (changed /\ sock[n][p] # NoConn) => ~Lacks(u, Asking)
  <2>1. Announced(q, n, S, role, changed)
    BY <1>0, AnnounceTells
  <2> QED
    BY <2>1 DEF Announced
<1>2. msgs' = [q EXCEPT ![n] = h]
  <2>1. [p \in Peer(n) |-> q[n][p] \o IF p \in again THEN <<State(role)>> ELSE <<>>] = h
    OBVIOUS
  <2> HIDE DEF h
  <2> QED
    BY <1>0, <2>1
<1>3. \A p : Tells(w(p), role) /\ (p \notin again => w(p) = <<>>)
  BY TellingFacts
<1>4. \A p \in Peer(n) : q[n][p] \in Seq(Message) /\ w(p) \in Seq(Message)
  BY <1>1, <1>3 DEF PerPeer, Tells
<1>5. \A p \in Peer(n) : h[p] = q[n][p] \o w(p) /\ h[p] \in Seq(Message)
  <2> SUFFICES ASSUME NEW p \in Peer(n)
               PROVE  h[p] = q[n][p] \o w(p) /\ q[n][p] \o w(p) \in Seq(Message)
    OBVIOUS
  <2> DEFINE a == q[n][p]  b == w(p)
  <2>1. a \in Seq(Message) /\ b \in Seq(Message) /\ h[p] = a \o b
    BY <1>4
  <2> HIDE DEF a, b, h
  <2>2. a \o b \in Seq(Message)
    BY <2>1, ConcatProperties
  <2> QED
    BY <2>1, <2>2 DEF a, b
<1>6. h \in [Peer(n) -> Seq(Message)]
  BY <1>5
<1> HIDE DEF h
<1>7. /\ PerPeer(msgs', Seq(Message))
      /\ \A x \in Node : \A y \in Peer(x) : msgs'[x][y] = IF x = n THEN h[y] ELSE q[x][y]
  BY <1>1, <1>2, <1>6 DEF PerPeer
<1>8. MsgTypes'
  BY <1>7 DEF MsgTypes, PerPeer, Peer
<1>9. /\ \A x \in Node : \A y \in Peer(x) :
           sock'[x][y] = IF x = n /\ y \in S THEN Fresh(n, y) ELSE sock[x][y]
      /\ \A x \in Node :
           backlog'[x] = IF x \in S THEN Append(backlog[x], Fresh(n, x)) ELSE backlog[x]
  BY ConnectCalls
<1>10. ASSUME NEW p \in Peer(n)
       PROVE  \E u : /\ Tells(u, role) /\ msgs'[n][p] = msgs[n][p] \o u
                     /\ sock'[n][p] = NoConn => u = <<>>
                     /\ sock'[n][p] # NoConn /\ changed => ~Lacks(u, Asking)
                     /\ p \in S => ~Lacks(u, Asking)
  <2>1. PICK u : /\ Tells(u, role) /\ q[n][p] = msgs[n][p] \o u
                 /\ p \notin S /\ ~(changed /\ sock[n][p] # NoConn) => u = <<>>
                 /\ p \in S \/ (changed /\ sock[n][p] # NoConn) => ~Lacks(u, Asking)
    BY <1>1
  <2> DEFINE m == msgs[n][p]  b == w(p)
  <2>2. /\ u \in Seq(Message) /\ b \in Seq(Message) /\ m \in Seq(Message)
    BY <1>4, <2>1 DEF Tells, Types, MsgTypes, PerPeer
  <2>3. msgs'[n][p] = (m \o u) \o b /\ Tells(b, role)
    BY <1>3, <1>5, <1>7, <2>1
  <2>4. p \notin again => b = <<>>
    BY <1>3
  <2>5. p \in S => Fresh(n, p) # NoConn
    BY FreshFacts, ConnFacts
  <2>6. m = msgs[n][p]
    OBVIOUS
  <2> HIDE DEF m, b
  <2>7. m \o (u \o b) = (m \o u) \o b
    BY <2>2, StreamFacts
  <2>8. Tells(u \o b, role)
    BY <2>1, <2>3, TellingFacts
  <2>9. Lacks(u \o b, Asking) <=> Lacks(u, Asking) /\ Lacks(b, Asking)
    BY <2>2, LacksBoth
  <2>10. sock'[n][p] = NoConn => u \o b = <<>>
    <3>1. sock'[n][p] = NoConn => sock[n][p] = NoConn /\ p \notin S
      BY <1>9, <2>5
    <3>2. sock'[n][p] = NoConn => u = <<>> /\ b = <<>>
      BY <2>1, <2>4, <3>1
    <3> QED
      BY <2>2, <3>2, ConcatEmptySeq
  <2>11. sock'[n][p] # NoConn /\ changed => ~Lacks(u, Asking)
    BY <1>9, <2>1
  <2> QED
    BY <2>1, <2>3, <2>6, <2>7, <2>8, <2>9, <2>10, <2>11
<1>11. ASSUME NEW p \in Peer(n), sock'[n][p] # NoConn
       PROVE  \E u : Utters(n, p, S, u)
  <2>1. PICK u : /\ Tells(u, role) /\ msgs'[n][p] = msgs[n][p] \o u
                 /\ changed => ~Lacks(u, Asking)
                 /\ p \in S => ~Lacks(u, Asking)
    BY <1>10, <1>11
  <2>2. u \in Seq(Message) /\ Says(u, run[n], run'[n]) /\ Lacks(u, DataKind)
    BY <2>1, TellingFacts DEF Tells
  <2> QED
    BY <2>1, <2>2 DEF Utters
<1>12. ASSUME NEW p \in Peer(n), sock'[n][p] = NoConn
       PROVE  msgs'[n][p] = msgs[n][p]
  <2>1. msgs'[n][p] = msgs[n][p] \o <<>>
    BY <1>10, <1>12
  <2>2. msgs[n][p] \in Seq(Message)
    BY DEF Types, MsgTypes, PerPeer
  <2> QED
    BY <2>1, <2>2, ConcatEmptySeq
<1>13. ASSUME NEW x \in Node, NEW y \in Peer(x), x # n
       PROVE  msgs'[x][y] = msgs[x][y]
  <2>1. msgs'[x][y] = q[x][y]
    BY <1>7, <1>13
  <2>2. q[x][y] = msgs[x][y]
    BY <1>1, <1>13
  <2> QED
    BY <2>1, <2>2
<1> QED
  BY <1>8, <1>9, <1>11, <1>12, <1>13 DEF Speaks

\* n calls the peers in S without a change of role.
LEMMA CallingSpeaks ==
  ASSUME Types, NEW n \in Node, NEW S \in SUBSET Callable(n),
         Connect(n, S, run[n]), shut' = shut, run' = run,
         msgs' = Announce(msgs, n, S, run[n], FALSE)
  PROVE  Speaks(n, S) /\ MsgTypes'
<1>1. run[n] \in Role
  BY DEF Types, NodeTypes
<1>2. Announced(msgs', n, S, run[n], FALSE)
  BY <1>1, AnnounceTells
<1>3. /\ PerPeer(msgs', Seq(Message))
      /\ \A x \in Node \ {n} : \A y \in Peer(x) : msgs'[x][y] = msgs[x][y]
      /\ \A p \in Peer(n) : \E u :
           /\ Tells(u, run[n]) /\ msgs'[n][p] = msgs[n][p] \o u
           /\ p \notin S => u = <<>>
           /\ p \in S => ~Lacks(u, Asking)
  BY <1>2 DEF Announced
<1>4. /\ \A x \in Node : \A y \in Peer(x) :
           sock'[x][y] = IF x = n /\ y \in S THEN Fresh(n, y) ELSE sock[x][y]
      /\ \A x \in Node :
           backlog'[x] = IF x \in S THEN Append(backlog[x], Fresh(n, x)) ELSE backlog[x]
  BY ConnectCalls
<1>5. ASSUME NEW p \in Peer(n)
      PROVE  \E u : Utters(n, p, S, u)
  <2>1. PICK u : /\ Tells(u, run[n]) /\ msgs'[n][p] = msgs[n][p] \o u
                 /\ p \in S => ~Lacks(u, Asking)
    BY <1>3
  <2>2. u \in Seq(Message) /\ Says(u, run[n], run'[n]) /\ Lacks(u, DataKind)
    BY <1>1, <2>1, TellingFacts DEF Tells
  <2> QED
    BY <2>1, <2>2 DEF Utters
<1>6. ASSUME NEW p \in Peer(n), sock'[n][p] = NoConn
      PROVE  msgs'[n][p] = msgs[n][p]
  <2>1. p \notin S
    BY <1>4, <1>6, FreshFacts, ConnFacts
  <2>2. msgs'[n][p] = msgs[n][p] \o <<>>
    BY <1>3, <2>1
  <2>3. msgs[n][p] \in Seq(Message)
    BY DEF Types, MsgTypes, PerPeer
  <2> QED
    BY <2>2, <2>3, ConcatEmptySeq
<1>7. MsgTypes'
  BY <1>3 DEF MsgTypes, PerPeer, Peer
<1> QED
  BY <1>3, <1>4, <1>5, <1>6, <1>7 DEF Speaks

\* n keeps its sockets and its role.
Stays(n) == sock' = sock /\ backlog' = backlog /\ shut' = shut /\ run' = run

LEMMA NothingSaid ==
  ASSUME Types, NEW n \in Node, NEW p \in Peer(n), Stays(n), msgs'[n][p] = msgs[n][p]
  PROVE  Utters(n, p, {}, <<>>)
<1>1. /\ msgs[n][p] \in Seq(Message) /\ <<>> \in Seq(Message) /\ Len(<<>>) = 0
  BY DEF Types, MsgTypes, PerPeer
<1>2. msgs[n][p] \o <<>> = msgs[n][p]
  BY <1>1, ConcatEmptySeq
<1>3. Says(<<>>, run[n], run'[n])
  BY <1>1 DEF Says, Stays
<1> QED
  BY <1>1, <1>2, <1>3 DEF Utters

LEMMA SilenceSpeaks ==
  ASSUME Types, NEW n \in Node, Stays(n), msgs' = msgs
  PROVE  /\ Speaks(n, {}) /\ MsgTypes'
         /\ \A p \in Peer(n) : Utters(n, p, {}, <<>>)
<1>1. \A p \in Peer(n) : Utters(n, p, {}, <<>>)
  BY NothingSaid
<1>2. Speaks(n, {})
  BY <1>1 DEF Speaks, Stays
<1>3. MsgTypes'
  BY DEF Types, MsgTypes, PerPeer, Peer
<1> QED
  BY <1>1, <1>2, <1>3

LEMMA EnqueueSpeaks ==
  ASSUME Types, NEW n \in Node, NEW p \in Peer(n), Stays(n),
         NEW w \in Seq(Message), Says(w, run[n], run[n]),
         msgs' = Enqueue(msgs, n, p, w)
  PROVE  /\ Speaks(n, {}) /\ MsgTypes'
         /\ sock[n][p] # NoConn => Utters(n, p, {}, w)
<1>1. CASE sock[n][p] = NoConn
  BY <1>1, SilenceSpeaks DEF Enqueue
<1>2. CASE sock[n][p] # NoConn
  <2>1. msgs' = [msgs EXCEPT ![n][p] = msgs[n][p] \o w]
    BY <1>2 DEF Enqueue
  <2>2. PerPeer(msgs, Seq(Message)) /\ msgs[n][p] \in Seq(Message)
    BY DEF Types, MsgTypes, PerPeer
  <2>3. msgs[n][p] \o w \in Seq(Message)
    <3> DEFINE a == msgs[n][p]
    <3>1. a \in Seq(Message)
      BY <2>2
    <3> HIDE DEF a
    <3>2. a \o w \in Seq(Message)
      BY <3>1, ConcatProperties
    <3> QED
      BY <3>2 DEF a
  <2>4. /\ PerPeer(msgs', Seq(Message))
        /\ \A x \in Node : \A y \in Peer(x) :
             msgs'[x][y] = IF x = n /\ y = p THEN msgs[n][p] \o w ELSE msgs[x][y]
    BY <2>1, <2>2, <2>3 DEF PerPeer
  <2>5. MsgTypes'
    BY <2>4 DEF MsgTypes, PerPeer, Peer
  <2>6. Utters(n, p, {}, w)
    BY <2>4 DEF Utters, Stays
  <2>7. \A y \in Peer(n) : \E u : Utters(n, y, {}, u)
    BY <2>4, <2>6, NothingSaid
  <2>8. Speaks(n, {})
    BY <1>2, <2>4, <2>7 DEF Speaks, Stays
  <2> QED
    BY <2>5, <2>6, <2>8
<1> QED
  BY <1>1, <1>2

\* One message of a kind that needs no change of role.
LEMMA AnswerSays ==
  ASSUME NEW r \in Role
  PROVE  /\ \A o \in {"state", "data"} :
              <<Error(o)>> \in Seq(Message) /\ Says(<<Error(o)>>, r, r)
         /\ <<State(r)>> \in Seq(Message) /\ Says(<<State(r)>>, r, r)
         /\ <<Ack(r)>> \in Seq(Message) /\ Says(<<Ack(r)>>, r, r)
         /\ ~Lacks(<<Ack(r)>>, RoleKind)
<1>1. /\ State(r) \in Message /\ State(r).t = "state" /\ State(r).r = r
      /\ Ack(r) \in Message /\ Ack(r).t = "ack" /\ Ack(r).r = r
  BY MessageTypes DEF State, Ack
<1>2. \A o \in {"state", "data"} : Error(o) \in Message /\ Error(o).t = "error"
  BY MessageTypes DEF Error
<1>3. \A m \in Message : <<m>> \in Seq(Message) /\ Len(<<m>>) = 1 /\ <<m>>[1] = m
  OBVIOUS
<1>4. /\ \A o \in {"state", "data"} : Says(<<Error(o)>>, r, r)
      /\ Says(<<State(r)>>, r, r) /\ Says(<<Ack(r)>>, r, r)
  BY <1>1, <1>2, <1>3 DEF Says, RoleKind
<1>5. ~Lacks(<<Ack(r)>>, RoleKind)
  BY <1>1, <1>3 DEF Lacks, RoleKind
<1> QED
  BY <1>1, <1>2, <1>3, <1>4, <1>5

-----------------------------------------------------------------------------
(***************************************************************************)
(* Each handler: its types, and which kind of step it is.                  *)
(***************************************************************************)
SpeakStep(n) == Quietly /\ \E S : Speaks(n, S)
HearStep(n, p) == \E S : Speaks(n, S) /\ Hears(n, p, S)

LEMMA CheckCarpSpeaks ==
  ASSUME Types, NEW n \in Node, NEW S \in SUBSET Callable(n), NEW again \in SUBSET Peer(n),
         \A p \in again : sock[n][p] # NoConn, up[n],
         CheckCarp(n, S, again), up' = up, carp' = carp, shut' = shut
  PROVE  Speaks(n, S) /\ NodeTypes' /\ SockTypes' /\ MsgTypes' /\ CountTypes'
<1> USE DEF Types
<1>1. CASE carp[n] = run[n]
  <2>1. S = {} /\ UNCHANGED <<run, promisc, left, sock, backlog, snap, msgs>>
    BY <1>1 DEF CheckCarp
  <2>2. Speaks(n, S) /\ MsgTypes'
    <3>1. Stays(n) /\ msgs' = msgs
      BY <2>1 DEF Stays
    <3> QED
      BY <2>1, <3>1, SilenceSpeaks
  <2>3. NodeTypes' /\ SockTypes' /\ CountTypes'
    BY <2>1 DEF NodeTypes, SockTypes, CountTypes, PerPeer, Between, Peer, Conn, NoConn
  <2> QED
    BY <2>2, <2>3
<1>2. CASE carp[n] # run[n]
  <2>1. /\ run' = [run EXCEPT ![n] = carp[n]]
        /\ promisc' = [promisc EXCEPT ![n] = @ \/ carp[n] = "MASTER"]
        /\ Connect(n, S, carp[n])
        /\ msgs' = [Announce(msgs, n, S, carp[n], TRUE) EXCEPT ![n] =
              [p \in Peer(n) |-> @[p] \o IF p \in again THEN <<State(carp[n])>> ELSE <<>>]]
    BY <1>2 DEF CheckCarp
  <2>2. carp[n] \in Role /\ run \in [Node -> Role] /\ promisc \in [Node -> BOOLEAN]
    BY SasyncAssumption DEF NodeTypes, Role
  <2>3. run' \in [Node -> Role] /\ run'[n] = carp[n] /\ \A x \in Node : x # n => run'[x] = run[x]
    BY <2>1, <2>2
  <2>4. Speaks(n, S) /\ MsgTypes'
    BY <2>1, <2>2, <2>3, TellingSpeaks
  <2>5. SockTypes' /\ CountTypes'
    BY <2>1, ConnectCalls
  <2>6. promisc' \in [Node -> BOOLEAN]
    BY <2>1, <2>2
  <2>7. NodeTypes'
    BY <2>3, <2>6 DEF NodeTypes
  <2> QED
    BY <2>4, <2>5, <2>7
<1> QED
  BY <1>1, <1>2

LEMMA CarpTrackerStep ==
  ASSUME Types, NEW n \in Node, CarpTracker(n)
  PROVE  SpeakStep(n) /\ Types'
<1>1. PICK S \in SUBSET Callable(n) : CheckCarp(n, S, {})
  BY DEF CarpTracker
<1>2. UNCHANGED <<up, carp, view, shut, inbox, sadb, events, pfq>> /\ up[n]
  BY DEF CarpTracker, Idle
<1>3. Speaks(n, S) /\ NodeTypes' /\ SockTypes' /\ MsgTypes' /\ CountTypes'
  BY <1>1, <1>2, CheckCarpSpeaks
<1>4. ConnTypes' /\ DataTypes' /\ PerPeer(view, Role)'
  BY <1>2 DEF Types, ConnTypes, DataTypes, PerPeer, Peer, Conn, Op
<1> QED
  BY <1>2, <1>3, <1>4 DEF SpeakStep, Quietly, Types

LEMMA CheckPeersStep ==
  ASSUME Types, NEW n \in Node, CheckPeers(n)
  PROVE  SpeakStep(n) /\ Types'
<1>1. PICK S \in SUBSET Callable(n) :
        Connect(n, S, run[n]) /\ msgs' = Announce(msgs, n, S, run[n], FALSE)
  BY DEF CheckPeers, PeersToCall
<1>2. UNCHANGED <<up, carp, run, view, shut, inbox, promisc, sadb, events, pfq>>
  BY DEF CheckPeers, nodeVars, dataVars
<1>3. Speaks(n, S) /\ MsgTypes'
  BY <1>1, <1>2, CallingSpeaks
<1>4. SockTypes' /\ CountTypes'
  BY <1>1, ConnectCalls
<1>5. NodeTypes' /\ ConnTypes' /\ DataTypes' /\ PerPeer(view, Role)'
  BY <1>2 DEF Types, NodeTypes, ConnTypes, DataTypes, PerPeer, Peer, Conn, Op, Role
<1> QED
  BY <1>2, <1>3, <1>4, <1>5 DEF SpeakStep, Quietly, Types

LEMMA StartStep ==
  ASSUME Types, NEW n \in Node, Start(n)
  PROVE  SpeakStep(n) /\ Types'
<1>1. PICK S \in SUBSET Callable(n) :
        Connect(n, S, "INIT") /\ msgs' = Announce(msgs, n, S, "INIT", FALSE)
  BY DEF Start
<1>2. /\ UNCHANGED <<carp, run, view, shut, inbox, promisc, sadb, events, pfq>>
      /\ ~up[n] /\ up' = [up EXCEPT ![n] = TRUE]
  BY DEF Start, dataVars
<1>3. run[n] = "INIT"
  BY <1>2 DEF Types, NodeTypes
<1>4. Speaks(n, S) /\ MsgTypes'
  BY <1>1, <1>2, <1>3, CallingSpeaks
<1>5. SockTypes' /\ CountTypes'
  BY <1>1, ConnectCalls
<1>6. NodeTypes'
  BY <1>2 DEF Types, NodeTypes
<1>7. ConnTypes' /\ DataTypes' /\ PerPeer(view, Role)'
  BY <1>2 DEF Types, ConnTypes, DataTypes, PerPeer, Peer, Conn, Op
<1> QED
  BY <1>2, <1>4, <1>5, <1>6, <1>7 DEF SpeakStep, Quietly, Types

LEMMA SnapshotStep ==
  ASSUME Types, NEW n \in Node, NEW p \in Peer(n), Snapshot(n, p)
  PROVE  SpeakStep(n) /\ Types'
<1> DEFINE w == AsData(SnapshotOps(sadb[n]), run[n])
<1>1. /\ UNCHANGED <<up, carp, run, view, sock, backlog, shut, inbox,
                     promisc, sadb, events, pfq, left>>
      /\ snap[n][p] > 0 /\ snap' = [snap EXCEPT ![n][p] = @ - 1]
      /\ msgs' = Enqueue(msgs, n, p, w)
  BY DEF Snapshot, nodeVars, linkVars, dataVars
<1>2. sadb[n] \subseteq Sa /\ IsFiniteSet(sadb[n]) /\ run[n] \in Role
  BY DEF Types, DataTypes, NodeTypes
<1>3. w \in Seq(Message) /\ Says(w, run[n], run[n])
  BY <1>2, SnapshotSays
<1>4. Stays(n)
  BY <1>1 DEF Stays
<1> HIDE DEF w
<1>5. Speaks(n, {}) /\ MsgTypes'
  BY <1>1, <1>3, <1>4, EnqueueSpeaks
<1>6. CountTypes'
  <2>1. PerPeer(snap, Nat)
    BY DEF Types, CountTypes
  <2>2. snap[n][p] - 1 \in Nat /\ snap' = [snap EXCEPT ![n][p] = snap[n][p] - 1]
    BY <1>1, <2>1 DEF PerPeer
  <2>3. PerPeer(snap', Nat)
    BY <2>1, <2>2 DEF PerPeer
  <2> QED
    BY <1>1, <2>3 DEF Types, CountTypes, PerPeer, Peer
<1>7. NodeTypes' /\ SockTypes' /\ ConnTypes' /\ DataTypes' /\ PerPeer(view, Role)'
  BY <1>1 DEF Types, NodeTypes, SockTypes, ConnTypes, DataTypes, PerPeer, Peer, Conn, Op,
              Role, Between, NoConn
<1> QED
  BY <1>1, <1>5, <1>6, <1>7 DEF SpeakStep, Quietly, Types

LEMMA PfkeyReadStep ==
  ASSUME Types, NEW n \in Node, PfkeyRead(n)
  PROVE  SpeakStep(n) /\ Types'
<1> DEFINE op == Head(events[n])
           h == [p \in Peer(n) |-> IF sock[n][p] = NoConn THEN msgs[n][p]
                                   ELSE Append(msgs[n][p], Data(op, "MASTER"))]
<1>1. /\ UNCHANGED <<up, carp, run, view, snap, sock, backlog, shut, inbox,
                     promisc, sadb, pfq, left>>
      /\ events[n] # <<>> /\ events' = [events EXCEPT ![n] = Tail(@)]
      /\ msgs' = IF run[n] = "MASTER" /\ Synced(op) THEN [msgs EXCEPT ![n] = h] ELSE msgs
  BY DEF PfkeyRead, nodeVars, linkVars
<1>2. Stays(n)
  BY <1>1 DEF Stays
<1>3. op \in Op /\ Tail(events[n]) \in Seq(Op)
  <2>1. events[n] \in Seq(Op)
    BY DEF Types, DataTypes
  <2> QED
    BY <1>1, <2>1, HeadTailProperties
<1>4. Data(op, "MASTER") \in Message
  BY <1>3, MessageTypes DEF Role
<1> DEFINE w == <<Data(op, "MASTER")>>
<1>5. w \in Seq(Message) /\ Says(w, "MASTER", "MASTER")
  <2>1. \A m \in Message : <<m>> \in Seq(Message) /\ Len(<<m>>) = 1 /\ <<m>>[1] = m
    OBVIOUS
  <2>2. Data(op, "MASTER").t = "data" /\ Data(op, "MASTER").by = "MASTER"
    BY DEF Data
  <2> QED
    BY <1>4, <2>1, <2>2 DEF Says, RoleKind
<1>6. PerPeer(msgs, Seq(Message)) /\ \A p \in Peer(n) : msgs[n][p] \in Seq(Message)
  BY DEF Types, MsgTypes, PerPeer
<1>7. \A a \in Seq(Message) : /\ Append(a, Data(op, "MASTER")) = a \o w
                              /\ Append(a, Data(op, "MASTER")) \in Seq(Message)
  BY <1>4, AppendIsConcat, AppendProperties
<1> HIDE DEF op, w
<1>8. h \in [Peer(n) -> Seq(Message)]
  BY <1>6, <1>7
<1>9. \A p \in Peer(n) : h[p] = IF sock[n][p] = NoConn THEN msgs[n][p] ELSE msgs[n][p] \o w
  BY <1>6, <1>7
<1> HIDE DEF h
<1>10. ASSUME run[n] = "MASTER" /\ Synced(op)
       PROVE  Speaks(n, {}) /\ MsgTypes'
  <2>1. /\ PerPeer(msgs', Seq(Message))
        /\ \A x \in Node : \A y \in Peer(x) : msgs'[x][y] = IF x = n THEN h[y] ELSE msgs[x][y]
    BY <1>1, <1>6, <1>8, <1>10 DEF PerPeer
  <2>2. MsgTypes'
    BY <2>1 DEF MsgTypes, PerPeer, Peer
  <2>3. \A p \in Peer(n) : sock[n][p] # NoConn => Utters(n, p, {}, w)
    BY <1>5, <1>9, <1>10, <2>1, <1>2 DEF Utters, Stays
  <2>4. Speaks(n, {})
    BY <1>2, <1>9, <2>1, <2>3 DEF Speaks, Stays
  <2> QED
    BY <2>2, <2>4
<1>11. ASSUME ~(run[n] = "MASTER" /\ Synced(op))
       PROVE  Speaks(n, {}) /\ MsgTypes'
  <2>1. msgs' = msgs
    BY <1>1, <1>11
  <2> QED
    BY <1>2, <2>1, SilenceSpeaks
<1>12. Speaks(n, {}) /\ MsgTypes'
  BY <1>10, <1>11
<1>13. DataTypes'
  BY <1>1, <1>3 DEF Types, DataTypes, Op
<1>14. NodeTypes' /\ SockTypes' /\ ConnTypes' /\ CountTypes' /\ PerPeer(view, Role)'
  BY <1>1 DEF Types, NodeTypes, SockTypes, ConnTypes, CountTypes, PerPeer, Peer, Conn,
              Role, Between, NoConn
<1> QED
  BY <1>1, <1>12, <1>13, <1>14 DEF SpeakStep, Quietly, Types

\* The kernel's database, and what the world does.
LEMMA DoType ==
  ASSUME NEW db, db \subseteq Sa, IsFiniteSet(db), NEW op \in Op
  PROVE  Do(db, op) \subseteq Sa /\ IsFiniteSet(Do(db, op))
<1>1. op.k = "add" => op.s \in Sa
  BY DEF Op, Flush
<1>2. IsFiniteSet({}) /\ IsFiniteSet(db \cup {op.s}) /\ IsFiniteSet(db \ {op.s})
  BY FS_EmptySet, FS_AddElement, FS_RemoveElement
<1> QED
  BY <1>1, <1>2 DEF Do

\* A step that no peer sees.
LEMMA HiddenStep ==
  ASSUME Types, NEW n \in Node, UNCHANGED <<run, sock, backlog, shut, msgs, view, inbox>>
  PROVE  /\ SpeakStep(n) /\ SockTypes' /\ MsgTypes' /\ ConnTypes' /\ PerPeer(view, Role)'
<1>1. Speaks(n, {}) /\ MsgTypes'
  BY SilenceSpeaks DEF Stays
<1>2. SockTypes' /\ ConnTypes' /\ PerPeer(view, Role)'
  BY DEF Types, SockTypes, ConnTypes, PerPeer, Peer, Conn, Between, NoConn
<1> QED
  BY <1>1, <1>2 DEF SpeakStep, Quietly

LEMMA PfkeyWriteStep ==
  ASSUME Types, NEW n \in Node, PfkeyWrite(n)
  PROVE  SpeakStep(n) /\ Types'
<1>1. /\ UNCHANGED <<up, carp, run, view, snap, sock, backlog, shut, msgs, inbox,
                     promisc, events, left>>
      /\ pfq[n] # <<>>
      /\ sadb' = [sadb EXCEPT ![n] = Do(@, Head(pfq[n]))]
      /\ pfq' = [pfq EXCEPT ![n] = Tail(@)]
  BY DEF PfkeyWrite, nodeVars, linkVars
<1>2. /\ pfq[n] \in Seq(Op) /\ sadb[n] \subseteq Sa /\ IsFiniteSet(sadb[n])
      /\ sadb \in [Node -> SUBSET Sa] /\ pfq \in [Node -> Seq(Op)]
  BY DEF Types, DataTypes
<1>3. Head(pfq[n]) \in Op /\ Tail(pfq[n]) \in Seq(Op)
  BY <1>1, <1>2, HeadTailProperties
<1>4. Do(sadb[n], Head(pfq[n])) \subseteq Sa /\ IsFiniteSet(Do(sadb[n], Head(pfq[n])))
  BY <1>2, <1>3, DoType
<1>5. DataTypes'
  BY <1>1, <1>2, <1>3, <1>4 DEF Types, DataTypes, Op
<1>6. /\ SpeakStep(n) /\ SockTypes' /\ MsgTypes' /\ ConnTypes' /\ PerPeer(view, Role)'
  BY <1>1, HiddenStep
<1>7. NodeTypes' /\ CountTypes'
  BY <1>1 DEF Types, NodeTypes, CountTypes, PerPeer, Peer, Role
<1> QED
  BY <1>5, <1>6, <1>7 DEF Types

LEMMA FlipStep ==
  ASSUME Types, NEW n \in Node, Flip(n)
  PROVE  SpeakStep(n) /\ Types'
<1>1. /\ UNCHANGED <<up, run, view, snap, sock, msgs, backlog, shut, inbox,
                     promisc, sadb, events, pfq>>
      /\ Trouble("flip", 1)
  BY DEF Flip, dataVars
<1>2. PICK c \in CarpState : carp' = [carp EXCEPT ![n] = c]
  BY DEF Flip
<1>3. SpeakStep(n) /\ SockTypes' /\ MsgTypes' /\ ConnTypes' /\ PerPeer(view, Role)'
  BY <1>1, HiddenStep
<1>4. NodeTypes' /\ DataTypes'
  BY <1>1, <1>2 DEF Types, NodeTypes, DataTypes, Op, Role
<1>5. CountTypes'
  <2>1. left.troubles - 1 \in Nat /\ left' = [left EXCEPT !.troubles = left.troubles - 1]
    BY <1>1 DEF Trouble, Types, CountTypes
  <2> QED
    BY <1>1, <2>1 DEF Types, CountTypes, PerPeer, Peer
<1> QED
  BY <1>3, <1>4, <1>5 DEF Types

LEMMA KernelChangeStep ==
  ASSUME Types, NEW n \in Node, KernelChange(n)
  PROVE  SpeakStep(n) /\ Types'
<1>1. /\ UNCHANGED <<up, carp, run, view, snap, sock, backlog, shut, msgs, inbox,
                     promisc, pfq>>
      /\ left.ops > 0 /\ left' = [left EXCEPT !.ops = @ - 1]
  BY DEF KernelChange, nodeVars, linkVars
<1>2. PICK op \in Op :
        /\ sadb' = [sadb EXCEPT ![n] = Do(@, op)]
        /\ events' = IF up[n] /\ promisc[n] THEN [events EXCEPT ![n] = Append(@, op)] ELSE events
  BY DEF KernelChange
<1>3. /\ events[n] \in Seq(Op) /\ sadb[n] \subseteq Sa /\ IsFiniteSet(sadb[n])
      /\ sadb \in [Node -> SUBSET Sa] /\ events \in [Node -> Seq(Op)]
  BY DEF Types, DataTypes
<1>4. Do(sadb[n], op) \subseteq Sa /\ IsFiniteSet(Do(sadb[n], op))
  BY <1>3, DoType
<1>5. Append(events[n], op) \in Seq(Op)
  BY <1>3, AppendProperties
<1>6. events' \in [Node -> Seq(Op)]
  BY <1>2, <1>3, <1>5
<1>7. DataTypes'
  BY <1>1, <1>2, <1>3, <1>4, <1>6 DEF Types, DataTypes, Op
<1>8. SpeakStep(n) /\ SockTypes' /\ MsgTypes' /\ ConnTypes' /\ PerPeer(view, Role)'
  BY <1>1, HiddenStep
<1>9. NodeTypes'
  BY <1>1 DEF Types, NodeTypes, Role
<1>10. CountTypes'
  <2>1. left.ops - 1 \in Nat /\ left' = [left EXCEPT !.ops = left.ops - 1]
    BY <1>1 DEF Types, CountTypes
  <2> QED
    BY <1>1, <2>1 DEF Types, CountTypes, PerPeer, Peer
<1> QED
  BY <1>7, <1>8, <1>9, <1>10 DEF Types

(***************************************************************************)
(* Reading a message of p.                                                 *)
(***************************************************************************)
LEMMA TakeTypes ==
  ASSUME Types, NEW n \in Node, NEW p \in Peer(n), Take(n, p), shut' = shut
  PROVE  /\ sock[n][p] # NoConn /\ sock[n][p] \in Between(n, p) /\ sock[n][p] \in Conn
         /\ Incoming(n, p) # <<>> /\ Head(Incoming(n, p)) \in Message
         /\ inbox' = [inbox EXCEPT ![sock[n][p]][n] = Tail(@)]
         /\ ConnTypes'
<1> DEFINE c == sock[n][p]
<1>1. c # NoConn /\ inbox[c][n] # <<>> /\ inbox' = [inbox EXCEPT ![c][n] = Tail(@)]
  BY DEF Take, Incoming
<1>2. c \in Between(n, p) /\ c \in Conn
  BY <1>1 DEF Types, SockTypes, Between
<1> HIDE DEF c
<1>3. inbox \in [Conn -> [Node -> Seq(Message)]] /\ inbox[c][n] \in Seq(Message)
  BY <1>2 DEF Types, ConnTypes
<1>4. Head(inbox[c][n]) \in Message /\ Tail(inbox[c][n]) \in Seq(Message)
  BY <1>1, <1>3, HeadTailProperties
<1>5. inbox' \in [Conn -> [Node -> Seq(Message)]]
  BY <1>1, <1>2, <1>3, <1>4
<1>6. ConnTypes'
  <2>1. shut' \in [Conn -> SUBSET Node]
    BY DEF Types, ConnTypes
  <2> QED
    BY <1>5, <2>1 DEF ConnTypes, Conn, Message
<1> QED
  BY <1>1, <1>2, <1>4, <1>6 DEF c, Incoming

\* The view of n after m, and a step in which n reads m and says u.
LEMMA BelieveFacts ==
  ASSUME Types, NEW n \in Node, NEW p \in Peer(n), NEW m \in Message, m.t \in RoleKind,
         Believe(n, p, m.r)
  PROVE  /\ PerPeer(view, Role)'
         /\ \A x \in Node : \A y \in Peer(x) : x # n \/ y # p => view'[x][y] = view[x][y]
         /\ Contradicts(n, m.r) => view'[n][p] = view[n][p]
         /\ ~Contradicts(n, m.r) => view'[n][p] = m.r
<1>1. m.r \in Role /\ PerPeer(view, Role)
  BY MessageTypes DEF Types
<1>2. view' = IF Contradicts(n, m.r) THEN view ELSE [view EXCEPT ![n][p] = m.r]
  BY DEF Believe
<1>3. /\ PerPeer(view', Role)
      /\ \A x \in Node : \A y \in Peer(x) :
           view'[x][y] = IF x = n /\ y = p /\ ~Contradicts(n, m.r) THEN m.r ELSE view[x][y]
  BY <1>1, <1>2 DEF PerPeer
<1> QED
  BY <1>3 DEF PerPeer, Peer

LEMMA ReadingHears ==
  ASSUME Types, NEW n \in Node, NEW p \in Peer(n), NEW S, NEW u, Take(n, p), shut' = shut,
         Speaks(n, S), Utters(n, p, S, u),
         \A x \in Node : \A y \in Peer(x) : x # n \/ y # p => view'[x][y] = view[x][y],
         Answers(Head(Incoming(n, p)), view[n][p], view'[n][p], run[n], u)
  PROVE  HearStep(n, p)
<1>1. /\ sock[n][p] # NoConn /\ inbox[sock[n][p]][n] # <<>>
      /\ inbox' = [inbox EXCEPT ![sock[n][p]][n] = Tail(@)]
  BY TakeTypes DEF Incoming
<1>2. \E w : /\ Utters(n, p, S, w)
             /\ Answers(Head(inbox[sock[n][p]][n]), view[n][p], view'[n][p], run[n], w)
  BY DEF Incoming
<1>3. Hears(n, p, S)
  BY <1>1, <1>2 DEF Hears
<1> QED
  BY <1>3 DEF HearStep

LEMMA HandleStateStep ==
  ASSUME Types, NEW n \in Node, NEW p \in Peer(n), HandleState(n, p)
  PROVE  HearStep(n, p) /\ Types'
<1> DEFINE m == Head(Incoming(n, p))
           w == Reply(n, m.r)
<1>1. /\ UNCHANGED <<up, carp, run, snap, sock, backlog, shut, promisc, sadb, events, pfq, left>>
      /\ Take(n, p) /\ m.t = "state" /\ Believe(n, p, m.r)
      /\ msgs' = Enqueue(msgs, n, p, w)
  BY DEF HandleState, nodeVars, linkVars, dataVars
<1>2. /\ sock[n][p] # NoConn /\ m \in Message /\ ConnTypes'
  BY <1>1, TakeTypes
<1>3. m.t \in RoleKind
  BY <1>1 DEF RoleKind
<1> HIDE DEF m
<1>4. /\ PerPeer(view, Role)'
      /\ \A x \in Node : \A y \in Peer(x) : x # n \/ y # p => view'[x][y] = view[x][y]
      /\ Contradicts(n, m.r) => view'[n][p] = view[n][p]
      /\ ~Contradicts(n, m.r) => view'[n][p] = m.r
  BY <1>1, <1>2, <1>3, BelieveFacts
<1>5. run[n] \in Role
  BY DEF Types, NodeTypes
<1>6. w \in Seq(Message) /\ Says(w, run[n], run[n])
  BY <1>5, AnswerSays DEF Reply
<1>7. ~Contradicts(n, m.r) => ~Lacks(w, RoleKind)
  BY <1>5, AnswerSays DEF Reply
<1>8. Stays(n)
  BY <1>1 DEF Stays
<1> HIDE DEF w
<1>9. Speaks(n, {}) /\ MsgTypes' /\ Utters(n, p, {}, w)
  BY <1>1, <1>2, <1>6, <1>8, EnqueueSpeaks
<1>10. Answers(m, view[n][p], view'[n][p], run[n], w)
  BY <1>3, <1>4, <1>7 DEF Answers, Contradicts
<1>11. HearStep(n, p)
  BY <1>1, <1>4, <1>9, <1>10, ReadingHears DEF m
<1>12. NodeTypes' /\ SockTypes' /\ DataTypes' /\ CountTypes'
  BY <1>1 DEF Types, NodeTypes, SockTypes, DataTypes, CountTypes, PerPeer, Peer, Conn, Op,
              Role, Between, NoConn
<1> QED
  BY <1>2, <1>4, <1>9, <1>11, <1>12 DEF Types

LEMMA HandleAckStep ==
  ASSUME Types, NEW n \in Node, NEW p \in Peer(n), HandleAck(n, p)
  PROVE  HearStep(n, p) /\ Types'
<1> DEFINE m == Head(Incoming(n, p))
<1>1. /\ UNCHANGED <<up, carp, run, snap, sock, backlog, shut, promisc, sadb, events, pfq, left>>
      /\ Take(n, p) /\ m.t = "ack" /\ Believe(n, p, m.r)
      /\ msgs' = IF Contradicts(n, m.r) THEN Enqueue(msgs, n, p, <<Error("state")>>) ELSE msgs
  BY DEF HandleAck, nodeVars, linkVars, dataVars
<1>2. /\ sock[n][p] # NoConn /\ m \in Message /\ ConnTypes'
  BY <1>1, TakeTypes
<1>3. m.t \in RoleKind /\ m.t \notin Asking
  BY <1>1 DEF RoleKind, Asking
<1> HIDE DEF m
<1>4. /\ PerPeer(view, Role)'
      /\ \A x \in Node : \A y \in Peer(x) : x # n \/ y # p => view'[x][y] = view[x][y]
      /\ Contradicts(n, m.r) => view'[n][p] = view[n][p]
      /\ ~Contradicts(n, m.r) => view'[n][p] = m.r
  BY <1>1, <1>2, <1>3, BelieveFacts
<1>5. run[n] \in Role
  BY DEF Types, NodeTypes
<1>6. Stays(n)
  BY <1>1 DEF Stays
<1>7. Speaks(n, {}) /\ MsgTypes' /\ \E u : Utters(n, p, {}, u)
  <2>1. CASE Contradicts(n, m.r)
    <3>1. <<Error("state")>> \in Seq(Message) /\ Says(<<Error("state")>>, run[n], run[n])
      BY <1>5, AnswerSays
    <3>2. msgs' = Enqueue(msgs, n, p, <<Error("state")>>)
      BY <1>1, <2>1
    <3> QED
      BY <1>2, <1>6, <3>1, <3>2, EnqueueSpeaks
  <2>2. CASE ~Contradicts(n, m.r)
    BY <1>1, <1>6, <2>2, SilenceSpeaks
  <2> QED
    BY <2>1, <2>2
<1>8. PICK u : Utters(n, p, {}, u)
  BY <1>7
<1>9. Answers(m, view[n][p], view'[n][p], run[n], u)
  BY <1>3, <1>4 DEF Answers, Contradicts
<1>10. HearStep(n, p)
  BY <1>1, <1>4, <1>7, <1>8, <1>9, ReadingHears DEF m
<1>11. NodeTypes' /\ SockTypes' /\ DataTypes' /\ CountTypes'
  BY <1>1 DEF Types, NodeTypes, SockTypes, DataTypes, CountTypes, PerPeer, Peer, Conn, Op,
              Role, Between, NoConn
<1> QED
  BY <1>2, <1>4, <1>7, <1>10, <1>11 DEF Types

LEMMA HandleErrorStep ==
  ASSUME Types, NEW n \in Node, NEW p \in Peer(n), HandleError(n, p)
  PROVE  HearStep(n, p) /\ Types'
<1> DEFINE m == Head(Incoming(n, p))
<1>1. /\ UNCHANGED <<up, carp, view, shut, sadb, events, pfq>>
      /\ Take(n, p) /\ m.t = "error" /\ up[n]
      /\ IF m.of = "state"
         THEN \E S \in SUBSET Callable(n) : CheckCarp(n, S, {p})
         ELSE UNCHANGED <<run, promisc, left, sock, backlog, snap, msgs, follows>>
  BY DEF HandleError, Take, Now
<1>2. /\ sock[n][p] # NoConn /\ ConnTypes'
  BY <1>1, TakeTypes
<1>3. m.t \notin RoleKind /\ m.t \notin Asking
  BY <1>1 DEF RoleKind, Asking
<1> HIDE DEF m
<1>4. /\ \E S : Speaks(n, S)
      /\ NodeTypes' /\ SockTypes' /\ MsgTypes' /\ CountTypes'
  <2>1. CASE m.of = "state"
    <3>1. PICK S \in SUBSET Callable(n) : CheckCarp(n, S, {p})
      BY <1>1, <2>1
    <3> QED
      BY <1>1, <1>2, <3>1, CheckCarpSpeaks
  <2>2. CASE m.of # "state"
    <3>1. UNCHANGED <<run, promisc, left, sock, backlog, snap, msgs>>
      BY <1>1, <2>2
    <3>2. Stays(n)
      BY <1>1, <3>1 DEF Stays
    <3>3. Speaks(n, {}) /\ MsgTypes'
      BY <3>1, <3>2, SilenceSpeaks
    <3>4. NodeTypes' /\ SockTypes' /\ CountTypes'
      BY <1>1, <3>1 DEF Types, NodeTypes, SockTypes, CountTypes, PerPeer, Peer, Conn, Role,
                        Between, NoConn
    <3> QED
      BY <3>3, <3>4
  <2> QED
    BY <2>1, <2>2
<1>5. PICK S : Speaks(n, S)
  BY <1>4
<1>6. sock'[n][p] # NoConn
  BY <1>2, <1>5, FreshFacts, ConnFacts DEF Speaks
<1>7. PICK u : Utters(n, p, S, u)
  BY <1>5, <1>6 DEF Speaks
<1>8. Answers(m, view[n][p], view'[n][p], run[n], u)
  BY <1>1, <1>3 DEF Answers
<1>9. HearStep(n, p)
  BY <1>1, <1>5, <1>7, <1>8, ReadingHears DEF m
<1>10. DataTypes' /\ PerPeer(view, Role)'
  BY <1>1 DEF Types, DataTypes, PerPeer, Peer, Op, Role
<1> QED
  BY <1>2, <1>4, <1>9, <1>10 DEF Types

LEMMA HandleDataStep ==
  ASSUME Types, NEW n \in Node, NEW p \in Peer(n), HandleData(n, p)
  PROVE  HearStep(n, p) /\ Types'
<1> DEFINE m == Head(Incoming(n, p))
           w == IF run[n] = "MASTER" THEN <<State("MASTER")>> ELSE <<Error("data")>>
<1>1. /\ UNCHANGED <<up, carp, run, view, snap, sock, backlog, shut, promisc, sadb, events, left>>
      /\ Take(n, p) /\ m.t = "data"
      /\ \/ msgs' = msgs /\ pfq' = [pfq EXCEPT ![n] = Append(@, m.op)]
         \/ msgs' = Enqueue(msgs, n, p, w) /\ pfq' = pfq
  BY DEF HandleData, Queued, nodeVars, linkVars
<1>2. /\ sock[n][p] # NoConn /\ m \in Message /\ ConnTypes'
  BY <1>1, TakeTypes
<1>3. m.t \notin RoleKind /\ m.t \notin Asking
  BY <1>1 DEF RoleKind, Asking
<1>4. m.op \in Op
  BY <1>1, <1>2, MessageTypes
<1>5. run[n] \in Role
  BY DEF Types, NodeTypes
<1>6. w \in Seq(Message) /\ Says(w, run[n], run[n])
  BY <1>5, AnswerSays
<1>7. Stays(n)
  BY <1>1 DEF Stays
<1> HIDE DEF m, w
<1>8. Speaks(n, {}) /\ MsgTypes' /\ \E u : Utters(n, p, {}, u)
  <2>1. CASE msgs' = msgs
    BY <1>7, <2>1, SilenceSpeaks
  <2>2. CASE msgs' = Enqueue(msgs, n, p, w)
    BY <1>2, <1>6, <1>7, <2>2, EnqueueSpeaks
  <2> QED
    BY <1>1, <2>1, <2>2
<1>9. PICK u : Utters(n, p, {}, u)
  BY <1>8
<1>10. Answers(m, view[n][p], view'[n][p], run[n], u)
  BY <1>1, <1>3 DEF Answers
<1>11. HearStep(n, p)
  BY <1>1, <1>8, <1>9, <1>10, ReadingHears DEF m
<1>12. pfq' \in [Node -> Seq(Op)]
  <2>1. pfq \in [Node -> Seq(Op)] /\ pfq[n] \in Seq(Op)
    BY DEF Types, DataTypes
  <2>2. Append(pfq[n], m.op) \in Seq(Op)
    BY <1>4, <2>1, AppendProperties
  <2> QED
    BY <1>1, <2>1, <2>2
<1>13. DataTypes'
  BY <1>1, <1>12 DEF Types, DataTypes, Op
<1>14. NodeTypes' /\ SockTypes' /\ CountTypes' /\ PerPeer(view, Role)'
  BY <1>1 DEF Types, NodeTypes, SockTypes, CountTypes, PerPeer, Peer, Conn, Role,
              Between, NoConn
<1> QED
  BY <1>2, <1>8, <1>11, <1>13, <1>14 DEF Types

(***************************************************************************)
(* The steps that lose or replace a connection, or use it: types.          *)
(***************************************************************************)
LEMMA LetGoTypes ==
  ASSUME Types, NEW n \in Node, NEW c \in Conn \cup {NoConn}, NEW closed \in BOOLEAN,
         LetGo(c, n, closed)
  PROVE  ConnTypes'
<1>1. CASE c = NoConn
  <2>1. shut' = shut /\ inbox' = inbox
    BY <1>1 DEF LetGo
  <2>2. shut \in [Conn -> SUBSET Node] /\ inbox \in [Conn -> [Node -> Seq(Message)]]
    BY DEF Types, ConnTypes
  <2> QED
    BY <2>1, <2>2 DEF ConnTypes, Conn
<1>2. CASE c # NoConn
  <2>1. /\ shut \in [Conn -> SUBSET Node] /\ inbox \in [Conn -> [Node -> Seq(Message)]]
        /\ c \in Conn
    BY <1>2 DEF Types, ConnTypes
  <2>2. ShutAfter(c, n, closed) \in SUBSET Node
    BY <2>1 DEF ShutAfter
  <2>3. InboxAfter(c, n) \in [Node -> Seq(Message)]
    BY <2>1 DEF InboxAfter, Quiet
  <2>4. /\ shut' = [shut EXCEPT ![c] = ShutAfter(c, n, closed)]
        /\ inbox' = [inbox EXCEPT ![c] = InboxAfter(c, n)]
    BY <1>2 DEF LetGo
  <2>5. shut' \in [Conn -> SUBSET Node] /\ inbox' \in [Conn -> [Node -> Seq(Message)]]
    BY <2>1, <2>2, <2>3, <2>4
  <2> QED
    BY <2>5 DEF ConnTypes, Conn, Message
<1> QED
  BY <1>1, <1>2

LEMMA AcceptTypes ==
  ASSUME Types, NEW n \in Node, Accept(n)
  PROVE  Types'
<1> DEFINE c == Head(backlog[n])
           p == Other(c, n)
<1>1. /\ UNCHANGED <<up, carp, run, view, msgs, promisc, sadb, events, pfq, left>>
      /\ backlog[n] # <<>> /\ backlog' = [backlog EXCEPT ![n] = Tail(@)]
      /\ sock' = [sock EXCEPT ![n][p] = c]
      /\ snap' = IF run[n] = "MASTER" THEN [snap EXCEPT ![n][p] = @ + 1] ELSE snap
      /\ LetGo(sock[n][p], n, FALSE)
  BY DEF Accept, nodeVars, dataVars
<1>2. backlog[n] \in Seq(Conn) /\ backlog \in [Node -> Seq(Conn)]
  BY DEF Types, SockTypes
<1>3. c \in Conn /\ c \in Range(backlog[n]) /\ Tail(backlog[n]) \in Seq(Conn)
      /\ Range(Tail(backlog[n])) \subseteq Range(backlog[n])
  BY <1>1, <1>2, RangeFacts, HeadTailProperties
<1>4. c[2] = n
  BY <1>3 DEF Types, SockTypes
<1>5. p \in Peer(n) /\ c \in Between(n, p)
  BY <1>3, <1>4, ConnFacts
<1> HIDE DEF c, p
<1>6. PerPeer(sock, Conn \cup {NoConn}) /\ sock[n][p] \in Conn \cup {NoConn}
  BY <1>5 DEF Types, SockTypes, PerPeer
<1>7. /\ PerPeer(sock', Conn \cup {NoConn})
      /\ \A x \in Node : \A y \in Peer(x) :
           sock'[x][y] = IF x = n /\ y = p THEN c ELSE sock[x][y]
  BY <1>1, <1>3, <1>5, <1>6 DEF PerPeer
<1>8. backlog' \in [Node -> Seq(Conn)]
  BY <1>1, <1>2, <1>3
<1>9. \A x \in Node : \A d \in Range(backlog'[x]) : d[2] = x
  BY <1>1, <1>2, <1>3 DEF Types, SockTypes
<1>10. SockTypes'
  <2>1. \A x \in Node : \A y \in Peer(x) : sock'[x][y] \in Between(x, y) \cup {NoConn}
    BY <1>5, <1>7 DEF Types, SockTypes
  <2> QED
    BY <1>7, <1>8, <1>9, <2>1 DEF SockTypes, PerPeer, Peer, Conn, Between, NoConn
<1>11. ConnTypes'
  BY <1>1, <1>6, LetGoTypes
<1>12. CountTypes'
  <2>1. PerPeer(snap, Nat) /\ snap[n][p] + 1 \in Nat
    BY <1>5 DEF Types, CountTypes, PerPeer
  <2>2. snap' = snap \/ snap' = [snap EXCEPT ![n][p] = snap[n][p] + 1]
    BY <1>1
  <2>3. PerPeer(snap', Nat)
    BY <1>5, <2>1, <2>2 DEF PerPeer
  <2> QED
    BY <1>1, <2>3 DEF Types, CountTypes, PerPeer, Peer
<1>13. NodeTypes' /\ DataTypes'
  BY <1>1 DEF Types, NodeTypes, DataTypes, Op, Role
<1>14. MsgTypes' /\ PerPeer(view, Role)'
  BY <1>1 DEF Types, MsgTypes, PerPeer, Peer
<1> QED
  BY <1>10, <1>11, <1>12, <1>13, <1>14 DEF Types

LEMMA DisconnectTypes ==
  ASSUME Types, NEW n \in Node, NEW p \in Peer(n), Disconnect(n, p)
  PROVE  SockTypes' /\ ConnTypes'
<1>1. /\ sock' = [sock EXCEPT ![n][p] = NoConn] /\ LetGo(sock[n][p], n, TRUE)
      /\ backlog' = backlog
  BY DEF Disconnect
<1>2. PerPeer(sock, Conn \cup {NoConn}) /\ sock[n][p] \in Conn \cup {NoConn}
  BY DEF Types, SockTypes, PerPeer
<1>3. /\ PerPeer(sock', Conn \cup {NoConn})
      /\ \A x \in Node : \A y \in Peer(x) :
           sock'[x][y] = IF x = n /\ y = p THEN NoConn ELSE sock[x][y]
  BY <1>1, <1>2 DEF PerPeer
<1>4. SockTypes'
  BY <1>1, <1>3 DEF Types, SockTypes, PerPeer, Peer, Conn, Between, NoConn
<1>5. ConnTypes'
  BY <1>1, <1>2, LetGoTypes
<1> QED
  BY <1>4, <1>5

LEMMA ShiftTypes ==
  ASSUME Types, NEW n \in Node, NEW p \in Peer(n), msgs[n][p] # <<>>,
         msgs' = [msgs EXCEPT ![n][p] = Tail(@)]
  PROVE  /\ MsgTypes' /\ Head(msgs[n][p]) \in Message
         /\ \A x \in Node : \A y \in Peer(x) :
              msgs'[x][y] = IF x = n /\ y = p THEN Tail(msgs[n][p]) ELSE msgs[x][y]
<1>1. PerPeer(msgs, Seq(Message)) /\ msgs[n][p] \in Seq(Message)
  BY DEF Types, MsgTypes, PerPeer
<1>2. Head(msgs[n][p]) \in Message /\ Tail(msgs[n][p]) \in Seq(Message)
  BY <1>1, HeadTailProperties
<1>3. /\ PerPeer(msgs', Seq(Message))
      /\ \A x \in Node : \A y \in Peer(x) :
           msgs'[x][y] = IF x = n /\ y = p THEN Tail(msgs[n][p]) ELSE msgs[x][y]
  BY <1>1, <1>2 DEF PerPeer
<1> QED
  BY <1>2, <1>3 DEF MsgTypes, PerPeer, Peer

LEMMA SendTypes ==
  ASSUME Types, NEW n \in Node, NEW p \in Peer(n), Send(n, p)
  PROVE  Types'
<1> DEFINE c == sock[n][p]
<1>1. /\ UNCHANGED <<up, carp, run, view, snap, sock, backlog, shut, promisc, sadb, events, pfq, left>>
      /\ c # NoConn /\ msgs[n][p] # <<>> /\ msgs' = [msgs EXCEPT ![n][p] = Tail(@)]
      /\ \/ inbox' = [inbox EXCEPT ![c][p] = Append(@, Head(msgs[n][p]))]
         \/ inbox' = inbox
  BY DEF Send, Writable, nodeVars, linkVars, dataVars
<1>2. MsgTypes' /\ Head(msgs[n][p]) \in Message
  BY <1>1, ShiftTypes
<1>3. c \in Conn /\ p \in Node
  BY <1>1 DEF Types, SockTypes, PerPeer, Peer
<1> HIDE DEF c
<1>4. inbox \in [Conn -> [Node -> Seq(Message)]] /\ inbox[c][p] \in Seq(Message)
  BY <1>3 DEF Types, ConnTypes
<1>5. Append(inbox[c][p], Head(msgs[n][p])) \in Seq(Message)
  BY <1>2, <1>4, AppendProperties
<1>6. inbox' \in [Conn -> [Node -> Seq(Message)]]
  <2>1. PICK q \in Seq(Message) : q = Append(inbox[c][p], Head(msgs[n][p]))
    BY <1>5
  <2>2. inbox' = [inbox EXCEPT ![c][p] = q] \/ inbox' = inbox
    BY <1>1, <2>1
  <2>3. \A g \in [Conn -> [Node -> Seq(Message)]] : \A x \in Conn, y \in Node :
          [g EXCEPT ![x][y] = q] \in [Conn -> [Node -> Seq(Message)]]
    BY <2>1
  <2>4. [inbox EXCEPT ![c][p] = q] \in [Conn -> [Node -> Seq(Message)]]
    BY <1>3, <1>4, <2>3, Zenon
  <2> QED
    BY <1>4, <2>2, <2>4, Zenon
<1>7. ConnTypes'
  <2>1. shut' \in [Conn -> SUBSET Node]
    BY <1>1 DEF Types, ConnTypes
  <2> QED
    BY <1>6, <2>1 DEF ConnTypes, Conn
<1>8. NodeTypes' /\ SockTypes' /\ DataTypes' /\ CountTypes' /\ PerPeer(view, Role)'
  BY <1>1 DEF Types, NodeTypes, SockTypes, DataTypes, CountTypes, PerPeer, Peer, Conn, Op,
              Role, Between, NoConn
<1> QED
  BY <1>2, <1>7, <1>8 DEF Types

LEMMA TroubleTypes ==
  ASSUME Types, NEW kind, Trouble(kind, 1)
  PROVE  left' \in [ops : Nat, troubles : Nat]
<1>1. left.troubles - 1 \in Nat /\ left' = [left EXCEPT !.troubles = left.troubles - 1]
  BY DEF Trouble, Types, CountTypes
<1> QED
  BY <1>1 DEF Types, CountTypes

LEMMA SendFailsTypes ==
  ASSUME Types, NEW n \in Node, NEW p \in Peer(n), SendFails(n, p)
  PROVE  Types'
<1>1. /\ UNCHANGED <<up, carp, run, view, snap, promisc, sadb, events, pfq>>
      /\ msgs[n][p] # <<>> /\ msgs' = [msgs EXCEPT ![n][p] = Tail(@)]
      /\ Disconnect(n, p)
      /\ left' = left \/ Trouble("break", 1)
  BY DEF SendFails, Writable, nodeVars, dataVars
<1>2. MsgTypes' /\ SockTypes' /\ ConnTypes'
  BY <1>1, ShiftTypes, DisconnectTypes
<1>3. left' \in [ops : Nat, troubles : Nat]
  BY <1>1, TroubleTypes DEF Types, CountTypes
<1>4. NodeTypes' /\ DataTypes' /\ CountTypes' /\ PerPeer(view, Role)'
  BY <1>1, <1>3 DEF Types, NodeTypes, DataTypes, CountTypes, PerPeer, Peer, Op, Role
<1> QED
  BY <1>2, <1>4 DEF Types

LEMMA ReadEndTypes ==
  ASSUME Types, NEW n \in Node, NEW p \in Peer(n), ReadEnd(n, p)
  PROVE  Types'
<1>1. /\ UNCHANGED <<up, carp, run, view, snap, msgs, promisc, sadb, events, pfq, left>>
      /\ Disconnect(n, p)
  BY DEF ReadEnd, nodeVars, dataVars
<1>2. SockTypes' /\ ConnTypes'
  BY <1>1, DisconnectTypes
<1>3. NodeTypes' /\ MsgTypes' /\ DataTypes' /\ CountTypes' /\ PerPeer(view, Role)'
  BY <1>1 DEF Types, NodeTypes, MsgTypes, DataTypes, CountTypes, PerPeer, Peer, Op, Role
<1> QED
  BY <1>2, <1>3 DEF Types

LEMMA BreakTypes ==
  ASSUME Types, NEW c \in Conn, Break(c)
  PROVE  Types'
<1>1. /\ UNCHANGED <<up, carp, run, view, snap, sock, msgs, backlog, promisc, sadb, events, pfq>>
      /\ Trouble("break", 1)
      /\ shut' = [shut EXCEPT ![c] = {c[1], c[2]}]
      /\ inbox' = [inbox EXCEPT ![c] = Quiet]
  BY DEF Break, nodeVars, dataVars
<1>2. Quiet \in [Node -> Seq(Message)] /\ {c[1], c[2]} \in SUBSET Node
  BY ConnFacts DEF Quiet
<1>3. ConnTypes'
  <2>1. shut' \in [Conn -> SUBSET Node] /\ inbox' \in [Conn -> [Node -> Seq(Message)]]
    BY <1>1, <1>2 DEF Types, ConnTypes
  <2> QED
    BY <2>1 DEF ConnTypes, Conn
<1>4. left' \in [ops : Nat, troubles : Nat]
  BY <1>1, TroubleTypes
<1>5. NodeTypes' /\ SockTypes' /\ DataTypes'
  BY <1>1 DEF Types, NodeTypes, SockTypes, DataTypes, PerPeer, Peer, Conn, Op,
              Role, Between, NoConn
<1>6. MsgTypes' /\ CountTypes' /\ PerPeer(view, Role)'
  BY <1>1, <1>4 DEF Types, MsgTypes, CountTypes, PerPeer, Peer, Role
<1> QED
  BY <1>3, <1>5, <1>6 DEF Types

\* What a death does to a connection.
Orphaned(c, n) ==
  LET mine == n \in {c[1], c[2]} /\ (Refers(n, c) \/ Refers(Other(c, n), c)) IN
  /\ shut'[c] = IF mine THEN ShutAfter(c, n, TRUE) ELSE shut[c]
  /\ inbox'[c] = IF mine THEN InboxAfter(c, n) ELSE inbox[c]
Resets(n) ==
  /\ "death" \in Troubles
  /\ run' = [run EXCEPT ![n] = "INIT"]
  /\ view' = [view EXCEPT ![n] = [p \in Peer(n) |-> "INIT"]]
  /\ sock' = [sock EXCEPT ![n] = [p \in Peer(n) |-> NoConn]]
  /\ msgs' = [msgs EXCEPT ![n] = [p \in Peer(n) |-> <<>>]]
  /\ backlog' = [backlog EXCEPT ![n] = <<>>]
  /\ \A c \in Conn : Orphaned(c, n)

LEMMA DieTypes ==
  ASSUME Types, NEW n \in Node, Die(n)
  PROVE  Types' /\ Resets(n)
<1> DEFINE Mine(c) == n \in {c[1], c[2]} /\ (Refers(n, c) \/ Refers(Other(c, n), c))
           none == [p \in Peer(n) |-> <<>>]
<1>1. /\ Trouble("death", 1)
      /\ shut' = [c \in Conn |-> IF Mine(c) THEN ShutAfter(c, n, TRUE) ELSE shut[c]]
      /\ inbox' = [c \in Conn |-> IF Mine(c) THEN InboxAfter(c, n) ELSE inbox[c]]
  BY DEF Die
<1>2. /\ up' = [up EXCEPT ![n] = FALSE]
      /\ run' = [run EXCEPT ![n] = "INIT"]
      /\ view' = [view EXCEPT ![n] = [p \in Peer(n) |-> "INIT"]]
      /\ snap' = [snap EXCEPT ![n] = [p \in Peer(n) |-> 0]]
      /\ sock' = [sock EXCEPT ![n] = [p \in Peer(n) |-> NoConn]]
      /\ msgs' = [msgs EXCEPT ![n] = none]
      /\ backlog' = [backlog EXCEPT ![n] = <<>>]
      /\ promisc' = [promisc EXCEPT ![n] = FALSE]
      /\ events' = [events EXCEPT ![n] = <<>>]
      /\ pfq' = [pfq EXCEPT ![n] = <<>>]
      /\ carp' = carp /\ sadb' = sadb
  BY DEF Die
<1>3. ASSUME NEW c \in Conn
      PROVE  Orphaned(c, n) /\ shut'[c] \in SUBSET Node /\ inbox'[c] \in [Node -> Seq(Message)]
  <2>1. Orphaned(c, n)
    BY <1>1 DEF Orphaned
  <2>2. shut[c] \in SUBSET Node /\ inbox[c] \in [Node -> Seq(Message)]
    BY DEF Types, ConnTypes
  <2>3. ShutAfter(c, n, TRUE) \in SUBSET Node /\ InboxAfter(c, n) \in [Node -> Seq(Message)]
    BY <2>2 DEF ShutAfter, InboxAfter, Quiet
  <2> QED
    BY <2>1, <2>2, <2>3 DEF Orphaned
<1>4. ConnTypes'
  <2>1. DOMAIN shut' = Conn /\ DOMAIN inbox' = Conn
    BY <1>1
  <2>2. shut' \in [Conn -> SUBSET Node] /\ inbox' \in [Conn -> [Node -> Seq(Message)]]
    <3>1. shut' = [c \in Conn |-> shut'[c]] /\ inbox' = [c \in Conn |-> inbox'[c]]
      BY <1>1
    <3> QED
      BY <1>3, <3>1
  <2> QED
    BY <2>2 DEF ConnTypes, Conn
<1>5. left' \in [ops : Nat, troubles : Nat]
  BY <1>1, TroubleTypes
<1>11. "death" \in Troubles
  BY <1>1 DEF Trouble
<1> HIDE DEF Mine
<1>6. NodeTypes'
  BY <1>2 DEF Types, NodeTypes, Role
<1>7. DataTypes'
  BY <1>2 DEF Types, DataTypes, Op
<1>8. SockTypes'
  <2>1. /\ PerPeer(sock', Conn \cup {NoConn})
        /\ \A x \in Node : \A y \in Peer(x) :
             sock'[x][y] = IF x = n THEN NoConn ELSE sock[x][y]
    BY <1>2 DEF Types, SockTypes, PerPeer
  <2>2. backlog' \in [Node -> Seq(Conn)]
    BY <1>2 DEF Types, SockTypes
  <2>3. \A x \in Node : \A c \in Range(backlog'[x]) : c[2] = x
    <3>1. Range(<<>>) = {}
      BY RangeOfSeq DEF Range
    <3> QED
      BY <1>2, <3>1 DEF Types, SockTypes
  <2>4. \A x \in Node : \A y \in Peer(x) : sock'[x][y] \in Between(x, y) \cup {NoConn}
    BY <2>1 DEF Types, SockTypes
  <2> QED
    BY <2>1, <2>2, <2>3, <2>4 DEF SockTypes, PerPeer, Peer, Conn, Between, NoConn
<1>9. MsgTypes'
  <2>1. none \in [Peer(n) -> Seq(Message)]
    OBVIOUS
  <2> HIDE DEF none
  <2>2. PerPeer(msgs', Seq(Message))
    BY <1>2, <2>1 DEF Types, MsgTypes, PerPeer
  <2> QED
    BY <2>2 DEF MsgTypes, PerPeer, Peer
<1>10. CountTypes' /\ PerPeer(view, Role)'
  <2>1. PerPeer(snap', Nat) /\ PerPeer(view', Role)
    BY <1>2 DEF Types, CountTypes, PerPeer, Role
  <2> QED
    BY <1>5, <2>1 DEF CountTypes, PerPeer, Peer, Role
<1> QED
  BY <1>2, <1>3, <1>4, <1>6, <1>7, <1>8, <1>9, <1>10, <1>11 DEF Types, Resets

(***************************************************************************)
(* Every step is one of these kinds.                                       *)
(***************************************************************************)
Cuts(n, p) == /\ Disconnect(n, p) /\ run' = run /\ view' = view
              /\ sock[n][p] # NoConn
              /\ shut[sock[n][p]] # {} \/ "break" \in Troubles
              /\ \A x \in Node : \A y \in Peer(x) : x # n \/ y # p => msgs'[x][y] = msgs[x][y]
Idles == UNCHANGED <<run, view, sock, msgs, backlog, shut, inbox>>
KindOfStep ==
  \/ Idles \/ \E n \in Node : SpeakStep(n) \/ Accept(n) \/ Resets(n)
  \/ \E n \in Node : \E p \in Peer(n) : HearStep(n, p) \/ Send(n, p) \/ Cuts(n, p)
  \/ \E c \in Conn : Break(c)

LEMMA StepKinds ==
  ASSUME Types, [Next]_vars
  PROVE  Types' /\ KindOfStep
<1>1. CASE UNCHANGED vars
  BY <1>1 DEF vars, Types, NodeTypes, SockTypes, MsgTypes, ConnTypes, DataTypes, CountTypes,
              PerPeer, Peer, Conn, Op, Role, Between, NoConn, KindOfStep, Idles
<1>2. ASSUME NEW n \in Node, Daemon(n)
      PROVE  Types' /\ KindOfStep
  <2>1. CASE CarpTracker(n)
    BY <2>1, CarpTrackerStep DEF KindOfStep
  <2>2. CASE CheckPeers(n)
    BY <2>2, CheckPeersStep DEF KindOfStep
  <2>3. CASE Accept(n)
    BY <2>3, AcceptTypes DEF KindOfStep
  <2>4. CASE PfkeyRead(n)
    BY <2>4, PfkeyReadStep DEF KindOfStep
  <2>5. CASE PfkeyWrite(n)
    BY <2>5, PfkeyWriteStep DEF KindOfStep
  <2>6. ASSUME NEW p \in Peer(n), ReadEnd(n, p)
        PROVE  Types' /\ KindOfStep
    <3>1. Cuts(n, p)
      BY <2>6 DEF ReadEnd, Ended, Cuts, nodeVars
    <3> QED
      BY <2>6, <3>1, ReadEndTypes DEF KindOfStep
  <2>7. ASSUME NEW p \in Peer(n), SendFails(n, p)
        PROVE  Types' /\ KindOfStep
    <3>1. /\ Disconnect(n, p) /\ UNCHANGED <<run, view>>
          /\ sock[n][p] # NoConn /\ msgs[n][p] # <<>>
          /\ msgs' = [msgs EXCEPT ![n][p] = Tail(@)]
          /\ shut[sock[n][p]] # {} \/ "break" \in Troubles
      BY <2>7 DEF SendFails, Writable, Trouble, nodeVars
    <3>2. \A x \in Node : \A y \in Peer(x) : x # n \/ y # p => msgs'[x][y] = msgs[x][y]
      BY <3>1, ShiftTypes
    <3>3. Cuts(n, p)
      BY <3>1, <3>2 DEF Cuts
    <3> QED
      BY <2>7, <3>3, SendFailsTypes DEF KindOfStep
  <2>8. ASSUME NEW p \in Peer(n), Send(n, p)
        PROVE  Types' /\ KindOfStep
    BY <2>8, SendTypes DEF KindOfStep
  <2>9. ASSUME NEW p \in Peer(n), Snapshot(n, p)
        PROVE  Types' /\ KindOfStep
    BY <2>9, SnapshotStep DEF KindOfStep
  <2>10. ASSUME NEW p \in Peer(n), HandleState(n, p) \/ HandleAck(n, p)
         PROVE  Types' /\ KindOfStep
    BY <2>10, HandleStateStep, HandleAckStep DEF KindOfStep
  <2>11. ASSUME NEW p \in Peer(n), HandleError(n, p) \/ HandleData(n, p)
         PROVE  Types' /\ KindOfStep
    BY <2>11, HandleErrorStep, HandleDataStep DEF KindOfStep
  <2> QED
    BY <1>2, <2>1, <2>2, <2>3, <2>4, <2>5, <2>6, <2>7, <2>8, <2>9, <2>10, <2>11 DEF Daemon
<1>3. ASSUME NEW n \in Node, Start(n) \/ Flip(n) \/ KernelChange(n) \/ Die(n)
      PROVE  Types' /\ KindOfStep
  BY <1>3, StartStep, FlipStep, KernelChangeStep, DieTypes DEF KindOfStep
<1>4. ASSUME NEW c \in Conn, Break(c)
      PROVE  Types' /\ KindOfStep
  BY <1>4, BreakTypes DEF KindOfStep
<1> QED
  BY <1>1, <1>2, <1>3, <1>4 DEF Next, World

LEMMA InitTypes ==
  ASSUME Init
  PROVE  Types
<1>1. PICK m \in Node : carp = [n \in Node |-> IF n = m THEN "MASTER" ELSE "SLAVE"]
  BY DEF Init
<1>2. /\ up = [n \in Node |-> FALSE] /\ run = [n \in Node |-> "INIT"]
      /\ view = [n \in Node |-> [p \in Peer(n) |-> "INIT"]]
      /\ snap = [n \in Node |-> [p \in Peer(n) |-> 0]]
      /\ sock = [n \in Node |-> [p \in Peer(n) |-> NoConn]]
      /\ msgs = [n \in Node |-> [p \in Peer(n) |-> <<>>]]
      /\ backlog = Quiet /\ shut = [c \in Conn |-> {}] /\ inbox = [c \in Conn |-> Quiet]
      /\ promisc = [n \in Node |-> FALSE] /\ sadb = [n \in Node |-> {}]
      /\ events = Quiet /\ pfq = Quiet
      /\ left = [ops |-> MaxOps, troubles |-> MaxTroubles]
  BY DEF Init
<1>3. \A T : Quiet \in [Node -> Seq(T)] /\ \A n \in Node : Quiet[n] = <<>>
  BY DEF Quiet
<1>4. Range(<<>>) = {}
  BY DEF Range
<1>5. NodeTypes
  BY <1>1, <1>2, SasyncAssumption DEF NodeTypes, Role
<1>6. SockTypes
  BY <1>2, <1>3, <1>4 DEF SockTypes, PerPeer
<1>7. ConnTypes
  BY <1>2, <1>3 DEF ConnTypes
<1>8. DataTypes
  BY <1>2, <1>3, FS_EmptySet DEF DataTypes
<1>9. CountTypes
  <2>1. left \in [ops : Nat, troubles : Nat]
    BY <1>2, SasyncAssumption
  <2> QED
    BY <1>2, <2>1 DEF CountTypes, PerPeer
<1>10. MsgTypes /\ PerPeer(view, Role)
  BY <1>2 DEF MsgTypes, PerPeer, Role
<1> QED
  BY <1>5, <1>6, <1>7, <1>8, <1>9, <1>10 DEF Types

-----------------------------------------------------------------------------
(***************************************************************************)
(* The connections.  A waiting one is used by its acceptor for nothing     *)
(* yet, and one that nobody refers to is as new.                           *)
(***************************************************************************)
Waits(c) == c \in Range(backlog[c[2]])
Loose(c) == sock[c[1]][c[2]] # c /\ sock[c[2]][c[1]] # c /\ ~Waits(c)
Wire(c) == /\ Waits(c) => sock[c[2]][c[1]] # c /\ inbox[c][c[1]] = <<>>
           /\ Loose(c) => inbox[c] = Quiet /\ shut[c] = {}
Wires == /\ \A c \in Conn : Wire(c)
         /\ \A n \in Node : IsInjective(backlog[n])

LEMMA InjectiveFacts ==
  ASSUME NEW T, NEW s \in Seq(T), IsInjective(s)
  PROVE  /\ \A x \in T : x \notin Range(s) => IsInjective(Append(s, x))
         /\ s # <<>> => IsInjective(Tail(s)) /\ Head(s) \notin Range(Tail(s))
<1>1. /\ DOMAIN s = 1..Len(s) /\ Len(s) \in Nat
      /\ \A i, j \in 1..Len(s) : s[i] = s[j] => i = j
  BY LenProperties DEF IsInjective
<1>2. ASSUME NEW x \in T, x \notin Range(s)
      PROVE  IsInjective(Append(s, x))
  <2>1. /\ Append(s, x) \in Seq(T) /\ Len(Append(s, x)) = Len(s) + 1
        /\ \A i \in 1..Len(s) : Append(s, x)[i] = s[i]
        /\ Append(s, x)[Len(s) + 1] = x
    BY AppendProperties
  <2>2. DOMAIN Append(s, x) = 1..Len(s) + 1
    BY <2>1, LenProperties
  <2>3. \A i \in 1..Len(s) + 1 : i \in 1..Len(s) \/ i = Len(s) + 1
    BY <1>1
  <2>4. \A i \in 1..Len(s) : s[i] # x
    BY <1>1, <1>2 DEF Range
  <2> QED
    BY <1>1, <2>1, <2>2, <2>3, <2>4 DEF IsInjective
<1>3. ASSUME s # <<>>
      PROVE  IsInjective(Tail(s)) /\ Head(s) \notin Range(Tail(s))
  <2>1. /\ Tail(s) \in Seq(T) /\ Len(Tail(s)) = Len(s) - 1 /\ Head(s) = s[1]
        /\ Len(s) \in Nat \ {0}
        /\ \A i \in 1..Len(Tail(s)) : Tail(s)[i] = s[i + 1]
    BY <1>1, <1>3, HeadTailProperties, EmptySeq
  <2>2. DOMAIN Tail(s) = 1..Len(Tail(s))
    BY <2>1, LenProperties
  <2>3. \A i \in 1..Len(Tail(s)) : i + 1 \in 1..Len(s) /\ i + 1 # 1
    BY <2>1
  <2>4. \A i, j \in 1..Len(Tail(s)) : i + 1 = j + 1 => i = j
    BY <2>1
  <2>5. 1 \in 1..Len(s)
    BY <2>1
  <2>6. IsInjective(Tail(s))
    BY <1>1, <2>1, <2>2, <2>3, <2>4 DEF IsInjective
  <2>7. Head(s) \notin Range(Tail(s))
    BY <1>1, <2>1, <2>2, <2>3, <2>5 DEF Range
  <2> QED
    BY <2>6, <2>7
<1> QED
  BY <1>2, <1>3

\* Who refers to a connection.
LEMMA ReferFacts ==
  ASSUME Types, NEW c \in Conn
  PROVE  /\ Refers(c[1], c) <=> sock[c[1]][c[2]] = c
         /\ Refers(c[2], c) <=> sock[c[2]][c[1]] = c \/ Waits(c)
         /\ \A n \in Node : Waits(c) /\ c \in Range(backlog[n]) => n = c[2]
         /\ \A n \in Node : \A p \in Peer(n) : sock[n][p] = c =>
              (n = c[1] /\ p = c[2]) \/ (n = c[2] /\ p = c[1])
<1>1. /\ c[1] \in Node /\ c[2] \in Node /\ c[1] # c[2] /\ c # NoConn
      /\ Other(c, c[2]) = c[1] /\ Other(c, c[1]) = c[2]
  BY ConnFacts
<1>2. \A n \in Node : c \in Range(backlog[n]) => n = c[2]
  BY DEF Types, SockTypes
<1>3. ASSUME NEW n \in Node, NEW p \in Peer(n), sock[n][p] = c
      PROVE  (n = c[1] /\ p = c[2]) \/ (n = c[2] /\ p = c[1])
  <2>1. c \in Between(n, p) /\ n # p
    BY <1>1, <1>3 DEF Types, SockTypes, Peer
  <2> QED
    BY <1>1, <2>1 DEF Between
<1> QED
  BY <1>1, <1>2, <1>3 DEF Refers, Waits

LEMMA SameWire ==
  ASSUME NEW c \in Conn, Wire(c), sock'[c[1]][c[2]] = sock[c[1]][c[2]],
         sock'[c[2]][c[1]] = sock[c[2]][c[1]], Waits(c)' <=> Waits(c),
         inbox'[c] = inbox[c], shut'[c] = shut[c]
  PROVE  Wire(c)'
BY DEF Wire, Loose

\* A call makes a new connection; other sockets stay.
LEMMA CallFacts ==
  ASSUME Types, NEW n \in Node, NEW S, Speaks(n, S), NEW c \in Conn
  PROVE  /\ sock'[c[2]][c[1]] = c <=> sock[c[2]][c[1]] = c
         /\ c[1] = n /\ c[2] \in S /\ c = Fresh(n, c[2]) =>
              /\ Loose(c) /\ sock'[c[1]][c[2]] = c /\ Waits(c)'
         /\ ~(c[1] = n /\ c[2] \in S /\ c = Fresh(n, c[2])) =>
              /\ sock'[c[1]][c[2]] = c <=> sock[c[1]][c[2]] = c
              /\ Waits(c)' <=> Waits(c)
<1> DEFINE new == c[1] = n /\ c[2] \in S /\ c = Fresh(n, c[2])
<1>1. /\ c[1] \in Node /\ c[2] \in Node /\ c[1] # c[2] /\ c # NoConn
      /\ c[1] \in Peer(c[2]) /\ c[2] \in Peer(c[1])
      /\ Other(c, c[2]) = c[1] /\ Other(c, c[1]) = c[2]
  BY ConnFacts
<1>2. \A p \in S : /\ p \in Peer(n) /\ sock[n][p] = NoConn
                   /\ Fresh(n, p) \in Conn /\ Fresh(n, p)[1] = n /\ Fresh(n, p)[2] = p
                   /\ ~Refers(n, Fresh(n, p)) /\ ~Refers(p, Fresh(n, p))
  BY FreshFacts DEF Speaks
<1>3. \A x \in Node : \A y \in Peer(x) :
        sock'[x][y] = IF x = n /\ y \in S THEN Fresh(n, y) ELSE sock[x][y]
  BY DEF Speaks
<1>4. sock'[c[2]][c[1]] = c <=> sock[c[2]][c[1]] = c
  BY <1>1, <1>2, <1>3
<1>5. \A x \in Node :
        backlog'[x] = IF x \in S THEN Append(backlog[x], Fresh(n, x)) ELSE backlog[x]
  BY DEF Speaks
<1>6. ASSUME c[2] \in S
      PROVE  Range(backlog'[c[2]]) = Range(backlog[c[2]]) \cup {Fresh(n, c[2])}
  <2> DEFINE s == backlog[c[2]]  f == Fresh(n, c[2])
  <2>1. s \in Seq(Conn) /\ f \in Conn /\ backlog'[c[2]] = Append(s, f)
    BY <1>1, <1>2, <1>5, <1>6 DEF Types, SockTypes
  <2> HIDE DEF s, f
  <2>2. Range(Append(s, f)) = Range(s) \cup {f}
    BY <2>1, RangeFacts
  <2> QED
    BY <2>1, <2>2 DEF s, f
<1>7. ASSUME new
      PROVE  Loose(c) /\ sock'[c[1]][c[2]] = c /\ Waits(c)'
  <2>1. ~Refers(c[1], c) /\ ~Refers(c[2], c)
    BY <1>2, <1>7
  <2>2. Loose(c)
    BY <2>1, ReferFacts DEF Loose
  <2>3. sock'[c[1]][c[2]] = c
    BY <1>1, <1>3, <1>7
  <2>4. Waits(c)'
    BY <1>6, <1>7 DEF Waits
  <2> QED
    BY <2>2, <2>3, <2>4
<1>8. ASSUME ~new
      PROVE  /\ sock'[c[1]][c[2]] = c <=> sock[c[1]][c[2]] = c
             /\ Waits(c)' <=> Waits(c)
  <2>1. sock'[c[1]][c[2]] = c <=> sock[c[1]][c[2]] = c
    BY <1>1, <1>2, <1>3, <1>8
  <2>2. Waits(c)' <=> Waits(c)
    <3>1. CASE c[2] \in S
      BY <1>2, <1>6, <1>8, <3>1 DEF Waits
    <3>2. CASE c[2] \notin S
      BY <1>1, <1>5, <3>2 DEF Waits
    <3> QED
      BY <3>1, <3>2
  <2> QED
    BY <2>1, <2>2
<1> QED
  BY <1>4, <1>7, <1>8

LEMMA SpeakInjective ==
  ASSUME Types, Wires, NEW n \in Node, NEW S, Speaks(n, S), NEW x \in Node
  PROVE  IsInjective(backlog'[x])
<1>1. IsInjective(backlog[x]) /\ backlog[x] \in Seq(Conn)
  BY DEF Wires, Types, SockTypes
<1>2. backlog'[x] = IF x \in S THEN Append(backlog[x], Fresh(n, x)) ELSE backlog[x]
  BY DEF Speaks
<1>3. ASSUME x \in S
      PROVE  Fresh(n, x) \in Conn /\ Fresh(n, x) \notin Range(backlog[x])
  BY <1>3, FreshFacts DEF Speaks, Refers
<1>4. CASE x \in S
  <2> DEFINE s == backlog[x]  f == Fresh(n, x)
  <2>1. s \in Seq(Conn) /\ IsInjective(s) /\ f \in Conn /\ f \notin Range(s)
        /\ backlog'[x] = Append(s, f)
    BY <1>1, <1>2, <1>3, <1>4
  <2> HIDE DEF s, f
  <2> QED
    BY <2>1, InjectiveFacts
<1>5. CASE x \notin S
  BY <1>1, <1>2, <1>5
<1> QED
  BY <1>4, <1>5

\* n speaks, and perhaps reads, and c is not what it reads from.
LEMMA SpeakWire ==
  ASSUME Types, NEW n \in Node, NEW S, Speaks(n, S), NEW c \in Conn, Wire(c),
         inbox'[c] = inbox[c]
  PROVE  Wire(c)'
<1>1. shut'[c] = shut[c] /\ inbox'[c] = inbox[c]
  BY DEF Speaks
<1>2. CASE c[1] = n /\ c[2] \in S /\ c = Fresh(n, c[2])
  <2>1. /\ Loose(c) /\ sock'[c[1]][c[2]] = c
        /\ sock'[c[2]][c[1]] = c <=> sock[c[2]][c[1]] = c
    BY <1>2, CallFacts
  <2>2. inbox[c] = Quiet /\ Quiet[c[1]] = <<>>
    BY <2>1, ConnFacts DEF Wire, Quiet
  <2> QED
    BY <1>1, <2>1, <2>2 DEF Wire, Loose
<1>3. CASE ~(c[1] = n /\ c[2] \in S /\ c = Fresh(n, c[2]))
  <2>1. /\ sock'[c[1]][c[2]] = c <=> sock[c[1]][c[2]] = c
        /\ sock'[c[2]][c[1]] = c <=> sock[c[2]][c[1]] = c
        /\ Waits(c)' <=> Waits(c)
    BY <1>3, CallFacts
  <2> QED
    BY <1>1, <2>1 DEF Wire, Loose
<1> QED
  BY <1>2, <1>3

\* What n hears: the connection is its own, is not waiting, and is not new.
LEMMA HearFacts ==
  ASSUME Types, Wires, NEW n \in Node, NEW p \in Peer(n), NEW S, Speaks(n, S), Hears(n, p, S),
         NEW c, c = sock[n][p]
  PROVE  /\ c \in Conn /\ p \notin S /\ ~Waits(c) /\ ~Waits(c)'
         /\ sock'[c[1]][c[2]] = c <=> sock[c[1]][c[2]] = c
         /\ sock'[c[2]][c[1]] = c <=> sock[c[2]][c[1]] = c
<1>1. c # NoConn /\ inbox[c][n] # <<>>
  BY DEF Hears
<1>2. c \in Conn
  BY <1>1 DEF Types, SockTypes, Between
<1>3. p \notin S
  BY <1>1, FreshFacts DEF Speaks
<1>4. (n = c[1] /\ p = c[2]) \/ (n = c[2] /\ p = c[1])
  BY <1>2, ReferFacts
<1>5. ~Waits(c)
  BY <1>1, <1>2, <1>4 DEF Wires, Wire
<1>6. ~(c[1] = n /\ c[2] \in S /\ c = Fresh(n, c[2]))
  BY <1>3, <1>4
<1>7. /\ sock'[c[1]][c[2]] = c <=> sock[c[1]][c[2]] = c
      /\ sock'[c[2]][c[1]] = c <=> sock[c[2]][c[1]] = c
      /\ Waits(c)' <=> Waits(c)
  BY <1>2, <1>6, CallFacts
<1> QED
  BY <1>1, <1>2, <1>3, <1>5, <1>7

LEMMA SpeakStepWires ==
  ASSUME Types, Wires, NEW n \in Node, SpeakStep(n)
  PROVE  Wires'
<1>1. PICK S : Speaks(n, S)
  BY DEF SpeakStep
<1>2. inbox' = inbox
  BY DEF SpeakStep, Quietly
<1>3. \A c \in Conn : Wire(c)'
  BY <1>1, <1>2, SpeakWire DEF Wires
<1>4. \A x \in Node : IsInjective(backlog'[x])
  BY <1>1, SpeakInjective
<1> QED
  BY <1>3, <1>4 DEF Wires, Conn

LEMMA HearStepWires ==
  ASSUME Types, Wires, NEW n \in Node, NEW p \in Peer(n), HearStep(n, p)
  PROVE  Wires'
<1>1. PICK S : Speaks(n, S) /\ Hears(n, p, S)
  BY DEF HearStep
<1>2. PICK d : d = sock[n][p]
  OBVIOUS
<1>3. /\ d \in Conn /\ ~Waits(d)'
      /\ sock'[d[1]][d[2]] = d <=> sock[d[1]][d[2]] = d
      /\ sock'[d[2]][d[1]] = d <=> sock[d[2]][d[1]] = d
  BY <1>1, <1>2, HearFacts
<1>4. ASSUME NEW c \in Conn, c # d
      PROVE  Wire(c)'
  <2>1. inbox'[c] = inbox[c]
    BY <1>1, <1>2, <1>4 DEF Hears, Types, ConnTypes
  <2> QED
    BY <1>1, <2>1, SpeakWire DEF Wires
<1>5. Wire(d)'
  <2>1. ~Loose(d)'
    BY <1>2, <1>3, ReferFacts DEF Loose
  <2> QED
    BY <1>3, <2>1 DEF Wire
<1>6. \A x \in Node : IsInjective(backlog'[x])
  BY <1>1, SpeakInjective
<1> QED
  BY <1>4, <1>5, <1>6 DEF Wires, Conn

LEMMA SendWires ==
  ASSUME Types, Wires, NEW n \in Node, NEW p \in Peer(n), Send(n, p)
  PROVE  Wires'
<1>1. PICK d : d = sock[n][p]
  OBVIOUS
<1>2. /\ d # NoConn /\ UNCHANGED <<sock, backlog, shut>>
      /\ \/ inbox' = [inbox EXCEPT ![d][p] = Append(@, Head(msgs[n][p]))]
         \/ inbox' = inbox
  BY <1>1 DEF Send, Writable, linkVars
<1>3. d \in Conn
  BY <1>1, <1>2 DEF Types, SockTypes, Between
<1>4. ASSUME NEW c \in Conn, c # d
      PROVE  Wire(c)'
  <2>1. inbox'[c] = inbox[c]
    BY <1>2, <1>4 DEF Types, ConnTypes
  <2> QED
    BY <1>2, <2>1, SameWire DEF Wires, Waits
<1>5. Wire(d)'
  <2>1. (n = d[1] /\ p = d[2]) \/ (n = d[2] /\ p = d[1])
    BY <1>1, <1>3, ReferFacts
  <2>2. Waits(d) => d[1] = n /\ d[1] # p
    BY <1>1, <1>3, <2>1, ConnFacts DEF Wires, Wire
  <2>3. ~Loose(d)' /\ (Waits(d)' <=> Waits(d))
    BY <1>1, <1>2, <2>1 DEF Loose, Waits
  <2>4. Waits(d) => inbox'[d][d[1]] = inbox[d][d[1]]
    BY <1>2, <1>3, <2>2, ConnFacts DEF Types, ConnTypes
  <2> QED
    BY <1>2, <1>3, <2>3, <2>4 DEF Wires, Wire
<1>6. \A x \in Node : IsInjective(backlog'[x])
  BY <1>2 DEF Wires
<1> QED
  BY <1>4, <1>5, <1>6 DEF Wires, Conn

\* n forgets its end of d, which the other end still may use.
LetsGo(n, p, d, closed) ==
  /\ \A c \in Conn : c # d => inbox'[c] = inbox[c] /\ shut'[c] = shut[c]
  /\ d # NoConn =>
       /\ d \in Conn /\ ((n = d[1] /\ p = d[2]) \/ (n = d[2] /\ p = d[1]))
       /\ Waits(d) => n = d[1]
       /\ Refers(p, d) => /\ inbox'[d][n] = <<>> /\ inbox'[d][p] = inbox[d][p]
                          /\ IF closed THEN shut'[d] # {} ELSE shut'[d] = shut[d]
       /\ ~Refers(p, d) => inbox'[d] = Quiet /\ shut'[d] = {}

LEMMA LetGoFacts ==
  ASSUME Types, Wires, NEW n \in Node, NEW p \in Peer(n), NEW d, d = sock[n][p],
         NEW closed \in BOOLEAN, LetGo(d, n, closed)
  PROVE  LetsGo(n, p, d, closed)
<1> USE DEF LetsGo
<1>1. CASE d = NoConn
  BY <1>1 DEF LetGo
<1>2. CASE d # NoConn
  <2>1. d \in Conn
    BY <1>2 DEF Types, SockTypes, Between
  <2>2. (n = d[1] /\ p = d[2]) \/ (n = d[2] /\ p = d[1])
    BY <2>1, ReferFacts
  <2>3. Waits(d) => n = d[1]
    BY <2>1, <2>2 DEF Wires, Wire
  <2>4. Other(d, n) = p
    BY <2>1, <2>2, ConnFacts
  <2>5. /\ shut' = [shut EXCEPT ![d] = ShutAfter(d, n, closed)]
        /\ inbox' = [inbox EXCEPT ![d] = InboxAfter(d, n)]
    BY <1>2 DEF LetGo
  <2>6. /\ shut'[d] = ShutAfter(d, n, closed) /\ inbox'[d] = InboxAfter(d, n)
        /\ \A c \in Conn : c # d => inbox'[c] = inbox[c] /\ shut'[c] = shut[c]
    BY <2>1, <2>5 DEF Types, ConnTypes
  <2>7. ASSUME Refers(p, d)
        PROVE  /\ inbox'[d][n] = <<>> /\ inbox'[d][p] = inbox[d][p]
               /\ IF closed THEN shut'[d] # {} ELSE shut'[d] = shut[d]
    BY <2>1, <2>4, <2>6, <2>7, ConnFacts DEF InboxAfter, ShutAfter, Types, ConnTypes
  <2>8. ASSUME ~Refers(p, d)
        PROVE  inbox'[d] = Quiet /\ shut'[d] = {}
    BY <2>4, <2>6, <2>8 DEF InboxAfter, ShutAfter
  <2> QED
    BY <2>1, <2>2, <2>3, <2>6, <2>7, <2>8
<1> QED
  BY <1>1, <1>2

LEMMA CutWires ==
  ASSUME Types, Wires, NEW n \in Node, NEW p \in Peer(n), Disconnect(n, p)
  PROVE  Wires'
<1>1. PICK d : d = sock[n][p]
  OBVIOUS
<1>2. /\ LetGo(d, n, TRUE) /\ backlog' = backlog
      /\ sock' = [sock EXCEPT ![n][p] = NoConn]
  BY <1>1 DEF Disconnect
<1>3. /\ \A c \in Conn : c # d => inbox'[c] = inbox[c] /\ shut'[c] = shut[c]
      /\ d # NoConn =>
              /\ d \in Conn /\ ((n = d[1] /\ p = d[2]) \/ (n = d[2] /\ p = d[1]))
              /\ Waits(d) => n = d[1]
              /\ Refers(p, d) => inbox'[d][n] = <<>>
              /\ ~Refers(p, d) => inbox'[d] = Quiet /\ shut'[d] = {}
  <2>1. LetsGo(n, p, d, TRUE)
    BY <1>1, <1>2, LetGoFacts
  <2> QED
    BY <2>1 DEF LetsGo
<1>4. \A x \in Node : \A y \in Peer(x) :
        sock'[x][y] = IF x = n /\ y = p THEN NoConn ELSE sock[x][y]
  BY <1>2 DEF Types, SockTypes, PerPeer
<1>5. ASSUME NEW c \in Conn, c # d
      PROVE  Wire(c)'
  <2>1. /\ sock'[c[1]][c[2]] = c <=> sock[c[1]][c[2]] = c
        /\ sock'[c[2]][c[1]] = c <=> sock[c[2]][c[1]] = c
    BY <1>1, <1>4, <1>5, ConnFacts
  <2>2. Waits(c)' <=> Waits(c)
    BY <1>2 DEF Waits
  <2> QED
    BY <1>3, <1>5, <2>1, <2>2 DEF Wires, Wire, Loose
<1>6. ASSUME d # NoConn
      PROVE  Wire(d)'
  <2>1. /\ sock'[d[1]][d[2]] = d => sock[d[1]][d[2]] = d
        /\ sock'[d[2]][d[1]] = d => sock[d[2]][d[1]] = d
    BY <1>3, <1>4, <1>6, ConnFacts
  <2>2. Waits(d)' <=> Waits(d)
    BY <1>2 DEF Waits
  <2>3. Waits(d) => Refers(p, d) /\ inbox'[d][d[1]] = <<>>
    BY <1>3, <1>6, ReferFacts
  <2>4. Loose(d)' => ~Refers(p, d)
    BY <1>2, <1>3, <1>4, <1>6, <2>2, ReferFacts, ConnFacts DEF Loose
  <2> QED
    BY <1>3, <1>6, <2>1, <2>2, <2>3, <2>4 DEF Wires, Wire
<1>7. \A x \in Node : IsInjective(backlog'[x])
  BY <1>2 DEF Wires
<1> QED
  BY <1>3, <1>5, <1>6, <1>7 DEF Wires, Conn, NoConn

\* What net_accept does: d leaves the queue and replaces the socket e.
Accepts(n, p, d, e) ==
  /\ d \in Conn /\ p = d[1] /\ d[2] = n /\ Waits(d) /\ ~Waits(d)' /\ e = sock[n][p] /\ e # d
  /\ p \in Peer(n) /\ LetGo(e, n, FALSE)
  /\ \A x \in Node : \A y \in Peer(x) : sock'[x][y] = IF x = n /\ y = p THEN d ELSE sock[x][y]
  /\ \A c \in Conn : c # d => (Waits(c)' <=> Waits(c))
  /\ \A x \in Node : IsInjective(backlog'[x])
  /\ UNCHANGED <<run, view, msgs>>

LEMMA AcceptFacts ==
  ASSUME Types, Wires, NEW n \in Node, Accept(n)
  PROVE  \E p, d, e : Accepts(n, p, d, e)
<1>0. PICK d : d = Head(backlog[n])
  OBVIOUS
<1>1. PICK p : p = Other(d, n)
  OBVIOUS
<1>2. PICK e : e = sock[n][p]
  OBVIOUS
<1>3. /\ UNCHANGED <<run, view, msgs>>
      /\ backlog[n] # <<>> /\ backlog' = [backlog EXCEPT ![n] = Tail(@)]
      /\ sock' = [sock EXCEPT ![n][p] = d] /\ LetGo(e, n, FALSE)
  BY <1>0, <1>1, <1>2 DEF Accept, nodeVars
<1>4. backlog[n] \in Seq(Conn) /\ backlog \in [Node -> Seq(Conn)] /\ IsInjective(backlog[n])
  BY DEF Types, SockTypes, Wires
<1>5. /\ d \in Conn /\ d \in Range(backlog[n])
      /\ Range(Tail(backlog[n])) \subseteq Range(backlog[n])
      /\ Range(backlog[n]) \subseteq Range(Tail(backlog[n])) \cup {d}
      /\ IsInjective(Tail(backlog[n])) /\ d \notin Range(Tail(backlog[n]))
  BY <1>0, <1>3, <1>4, RangeFacts, InjectiveFacts
<1>6. d[2] = n /\ p = d[1] /\ p \in Peer(n) /\ Waits(d)
  BY <1>1, <1>5, ConnFacts DEF Types, SockTypes, Waits
<1>7. e # d
  BY <1>2, <1>5, <1>6 DEF Wires, Wire
<1>8. \A x \in Node : \A y \in Peer(x) : sock'[x][y] = IF x = n /\ y = p THEN d ELSE sock[x][y]
  BY <1>3, <1>6 DEF Types, SockTypes, PerPeer
<1>9. /\ backlog'[n] = Tail(backlog[n])
      /\ \A x \in Node : x # n => backlog'[x] = backlog[x]
  BY <1>3, <1>4
<1>10. ~Waits(d)'
  BY <1>5, <1>6, <1>9 DEF Waits
<1>11. ASSUME NEW c \in Conn, c # d
       PROVE  Waits(c)' <=> Waits(c)
  <2>1. CASE c[2] = n
    BY <1>5, <1>9, <1>11, <2>1 DEF Waits
  <2>2. CASE c[2] # n
    BY <1>9, <2>2, ConnFacts DEF Waits
  <2> QED
    BY <2>1, <2>2
<1>12. \A x \in Node : IsInjective(backlog'[x])
  BY <1>5, <1>9 DEF Wires
<1>13. Accepts(n, p, d, e)
  BY <1>2, <1>3, <1>5, <1>6, <1>7, <1>8, <1>10, <1>11, <1>12 DEF Accepts
<1> QED
  BY <1>13

LEMMA AcceptWires ==
  ASSUME Types, Wires, NEW n \in Node, Accept(n)
  PROVE  Wires'
<1>1. PICK p, d, e : Accepts(n, p, d, e)
  BY AcceptFacts
<1>2. /\ d \in Conn /\ p = d[1] /\ d[2] = n /\ ~Waits(d)' /\ e = sock[n][p] /\ e # d /\ p \in Peer(n)
      /\ \A x \in Node : \A y \in Peer(x) : sock'[x][y] = IF x = n /\ y = p THEN d ELSE sock[x][y]
      /\ \A c \in Conn : c # d => (Waits(c)' <=> Waits(c))
      /\ \A x \in Node : IsInjective(backlog'[x])
  BY <1>1 DEF Accepts
<1>3. LetsGo(n, p, e, FALSE)
  BY <1>1, LetGoFacts DEF Accepts
<1>4. Wire(d)'
  <2>1. sock'[d[2]][d[1]] = d
    BY <1>2
  <2> QED
    BY <1>2, <2>1 DEF Wire, Loose
<1>5. ASSUME NEW c \in Conn, c # d, c # e
      PROVE  Wire(c)'
  <2>1. inbox'[c] = inbox[c] /\ shut'[c] = shut[c]
    BY <1>3, <1>5 DEF LetsGo
  <2>2. /\ sock'[c[1]][c[2]] = c <=> sock[c[1]][c[2]] = c
        /\ sock'[c[2]][c[1]] = c <=> sock[c[2]][c[1]] = c
    BY <1>2, <1>5, ConnFacts
  <2> QED
    BY <1>2, <1>5, <2>1, <2>2 DEF Wires, Wire, Loose
<1>6. ASSUME e # NoConn
      PROVE  Wire(e)'
  <2>1. /\ e \in Conn /\ ((n = e[1] /\ p = e[2]) \/ (n = e[2] /\ p = e[1]))
        /\ Waits(e) => n = e[1]
        /\ Refers(p, e) => inbox'[e][n] = <<>>
        /\ ~Refers(p, e) => inbox'[e] = Quiet /\ shut'[e] = {}
    BY <1>3, <1>6 DEF LetsGo
  <2>2. Waits(e)' <=> Waits(e)
    BY <1>2, <2>1
  <2>3. Waits(e) => Refers(p, e) /\ sock'[e[2]][e[1]] # e /\ inbox'[e][e[1]] = <<>>
    <3>1. Waits(e) => sock[e[2]][e[1]] # e /\ e[2] = p
      BY <2>1 DEF Wires, Wire
    <3>2. Waits(e) => Refers(p, e)
      BY <2>1, <3>1, ReferFacts
    <3> QED
      BY <1>2, <2>1, <3>1, <3>2, ConnFacts
  <2>4. Loose(e)' => ~Refers(p, e)
    BY <1>2, <2>1, <2>2, ReferFacts, ConnFacts DEF Loose
  <2> QED
    BY <2>1, <2>2, <2>3, <2>4 DEF Wire
<1>7. e \in Conn \/ e = NoConn
  BY <1>2 DEF Types, SockTypes, Between
<1>8. \A c \in Conn : Wire(c)'
  BY <1>4, <1>5, <1>6, <1>7, ConnFacts
<1> QED
  BY <1>2, <1>8 DEF Wires, Conn

LEMMA BreakWires ==
  ASSUME Types, Wires, NEW d \in Conn, Break(d)
  PROVE  Wires'
<1>1. /\ UNCHANGED <<sock, backlog>>
      /\ Linked(d[1], d[2]) /\ sock[d[1]][d[2]] = d
      /\ shut' = [shut EXCEPT ![d] = {d[1], d[2]}]
      /\ inbox' = [inbox EXCEPT ![d] = Quiet]
  BY DEF Break
<1>2. ASSUME NEW c \in Conn, c # d
      PROVE  Wire(c)'
  <2>1. inbox'[c] = inbox[c] /\ shut'[c] = shut[c]
    BY <1>1, <1>2 DEF Types, ConnTypes
  <2> QED
    BY <1>1, <2>1, SameWire DEF Wires, Waits
<1>3. Wire(d)'
  <2>1. sock[d[2]][d[1]] = d
    BY <1>1 DEF Linked
  <2>2. ~Waits(d)
    BY <2>1 DEF Wires, Wire
  <2> QED
    BY <1>1, <2>1, <2>2 DEF Wire, Loose, Waits
<1>4. \A x \in Node : IsInjective(backlog'[x])
  BY <1>1 DEF Wires
<1> QED
  BY <1>2, <1>3, <1>4 DEF Wires, Conn

LEMMA EmptyRange ==
  Range(<<>>) = {} /\ IsInjective(<<>>)
BY DEF Range, IsInjective

LEMMA ResetWires ==
  ASSUME Types, Wires, NEW n \in Node, Resets(n)
  PROVE  Wires'
<1>1. /\ \A x \in Node : \A y \in Peer(x) :
           sock'[x][y] = IF x = n THEN NoConn ELSE sock[x][y]
      /\ \A x \in Node : backlog'[x] = IF x = n THEN <<>> ELSE backlog[x]
      /\ \A c \in Conn : Orphaned(c, n)
  BY DEF Resets, Types, SockTypes, PerPeer
<1>2. ASSUME NEW c \in Conn
      PROVE  Wire(c)'
  <2>1. /\ c[1] \in Node /\ c[2] \in Node /\ c[1] # c[2] /\ c # NoConn
        /\ Other(c, c[2]) = c[1] /\ Other(c, c[1]) = c[2]
        /\ c[1] \in Peer(c[2]) /\ c[2] \in Peer(c[1])
    BY ConnFacts
  <2>2. Wire(c) /\ inbox[c] \in [Node -> Seq(Message)]
    BY DEF Wires, Types, ConnTypes
  <2>3. CASE n \notin {c[1], c[2]}
    <3>1. inbox'[c] = inbox[c] /\ shut'[c] = shut[c]
      BY <1>1, <2>3 DEF Orphaned
    <3>2. /\ sock'[c[1]][c[2]] = sock[c[1]][c[2]] /\ sock'[c[2]][c[1]] = sock[c[2]][c[1]]
          /\ Waits(c)' <=> Waits(c)
      BY <1>1, <2>1, <2>3 DEF Waits
    <3> QED
      BY <2>2, <3>1, <3>2, SameWire
  <2>4. CASE n = c[1]
    <3>1. /\ sock'[c[1]][c[2]] # c /\ sock'[c[2]][c[1]] = sock[c[2]][c[1]]
          /\ Waits(c)' <=> Waits(c)
      BY <1>1, <2>1, <2>4 DEF Waits
    <3>2. /\ Refers(c[2], c) => inbox'[c] = InboxAfter(c, n)
          /\ ~Refers(c[2], c) /\ Refers(n, c) =>
               inbox'[c] = InboxAfter(c, n) /\ shut'[c] = ShutAfter(c, n, TRUE)
          /\ ~Refers(c[2], c) /\ ~Refers(n, c) => inbox'[c] = inbox[c] /\ shut'[c] = shut[c]
      BY <1>1, <2>1, <2>4 DEF Orphaned
    <3>3. Waits(c)' => sock'[c[2]][c[1]] # c /\ inbox'[c][c[1]] = <<>>
      BY <2>1, <2>2, <2>4, <3>1, <3>2, ReferFacts DEF Wire, InboxAfter
    <3>4. Loose(c)' => ~Refers(c[2], c)
      BY <3>1, ReferFacts DEF Loose
    <3>5. ~Refers(c[2], c) /\ ~Refers(n, c) => Loose(c)
      BY <2>4, ReferFacts DEF Loose
    <3>6. Loose(c)' => inbox'[c] = Quiet /\ shut'[c] = {}
      BY <2>1, <2>2, <2>4, <3>2, <3>4, <3>5 DEF Wire, InboxAfter, ShutAfter
    <3> QED
      BY <3>3, <3>6 DEF Wire
  <2>5. CASE n = c[2]
    <3>1. /\ sock'[c[2]][c[1]] # c /\ sock'[c[1]][c[2]] = sock[c[1]][c[2]]
          /\ ~Waits(c)'
      BY <1>1, <2>1, <2>5, EmptyRange DEF Waits
    <3>2. /\ ~Refers(c[1], c) /\ Refers(n, c) =>
               inbox'[c] = InboxAfter(c, n) /\ shut'[c] = ShutAfter(c, n, TRUE)
          /\ ~Refers(c[1], c) /\ ~Refers(n, c) => inbox'[c] = inbox[c] /\ shut'[c] = shut[c]
      BY <1>1, <2>1, <2>5 DEF Orphaned
    <3>3. Loose(c)' => ~Refers(c[1], c)
      BY <3>1, ReferFacts DEF Loose
    <3>4. ~Refers(c[1], c) /\ ~Refers(n, c) => Loose(c)
      BY <2>5, ReferFacts DEF Loose
    <3>5. Loose(c)' => inbox'[c] = Quiet /\ shut'[c] = {}
      BY <2>1, <2>2, <2>5, <3>2, <3>3, <3>4 DEF Wire, InboxAfter, ShutAfter
    <3> QED
      BY <3>1, <3>5 DEF Wire
  <2> QED
    BY <2>3, <2>4, <2>5
<1>3. \A x \in Node : IsInjective(backlog'[x])
  BY <1>1, EmptyRange DEF Wires
<1> QED
  BY <1>2, <1>3 DEF Wires, Conn

LEMMA InitWires ==
  ASSUME Init
  PROVE  Wires
<1>1. /\ sock = [n \in Node |-> [p \in Peer(n) |-> NoConn]]
      /\ backlog = Quiet /\ shut = [c \in Conn |-> {}] /\ inbox = [c \in Conn |-> Quiet]
  BY DEF Init
<1>2. \A n \in Node : backlog[n] = <<>>
  BY <1>1 DEF Quiet
<1>3. ASSUME NEW c \in Conn
      PROVE  Wire(c)
  <2>1. ~Waits(c) /\ inbox[c] = Quiet /\ shut[c] = {}
    BY <1>1, <1>2, EmptyRange, ConnFacts DEF Waits
  <2> QED
    BY <2>1 DEF Wire
<1> QED
  BY <1>2, <1>3, EmptyRange DEF Wires

LEMMA StepWires ==
  ASSUME Types, Wires, [Next]_vars
  PROVE  Wires'
<1>1. KindOfStep
  BY StepKinds
<1>2. CASE Idles
  <2>1. \A c \in Conn : Wire(c)' /\ \A x \in Node : IsInjective(backlog'[x])
    BY <1>2 DEF Idles, Wires, Wire, Loose, Waits
  <2> QED
    BY <1>2, <2>1 DEF Idles, Wires, Conn
<1>3. ASSUME NEW n \in Node, SpeakStep(n) \/ Accept(n) \/ Resets(n)
      PROVE  Wires'
  BY <1>3, SpeakStepWires, AcceptWires, ResetWires
<1>4. ASSUME NEW n \in Node, NEW p \in Peer(n), HearStep(n, p) \/ Send(n, p) \/ Cuts(n, p)
      PROVE  Wires'
  BY <1>4, HearStepWires, SendWires, CutWires DEF Cuts
<1>5. ASSUME NEW c \in Conn, Break(c)
      PROVE  Wires'
  BY <1>5, BreakWires
<1> QED
  BY <1>1, <1>2, <1>3, <1>4, <1>5 DEF KindOfStep

-----------------------------------------------------------------------------
(***************************************************************************)
(* The conversations.  Both ends of a connection know each other's role or *)
(* will; one that waits to be accepted has been told it.                   *)
(***************************************************************************)
Stream(x, y, c) == inbox[c][x] \o msgs[y][x]
Joined(c) == sock[c[1]][c[2]] = c /\ sock[c[2]][c[1]] = c /\ shut[c] = {}
Called(c) == sock[c[1]][c[2]] = c /\ Waits(c) /\ shut[c] = {}
Heard(x, y, c) == Knows(view[x][y], Stream(x, y, c), Stream(y, x, c), run[x], run[y])
Told(c) == /\ Ends(Stream(c[2], c[1], c), RoleKind, run[c[1]])
           /\ Ends(Stream(c[2], c[1], c), Asking, run[c[1]])
Talk(c) == /\ Joined(c) => Heard(c[1], c[2], c) /\ Heard(c[2], c[1], c)
           /\ Called(c) => Told(c)
Talks == \A c \in Conn : Talk(c)

LEMMA StreamTypes ==
  ASSUME Types, NEW c \in Conn
  PROVE  /\ c[1] \in Node /\ c[2] \in Node /\ c[1] # c[2]
         /\ c[1] \in Peer(c[2]) /\ c[2] \in Peer(c[1])
         /\ inbox[c][c[1]] \in Seq(Message) /\ inbox[c][c[2]] \in Seq(Message)
         /\ msgs[c[1]][c[2]] \in Seq(Message) /\ msgs[c[2]][c[1]] \in Seq(Message)
         /\ Stream(c[1], c[2], c) \in Seq(Message)
         /\ Stream(c[2], c[1], c) \in Seq(Message)
<1>1. /\ c[1] \in Node /\ c[2] \in Node /\ c[1] # c[2]
      /\ c[1] \in Peer(c[2]) /\ c[2] \in Peer(c[1])
  BY ConnFacts
<1>2. /\ inbox[c][c[1]] \in Seq(Message) /\ inbox[c][c[2]] \in Seq(Message)
      /\ msgs[c[1]][c[2]] \in Seq(Message) /\ msgs[c[2]][c[1]] \in Seq(Message)
  BY <1>1 DEF Types, MsgTypes, ConnTypes, PerPeer
<1>3. /\ Stream(c[1], c[2], c) \in Seq(Message)
      /\ Stream(c[2], c[1], c) \in Seq(Message)
  <2>1. \A a, b \in Seq(Message) : a \o b \in Seq(Message)
    BY ConcatProperties
  <2> QED
    BY <1>2, <2>1 DEF Stream
<1> QED
  BY <1>1, <1>2, <1>3

LEMMA SameTalk ==
  ASSUME NEW c \in Conn, Talk(c), Joined(c)' => Joined(c), Called(c)' => Called(c),
         Stream(c[1], c[2], c)' = Stream(c[1], c[2], c),
         Stream(c[2], c[1], c)' = Stream(c[2], c[1], c),
         view'[c[1]][c[2]] = view[c[1]][c[2]], view'[c[2]][c[1]] = view[c[2]][c[1]],
         run'[c[1]] = run[c[1]], run'[c[2]] = run[c[2]]
  PROVE  Talk(c)'
BY DEF Talk, Heard, Told

\* A stream grows by what its sender says.
LEMMA StreamGrows ==
  ASSUME Types, NEW n \in Node, NEW p \in Peer(n), NEW S, NEW u, Utters(n, p, S, u),
         NEW c \in Conn, n \in {c[1], c[2]}, p \in {c[1], c[2]}, inbox'[c][p] = inbox[c][p]
  PROVE  Stream(p, n, c)' = Stream(p, n, c) \o u
<1> DEFINE a == inbox[c][p]  b == msgs[n][p]
<1>1. a \in Seq(Message) /\ b \in Seq(Message) /\ u \in Seq(Message)
  BY StreamTypes DEF Utters, Peer
<1>2. Stream(p, n, c)' = a \o (b \o u)
  BY DEF Utters, Stream
<1>3. Stream(p, n, c) = a \o b
  BY DEF Stream
<1> HIDE DEF a, b
<1>4. a \o (b \o u) = (a \o b) \o u
  BY <1>1, StreamFacts
<1> QED
  BY <1>2, <1>3, <1>4

LEMMA SaysTold ==
  ASSUME NEW s \in Seq(Message), NEW u \in Seq(Message), NEW r, NEW q, Says(u, r, q),
         Ends(s, RoleKind, r), Ends(s, Asking, r)
  PROVE  Ends(s \o u, RoleKind, q) /\ Ends(s \o u, Asking, q)
<1>1. Settled(r, s, r)
  BY DEF Settled
<1>2. Settled(r, s \o u, q) /\ Ends(s \o u, Asking, q)
  BY <1>1, SaysSettles
<1>3. ~Lacks(s \o u, RoleKind)
  BY EndsOrLacks, LacksBoth
<1> QED
  BY <1>2, <1>3 DEF Settled

LEMMA SpeakTalk ==
  ASSUME Types, Wires, NEW n \in Node, NEW S, Speaks(n, S), NEW c \in Conn, Talk(c),
         inbox'[c] = inbox[c],
         Joined(c) => view'[c[1]][c[2]] = view[c[1]][c[2]] /\ view'[c[2]][c[1]] = view[c[2]][c[1]]
  PROVE  Talk(c)'
<1>1. /\ c[1] \in Node /\ c[2] \in Node /\ c[1] # c[2]
      /\ c[1] \in Peer(c[2]) /\ c[2] \in Peer(c[1])
      /\ Stream(c[1], c[2], c) \in Seq(Message)
      /\ Stream(c[2], c[1], c) \in Seq(Message)
  BY StreamTypes
<1>2. /\ shut' = shut
      /\ \A x \in Node : x # n => run'[x] = run[x]
      /\ \A x \in Node : \A y \in Peer(x) : x # n => msgs'[x][y] = msgs[x][y]
      /\ \A p \in Peer(n) : sock'[n][p] = NoConn => msgs'[n][p] = msgs[n][p]
      /\ \A p \in Peer(n) : sock'[n][p] # NoConn => \E u : Utters(n, p, S, u)
  BY DEF Speaks
<1>3. ASSUME c[1] = n, c[2] \in S, c = Fresh(n, c[2])
      PROVE  Talk(c)'
  <2>1. /\ Loose(c) /\ sock'[c[1]][c[2]] = c
        /\ sock'[c[2]][c[1]] = c <=> sock[c[2]][c[1]] = c
    BY <1>3, CallFacts
  <2>2. ~Joined(c)' /\ inbox[c] = Quiet
    BY <2>1 DEF Joined, Loose, Wires, Wire
  <2>3. PICK u : Utters(n, c[2], S, u)
    BY <1>1, <1>2, <1>3, <2>1, ConnFacts
  <2>4. u \in Seq(Message) /\ ~Lacks(u, Asking) /\ Says(u, run[n], run'[n])
    BY <1>3, <2>3 DEF Utters
  <2>5. Stream(c[2], n, c)' = Stream(c[2], n, c) \o u
    BY <1>1, <1>3, <2>3, StreamGrows
  <2>6. \A i \in 1..Len(u) : u[i].t \in RoleKind => u[i].r = run'[n]
    BY <2>4 DEF Says
  <2>7. ~Lacks(u, RoleKind) /\ \A i \in 1..Len(u) : u[i].t \in Asking => u[i].r = run'[n]
    BY <2>4, <2>6 DEF Lacks, RoleKind, Asking
  <2>8. /\ Ends(Stream(c[2], n, c) \o u, RoleKind, run'[n])
        /\ Ends(Stream(c[2], n, c) \o u, Asking, run'[n])
    <3> DEFINE s == Stream(c[2], n, c)
    <3>1. s \in Seq(Message)
      BY <1>1, <1>3
    <3> HIDE DEF s
    <3>2. Ends(s \o u, RoleKind, run'[n]) /\ Ends(s \o u, Asking, run'[n])
      BY <2>4, <2>6, <2>7, <3>1, EndsNew
    <3> QED
      BY <3>2 DEF s
  <2>9. Told(c)'
    BY <1>3, <2>5, <2>8 DEF Told
  <2> QED
    BY <2>2, <2>9 DEF Talk
<1>4. ASSUME ~(c[1] = n /\ c[2] \in S /\ c = Fresh(n, c[2]))
      PROVE  Talk(c)'
  <2>1. /\ sock'[c[1]][c[2]] = c <=> sock[c[1]][c[2]] = c
        /\ sock'[c[2]][c[1]] = c <=> sock[c[2]][c[1]] = c
        /\ Waits(c)' <=> Waits(c)
    BY <1>4, CallFacts
  <2>2. (Joined(c)' => Joined(c)) /\ (Called(c)' => Called(c))
    BY <1>2, <2>1 DEF Joined, Called
  <2>3. CASE n \notin {c[1], c[2]}
    <3>1. /\ run'[c[1]] = run[c[1]] /\ run'[c[2]] = run[c[2]]
          /\ msgs'[c[1]][c[2]] = msgs[c[1]][c[2]] /\ msgs'[c[2]][c[1]] = msgs[c[2]][c[1]]
      BY <1>1, <1>2, <2>3
    <3>2. Heard(c[1], c[2], c) => (view'[c[1]][c[2]] = view[c[1]][c[2]] => Heard(c[1], c[2], c)')
      BY <3>1 DEF Heard, Stream
    <3>3. Heard(c[2], c[1], c) => (view'[c[2]][c[1]] = view[c[2]][c[1]] => Heard(c[2], c[1], c)')
      BY <3>1 DEF Heard, Stream
    <3>4. Told(c) => Told(c)'
      BY <3>1 DEF Told, Stream
    <3> QED
      BY <2>2, <3>2, <3>3, <3>4 DEF Talk
  <2>4. ASSUME n \in {c[1], c[2]}, Joined(c)
        PROVE  Heard(c[1], c[2], c)' /\ Heard(c[2], c[1], c)'
    <3>1. PICK p \in Peer(n) : p = Other(c, n)
      BY <1>1, <2>4, ConnFacts
    <3>2. /\ (n = c[1] /\ p = c[2]) \/ (n = c[2] /\ p = c[1])
          /\ sock'[n][p] = c
      BY <1>1, <2>1, <2>4, <3>1, ConnFacts DEF Joined
    <3>3. PICK u : Utters(n, p, S, u)
      BY <1>2, <3>2, ConnFacts
    <3>4. Stream(p, n, c)' = Stream(p, n, c) \o u /\ u \in Seq(Message) /\ Says(u, run[n], run'[n])
      BY <3>2, <3>3, StreamGrows DEF Utters
    <3>5. Stream(n, p, c)' = Stream(n, p, c) /\ run'[p] = run[p]
      <4>1. p \in Node /\ p # n /\ n \in Peer(p)
        BY <1>1, <3>2
      <4>2. msgs'[p][n] = msgs[p][n] /\ run'[p] = run[p]
        BY <1>2, <4>1
      <4> QED
        BY <4>2 DEF Stream
    <3> DEFINE s == Stream(n, p, c)  b == Stream(p, n, c)
    <3>6. /\ s \in Seq(Message) /\ b \in Seq(Message)
          /\ Knows(view[n][p], s, b, run[n], run[p]) /\ Knows(view[p][n], b, s, run[p], run[n])
          /\ view'[n][p] = view[n][p] /\ view'[p][n] = view[p][n]
      BY <1>1, <2>4, <3>2 DEF Talk, Heard
    <3>7. Stream(n, p, c)' = s /\ Stream(p, n, c)' = b \o u
      BY <3>4, <3>5
    <3> HIDE DEF s, b
    <3>8. /\ Knows(view[n][p], s, b \o u, run'[n], run[p])
          /\ Knows(view[p][n], b \o u, s, run[p], run'[n])
      BY <3>4, <3>6, SayingKeepsKnowing
    <3>9. Heard(n, p, c)' /\ Heard(p, n, c)'
      BY <3>5, <3>6, <3>7, <3>8 DEF Heard
    <3> QED
      BY <3>2, <3>9
  <2>5. ASSUME n \in {c[1], c[2]}, Called(c)
        PROVE  Told(c)'
    <3>1. Told(c) /\ sock'[c[1]][c[2]] = c
      BY <2>1, <2>5 DEF Talk, Called
    <3>2. CASE n = c[2]
      <4>1. Stream(c[2], c[1], c)' = Stream(c[2], c[1], c) /\ run'[c[1]] = run[c[1]]
        BY <1>1, <1>2, <3>2 DEF Stream
      <4> QED
        BY <3>1, <4>1 DEF Told
    <3>3. CASE n = c[1]
      <4>1. PICK u : Utters(n, c[2], S, u)
        BY <1>1, <1>2, <3>1, <3>3, ConnFacts
      <4>2. /\ Stream(c[2], n, c)' = Stream(c[2], n, c) \o u /\ u \in Seq(Message)
            /\ Says(u, run[n], run'[n])
        BY <1>1, <3>3, <4>1, StreamGrows DEF Utters
      <4> DEFINE s == Stream(c[2], n, c)
      <4>3. s \in Seq(Message) /\ Ends(s, RoleKind, run[n]) /\ Ends(s, Asking, run[n])
        BY <1>1, <3>1, <3>3 DEF Told
      <4>4. Stream(c[2], n, c)' = s \o u
        BY <4>2
      <4> HIDE DEF s
      <4>5. Ends(s \o u, RoleKind, run'[n]) /\ Ends(s \o u, Asking, run'[n])
        BY <4>2, <4>3, SaysTold
      <4> QED
        BY <3>3, <4>4, <4>5 DEF Told
    <3> QED
      BY <2>5, <3>2, <3>3
  <2> QED
    BY <2>2, <2>3, <2>4, <2>5 DEF Talk
<1> QED
  BY <1>3, <1>4

LEMMA HearTalk ==
  ASSUME Types, Wires, Talks, NEW n \in Node, NEW p \in Peer(n), HearStep(n, p), NEW c \in Conn
  PROVE  Talk(c)'
<1>1. PICK S : Speaks(n, S) /\ Hears(n, p, S)
  BY DEF HearStep
<1>2. PICK d : d = sock[n][p]
  OBVIOUS
<1>3. /\ d \in Conn /\ p \notin S /\ ~Waits(d)'
      /\ sock'[d[1]][d[2]] = d <=> sock[d[1]][d[2]] = d
      /\ sock'[d[2]][d[1]] = d <=> sock[d[2]][d[1]] = d
  BY <1>1, <1>2, HearFacts
<1>4. /\ inbox[d][n] # <<>> /\ inbox' = [inbox EXCEPT ![d][n] = Tail(@)]
      /\ \A x \in Node : \A y \in Peer(x) : x # n \/ y # p => view'[x][y] = view[x][y]
      /\ \E u : /\ Utters(n, p, S, u)
                /\ Answers(Head(inbox[d][n]), view[n][p], view'[n][p], run[n], u)
  BY <1>1, <1>2 DEF Hears
<1>5. CASE c # d
  <2>1. inbox'[c] = inbox[c]
    BY <1>3, <1>4, <1>5 DEF Types, ConnTypes
  <2>2. Joined(c) => /\ view'[c[1]][c[2]] = view[c[1]][c[2]]
                     /\ view'[c[2]][c[1]] = view[c[2]][c[1]]
    BY <1>2, <1>4, <1>5, ConnFacts DEF Joined
  <2> QED
    BY <1>1, <2>1, <2>2, SpeakTalk DEF Talks
<1>6. CASE c = d
  <2>1. ~Called(c)'
    BY <1>3, <1>6 DEF Called
  <2>2. ASSUME Joined(c)'
        PROVE  Heard(c[1], c[2], c)' /\ Heard(c[2], c[1], c)'
    <3>1. Joined(c) /\ Talk(c)
      BY <1>1, <1>3, <1>6, <2>2 DEF Joined, Speaks, Talks
    <3>2. (n = c[1] /\ p = c[2]) \/ (n = c[2] /\ p = c[1])
      BY <1>2, <1>6, ReferFacts
    <3>3. p \in Node /\ p # n /\ n \in Peer(p)
      BY ConnFacts
    <3>4. PICK u : /\ Utters(n, p, S, u)
                   /\ Answers(Head(inbox[c][n]), view[n][p], view'[n][p], run[n], u)
      BY <1>4, <1>6
    <3>5. inbox'[c][p] = inbox[c][p] /\ inbox'[c][n] = Tail(inbox[c][n])
      BY <1>4, <1>6, <3>3 DEF Types, ConnTypes
    <3>6. Stream(p, n, c)' = Stream(p, n, c) \o u /\ u \in Seq(Message) /\ Says(u, run[n], run'[n])
      BY <3>2, <3>4, <3>5, StreamGrows DEF Utters
    <3>7. msgs'[p][n] = msgs[p][n] /\ run'[p] = run[p] /\ view'[p][n] = view[p][n]
      BY <1>1, <1>4, <3>3 DEF Speaks
    <3> DEFINE s == Stream(n, p, c)  b == Stream(p, n, c)  a == inbox[c][n]  m == msgs[p][n]
    <3>8. /\ s \in Seq(Message) /\ b \in Seq(Message) /\ a \in Seq(Message) /\ m \in Seq(Message)
          /\ Knows(view[n][p], s, b, run[n], run[p]) /\ Knows(view[p][n], b, s, run[p], run[n])
          /\ s = a \o m /\ a # <<>>
      <4>1. Heard(n, p, c) /\ Heard(p, n, c)
        BY <3>1, <3>2 DEF Talk
      <4>2. s \in Seq(Message) /\ b \in Seq(Message) /\ a \in Seq(Message) /\ m \in Seq(Message)
        BY <3>2, StreamTypes
      <4> QED
        BY <1>4, <1>6, <4>1, <4>2 DEF Heard, Stream
    <3>9. Stream(n, p, c)' = Tail(a) \o m
      BY <3>5, <3>7 DEF Stream
    <3>10. Stream(p, n, c)' = b \o u /\ Answers(Head(a), view[n][p], view'[n][p], run[n], u)
      BY <3>4, <3>6
    <3> HIDE DEF s, b, a, m
    <3>11. s # <<>> /\ Head(s) = Head(a) /\ Tail(s) = Tail(a) \o m
      BY <3>8, StreamFacts
    <3>12. Answers(Head(s), view[n][p], view'[n][p], run[n], u)
      BY <3>10, <3>11
    <3>13. /\ Knows(view'[n][p], Tail(s), b \o u, run'[n], run[p])
           /\ Knows(view[p][n], b \o u, Tail(s), run[p], run'[n])
      BY <3>6, <3>8, <3>11, <3>12, ReadingKeepsKnowing
    <3>14. Heard(n, p, c)' /\ Heard(p, n, c)'
      BY <3>7, <3>9, <3>10, <3>11, <3>13 DEF Heard
    <3> QED
      BY <3>2, <3>14
  <2> QED
    BY <2>1, <2>2 DEF Talk
<1> QED
  BY <1>5, <1>6

LEMMA SpeakStepTalk ==
  ASSUME Types, Wires, Talks, NEW n \in Node, SpeakStep(n), NEW c \in Conn
  PROVE  Talk(c)'
<1>1. PICK S : Speaks(n, S)
  BY DEF SpeakStep
<1>2. inbox' = inbox /\ view' = view
  BY DEF SpeakStep, Quietly
<1> QED
  BY <1>1, <1>2, SpeakTalk DEF Talks

\* A message leaves the queue for the connection, or is lost with it.
LEMMA SendTalk ==
  ASSUME Types, Wires, Talks, NEW n \in Node, NEW p \in Peer(n), Send(n, p), NEW c \in Conn
  PROVE  Talk(c)'
<1>1. PICK d : d = sock[n][p]
  OBVIOUS
<1>2. /\ d # NoConn /\ UNCHANGED <<run, view, sock, backlog, shut>>
      /\ msgs[n][p] # <<>> /\ msgs' = [msgs EXCEPT ![n][p] = Tail(@)]
      /\ inbox' = IF Refers(p, d) /\ shut[d] = {}
                  THEN [inbox EXCEPT ![d][p] = Append(@, Head(msgs[n][p]))]
                  ELSE inbox
  BY <1>1 DEF Send, Writable, linkVars, nodeVars
<1>3. /\ d \in Conn /\ p \in Node /\ n # p /\ n \in Peer(p)
  BY <1>1, <1>2, ConnFacts DEF Types, SockTypes, Between
<1>4. (n = d[1] /\ p = d[2]) \/ (n = d[2] /\ p = d[1])
  BY <1>1, <1>3, ReferFacts
<1>5. \A x \in Node : \A y \in Peer(x) : x # n \/ y # p => msgs'[x][y] = msgs[x][y]
  BY <1>2, ShiftTypes
<1>6. /\ c[1] \in Node /\ c[2] \in Node /\ c[1] # c[2]
      /\ c[1] \in Peer(c[2]) /\ c[2] \in Peer(c[1])
  BY ConnFacts
<1>7. /\ Joined(c)' <=> Joined(c)
      /\ Called(c)' <=> Called(c)
  BY <1>2 DEF Joined, Called, Waits
<1>8. CASE c # d
  <2>1. inbox'[c] = inbox[c]
    BY <1>2, <1>3, <1>8 DEF Types, ConnTypes
  <2>2. CASE ~((n = c[1] /\ p = c[2]) \/ (n = c[2] /\ p = c[1]))
    <3>1. /\ Stream(c[1], c[2], c)' = Stream(c[1], c[2], c)
          /\ Stream(c[2], c[1], c)' = Stream(c[2], c[1], c)
      BY <1>5, <1>6, <2>1, <2>2 DEF Stream
    <3> QED
      BY <1>2, <1>7, <3>1, SameTalk DEF Talks
  <2>3. CASE (n = c[1] /\ p = c[2]) \/ (n = c[2] /\ p = c[1])
    <3>1. ~Joined(c)
      BY <1>1, <1>8, <2>3 DEF Joined
    <3>2. Called(c) => n = c[2] /\ p = c[1]
      BY <1>1, <1>8, <2>3 DEF Called
    <3>3. n = c[2] /\ p = c[1] => Stream(c[2], c[1], c)' = Stream(c[2], c[1], c)
      BY <1>5, <1>6, <2>1 DEF Stream
    <3> QED
      BY <1>2, <1>7, <3>1, <3>2, <3>3 DEF Talks, Talk, Told
  <2> QED
    BY <2>2, <2>3
<1>9. CASE c = d
  <2>1. CASE Refers(p, d) /\ shut[d] = {}
    <3> DEFINE a == inbox[d][p]  b == msgs[n][p]
    <3>1. a \in Seq(Message) /\ b \in Seq(Message) /\ b # <<>>
      BY <1>2, <1>3 DEF Types, ConnTypes, MsgTypes, PerPeer
    <3>2. inbox'[d][p] = Append(a, Head(b)) /\ inbox'[d][n] = inbox[d][n] /\ msgs'[n][p] = Tail(b)
      BY <1>2, <1>3, <2>1 DEF Types, ConnTypes, MsgTypes, PerPeer
    <3>3. Stream(p, n, d)' = Append(a, Head(b)) \o Tail(b) /\ Stream(p, n, d) = a \o b
      BY <3>2 DEF Stream
    <3> HIDE DEF a, b
    <3>4. Append(a, Head(b)) \o Tail(b) = a \o b
      BY <3>1, StreamFacts
    <3>5. Stream(n, p, d)' = Stream(n, p, d)
      BY <1>3, <1>5, <3>2 DEF Stream
    <3> QED
      BY <1>2, <1>4, <1>7, <1>9, <3>3, <3>4, <3>5, SameTalk DEF Talks
  <2>2. CASE shut[d] # {}
    BY <1>7, <1>9, <2>2 DEF Talk, Joined, Called
  <2>3. CASE ~Refers(p, d)
    <3>1. ~Joined(d) /\ ~Called(d)
      BY <1>1, <1>3, <1>4, <2>3, ReferFacts DEF Joined, Called, Wires, Wire
    <3> QED
      BY <1>7, <1>9, <3>1 DEF Talk
  <2> QED
    BY <2>1, <2>2, <2>3
<1> QED
  BY <1>8, <1>9

\* n disconnects p: only their conversations change.
LEMMA CutTalk ==
  ASSUME Types, Wires, Talks, NEW n \in Node, NEW p \in Peer(n), Cuts(n, p), NEW c \in Conn
  PROVE  Talk(c)'
<1>1. PICK d : d = sock[n][p]
  OBVIOUS
<1>2. /\ LetGo(d, n, TRUE) /\ backlog' = backlog /\ run' = run /\ view' = view
      /\ sock' = [sock EXCEPT ![n][p] = NoConn]
      /\ \A x \in Node : \A y \in Peer(x) : x # n \/ y # p => msgs'[x][y] = msgs[x][y]
  BY <1>1 DEF Cuts, Disconnect
<1>3. LetsGo(n, p, d, TRUE)
  BY <1>1, <1>2, LetGoFacts
<1>4. \A x \in Node : \A y \in Peer(x) :
        sock'[x][y] = IF x = n /\ y = p THEN NoConn ELSE sock[x][y]
  BY <1>2 DEF Types, SockTypes, PerPeer
<1>5. /\ c[1] \in Node /\ c[2] \in Node /\ c[1] # c[2] /\ c # NoConn
      /\ c[1] \in Peer(c[2]) /\ c[2] \in Peer(c[1])
  BY ConnFacts
<1>6. Waits(c)' <=> Waits(c)
  BY <1>2 DEF Waits
<1>7. CASE ~((n = c[1] /\ p = c[2]) \/ (n = c[2] /\ p = c[1]))
  <2>1. c # d
    BY <1>1, <1>7, ReferFacts
  <2>2. inbox'[c] = inbox[c] /\ shut'[c] = shut[c]
    BY <1>3, <2>1 DEF LetsGo
  <2>3. /\ Stream(c[1], c[2], c)' = Stream(c[1], c[2], c)
        /\ Stream(c[2], c[1], c)' = Stream(c[2], c[1], c)
    BY <1>2, <1>5, <1>7, <2>2 DEF Stream
  <2>4. (Joined(c)' => Joined(c)) /\ (Called(c)' => Called(c))
    BY <1>4, <1>5, <1>6, <1>7, <2>2 DEF Joined, Called
  <2> QED
    BY <1>2, <2>3, <2>4, SameTalk DEF Talks
<1>8. CASE (n = c[1] /\ p = c[2]) \/ (n = c[2] /\ p = c[1])
  <2>1. ~Joined(c)'
    BY <1>4, <1>5, <1>8 DEF Joined
  <2>2. ASSUME Called(c)'
        PROVE  Told(c)'
    <3>1. n = c[2] /\ p = c[1]
      BY <1>4, <1>5, <1>8, <2>2 DEF Called
    <3>2. c # d
      BY <1>1, <1>6, <2>2, <3>1 DEF Called, Wires, Wire
    <3>3. inbox'[c] = inbox[c] /\ shut'[c] = shut[c]
      BY <1>3, <3>2 DEF LetsGo
    <3>4. Called(c) /\ Talk(c)
      BY <1>4, <1>5, <1>6, <2>2, <3>1, <3>3 DEF Called, Talks
    <3>5. Stream(c[2], c[1], c)' = Stream(c[2], c[1], c)
      BY <1>2, <1>5, <3>1, <3>3 DEF Stream
    <3> QED
      BY <1>2, <3>4, <3>5 DEF Talk, Told
  <2> QED
    BY <2>1, <2>2 DEF Talk
<1> QED
  BY <1>7, <1>8

\* A connection is accepted: both have been told what they need.
LEMMA AcceptTalk ==
  ASSUME Types, Wires, Talks, NEW n \in Node, Accept(n), NEW c \in Conn
  PROVE  Talk(c)'
<1>1. PICK p, d, e : Accepts(n, p, d, e)
  BY AcceptFacts
<1>2. /\ d \in Conn /\ p = d[1] /\ d[2] = n /\ Waits(d) /\ ~Waits(d)'
      /\ e = sock[n][p] /\ e # d /\ p \in Peer(n)
      /\ \A x \in Node : \A y \in Peer(x) : sock'[x][y] = IF x = n /\ y = p THEN d ELSE sock[x][y]
      /\ \A x \in Conn : x # d => (Waits(x)' <=> Waits(x))
      /\ UNCHANGED <<run, view, msgs>>
  BY <1>1 DEF Accepts
<1>3. LetsGo(n, p, e, FALSE)
  BY <1>1, <1>2, LetGoFacts DEF Accepts
<1>4. /\ c[1] \in Node /\ c[2] \in Node /\ c[1] # c[2] /\ c # NoConn
      /\ c[1] \in Peer(c[2]) /\ c[2] \in Peer(c[1])
  BY ConnFacts
<1>5. CASE c = e
  <2>1. (n = e[1] /\ p = e[2]) \/ (n = e[2] /\ p = e[1])
    BY <1>2, <1>5, ReferFacts
  <2>2. ~Joined(e)'
    BY <1>2, <1>4, <1>5, <2>1 DEF Joined
  <2>3. ~Called(e)'
    <3>1. Waits(e)' => n = e[1]
      BY <1>2, <1>3, <1>4, <1>5 DEF LetsGo
    <3> QED
      BY <1>2, <1>4, <1>5, <2>1, <3>1 DEF Called
  <2> QED
    BY <1>5, <2>2, <2>3 DEF Talk
<1>6. CASE c # e /\ c # d
  <2>1. inbox'[c] = inbox[c] /\ shut'[c] = shut[c]
    BY <1>3, <1>6 DEF LetsGo
  <2>2. /\ Stream(c[1], c[2], c)' = Stream(c[1], c[2], c)
        /\ Stream(c[2], c[1], c)' = Stream(c[2], c[1], c)
    BY <1>2, <2>1 DEF Stream
  <2>3. (Joined(c)' => Joined(c)) /\ (Called(c)' => Called(c))
    BY <1>2, <1>4, <1>6, <2>1 DEF Joined, Called
  <2> QED
    BY <1>2, <2>2, <2>3, SameTalk DEF Talks
<1>7. CASE c = d
  <2>1. ~Called(d)'
    BY <1>2 DEF Called
  <2>2. ASSUME Joined(d)'
        PROVE  Heard(d[1], d[2], d)' /\ Heard(d[2], d[1], d)'
    <3>1. inbox'[d] = inbox[d] /\ shut'[d] = shut[d]
      BY <1>2, <1>3 DEF LetsGo
    <3>2. sock[d[1]][d[2]] = d
      BY <1>2, <1>4, <1>7, <2>2 DEF Joined
    <3>3. Told(d)
      BY <1>2, <2>2, <3>1, <3>2 DEF Called, Joined, Talks, Talk
    <3>4. /\ Stream(d[1], d[2], d)' = Stream(d[1], d[2], d)
          /\ Stream(d[2], d[1], d)' = Stream(d[2], d[1], d)
      BY <1>2, <3>1 DEF Stream
    <3>5. Heard(d[2], d[1], d)'
      BY <1>2, <3>3, <3>4 DEF Told, Heard, Knows, Settled
    <3>6. Heard(d[1], d[2], d)'
      BY <1>2, <3>3, <3>4 DEF Told, Heard, Knows
    <3> QED
      BY <3>5, <3>6
  <2> QED
    BY <1>7, <2>1, <2>2 DEF Talk
<1> QED
  BY <1>5, <1>6, <1>7

LEMMA BreakTalk ==
  ASSUME Types, Talks, NEW d \in Conn, Break(d), NEW c \in Conn
  PROVE  Talk(c)'
<1>1. /\ UNCHANGED <<run, view, sock, msgs, backlog>>
      /\ shut' = [shut EXCEPT ![d] = {d[1], d[2]}]
      /\ inbox' = [inbox EXCEPT ![d] = Quiet]
  BY DEF Break, nodeVars
<1>2. CASE c = d
  <2>1. shut'[d] # {}
    BY <1>1 DEF Types, ConnTypes
  <2> QED
    BY <1>2, <2>1 DEF Talk, Joined, Called
<1>3. CASE c # d
  <2>1. inbox'[c] = inbox[c] /\ shut'[c] = shut[c]
    BY <1>1, <1>3 DEF Types, ConnTypes
  <2> QED
    BY <1>1, <2>1, SameTalk DEF Talks, Joined, Called, Waits, Stream
<1> QED
  BY <1>2, <1>3

LEMMA ResetTalk ==
  ASSUME Types, Talks, NEW n \in Node, Resets(n), NEW c \in Conn
  PROVE  Talk(c)'
<1>1. /\ \A x \in Node : \A y \in Peer(x) :
           sock'[x][y] = IF x = n THEN NoConn ELSE sock[x][y]
      /\ \A x \in Node : backlog'[x] = IF x = n THEN <<>> ELSE backlog[x]
      /\ \A x \in Node : \A y \in Peer(x) :
           x # n => msgs'[x][y] = msgs[x][y] /\ view'[x][y] = view[x][y]
      /\ \A x \in Node : x # n => run'[x] = run[x]
      /\ Orphaned(c, n)
  BY DEF Resets, Types, NodeTypes, SockTypes, MsgTypes, PerPeer
<1>2. /\ c[1] \in Node /\ c[2] \in Node /\ c[1] # c[2] /\ c # NoConn
      /\ c[1] \in Peer(c[2]) /\ c[2] \in Peer(c[1])
  BY ConnFacts
<1>3. CASE n \in {c[1], c[2]}
  <2>1. ~Joined(c)'
    BY <1>1, <1>2, <1>3 DEF Joined
  <2>2. ~Called(c)'
    BY <1>1, <1>2, <1>3, EmptyRange DEF Called, Waits
  <2> QED
    BY <2>1, <2>2 DEF Talk
<1>4. CASE n \notin {c[1], c[2]}
  <2>1. inbox'[c] = inbox[c] /\ shut'[c] = shut[c]
    BY <1>1, <1>4 DEF Orphaned
  <2>2. /\ Stream(c[1], c[2], c)' = Stream(c[1], c[2], c)
        /\ Stream(c[2], c[1], c)' = Stream(c[2], c[1], c)
    BY <1>1, <1>2, <1>4, <2>1 DEF Stream
  <2>3. (Joined(c)' => Joined(c)) /\ (Called(c)' => Called(c))
    BY <1>1, <1>2, <1>4, <2>1 DEF Joined, Called, Waits
  <2> QED
    BY <1>1, <1>2, <1>4, <2>2, <2>3, SameTalk DEF Talks
<1> QED
  BY <1>3, <1>4

LEMMA StepTalks ==
  ASSUME Types, Wires, Talks, [Next]_vars
  PROVE  Talks'
<1>1. KindOfStep
  BY StepKinds
<1>2. ASSUME NEW c \in Conn
      PROVE  Talk(c)'
  <2>1. CASE Idles
    BY <2>1, SameTalk DEF Idles, Talks, Joined, Called, Waits, Stream
  <2>2. ASSUME NEW n \in Node, SpeakStep(n) \/ Accept(n) \/ Resets(n)
        PROVE  Talk(c)'
    BY <2>2, SpeakStepTalk, AcceptTalk, ResetTalk
  <2>3. ASSUME NEW n \in Node, NEW p \in Peer(n), HearStep(n, p) \/ Send(n, p) \/ Cuts(n, p)
        PROVE  Talk(c)'
    BY <2>3, HearTalk, SendTalk, CutTalk
  <2>4. ASSUME NEW d \in Conn, Break(d)
        PROVE  Talk(c)'
    BY <2>4, BreakTalk
  <2> QED
    BY <1>1, <2>1, <2>2, <2>3, <2>4 DEF KindOfStep
<1> QED
  BY <1>2 DEF Talks, Conn

LEMMA InitTalks ==
  ASSUME Init
  PROVE  Talks
<1>1. sock = [n \in Node |-> [p \in Peer(n) |-> NoConn]]
  BY DEF Init
<1> QED
  BY <1>1, ConnFacts DEF Talks, Talk, Joined, Called

(***************************************************************************)
(* The invariant: types, connections and conversations.  It holds whatever *)
(* troubles happen and however many.                                       *)
(***************************************************************************)
NetInvariant == Types /\ Wires /\ Talks

\* The sockets, queues and databases of every gateway keep their types, a
\* socket is one of the two ends of its connection, and a stopped daemon has
\* the role it will start with (net.c, carp.c, pfkey.c).
THEOREM TypeCorrect == Spec => []Types
<1>1. Init => Types
  BY InitTypes
<1>2. Types /\ [Next]_vars => Types'
  BY StepKinds
<1> QED
  BY <1>1, <1>2, PTL DEF Spec

THEOREM NetInvariance == Spec => []NetInvariant
<1>1. Init => NetInvariant
  BY InitTypes, InitWires, InitTalks DEF NetInvariant
<1>2. NetInvariant /\ [Next]_vars => NetInvariant'
  <2> SUFFICES ASSUME Types, Wires, Talks, [Next]_vars
               PROVE  Types' /\ Wires' /\ Talks'
    BY DEF NetInvariant
  <2> QED
    BY StepKinds, StepWires, StepTalks
<1> QED
  BY <1>1, <1>2, PTL DEF Spec

\* Two daemons that use the same connection and have nothing left to tell
\* each other know each other's role.
LEMMA SilentMeansKnown ==
  ASSUME NetInvariant
  PROVE  RolesKnown
<1> SUFFICES ASSUME NEW n \in Node, NEW p \in Peer(n), Linked(n, p), Silent(n, p),
                    {run[n], run[p]} # {"MASTER"}
             PROVE  view[n][p] = run[p]
  BY DEF RolesKnown
<1>1. PICK c : c = sock[n][p]
  OBVIOUS
<1>2. /\ c \in Conn /\ sock[n][p] = c /\ sock[p][n] = c /\ shut[c] = {}
      /\ p \in Node /\ n \in Peer(p)
  BY <1>1, ConnFacts DEF Linked, NetInvariant, Types, SockTypes, Between
<1>3. (n = c[1] /\ p = c[2]) \/ (n = c[2] /\ p = c[1])
  BY <1>2, ReferFacts DEF NetInvariant
<1>4. Heard(n, p, c)
  BY <1>2, <1>3 DEF NetInvariant, Talks, Talk, Joined
<1>5. Stream(n, p, c) = <<>> /\ Stream(p, n, c) = <<>>
  <2>1. inbox[c][n] = <<>> /\ inbox[c][p] = <<>> /\ msgs[n][p] = <<>> /\ msgs[p][n] = <<>>
    BY <1>1, <1>2 DEF Silent, Quiet
  <2>2. <<>> \o <<>> = <<>>
    OBVIOUS
  <2> QED
    BY <2>1, <2>2 DEF Stream
<1>6. Len(<<>>) = 0 /\ \A i : i \notin 1..0
  OBVIOUS
<1>7. \A T, r : ~Ends(<<>>, T, r)
  BY <1>6 DEF Ends
<1> QED
  BY <1>4, <1>5, <1>7 DEF Heard, Knows, Settled

\* Whatever connections broke, daemons died and roles changed before, and with
\* messages of all of them crossing: the STATE, ACK and ERROR messages of
\* net_ctl.c leave two connected daemons that are silent knowing each other's
\* role; only two MASTERs never accept each other's word.
THEOREM PeersAgreeOnRoles == Spec => []RolesKnown
<1>1. NetInvariant => RolesKnown
  BY SilentMeansKnown
<1> QED
  BY <1>1, NetInvariance, PTL

-----------------------------------------------------------------------------
(***************************************************************************)
(* What a daemon believes, while no connection is lost.  It doubts that a  *)
(* peer is MASTER after the first k messages of s when they, with what it  *)
(* held before, end in a denial or hold no claim.  A stream is harmless    *)
(* when what was not sent as MASTER comes where the reader doubts.         *)
(***************************************************************************)
Claims(m) == m.t \in RoleKind /\ m.r = "MASTER"
Denies(m) == m.t \in RoleKind /\ m.r # "MASTER"
Stale(m) == m.t = "data" /\ m.by # "MASTER"
Doubted(v, s, k) ==
  \/ v # "MASTER" /\ \A i \in 1..k : ~Claims(s[i])
  \/ \E j \in 1..k : Denies(s[j]) /\ \A i \in 1..k : j < i => ~Claims(s[i])
Harmless(v, s) == \A i \in 1..Len(s) : Stale(s[i]) => Doubted(v, s, i - 1)
Sound(v, s, r) == Harmless(v, s) /\ (r # "MASTER" => Doubted(v, s, Len(s)))

\* A reader that doubts with some belief doubts with any that is no MASTER's.
LEMMA WeakerBelief ==
  ASSUME NEW v, NEW w, NEW s, v = "MASTER" \/ w # "MASTER"
  PROVE  /\ \A k : Doubted(v, s, k) => Doubted(w, s, k)
         /\ Harmless(v, s) => Harmless(w, s)
         /\ \A r : Sound(v, s, r) => Sound(w, s, r)
<1>1. \A k : Doubted(v, s, k) => Doubted(w, s, k)
  BY DEF Doubted
<1> QED
  BY <1>1 DEF Harmless, Sound

LEMMA HarmlessEmpty ==
  /\ \A v : Harmless(v, <<>>)
  /\ \A v, r : v # "MASTER" => Sound(v, <<>>, r)
<1>1. Len(<<>>) = 0 /\ \A i : i \notin 1..0
  OBVIOUS
<1> QED
  BY <1>1 DEF Harmless, Sound, Doubted

\* The beginning of a harmless stream.
LEMMA HarmlessPart ==
  ASSUME NEW a \in Seq(Message), NEW b \in Seq(Message), NEW v, Harmless(v, a \o b)
  PROVE  Harmless(v, a)
<1>1. /\ Len(a \o b) = Len(a) + Len(b) /\ Len(a) \in Nat /\ Len(b) \in Nat
      /\ \A i \in 1..Len(a) : i \in 1..Len(a \o b) /\ (a \o b)[i] = a[i]
  <2>1. /\ Len(a \o b) = Len(a) + Len(b) /\ Len(a) \in Nat /\ Len(b) \in Nat
        /\ \A i \in 1..Len(a) + Len(b) : (a \o b)[i] = IF i <= Len(a) THEN a[i] ELSE b[i - Len(a)]
    BY ConcatProperties, LenProperties
  <2> QED
    BY <2>1
<1>2. ASSUME NEW i \in 1..Len(a), Stale(a[i])
      PROVE  Doubted(v, a, i - 1)
  <2>1. Doubted(v, a \o b, i - 1)
    BY <1>1, <1>2 DEF Harmless
  <2>2. \A j \in 1..i - 1 : j \in 1..Len(a)
    BY <1>1
  <2> QED
    BY <1>1, <2>1, <2>2 DEF Doubted
<1> QED
  BY <1>2 DEF Harmless

\* The sender says u while its role goes from r to q.
LEMMA SayingStaysSound ==
  ASSUME NEW s \in Seq(Message), NEW u \in Seq(Message), NEW v, NEW r, NEW q,
         Sound(v, s, r), Says(u, r, q)
  PROVE  Sound(v, s \o u, q)
<1> DEFINE su == s \o u
<1>1. /\ Len(su) = Len(s) + Len(u) /\ Len(s) \in Nat /\ Len(u) \in Nat
      /\ \A i \in 1..Len(s) + Len(u) : su[i] = IF i <= Len(s) THEN s[i] ELSE u[i - Len(s)]
  BY ConcatProperties, LenProperties
<1>2. /\ \A i \in 1..Len(s) : i \in 1..Len(su) /\ su[i] = s[i]
      /\ \A i \in 1..Len(u) : i + Len(s) \in 1..Len(su) /\ su[i + Len(s)] = u[i]
      /\ \A i \in 1..Len(su) : \/ i \in 1..Len(s)
                               \/ i - Len(s) \in 1..Len(u) /\ su[i] = u[i - Len(s)]
  BY <1>1
<1> HIDE DEF su
\* What the sender, not being MASTER, adds leaves the reader in doubt.
<1>3. ASSUME q # "MASTER", r # "MASTER", NEW k \in Len(s)..Len(su)
      PROVE  Doubted(v, su, k)
  <2>1. Doubted(v, s, Len(s))
    BY <1>3 DEF Sound
  <2>2. \A i \in 1..k : i \in 1..Len(s) \/ ~Claims(su[i])
    <3>1. \A i \in 1..k : i \in 1..Len(su)
      BY <1>1
    <3>2. \A i \in 1..Len(u) : ~Claims(u[i])
      BY <1>3 DEF Says, Claims
    <3> QED
      BY <1>2, <3>1, <3>2
  <2>3. \A i \in 1..Len(s) : i \in 1..k
    BY <1>1
  <2>4. CASE v # "MASTER" /\ \A i \in 1..Len(s) : ~Claims(s[i])
    BY <1>2, <2>2, <2>4 DEF Doubted
  <2>5. ASSUME NEW j \in 1..Len(s), Denies(s[j]), \A i \in 1..Len(s) : j < i => ~Claims(s[i])
        PROVE  Doubted(v, su, k)
    <3>1. j \in 1..k /\ Denies(su[j])
      BY <1>2, <2>3, <2>5
    <3>2. \A i \in 1..k : j < i => ~Claims(su[i])
      BY <1>2, <2>2, <2>5
    <3> QED
      BY <3>1, <3>2 DEF Doubted
  <2> QED
    BY <2>1, <2>4, <2>5 DEF Doubted
<1>4. ASSUME q # "MASTER", r = "MASTER"
      PROVE  Doubted(v, su, Len(su))
  <2>1. ~Lacks(u, Asking) /\ \A i \in 1..Len(u) : u[i].t \in RoleKind => u[i].r = q
    BY <1>4 DEF Says
  <2>2. PICK j \in 1..Len(u) : u[j].t \in Asking
    BY <2>1 DEF Lacks
  <2>3. Denies(su[j + Len(s)]) /\ j + Len(s) \in 1..Len(su)
    BY <1>2, <1>4, <2>1, <2>2 DEF Denies, Asking, RoleKind
  <2>4. ASSUME NEW i \in 1..Len(su), j + Len(s) < i
        PROVE  ~Claims(su[i])
    <3>1. i - Len(s) \in 1..Len(u) /\ su[i] = u[i - Len(s)]
      BY <1>1, <1>2, <2>4
    <3> QED
      BY <1>4, <2>1, <3>1 DEF Claims
  <2> QED
    BY <2>3, <2>4 DEF Doubted
<1>5. ASSUME NEW i \in 1..Len(su), Stale(su[i])
      PROVE  Doubted(v, su, i - 1)
  <2>1. CASE i \in 1..Len(s)
    <3>1. Doubted(v, s, i - 1)
      BY <1>2, <1>5, <2>1 DEF Sound, Harmless
    <3>2. \A j \in 1..i - 1 : j \in 1..Len(s)
      BY <1>1, <2>1
    <3> QED
      BY <1>2, <3>1, <3>2 DEF Doubted
  <2>2. CASE i \notin 1..Len(s)
    <3>1. i - Len(s) \in 1..Len(u) /\ Stale(u[i - Len(s)])
      BY <1>2, <1>5, <2>2
    <3>2. q # "MASTER" /\ r = q
      BY <3>1 DEF Says, Stale
    <3>3. i - 1 \in Len(s)..Len(su)
      BY <1>1, <3>1
    <3> QED
      BY <1>3, <3>2, <3>3
  <2> QED
    BY <2>1, <2>2
<1>6. Len(su) \in Len(s)..Len(su)
  BY <1>1
<1> QED
  BY <1>3, <1>4, <1>5, <1>6 DEF Sound, Harmless, su

\* The reader takes the first message.
Takes(m, v, w) ==
  /\ ~Claims(m) /\ ~Denies(m) => w = v
  /\ Denies(m) => w # "MASTER"
  /\ Claims(m) => w = v \/ w = "MASTER"

LEMMA TakingStaysSound ==
  ASSUME NEW s \in Seq(Message), s # <<>>, NEW v, NEW w, Takes(Head(s), v, w)
  PROVE  /\ Harmless(v, s) => Harmless(w, Tail(s))
         /\ \A r : Sound(v, s, r) => Sound(w, Tail(s), r)
<1> DEFINE t == Tail(s)
<1>1. /\ Len(s) \in Nat \ {0} /\ Len(t) = Len(s) - 1 /\ Head(s) = s[1]
      /\ \A i \in 1..Len(t) : t[i] = s[i + 1]
  BY HeadTailProperties, EmptySeq, LenProperties
<1> HIDE DEF t
<1>2. ASSUME NEW k \in 0..Len(t), Doubted(v, s, k + 1)
      PROVE  Doubted(w, t, k)
  <2>1. /\ \A i \in 1..k : t[i] = s[i + 1] /\ i + 1 \in 1..k + 1
        /\ \A i \in 1..k + 1 : i = 1 \/ (i - 1 \in 1..k /\ t[i - 1] = s[i])
        /\ 1 \in 1..k + 1
    BY <1>1
  <2>2. CASE \A i \in 1..k + 1 : ~Claims(s[i])
    <3>1. \A i \in 1..k : ~Claims(t[i])
      BY <2>1, <2>2
    <3>2. CASE v # "MASTER"
      <4>1. w # "MASTER"
        BY <1>1, <2>1, <2>2, <3>2 DEF Takes
      <4> QED
        BY <3>1, <4>1 DEF Doubted
    <3>3. CASE v = "MASTER"
      <4>1. PICK j \in 1..k + 1 : Denies(s[j])
        BY <1>2, <3>3 DEF Doubted
      <4>2. CASE j = 1
        <5>1. w # "MASTER"
          BY <1>1, <4>1, <4>2 DEF Takes
        <5> QED
          BY <3>1, <5>1 DEF Doubted
      <4>3. CASE j # 1
        <5>1. j - 1 \in 1..k /\ Denies(t[j - 1])
          BY <2>1, <4>1, <4>3
        <5> QED
          BY <3>1, <5>1 DEF Doubted
      <4> QED
        BY <4>2, <4>3
    <3> QED
      BY <3>2, <3>3
  <2>3. CASE \E i \in 1..k + 1 : Claims(s[i])
    <3>1. PICK j \in 1..k + 1 : Denies(s[j]) /\ \A i \in 1..k + 1 : j < i => ~Claims(s[i])
      BY <1>2, <2>3 DEF Doubted
    <3>2. CASE j = 1
      <4>1. \A i \in 1..k : ~Claims(t[i])
        <5>1. \A i \in 1..k : j < i + 1
          BY <3>2
        <5> QED
          BY <2>1, <3>1, <5>1
      <4>2. w # "MASTER"
        BY <1>1, <3>1, <3>2 DEF Takes
      <4> QED
        BY <4>1, <4>2 DEF Doubted
    <3>3. CASE j # 1
      <4>1. j - 1 \in 1..k /\ Denies(t[j - 1])
        BY <2>1, <3>1, <3>3
      <4>2. ASSUME NEW i \in 1..k, j - 1 < i
            PROVE  ~Claims(t[i])
        <5>1. j < i + 1
          BY <4>2
        <5> QED
          BY <2>1, <3>1, <5>1
      <4> QED
        BY <4>1, <4>2 DEF Doubted
    <3> QED
      BY <3>2, <3>3
  <2> QED
    BY <2>2, <2>3
<1>3. ASSUME Harmless(v, s)
      PROVE  Harmless(w, t)
  <2>1. ASSUME NEW i \in 1..Len(t), Stale(t[i])
        PROVE  Doubted(w, t, i - 1)
    <3>1. i + 1 \in 1..Len(s) /\ (i + 1) - 1 = (i - 1) + 1 /\ i - 1 \in 0..Len(t)
      BY <1>1
    <3>2. Doubted(v, s, (i - 1) + 1)
      BY <1>1, <1>3, <2>1, <3>1 DEF Harmless
    <3> QED
      BY <1>2, <3>1, <3>2
  <2> QED
    BY <2>1 DEF Harmless
<1>4. ASSUME NEW r, Sound(v, s, r)
      PROVE  Sound(w, t, r)
  <2>1. Len(t) \in 0..Len(t) /\ Len(t) + 1 = Len(s)
    BY <1>1
  <2> QED
    BY <1>2, <1>3, <1>4, <2>1 DEF Sound
<1> QED
  BY <1>3, <1>4 DEF t

(***************************************************************************)
(* While no connection is lost, every reader's stream is harmless to it,   *)
(* and sound as long as its sender still uses it; a connection that waits  *)
(* may be read by one who holds its initiator for MASTER.                  *)
(***************************************************************************)
Ear(x, y, c) == sock[x][y] = c => Harmless(view[x][y], inbox[c][x])
Safe(x, y, c) == Sound(view[x][y], Stream(x, y, c), run[y])
Trust(c) ==
  /\ shut[c] = {}
  /\ Ear(c[1], c[2], c) /\ Ear(c[2], c[1], c)
  /\ Joined(c) => Safe(c[1], c[2], c) /\ Safe(c[2], c[1], c)
  /\ Waits(c) => Harmless("MASTER", inbox[c][c[2]])
  /\ Called(c) => /\ Sound("MASTER", Stream(c[2], c[1], c), run[c[1]])
                  /\ view[c[1]][c[2]] = "INIT"
Mute(n, p) ==
  /\ sock[n][p] = NoConn => view[n][p] = "INIT" /\ msgs[n][p] = <<>>
  /\ Sound("INIT", msgs[n][p], run[n])
Calm == /\ \A c \in Conn : Trust(c)
        /\ \A n \in Node : \A p \in Peer(n) : Mute(n, p)

\* Without a loss, every step speaks, reads, writes or accepts.
LEMMA CalmKinds ==
  ASSUME Types, Calm, {"break", "death"} \cap Troubles = {}, [Next]_vars
  PROVE  \/ Idles \/ \E n \in Node : SpeakStep(n) \/ Accept(n)
         \/ \E n \in Node : \E p \in Peer(n) : HearStep(n, p) \/ Send(n, p)
<1>1. KindOfStep
  BY StepKinds
<1>2. \A n \in Node : ~Resets(n)
  BY DEF Resets
<1>3. \A c \in Conn : ~Break(c)
  BY DEF Break, Trouble
<1>4. ASSUME NEW n \in Node, NEW p \in Peer(n), Cuts(n, p)
      PROVE  FALSE
  <2>1. sock[n][p] \in Conn
    BY <1>4 DEF Cuts, Types, SockTypes, Between
  <2> QED
    BY <1>4, <2>1 DEF Cuts, Calm, Trust
<1> QED
  BY <1>1, <1>2, <1>3, <1>4 DEF KindOfStep

LEMMA SameTrust ==
  ASSUME NEW c \in Conn, Trust(c), sock'[c[1]][c[2]] = c => sock[c[1]][c[2]] = c,
         sock'[c[2]][c[1]] = c => sock[c[2]][c[1]] = c, Waits(c)' => Waits(c),
         inbox'[c] = inbox[c], shut'[c] = shut[c],
         Stream(c[1], c[2], c)' = Stream(c[1], c[2], c),
         Stream(c[2], c[1], c)' = Stream(c[2], c[1], c),
         view'[c[1]][c[2]] = view[c[1]][c[2]], view'[c[2]][c[1]] = view[c[2]][c[1]],
         run'[c[1]] = run[c[1]], run'[c[2]] = run[c[2]]
  PROVE  Trust(c)'
<1>1. (Joined(c)' => Joined(c)) /\ (Called(c)' => Called(c))
  BY DEF Joined, Called
<1> QED
  BY <1>1 DEF Trust, Ear, Safe

LEMMA SpeakTrust ==
  ASSUME Types, Wires, Calm, NEW n \in Node, NEW S, Speaks(n, S), NEW c \in Conn,
         inbox'[c] = inbox[c],
         sock[c[1]][c[2]] \in {c, NoConn} => view'[c[1]][c[2]] = view[c[1]][c[2]],
         sock[c[2]][c[1]] \in {c, NoConn} => view'[c[2]][c[1]] = view[c[2]][c[1]]
  PROVE  Trust(c)'
<1>1. /\ c[1] \in Node /\ c[2] \in Node /\ c[1] # c[2] /\ c # NoConn
      /\ c[1] \in Peer(c[2]) /\ c[2] \in Peer(c[1])
      /\ Stream(c[1], c[2], c) \in Seq(Message)
      /\ Stream(c[2], c[1], c) \in Seq(Message)
  BY StreamTypes, ConnFacts
<1>2. /\ shut' = shut
      /\ \A x \in Node : x # n => run'[x] = run[x]
      /\ \A x \in Node : \A y \in Peer(x) : x # n => msgs'[x][y] = msgs[x][y]
      /\ \A p \in Peer(n) : sock'[n][p] # NoConn => \E u : Utters(n, p, S, u)
  BY DEF Speaks
<1>3. Trust(c) /\ shut'[c] = {}
  BY <1>2 DEF Calm, Trust
<1>4. ASSUME c[1] = n, c[2] \in S, c = Fresh(n, c[2])
      PROVE  Trust(c)'
  <2>1. /\ Loose(c) /\ sock'[c[1]][c[2]] = c
        /\ sock'[c[2]][c[1]] = c <=> sock[c[2]][c[1]] = c
    BY <1>4, CallFacts
  <2>2. /\ ~Joined(c)' /\ sock'[c[2]][c[1]] # c
        /\ inbox'[c][c[1]] = <<>> /\ inbox'[c][c[2]] = <<>>
    BY <1>1, <2>1 DEF Joined, Loose, Wires, Wire, Quiet
  <2>3. sock[n][c[2]] = NoConn
    BY <1>4, FreshFacts DEF Speaks
  <2>4. view'[n][c[2]] = "INIT" /\ msgs[n][c[2]] = <<>>
    BY <1>1, <1>4, <2>3 DEF Calm, Mute
  <2>5. PICK u : Utters(n, c[2], S, u)
    BY <1>1, <1>2, <1>4, <2>1
  <2>6. /\ u \in Seq(Message) /\ ~Lacks(u, Asking) /\ Lacks(u, DataKind)
        /\ Says(u, run[n], run'[n]) /\ msgs'[n][c[2]] = <<>> \o u
    BY <1>4, <2>4, <2>5 DEF Utters
  <2>7. Stream(c[2], n, c)' = u
    <3>1. <<>> \o u = u
      BY <2>6, ConcatEmptySeq
    <3> QED
      BY <2>2, <2>6, <3>1 DEF Stream
  <2>8. Sound("MASTER", u, run'[n])
    <3>1. Harmless("MASTER", u)
      BY <2>6 DEF Lacks, DataKind, Harmless, Stale
    <3>2. ASSUME run'[n] # "MASTER"
          PROVE  Doubted("MASTER", u, Len(u))
      <4>1. \A i \in 1..Len(u) : ~Claims(u[i])
        BY <2>6, <3>2 DEF Says, Claims
      <4>2. PICK j \in 1..Len(u) : u[j].t \in Asking
        BY <2>6 DEF Lacks
      <4>3. Denies(u[j])
        BY <2>6, <3>2, <4>2 DEF Says, Denies, Asking, RoleKind
      <4> QED
        BY <4>1, <4>3 DEF Doubted
    <3> QED
      BY <3>1, <3>2 DEF Sound
  <2> QED
    BY <1>3, <1>4, <2>2, <2>4, <2>7, <2>8, HarmlessEmpty DEF Trust, Ear
<1>5. ASSUME ~(c[1] = n /\ c[2] \in S /\ c = Fresh(n, c[2]))
      PROVE  Trust(c)'
  <2>1. /\ sock'[c[1]][c[2]] = c <=> sock[c[1]][c[2]] = c
        /\ sock'[c[2]][c[1]] = c <=> sock[c[2]][c[1]] = c
        /\ Waits(c)' <=> Waits(c)
    BY <1>5, CallFacts
  <2>2. (Joined(c)' => Joined(c)) /\ (Called(c)' => Called(c))
    BY <1>2, <2>1 DEF Joined, Called
  <2>3. Ear(c[1], c[2], c)' /\ Ear(c[2], c[1], c)'
    BY <1>3, <2>1 DEF Trust, Ear
  <2>4. Waits(c)' => Harmless("MASTER", inbox'[c][c[2]])
    BY <1>3, <2>1 DEF Trust
  \* A stream whose sender may have spoken, to a reader with the belief v.
  <2>5. ASSUME NEW x \in Node, NEW y \in Node, (x = c[1] /\ y = c[2]) \/ (x = c[2] /\ y = c[1]),
               sock[y][x] = c, NEW v, Sound(v, Stream(x, y, c), run[y])
        PROVE  Sound(v, Stream(x, y, c)', run'[y])
    <3>1. CASE y # n
      <4>1. Stream(x, y, c)' = Stream(x, y, c) /\ run'[y] = run[y]
        BY <1>1, <1>2, <2>5, <3>1 DEF Stream
      <4> QED
        BY <2>5, <4>1
    <3>2. CASE y = n
      <4>1. sock'[n][x] # NoConn /\ x \in Peer(n)
        BY <1>1, <2>1, <2>5, <3>2
      <4>2. PICK u : Utters(n, x, S, u)
        BY <1>2, <4>1
      <4>3. /\ Stream(x, n, c)' = Stream(x, n, c) \o u /\ u \in Seq(Message)
            /\ Says(u, run[n], run'[n])
        <5>1. n \in {c[1], c[2]} /\ x \in {c[1], c[2]} /\ inbox'[c][x] = inbox[c][x]
          BY <2>5, <3>2
        <5>2. Stream(x, n, c)' = Stream(x, n, c) \o u
          BY <4>1, <4>2, <5>1, StreamGrows
        <5> QED
          BY <4>2, <5>2 DEF Utters
      <4> DEFINE s == Stream(x, n, c)
      <4>4. s \in Seq(Message) /\ Sound(v, s, run[n]) /\ Stream(x, y, c)' = s \o u
        BY <1>1, <2>5, <3>2, <4>3
      <4> HIDE DEF s
      <4>5. Sound(v, s \o u, run'[n])
        BY <4>3, <4>4, SayingStaysSound
      <4> QED
        BY <3>2, <4>4, <4>5
    <3> QED
      BY <3>1, <3>2
  <2>6. ASSUME Joined(c)'
        PROVE  Safe(c[1], c[2], c)' /\ Safe(c[2], c[1], c)'
    <3>1. /\ Joined(c) /\ Safe(c[1], c[2], c) /\ Safe(c[2], c[1], c)
          /\ view'[c[1]][c[2]] = view[c[1]][c[2]] /\ view'[c[2]][c[1]] = view[c[2]][c[1]]
      BY <1>3, <2>2, <2>6 DEF Trust, Joined
    <3> QED
      BY <1>1, <2>5, <3>1 DEF Safe, Joined
  <2>7. ASSUME Called(c)'
        PROVE  Sound("MASTER", Stream(c[2], c[1], c)', run'[c[1]]) /\ view'[c[1]][c[2]] = "INIT"
    <3>1. /\ Called(c) /\ Sound("MASTER", Stream(c[2], c[1], c), run[c[1]])
          /\ view'[c[1]][c[2]] = "INIT"
      BY <1>3, <2>2, <2>7 DEF Trust, Called
    <3> QED
      BY <1>1, <2>5, <3>1 DEF Called
  <2> QED
    BY <1>3, <2>3, <2>4, <2>6, <2>7 DEF Trust
<1> QED
  BY <1>4, <1>5

LEMMA SpeakMute ==
  ASSUME Types, Calm, NEW n \in Node, NEW S, Speaks(n, S), NEW x \in Node, NEW y \in Peer(x),
         sock[x][y] = NoConn => view'[x][y] = view[x][y]
  PROVE  Mute(x, y)'
<1>1. /\ \A z \in Node : z # n => run'[z] = run[z]
      /\ \A z \in Node : \A w \in Peer(z) : z # n => msgs'[z][w] = msgs[z][w]
      /\ \A p \in Peer(n) : sock'[n][p] = NoConn => msgs'[n][p] = msgs[n][p]
      /\ \A p \in Peer(n) : sock'[n][p] # NoConn => \E u : Utters(n, p, S, u)
      /\ sock'[x][y] = IF x = n /\ y \in S THEN Fresh(n, y) ELSE sock[x][y]
  BY DEF Speaks
<1>2. Mute(x, y) /\ msgs[x][y] \in Seq(Message)
  BY DEF Calm, Types, MsgTypes, PerPeer
<1>3. y \in S => Fresh(n, y) # NoConn
  BY FreshFacts, ConnFacts DEF Speaks
<1>4. sock'[x][y] = NoConn => sock[x][y] = NoConn
  BY <1>1, <1>3
<1>5. CASE x # n
  BY <1>1, <1>2, <1>4, <1>5 DEF Mute
<1>6. CASE x = n /\ sock'[x][y] = NoConn
  <2>1. msgs'[x][y] = <<>> /\ view'[x][y] = "INIT"
    BY <1>1, <1>2, <1>4, <1>6 DEF Mute
  <2> QED
    BY <2>1, HarmlessEmpty DEF Mute
<1>7. CASE x = n /\ sock'[x][y] # NoConn
  <2>1. PICK u : Utters(n, y, S, u)
    BY <1>1, <1>7
  <2>2. u \in Seq(Message) /\ msgs'[x][y] = msgs[x][y] \o u /\ Says(u, run[x], run'[x])
    BY <1>7, <2>1 DEF Utters
  <2> DEFINE s == msgs[x][y]
  <2>3. s \in Seq(Message) /\ Sound("INIT", s, run[x]) /\ msgs'[x][y] = s \o u
    BY <1>2, <2>2 DEF Mute
  <2> HIDE DEF s
  <2>4. Sound("INIT", s \o u, run'[x])
    BY <2>2, <2>3, SayingStaysSound
  <2> QED
    BY <1>7, <2>3, <2>4 DEF Mute
<1> QED
  BY <1>5, <1>6, <1>7

LEMMA SpeakStepCalm ==
  ASSUME Types, Wires, Calm, NEW n \in Node, SpeakStep(n)
  PROVE  Calm'
<1>1. PICK S : Speaks(n, S)
  BY DEF SpeakStep
<1>2. inbox' = inbox /\ view' = view
  BY DEF SpeakStep, Quietly
<1>3. \A c \in Conn : Trust(c)'
  BY <1>1, <1>2, SpeakTrust
<1>4. \A x \in Node : \A y \in Peer(x) : Mute(x, y)'
  BY <1>1, <1>2, SpeakMute
<1> QED
  BY <1>3, <1>4 DEF Calm, Conn, Peer

LEMMA HearStepCalm ==
  ASSUME Types, Wires, Calm, NEW n \in Node, NEW p \in Peer(n), HearStep(n, p)
  PROVE  Calm'
<1>1. PICK S : Speaks(n, S) /\ Hears(n, p, S)
  BY DEF HearStep
<1>2. PICK d : d = sock[n][p]
  OBVIOUS
<1>3. /\ d \in Conn /\ p \notin S /\ ~Waits(d)'
      /\ sock'[d[1]][d[2]] = d <=> sock[d[1]][d[2]] = d
      /\ sock'[d[2]][d[1]] = d <=> sock[d[2]][d[1]] = d
  BY <1>1, <1>2, HearFacts
<1>4. /\ inbox[d][n] # <<>> /\ inbox' = [inbox EXCEPT ![d][n] = Tail(@)]
      /\ \A x \in Node : \A y \in Peer(x) : x # n \/ y # p => view'[x][y] = view[x][y]
      /\ \E u : /\ Utters(n, p, S, u)
                /\ Answers(Head(inbox[d][n]), view[n][p], view'[n][p], run[n], u)
  BY <1>1, <1>2 DEF Hears
<1>5. \A x \in Node : \A y \in Peer(x) :
        sock[x][y] = NoConn => view'[x][y] = view[x][y]
  BY <1>2, <1>3, <1>4, ConnFacts
<1>6. \A x \in Node : \A y \in Peer(x) : Mute(x, y)'
  BY <1>1, <1>5, SpeakMute
<1>7. ASSUME NEW c \in Conn, c # d
      PROVE  Trust(c)'
  <2>1. inbox'[c] = inbox[c]
    BY <1>3, <1>4, <1>7 DEF Types, ConnTypes
  <2>2. \A x \in Node : \A y \in Peer(x) :
          sock[x][y] \in {c, NoConn} => view'[x][y] = view[x][y]
    BY <1>2, <1>4, <1>5, <1>7
  <2>3. /\ c[1] \in Node /\ c[2] \in Node
        /\ c[1] \in Peer(c[2]) /\ c[2] \in Peer(c[1])
    BY ConnFacts
  <2> QED
    BY <1>1, <2>1, <2>2, <2>3, SpeakTrust
<1>8. Trust(d)'
  <2>1. (n = d[1] /\ p = d[2]) \/ (n = d[2] /\ p = d[1])
    BY <1>2, <1>3, ReferFacts
  <2>2. p \in Node /\ p # n /\ n \in Peer(p)
    BY ConnFacts
  <2>3. inbox'[d][p] = inbox[d][p] /\ inbox'[d][n] = Tail(inbox[d][n])
    BY <1>3, <1>4, <2>2 DEF Types, ConnTypes
  <2>4. PICK u : /\ Utters(n, p, S, u)
                 /\ Answers(Head(inbox[d][n]), view[n][p], view'[n][p], run[n], u)
    BY <1>4
  <2>5. Takes(Head(inbox[d][n]), view[n][p], view'[n][p])
    BY <2>4 DEF Answers, Takes, Claims, Denies
  <2>6. /\ view'[p][n] = view[p][n] /\ msgs'[p][n] = msgs[p][n] /\ run'[p] = run[p]
        /\ shut' = shut
    BY <1>1, <1>4, <2>2 DEF Speaks
  <2>7. Trust(d) /\ Ear(n, p, d) /\ Ear(p, n, d)
    BY <1>3, <2>1 DEF Calm, Trust
  <2> DEFINE a == inbox[d][n]  m == msgs[p][n]  s == Stream(n, p, d)  b == Stream(p, n, d)
  <2>8. /\ a \in Seq(Message) /\ m \in Seq(Message) /\ a # <<>> /\ s = a \o m
        /\ s \in Seq(Message) /\ b \in Seq(Message)
    BY <1>3, <1>4, <2>1, StreamTypes DEF Stream
  <2>9. Stream(n, p, d)' = Tail(a) \o m /\ inbox'[d][n] = Tail(a)
    BY <2>3, <2>6 DEF Stream
  <2>10. Stream(p, n, d)' = b \o u /\ u \in Seq(Message) /\ Says(u, run[n], run'[n])
    BY <1>3, <2>1, <2>3, <2>4, StreamGrows DEF Utters
  <2>11. /\ Harmless(view[n][p], a) /\ Takes(Head(a), view[n][p], view'[n][p])
    BY <1>2, <2>5, <2>7 DEF Ear
  <2>12. Joined(d) => Sound(view[n][p], s, run[p]) /\ Sound(view[p][n], b, run[n])
    BY <2>1, <2>7 DEF Trust, Safe
  <2> HIDE DEF a, m, s, b
  <2>13. Harmless(view'[n][p], Tail(a))
    BY <2>8, <2>11, TakingStaysSound
  <2>14. s # <<>> /\ Head(s) = Head(a) /\ Tail(s) = Tail(a) \o m
    BY <2>8, StreamFacts
  <2>15. Joined(d) => Sound(view'[n][p], Tail(a) \o m, run[p]) /\ Sound(view[p][n], b \o u, run'[n])
    BY <2>8, <2>10, <2>11, <2>12, <2>14, TakingStaysSound, SayingStaysSound
  <2>16. Joined(d)' => Safe(n, p, d)' /\ Safe(p, n, d)'
    <3>1. Joined(d)' => Joined(d)
      BY <1>3, <2>6 DEF Joined
    <3> QED
      BY <2>6, <2>9, <2>10, <2>15, <3>1 DEF Safe
  <2>17. Ear(n, p, d)' /\ Ear(p, n, d)'
    <3>1. sock'[p][n] = d => sock[p][n] = d
      BY <1>3, <2>1
    <3> QED
      BY <2>3, <2>6, <2>7, <2>9, <2>13, <3>1 DEF Ear
  <2>18. ~Called(d)' /\ shut'[d] = {}
    BY <1>3, <2>6, <2>7 DEF Called, Trust
  <2> QED
    BY <1>3, <2>1, <2>16, <2>17, <2>18 DEF Trust
<1>9. \A c \in Conn : Trust(c)'
  BY <1>7, <1>8
<1> QED
  BY <1>6, <1>9 DEF Calm, Conn, Peer

LEMMA SendCalm ==
  ASSUME Types, Wires, Calm, NEW n \in Node, NEW p \in Peer(n), Send(n, p)
  PROVE  Calm'
<1>1. PICK d : d = sock[n][p]
  OBVIOUS
<1>2. /\ d # NoConn /\ UNCHANGED <<run, view, sock, backlog, shut>>
      /\ msgs[n][p] # <<>> /\ msgs' = [msgs EXCEPT ![n][p] = Tail(@)]
      /\ inbox' = IF Refers(p, d) /\ shut[d] = {}
                  THEN [inbox EXCEPT ![d][p] = Append(@, Head(msgs[n][p]))]
                  ELSE inbox
  BY <1>1 DEF Send, Writable, linkVars, nodeVars
<1>3. /\ d \in Conn /\ p \in Node /\ n # p /\ n \in Peer(p)
  BY <1>1, <1>2, ConnFacts DEF Types, SockTypes, Between
<1>4. (n = d[1] /\ p = d[2]) \/ (n = d[2] /\ p = d[1])
  BY <1>1, <1>3, ReferFacts
<1>5. \A x \in Node : \A y \in Peer(x) : x # n \/ y # p => msgs'[x][y] = msgs[x][y]
  BY <1>2, ShiftTypes
<1>6. msgs'[n][p] = Tail(msgs[n][p]) /\ msgs[n][p] \in Seq(Message)
  BY <1>2 DEF Types, MsgTypes, PerPeer
<1>7. ASSUME NEW x \in Node, NEW y \in Peer(x)
      PROVE  Mute(x, y)'
  <2>1. Mute(x, y)
    BY DEF Calm
  <2>2. CASE x # n \/ y # p
    BY <1>2, <1>5, <2>1, <2>2 DEF Mute
  <2>3. CASE x = n /\ y = p
    <3> DEFINE s == msgs[n][p]
    <3>1. s \in Seq(Message) /\ s # <<>> /\ Sound("INIT", s, run[n]) /\ msgs'[n][p] = Tail(s)
      BY <1>2, <1>6, <2>1, <2>3 DEF Mute
    <3> HIDE DEF s
    <3>2. Takes(Head(s), "INIT", "INIT")
      BY DEF Takes
    <3>3. Sound("INIT", Tail(s), run[n])
      BY <3>1, <3>2, TakingStaysSound
    <3> QED
      BY <1>1, <1>2, <2>3, <3>1, <3>3 DEF Mute
  <2> QED
    BY <2>2, <2>3
<1>8. ASSUME NEW c \in Conn, c # d
      PROVE  Trust(c)'
  <2>1. /\ c[1] \in Node /\ c[2] \in Node /\ c[1] # c[2]
        /\ c[1] \in Peer(c[2]) /\ c[2] \in Peer(c[1])
    BY ConnFacts
  <2>2. inbox'[c] = inbox[c]
    BY <1>2, <1>3, <1>8 DEF Types, ConnTypes
  <2>3. Trust(c) /\ (Waits(c)' <=> Waits(c))
    BY <1>2 DEF Calm, Waits
  <2>4. Joined(c)' => /\ Joined(c) /\ Stream(c[1], c[2], c)' = Stream(c[1], c[2], c)
                      /\ Stream(c[2], c[1], c)' = Stream(c[2], c[1], c)
    BY <1>1, <1>2, <1>5, <1>8, <2>1, <2>2 DEF Joined, Stream
  <2>5. Called(c)' => Called(c) /\ Stream(c[2], c[1], c)' = Stream(c[2], c[1], c)
    BY <1>1, <1>2, <1>5, <1>8, <2>1, <2>2, <2>3 DEF Called, Stream
  <2> QED
    BY <1>2, <2>2, <2>3, <2>4, <2>5 DEF Trust, Ear, Safe
<1>9. Trust(d)'
  <2>1. Trust(d) /\ shut[d] = {} /\ (Waits(d)' <=> Waits(d)) /\ (Joined(d)' <=> Joined(d))
        /\ (Called(d)' <=> Called(d))
    BY <1>2, <1>3 DEF Calm, Trust, Waits, Joined, Called
  <2>2. Ear(n, p, d) /\ Ear(p, n, d) /\ (Joined(d) => Safe(n, p, d) /\ Safe(p, n, d))
    BY <1>4, <2>1 DEF Trust
  <2>3. CASE ~Refers(p, d)
    <3>1. ~Joined(d) /\ ~Called(d) /\ ~Waits(d) /\ inbox' = inbox
      BY <1>1, <1>2, <1>3, <1>4, <2>3, ReferFacts DEF Joined, Called, Wires, Wire
    <3> QED
      BY <1>2, <2>1, <3>1 DEF Trust, Ear
  <2>4. CASE Refers(p, d)
    <3> DEFINE a == inbox[d][p]  b == msgs[n][p]
    <3>1. a \in Seq(Message) /\ b \in Seq(Message) /\ b # <<>>
      BY <1>2, <1>3 DEF Types, ConnTypes, MsgTypes, PerPeer
    <3>2. inbox'[d][p] = Append(a, Head(b)) /\ inbox'[d][n] = inbox[d][n] /\ msgs'[n][p] = Tail(b)
      BY <1>2, <1>3, <1>6, <2>1, <2>4 DEF Types, ConnTypes
    <3>3. /\ Stream(p, n, d)' = Append(a, Head(b)) \o Tail(b) /\ Stream(p, n, d) = a \o b
          /\ Stream(n, p, d)' = Stream(n, p, d)
      BY <1>3, <1>5, <3>2 DEF Stream
    <3> HIDE DEF a, b
    <3>4. Append(a, Head(b)) \o Tail(b) = a \o b
      BY <3>1, StreamFacts
    <3>5. ASSUME NEW v, Harmless(v, Stream(p, n, d))
          PROVE  Harmless(v, inbox'[d][p])
      <4> DEFINE x == Append(a, Head(b))  y == Tail(b)
      <4>1. x \in Seq(Message) /\ y \in Seq(Message) /\ Harmless(v, x \o y)
        <5>1. Head(b) \in Message /\ Tail(b) \in Seq(Message)
          BY <3>1, HeadTailProperties
        <5>2. Append(a, Head(b)) \in Seq(Message)
          BY <3>1, <5>1, AppendProperties
        <5> QED
          BY <3>3, <3>4, <3>5, <5>1, <5>2
      <4>2. inbox'[d][p] = x
        BY <3>2
      <4> HIDE DEF x, y
      <4> QED
        BY <4>1, <4>2, HarmlessPart
    <3>6. Joined(d)' => Safe(n, p, d)' /\ Safe(p, n, d)'
      BY <1>2, <2>1, <2>2, <3>3, <3>4 DEF Safe
    <3>7. Ear(n, p, d)'
      BY <1>2, <2>2, <3>2 DEF Ear
    <3>8. Ear(p, n, d)'
      <4>1. sock[p][n] = d => Joined(d)
        BY <1>1, <1>4, <2>1 DEF Joined
      <4>2. sock[p][n] = d => Harmless(view[p][n], Stream(p, n, d))
        BY <2>2, <4>1 DEF Safe, Sound
      <4> QED
        BY <1>2, <3>5, <4>2 DEF Ear
    <3>9. Waits(d) => n = d[1] /\ p = d[2] /\ Called(d)
      BY <1>1, <1>3, <1>4, <2>1 DEF Wires, Wire, Called
    <3>10. Waits(d) => Harmless("MASTER", Stream(p, n, d))
      BY <2>1, <3>9 DEF Trust, Sound
    <3>11. Waits(d)' => Harmless("MASTER", inbox'[d][d[2]])
      BY <2>1, <3>5, <3>9, <3>10
    <3>12. Called(d)' => /\ Sound("MASTER", Stream(d[2], d[1], d)', run'[d[1]])
                         /\ view'[d[1]][d[2]] = "INIT"
      <4>1. Called(d) => n = d[1] /\ p = d[2]
        BY <3>9 DEF Called
      <4> QED
        BY <1>2, <2>1, <3>3, <3>4, <4>1 DEF Trust
    <3> QED
      BY <1>2, <1>4, <2>1, <3>6, <3>7, <3>8, <3>11, <3>12 DEF Trust
  <2> QED
    BY <2>3, <2>4
<1>10. \A c \in Conn : Trust(c)'
  BY <1>8, <1>9
<1> QED
  BY <1>7, <1>10 DEF Calm, Conn, Peer

\* A connection is accepted: what it carries was said to one who knew nothing.
LEMMA AcceptCalm ==
  ASSUME Types, Wires, Calm, NEW n \in Node, Accept(n)
  PROVE  Calm'
<1>1. PICK p, d, e : Accepts(n, p, d, e)
  BY AcceptFacts
<1>2. /\ d \in Conn /\ p = d[1] /\ d[2] = n /\ Waits(d) /\ ~Waits(d)'
      /\ e = sock[n][p] /\ e # d /\ p \in Peer(n)
      /\ \A x \in Node : \A y \in Peer(x) : sock'[x][y] = IF x = n /\ y = p THEN d ELSE sock[x][y]
      /\ \A x \in Conn : x # d => (Waits(x)' <=> Waits(x))
      /\ UNCHANGED <<run, view, msgs>>
  BY <1>1 DEF Accepts
<1>3. LetsGo(n, p, e, FALSE)
  BY <1>1, <1>2, LetGoFacts DEF Accepts
<1>4. d # NoConn
  BY <1>2, ConnFacts
<1>5. ASSUME NEW x \in Node, NEW y \in Peer(x)
      PROVE  Mute(x, y)'
  <2>1. Mute(x, y) /\ (sock'[x][y] = NoConn => sock[x][y] = NoConn)
    BY <1>2, <1>4 DEF Calm
  <2> QED
    BY <1>2, <2>1 DEF Mute
<1>6. ASSUME NEW c \in Conn
      PROVE  Trust(c)'
  <2>1. /\ c[1] \in Node /\ c[2] \in Node /\ c[1] # c[2] /\ c # NoConn
        /\ c[1] \in Peer(c[2]) /\ c[2] \in Peer(c[1])
    BY ConnFacts
  <2>2. Trust(c) /\ shut[c] = {}
    BY DEF Calm, Trust
  <2>3. CASE c = e
    <3>1. (n = e[1] /\ p = e[2]) \/ (n = e[2] /\ p = e[1])
      BY <1>2, <2>3, ReferFacts
    <3>2. sock'[n][p] # e /\ ~Joined(e)'
      BY <1>2, <2>1, <2>3, <3>1 DEF Joined
    <3>3. Waits(e)' => Waits(e) /\ n = e[1] /\ p = e[2]
      BY <1>2, <1>3, <2>1, <2>3, <3>1 DEF LetsGo
    <3>4. ~Called(e)'
      BY <3>2, <3>3 DEF Called
    <3>5. shut'[e] = {} /\ (Refers(p, e) => inbox'[e][p] = inbox[e][p])
      BY <1>3, <2>1, <2>2, <2>3 DEF LetsGo
    <3>6. Ear(n, p, e)'
      BY <3>2 DEF Ear
    <3>7. Ear(p, n, e)'
      <4>1. sock'[p][n] = e => sock[p][n] = e /\ Refers(p, e)
        BY <1>2, <2>1, <2>3, <3>1, ReferFacts
      <4> QED
        BY <1>2, <2>2, <2>3, <3>1, <3>5, <4>1 DEF Trust, Ear
    <3>8. Waits(e)' => Harmless("MASTER", inbox'[e][e[2]])
      <4>1. Waits(e)' => Waits(e) /\ Refers(p, e) /\ p = e[2]
        BY <2>3, <3>3, ReferFacts
      <4> QED
        BY <2>2, <2>3, <3>5, <4>1 DEF Trust
    <3> QED
      BY <2>3, <3>1, <3>2, <3>4, <3>5, <3>6, <3>7, <3>8 DEF Trust
  <2>4. CASE c # e /\ c # d
    <3>1. inbox'[c] = inbox[c] /\ shut'[c] = shut[c]
      BY <1>3, <2>4 DEF LetsGo
    <3>2. /\ Stream(c[1], c[2], c)' = Stream(c[1], c[2], c)
          /\ Stream(c[2], c[1], c)' = Stream(c[2], c[1], c)
      BY <1>2, <3>1 DEF Stream
    <3>3. /\ sock'[c[1]][c[2]] = c => sock[c[1]][c[2]] = c
          /\ sock'[c[2]][c[1]] = c => sock[c[2]][c[1]] = c
      BY <1>2, <2>1, <2>4
    <3> QED
      BY <1>2, <2>2, <2>4, <3>1, <3>2, <3>3, SameTrust
  <2>5. CASE c = d
    <3>1. inbox'[d] = inbox[d] /\ shut'[d] = shut[d] /\ Stream(n, p, d)' = Stream(n, p, d)
          /\ Stream(p, n, d)' = Stream(p, n, d)
      BY <1>2, <1>3 DEF LetsGo, Stream
    <3>2. ~Called(d)' /\ ~Waits(d)' /\ shut'[d] = {}
      BY <1>2, <2>2, <2>5, <3>1 DEF Called
    <3>3. Ear(n, p, d)'
      <4>1. Harmless("MASTER", inbox[d][n])
        BY <1>2, <2>2, <2>5 DEF Trust
      <4>2. Harmless(view[n][p], inbox[d][n])
        BY <4>1, WeakerBelief
      <4> QED
        BY <1>2, <3>1, <4>2 DEF Ear
    <3>4. Ear(p, n, d)'
      <4>1. sock'[p][n] = sock[p][n]
        BY <1>2, <2>1, <2>5
      <4> QED
        BY <1>2, <2>2, <2>5, <3>1, <4>1 DEF Trust, Ear
    <3>5. ASSUME Joined(d)'
          PROVE  Safe(n, p, d)' /\ Safe(p, n, d)'
      <4>1. Called(d)
        BY <1>2, <2>1, <2>5, <3>1, <3>5 DEF Called, Joined
      <4>2. Sound("MASTER", Stream(n, p, d), run[p]) /\ view[p][n] = "INIT"
        BY <1>2, <2>2, <2>5, <4>1 DEF Trust
      <4>3. Sound(view[n][p], Stream(n, p, d), run[p])
        BY <4>2, WeakerBelief
      <4>4. Stream(p, n, d) = msgs[n][p]
        <5>1. inbox[d][p] = <<>> /\ msgs[n][p] \in Seq(Message)
          BY <1>2, StreamTypes DEF Wires, Wire
        <5>2. \A s \in Seq(Message) : <<>> \o s = s
          BY ConcatEmptySeq
        <5> QED
          BY <5>1, <5>2 DEF Stream
      <4>5. Sound("INIT", msgs[n][p], run[n])
        BY <1>2, <2>1, <2>5 DEF Calm, Mute
      <4> QED
        BY <1>2, <3>1, <4>2, <4>3, <4>4, <4>5 DEF Safe
    <3> QED
      BY <1>2, <2>5, <3>2, <3>3, <3>4, <3>5 DEF Trust
  <2> QED
    BY <2>3, <2>4, <2>5
<1> QED
  BY <1>5, <1>6 DEF Calm, Conn, Peer

LEMMA InitCalm ==
  ASSUME Init
  PROVE  Calm
<1>1. /\ sock = [n \in Node |-> [p \in Peer(n) |-> NoConn]]
      /\ msgs = [n \in Node |-> [p \in Peer(n) |-> <<>>]]
      /\ view = [n \in Node |-> [p \in Peer(n) |-> "INIT"]]
      /\ backlog = Quiet /\ shut = [c \in Conn |-> {}] /\ inbox = [c \in Conn |-> Quiet]
  BY DEF Init
<1>2. ASSUME NEW c \in Conn
      PROVE  Trust(c)
  <2>1. /\ c[1] \in Node /\ c[2] \in Node /\ c # NoConn
        /\ c[1] \in Peer(c[2]) /\ c[2] \in Peer(c[1])
    BY ConnFacts
  <2>2. ~Waits(c) /\ ~Called(c)
    BY <1>1, <2>1, EmptyRange DEF Waits, Called, Quiet
  <2>3. sock[c[1]][c[2]] # c /\ sock[c[2]][c[1]] # c
    BY <1>1, <2>1
  <2> QED
    BY <1>1, <2>2, <2>3 DEF Trust, Ear, Joined
<1>3. ASSUME NEW n \in Node, NEW p \in Peer(n)
      PROVE  Mute(n, p)
  BY <1>1, HarmlessEmpty DEF Mute
<1> QED
  BY <1>2, <1>3 DEF Calm

LEMMA StepCalm ==
  ASSUME Types, Wires, Calm, {"break", "death"} \cap Troubles = {}, [Next]_vars
  PROVE  Calm'
<1>1. \/ Idles \/ \E n \in Node : SpeakStep(n) \/ Accept(n)
      \/ \E n \in Node : \E p \in Peer(n) : HearStep(n, p) \/ Send(n, p)
  BY CalmKinds
<1>2. CASE Idles
  BY <1>2 DEF Idles, Calm, Trust, Ear, Safe, Joined, Called, Waits, Stream, Mute, Conn, Peer
<1>3. ASSUME NEW n \in Node, SpeakStep(n) \/ Accept(n)
      PROVE  Calm'
  BY <1>3, SpeakStepCalm, AcceptCalm
<1>4. ASSUME NEW n \in Node, NEW p \in Peer(n), HearStep(n, p) \/ Send(n, p)
      PROVE  Calm'
  BY <1>4, HearStepCalm, SendCalm
<1> QED
  BY <1>1, <1>2, <1>3, <1>4

\* What is harmless to a reader who trusts begins with no stale data.
LEMMA TrustedIsFresh ==
  ASSUME NEW s \in Seq(Message), s # <<>>, Harmless("MASTER", s)
  PROVE  ~Stale(Head(s))
<1>1. 1 \in 1..Len(s) /\ Head(s) = s[1]
  BY HeadTailProperties, EmptySeq, LenProperties
<1>2. ~Doubted("MASTER", s, 1 - 1)
  BY DEF Doubted
<1> QED
  BY <1>1, <1>2 DEF Harmless

LEMMA CalmIsEnough ==
  ASSUME Types, Calm
  PROVE  OnlyMastersData
<1> SUFFICES ASSUME NEW n \in Node, NEW p \in Peer(n), sock[n][p] # NoConn,
                    Incoming(n, p) # <<>>, Trusts(n, p), Head(Incoming(n, p)).t = "data"
             PROVE  Head(Incoming(n, p)).by = "MASTER"
  BY DEF OnlyMastersData
<1>1. PICK c : c = sock[n][p]
  OBVIOUS
<1>2. c \in Conn
  BY <1>1 DEF Types, SockTypes, Between
<1>3. (n = c[1] /\ p = c[2]) \/ (n = c[2] /\ p = c[1])
  BY <1>1, <1>2, ReferFacts
<1>4. Ear(n, p, c)
  BY <1>2, <1>3 DEF Calm, Trust
<1> DEFINE s == inbox[c][n]
<1>5. s \in Seq(Message) /\ s # <<>> /\ Harmless("MASTER", s) /\ Incoming(n, p) = s
  BY <1>1, <1>2, <1>3, <1>4, StreamTypes DEF Ear, Incoming, Trusts
<1> HIDE DEF s
<1> QED
  BY <1>5, TrustedIsFresh DEF Stale

(***************************************************************************)
(* While nothing is lost: no connection breaks and no daemon dies, though  *)
(* calls may be refused and roles change at will.                          *)
(***************************************************************************)
CalmInvariant == Types /\ Wires /\ Calm

\* A kernel only gets what a MASTER queued as MASTER, though the snapshot timer
\* fires after the role is gone (net.c, net_ctl.c, pfkey.c): the change of role
\* is ahead of what it sends.
THEOREM OnlyMastersDataTaken ==
  ASSUME {"break", "death"} \cap Troubles = {}
  PROVE  Spec => []OnlyMastersData
<1>1. Init => CalmInvariant
  BY InitTypes, InitWires, InitCalm DEF CalmInvariant
<1>2. CalmInvariant /\ [Next]_vars => CalmInvariant'
  <2> SUFFICES ASSUME Types, Wires, Calm, [Next]_vars
               PROVE  Types' /\ Wires' /\ Calm'
    BY DEF CalmInvariant
  <2> QED
    BY StepKinds, StepWires, StepCalm
<1>3. CalmInvariant => OnlyMastersData
  BY CalmIsEnough DEF CalmInvariant
<1> QED
  BY <1>1, <1>2, <1>3, PTL DEF Spec
-----------------------------------------------------------------------------
(***************************************************************************)
(* A database after a sequence of messages.  An association is in it when  *)
(* the last message about it adds it, or there is none and it was before.  *)
(***************************************************************************)
Database == SUBSET Sa
Adds(m, x) == m.t = "data" /\ m.op = [k |-> "add", s |-> x]
Drops(m, x) == m.t = "data" /\ m.op \in {[k |-> "del", s |-> x], Flush}
Effect(db, m) == IF m.t = "data" THEN Do(db, m.op) ELSE db
Added(s, k, x) == \E j \in 1..k : Adds(s[j], x) /\ \A i \in 1..k : j < i => ~Drops(s[i], x)
Undropped(s, k, x) == \A i \in 1..k : ~Drops(s[i], x)
Held(db, s, k) == {x \in Sa : Added(s, k, x) \/ (x \in db /\ Undropped(s, k, x))}

LEMMA EffectFacts ==
  ASSUME NEW db \in Database, NEW m \in Message
  PROVE  /\ Effect(db, m) \in Database
         /\ \A x \in Sa : x \in Effect(db, m) <=> Adds(m, x) \/ (x \in db /\ ~Drops(m, x))
         /\ \A x \in Sa : ~(Adds(m, x) /\ Drops(m, x))
<1> USE DEF Database
<1>1. ASSUME NEW op \in Op, NEW x \in Sa
      PROVE  /\ Do(db, op) \in Database
             /\ x \in Do(db, op) <=> \/ op = [k |-> "add", s |-> x]
                                     \/ x \in db /\ op \notin {[k |-> "del", s |-> x], Flush}
             /\ ~(op = [k |-> "add", s |-> x] /\ op \in {[k |-> "del", s |-> x], Flush})
  <2>1. CASE op = Flush
    <3>1. op.k = "flush" /\ Do(db, op) = {}
      BY <2>1 DEF Flush, Do
    <3> QED
      BY <2>1, <3>1
  <2>2. CASE op \in [k : {"add", "del"}, s : Sa] /\ op.k = "add"
    <3>1. Do(db, op) = db \cup {op.s} /\ op.s \in Sa /\ op = [k |-> "add", s |-> op.s] /\ op # Flush
      BY <2>2 DEF Do, Flush
    <3> QED
      BY <2>2, <3>1
  <2>3. CASE op \in [k : {"add", "del"}, s : Sa] /\ op.k = "del"
    <3>1. Do(db, op) = db \ {op.s} /\ op.s \in Sa /\ op = [k |-> "del", s |-> op.s] /\ op # Flush
      BY <2>3 DEF Do, Flush
    <3> QED
      BY <2>3, <3>1
  <2> QED
    BY <2>1, <2>2, <2>3 DEF Op
<1>2. m.t = "data" => m.op \in Op
  BY MessageTypes
<1>3. CASE m.t = "data"
  <2>1. Effect(db, m) = Do(db, m.op)
    BY <1>3 DEF Effect
  <2>2. Effect(db, m) \in Database
    <3>1. CASE Sa = {}
      BY <3>1, <1>2, <1>3, <2>1 DEF Do, Op, Flush
    <3>2. CASE Sa # {}
      BY <3>2, <1>1, <1>2, <1>3, <2>1
    <3> QED
      BY <3>1, <3>2
  <2> QED
    BY <1>1, <1>2, <1>3, <2>1, <2>2 DEF Adds, Drops
<1>4. CASE m.t # "data"
  BY <1>4 DEF Adds, Drops, Effect
<1> QED
  BY <1>3, <1>4

LEMMA HeldSteps ==
  ASSUME NEW db \in Database, NEW s \in Seq(Message)
  PROVE  /\ Held(db, s, 0) = db
         /\ \A k \in Nat : Held(db, s, k) \in Database
         /\ \A k \in 1..Len(s) : Held(db, s, k) = Effect(Held(db, s, k - 1), s[k])
<1>1. Held(db, s, 0) = db
  BY DEF Held, Added, Undropped, Database
<1>2. \A k \in Nat : Held(db, s, k) \in Database
  BY DEF Held, Database
<1>3. ASSUME NEW k \in 1..Len(s)
      PROVE  Held(db, s, k) = Effect(Held(db, s, k - 1), s[k])
  <2>1. Len(s) \in Nat /\ k \in Nat /\ k - 1 \in Nat /\ s[k] \in Message
    BY LenProperties, ElementOfSeq
  <2>2. 1..k = 1..(k - 1) \cup {k} /\ k \notin 1..(k - 1)
    BY <2>1
  <2>3. ASSUME NEW x \in Sa
        PROVE  /\ Undropped(s, k, x) <=> Undropped(s, k - 1, x) /\ ~Drops(s[k], x)
               /\ (Added(s, k, x) <=>
                     Adds(s[k], x) \/ (Added(s, k - 1, x) /\ ~Drops(s[k], x)))
    <3>1. Undropped(s, k, x) <=> Undropped(s, k - 1, x) /\ ~Drops(s[k], x)
      BY <2>2 DEF Undropped
    <3>2. ASSUME Added(s, k, x)
          PROVE  Adds(s[k], x) \/ (Added(s, k - 1, x) /\ ~Drops(s[k], x))
      <4>1. PICK j \in 1..k : Adds(s[j], x) /\ \A i \in 1..k : j < i => ~Drops(s[i], x)
        BY <3>2 DEF Added
      <4>2. CASE j = k
        BY <4>1, <4>2
      <4>3. CASE j # k
        <5>1. j \in 1..(k - 1) /\ j < k
          BY <2>1, <4>3
        <5> QED
          BY <2>2, <4>1, <5>1 DEF Added
      <4> QED
        BY <4>2, <4>3
    <3>3. ASSUME Adds(s[k], x)
          PROVE  Added(s, k, x)
      <4>1. \A i \in 1..k : ~(k < i)
        BY <2>1
      <4> QED
        BY <2>2, <3>3, <4>1 DEF Added
    <3>4. ASSUME Added(s, k - 1, x), ~Drops(s[k], x)
          PROVE  Added(s, k, x)
      BY <2>2, <3>4 DEF Added
    <3> QED
      BY <3>1, <3>2, <3>3, <3>4
  <2>4. /\ Effect(Held(db, s, k - 1), s[k]) \in Database
        /\ \A x \in Sa : (x \in Effect(Held(db, s, k - 1), s[k]) <=>
             Adds(s[k], x) \/ (x \in Held(db, s, k - 1) /\ ~Drops(s[k], x)))
    BY <1>2, <2>1, EffectFacts
  <2>5. \A x \in Sa : x \in Held(db, s, k) <=> x \in Effect(Held(db, s, k - 1), s[k])
    BY <2>3, <2>4 DEF Held
  <2> QED
    BY <1>2, <2>1, <2>4, <2>5 DEF Database
<1> QED
  BY <1>1, <1>2, <1>3

\* Two functions that agree at the start and go on alike agree.
LEMMA AgreeFromZero ==
  ASSUME NEW m \in Nat, NEW f, NEW g, f[0] = g[0],
         \A k \in 1..m : f[k-1] = g[k-1] => f[k] = g[k]
  PROVE  \A k \in 0..m : f[k] = g[k]
<1> DEFINE Bad == {k \in 0..m : f[k] # g[k]}
<1>1. SUFFICES ASSUME Bad # {}
               PROVE  FALSE
  OBVIOUS
<1>2. PICK x \in Bad : \A y \in Bad : x <= y
  <2>1. Bad \subseteq Nat
    OBVIOUS
  <2> HIDE DEF Bad
  <2>2. PICK x \in Bad : \A y \in Bad : <<y, x>> \notin OpToRel(<, Nat)
    BY <1>1, <2>1, WFMin, NatLessThanWellFounded, Zenon
  <2>3. \A y \in Bad : ~(y < x)
    BY <2>1, <2>2, Zenon DEF OpToRel
  <2> QED
    BY <2>1, <2>3
<1>3. x \in 1..m /\ f[x] # g[x]
  BY <1>2
<1>4. x - 1 \notin Bad
  BY <1>2, <1>3
<1> QED
  BY <1>3, <1>4

\* The recursive function is the closed form.
LEMMA AfterIsHeld ==
  ASSUME NEW db \in Database, NEW s \in Seq(Message)
  PROVE  After(db, s) = Held(db, s, Len(s))
<1> DEFINE IsAt(f) == f = [i \in 0..Len(s) |->
              IF i = 0 THEN db
              ELSE IF s[i].t = "data" THEN Do(f[i - 1], s[i].op) ELSE f[i - 1]]
           at == CHOOSE f : IsAt(f)
           held == [i \in 0..Len(s) |-> Held(db, s, i)]
<1>1. Len(s) \in Nat
  BY LenProperties
<1>2. held[0] = db /\ \A i \in 1..Len(s) : held[i] = Effect(held[i - 1], s[i])
  <2>1. \A i \in 0..Len(s) : held[i] = Held(db, s, i)
    OBVIOUS
  <2>2. \A i \in 1..Len(s) : i \in 0..Len(s) /\ i - 1 \in 0..Len(s)
    BY <1>1
  <2> HIDE DEF held
  <2> QED
    BY <1>1, <2>1, <2>2, HeldSteps
<1>3. IsAt(held)
  <2>1. held = [i \in 0..Len(s) |-> held[i]]
    OBVIOUS
  <2> HIDE DEF held
  <2>2. \A i \in 0..Len(s) :
          held[i] = IF i = 0 THEN db
                    ELSE IF s[i].t = "data" THEN Do(held[i - 1], s[i].op) ELSE held[i - 1]
    BY <1>1, <1>2 DEF Effect
  <2> QED
    BY <2>1, <2>2
<1> HIDE DEF IsAt
<1>4. IsAt(at)
  BY <1>3
<1> HIDE DEF at
<1>5. /\ at[0] = db /\ \A i \in 1..Len(s) : at[i] = Effect(at[i - 1], s[i])
  <2>1. \A i \in 0..Len(s) :
          at[i] = IF i = 0 THEN db
                  ELSE IF s[i].t = "data" THEN Do(at[i - 1], s[i].op) ELSE at[i - 1]
    BY <1>4 DEF IsAt
  <2> QED
    BY <1>1, <2>1 DEF Effect
<1>6. held[Len(s)] = Held(db, s, Len(s))
  BY <1>1
<1> HIDE DEF held
<1>7. \A i \in 0..Len(s) : at[i] = held[i]
  <2>1. at[0] = held[0] /\ \A i \in 1..Len(s) : at[i - 1] = held[i - 1] => at[i] = held[i]
    BY <1>2, <1>5
  <2> QED
    BY <1>1, <2>1, AgreeFromZero, Zenon
<1>8. After(db, s) = at[Len(s)]
  BY DEF After, at, IsAt
<1> QED
  BY <1>1, <1>6, <1>7, <1>8

LEMMA AfterType ==
  ASSUME NEW db \in Database, NEW s \in Seq(Message)
  PROVE  After(db, s) \in Database
<1>1. Len(s) \in Nat
  BY LenProperties
<1> QED
  BY <1>1, AfterIsHeld, HeldSteps

LEMMA AfterBoth ==
  ASSUME NEW db \in Database, NEW s \in Seq(Message), NEW u \in Seq(Message)
  PROVE  After(db, s \o u) = After(After(db, s), u)
<1> DEFINE mid == After(db, s)
           f == [k \in 0..Len(u) |-> Held(db, s \o u, Len(s) + k)]
           g == [k \in 0..Len(u) |-> Held(mid, u, k)]
<1>1. /\ Len(s) \in Nat /\ Len(u) \in Nat /\ s \o u \in Seq(Message)
      /\ Len(s \o u) = Len(s) + Len(u)
      /\ \A i \in 1..Len(s) + Len(u) :
           (s \o u)[i] = IF i <= Len(s) THEN s[i] ELSE u[i - Len(s)]
  BY LenProperties, ConcatProperties
<1>2. mid \in Database /\ mid = Held(db, s, Len(s))
  BY AfterType, AfterIsHeld
<1> HIDE DEF mid
<1>3. Held(db, s \o u, Len(s)) = Held(db, s, Len(s))
  <2>1. \A i \in 1..Len(s) : (s \o u)[i] = s[i]
    BY <1>1
  <2> QED
    BY <2>1 DEF Held, Added, Undropped
<1>4. \A k \in 0..Len(u) : f[k] = Held(db, s \o u, Len(s) + k) /\ g[k] = Held(mid, u, k)
  OBVIOUS
<1> HIDE DEF f, g
<1>5. f[0] = g[0]
  BY <1>1, <1>2, <1>3, <1>4, HeldSteps
<1>6. ASSUME NEW k \in 1..Len(u), f[k - 1] = g[k - 1]
      PROVE  f[k] = g[k]
  <2>1. Len(s) + k \in 1..Len(s \o u) /\ (s \o u)[Len(s) + k] = u[k]
        /\ Len(s) + k - 1 = Len(s) + (k - 1) /\ k - 1 \in 0..Len(u) /\ k \in 0..Len(u)
    BY <1>1
  <2> DEFINE w == s \o u
  <2>2. Held(db, w, Len(s) + k) = Effect(Held(db, w, Len(s) + k - 1), w[Len(s) + k])
    <3>1. w \in Seq(Message) /\ Len(s) + k \in 1..Len(w)
      BY <1>1, <2>1
    <3> HIDE DEF w
    <3> QED
      BY <3>1, HeldSteps
  <2>3. Held(mid, u, k) = Effect(Held(mid, u, k - 1), u[k])
    BY <1>2, HeldSteps
  <2> QED
    BY <1>4, <1>6, <2>1, <2>2, <2>3
<1>7. f[Len(u)] = g[Len(u)]
  <2>1. \A k \in 1..Len(u) : f[k - 1] = g[k - 1] => f[k] = g[k]
    BY <1>6
  <2>2. \A k \in 0..Len(u) : f[k] = g[k]
    <3>1. Len(u) \in Nat
      BY <1>1
    <3> QED
      BY <1>5, <2>1, <3>1, AgreeFromZero, Zenon
  <2> QED
    BY <1>1, <2>2
<1>8. After(db, s \o u) = Held(db, s \o u, Len(s \o u)) /\ After(mid, u) = Held(mid, u, Len(u))
  BY <1>1, <1>2, AfterIsHeld
<1> QED
  BY <1>1, <1>4, <1>7, <1>8 DEF mid

LEMMA AfterSmall ==
  ASSUME NEW db \in Database
  PROVE  /\ After(db, <<>>) = db
         /\ \A m \in Message : After(db, <<m>>) = Effect(db, m)
         /\ \A s \in Seq(Message) : s # <<>> =>
              After(db, s) = After(Effect(db, Head(s)), Tail(s))
         /\ \A s \in Seq(Message) : \A m \in Message :
              After(db, Append(s, m)) = Effect(After(db, s), m)
<1>1. After(db, <<>>) = db
  <2>1. <<>> \in Seq(Message) /\ Len(<<>>) = 0
    OBVIOUS
  <2> QED
    BY <2>1, AfterIsHeld, HeldSteps
<1>2. ASSUME NEW d \in Database, NEW m \in Message
      PROVE  After(d, <<m>>) = Effect(d, m)
  <2> DEFINE w == <<m>>
  <2>1. w \in Seq(Message) /\ Len(w) = 1 /\ w[1] = m
    OBVIOUS
  <2> HIDE DEF w
  <2>2. Held(d, w, 0) = d /\ Held(d, w, 1) = Effect(Held(d, w, 1 - 1), w[1])
    BY <2>1, HeldSteps
  <2>3. After(d, w) = Held(d, w, Len(w))
    BY <2>1, AfterIsHeld
  <2>4. After(d, w) = Effect(d, m)
    BY <2>1, <2>2, <2>3
  <2> QED
    BY <2>4 DEF w
<1>3. ASSUME NEW s \in Seq(Message), s # <<>>
      PROVE  After(db, s) = After(Effect(db, Head(s)), Tail(s))
  <2> DEFINE h == <<Head(s)>>
             t == Tail(s)
  <2>1. Head(s) \in Message /\ t \in Seq(Message) /\ h \in Seq(Message) /\ s = h \o t
    BY <1>3, HeadTailProperties
  <2>2. After(db, h) = Effect(db, Head(s))
    BY <1>2, <2>1
  <2> HIDE DEF h, t
  <2>3. After(db, h \o t) = After(After(db, h), t)
    BY <2>1, AfterBoth
  <2>4. After(db, s) = After(Effect(db, Head(s)), t)
    BY <2>1, <2>2, <2>3
  <2> QED
    BY <2>4 DEF t
<1>4. ASSUME NEW s \in Seq(Message), NEW m \in Message
      PROVE  After(db, Append(s, m)) = Effect(After(db, s), m)
  <2> DEFINE w == <<m>>
  <2>1. Append(s, m) = s \o w /\ w \in Seq(Message)
    OBVIOUS
  <2>2. After(db, s) \in Database
    BY AfterType
  <2>3. After(After(db, s), w) = Effect(After(db, s), m)
    BY <1>2, <2>2
  <2> HIDE DEF w
  <2>4. After(db, s \o w) = After(After(db, s), w)
    BY <2>1, AfterBoth
  <2> QED
    BY <2>1, <2>3, <2>4
<1> QED
  BY <1>1, <1>2, <1>3, <1>4

\* What carries no data changes no database.
LEMMA AfterTalk ==
  ASSUME NEW db \in Database, NEW s \in Seq(Message), Lacks(s, DataKind)
  PROVE  After(db, s) = db
<1>1. \A i \in 1..Len(s), x \in Sa : ~Adds(s[i], x) /\ ~Drops(s[i], x)
  BY DEF Lacks, DataKind, Adds, Drops
<1>2. Held(db, s, Len(s)) = db
  BY <1>1 DEF Held, Added, Undropped, Database
<1> QED
  BY <1>2, AfterIsHeld

\* A database that its own events leave alone is left alone by the later ones.
LEMMA LaterEvents ==
  ASSUME NEW db \in Database, NEW s \in Seq(Message), s # <<>>, After(db, s) = db
  PROVE  After(db, Tail(s)) = db
<1>1. Head(s) \in Message /\ Tail(s) \in Seq(Message)
  BY HeadTailProperties
<1> DEFINE t == Tail(s)
           one == Effect(db, Head(s))
<1>2. t \in Seq(Message) /\ one \in Database
  BY <1>1, EffectFacts
<1>3. Held(one, t, Len(t)) = db
  <2>1. After(one, t) = db
    BY AfterSmall
  <2> HIDE DEF one, t
  <2> QED
    BY <1>2, <2>1, AfterIsHeld
<1>4. \A x \in Sa : x \in one <=> Adds(Head(s), x) \/ (x \in db /\ ~Drops(Head(s), x))
  BY <1>1, EffectFacts
<1>5. After(db, t) = Held(db, t, Len(t))
  BY <1>2, AfterIsHeld
<1> HIDE DEF t, one
<1>6. \A x \in Sa : x \in Held(one, t, Len(t)) <=> x \in Held(db, t, Len(t))
  <2>1. SUFFICES ASSUME NEW x \in Sa
                 PROVE  x \in Held(one, t, Len(t)) <=> x \in Held(db, t, Len(t))
    OBVIOUS
  <2>2. CASE x \in db
    BY <2>2, <1>3 DEF Held
  <2>3. CASE x \notin db
    BY <2>3, <1>3 DEF Held
  <2> QED
    BY <2>2, <2>3
<1>7. After(db, t) = db
  BY <1>3, <1>5, <1>6 DEF Held
<1> QED
  BY <1>7 DEF t

\* Applied again, the events of a database end with the newest one.
LEMMA OneMoreEvent ==
  ASSUME NEW db \in Database, NEW s \in Seq(Message), After(db, s) = db,
         NEW op \in Op, NEW r \in Role
  PROVE  After(Do(db, op), Append(s, Data(op, r))) = Do(db, op)
<1> DEFINE m == Data(op, r)
           one == Do(db, op)
<1>1. m \in Message /\ Effect(db, m) = one /\ \A d : Effect(d, m) = Do(d, op)
  BY MessageTypes DEF Effect, Data
<1>2. one \in Database
  BY <1>1, EffectFacts
<1>3. After(one, s) = Held(one, s, Len(s)) /\ Held(db, s, Len(s)) = db /\ After(one, s) \in Database
  BY <1>2, AfterIsHeld, AfterType
<1> DEFINE again == After(one, s)
<1>4. \A x \in Sa : /\ x \in one <=> Adds(m, x) \/ (x \in db /\ ~Drops(m, x))
                    /\ x \in Effect(again, m) <=> Adds(m, x) \/ (x \in again /\ ~Drops(m, x))
  BY <1>1, <1>3, EffectFacts
<1>5. After(one, Append(s, m)) = Effect(again, m) /\ Effect(again, m) \in Database
  BY <1>1, <1>2, <1>3, AfterSmall, EffectFacts
<1>6. again = Held(one, s, Len(s))
  BY <1>3
<1> HIDE DEF m, one, again
<1>7. ASSUME NEW x \in Sa
      PROVE  x \in Effect(again, m) <=> x \in one
  <2>1. CASE Adds(m, x)
    BY <2>1, <1>4
  <2>2. CASE Drops(m, x) /\ ~Adds(m, x)
    BY <2>2, <1>4
  <2>3. CASE ~Adds(m, x) /\ ~Drops(m, x)
    <3>1. x \in one <=> x \in db
      BY <2>3, <1>4
    <3>2. x \in again <=> x \in db
      BY <3>1, <1>3, <1>6 DEF Held
    <3> QED
      BY <2>3, <1>4, <3>1, <3>2
  <2> QED
    BY <2>1, <2>2, <2>3
<1>8. Effect(again, m) = one
  BY <1>2, <1>5, <1>7 DEF Database
<1> QED
  BY <1>5, <1>8 DEF m, one

-----------------------------------------------------------------------------
(* Operations sent as data. *)
LEMMA AsDataFacts ==
  ASSUME NEW ops \in Seq(Op), NEW r \in Role
  PROVE  /\ AsData(ops, r) \in Seq(Message) /\ Len(AsData(ops, r)) = Len(ops)
         /\ \A i \in 1..Len(ops) : AsData(ops, r)[i] = Data(ops[i], r)
<1>1. Len(ops) \in Nat /\ DOMAIN ops = 1..Len(ops) /\ \A i \in 1..Len(ops) : ops[i] \in Op
  BY LenProperties
<1>2. AsData(ops, r) = [i \in 1..Len(ops) |-> Data(ops[i], r)]
  BY <1>1 DEF AsData
<1>3. \A i \in 1..Len(ops) : Data(ops[i], r) \in Message
  BY <1>1, MessageTypes
<1> QED
  BY <1>1, <1>2, <1>3, IsASeq

LEMMA AsDataSteps ==
  ASSUME NEW ops \in Seq(Op), NEW r \in Role
  PROVE  /\ \A op \in Op : AsData(Append(ops, op), r) = Append(AsData(ops, r), Data(op, r))
         /\ ops # <<>> => /\ AsData(ops, r) # <<>>
                          /\ Head(AsData(ops, r)) = Data(Head(ops), r)
                          /\ Tail(AsData(ops, r)) = AsData(Tail(ops), r)
         /\ AsData(<<>>, r) = <<>>
<1> DEFINE a == AsData(ops, r)
<1>1. /\ a \in Seq(Message) /\ Len(a) = Len(ops) /\ Len(ops) \in Nat
      /\ \A i \in 1..Len(ops) : a[i] = Data(ops[i], r)
  BY AsDataFacts, LenProperties
<1> HIDE DEF a
<1>2. ASSUME NEW op \in Op
      PROVE  AsData(Append(ops, op), r) = Append(a, Data(op, r))
  <2> DEFINE w == Append(ops, op)
             b == AsData(w, r)
             m == Data(op, r)
  <2>1. /\ w \in Seq(Op) /\ Len(w) = Len(ops) + 1 /\ w[Len(ops) + 1] = op
        /\ \A i \in 1..Len(ops) : w[i] = ops[i]
    BY <1>1
  <2>2. m \in Message
    BY MessageTypes
  <2> HIDE DEF w
  <2>3. b \in Seq(Message) /\ Len(b) = Len(w) /\ \A i \in 1..Len(w) : b[i] = Data(w[i], r)
    BY <2>1, AsDataFacts
  <2> HIDE DEF b
  <2>4. b[Len(ops) + 1] = m /\ \A i \in 1..Len(ops) : b[i] = a[i]
    BY <1>1, <2>1, <2>3
  <2> HIDE DEF m
  <2>5. /\ Append(a, m) \in Seq(Message) /\ Len(Append(a, m)) = Len(ops) + 1
        /\ Append(a, m)[Len(ops) + 1] = m /\ \A i \in 1..Len(ops) : Append(a, m)[i] = a[i]
    BY <1>1, <2>2
  <2>6. Len(b) = Len(ops) + 1
    BY <2>1, <2>3
  <2>7. \A i \in 1..Len(b) : b[i] = Append(a, m)[i]
    <3>1. \A i \in 1..Len(b) : i \in 1..Len(ops) \/ i = Len(ops) + 1
      BY <1>1, <2>6
    <3> QED
      BY <2>4, <2>5, <3>1
  <2>8. b = Append(a, m)
    BY <2>3, <2>5, <2>6, <2>7, SeqEqual
  <2> QED
    BY <2>8 DEF b, m, w
<1>3. ASSUME ops # <<>>
      PROVE  a # <<>> /\ Head(a) = Data(Head(ops), r) /\ Tail(a) = AsData(Tail(ops), r)
  <2> DEFINE t == Tail(ops)
             b == AsData(t, r)
  <2>1. /\ t \in Seq(Op) /\ Len(t) = Len(ops) - 1 /\ Len(ops) > 0 /\ Head(ops) = ops[1]
        /\ \A i \in 1..Len(t) : t[i] = ops[i + 1]
    BY <1>1, <1>3
  <2>2. a # <<>> /\ Head(a) = a[1]
    BY <1>1, <2>1
  <2>3. /\ Tail(a) \in Seq(Message) /\ Len(Tail(a)) = Len(a) - 1
        /\ \A i \in 1..Len(Tail(a)) : Tail(a)[i] = a[i + 1]
    BY <1>1, <2>2
  <2> HIDE DEF t
  <2>4. b \in Seq(Message) /\ Len(b) = Len(t) /\ \A i \in 1..Len(t) : b[i] = Data(t[i], r)
    BY <2>1, AsDataFacts
  <2> HIDE DEF b
  <2>5. \A i \in 1..Len(b) : b[i] = Tail(a)[i]
    <3>1. \A i \in 1..Len(b) : i + 1 \in 1..Len(ops) /\ i \in 1..Len(t) /\ i \in 1..Len(Tail(a))
      BY <1>1, <2>1, <2>3, <2>4
    <3> QED
      BY <1>1, <2>1, <2>3, <2>4, <3>1
  <2>6. Tail(a) = b
    BY <1>1, <2>1, <2>3, <2>4, <2>5, SeqEqual
  <2>7. Head(a) = Data(Head(ops), r)
    BY <1>1, <2>1, <2>2
  <2> QED
    BY <2>2, <2>6, <2>7 DEF b, t
<1>4. AsData(<<>>, r) = <<>>
  <2>1. <<>> \in Seq(Op) /\ Len(<<>>) = 0
    OBVIOUS
  <2> DEFINE b == AsData(<<>>, r)
  <2>2. b \in Seq(Message) /\ Len(b) = 0
    BY <2>1, AsDataFacts
  <2> HIDE DEF b
  <2>3. b = <<>>
    BY <2>2
  <2> QED
    BY <2>3 DEF b
<1> QED
  BY <1>2, <1>3, <1>4 DEF a

\* The snapshot of a database adds all of it and nothing else.
LEMMA ContentsFacts ==
  ASSUME NEW D \in Database, IsFiniteSet(D)
  PROVE  /\ Contents(D) \in Seq(Op)
         /\ \A i \in 1..Len(Contents(D)) : \E x \in D : Contents(D)[i] = [k |-> "add", s |-> x]
         /\ \A x \in D : \E i \in 1..Len(Contents(D)) : Contents(D)[i] = [k |-> "add", s |-> x]
<1> DEFINE T == {[k |-> "add", s |-> s] : s \in D}
           f == [s \in D |-> [k |-> "add", s |-> s]]
           q == SetToSeq(T)
           N == 1..Cardinality(T)
<1>1. f \in Surjection(D, T)
  BY DEF Surjection
<1>2. T \subseteq Op
  BY DEF Op, Database
<1> HIDE DEF T, f
<1>3. IsFiniteSet(T)
  BY <1>1, FS_Surjection
<1>4. Cardinality(T) \in Nat /\ ExistsBijection(N, T)
  BY <1>3, FS_CardinalityType
<1>5. \E g \in [N -> T] : IsInjective(g)
  BY <1>4 DEF ExistsBijection, Bijection, Injection
<1>6. q \in [N -> T] /\ IsInjective(q)
  BY <1>5 DEF SetToSeq
<1> HIDE DEF q
<1>7. q \in Injection(N, T)
  BY <1>6 DEF Injection
<1>8. IsFiniteSet(N) /\ Cardinality(N) = Cardinality(T)
  BY <1>4, FS_Interval
<1> HIDE DEF N
<1>9. q \in Surjection(N, T)
  BY <1>3, <1>7, <1>8, FS_Injection
<1>10. q \in Seq(Op) /\ Len(q) = Cardinality(T) /\ Len(q) \in Nat
  BY <1>2, <1>4, <1>6, IsASeq DEF N
<1>11. \A i \in 1..Len(q) : q[i] \in T
  BY <1>6, <1>10 DEF N
<1>12. \A y \in T : \E i \in 1..Len(q) : q[i] = y
  BY <1>9, <1>10 DEF Surjection, N
<1>13. q = Contents(D)
  BY DEF Contents, q, T
<1> HIDE DEF N
<1> QED
  BY <1>10, <1>11, <1>12, <1>13 DEF T

LEMMA SnapshotMakes ==
  ASSUME NEW db \in Database, NEW D \in Database, IsFiniteSet(D), NEW r \in Role,
         FlushMode = "startup"
  PROVE  /\ AsData(SnapshotOps(D), r) \in Seq(Message)
         /\ After(db, AsData(SnapshotOps(D), r)) = D
<1> DEFINE q == Contents(D)
           ops == SnapshotOps(D)
           u == AsData(ops, r)
<1>1. /\ q \in Seq(Op) /\ Len(q) \in Nat
      /\ \A i \in 1..Len(q) : \E x \in D : q[i] = [k |-> "add", s |-> x]
      /\ \A x \in D : \E i \in 1..Len(q) : q[i] = [k |-> "add", s |-> x]
  BY ContentsFacts, LenProperties
<1> HIDE DEF q
<1>2. /\ ops \in Seq(Op) /\ Len(ops) = Len(q) + 1 /\ ops[1] = Flush
      /\ \A i \in 1..Len(q) : ops[i + 1] = q[i]
  <2> DEFINE h == <<Flush>>
  <2>1. h \in Seq(Op) /\ Len(h) = 1 /\ h[1] = Flush
    BY DEF Op
  <2>2. ops = h \o q
    BY DEF SnapshotOps, q
  <2> HIDE DEF h, ops
  <2>3. /\ h \o q \in Seq(Op) /\ Len(h \o q) = 1 + Len(q)
        /\ \A i \in 1..1 + Len(q) : (h \o q)[i] = IF i <= 1 THEN h[i] ELSE q[i - 1]
    <3>1. /\ h \o q \in Seq(Op) /\ Len(h \o q) = Len(h) + Len(q)
          /\ \A i \in 1..Len(h) + Len(q) :
               (h \o q)[i] = IF i <= Len(h) THEN h[i] ELSE q[i - Len(h)]
      BY <1>1, <2>1, ConcatProperties
    <3> QED
      BY <2>1, <3>1
  <2>4. \A i \in 1..Len(q) : i + 1 \in 1..1 + Len(q) /\ ~(i + 1 <= 1) /\ (i + 1) - 1 = i
    BY <1>1
  <2>5. 1 \in 1..1 + Len(q)
    BY <1>1
  <2> QED
    BY <1>1, <2>1, <2>2, <2>3, <2>4, <2>5
<1> HIDE DEF ops
<1>3. u \in Seq(Message) /\ Len(u) = Len(q) + 1 /\ \A i \in 1..Len(ops) : u[i] = Data(ops[i], r)
  BY <1>2, AsDataFacts
<1> HIDE DEF u
<1>4. u[1] = Data(Flush, r) /\ \A i \in 1..Len(q) : u[i + 1] = Data(q[i], r)
  BY <1>1, <1>2, <1>3
<1>5. ASSUME NEW x \in Sa
      PROVE  /\ ~Undropped(u, Len(u), x)
             /\ x \in D => Added(u, Len(u), x)
             /\ Added(u, Len(u), x) => x \in D
  <2>1. Drops(u[1], x)
    BY <1>4 DEF Drops, Data
  <2>2. ~Adds(u[1], x)
    BY <1>4 DEF Adds, Data, Flush
  <2>3. ASSUME NEW i \in 1..Len(q)
        PROVE  ~Drops(u[i + 1], x) /\ (Adds(u[i + 1], x) => x \in D)
    <3>1. PICK y \in D : q[i] = [k |-> "add", s |-> y]
      BY <1>1
    <3>2. u[i + 1].op = [k |-> "add", s |-> y]
      <4>1. u[i + 1] = Data(q[i], r)
        BY <1>4
      <4> QED
        BY <3>1, <4>1 DEF Data
    <3>3. [k |-> "add", s |-> y] # Flush /\ [k |-> "add", s |-> y] # [k |-> "del", s |-> x]
      BY DEF Flush
    <3> QED
      BY <3>2, <3>3 DEF Drops, Adds
  <2>4. \A i \in 1..Len(u) : i = 1 \/ (i - 1 \in 1..Len(q) /\ (i - 1) + 1 = i)
    BY <1>1, <1>3
  <2>5. ASSUME NEW i \in 1..Len(u)
        PROVE  /\ 1 < i => ~Drops(u[i], x)
               /\ Adds(u[i], x) => x \in D
    <3>1. CASE i = 1
      BY <2>2, <3>1
    <3>2. CASE i - 1 \in 1..Len(q)
      <4>1. ~Drops(u[(i - 1) + 1], x) /\ (Adds(u[(i - 1) + 1], x) => x \in D)
        BY <2>3, <3>2
      <4>2. (i - 1) + 1 = i
        BY <3>2
      <4> QED
        BY <4>1, <4>2
    <3> QED
      BY <2>4, <3>1, <3>2
  <2>6. 1 \in 1..Len(u)
    BY <1>1, <1>3
  <2>7. ASSUME x \in D
        PROVE  Added(u, Len(u), x)
    <3>1. PICK i \in 1..Len(q) : q[i] = [k |-> "add", s |-> x]
      BY <1>1, <2>7
    <3>2. Adds(u[i + 1], x) /\ i + 1 \in 1..Len(u)
      <4>1. u[i + 1] = Data(q[i], r) /\ i + 1 \in 1..Len(u)
        BY <1>1, <1>3, <1>4
      <4> QED
        BY <3>1, <4>1 DEF Adds, Data
    <3>3. \A k \in 1..Len(u) : i + 1 < k => 1 < k
      BY <1>1, <1>3
    <3> QED
      BY <2>5, <3>2, <3>3 DEF Added
  <2>8. Added(u, Len(u), x) => x \in D
    BY <2>5 DEF Added
  <2>9. ~Undropped(u, Len(u), x)
    BY <2>1, <2>6 DEF Undropped
  <2> QED
    BY <2>7, <2>8, <2>9
<1>6. Held(db, u, Len(u)) = D
  BY <1>5 DEF Held, Database
<1>7. After(db, u) = D
  BY <1>3, <1>6, AfterIsHeld
<1> QED
  BY <1>3, <1>7 DEF u, ops

-----------------------------------------------------------------------------
(***************************************************************************)
(* A peer that follows.  Its MASTER listens to its kernel, is at rest, and *)
(* holds an open connection that the peer uses, or has not accepted yet    *)
(* and whose messages then lead to the MASTER's database from any other.   *)
(***************************************************************************)
Line(n, p) == inbox[sock[n][p]][p] \o msgs[n][p]
Final(n, p, db) == After(After(db, Line(n, p)), AsData(events[n], "MASTER"))
Serves(n, p) == /\ FlushMode = "startup" /\ run[n] = "MASTER" /\ AtRest(n)
                /\ sock[n][p] # NoConn /\ shut[sock[n][p]] = {}
Leads(n, p) ==
  \/ /\ sock[p][n] = sock[n][p]
     /\ Final(n, p, After(sadb[p], AsData(pfq[p], "MASTER"))) = sadb[n]
  \/ /\ sock[n][p] \in Range(backlog[p])
     /\ \A db \in Database : Final(n, p, db) = sadb[n]
Followed(n, p) == follows[n][p] => Serves(n, p) /\ Leads(n, p)
AllFollowed == \A n \in Node : \A p \in Peer(n) : Followed(n, p)
Watch == \A n \in Node : run[n] = "MASTER" => promisc[n]

LEMMA DataFacts ==
  ASSUME Types, NEW n \in Node
  PROVE  /\ sadb[n] \in Database /\ IsFiniteSet(sadb[n])
         /\ events[n] \in Seq(Op) /\ AsData(events[n], "MASTER") \in Seq(Message)
         /\ pfq[n] \in Seq(Op) /\ AsData(pfq[n], "MASTER") \in Seq(Message)
         /\ After(sadb[n], AsData(pfq[n], "MASTER")) \in Database
<1>1. sadb[n] \in Database /\ IsFiniteSet(sadb[n]) /\ events[n] \in Seq(Op) /\ pfq[n] \in Seq(Op)
  BY DEF Types, DataTypes, Database
<1>2. "MASTER" \in Role
  BY DEF Role
<1>3. AsData(events[n], "MASTER") \in Seq(Message) /\ AsData(pfq[n], "MASTER") \in Seq(Message)
  BY <1>1, <1>2, AsDataFacts
<1>4. After(sadb[n], AsData(pfq[n], "MASTER")) \in Database
  BY <1>1, <1>3, AfterType
<1> QED
  BY <1>1, <1>3, <1>4

\* The two gateways keep their ends of the connection of n to p.
Wired(n, p) ==
  /\ sock'[n][p] = sock[n][p] /\ shut'[sock[n][p]] = shut[sock[n][p]]
  /\ sock[p][n] = sock[n][p] => sock'[p][n] = sock[n][p]
  /\ sock[n][p] \in Range(backlog[p]) => sock[n][p] \in Range(backlog'[p])
\* What is on its way over it has the same effect.
LineKept(n, p) ==
  \A db \in Database : After(db, inbox'[sock[n][p]][p] \o msgs'[n][p]) = After(db, Line(n, p))

\* So are what n and p have.
SameData(n, p) ==
  /\ sadb'[n] = sadb[n] /\ events'[n] = events[n] /\ pfq'[n] = pfq[n]
  /\ sadb'[p] = sadb[p] /\ pfq'[p] = pfq[p]

LEMMA StaysFollowed ==
  ASSUME Types, NEW n \in Node, NEW p \in Peer(n), Followed(n, p),
         follows'[n][p] => /\ follows[n][p] /\ run'[n] = run[n] /\ LineKept(n, p)
                           /\ Serves(n, p) => Wired(n, p) /\ SameData(n, p)
  PROVE  Followed(n, p)'
<1> SUFFICES ASSUME follows'[n][p]
             PROVE  Serves(n, p)' /\ Leads(n, p)'
  BY DEF Followed
<1>1. /\ Serves(n, p) /\ Leads(n, p) /\ Wired(n, p) /\ run'[n] = run[n] /\ LineKept(n, p)
      /\ SameData(n, p)
  BY DEF Followed
<1>2. Serves(n, p)'
  BY <1>1 DEF Serves, Wired, AtRest, SameData
<1>3. \A db \in Database : Final(n, p, db)' = Final(n, p, db)
  BY <1>1 DEF LineKept, Final, Line, Wired, SameData
<1>4. p \in Node
  BY DEF Peer
<1>5. After(sadb[p], AsData(pfq[p], "MASTER")) \in Database
  BY <1>4, DataFacts
<1>6. Leads(n, p)'
  <2>1. CASE sock[p][n] = sock[n][p] /\ Final(n, p, After(sadb[p], AsData(pfq[p], "MASTER"))) = sadb[n]
    <3> DEFINE db == After(sadb[p], AsData(pfq[p], "MASTER"))
    <3>1. db' = db
      BY <1>1 DEF SameData
    <3>2. Final(n, p, db)' = sadb'[n]
      BY <1>1, <1>3, <1>5, <2>1, <3>1 DEF Final, Line, SameData
    <3> QED
      BY <1>1, <2>1, <3>2 DEF Leads, Wired
  <2>2. CASE sock[n][p] \in Range(backlog[p]) /\ \A db \in Database : Final(n, p, db) = sadb[n]
    BY <1>1, <1>3, <2>2 DEF Leads, Wired, Database, SameData
  <2> QED
    BY <1>1, <2>1, <2>2 DEF Leads
<1> QED
  BY <1>2, <1>6

\* Who speaks keeps the connections there are.
LEMMA SpeakWired ==
  ASSUME Types, NEW n \in Node, NEW S, Speaks(n, S), NEW x \in Node, NEW y \in Peer(x),
         sock[x][y] # NoConn
  PROVE  Wired(x, y)
<1>1. y \in Node /\ x \in Peer(y) /\ y \in Peer(x)
  BY ConnFacts
<1>2. S \subseteq Callable(n) /\ shut' = shut
  BY DEF Speaks
<1>3. \A z \in S : sock[n][z] = NoConn /\ z \in Peer(n)
  BY <1>2 DEF Callable
<1>4. sock'[x][y] = sock[x][y]
  BY <1>3 DEF Speaks
<1>5. sock[y][x] = sock[x][y] => sock'[y][x] = sock[x][y]
  BY <1>1, <1>3 DEF Speaks
<1>6. Range(backlog[y]) \subseteq Range(backlog'[y])
  <2>1. CASE y \notin S
    BY <1>1, <2>1 DEF Speaks
  <2>2. CASE y \in S
    <3>1. Fresh(n, y) \in Conn
      BY <1>2, <2>2, FreshFacts
    <3>2. backlog[y] \in Seq(Conn) /\ backlog'[y] = Append(backlog[y], Fresh(n, y))
      BY <1>1, <2>2 DEF Types, SockTypes, Speaks
    <3> QED
      BY <3>1, <3>2, RangeFacts
  <2> QED
    BY <2>1, <2>2
<1> QED
  BY <1>2, <1>4, <1>5, <1>6 DEF Wired

LEMMA SpeakFollowed ==
  ASSUME Types, AllFollowed, NEW n \in Node, NEW S, Speaks(n, S), UNCHANGED <<sadb, events, pfq>>,
         \A x \in Node : \A y \in Peer(x) :
           follows'[x][y] => follows[x][y] /\ run'[x] = run[x] /\ LineKept(x, y)
  PROVE  AllFollowed'
<1> SUFFICES ASSUME NEW x \in Node, NEW y \in Peer(x)
             PROVE  Followed(x, y)'
  BY DEF AllFollowed, Peer
<1>1. Serves(x, y) => Wired(x, y) /\ SameData(x, y)
  BY SpeakWired DEF Serves, SameData
<1> QED
  BY <1>1, StaysFollowed DEF AllFollowed

-----------------------------------------------------------------------------
(* Steps that only talk. *)
LEMMA LineSame ==
  ASSUME NEW x \in Node, NEW y \in Peer(x), msgs'[x][y] = msgs[x][y],
         inbox'[sock[x][y]][y] = inbox[sock[x][y]][y]
  PROVE  LineKept(x, y)
BY DEF LineKept, Line

LEMMA LineTalk ==
  ASSUME Types, NEW x \in Node, NEW y \in Peer(x), sock[x][y] # NoConn,
         NEW a, a = inbox'[sock[x][y]][y], a \in Seq(Message),
         \A db \in Database : After(db, a) = After(db, inbox[sock[x][y]][y]),
         NEW u \in Seq(Message), Lacks(u, DataKind), msgs'[x][y] = msgs[x][y] \o u
  PROVE  LineKept(x, y)
<1> DEFINE b == inbox[sock[x][y]][y]
           m == msgs[x][y]
<1>1. b \in Seq(Message) /\ m \in Seq(Message)
  <2>1. sock[x][y] \in Conn /\ y \in Node
    BY ConnFacts DEF Types, SockTypes, Between
  <2> QED
    BY <2>1 DEF Types, ConnTypes, MsgTypes, PerPeer
<1>2. ASSUME NEW db \in Database
      PROVE  After(db, a \o (m \o u)) = After(db, b \o m)
  <2>0. After(db, a) = After(db, b)
    OBVIOUS
  <2> HIDE DEF m, b
  <2>1. m \o u \in Seq(Message)
    BY <1>1, ConcatProperties
  <2>2. After(db, b) \in Database
    BY <1>1, AfterType
  <2>3. After(db, a \o (m \o u)) = After(After(db, b), m \o u)
    <3> DEFINE z == m \o u
    <3>1. z \in Seq(Message)
      BY <2>1
    <3> HIDE DEF z
    <3>2. After(db, a \o z) = After(After(db, a), z)
      BY <3>1, AfterBoth
    <3> QED
      BY <2>0, <3>2 DEF z
  <2>4. After(After(db, b), m \o u) = After(After(After(db, b), m), u)
    BY <1>1, <2>2, AfterBoth
  <2>5. After(After(After(db, b), m), u) = After(After(db, b), m)
    <3>1. After(After(db, b), m) \in Database
      BY <1>1, <2>2, AfterType
    <3> QED
      BY <3>1, AfterTalk
  <2>6. After(db, b \o m) = After(After(db, b), m)
    BY <1>1, AfterBoth
  <2> QED
    BY <2>3, <2>4, <2>5, <2>6
<1> QED
  BY <1>2 DEF LineKept, Line

\* What a reader takes that is no data does not count.
LEMMA TakeLine ==
  ASSUME Types, NEW n \in Node, NEW p \in Peer(n), Take(n, p), shut' = shut,
         Head(Incoming(n, p)).t # "data",
         NEW x \in Node, NEW y \in Peer(x), sock[x][y] # NoConn
  PROVE  /\ inbox'[sock[x][y]][y] \in Seq(Message)
         /\ \A db \in Database :
              After(db, inbox'[sock[x][y]][y]) = After(db, inbox[sock[x][y]][y])
<1>1. PICK d, c : d = sock[n][p] /\ c = sock[x][y]
  OBVIOUS
<1>2. /\ d \in Conn /\ inbox[d][n] # <<>> /\ Head(inbox[d][n]) \in Message
      /\ Head(inbox[d][n]).t # "data" /\ inbox' = [inbox EXCEPT ![d][n] = Tail(@)]
  BY <1>1, TakeTypes DEF Incoming
<1>3. c \in Conn /\ y \in Node /\ inbox[c][y] \in Seq(Message)
  <2>1. c \in Conn /\ y \in Node
    BY <1>1, ConnFacts DEF Types, SockTypes, Between
  <2> QED
    BY <2>1 DEF Types, ConnTypes
<1>4. inbox'[c][y] = IF c = d /\ y = n THEN Tail(inbox[c][y]) ELSE inbox[c][y]
  BY <1>2, <1>3 DEF Types, ConnTypes
<1>5. CASE c = d /\ y = n
  <2> DEFINE a == inbox[c][y]
  <2>1. a \in Seq(Message) /\ a # <<>> /\ Head(a) \in Message /\ Head(a).t # "data"
        /\ inbox'[c][y] = Tail(a)
    BY <1>2, <1>3, <1>4, <1>5
  <2> HIDE DEF a
  <2>2. Tail(a) \in Seq(Message)
    BY <2>1, HeadTailProperties
  <2>3. \A db \in Database : After(db, a) = After(Effect(db, Head(a)), Tail(a))
    BY <2>1, AfterSmall
  <2>4. \A db : Effect(db, Head(a)) = db
    BY <2>1 DEF Effect
  <2>5. \A db \in Database : After(db, Tail(a)) = After(db, a)
    BY <2>3, <2>4
  <2> QED
    BY <1>1, <2>1, <2>2, <2>5 DEF a
<1>6. CASE ~(c = d /\ y = n)
  BY <1>1, <1>3, <1>4, <1>6
<1> QED
  BY <1>5, <1>6

\* u is added to what x has for y and carries no data.
Chats(x, y, u) == u \in Seq(Message) /\ Lacks(u, DataKind) /\ msgs'[x][y] = msgs[x][y] \o u

LEMMA TakeFollowed ==
  ASSUME Types, AllFollowed, NEW n \in Node, NEW p \in Peer(n), Take(n, p), shut' = shut,
         Head(Incoming(n, p)).t # "data", NEW S, Speaks(n, S), UNCHANGED <<sadb, events, pfq>>,
         \A x \in Node : \A y \in Peer(x) :
           follows'[x][y] => /\ follows[x][y] /\ run'[x] = run[x]
                             /\ sock[x][y] # NoConn => \E u : Chats(x, y, u)
  PROVE  AllFollowed'
<1>1. ASSUME NEW x \in Node, NEW y \in Peer(x), follows'[x][y]
      PROVE  LineKept(x, y)
  <2>1. sock[x][y] # NoConn
    BY <1>1 DEF AllFollowed, Followed, Serves
  <2>2. PICK u : Chats(x, y, u)
    BY <1>1, <2>1
  <2>3. u \in Seq(Message) /\ Lacks(u, DataKind) /\ msgs'[x][y] = msgs[x][y] \o u
    BY <2>2 DEF Chats
  <2>4. PICK a : a = inbox'[sock[x][y]][y]
    OBVIOUS
  <2>5. a \in Seq(Message) /\ \A db \in Database : After(db, a) = After(db, inbox[sock[x][y]][y])
    BY <2>1, <2>4, TakeLine
  <2> QED
    BY <2>1, <2>3, <2>4, <2>5, LineTalk
<1> QED
  BY <1>1, SpeakFollowed

LEMMA SilentTalk ==
  ASSUME Types, NEW x \in Node, NEW y \in Peer(x), msgs'[x][y] = msgs[x][y]
  PROVE  Chats(x, y, <<>>)
<1>1. msgs[x][y] \in Seq(Message) /\ <<>> \in Seq(Message) /\ Len(<<>>) = 0
  BY DEF Types, MsgTypes, PerPeer
<1>2. msgs[x][y] \o <<>> = msgs[x][y]
  BY <1>1, ConcatEmptySeq
<1> QED
  BY <1>1, <1>2 DEF Chats, Lacks

LEMMA EnqueueTalk ==
  ASSUME Types, NEW n \in Node, NEW p \in Peer(n), NEW m \in Message, m.t # "data",
         msgs' = Enqueue(msgs, n, p, <<m>>), NEW x \in Node, NEW y \in Peer(x)
  PROVE  \E u : Chats(x, y, u)
<1>1. CASE sock[n][p] = NoConn \/ x # n \/ y # p
  <2>1. msgs'[x][y] = msgs[x][y]
    BY <1>1 DEF Enqueue, Types, MsgTypes, PerPeer
  <2> QED
    BY <2>1, SilentTalk
<1>2. CASE sock[n][p] # NoConn /\ x = n /\ y = p
  <2>1. msgs'[x][y] = msgs[x][y] \o <<m>>
    BY <1>2 DEF Enqueue, Types, MsgTypes, PerPeer
  <2>2. <<m>> \in Seq(Message) /\ Lacks(<<m>>, DataKind)
    BY DEF Lacks, DataKind
  <2> QED
    BY <2>1, <2>2 DEF Chats
<1> QED
  BY <1>1, <1>2

FollowTypes == PerPeer(follows, BOOLEAN)

LEMMA CheckCarpFollows ==
  ASSUME Types, FollowTypes, NEW n \in Node, NEW S, NEW again, CheckCarp(n, S, again)
  PROVE  /\ FollowTypes'
         /\ \A x \in Node : \A y \in Peer(x) :
              follows'[x][y] => follows[x][y] /\ (x = n => run' = run /\ msgs' = msgs)
<1>1. CASE carp[n] = run[n]
  BY <1>1 DEF CheckCarp, FollowTypes, PerPeer, Peer
<1>2. CASE carp[n] # run[n]
  <2> DEFINE none == [p \in Peer(n) |-> FALSE]
  <2>1. follows' = [follows EXCEPT ![n] = none]
    BY <1>2 DEF CheckCarp
  <2>2. none \in [Peer(n) -> BOOLEAN] /\ \A y \in Peer(n) : ~none[y]
    OBVIOUS
  <2> HIDE DEF none
  <2>3. FollowTypes'
    BY <2>1, <2>2 DEF FollowTypes, PerPeer, Peer
  <2>4. \A x \in Node : \A y \in Peer(x) : follows'[x][y] => follows[x][y] /\ x # n
    BY <2>1, <2>2 DEF FollowTypes, PerPeer
  <2> QED
    BY <2>3, <2>4
<1> QED
  BY <1>1, <1>2

LEMMA CarpTrackerFollowed ==
  ASSUME Types, FollowTypes, AllFollowed, NEW n \in Node, CarpTracker(n)
  PROVE  AllFollowed' /\ FollowTypes'
<1>1. PICK S \in SUBSET Callable(n) : CheckCarp(n, S, {})
  BY DEF CarpTracker
<1>2. UNCHANGED <<up, carp, view, shut, inbox, sadb, events, pfq>> /\ up[n]
  BY DEF CarpTracker, Idle
<1>3. Speaks(n, S)
  BY <1>1, <1>2, CheckCarpSpeaks
<1>4. FollowTypes' /\ \A x \in Node : \A y \in Peer(x) :
        follows'[x][y] => follows[x][y] /\ (x = n => run' = run /\ msgs' = msgs)
  BY <1>1, CheckCarpFollows
<1>5. \A x \in Node : \A y \in Peer(x) :
        follows'[x][y] => follows[x][y] /\ run'[x] = run[x] /\ msgs'[x][y] = msgs[x][y]
  BY <1>3, <1>4 DEF Speaks
<1>6. \A x \in Node : \A y \in Peer(x) :
        follows'[x][y] => follows[x][y] /\ run'[x] = run[x] /\ LineKept(x, y)
  BY <1>2, <1>5, LineSame
<1> QED
  BY <1>2, <1>3, <1>4, <1>6, SpeakFollowed

LEMMA CallsFollowed ==
  ASSUME Types, AllFollowed, NEW n \in Node, NEW S \in SUBSET Callable(n), NEW role \in Role,
         msgs' = Announce(msgs, n, S, role, FALSE), Speaks(n, S),
         UNCHANGED <<run, inbox, sadb, events, pfq, follows>>
  PROVE  AllFollowed'
<1>1. PICK q : q = msgs'
  OBVIOUS
<1>2. Announced(q, n, S, role, FALSE)
  BY <1>1, AnnounceTells
<1>3. ASSUME NEW x \in Node, NEW y \in Peer(x), follows[x][y]
      PROVE  msgs'[x][y] = msgs[x][y]
  <2>1. sock[x][y] # NoConn
    BY <1>3 DEF AllFollowed, Followed, Serves
  <2>2. CASE x # n
    BY <2>2 DEF Speaks
  <2>3. CASE x = n
    <3>1. y \notin S
      BY <2>1, <2>3 DEF Callable
    <3>2. PICK u : q[n][y] = msgs[n][y] \o u /\ u = <<>>
      BY <1>2, <2>3, <3>1 DEF Announced
    <3>3. msgs[n][y] \in Seq(Message)
      BY <2>3 DEF Types, MsgTypes, PerPeer
    <3>4. msgs[n][y] \o <<>> = msgs[n][y]
      BY <3>3, ConcatEmptySeq
    <3> QED
      BY <1>1, <2>3, <3>2, <3>4
  <2> QED
    BY <2>2, <2>3
<1>4. \A x \in Node : \A y \in Peer(x) :
        follows'[x][y] => follows[x][y] /\ run'[x] = run[x] /\ LineKept(x, y)
  BY <1>3, LineSame
<1> QED
  BY <1>4, SpeakFollowed

LEMMA CheckPeersFollowed ==
  ASSUME Types, FollowTypes, AllFollowed, NEW n \in Node, CheckPeers(n)
  PROVE  AllFollowed' /\ FollowTypes'
<1>1. PICK S \in SUBSET Callable(n) :
        Connect(n, S, run[n]) /\ msgs' = Announce(msgs, n, S, run[n], FALSE)
  BY DEF CheckPeers, PeersToCall
<1>2. UNCHANGED <<up, carp, run, view, shut, inbox, promisc, sadb, events, pfq, follows>>
  BY DEF CheckPeers, nodeVars, dataVars
<1>3. Speaks(n, S) /\ run[n] \in Role
  BY <1>1, <1>2, CallingSpeaks DEF Types, NodeTypes
<1>4. AllFollowed'
  BY <1>1, <1>2, <1>3, CallsFollowed
<1> QED
  BY <1>2, <1>4 DEF FollowTypes, PerPeer, Peer

LEMMA StartFollowed ==
  ASSUME Types, FollowTypes, AllFollowed, NEW n \in Node, Start(n)
  PROVE  AllFollowed' /\ FollowTypes'
<1>1. PICK S \in SUBSET Callable(n) :
        Connect(n, S, "INIT") /\ msgs' = Announce(msgs, n, S, "INIT", FALSE)
  BY DEF Start
<1>2. /\ UNCHANGED <<carp, run, view, shut, inbox, promisc, sadb, events, pfq, follows>> /\ ~up[n]
  BY DEF Start, dataVars
<1>3. run[n] = "INIT" /\ "INIT" \in Role
  BY <1>2 DEF Types, NodeTypes, Role
<1>4. Speaks(n, S)
  BY <1>1, <1>2, <1>3, CallingSpeaks
<1>5. AllFollowed'
  BY <1>1, <1>2, <1>3, <1>4, CallsFollowed
<1> QED
  BY <1>2, <1>5 DEF FollowTypes, PerPeer, Peer

\* Where only what nobody of the invariant looks at changes.
LEMMA FlipFollowed ==
  ASSUME Types, FollowTypes, AllFollowed, NEW n \in Node, Flip(n)
  PROVE  AllFollowed' /\ FollowTypes'
<1>1. UNCHANGED <<run, sock, msgs, backlog, shut, inbox, sadb, events, pfq, follows>>
  BY DEF Flip, dataVars
<1>2. Stays(n)
  BY <1>1 DEF Stays
<1>3. Speaks(n, {})
  BY <1>1, <1>2, SilenceSpeaks
<1>4. \A x \in Node : \A y \in Peer(x) :
        follows'[x][y] => follows[x][y] /\ run'[x] = run[x] /\ LineKept(x, y)
  BY <1>1, LineSame
<1>5. AllFollowed'
  BY <1>1, <1>3, <1>4, SpeakFollowed
<1> QED
  BY <1>1, <1>5 DEF FollowTypes, PerPeer, Peer

LEMMA HandleStateFollowed ==
  ASSUME Types, FollowTypes, AllFollowed, NEW n \in Node, NEW p \in Peer(n), HandleState(n, p)
  PROVE  AllFollowed' /\ FollowTypes'
<1> DEFINE m == Head(Incoming(n, p))
<1>1. /\ UNCHANGED <<run, sock, backlog, shut, sadb, events, pfq, follows>>
      /\ Take(n, p) /\ m.t = "state" /\ msgs' = Enqueue(msgs, n, p, Reply(n, m.r))
  BY DEF HandleState, nodeVars, linkVars, dataVars
<1>2. \E a \in Message : a.t # "data" /\ Reply(n, m.r) = <<a>>
  <2>1. run[n] \in Role
    BY DEF Types, NodeTypes
  <2>2. /\ Error("state") \in Message /\ Error("state").t # "data"
        /\ Ack(run[n]) \in Message /\ Ack(run[n]).t # "data"
    BY <2>1, MessageTypes DEF Error, Ack
  <2> QED
    BY <2>2 DEF Reply
<1> HIDE DEF m
<1>3. PICK a \in Message : a.t # "data" /\ msgs' = Enqueue(msgs, n, p, <<a>>)
  BY <1>1, <1>2
<1>4. \A x \in Node : \A y \in Peer(x) : \E u : Chats(x, y, u)
  BY <1>3, EnqueueTalk
<1>5. PICK S : Speaks(n, S)
  BY HandleStateStep DEF HearStep
<1>6. m.t # "data" /\ Take(n, p) /\ shut' = shut
  BY <1>1
<1>7. AllFollowed'
  BY <1>1, <1>4, <1>5, <1>6, TakeFollowed DEF m
<1> QED
  BY <1>1, <1>7 DEF FollowTypes, PerPeer, Peer

LEMMA HandleAckFollowed ==
  ASSUME Types, FollowTypes, AllFollowed, NEW n \in Node, NEW p \in Peer(n), HandleAck(n, p)
  PROVE  AllFollowed' /\ FollowTypes'
<1> DEFINE m == Head(Incoming(n, p))
           e == Error("state")
<1>1. /\ UNCHANGED <<run, sock, backlog, shut, sadb, events, pfq, follows>>
      /\ Take(n, p) /\ m.t = "ack"
      /\ msgs' = Enqueue(msgs, n, p, <<e>>) \/ msgs' = msgs
  BY DEF HandleAck, nodeVars, linkVars, dataVars
<1>2. e \in Message /\ e.t # "data"
  BY MessageTypes DEF Error
<1> HIDE DEF m, e
<1>3. \A x \in Node : \A y \in Peer(x) : \E u : Chats(x, y, u)
  <2>1. CASE msgs' = msgs
    BY <2>1, SilentTalk
  <2>2. CASE msgs' = Enqueue(msgs, n, p, <<e>>)
    BY <1>2, <2>2, EnqueueTalk
  <2> QED
    BY <1>1, <2>1, <2>2
<1>4. PICK S : Speaks(n, S)
  BY HandleAckStep DEF HearStep
<1>5. m.t # "data"
  BY <1>1
<1>6. AllFollowed'
  BY <1>1, <1>3, <1>4, <1>5, TakeFollowed DEF m
<1> QED
  BY <1>1, <1>6 DEF FollowTypes, PerPeer, Peer

LEMMA HandleErrorFollowed ==
  ASSUME Types, FollowTypes, AllFollowed, NEW n \in Node, NEW p \in Peer(n), HandleError(n, p)
  PROVE  AllFollowed' /\ FollowTypes'
<1> DEFINE m == Head(Incoming(n, p))
<1>1. /\ UNCHANGED <<shut, sadb, events, pfq>> /\ Take(n, p) /\ m.t = "error"
      /\ \/ \E S \in SUBSET Callable(n) : CheckCarp(n, S, {p})
         \/ UNCHANGED <<run, msgs, follows>>
  BY DEF HandleError
<1> HIDE DEF m
<1>2. PICK S : Speaks(n, S)
  BY HandleErrorStep DEF HearStep
<1>3. FollowTypes' /\ \A x \in Node : \A y \in Peer(x) :
        follows'[x][y] => follows[x][y] /\ (x = n => run' = run /\ msgs' = msgs)
  <2>1. CASE \E R \in SUBSET Callable(n) : CheckCarp(n, R, {p})
    BY <2>1, CheckCarpFollows
  <2>2. CASE UNCHANGED <<run, msgs, follows>>
    BY <2>2 DEF FollowTypes, PerPeer, Peer
  <2> QED
    BY <1>1, <2>1, <2>2
<1>4. ASSUME NEW x \in Node, NEW y \in Peer(x), follows'[x][y]
      PROVE  follows[x][y] /\ run'[x] = run[x] /\ \E u : Chats(x, y, u)
  <2>1. run'[x] = run[x] /\ msgs'[x][y] = msgs[x][y]
    BY <1>2, <1>3, <1>4 DEF Speaks
  <2> QED
    BY <1>3, <1>4, <2>1, SilentTalk
<1>5. m.t # "data"
  BY <1>1
<1>6. AllFollowed'
  BY <1>1, <1>2, <1>4, <1>5, TakeFollowed DEF m
<1> QED
  BY <1>3, <1>6

-----------------------------------------------------------------------------
(* Steps that move data. *)
LEMMA LineFacts ==
  ASSUME Types, NEW x \in Node, NEW y \in Peer(x), sock[x][y] # NoConn
  PROVE  /\ y \in Node /\ x \in Peer(y) /\ x # y
         /\ sock[x][y] \in Conn /\ Other(sock[x][y], y) = x
         /\ inbox[sock[x][y]][y] \in Seq(Message) /\ msgs[x][y] \in Seq(Message)
         /\ Line(x, y) \in Seq(Message)
<1>1. sock[x][y] \in Conn /\ y \in Node /\ Other(sock[x][y], y) = x /\ x \in Peer(y) /\ x # y
  BY ConnFacts DEF Types, SockTypes
<1>2. inbox[sock[x][y]][y] \in Seq(Message) /\ msgs[x][y] \in Seq(Message)
  BY <1>1 DEF Types, ConnTypes, MsgTypes, PerPeer
<1>3. Line(x, y) \in Seq(Message)
  BY <1>2, ConcatProperties DEF Line
<1> QED
  BY <1>1, <1>2, <1>3

LEMMA StaysWired ==
  ASSUME NEW x \in Node, NEW y \in Peer(x), UNCHANGED <<sock, backlog, shut>>
  PROVE  Wired(x, y)
BY DEF Wired

LEMMA PfkeyWriteFollowed ==
  ASSUME Types, FollowTypes, AllFollowed, NEW n \in Node, PfkeyWrite(n)
  PROVE  AllFollowed' /\ FollowTypes'
<1> DEFINE q == pfq[n]
           h == Head(q)
<1>1. /\ UNCHANGED <<run, sock, backlog, shut, msgs, inbox, events, follows>>
      /\ q # <<>> /\ sadb' = [sadb EXCEPT ![n] = Do(@, h)] /\ pfq' = [pfq EXCEPT ![n] = Tail(@)]
  BY DEF PfkeyWrite, nodeVars, linkVars
<1>2. q \in Seq(Op) /\ h \in Op /\ Tail(q) \in Seq(Op) /\ "MASTER" \in Role
  BY <1>1, DataFacts, HeadTailProperties DEF Role
<1>3. /\ sadb'[n] = Do(sadb[n], h) /\ pfq'[n] = Tail(q)
      /\ \A x \in Node : x # n => sadb'[x] = sadb[x] /\ pfq'[x] = pfq[x]
  BY <1>1 DEF Types, DataTypes
<1> HIDE DEF h
<1>4. After(sadb'[n], AsData(pfq'[n], "MASTER")) = After(sadb[n], AsData(pfq[n], "MASTER"))
  <2> DEFINE s == AsData(q, "MASTER")
  <2>1. s \in Seq(Message) /\ s # <<>> /\ Head(s) = Data(h, "MASTER") /\ Tail(s) = AsData(Tail(q), "MASTER")
    BY <1>1, <1>2, AsDataFacts, AsDataSteps DEF h
  <2>2. sadb[n] \in Database
    BY DataFacts
  <2> HIDE DEF s
  <2>3. After(sadb[n], s) = After(Effect(sadb[n], Head(s)), Tail(s))
    BY <2>1, <2>2, AfterSmall
  <2>4. Effect(sadb[n], Head(s)) = Do(sadb[n], h)
    BY <2>1 DEF Effect, Data
  <2> QED
    BY <1>3, <2>1, <2>3, <2>4 DEF s
<1>5. ASSUME NEW x \in Node, NEW y \in Peer(x)
      PROVE  Followed(x, y)'
  <2>1. SUFFICES ASSUME follows[x][y]
                 PROVE  Serves(x, y)' /\ Leads(x, y)'
    BY <1>1 DEF Followed
  <2>2. Serves(x, y) /\ Leads(x, y) /\ Followed(x, y)
    BY <2>1 DEF AllFollowed, Followed
  <2>3. x # n
    BY <1>1, <2>2 DEF Serves, AtRest
  <2>4. sadb'[x] = sadb[x] /\ pfq'[x] = pfq[x] /\ y \in Node
    BY <1>3, <2>3 DEF Peer
  <2>5. Serves(x, y)'
    BY <1>1, <2>2, <2>4 DEF Serves, AtRest
  <2>6. After(sadb'[y], AsData(pfq'[y], "MASTER")) = After(sadb[y], AsData(pfq[y], "MASTER"))
    BY <1>3, <1>4, <2>4
  <2>7. Leads(x, y)'
    BY <1>1, <2>2, <2>4, <2>6 DEF Leads, Final, Line, Database
  <2> QED
    BY <2>5, <2>7
<1>6. AllFollowed'
  BY <1>5 DEF AllFollowed, Peer
<1> QED
  BY <1>1, <1>6 DEF FollowTypes, PerPeer, Peer

\* A pair whose line is led on to what its MASTER has now is followed.
LEMMA StillLeads ==
  ASSUME Types, Types', NEW x \in Node, NEW y \in Peer(x), Serves(x, y), Leads(x, y),
         UNCHANGED <<sock, backlog>>, sadb'[y] = sadb[y], pfq'[y] = pfq[y],
         \A db \in Database : Final(x, y, db) = sadb[x] => Final(x, y, db)' = sadb'[x]
  PROVE  Leads(x, y)'
<1>1. y \in Node
  BY DEF Peer
<1>2. PICK d : d = After(sadb[y], AsData(pfq[y], "MASTER"))
  OBVIOUS
<1>3. d \in Database /\ d = After(sadb[y], AsData(pfq[y], "MASTER"))'
  BY <1>1, <1>2, DataFacts
<1>4. \A db : Final(x, y, db)' = After(After(db, Line(x, y)'), AsData(events[x], "MASTER")')
  BY DEF Final
<1>5. CASE sock[y][x] = sock[x][y] /\ Final(x, y, d) = sadb[x]
  <2>1. Final(x, y, d)' = sadb'[x]
    BY <1>3, <1>5
  <2>2. Final(x, y, After(sadb[y], AsData(pfq[y], "MASTER")))' = sadb'[x]
    BY <1>3, <1>4, <2>1 DEF Final
  <2> QED
    BY <1>5, <2>2 DEF Leads
<1>6. CASE sock[x][y] \in Range(backlog[y]) /\ \A db \in Database : Final(x, y, db) = sadb[x]
  BY <1>6 DEF Leads, Database
<1> QED
  BY <1>2, <1>5, <1>6 DEF Leads

\* The oldest event leaves the kernel for the line, or the daemon ignores it.
LEMMA ShiftFinal ==
  ASSUME NEW l \in Seq(Message), NEW a \in Seq(Message), a # <<>>, NEW db \in Database
  PROVE  After(After(db, Append(l, Head(a))), Tail(a)) = After(After(db, l), a)
<1>1. PICK d : d = After(db, l)
  OBVIOUS
<1>2. d \in Database /\ Head(a) \in Message
  BY <1>1, AfterType, HeadTailProperties
<1>3. After(db, Append(l, Head(a))) = Effect(d, Head(a))
  BY <1>1, <1>2, AfterSmall
<1>4. After(d, a) = After(Effect(d, Head(a)), Tail(a))
  BY <1>2, AfterSmall
<1> QED
  BY <1>1, <1>3, <1>4

LEMMA AppendLine ==
  ASSUME NEW i \in Seq(Message), NEW s \in Seq(Message), NEW m \in Message
  PROVE  i \o Append(s, m) = Append(i \o s, m)
OBVIOUS

LEMMA PfkeyReadFollowed ==
  ASSUME Types, FollowTypes, AllFollowed, NEW n \in Node, PfkeyRead(n)
  PROVE  AllFollowed' /\ FollowTypes'
<1> DEFINE ev == events[n]
           h == Head(ev)
           m == Data(h, "MASTER")
           a == AsData(ev, "MASTER")
<1>1. /\ UNCHANGED <<run, sock, backlog, shut, inbox, sadb, pfq, follows>>
      /\ ev # <<>> /\ events' = [events EXCEPT ![n] = Tail(ev)]
      /\ msgs' = IF run[n] = "MASTER" /\ Synced(h)
                 THEN [msgs EXCEPT ![n] = [p \in Peer(n) |->
                         IF sock[n][p] = NoConn THEN @[p] ELSE Append(@[p], m)]]
                 ELSE msgs
  BY DEF PfkeyRead, nodeVars, linkVars
<1>2. /\ ev \in Seq(Op) /\ h \in Op /\ Tail(ev) \in Seq(Op) /\ m \in Message
      /\ a \in Seq(Message) /\ a # <<>> /\ Head(a) = m /\ Tail(a) = AsData(Tail(ev), "MASTER")
      /\ Tail(a) \in Seq(Message)
  <2>1. ev \in Seq(Op) /\ h \in Op /\ Tail(ev) \in Seq(Op) /\ "MASTER" \in Role
    BY <1>1, DataFacts, HeadTailProperties DEF Role
  <2>2. m \in Message
    BY <2>1, MessageTypes
  <2>3. a \in Seq(Message) /\ a # <<>> /\ Head(a) = m /\ Tail(a) = AsData(Tail(ev), "MASTER")
    BY <1>1, <2>1, AsDataFacts, AsDataSteps
  <2> HIDE DEF a
  <2>4. Tail(a) \in Seq(Message)
    BY <2>3, HeadTailProperties
  <2> QED
    BY <2>1, <2>2, <2>3, <2>4
<1>3. /\ events'[n] = Tail(ev) /\ \A x \in Node : x # n => events'[x] = events[x]
      /\ \A x \in Node : \A y \in Peer(x) : x # n => msgs'[x][y] = msgs[x][y]
      /\ \A y \in Peer(n) : run[n] = "MASTER" /\ Synced(h) /\ sock[n][y] # NoConn =>
           msgs'[n][y] = Append(msgs[n][y], m)
  BY <1>1 DEF Types, DataTypes, MsgTypes, PerPeer
<1>4. Types'
  BY PfkeyReadStep
<1> HIDE DEF m, h
<1>5. ASSUME NEW y \in Peer(n), follows[n][y]
      PROVE  Followed(n, y)'
  <2>1. Serves(n, y) /\ Leads(n, y)
    BY <1>5 DEF AllFollowed, Followed
  <2>2. run[n] = "MASTER" /\ Synced(h) /\ sock[n][y] # NoConn
    BY <2>1 DEF Serves, Synced
  <2>3. msgs'[n][y] = Append(msgs[n][y], m)
    BY <1>3, <2>2
  <2> DEFINE i == inbox[sock[n][y]][y]
             s == msgs[n][y]
  <2>4. i \in Seq(Message) /\ s \in Seq(Message) /\ i \o s \in Seq(Message) /\ Line(n, y) = i \o s
    BY <2>2, LineFacts DEF Line
  <2>5. Line(n, y)' = Append(i \o s, m)
    <3>1. i \o Append(s, m) = Append(i \o s, m)
      <4> HIDE DEF i, s
      <4> QED
        BY <1>2, <2>4, AppendLine
    <3> QED
      BY <1>1, <2>3, <3>1 DEF Line
  <2> DEFINE l == i \o s
  <2> HIDE DEF i, s, a
  <2>6. ASSUME NEW db \in Database
        PROVE  Final(n, y, db)' = Final(n, y, db)
    <3>1. l \in Seq(Message)
      BY <2>4
    <3> HIDE DEF l
    <3>2. After(After(db, Append(l, Head(a))), Tail(a)) = After(After(db, l), a)
      BY <1>2, <3>1, ShiftFinal
    <3>3. Final(n, y, db) = After(After(db, l), a)
      BY <2>4 DEF Final, l, a
    <3>4. Final(n, y, db)' = After(After(db, Append(l, m)), Tail(a))
      BY <1>2, <1>3, <2>5 DEF Final, l
    <3> QED
      BY <1>2, <3>2, <3>3, <3>4
  <2>7. y \in Node /\ sadb' = sadb /\ pfq' = pfq
    BY <1>1 DEF Peer
  <2>8. Leads(n, y)'
    BY <1>1, <1>4, <2>1, <2>6, <2>7, StillLeads
  <2>9. AtRest(n)'
    <3>1. pfq[n] = <<>> /\ After(sadb[n], a) = sadb[n] /\ sadb[n] \in Database
      BY <2>1, DataFacts DEF Serves, AtRest, a
    <3>2. After(sadb[n], Tail(a)) = sadb[n]
      BY <1>2, <3>1, LaterEvents
    <3> QED
      BY <1>2, <1>3, <2>7, <3>1, <3>2 DEF AtRest
  <2> QED
    BY <1>1, <2>1, <2>8, <2>9 DEF Serves, Followed
<1>6. ASSUME NEW x \in Node, NEW y \in Peer(x), x # n
      PROVE  Followed(x, y)'
  <2>1. LineKept(x, y)
    BY <1>1, <1>3, <1>6, LineSame
  <2>2. Wired(x, y)
    BY <1>1, StaysWired
  <2>3. SameData(x, y)
    BY <1>1, <1>3, <1>6 DEF SameData
  <2> QED
    BY <1>1, <2>1, <2>2, <2>3, StaysFollowed DEF AllFollowed
<1>7. \A x \in Node : \A y \in Peer(x) : Followed(x, y)'
  BY <1>1, <1>5, <1>6 DEF Followed
<1> QED
  BY <1>1, <1>7 DEF AllFollowed, FollowTypes, PerPeer, Peer

LEMMA KernelChangeFollowed ==
  ASSUME Types, Watch, FollowTypes, AllFollowed, NEW n \in Node, KernelChange(n)
  PROVE  AllFollowed' /\ FollowTypes'
<1>1. PICK op \in Op :
        /\ UNCHANGED <<run, sock, backlog, shut, inbox, msgs, pfq, promisc>>
        /\ sadb' = [sadb EXCEPT ![n] = Do(@, op)]
        /\ events' = IF up[n] /\ promisc[n] THEN [events EXCEPT ![n] = Append(@, op)] ELSE events
        /\ follows' = [p \in Node |-> [follows[p] EXCEPT ![n] = FALSE]]
  BY DEF KernelChange, nodeVars, linkVars
<1>2. /\ sadb'[n] = Do(sadb[n], op)
      /\ \A x \in Node : x # n => sadb'[x] = sadb[x] /\ events'[x] = events[x]
      /\ up[n] /\ promisc[n] => events'[n] = Append(events[n], op)
  BY <1>1 DEF Types, DataTypes
<1>3. FollowTypes' /\ \A x \in Node : \A y \in Peer(x) : follows'[x][y] => follows[x][y] /\ y # n
  <2>1. \A x \in Node : \A y \in Peer(x) :
          /\ follows'[x] = [follows[x] EXCEPT ![n] = FALSE]
          /\ follows[x] \in [Peer(x) -> BOOLEAN]
    BY <1>1 DEF FollowTypes, PerPeer
  <2>2. \A x \in Node : follows'[x] \in [Peer(x) -> BOOLEAN]
    <3> SUFFICES ASSUME NEW x \in Node
                 PROVE  follows'[x] \in [Peer(x) -> BOOLEAN]
      OBVIOUS
    <3>1. follows'[x] = [follows[x] EXCEPT ![n] = FALSE] /\ follows[x] \in [Peer(x) -> BOOLEAN]
      BY <1>1 DEF FollowTypes, PerPeer
    <3> QED
      BY <3>1
  <2>3. DOMAIN follows' = Node
    BY <1>1
  <2> QED
    BY <2>1, <2>2, <2>3 DEF FollowTypes, PerPeer, Peer
<1>4. Types'
  BY KernelChangeStep
<1>5. ASSUME NEW y \in Peer(n), follows'[n][y]
      PROVE  Followed(n, y)'
  <2>1. Serves(n, y) /\ Leads(n, y)
    BY <1>3, <1>5 DEF AllFollowed, Followed
  <2>2. run[n] = "MASTER" /\ up[n] /\ promisc[n]
    BY <2>1 DEF Serves, Watch, Types, NodeTypes
  <2>3. events'[n] = Append(events[n], op) /\ "MASTER" \in Role
    BY <1>2, <2>2 DEF Role
  <2> DEFINE a == AsData(events[n], "MASTER")
             m == Data(op, "MASTER")
  <2>4. events[n] \in Seq(Op) /\ sadb[n] \in Database /\ a \in Seq(Message)
    BY DataFacts
  <2>5. m \in Message /\ AsData(events'[n], "MASTER") = Append(a, m)
    BY <2>3, <2>4, AsDataSteps, MessageTypes
  <2>6. \A d : Effect(d, m) = Do(d, op)
    BY DEF Effect, Data
  <2>7. Line(n, y)' = Line(n, y) /\ Line(n, y) \in Seq(Message)
    BY <1>1, <2>1, LineFacts DEF Line, Serves
  <2>8. After(sadb'[n], Append(a, m)) = sadb'[n]
    <3>1. After(sadb[n], a) = sadb[n]
      BY <2>1 DEF Serves, AtRest
    <3> HIDE DEF a
    <3>2. After(Do(sadb[n], op), Append(a, m)) = Do(sadb[n], op)
      BY <2>3, <2>4, <3>1, OneMoreEvent
    <3> QED
      BY <1>2, <3>2
  <2>9. AtRest(n)'
    BY <1>1, <2>1, <2>5, <2>8 DEF Serves, AtRest
  <2> HIDE DEF m
  <2>10. ASSUME NEW db \in Database, Final(n, y, db) = sadb[n]
         PROVE  Final(n, y, db)' = sadb'[n]
    <3>1. PICK d : d = After(db, Line(n, y))
      OBVIOUS
    <3>2. d \in Database
      BY <2>7, <3>1, AfterType
    <3>3. After(d, a) = sadb[n]
      BY <2>10, <3>1 DEF Final
    <3>4. Final(n, y, db)' = After(d, Append(a, m))
      BY <2>5, <2>7, <3>1 DEF Final
    <3> HIDE DEF a
    <3>5. After(d, Append(a, m)) = Effect(After(d, a), m)
      BY <2>4, <2>5, <3>2, AfterSmall
    <3> QED
      BY <1>2, <2>6, <3>3, <3>4, <3>5
  <2>11. y \in Node /\ y # n
    BY DEF Peer
  <2>12. sadb'[y] = sadb[y] /\ pfq'[y] = pfq[y]
    BY <1>1, <1>2, <2>11
  <2>13. Leads(n, y)'
    BY <1>1, <1>4, <2>1, <2>10, <2>12, StillLeads
  <2> QED
    BY <1>1, <2>1, <2>9, <2>13 DEF Serves, Followed
<1>6. ASSUME NEW x \in Node, NEW y \in Peer(x), x # n, follows'[x][y]
      PROVE  Followed(x, y)'
  <2>1. LineKept(x, y)
    BY <1>1, LineSame
  <2>2. Wired(x, y)
    BY <1>1, StaysWired
  <2>3. y # n /\ y \in Node /\ follows[x][y]
    BY <1>3, <1>6 DEF Peer
  <2>4. SameData(x, y)
    BY <1>1, <1>2, <1>6, <2>3 DEF SameData
  <2> QED
    BY <1>1, <2>1, <2>2, <2>3, <2>4, StaysFollowed DEF AllFollowed
<1>7. \A x \in Node : \A y \in Peer(x) : Followed(x, y)'
  BY <1>5, <1>6 DEF Followed
<1> QED
  BY <1>3, <1>7 DEF AllFollowed

\* Who is led has the connection, or has it waiting.
LEMMA LedRefers ==
  ASSUME Types, NEW x \in Node, NEW y \in Peer(x), Serves(x, y), Leads(x, y)
  PROVE  Refers(y, sock[x][y])
<1>1. Other(sock[x][y], y) = x
  BY LineFacts DEF Serves
<1> QED
  BY <1>1 DEF Leads, Refers

\* A snapshot makes any database the MASTER's.
LEMMA SnapshotFollowed ==
  ASSUME Types, FollowTypes, AllFollowed, NEW n \in Node, NEW p \in Peer(n), Snapshot(n, p)
  PROVE  AllFollowed' /\ FollowTypes'
<1> DEFINE u == AsData(SnapshotOps(sadb[n]), run[n])
           starts == FlushMode = "startup" /\ run[n] = "MASTER" /\ Reaches(n, p) /\ AtRest(n)
<1>1. /\ UNCHANGED <<run, sock, backlog, shut, inbox, sadb, events, pfq>>
      /\ msgs' = Enqueue(msgs, n, p, u)
      /\ follows' = [follows EXCEPT ![n][p] = @ \/ starts]
  BY DEF Snapshot, nodeVars, linkVars, dataVars
<1> HIDE DEF u
<1>2. /\ \A x \in Node : \A y \in Peer(x) : x # n \/ y # p =>
           msgs'[x][y] = msgs[x][y] /\ follows'[x][y] = follows[x][y]
      /\ sock[n][p] # NoConn => msgs'[n][p] = msgs[n][p] \o u
      /\ follows'[n][p] = (follows[n][p] \/ starts)
  BY <1>1 DEF Enqueue, Types, MsgTypes, PerPeer, FollowTypes
<1>3. FollowTypes'
  <2>1. follows[n][p] \/ starts \in BOOLEAN
    OBVIOUS
  <2> HIDE DEF starts
  <2> QED
    BY <1>1, <2>1 DEF FollowTypes, PerPeer, Peer
<1>4. ASSUME follows'[n][p]
      PROVE  Followed(n, p)'
  <2>1. Serves(n, p) /\ Refers(p, sock[n][p])
    <3>1. CASE follows[n][p]
      BY <3>1, LedRefers DEF AllFollowed, Followed
    <3>2. CASE starts
      BY <3>2 DEF Reaches, Serves
    <3> QED
      BY <1>2, <1>4, <3>1, <3>2
  <2>2. Serves(n, p)'
    BY <1>1, <2>1 DEF Serves, AtRest
  <2> DEFINE l == Line(n, p)
             a == AsData(events[n], "MASTER")
  <2>3. /\ l \in Seq(Message) /\ p \in Node /\ Other(sock[n][p], p) = n
        /\ inbox[sock[n][p]][p] \in Seq(Message) /\ msgs[n][p] \in Seq(Message)
    BY <2>1, LineFacts DEF Serves
  <2>4. sadb[n] \in Database /\ IsFiniteSet(sadb[n]) /\ run[n] \in Role /\ After(sadb[n], a) = sadb[n]
    BY <2>1, DataFacts DEF Serves, AtRest, Types, NodeTypes
  <2>5. u \in Seq(Message) /\ \A db \in Database : After(db, u) = sadb[n]
    <3>0. FlushMode = "startup"
      BY <2>1 DEF Serves
    <3>1. PICK D : D = sadb[n]
      OBVIOUS
    <3>2. PICK r : r = run[n]
      OBVIOUS
    <3>3. u = AsData(SnapshotOps(D), r) /\ D \in Database /\ IsFiniteSet(D) /\ r \in Role
      BY <2>4, <3>1, <3>2 DEF u
    <3>4. SnapshotOps(D) \in Seq(Op)
      <4>1. Contents(D) \in Seq(Op)
        BY <3>3, ContentsFacts
      <4>2. Flush \in Op
        BY DEF Op
      <4> QED
        BY <4>1, <4>2 DEF SnapshotOps
    <3>5. u \in Seq(Message)
      BY <3>3, <3>4, AsDataFacts
    <3>6. ASSUME NEW db \in Database
          PROVE  After(db, u) = D
      BY <3>0, <3>3, SnapshotMakes
    <3> QED
      BY <3>1, <3>5, <3>6
  <2>6. Line(n, p)' = l \o u
    <3>1. msgs'[n][p] = msgs[n][p] \o u
      BY <1>2, <2>1 DEF Serves
    <3>2. inbox[sock[n][p]][p] \o (msgs[n][p] \o u) = (inbox[sock[n][p]][p] \o msgs[n][p]) \o u
      <4> DEFINE i == inbox[sock[n][p]][p]
                 s == msgs[n][p]
      <4>1. i \in Seq(Message) /\ s \in Seq(Message)
        BY <2>3
      <4> HIDE DEF i, s
      <4>2. i \o (s \o u) = (i \o s) \o u
        BY <2>5, <4>1, StreamFacts
      <4> QED
        BY <4>2 DEF i, s
    <3> QED
      BY <1>1, <3>1, <3>2 DEF Line
  <2>7. ASSUME NEW db \in Database
        PROVE  Final(n, p, db)' = sadb'[n]
    <3> HIDE DEF l
    <3>1. After(db, l) \in Database
      BY <2>3, AfterType
    <3>2. After(db, l \o u) = After(After(db, l), u)
      BY <2>3, <2>5, AfterBoth
    <3>3. After(db, l \o u) = sadb[n]
      BY <2>5, <3>1, <3>2
    <3> QED
      BY <1>1, <2>4, <2>6, <3>3 DEF Final
  <2>8. Leads(n, p)'
    <3>1. PICK d : d = After(sadb[p], AsData(pfq[p], "MASTER"))
      OBVIOUS
    <3>2. d \in Database /\ d = After(sadb[p], AsData(pfq[p], "MASTER"))'
      BY <1>1, <2>3, <3>1, DataFacts
    <3>3. \A db : Final(n, p, db)' = After(After(db, Line(n, p)'), AsData(events[n], "MASTER")')
      BY DEF Final
    <3>4. Final(n, p, After(sadb[p], AsData(pfq[p], "MASTER")))' = sadb'[n]
      BY <2>7, <3>2, <3>3 DEF Final
    <3>5. sock[p][n] = sock[n][p] \/ sock[n][p] \in Range(backlog[p])
      BY <2>1, <2>3 DEF Refers
    <3> QED
      BY <1>1, <2>7, <3>4, <3>5 DEF Leads, Database
  <2> QED
    BY <2>2, <2>8 DEF Followed
<1>5. ASSUME NEW x \in Node, NEW y \in Peer(x), x # n \/ y # p
      PROVE  Followed(x, y)'
  <2>1. LineKept(x, y)
    BY <1>1, <1>2, <1>5, LineSame
  <2>2. Wired(x, y) /\ SameData(x, y)
    BY <1>1, StaysWired DEF SameData
  <2> QED
    BY <1>1, <1>2, <1>5, <2>1, <2>2, StaysFollowed DEF AllFollowed
<1>6. \A x \in Node : \A y \in Peer(x) : Followed(x, y)'
  BY <1>4, <1>5 DEF Followed
<1> QED
  BY <1>3, <1>6 DEF AllFollowed

LEMMA SendFollowed ==
  ASSUME Types, FollowTypes, AllFollowed, NEW n \in Node, NEW p \in Peer(n), Send(n, p)
  PROVE  AllFollowed' /\ FollowTypes'
<1>1. PICK c : c = sock[n][p]
  OBVIOUS
<1>2. /\ UNCHANGED <<run, sock, backlog, shut, sadb, events, pfq, follows>>
      /\ c # NoConn /\ msgs[n][p] # <<>> /\ msgs' = [msgs EXCEPT ![n][p] = Tail(@)]
      /\ inbox' = IF Refers(p, c) /\ shut[c] = {}
                  THEN [inbox EXCEPT ![c][p] = Append(@, Head(msgs[n][p]))]
                  ELSE inbox
  BY <1>1 DEF Send, Writable, nodeVars, linkVars, dataVars
<1>3. c \in Conn /\ p \in Node /\ inbox[c][p] \in Seq(Message) /\ msgs[n][p] \in Seq(Message)
  BY <1>1, <1>2, LineFacts
<1>4. \A x \in Node : \A y \in Peer(x) :
        msgs'[x][y] = IF x = n /\ y = p THEN Tail(msgs[n][p]) ELSE msgs[x][y]
  BY <1>2, ShiftTypes
<1>5. /\ Refers(p, c) /\ shut[c] = {} => inbox'[c][p] = Append(inbox[c][p], Head(msgs[n][p]))
      /\ \A e \in Conn : \A y \in Node : e # c \/ y # p => inbox'[e][y] = inbox[e][y]
  BY <1>2, <1>3 DEF Types, ConnTypes
<1>6. ASSUME follows[n][p]
      PROVE  LineKept(n, p)
  <2>1. Refers(p, c) /\ shut[c] = {}
    BY <1>1, <1>6, LedRefers DEF AllFollowed, Followed, Serves
  <2> DEFINE i == inbox[c][p]
             s == msgs[n][p]
  <2>2. inbox'[c][p] = Append(i, Head(s)) /\ msgs'[n][p] = Tail(s)
    BY <1>4, <1>5, <2>1
  <2>3. Append(i, Head(s)) \o Tail(s) = i \o s
    <3>1. i \in Seq(Message) /\ s \in Seq(Message) /\ s # <<>>
      BY <1>2, <1>3
    <3> HIDE DEF i, s
    <3> QED
      BY <3>1, StreamFacts
  <2> QED
    BY <1>1, <2>2, <2>3 DEF LineKept, Line
<1>7. ASSUME NEW x \in Node, NEW y \in Peer(x), follows[x][y]
      PROVE  LineKept(x, y)
  <2>1. CASE x = n /\ y = p
    BY <1>6, <1>7, <2>1
  <2>2. CASE ~(x = n /\ y = p)
    <3>1. sock[x][y] \in Conn /\ y \in Node
      BY <1>7, LineFacts DEF AllFollowed, Followed, Serves
    <3>2. ~(sock[x][y] = c /\ y = p)
      <4> SUFFICES ASSUME sock[x][y] = c, y = p
                   PROVE  FALSE
        OBVIOUS
      <4>1. (n = c[1] /\ p = c[2]) \/ (n = c[2] /\ p = c[1])
        BY <1>1, <1>3, ReferFacts
      <4>2. (x = c[1] /\ y = c[2]) \/ (x = c[2] /\ y = c[1])
        BY <1>3, ReferFacts
      <4> QED
        BY <2>2, <4>1, <4>2
    <3>3. inbox'[sock[x][y]][y] = inbox[sock[x][y]][y] /\ msgs'[x][y] = msgs[x][y]
      BY <1>4, <1>5, <2>2, <3>1, <3>2
    <3> QED
      BY <3>3, LineSame
  <2> QED
    BY <2>1, <2>2
<1>8. ASSUME NEW x \in Node, NEW y \in Peer(x)
      PROVE  Followed(x, y)'
  <2>1. Wired(x, y) /\ SameData(x, y)
    BY <1>2, StaysWired DEF SameData
  <2> QED
    BY <1>2, <1>7, <2>1, StaysFollowed DEF AllFollowed
<1> QED
  BY <1>2, <1>8 DEF AllFollowed, FollowTypes, PerPeer, Peer

\* The next message of a line is applied.
LEMMA TakenData ==
  ASSUME NEW i \in Seq(Message), i # <<>>, Head(i).t = "data", NEW s \in Seq(Message),
         NEW db \in Database, NEW q \in Seq(Op)
  PROVE  LET X == After(db, AsData(q, "MASTER")) IN
         After(After(db, AsData(Append(q, Head(i).op), "MASTER")), Tail(i) \o s) = After(X, i \o s)
<1> DEFINE m == Head(i)
           A == AsData(q, "MASTER")
           X == After(db, A)
           w == Data(m.op, "MASTER")
           l == i \o s
<1>1. m \in Message /\ m.t = "data" /\ m.op \in Op /\ "MASTER" \in Role
  <2>1. m \in Message
    BY HeadTailProperties
  <2> QED
    BY <2>1, MessageTypes DEF Role
<1>2. A \in Seq(Message) /\ w \in Message /\ AsData(Append(q, m.op), "MASTER") = Append(A, w)
  BY <1>1, AsDataFacts, AsDataSteps, MessageTypes
<1>3. l \in Seq(Message) /\ l # <<>> /\ Head(l) = m /\ Tail(l) = Tail(i) \o s
  BY StreamFacts
<1>4. \A d : Effect(d, w) = Do(d, m.op) /\ Effect(d, m) = Do(d, m.op)
  BY <1>1 DEF Effect, Data
<1> HIDE DEF m, A, w, l
<1>5. X \in Database
  BY <1>2, AfterType
<1>6. After(db, Append(A, w)) = Effect(X, w)
  BY <1>2, AfterSmall
<1> HIDE DEF X
<1>7. After(X, l) = After(Effect(X, m), Tail(l))
  BY <1>3, <1>5, AfterSmall
<1>8. After(After(db, AsData(Append(q, m.op), "MASTER")), Tail(i) \o s) = After(X, l)
  BY <1>2, <1>3, <1>4, <1>6, <1>7
<1> QED
  BY <1>8 DEF X, A, l, m

LEMMA TrustedDataFollowed ==
  ASSUME Types, FollowTypes, AllFollowed, NEW n \in Node, NEW p \in Peer(n), HandleData(n, p),
         Trusts(n, p)
  PROVE  AllFollowed' /\ FollowTypes'
<1> DEFINE m == Head(Incoming(n, p))
<1>1. PICK d : d = sock[n][p]
  OBVIOUS
<1>2. /\ UNCHANGED <<run, sock, backlog, shut, sadb, events, msgs>>
      /\ Take(n, p) /\ m.t = "data" /\ run[n] # "MASTER"
      /\ pfq' = [pfq EXCEPT ![n] = Append(pfq[n], m.op)]
      /\ follows' = [q \in Node |-> [follows[q] EXCEPT ![n] = q = p /\ @]]
  BY DEF HandleData, nodeVars, linkVars, Queued, Trusts
<1>3. /\ d \in Conn /\ inbox[d][n] # <<>> /\ m = Head(inbox[d][n])
      /\ inbox' = [inbox EXCEPT ![d][n] = Tail(@)]
  BY <1>1, <1>2, TakeTypes DEF Incoming
<1> HIDE DEF m
<1>4. /\ pfq'[n] = Append(pfq[n], m.op) /\ \A x \in Node : x # n => pfq'[x] = pfq[x]
      /\ inbox'[d][n] = Tail(inbox[d][n])
      /\ \A e \in Conn : \A y \in Node : e # d \/ y # n => inbox'[e][y] = inbox[e][y]
  BY <1>2, <1>3 DEF Types, DataTypes, ConnTypes
<1>5. FollowTypes' /\ \A x \in Node : \A y \in Peer(x) :
        follows'[x][y] => follows[x][y] /\ (y = n => x = p)
  <2>1. \A x \in Node : /\ follows'[x] = [follows[x] EXCEPT ![n] = x = p /\ @]
                        /\ follows[x] \in [Peer(x) -> BOOLEAN]
    BY <1>2 DEF FollowTypes, PerPeer
  <2>2. ASSUME NEW x \in Node
        PROVE  /\ follows'[x] \in [Peer(x) -> BOOLEAN]
               /\ \A y \in Peer(x) : follows'[x][y] => follows[x][y] /\ (y = n => x = p)
    <3>1. follows'[x] = [y \in Peer(x) |-> IF y = n THEN x = p /\ follows[x][y] ELSE follows[x][y]]
      BY <2>1
    <3>2. \A y \in Peer(x) : follows[x][y] \in BOOLEAN
      BY <2>1
    <3> QED
      BY <3>1, <3>2
  <2>3. DOMAIN follows' = Node
    BY <1>2
  <2> QED
    BY <2>2, <2>3 DEF FollowTypes, PerPeer, Peer
<1>6. p \in Node /\ n \in Peer(p) /\ n # p
  BY ConnFacts
<1>7. ASSUME NEW x \in Node, NEW y \in Peer(x), x # n, y # n, follows[x][y]
      PROVE  Followed(x, y)'
  <2>1. sock[x][y] \in Conn /\ y \in Node
    BY <1>7, LineFacts DEF AllFollowed, Followed, Serves
  <2>2. LineKept(x, y)
    BY <1>2, <1>4, <1>7, <2>1, LineSame
  <2>3. Wired(x, y) /\ SameData(x, y)
    BY <1>2, <1>4, <1>7, <2>1, StaysWired DEF SameData
  <2> QED
    BY <1>2, <1>7, <2>2, <2>3, StaysFollowed DEF AllFollowed
<1>8. ASSUME follows[p][n]
      PROVE  Followed(p, n)'
  <2>1. Serves(p, n) /\ Leads(p, n)
    BY <1>6, <1>8 DEF AllFollowed, Followed
  <2>2. Serves(p, n)'
    BY <1>2, <1>4, <1>6, <2>1 DEF Serves, AtRest
  <2>3. PICK c : c = sock[p][n]
    OBVIOUS
  <2> DEFINE i == inbox[c][n]
             s == msgs[p][n]
             a == AsData(events[p], "MASTER")
             X == After(sadb[n], AsData(pfq[n], "MASTER"))
  <2>4. c \in Conn /\ i \in Seq(Message) /\ s \in Seq(Message)
    BY <1>6, <2>1, <2>3, LineFacts DEF Serves
  <2>5. sadb[n] \in Database /\ pfq[n] \in Seq(Op) /\ X \in Database
    BY DataFacts
  <2>6. \A db : Final(p, n, db) = After(After(db, i \o s), a)
    BY <2>3 DEF Final, Line
  <2>7. \A db : Final(p, n, db)' = After(After(db, inbox'[c][n] \o s), a)
    BY <1>2, <2>3 DEF Final, Line
  <2>8. CASE d = c
    <3>1. sock[n][p] = c /\ Final(p, n, X) = sadb[p]
      BY <1>1, <2>1, <2>5, <2>8 DEF Leads
    <3>2. After(After(sadb[n], AsData(Append(pfq[n], m.op), "MASTER")), Tail(i) \o s)
            = After(X, i \o s)
      <4>1. i # <<>> /\ m = Head(i) /\ m.t = "data"
        BY <1>2, <1>3, <2>8
      <4> HIDE DEF i, s
      <4> QED
        BY <2>4, <2>5, <4>1, TakenData
    <3>3. PICK Y : Y = After(sadb[n], AsData(Append(pfq[n], m.op), "MASTER"))
      OBVIOUS
    <3>4. Y = After(sadb[n], AsData(pfq[n], "MASTER"))'
      BY <1>2, <1>4, <3>3
    <3>5. inbox'[c][n] = Tail(i)
      BY <1>4, <2>8
    <3>6. After(After(Y, inbox'[c][n] \o s), a) = After(After(X, i \o s), a)
      BY <3>2, <3>3, <3>5
    <3>7. Final(p, n, After(sadb[n], AsData(pfq[n], "MASTER")))' = sadb'[p]
      <4>1. Final(p, n, After(sadb[n], AsData(pfq[n], "MASTER")))' = After(After(Y, inbox'[c][n] \o s), a)
        BY <1>2, <2>3, <3>4 DEF Final, Line
      <4> QED
        BY <1>2, <2>6, <3>1, <3>6, <4>1
    <3> QED
      BY <1>2, <2>2, <2>3, <3>1, <3>7 DEF Leads, Followed
  <2>9. CASE d # c
    <3>1. c \in Range(backlog[n]) /\ \A db \in Database : Final(p, n, db) = sadb[p]
      BY <1>1, <2>1, <2>3, <2>9 DEF Leads
    <3>2. inbox'[c][n] = i
      BY <1>4, <2>4, <2>9
    <3>3. \A db \in Database : Final(p, n, db)' = sadb'[p]
      BY <1>2, <2>6, <2>7, <3>1, <3>2
    <3> QED
      BY <1>2, <2>2, <2>3, <3>1, <3>3 DEF Leads, Followed, Database
  <2> QED
    BY <2>8, <2>9
<1>9. ASSUME NEW x \in Node, NEW y \in Peer(x), follows'[x][y]
      PROVE  Followed(x, y)'
  <2>1. follows[x][y] /\ (y = n => x = p) /\ Serves(x, y)
    BY <1>5, <1>9 DEF AllFollowed, Followed
  <2>2. x # n
    BY <1>2, <2>1 DEF Serves
  <2> QED
    BY <1>7, <1>8, <2>1, <2>2
<1>10. \A x \in Node : \A y \in Peer(x) : Followed(x, y)'
  BY <1>9 DEF Followed
<1> QED
  BY <1>5, <1>10 DEF AllFollowed

LEMMA DroppedDataFollowed ==
  ASSUME Types, FollowTypes, AllFollowed, NEW n \in Node, NEW p \in Peer(n), HandleData(n, p),
         ~Trusts(n, p)
  PROVE  AllFollowed' /\ FollowTypes'
<1>1. PICK d : d = sock[n][p]
  OBVIOUS
<1>2. /\ UNCHANGED <<run, sock, backlog, shut, sadb, events, pfq>> /\ Take(n, p)
      /\ \E a \in {State("MASTER"), Error("data")} : msgs' = Enqueue(msgs, n, p, <<a>>)
      /\ follows' = [follows EXCEPT ![p][n] = FALSE]
  BY DEF HandleData, nodeVars, linkVars
<1>3. /\ d \in Conn /\ inbox' = [inbox EXCEPT ![d][n] = Tail(@)]
  BY <1>1, <1>2, TakeTypes
<1>4. \A e \in Conn : \A y \in Node : e # d \/ y # n => inbox'[e][y] = inbox[e][y]
  BY <1>3 DEF Types, ConnTypes
<1>5. FollowTypes' /\ \A x \in Node : \A y \in Peer(x) :
        follows'[x][y] => follows[x][y] /\ ~(x = p /\ y = n)
  <2>1. p \in Node /\ n \in Peer(p)
    BY ConnFacts
  <2> QED
    BY <1>2, <2>1 DEF FollowTypes, PerPeer, Peer
<1>6. PICK a \in {State("MASTER"), Error("data")} : msgs' = Enqueue(msgs, n, p, <<a>>)
  BY <1>2
<1>7. a \in Message /\ a.t # "data"
  BY MessageTypes DEF State, Error, Role
<1>8. ASSUME NEW x \in Node, NEW y \in Peer(x), follows'[x][y]
      PROVE  LineKept(x, y)
  <2>1. follows[x][y] /\ ~(x = p /\ y = n) /\ sock[x][y] # NoConn
    BY <1>5, <1>8 DEF AllFollowed, Followed, Serves
  <2>2. sock[x][y] \in Conn /\ y \in Node /\ inbox[sock[x][y]][y] \in Seq(Message)
    BY <2>1, LineFacts
  <2>3. ~(sock[x][y] = d /\ y = n)
    <3> SUFFICES ASSUME sock[x][y] = d, y = n
                 PROVE  FALSE
      OBVIOUS
    <3>1. (n = d[1] /\ p = d[2]) \/ (n = d[2] /\ p = d[1])
      BY <1>1, <1>3, ReferFacts
    <3>2. (x = d[1] /\ y = d[2]) \/ (x = d[2] /\ y = d[1])
      BY <1>3, ReferFacts
    <3>3. d[1] # d[2]
      BY <1>3, ConnFacts
    <3> QED
      BY <2>1, <3>1, <3>2, <3>3
  <2>4. PICK b : b = inbox'[sock[x][y]][y]
    OBVIOUS
  <2>5. b = inbox[sock[x][y]][y]
    BY <1>4, <2>2, <2>3, <2>4
  <2>6. PICK u : Chats(x, y, u)
    BY <1>6, <1>7, EnqueueTalk
  <2>7. u \in Seq(Message) /\ Lacks(u, DataKind) /\ msgs'[x][y] = msgs[x][y] \o u
    BY <2>6 DEF Chats
  <2>8. b \in Seq(Message) /\ \A db \in Database : After(db, b) = After(db, inbox[sock[x][y]][y])
    BY <2>2, <2>5
  <2> QED
    BY <2>1, <2>4, <2>7, <2>8, LineTalk
<1>9. ASSUME NEW x \in Node, NEW y \in Peer(x)
      PROVE  Followed(x, y)'
  <2>1. Wired(x, y) /\ SameData(x, y)
    BY <1>2, StaysWired DEF SameData
  <2> QED
    BY <1>2, <1>5, <1>8, <2>1, StaysFollowed DEF AllFollowed
<1> QED
  BY <1>5, <1>9 DEF AllFollowed, Peer

-----------------------------------------------------------------------------
(* Steps that lose or replace a connection. *)
LEMMA UnlinkedFacts ==
  ASSUME FollowTypes, NEW n \in Node, NEW p \in Peer(n), NEW f, f = Unlinked(n, p)
  PROVE  /\ PerPeer(f, BOOLEAN)
         /\ \A x \in Node : \A y \in Peer(x) :
              f[x][y] => follows[x][y] /\ ~(x = n /\ y = p) /\ ~(x = p /\ y = n)
<1>1. p \in Node /\ n \in Peer(p) /\ n # p
  BY ConnFacts
<1> DEFINE g == [follows EXCEPT ![n][p] = FALSE]
<1>2. f = [g EXCEPT ![p][n] = FALSE]
  BY DEF Unlinked
<1>3. PerPeer(g, BOOLEAN) /\ \A x \in Node : \A y \in Peer(x) :
        g[x][y] => follows[x][y] /\ ~(x = n /\ y = p)
  BY DEF FollowTypes, PerPeer, Peer
<1> HIDE DEF g
<1>4. \A x \in Node : f[x] = IF x = p THEN [g[p] EXCEPT ![n] = FALSE] ELSE g[x]
  BY <1>1, <1>2, <1>3 DEF PerPeer
<1>5. DOMAIN f = Node
  BY <1>2, <1>3 DEF PerPeer
<1>6. ASSUME NEW x \in Node
      PROVE  f[x] \in [Peer(x) -> BOOLEAN]
  <2>1. g[x] \in [Peer(x) -> BOOLEAN]
    BY <1>3 DEF PerPeer
  <2>2. CASE x # p
    BY <1>4, <2>1, <2>2
  <2>3. CASE x = p
    <3>1. f[x] = [g[x] EXCEPT ![n] = FALSE]
      BY <1>4, <2>3
    <3> QED
      BY <2>1, <3>1
  <2> QED
    BY <2>2, <2>3
<1>7. \A x \in Node : \A y \in Peer(x) : f[x][y] => g[x][y] /\ ~(x = p /\ y = n)
  BY <1>1, <1>3, <1>4 DEF PerPeer
<1> QED
  BY <1>3, <1>5, <1>6, <1>7 DEF PerPeer

\* The connection of one pair is not that of another.
LEMMA OtherPair ==
  ASSUME Types, NEW n \in Node, NEW p \in Peer(n), NEW c \in Between(n, p),
         NEW x \in Node, NEW y \in Peer(x), ~(x = n /\ y = p) /\ ~(x = p /\ y = n)
  PROVE  sock[x][y] # c /\ sock[y][x] # c
<1>1. c \in Conn /\ {c[1], c[2]} = {n, p} /\ c \in Between(n, p) /\ c # NoConn
  BY ConnFacts DEF Between
<1>2. y \in Node /\ x \in Peer(y)
  BY ConnFacts
<1>3. ASSUME sock[x][y] = c
      PROVE  FALSE
  <2>1. (x = c[1] /\ y = c[2]) \/ (x = c[2] /\ y = c[1])
    BY <1>1, <1>3, ReferFacts
  <2> QED
    BY <1>1, <2>1
<1>4. ASSUME sock[y][x] = c
      PROVE  FALSE
  <2>1. (y = c[1] /\ x = c[2]) \/ (y = c[2] /\ x = c[1])
    BY <1>1, <1>2, <1>4, ReferFacts
  <2> QED
    BY <1>1, <2>1
<1> QED
  BY <1>3, <1>4

LEMMA CutFollowed ==
  ASSUME Types, Wires, FollowTypes, AllFollowed, NEW n \in Node, NEW p \in Peer(n),
         Disconnect(n, p), UNCHANGED <<run, sadb, events, pfq>>,
         \A x \in Node : \A y \in Peer(x) : x # n \/ y # p => msgs'[x][y] = msgs[x][y]
  PROVE  AllFollowed' /\ FollowTypes'
<1>1. PICK d : d = sock[n][p]
  OBVIOUS
<1>2. /\ sock' = [sock EXCEPT ![n][p] = NoConn] /\ LetGo(d, n, TRUE)
      /\ follows' = Unlinked(n, p) /\ backlog' = backlog
  BY <1>1 DEF Disconnect
<1>3. LetsGo(n, p, d, TRUE)
  BY <1>1, <1>2, LetGoFacts
<1>4. FollowTypes' /\ \A x \in Node : \A y \in Peer(x) :
        follows'[x][y] => follows[x][y] /\ ~(x = n /\ y = p) /\ ~(x = p /\ y = n)
  <2>1. PICK f : f = follows'
    OBVIOUS
  <2>2. PerPeer(f, BOOLEAN) /\ \A x \in Node : \A y \in Peer(x) :
          f[x][y] => follows[x][y] /\ ~(x = n /\ y = p) /\ ~(x = p /\ y = n)
    BY <1>2, <2>1, UnlinkedFacts
  <2> QED
    BY <2>1, <2>2 DEF FollowTypes, PerPeer, Peer
<1>5. ASSUME NEW x \in Node, NEW y \in Peer(x), follows'[x][y]
      PROVE  Followed(x, y)'
  <2>1. follows[x][y] /\ Serves(x, y) /\ ~(x = n /\ y = p) /\ ~(x = p /\ y = n)
    BY <1>4, <1>5 DEF AllFollowed, Followed
  <2>2. sock[x][y] \in Conn /\ y \in Node /\ x \in Peer(y) /\ sock[x][y] # NoConn
    BY <2>1, LineFacts DEF Serves
  <2>3. sock[x][y] # d
    <3>1. CASE d = NoConn
      BY <2>2, <3>1
    <3>2. CASE d # NoConn
      <4>1. d \in Between(n, p)
        BY <1>1, <3>2 DEF Types, SockTypes
      <4> QED
        BY <2>1, <4>1, OtherPair
    <3> QED
      BY <3>1, <3>2
  <2>4. inbox'[sock[x][y]] = inbox[sock[x][y]] /\ shut'[sock[x][y]] = shut[sock[x][y]]
    BY <1>3, <2>2, <2>3 DEF LetsGo
  <2>5. sock'[x][y] = sock[x][y] /\ sock'[y][x] = sock[y][x]
    BY <1>2, <2>1, <2>2 DEF Types, SockTypes, PerPeer
  <2>6. LineKept(x, y)
    BY <2>1, <2>4, LineSame
  <2>7. Wired(x, y) /\ SameData(x, y)
    BY <1>2, <2>4, <2>5 DEF Wired, SameData
  <2> QED
    BY <2>1, <2>6, <2>7, StaysFollowed DEF AllFollowed
<1>6. \A x \in Node : \A y \in Peer(x) : Followed(x, y)'
  BY <1>5 DEF Followed
<1> QED
  BY <1>4, <1>6 DEF AllFollowed

LEMMA ReadEndFollowed ==
  ASSUME Types, Wires, FollowTypes, AllFollowed, NEW n \in Node, NEW p \in Peer(n), ReadEnd(n, p)
  PROVE  AllFollowed' /\ FollowTypes'
<1>1. Disconnect(n, p) /\ UNCHANGED <<run, sadb, events, pfq>> /\ msgs' = msgs
  BY DEF ReadEnd, nodeVars, dataVars
<1> QED
  BY <1>1, CutFollowed

LEMMA SendFailsFollowed ==
  ASSUME Types, Wires, FollowTypes, AllFollowed, NEW n \in Node, NEW p \in Peer(n), SendFails(n, p)
  PROVE  AllFollowed' /\ FollowTypes'
<1>1. /\ Disconnect(n, p) /\ UNCHANGED <<run, sadb, events, pfq>>
      /\ msgs[n][p] # <<>> /\ msgs' = [msgs EXCEPT ![n][p] = Tail(@)]
  BY DEF SendFails, Writable, nodeVars, dataVars
<1>2. \A x \in Node : \A y \in Peer(x) : x # n \/ y # p => msgs'[x][y] = msgs[x][y]
  BY <1>1, ShiftTypes
<1> QED
  BY <1>1, <1>2, CutFollowed

LEMMA BreakFollowed ==
  ASSUME Types, FollowTypes, AllFollowed, NEW c \in Conn, Break(c)
  PROVE  AllFollowed' /\ FollowTypes'
<1>1. PICK n, p : n = c[1] /\ p = c[2]
  OBVIOUS
<1>2. n \in Node /\ p \in Peer(n) /\ c \in Between(n, p)
  BY <1>1, ConnFacts
<1>3. /\ UNCHANGED <<run, sock, msgs, backlog, sadb, events, pfq>>
      /\ shut' = [shut EXCEPT ![c] = {c[1], c[2]}] /\ inbox' = [inbox EXCEPT ![c] = Quiet]
      /\ follows' = Unlinked(n, p)
  BY <1>1 DEF Break, nodeVars, dataVars
<1>4. FollowTypes' /\ \A x \in Node : \A y \in Peer(x) :
        follows'[x][y] => follows[x][y] /\ ~(x = n /\ y = p) /\ ~(x = p /\ y = n)
  <2>1. PICK f : f = follows'
    OBVIOUS
  <2>2. PerPeer(f, BOOLEAN) /\ \A x \in Node : \A y \in Peer(x) :
          f[x][y] => follows[x][y] /\ ~(x = n /\ y = p) /\ ~(x = p /\ y = n)
    BY <1>2, <1>3, <2>1, UnlinkedFacts
  <2> QED
    BY <2>1, <2>2 DEF FollowTypes, PerPeer, Peer
<1>5. ASSUME NEW x \in Node, NEW y \in Peer(x), follows'[x][y]
      PROVE  Followed(x, y)'
  <2>1. follows[x][y] /\ Serves(x, y) /\ ~(x = n /\ y = p) /\ ~(x = p /\ y = n)
    BY <1>4, <1>5 DEF AllFollowed, Followed
  <2>2. sock[x][y] \in Conn
    BY <2>1, LineFacts DEF Serves
  <2>3. sock[x][y] # c
    BY <1>2, <2>1, OtherPair
  <2>4. inbox'[sock[x][y]] = inbox[sock[x][y]] /\ shut'[sock[x][y]] = shut[sock[x][y]]
    BY <1>3, <2>2, <2>3 DEF Types, ConnTypes
  <2>5. LineKept(x, y)
    BY <1>3, <2>4, LineSame
  <2>6. Wired(x, y) /\ SameData(x, y)
    BY <1>3, <2>4 DEF Wired, SameData
  <2> QED
    BY <1>3, <2>1, <2>5, <2>6, StaysFollowed DEF AllFollowed
<1>6. \A x \in Node : \A y \in Peer(x) : Followed(x, y)'
  BY <1>5 DEF Followed
<1> QED
  BY <1>4, <1>6 DEF AllFollowed

LEMMA DieFollowed ==
  ASSUME Types, FollowTypes, AllFollowed, NEW n \in Node, Die(n)
  PROVE  AllFollowed' /\ FollowTypes'
<1>1. Resets(n)
  BY DieTypes
<1>2. /\ sadb' = sadb /\ events' = [events EXCEPT ![n] = <<>>] /\ pfq' = [pfq EXCEPT ![n] = <<>>]
      /\ follows' = [p \in Node |-> [q \in Peer(p) |-> n \notin {p, q} /\ follows[p][q]]]
  BY DEF Die
<1>3. FollowTypes' /\ \A x \in Node : \A y \in Peer(x) :
        follows'[x][y] => follows[x][y] /\ x # n /\ y # n
  <2>1. \A x \in Node : follows'[x] = [q \in Peer(x) |-> n \notin {x, q} /\ follows[x][q]]
    BY <1>2
  <2>2. \A x \in Node : \A y \in Peer(x) : follows'[x][y] = (n \notin {x, y} /\ follows[x][y])
    BY <2>1
  <2>3. \A x \in Node : follows'[x] \in [Peer(x) -> BOOLEAN]
    BY <2>1
  <2>4. DOMAIN follows' = Node
    BY <1>2
  <2> QED
    BY <2>2, <2>3, <2>4 DEF FollowTypes, PerPeer, Peer
<1>4. ASSUME NEW x \in Node, NEW y \in Peer(x), follows'[x][y]
      PROVE  Followed(x, y)'
  <2>1. follows[x][y] /\ x # n /\ y # n /\ Serves(x, y)
    BY <1>3, <1>4 DEF AllFollowed, Followed
  <2>2. PICK c : c = sock[x][y]
    OBVIOUS
  <2>3. c \in Conn /\ c \in Between(x, y) /\ y \in Node
    BY <2>1, <2>2, LineFacts DEF Serves, Types, SockTypes
  <2>4. n \notin {c[1], c[2]}
    BY <2>1, <2>3 DEF Between
  <2>5. inbox'[c] = inbox[c] /\ shut'[c] = shut[c]
    BY <1>1, <2>3, <2>4 DEF Resets, Orphaned
  <2>6. /\ run'[x] = run[x] /\ sock'[x] = sock[x] /\ sock'[y] = sock[y]
        /\ msgs'[x][y] = msgs[x][y] /\ backlog'[y] = backlog[y]
    BY <1>1, <2>1, <2>3 DEF Resets, Types, NodeTypes, SockTypes, MsgTypes, PerPeer
  <2>7. LineKept(x, y)
    BY <2>2, <2>5, <2>6, LineSame
  <2>8. Wired(x, y)
    BY <2>2, <2>5, <2>6 DEF Wired
  <2>9. SameData(x, y)
    BY <1>2, <2>1, <2>3 DEF SameData, Types, DataTypes
  <2> QED
    BY <2>1, <2>6, <2>7, <2>8, <2>9, StaysFollowed DEF AllFollowed
<1>5. \A x \in Node : \A y \in Peer(x) : Followed(x, y)'
  BY <1>4 DEF Followed
<1> QED
  BY <1>3, <1>5 DEF AllFollowed

\* A connection that is accepted takes the place of the one before.
LEMMA AcceptFollowed ==
  ASSUME Types, Wires, FollowTypes, AllFollowed, NEW n \in Node, Accept(n)
  PROVE  AllFollowed' /\ FollowTypes'
<1>1. PICK p, d, e : Accepts(n, p, d, e)
  BY AcceptFacts
<1>2. /\ d \in Conn /\ p = d[1] /\ n = d[2] /\ e = sock[n][p] /\ e # d /\ p \in Peer(n)
      /\ LetGo(e, n, FALSE) /\ UNCHANGED <<run, msgs>>
      /\ \A x \in Node : \A y \in Peer(x) : sock'[x][y] = IF x = n /\ y = p THEN d ELSE sock[x][y]
      /\ \A c \in Conn : c # d => (Waits(c)' <=> Waits(c))
  BY <1>1 DEF Accepts
<1>3. UNCHANGED <<sadb, events, pfq>> /\ p \in Node /\ n \in Peer(p) /\ n # p
  BY <1>2, ConnFacts DEF Accept, dataVars
<1>4. follows' = [Unlinked(n, p) EXCEPT ![p][n] = follows[p][n] /\ sock[p][n] = d]
  <2>1. PICK c, q : c = Head(backlog[n]) /\ q = Other(c, n)
    OBVIOUS
  <2>2. /\ sock' = [sock EXCEPT ![n][q] = c]
        /\ follows' = [Unlinked(n, q) EXCEPT ![q][n] = follows[q][n] /\ sock[q][n] = c]
    BY <2>1 DEF Accept
  <2>3. DOMAIN sock = Node /\ DOMAIN sock[n] = Peer(n)
    BY DEF Types, SockTypes, PerPeer
  <2>4. sock'[n][p] = d /\ sock'[n][p] # sock[n][p]
    BY <1>2
  <2>5. q = p
    BY <1>2, <2>2, <2>3, <2>4
  <2>6. c = d
    BY <1>2, <2>2, <2>3, <2>4, <2>5
  <2> QED
    BY <2>2, <2>5, <2>6
<1>5. FollowTypes' /\ \A x \in Node : \A y \in Peer(x) :
        follows'[x][y] => /\ follows[x][y] /\ ~(x = n /\ y = p)
                          /\ x = p /\ y = n => sock[p][n] = d
  <2> DEFINE b == follows[p][n] /\ sock[p][n] = d
  <2>1. PICK f : f = Unlinked(n, p)
    OBVIOUS
  <2>2. PerPeer(f, BOOLEAN) /\ \A x \in Node : \A y \in Peer(x) :
          f[x][y] => follows[x][y] /\ ~(x = n /\ y = p) /\ ~(x = p /\ y = n)
    BY <1>2, <2>1, UnlinkedFacts
  <2>3. follows' = [f EXCEPT ![p][n] = b] /\ b \in BOOLEAN /\ (b => follows[p][n] /\ sock[p][n] = d)
    BY <1>4, <2>1
  <2> HIDE DEF b
  <2>4. \A x \in Node : follows'[x] = IF x = p THEN [f[p] EXCEPT ![n] = b] ELSE f[x]
    BY <1>3, <2>2, <2>3 DEF PerPeer
  <2>5. ASSUME NEW x \in Node
        PROVE  /\ follows'[x] \in [Peer(x) -> BOOLEAN]
               /\ \A y \in Peer(x) : follows'[x][y] = IF x = p /\ y = n THEN b ELSE f[x][y]
    <3>1. f[x] \in [Peer(x) -> BOOLEAN]
      BY <2>2 DEF PerPeer
    <3>2. CASE x # p
      BY <2>4, <3>1, <3>2
    <3>3. CASE x = p
      <4>1. follows'[x] = [f[x] EXCEPT ![n] = b]
        BY <2>4, <3>3
      <4> QED
        BY <2>3, <3>1, <3>3, <4>1
    <3> QED
      BY <3>2, <3>3
  <2>6. DOMAIN follows' = Node
    BY <2>2, <2>3 DEF PerPeer
  <2>7. FollowTypes'
    BY <2>5, <2>6 DEF FollowTypes, PerPeer, Peer
  <2>8. ASSUME NEW x \in Node, NEW y \in Peer(x), follows'[x][y]
        PROVE  /\ follows[x][y] /\ ~(x = n /\ y = p)
               /\ x = p /\ y = n => sock[p][n] = d
    <3>1. CASE x = p /\ y = n
      BY <1>3, <2>3, <2>5, <2>8, <3>1
    <3>2. CASE ~(x = p /\ y = n)
      BY <2>2, <2>5, <2>8, <3>2
    <3> QED
      BY <3>1, <3>2
  <2> QED
    BY <2>7, <2>8
<1>6. LetsGo(n, p, e, FALSE)
  BY <1>2, LetGoFacts
<1>7. ASSUME NEW x \in Node, NEW y \in Peer(x), follows[x][y],
             ~(x = n /\ y = p) /\ ~(x = p /\ y = n)
      PROVE  Followed(x, y)'
  <2>1. Serves(x, y)
    BY <1>7 DEF AllFollowed, Followed
  <2>2. PICK c : c = sock[x][y]
    OBVIOUS
  <2>3. c \in Conn /\ c \in Between(x, y) /\ y \in Node /\ x \in Peer(y)
    BY <2>1, <2>2, LineFacts DEF Serves, Types, SockTypes
  <2>4. c # e /\ c # d
    <3>1. d \in Between(n, p)
      BY <1>2, ConnFacts
    <3>2. e = NoConn \/ e \in Between(n, p)
      BY <1>2 DEF Types, SockTypes
    <3>3. c # NoConn
      BY <2>3, ConnFacts
    <3> QED
      BY <1>2, <1>7, <2>2, <3>1, <3>2, <3>3, OtherPair
  <2>5. inbox'[c] = inbox[c] /\ shut'[c] = shut[c]
    BY <1>6, <2>3, <2>4 DEF LetsGo
  <2>6. sock'[x][y] = sock[x][y] /\ sock'[y][x] = sock[y][x]
    BY <1>2, <1>7, <2>3
  <2>7. c \in Range(backlog[y]) => c \in Range(backlog'[y])
    <3> SUFFICES ASSUME c \in Range(backlog[y])
                 PROVE  c \in Range(backlog'[y])
      OBVIOUS
    <3>1. c[2] = y
      BY <2>3 DEF Types, SockTypes
    <3>2. Waits(c)
      BY <3>1 DEF Waits
    <3>3. Waits(c)'
      BY <1>2, <2>3, <2>4, <3>2
    <3> QED
      BY <3>1, <3>3 DEF Waits
  <2>8. LineKept(x, y)
    BY <1>2, <2>2, <2>5, LineSame
  <2>9. Wired(x, y) /\ SameData(x, y)
    BY <1>3, <2>2, <2>5, <2>6, <2>7 DEF Wired, SameData
  <2> QED
    BY <1>2, <1>7, <2>8, <2>9, StaysFollowed DEF AllFollowed
<1>8. ASSUME follows[p][n], sock[p][n] = d
      PROVE  Followed(p, n)'
  <2>1. Serves(p, n) /\ Leads(p, n)
    BY <1>3, <1>8 DEF AllFollowed, Followed
  <2>2. \A db \in Database : Final(p, n, db) = sadb[p]
    BY <1>2, <1>8, <2>1 DEF Leads
  <2>3. inbox'[d] = inbox[d] /\ shut'[d] = shut[d]
    BY <1>2, <1>6 DEF LetsGo
  <2>4. sock'[p][n] = d /\ sock'[n][p] = d
    BY <1>2, <1>3, <1>8
  <2>5. Serves(p, n)'
    BY <1>2, <1>3, <1>8, <2>1, <2>3, <2>4 DEF Serves, AtRest
  <2>6. After(sadb[n], AsData(pfq[n], "MASTER")) \in Database
    BY DataFacts
  <2>7. Final(p, n, After(sadb[n], AsData(pfq[n], "MASTER"))) = sadb[p]
    BY <2>2, <2>6
  <2>8. Final(p, n, After(sadb[n], AsData(pfq[n], "MASTER")))' = sadb'[p]
    BY <1>2, <1>3, <1>8, <2>3, <2>4, <2>7 DEF Final, Line
  <2> QED
    BY <2>4, <2>5, <2>8 DEF Leads, Followed
<1>9. ASSUME NEW x \in Node, NEW y \in Peer(x), follows'[x][y]
      PROVE  Followed(x, y)'
  BY <1>5, <1>7, <1>8, <1>9
<1>10. \A x \in Node : \A y \in Peer(x) : Followed(x, y)'
  BY <1>9 DEF Followed
<1> QED
  BY <1>5, <1>10 DEF AllFollowed

\* A MASTER has asked its kernel for all messages.
LEMMA StepWatches ==
  ASSUME Types, Watch, Next
  PROVE  Watch'
<1>1. ASSUME NEW n \in Node, NEW S, NEW again, CheckCarp(n, S, again)
      PROVE  Watch'
  <2>1. CASE carp[n] = run[n]
    BY <1>1, <2>1 DEF CheckCarp, Watch
  <2>2. CASE carp[n] # run[n]
    <3>1. /\ run' = [run EXCEPT ![n] = carp[n]]
          /\ promisc' = [promisc EXCEPT ![n] = @ \/ carp[n] = "MASTER"]
      BY <1>1, <2>2 DEF CheckCarp
    <3> QED
      BY <3>1 DEF Watch, Types, NodeTypes
  <2> QED
    BY <2>1, <2>2
<1>2. ASSUME UNCHANGED <<run, promisc>>
      PROVE  Watch'
  BY <1>2 DEF Watch
<1>3. ASSUME NEW n \in Node, Daemon(n)
      PROVE  Watch'
  <2>1. CASE CarpTracker(n)
    BY <1>1, <2>1 DEF CarpTracker
  <2>2. CASE CheckPeers(n) \/ Accept(n) \/ PfkeyRead(n) \/ PfkeyWrite(n)
    <3>1. UNCHANGED <<run, promisc>>
      BY <2>2 DEF CheckPeers, Accept, PfkeyRead, PfkeyWrite, nodeVars, dataVars
    <3> QED
      BY <1>2, <3>1
  <2>3. ASSUME NEW p \in Peer(n), HandleError(n, p)
        PROVE  Watch'
    BY <1>1, <1>2, <2>3 DEF HandleError
  <2>4. ASSUME NEW p \in Peer(n),
               \/ ReadEnd(n, p) \/ Send(n, p) \/ SendFails(n, p) \/ Snapshot(n, p)
               \/ HandleState(n, p) \/ HandleAck(n, p) \/ HandleData(n, p)
        PROVE  Watch'
    <3>1. UNCHANGED <<run, promisc>>
      BY <2>4 DEF ReadEnd, Send, SendFails, Snapshot, HandleState, HandleAck, HandleData,
                  nodeVars, dataVars
    <3> QED
      BY <1>2, <3>1
  <2> QED
    BY <1>3, <2>1, <2>2, <2>3, <2>4 DEF Daemon
<1>4. ASSUME NEW n \in Node, Die(n)
      PROVE  Watch'
  <2>1. run' = [run EXCEPT ![n] = "INIT"] /\ promisc' = [promisc EXCEPT ![n] = FALSE]
    BY <1>4 DEF Die
  <2> QED
    BY <2>1 DEF Watch, Types, NodeTypes
<1>5. ASSUME NEW n \in Node, Start(n) \/ Flip(n) \/ KernelChange(n)
      PROVE  Watch'
  <2>1. UNCHANGED <<run, promisc>>
    BY <1>5 DEF Start, Flip, KernelChange, nodeVars, dataVars
  <2> QED
    BY <1>2, <2>1
<1>6. ASSUME NEW c \in Conn, Break(c)
      PROVE  Watch'
  <2>1. UNCHANGED <<run, promisc>>
    BY <1>6 DEF Break, nodeVars, dataVars
  <2> QED
    BY <1>2, <2>1
<1> QED
  BY <1>3, <1>4, <1>5, <1>6 DEF Next, World

LEMMA StepFollowed ==
  ASSUME Types, Wires, Watch, FollowTypes, AllFollowed, Next
  PROVE  AllFollowed' /\ FollowTypes'
<1>1. ASSUME NEW n \in Node, Daemon(n)
      PROVE  AllFollowed' /\ FollowTypes'
  <2>1. CASE CarpTracker(n) \/ CheckPeers(n) \/ Accept(n) \/ PfkeyRead(n) \/ PfkeyWrite(n)
    BY <2>1, CarpTrackerFollowed, CheckPeersFollowed, AcceptFollowed, PfkeyReadFollowed,
       PfkeyWriteFollowed
  <2>2. ASSUME NEW p \in Peer(n), ReadEnd(n, p) \/ Send(n, p) \/ SendFails(n, p) \/ Snapshot(n, p)
        PROVE  AllFollowed' /\ FollowTypes'
    BY <2>2, ReadEndFollowed, SendFollowed, SendFailsFollowed, SnapshotFollowed
  <2>3. ASSUME NEW p \in Peer(n), HandleState(n, p) \/ HandleAck(n, p) \/ HandleError(n, p)
        PROVE  AllFollowed' /\ FollowTypes'
    BY <2>3, HandleStateFollowed, HandleAckFollowed, HandleErrorFollowed
  <2>4. ASSUME NEW p \in Peer(n), HandleData(n, p)
        PROVE  AllFollowed' /\ FollowTypes'
    BY <2>4, TrustedDataFollowed, DroppedDataFollowed
  <2> QED
    BY <1>1, <2>1, <2>2, <2>3, <2>4 DEF Daemon
<1>2. ASSUME NEW n \in Node, Start(n) \/ Flip(n) \/ KernelChange(n) \/ Die(n)
      PROVE  AllFollowed' /\ FollowTypes'
  BY <1>2, StartFollowed, FlipFollowed, KernelChangeFollowed, DieFollowed
<1>3. ASSUME NEW c \in Conn, Break(c)
      PROVE  AllFollowed' /\ FollowTypes'
  BY <1>3, BreakFollowed
<1> QED
  BY <1>1, <1>2, <1>3 DEF Next, World

LEMMA InitFollows ==
  ASSUME Init
  PROVE  Watch /\ FollowTypes /\ AllFollowed
<1>1. /\ run = [n \in Node |-> "INIT"]
      /\ follows = [n \in Node |-> [p \in Peer(n) |-> FALSE]]
  BY DEF Init
<1>2. \A n \in Node : \A p \in Peer(n) : ~follows[n][p]
  BY <1>1
<1>3. \A n \in Node : follows[n] \in [Peer(n) -> BOOLEAN]
  BY <1>1
<1> QED
  BY <1>1, <1>2, <1>3 DEF Watch, FollowTypes, PerPeer, AllFollowed, Followed

LEMMA FollowedFollows ==
  ASSUME Types, AllFollowed
  PROVE  SlaveFollows
<1> SUFFICES ASSUME NEW n \in Node, NEW p \in Peer(n), follows[n][p]
             PROVE  After(sadb[p], Underway(n, p)) = sadb[n]
  BY DEF SlaveFollows
<1>1. Serves(n, p) /\ Leads(n, p)
  BY DEF AllFollowed, Followed
<1> DEFINE a == AsData(pfq[p], "MASTER")
           i == inbox[sock[n][p]][p]
           s == msgs[n][p]
           e == AsData(events[n], "MASTER")
           X == After(sadb[p], a)
<1>2. i \in Seq(Message) /\ s \in Seq(Message) /\ p \in Node
  BY <1>1, LineFacts DEF Serves
<1>3. sadb[p] \in Database /\ a \in Seq(Message) /\ e \in Seq(Message) /\ X \in Database
  BY <1>2, DataFacts
<1>4. Final(n, p, X) = sadb[n]
  BY <1>1, <1>3 DEF Leads
<1>5. Final(n, p, X) = After(After(X, i \o s), e)
  BY DEF Final, Line
<1>6. Underway(n, p) = a \o i \o s \o e
  BY DEF Underway
<1>7. After(sadb[p], a) = X
  OBVIOUS
<1> HIDE DEF a, i, s, e, X
<1>8. After(sadb[p], a \o i \o s \o e) = After(After(X, i \o s), e)
  <2> DEFINE v == a \o i
             w == v \o s
  <2>1. v \in Seq(Message) /\ w \in Seq(Message)
    BY <1>2, <1>3, ConcatProperties
  <2>2. After(sadb[p], v) = After(X, i)
    BY <1>2, <1>3, <1>7, AfterBoth
  <2>3. After(X, i \o s) = After(After(X, i), s)
    BY <1>2, <1>3, AfterBoth
  <2> HIDE DEF v
  <2>4. After(sadb[p], w) = After(After(sadb[p], v), s)
    BY <1>2, <1>3, <2>1, AfterBoth
  <2> HIDE DEF w
  <2>5. After(sadb[p], w \o e) = After(After(sadb[p], w), e)
    BY <1>3, <2>1, AfterBoth
  <2> QED
    BY <2>2, <2>3, <2>4, <2>5 DEF v, w
<1> QED
  BY <1>4, <1>5, <1>6, <1>8

(***************************************************************************)
(* Whatever connections break, daemons die and roles change.               *)
(***************************************************************************)
FollowInvariant == Types /\ Wires /\ Watch /\ FollowTypes /\ AllFollowed

\* A peer that got a snapshot of a MASTER at rest, and from whose connection
\* nothing was lost since, ends with exactly the MASTER's database once all
\* that is on its way is applied in the order of the queues of pfkey.c, the
\* connection, the queue of net.c and the kernel's events.
THEOREM FollowersCatchUp == Spec => []SlaveFollows
<1>1. Init => FollowInvariant
  BY InitTypes, InitWires, InitFollows DEF FollowInvariant
<1>2. FollowInvariant /\ [Next]_vars => FollowInvariant'
  <2> SUFFICES ASSUME Types, Wires, Watch, FollowTypes, AllFollowed, [Next]_vars
               PROVE  Types' /\ Wires' /\ Watch' /\ FollowTypes' /\ AllFollowed'
    BY DEF FollowInvariant
  <2>1. Types' /\ Wires'
    BY StepKinds, StepWires
  <2>2. CASE Next
    BY <2>1, <2>2, StepWatches, StepFollowed
  <2>3. CASE UNCHANGED vars
    <3>1. UNCHANGED <<run, sock, msgs, backlog, shut, inbox, promisc, sadb, events, pfq, follows>>
      BY <2>3 DEF vars
    <3>2. Watch' /\ FollowTypes'
      BY <3>1 DEF Watch, FollowTypes, PerPeer, Peer
    <3>3. \A n \in Node : \A p \in Peer(n) : Followed(n, p)'
      <4> SUFFICES ASSUME NEW n \in Node, NEW p \in Peer(n)
                   PROVE  Followed(n, p)'
        OBVIOUS
      <4>1. LineKept(n, p)
        BY <3>1, LineSame
      <4>2. Wired(n, p) /\ SameData(n, p)
        BY <3>1, StaysWired DEF SameData
      <4> QED
        BY <3>1, <4>1, <4>2, StaysFollowed DEF AllFollowed
    <3> QED
      BY <2>1, <3>2, <3>3 DEF AllFollowed, Peer
  <2> QED
    BY <2>2, <2>3
<1>3. FollowInvariant => SlaveFollows
  BY FollowedFollows DEF FollowInvariant
<1> QED
  BY <1>1, <1>2, <1>3, PTL DEF Spec
=============================================================================
