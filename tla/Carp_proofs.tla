------------------------------ MODULE Carp_proofs ------------------------------
(***************************************************************************)
(* What holds of carp(4) for every number of hosts and ids, every limit on *)
(* errors and every kind and number of troubles: the route of a MASTER,    *)
(* the timers of an interface that takes part, and the counter of the      *)
(* demotions.                                                              *)
(*                                                                         *)
(* A handler gives up its lock between two of its calls, and another finds *)
(* what the first has left undone.  So the invariants speak of a softc and *)
(* of the calls left to do with it: those of the handler at work, and the  *)
(* rests of the walks.  The calls of every handler are in order, one call  *)
(* keeps the invariants and the order, hence a handler keeps them up to    *)
(* its end or its walk, and the end of the walk takes up what is left.     *)
(***************************************************************************)
EXTENDS Carp, SequenceTheorems, FiniteSetTheorems, FunctionTheorems, WellFoundedInduction, TLAPS

\* A set of numbers that holds 0 and, with a number below m, the next one.
LEMMA FromZero ==
  ASSUME NEW m \in Nat, NEW S, 0 \in S,
         \A k \in 1..m : k - 1 \in S => k \in S
  PROVE  0..m \subseteq S
<1> DEFINE Bad == {k \in 0..m : k \notin S}
<1>1. SUFFICES ASSUME Bad # {}
               PROVE  FALSE
  OBVIOUS
<1>2. PICK x \in Bad : \A y \in Bad : x <= y
  <2>1. Bad \subseteq Nat
    OBVIOUS
  <2> HIDE DEF Bad
  <2>2. PICK x \in Bad : \A y \in Bad : <<y, x>> \notin OpToRel(<, Nat)
    BY <1>1, <2>1, WFMin, NatLessThanWellFounded, Zenon
  <2>3. \A y \in Bad : ~(y < x)
    BY <2>1, <2>2, Zenon DEF OpToRel
  <2> QED
    BY <2>1, <2>3
<1>3. x \in 1..m /\ x \notin S
  BY <1>2
<1>4. x - 1 \notin Bad
  BY <1>2, <1>3
<1> QED
  BY <1>3, <1>4

-----------------------------------------------------------------------------
(* Do makes the calls one after the other. *)

\* One step of Do: CHOOSE has one value to choose.
Made(y, v, c, o) == CHOOSE z \in {Proceed(x, v, c, o) : x \in {y}} : TRUE

\* The chosen value is the only one.
LEMMA MadeProceeds ==
  ASSUME NEW y, NEW v, NEW c, NEW o
  PROVE  Made(y, v, c, o) = Proceed(y, v, c, o)
<1> DEFINE p == Proceed(y, v, c, o)
<1>1. {Proceed(x, v, c, o) : x \in {y}} = {p}
  OBVIOUS
<1> HIDE DEF p
<1>2. (CHOOSE z \in {p} : TRUE) = p
  OBVIOUS
<1> QED
  BY <1>1, <1>2 DEF Made, p

\* What Do comes to after each call is a function that exists.
LEMMA StepsExist ==
  ASSUME NEW y, NEW v, NEW o, NEW calls, NEW n \in Nat
  PROVE  \E f : f = [i \in 0..n |-> IF i = 0 THEN y ELSE Made(f[i - 1], v, calls[i], o)]
<1> DEFINE Is(f, m) == f = [i \in 0..m |-> IF i = 0 THEN y ELSE Made(f[i - 1], v, calls[i], o)]
           S == {m \in 0..n : \E f : Is(f, m)}
<1>1. 0 \in S
  <2> DEFINE f == [i \in 0..0 |-> y]
  <2>1. f = [i \in 0..0 |-> IF i = 0 THEN y ELSE Made(f[i - 1], v, calls[i], o)]
    OBVIOUS
  <2>2. Is(f, 0)
    BY <2>1
  <2> HIDE DEF f, Is
  <2> QED
    BY <2>2
<1>2. ASSUME NEW k \in 1..n, k - 1 \in S
      PROVE  k \in S
  <2>1. PICK f : Is(f, k - 1)
    BY <1>2
  <2> DEFINE g == [i \in 0..k |-> IF i = k THEN Made(f[k - 1], v, calls[k], o) ELSE f[i]]
             r == [i \in 0..k |-> IF i = 0 THEN y ELSE Made(g[i - 1], v, calls[i], o)]
  <2>2. \A i \in 0..k : g[i] = r[i]
    <3> TAKE i \in 0..k
    <3>1. CASE i = 0
      <4>1. f[0] = y
        BY <2>1
      <4> QED
        BY <3>1, <4>1
    <3>2. CASE i = k
      <4>1. g[k] = Made(f[k - 1], v, calls[k], o) /\ g[k - 1] = f[k - 1]
        OBVIOUS
      <4> QED
        BY <3>2, <4>1
    <3>3. CASE i \in 1..(k - 1)
      <4>1. f[i] = Made(f[i - 1], v, calls[i], o)
        BY <2>1, <3>3
      <4>2. g[i - 1] = f[i - 1] /\ g[i] = f[i]
        BY <3>3
      <4>3. r[i] = Made(g[i - 1], v, calls[i], o)
        BY <3>3
      <4> HIDE DEF g, r
      <4> QED
        BY <4>1, <4>2, <4>3
    <3> QED
      BY <3>1, <3>2, <3>3
  <2>3. g = r
    BY <2>2
  <2>4. Is(g, k)
    BY <2>3
  <2> HIDE DEF g, Is
  <2> QED
    BY <2>4
<1> HIDE DEF S
<1>3. 0..n \subseteq S
  BY <1>1, <1>2, FromZero
<1>4. n \in S
  BY <1>3
<1> QED
  BY <1>4 DEF S

\* Do is a list of values, from what the handler finds to what it comes to,
\* and each is made from the one before by a call.
LEMMA DoSteps ==
  ASSUME NEW y, NEW v, NEW o, NEW calls, Len(calls) \in Nat
  PROVE  \E at : /\ at[0] = y
                 /\ \A i \in 1..Len(calls) : at[i] = Proceed(at[i - 1], v, calls[i], o)
                 /\ Do(y, v, calls, o) = at[Len(calls)]
<1> DEFINE n == Len(calls)
           Is(f) == f = [i \in 0..n |-> IF i = 0 THEN y ELSE Made(f[i - 1], v, calls[i], o)]
           at == CHOOSE f : Is(f)
<1>1. Is(at)
  BY StepsExist
<1>2. at[0] = y /\ \A i \in 1..n : at[i] = Made(at[i - 1], v, calls[i], o)
  <2> HIDE DEF at
  <2> QED
    BY <1>1
<1>3. \A i \in 1..n : at[i] = Proceed(at[i - 1], v, calls[i], o)
  BY <1>2, MadeProceeds, Zenon
<1>4. Do(y, v, calls, o) = at[n]
  BY DEF Do, Made
<1> QED
  BY <1>2, <1>3, <1>4

-----------------------------------------------------------------------------
(* Types, and what a handler finds. *)
CallKind == {"send_ad", "setrun", "suppress", "unsuppress", "suppressed", "nosuccess", "arm",
             "stop_ad", "INIT", "BACKUP", "MASTER", "add", "delete"}
Outcome == {"sent", "failed", "nobuf", "notag"}
By == {"link", "addr", "other"}
Softc == [addr : BOOLEAN, state : State, up : BOOLEAN, backup : BOOLEAN, running : BOOLEAN,
          suppress : BOOLEAN, errors : Nat, success : Nat, ad : BOOLEAN, adRuns : BOOLEAN,
          md : BOOLEAN, mdRuns : BOOLEAN, route : BOOLEAN]
WalkRec == [v : Vhid, rest : Seq(CallKind), todo : Seq(Vhid), by : By]
Frame == [h : Host, sc : [Vhid -> Softc], demoted : Int, walks : Seq(WalkRec),
          inbox : [Host -> [Vhid -> Seq(Nat)]], left : Int, by : By, sent : Nat,
          open : BOOLEAN, rest : Seq(CallKind)]

\* What a call leaves alone: all but the softc of its interface, the counter,
\* the advertisement and the rest.
Leaves(y, z, v) ==
  /\ z.h = y.h /\ z.walks = y.walks /\ z.inbox = y.inbox /\ z.left = y.left /\ z.by = y.by
  /\ \A u \in Vhid : u # v => z.sc[u] = y.sc[u]
\* Only the softc changes.
Touches(y, z, v, x) ==
  /\ z \in Frame /\ Leaves(y, z, v) /\ z.sc[v] = x
  /\ z.demoted = y.demoted /\ z.sent = y.sent /\ z.open = y.open /\ z.rest = y.rest

\* The parts of a frame have their types.
LEMMA FrameSoftc ==
  ASSUME NEW y \in Frame, NEW v \in Vhid
  PROVE  y.sc[v] \in Softc /\ y.demoted \in Int /\ y.sent \in Nat /\ y.open \in BOOLEAN /\ y.rest \in Seq(CallKind)
BY DEF Frame

\* A softc with a field set is a softc.
LEMMA SoftcFields ==
  ASSUME NEW x \in Softc
  PROVE  /\ \A b \in BOOLEAN : /\ [x EXCEPT !.suppress = b] \in Softc /\ [x EXCEPT !.ad = b] \in Softc
                               /\ [x EXCEPT !.route = b] \in Softc /\ [x EXCEPT !.running = b] \in Softc
                               /\ [x EXCEPT !.md = b] \in Softc
         /\ \A n \in Nat : [x EXCEPT !.errors = n] \in Softc /\ [x EXCEPT !.success = n] \in Softc
         /\ \A s \in State : [x EXCEPT !.state = s] \in Softc
BY DEF Softc

\* A frame whose softc is replaced leaves the rest alone.
LEMMA TouchedSoftc ==
  ASSUME NEW y \in Frame, NEW v \in Vhid, NEW x \in Softc
  PROVE  Touches(y, [y EXCEPT !.sc[v] = x], v, x)
<1> DEFINE z == [y EXCEPT !.sc[v] = x]
<1>1. z \in Frame
  BY DEF Frame
<1>2. z.sc = [y.sc EXCEPT ![v] = x] /\ y.sc \in [Vhid -> Softc]
  BY DEF Frame
<1>3. z.h = y.h /\ z.walks = y.walks /\ z.inbox = y.inbox /\ z.left = y.left /\ z.by = y.by
      /\ z.demoted = y.demoted /\ z.sent = y.sent /\ z.open = y.open /\ z.rest = y.rest
  BY DEF Frame
<1> HIDE DEF z
<1>4. z.sc[v] = x /\ \A u \in Vhid : u # v => z.sc[u] = y.sc[u]
  BY <1>2
<1> QED
  BY <1>1, <1>3, <1>4 DEF Touches, Leaves, z

\* Calls that set one field of the softc.
LEMMA PlainCalls ==
  ASSUME NEW y \in Frame, NEW v \in Vhid, NEW o, NEW x, x = y.sc[v]
  PROVE  /\ Touches(y, Call(y, v, "suppressed", o), v, [x EXCEPT !.suppress = TRUE])
         /\ Touches(y, Call(y, v, "nosuccess", o), v, [x EXCEPT !.success = 0])
         /\ Touches(y, Call(y, v, "arm", o), v, [x EXCEPT !.ad = TRUE])
         /\ Touches(y, Call(y, v, "stop_ad", o), v, [x EXCEPT !.ad = FALSE])
<1>1. Touches(y, [y EXCEPT !.sc[v].suppress = TRUE], v, [x EXCEPT !.suppress = TRUE])
  <2>1. [y.sc[v] EXCEPT !.suppress = TRUE] \in Softc
    BY SoftcFields, FrameSoftc
  <2> QED
    BY <2>1, TouchedSoftc
<1>2. Touches(y, [y EXCEPT !.sc[v].success = 0], v, [x EXCEPT !.success = 0])
  <2>1. [y.sc[v] EXCEPT !.success = 0] \in Softc
    BY SoftcFields, FrameSoftc
  <2> QED
    BY <2>1, TouchedSoftc
<1>3. Touches(y, [y EXCEPT !.sc[v].ad = TRUE], v, [x EXCEPT !.ad = TRUE])
  <2>1. [y.sc[v] EXCEPT !.ad = TRUE] \in Softc
    BY SoftcFields, FrameSoftc
  <2> QED
    BY <2>1, TouchedSoftc
<1>4. Touches(y, [y EXCEPT !.sc[v].ad = FALSE], v, [x EXCEPT !.ad = FALSE])
  <2>1. [y.sc[v] EXCEPT !.ad = FALSE] \in Softc
    BY SoftcFields, FrameSoftc
  <2> QED
    BY <2>1, TouchedSoftc
<1> QED
  BY <1>1, <1>2, <1>3, <1>4 DEF Call, ArmAd, State

\* A call that sets sc_state.
LEMMA StateCalls ==
  ASSUME NEW y \in Frame, NEW v \in Vhid, NEW o, NEW s \in State
  PROVE  /\ Call(y, v, s, o) = SetState(y, v, s)
         /\ Touches(y, SetState(y, v, s), v, [y.sc[v] EXCEPT !.state = s])
<1>1. Call(y, v, s, o) = SetState(y, v, s)
  BY DEF Call, State
<1>2. Touches(y, [y EXCEPT !.sc[v].state = s], v, [y.sc[v] EXCEPT !.state = s])
  <2>1. [y.sc[v] EXCEPT !.state = s] \in Softc
    BY SoftcFields, FrameSoftc
  <2> QED
    BY <2>1, TouchedSoftc
<1> QED
  BY <1>1, <1>2 DEF SetState

Routed(x, add) == IF add = (x.state = "MASTER") THEN [x EXCEPT !.route = add] ELSE x
\* carp_setroute adds the route of a MASTER only, and deletes it of others only.
LEMMA RouteCalls ==
  ASSUME NEW y \in Frame, NEW v \in Vhid, NEW o, NEW add \in BOOLEAN
  PROVE  /\ Touches(y, SetRoute(y, v, add), v, Routed(y.sc[v], add))
         /\ Call(y, v, "add", o) = SetRoute(y, v, TRUE) /\ Call(y, v, "delete", o) = SetRoute(y, v, FALSE)
<1>1. Touches(y, [y EXCEPT !.sc[v].route = add], v, [y.sc[v] EXCEPT !.route = add])
  <2>1. [y.sc[v] EXCEPT !.route = add] \in Softc
    BY SoftcFields, FrameSoftc
  <2> QED
    BY <2>1, TouchedSoftc
<1>2. Touches(y, y, v, y.sc[v])
  BY DEF Touches, Leaves, Frame, Softc
<1>3. Touches(y, SetRoute(y, v, add), v, Routed(y.sc[v], add))
  BY <1>1, <1>2 DEF SetRoute, Routed
<1> QED
  BY <1>3 DEF Call, State

-----------------------------------------------------------------------------
(* What carp_send_ad_locked and carp_setrun do to a softc. *)
Ailing(x) == x.errors >= CARP_SENDAD_MAX_ERRORS
Bit(b) == IF b THEN 1 ELSE 0

\* The fields that an advertisement does not change.
SameRole(x, z) ==
  /\ z.addr = x.addr /\ z.up = x.up /\ z.backup = x.backup /\ z.suppress = x.suppress
  /\ z.adRuns = x.adRuns /\ z.mdRuns = x.mdRuns
Advertised(x, z) ==
  /\ SameRole(x, z)
  /\ z.state = x.state /\ z.running = x.running /\ z.md = x.md /\ z.route = x.route
  /\ x.ad => z.ad
Counted(y, z, v) == z.demoted = y.demoted + Bit(Ailing(z.sc[v])) - Bit(Ailing(y.sc[v]))
\* What is left of carp_send_ad_locked by one that announces its demotion.
AdRest(x) == IF Runs(x) THEN <<"nosuccess", "arm">> ELSE <<"nosuccess">>

AfterAd(y, z, v, o) ==
  /\ z \in Frame /\ Leaves(y, z, v)
  /\ Advertised(y.sc[v], z.sc[v])
  /\ Counted(y, z, v)
  /\ IF z.open THEN z.rest = AdRest(y.sc[v])
     ELSE z.rest = y.rest /\ (o # "notag" /\ Runs(y.sc[v]) => z.sc[v].ad)
  /\ o # "failed" /\ y.sc[v].errors = 0 => z.sc[v].errors = 0

\* The speed of an interface is a number.
LEMMA SpeedType ==
  ASSUME NEW h \in Host, NEW d \in Int
  PROVE  Speed(h, d) \in Nat
<1>1. Skew[h] \in 0..254
  BY CarpAssumption
<1> QED
  BY <1>1 DEF Speed

\* A new softc, a new count and an advertisement.
Renewed(y, v, sent, d, x) == [y EXCEPT !.sent = sent, !.demoted = d, !.sc[v] = x]
\* A frame whose softc, counter and advertisement are replaced.
LEMMA RenewedFrame ==
  ASSUME NEW y \in Frame, NEW v \in Vhid, NEW sent \in Nat, NEW d \in Int, NEW x \in Softc, NEW z,
         z = Renewed(y, v, sent, d, x)
  PROVE  /\ z \in Frame /\ Leaves(y, z, v)
         /\ z.sc[v] = x /\ z.demoted = d /\ z.sent = sent /\ z.open = y.open /\ z.rest = y.rest
<1> USE DEF Renewed
<1>1. z.sc = [y.sc EXCEPT ![v] = x] /\ y.sc \in [Vhid -> Softc]
  BY DEF Frame
<1>2. /\ z.h = y.h /\ z.walks = y.walks /\ z.inbox = y.inbox /\ z.left = y.left /\ z.by = y.by
      /\ z.demoted = d /\ z.sent = sent /\ z.open = y.open /\ z.rest = y.rest
  BY DEF Frame
<1>3. z \in Frame
  BY DEF Frame
<1>4. z.sc[v] = x /\ \A u \in Vhid : u # v => z.sc[u] = y.sc[u]
  BY <1>1
<1> QED
  BY <1>2, <1>3, <1>4 DEF Leaves

\* An advertisement that is sent counts a success, and takes back a demotion
\* when it is the last that was missing.
LEMMA SentAd ==
  ASSUME NEW y \in Frame, NEW v \in Vhid, ~y.open
  PROVE  AfterAd(y, Sent(y, v, Runs(y.sc[v])), v, "sent")
<1> DEFINE x == y.sc[v]
           rearm == Runs(x)
           z == Sent(y, v, rearm)
           counted == x.errors >= CARP_SENDAD_MAX_ERRORS
           recovers == counted /\ x.success + 1 >= CARP_SENDAD_MIN_SUCCESS
           sent == IF Runs(x) THEN Speed(y.h, y.demoted) ELSE BowOut
           d == IF recovers THEN y.demoted - 1 ELSE y.demoted
           x2 == [x EXCEPT !.success = IF counted THEN @ + 1 ELSE @,
                           !.errors = IF counted /\ ~recovers THEN @ ELSE 0,
                           !.ad = @ \/ rearm]
<1>1. x \in Softc /\ y.demoted \in Int /\ y.h \in Host
  BY DEF Frame
<1>2. x.errors \in Nat /\ x.success \in Nat /\ x.ad \in BOOLEAN /\ x.up \in BOOLEAN /\ x.running \in BOOLEAN
  BY <1>1 DEF Softc
<1>3. sent \in Nat /\ d \in Int
  BY <1>1, <1>2, SpeedType DEF BowOut
<1>4. z = Renewed(y, v, sent, d, x2)
  BY DEF Sent, Frame, Renewed
<1>5. /\ x2 \in Softc /\ SameRole(x, x2)
      /\ x2.state = x.state /\ x2.running = x.running /\ x2.md = x.md /\ x2.route = x.route
      /\ x2.errors = IF counted /\ ~recovers THEN x.errors ELSE 0
  <2> DEFINE s == IF counted THEN x.success + 1 ELSE x.success
             e == IF counted /\ ~recovers THEN x.errors ELSE 0
             a == x.ad \/ rearm
  <2>1. s \in Nat /\ e \in Nat /\ a \in BOOLEAN
    BY <1>2 DEF Runs
  <2>2. x2 = [x EXCEPT !.success = s, !.errors = e, !.ad = a]
    BY <1>1 DEF Softc
  <2> HIDE DEF x, x2, s, a
  <2>3. x2 \in Softc
    BY <1>1, <2>1, <2>2 DEF Softc
  <2> QED
    BY <1>1, <2>1, <2>2, <2>3 DEF Softc, SameRole
<1>6. (rearm => x2.ad) /\ (x.ad => x2.ad)
  <2> DEFINE x1 == [x EXCEPT !.success = IF counted THEN @ + 1 ELSE @,
                             !.errors = IF counted /\ ~recovers THEN @ ELSE 0]
  <2>1. x1.ad = x.ad /\ DOMAIN x1 = DOMAIN x /\ "ad" \in DOMAIN x
    BY <1>1 DEF Softc
  <2>2. x2 = [x1 EXCEPT !.ad = @ \/ rearm]
    OBVIOUS
  <2> HIDE DEF x1, x2, x
  <2>3. x2.ad = (x1.ad \/ rearm)
    BY <2>1, <2>2, Zenon
  <2> QED
    BY <2>1, <2>3
<1>7. d = y.demoted + Bit(x2.errors >= CARP_SENDAD_MAX_ERRORS) - Bit(x.errors >= CARP_SENDAD_MAX_ERRORS)
  <2> HIDE DEF x2, x
  <2> QED
    BY <1>1, <1>2, <1>5, CarpAssumption DEF Bit
<1>8. x.errors = 0 => x2.errors = 0
  <2> HIDE DEF x2, x
  <2> QED
    BY <1>5
<1> HIDE DEF sent, d, x2, z
<1>9. /\ z \in Frame /\ Leaves(y, z, v)
      /\ z.sc[v] = x2 /\ z.demoted = d /\ z.open = y.open /\ z.rest = y.rest
  <2>1. sent \in Nat
    BY <1>3
  <2>2. d \in Int
    BY <1>3
  <2>3. x2 \in Softc
    BY <1>5
  <2> QED
    BY <2>1, <2>2, <2>3, <1>4, RenewedFrame, Z3
<1> HIDE DEF x
<1> QED
  BY <1>5, <1>6, <1>7, <1>8, <1>9 DEF AfterAd, Advertised, Counted, Ailing, z, x

Recounted(y, v, d, x) == [y EXCEPT !.sc[v] = x, !.demoted = d]
\* A frame whose softc and counter are replaced.
LEMMA RecountedFrame ==
  ASSUME NEW y \in Frame, NEW v \in Vhid, NEW d \in Int, NEW x \in Softc, NEW z,
         z = Recounted(y, v, d, x)
  PROVE  /\ z \in Frame /\ Leaves(y, z, v)
         /\ z.sc[v] = x /\ z.demoted = d /\ z.open = y.open /\ z.rest = y.rest
<1> USE DEF Recounted
<1>1. z.sc = [y.sc EXCEPT ![v] = x] /\ y.sc \in [Vhid -> Softc]
  BY DEF Frame
<1>2. /\ z.h = y.h /\ z.walks = y.walks /\ z.inbox = y.inbox /\ z.left = y.left /\ z.by = y.by
      /\ z.demoted = d /\ z.open = y.open /\ z.rest = y.rest
  BY DEF Frame
<1>3. z \in Frame
  BY DEF Frame
<1>4. z.sc[v] = x /\ \A u \in Vhid : u # v => z.sc[u] = y.sc[u]
  BY <1>1
<1> QED
  BY <1>2, <1>3, <1>4 DEF Leaves

\* A frame that opens a walk keeps everything else.
LEMMA OpenedFrame ==
  ASSUME NEW y \in Frame, NEW r \in Seq(CallKind), NEW z, z = Opened(y, r)
  PROVE  /\ z \in Frame /\ z.h = y.h /\ z.sc = y.sc /\ z.demoted = y.demoted /\ z.walks = y.walks
         /\ z.inbox = y.inbox /\ z.left = y.left /\ z.by = y.by /\ z.sent = y.sent
         /\ z.open /\ z.rest = r
BY DEF Opened, Frame

\* An output that fails counts an error, and demotes the host with the last
\* that is allowed: the first demotion opens a walk.
LEMMA FailedAd ==
  ASSUME NEW y \in Frame, NEW v \in Vhid, ~y.open
  PROVE  AfterAd(y, Failed(y, v, Runs(y.sc[v])), v, "failed")
<1> DEFINE x == y.sc[v]
           rearm == Runs(x)
           first == x.errors + 1 = CARP_SENDAD_MAX_ERRORS
           e == Min2(x.errors + 1, CARP_SENDAD_MAX_ERRORS + 1)
           d == IF first THEN y.demoted + 1 ELSE y.demoted
           x1 == [x EXCEPT !.errors = e]
           y1 == [y EXCEPT !.sc[v].errors = Min2(@ + 1, CARP_SENDAD_MAX_ERRORS + 1),
                           !.demoted = IF first THEN @ + 1 ELSE @]
<1>1. x \in Softc /\ y.demoted \in Int
  BY DEF Frame
<1>2. x.errors \in Nat /\ x.up \in BOOLEAN /\ x.running \in BOOLEAN /\ x.ad \in BOOLEAN /\ rearm \in BOOLEAN
  BY <1>1 DEF Softc, Runs
<1>3. e \in Nat /\ d \in Int
  BY <1>1, <1>2, CarpAssumption DEF Min2
<1>4. d = y.demoted + Bit(e >= CARP_SENDAD_MAX_ERRORS) - Bit(x.errors >= CARP_SENDAD_MAX_ERRORS)
  BY <1>1, <1>2, CarpAssumption DEF Bit, Min2
<1>5. y1 = Recounted(y, v, d, x1)
  BY DEF Recounted, Frame
<1> HIDE DEF e, d
<1>6. x1 \in Softc /\ x1.errors = e /\ x1.ad = x.ad /\ Advertised(x, x1)
  BY <1>1, <1>3 DEF Softc, Advertised, SameRole
<1> HIDE DEF x1, y1
<1>7. y1 \in Frame /\ Leaves(y, y1, v) /\ y1.sc[v] = x1 /\ y1.demoted = d /\ y1.open = y.open
      /\ y1.rest = y.rest
  BY <1>3, <1>5, <1>6, RecountedFrame
<1>8. CASE first /\ y1.demoted = 1
  <2> DEFINE z == Opened(y1, AdRest(x))
  <2>1. AdRest(x) \in Seq(CallKind)
    <3>1. <<"nosuccess", "arm">> \in Seq(CallKind) /\ <<"nosuccess">> \in Seq(CallKind)
      BY DEF CallKind
    <3> QED
      BY <3>1 DEF AdRest
  <2>2. Failed(y, v, rearm) = z
    BY <1>8 DEF Failed, AdRest, y1
  <2>3. /\ z \in Frame /\ z.h = y1.h /\ z.sc = y1.sc /\ z.demoted = y1.demoted /\ z.walks = y1.walks
        /\ z.inbox = y1.inbox /\ z.left = y1.left /\ z.by = y1.by
        /\ z.open /\ z.rest = AdRest(x)
    BY <1>7, <2>1, OpenedFrame
  <2> HIDE DEF z, x
  <2> QED
    BY <1>4, <1>6, <1>7, <2>2, <2>3 DEF AfterAd, Counted, Ailing, Leaves, x
<1>9. CASE ~(first /\ y1.demoted = 1)
  <2> DEFINE a  == x.ad \/ rearm
             x2 == [x1 EXCEPT !.success = 0, !.ad = a]
             z  == [y1 EXCEPT !.sc[v] = x2]
  <2>1. Failed(y, v, rearm) = z
    BY <1>7, <1>9 DEF Failed, y1
  <2>2. a \in BOOLEAN /\ (rearm => a) /\ (x.ad => a)
    BY <1>2
  <2> HIDE DEF a
  <2>3. x2 \in Softc /\ Advertised(x, x2) /\ x2.errors = e /\ x2.ad = a
    BY <1>6, <2>2 DEF Softc, Advertised, SameRole
  <2>4. Touches(y1, z, v, x2)
    BY <1>7, <2>3, TouchedSoftc
  <2> HIDE DEF z, x2, x, rearm
  <2> QED
    BY <1>4, <1>7, <2>1, <2>2, <2>3, <2>4 DEF AfterAd, Counted, Ailing, Leaves, Touches, x, rearm
<1> QED
  BY <1>8, <1>9

\* carp_send_ad_locked, whatever its outcome is.
LEMMA SendAdEffect ==
  ASSUME NEW y \in Frame, NEW v \in Vhid, NEW o \in Outcome, ~y.open
  PROVE  AfterAd(y, SendAd(y, v, o), v, o)
<1> DEFINE x == y.sc[v]
           rearm == Runs(x)
<1>1. x \in Softc /\ y.demoted \in Int
  BY DEF Frame
<1>2. CASE o = "sent"
  <2>1. SendAd(y, v, o) = Sent(y, v, rearm)
    BY <1>2 DEF SendAd
  <2> QED
    BY <1>2, <2>1, SentAd
<1>3. CASE o = "failed"
  <2>1. SendAd(y, v, o) = Failed(y, v, rearm)
    BY <1>3 DEF SendAd
  <2> QED
    BY <1>3, <2>1, FailedAd
<1>4. AfterAd(y, y, v, "notag")
  BY <1>1, CarpAssumption DEF AfterAd, Leaves, Advertised, SameRole, Counted, Bit, Ailing
<1>5. CASE o = "nobuf"
  <2>1. CASE rearm
    <3> DEFINE x2 == [x EXCEPT !.ad = TRUE]
    <3>1. SendAd(y, v, o) = Call(y, v, "arm", o)
      BY <1>5, <2>1 DEF SendAd, Call, State
    <3>2. Touches(y, Call(y, v, "arm", o), v, x2)
      BY PlainCalls
    <3>3. Advertised(x, x2) /\ x2.errors = x.errors /\ x2.ad
      BY <1>1 DEF Softc, Advertised, SameRole
    <3>4. Bit(Ailing(x)) \in Int
      BY DEF Bit
    <3> HIDE DEF x2, x
    <3> QED
      BY <1>1, <3>1, <3>2, <3>3, <3>4, <2>1 DEF AfterAd, Counted, Ailing, Touches, x
  <2>2. CASE ~rearm
    <3>1. SendAd(y, v, o) = y
      BY <1>5, <2>2 DEF SendAd
    <3> QED
      BY <1>4, <1>5, <2>2, <3>1 DEF AfterAd
  <2> QED
    BY <2>1, <2>2
<1>6. CASE o = "notag"
  <2>1. SendAd(y, v, o) = y
    BY <1>6 DEF SendAd
  <2> QED
    BY <1>4, <1>6, <2>1
<1> QED
  BY <1>2, <1>3, <1>5, <1>6 DEF Outcome

\* What carp_setrun leaves: who may run is elected or goes on in its state,
\* or announces the demotion that its first advertisement made.
ElectRest == <<"nosuccess", "arm", "MASTER", "add">>
Elected(x, z, o) ==
  \/ z.state = "MASTER" /\ z.route /\ (o # "notag" => z.ad)
  \/ z.state = "BACKUP" /\ ~z.route /\ z.md
AfterRun(y, z, v, o) ==
  /\ z \in Frame /\ Leaves(y, z, v)
  /\ Counted(y, z, v)
  /\ o # "failed" /\ y.sc[v].errors = 0 => z.sc[v].errors = 0
  /\ LET x == y.sc[v]
         w == z.sc[v]
     IN  /\ SameRole(x, w)
         /\ w.running <=> x.up /\ x.addr
         /\ IF z.open
            THEN /\ z.rest = ElectRest /\ x.up /\ x.addr
                 /\ x.state = "INIT" /\ w.state = "INIT" /\ w.route = x.route
            ELSE /\ z.rest = y.rest
                 /\ x.up /\ x.addr => CASE x.state = "INIT" -> Elected(x, w, o)
                                        [] x.state = "BACKUP" -> w.state = "BACKUP" /\ w.route = x.route /\ w.md
                                        [] x.state = "MASTER" -> w.state = "MASTER" /\ w.route = x.route /\ w.ad
                 /\ ~(x.up /\ x.addr) =>
                      /\ w.state = x.state /\ w.md = x.md /\ w.ad = x.ad
                      /\ w.route <=> x.route /\ x.state = "MASTER"

\* A BACKUP waits with its own timer only.
LEMMA WaitingFrame ==
  ASSUME NEW y \in Frame, NEW v \in Vhid
  PROVE  Touches(y, Waiting(y, v), v, [y.sc[v] EXCEPT !.ad = FALSE, !.md = TRUE])
<1> DEFINE x == [y.sc[v] EXCEPT !.ad = FALSE, !.md = TRUE]
<1>1. x \in Softc
  <2>1. y.sc[v] \in Softc
    BY DEF Frame
  <2> QED
    BY <2>1 DEF Softc
<1>2. Waiting(y, v) = [y EXCEPT !.sc[v] = x]
  BY DEF Waiting, Frame
<1> QED
  BY <1>1, <1>2, TouchedSoftc

\* What an election has left to do when its advertisement opens a walk.
LEMMA ElectRestIs == <<"nosuccess", "arm">> \o <<"MASTER", "add">> = ElectRest
<1> DEFINE s == <<"nosuccess", "arm">>
           t == <<"MASTER", "add">>
<1>1. s \in Seq(CallKind) /\ t \in Seq(CallKind) /\ Len(s) = 2 /\ Len(t) = 2
      /\ s[1] = "nosuccess" /\ s[2] = "arm" /\ t[1] = "MASTER" /\ t[2] = "add"
  BY DEF CallKind
<1>2. ElectRest \in Seq(CallKind) /\ Len(ElectRest) = 4 /\ ElectRest[1] = "nosuccess"
      /\ ElectRest[2] = "arm" /\ ElectRest[3] = "MASTER" /\ ElectRest[4] = "add"
  BY DEF ElectRest, CallKind
<1> HIDE DEF s, t
<1>3. /\ s \o t \in Seq(CallKind) /\ Len(s \o t) = 4
      /\ \A i \in 1..4 : (s \o t)[i] = IF i <= 2 THEN s[i] ELSE t[i - 2]
  <2>1. /\ s \o t \in Seq(CallKind) /\ Len(s \o t) = Len(s) + Len(t)
        /\ \A i \in 1..Len(s) + Len(t) : (s \o t)[i] = IF i <= Len(s) THEN s[i] ELSE t[i - Len(s)]
    BY <1>1, ConcatProperties
  <2> QED
    BY <1>1, <2>1
<1>4. \A i \in 1..4 : (s \o t)[i] = ElectRest[i]
  <2>1. \A i \in 1..4 : i = 1 \/ i = 2 \/ i = 3 \/ i = 4
    OBVIOUS
  <2>2. (s \o t)[1] = s[1] /\ (s \o t)[2] = s[2] /\ (s \o t)[3] = t[1] /\ (s \o t)[4] = t[2]
    BY <1>3
  <2> QED
    BY <1>1, <1>2, <2>1, <2>2
<1> DEFINE u == s \o t
           e == ElectRest
<1> HIDE DEF u, e
<1>5. u \in Seq(CallKind) /\ e \in Seq(CallKind) /\ Len(u) = Len(e) /\ \A i \in 1..Len(u) : u[i] = e[i]
  BY <1>2, <1>3, <1>4 DEF u, e
<1>6. u = e
  BY <1>5
<1> QED
  BY <1>6 DEF u, e, s, t

\* Electing one who may run.
LEMMA ElectEffect ==
  ASSUME NEW y \in Frame, NEW v \in Vhid, NEW o \in Outcome, ~y.open,
         y.sc[v].state = "INIT", y.sc[v].up, y.sc[v].running
  PROVE  LET z == Elect(y, v, o)
             x == y.sc[v]
             w == z.sc[v]
         IN  /\ z \in Frame /\ Leaves(y, z, v) /\ Counted(y, z, v)
             /\ o # "failed" /\ x.errors = 0 => w.errors = 0
             /\ SameRole(x, w) /\ w.running
             /\ IF z.open THEN z.rest = ElectRest /\ w.state = "INIT" /\ w.route = x.route
                ELSE z.rest = y.rest /\ Elected(x, w, o)
<1> DEFINE x == y.sc[v]
           z == Elect(y, v, o)
           w == z.sc[v]
<1>1. x \in Softc /\ y.demoted \in Int
  BY DEF Frame
<1>2. CASE Preempt /\ y.demoted = 0
  <2> DEFINE s == SendAd(y, v, o)
  <2>1. AfterAd(y, s, v, o) /\ AdRest(x) = <<"nosuccess", "arm">>
    BY SendAdEffect DEF AdRest, Runs
  <2> HIDE DEF s
  <2>2. CASE s.open
    <3>1. z = [s EXCEPT !.rest = AdRest(x) \o <<"MASTER", "add">>]
      BY <1>2, <2>1, <2>2 DEF Elect, AfterAd, s
    <3>2. AdRest(x) \o <<"MASTER", "add">> = ElectRest /\ ElectRest \in Seq(CallKind)
      <4>1. <<"nosuccess", "arm">> \o <<"MASTER", "add">> = ElectRest
        BY ElectRestIs
      <4>2. ElectRest \in Seq(CallKind)
        BY DEF ElectRest, CallKind
      <4> QED
        BY <2>1, <4>1, <4>2
    <3>3. z = [s EXCEPT !.rest = ElectRest]
      BY <3>1, <3>2
    <3> HIDE DEF z, x
    <3>4. /\ z \in Frame /\ z.h = s.h /\ z.sc = s.sc /\ z.demoted = s.demoted /\ z.walks = s.walks
          /\ z.inbox = s.inbox /\ z.left = s.left /\ z.by = s.by /\ z.open = s.open /\ z.rest = ElectRest
      BY <2>1, <3>2, <3>3 DEF AfterAd, Frame
    <3> QED
      BY <2>1, <2>2, <3>4 DEF AfterAd, Advertised, Leaves, Counted, SameRole, z, x
  <2>3. CASE ~s.open
    <3> DEFINE m == SetState(s, v, "MASTER")
               xs == s.sc[v]
               xm == [xs EXCEPT !.state = "MASTER"]
    <3>1. z = SetRoute(m, v, TRUE)
      BY <1>2, <2>3 DEF Elect, s
    <3>2. s \in Frame
      BY <2>1 DEF AfterAd
    <3>3. Touches(s, m, v, xm)
      BY <3>2, StateCalls DEF State
    <3> HIDE DEF m
    <3>4. m \in Frame /\ m.sc[v] = xm
      BY <3>3 DEF Touches
    <3>5. Touches(m, z, v, Routed(xm, TRUE))
      BY <3>1, <3>4, RouteCalls
    <3>6. xs \in Softc
      BY <3>2 DEF Frame
    <3> DEFINE xz == Routed(xm, TRUE)
    <3>7. /\ SameRole(xs, xz) /\ xz.running = xs.running /\ xz.ad = xs.ad /\ xz.errors = xs.errors
          /\ xz.state = "MASTER" /\ xz.route
      BY <3>6 DEF Routed, SameRole, Softc
    <3> HIDE DEF z, x, xz, xm
    <3>8. z.sc[v] = xz /\ z.demoted = s.demoted /\ z.open = s.open /\ z.rest = s.rest
          /\ z \in Frame /\ Leaves(s, z, v)
      BY <3>3, <3>5 DEF Touches, Leaves, xz
    <3>9. Leaves(y, z, v)
      BY <2>1, <3>8 DEF Leaves, AfterAd
    <3>10. Counted(y, z, v)
      BY <2>1, <3>7, <3>8 DEF Counted, Ailing, AfterAd
    <3>11. SameRole(x, xz) /\ xz.running = x.running /\ (o # "notag" => xz.ad)
      BY <2>1, <2>3, <3>7 DEF AfterAd, Advertised, SameRole, Runs, x
    <3>12. o # "failed" /\ x.errors = 0 => xz.errors = 0
      BY <2>1, <3>7 DEF AfterAd, x
    <3> QED
      BY <2>1, <2>3, <3>7, <3>8, <3>9, <3>10, <3>11, <3>12 DEF Elected, AfterAd, z, x
  <2> QED
    BY <2>2, <2>3
<1>3. CASE ~(Preempt /\ y.demoted = 0)
  <2> DEFINE b == SetState(y, v, "BACKUP")
             xb == [x EXCEPT !.state = "BACKUP"]
             r == SetRoute(b, v, FALSE)
             xr == Routed(xb, FALSE)
             xw == [xr EXCEPT !.ad = FALSE, !.md = TRUE]
  <2>1. z = Waiting(r, v)
    BY <1>3 DEF Elect
  <2>2. Touches(y, b, v, xb)
    BY StateCalls DEF State
  <2> HIDE DEF b
  <2>3. b \in Frame /\ b.sc[v] = xb
    BY <2>2 DEF Touches
  <2>4. Touches(b, r, v, xr)
    BY <2>3, RouteCalls
  <2> HIDE DEF r
  <2>5. r \in Frame /\ r.sc[v] = xr
    BY <2>4 DEF Touches
  <2>6. Touches(r, z, v, xw)
    <3>1. Touches(r, Waiting(r, v), v, [r.sc[v] EXCEPT !.ad = FALSE, !.md = TRUE])
      BY <2>5, WaitingFrame
    <3> HIDE DEF z, xr
    <3> QED
      BY <2>1, <2>5, <3>1
  <2>7. /\ SameRole(x, xw) /\ xw.running = x.running /\ xw.errors = x.errors
        /\ xw.state = "BACKUP" /\ xw.route = FALSE /\ xw.md
    <3>1. xb \in Softc /\ xb.state = "BACKUP" /\ SameRole(x, xb) /\ xb.running = x.running /\ xb.errors = x.errors
      BY <1>1 DEF Softc, State, SameRole
    <3> HIDE DEF x, xb
    <3>2. xr \in Softc /\ xr.state = "BACKUP" /\ SameRole(x, xr) /\ xr.running = x.running
          /\ xr.errors = x.errors /\ xr.route = FALSE
      BY <3>1 DEF Softc, SameRole, Routed
    <3> HIDE DEF xr
    <3> QED
      BY <3>2 DEF Softc, SameRole
  <2> HIDE DEF z, x, xw, xr, xb
  <2>8. z.sc[v] = xw /\ z.demoted = y.demoted /\ z.open = y.open /\ z.rest = y.rest
        /\ z \in Frame /\ Leaves(y, z, v)
    BY <2>2, <2>4, <2>6 DEF Touches, Leaves
  <2>9. Counted(y, z, v)
    <3>1. Bit(Ailing(x)) \in Int
      BY DEF Bit
    <3>2. Ailing(xw) = Ailing(x)
      BY <2>7 DEF Ailing
    <3> QED
      BY <1>1, <2>8, <3>1, <3>2 DEF Counted, x
  <2> QED
    BY <2>7, <2>8, <2>9 DEF Elected, z, x
<1> QED
  BY <1>2, <1>3

\* carp_setrun, whatever the state and the outcome are.
LEMMA SetRunEffect ==
  ASSUME NEW y \in Frame, NEW v \in Vhid, NEW o \in Outcome, ~y.open
  PROVE  AfterRun(y, SetRun(y, v, o), v, o)
<1> DEFINE x == y.sc[v]
           z == SetRun(y, v, o)
           may == x.up /\ x.addr
           xr == [x EXCEPT !.running = may]
           r == [y EXCEPT !.sc[v].running = may]
<1>1. x \in Softc /\ y.demoted \in Int /\ Bit(Ailing(x)) \in Int
  BY DEF Frame, Bit
<1>2. x.state \in State /\ may \in BOOLEAN
  BY <1>1 DEF Softc
<1>3. xr \in Softc /\ SameRole(x, xr) /\ xr.running = may /\ xr.state = x.state /\ xr.errors = x.errors
      /\ xr.route = x.route /\ xr.ad = x.ad /\ xr.md = x.md
  <2> HIDE DEF may
  <2> QED
    BY <1>1, <1>2 DEF Softc, SameRole
<1>4. Touches(y, r, v, xr)
  BY <1>3, TouchedSoftc
<1>5. r \in Frame /\ r.sc[v] = xr /\ ~r.open
  BY <1>4 DEF Touches
<1>6. r.sc[v].up = x.up /\ r.sc[v].addr = x.addr
  BY <1>3, <1>5 DEF SameRole
<1>7. CASE ~may
  <2>1. z = SetRoute(r, v, FALSE)
    BY <1>7 DEF SetRun
  <2> DEFINE w == Routed(xr, FALSE)
  <2>2. Touches(r, z, v, w)
    BY <1>5, <2>1, RouteCalls
  <2>3. SameRole(x, w) /\ w.running = FALSE /\ w.state = x.state /\ w.errors = x.errors
        /\ w.ad = x.ad /\ w.md = x.md /\ (w.route <=> x.route /\ x.state = "MASTER")
    <3>1. x.route \in BOOLEAN
      BY <1>1 DEF Softc
    <3> HIDE DEF xr, x
    <3> QED
      BY <1>3, <1>7, <3>1 DEF Routed, Softc, SameRole
  <2> HIDE DEF r, z, w, x, xr
  <2>4. z \in Frame /\ Leaves(y, z, v) /\ z.sc[v] = w /\ z.open = y.open /\ z.rest = y.rest
        /\ z.demoted = y.demoted
    BY <1>4, <2>2 DEF Touches, Leaves
  <2>5. Counted(y, z, v)
    BY <1>1, <2>3, <2>4 DEF Counted, Ailing, x
  <2> QED
    BY <1>7, <2>3, <2>4, <2>5 DEF AfterRun, z, x
<1>8. CASE may
  <2>1. r = [y EXCEPT !.sc[v].running = TRUE]
    BY <1>8
  <2> HIDE DEF r
  <2>2. CASE x.state = "INIT"
    <3> DEFINE w == z.sc[v]
    <3>1. z = Elect(r, v, o)
      BY <1>3, <1>5, <1>8, <2>1, <2>2 DEF SetRun
    <3> HIDE DEF z
    <3>2. r.sc[v].state = "INIT" /\ r.sc[v].up /\ r.sc[v].running
      BY <1>3, <1>5, <1>6, <1>8, <2>2
    <3>3. /\ z \in Frame /\ Leaves(r, z, v) /\ Counted(r, z, v)
          /\ o # "failed" /\ r.sc[v].errors = 0 => w.errors = 0
          /\ SameRole(r.sc[v], w) /\ w.running
          /\ IF z.open THEN z.rest = ElectRest /\ w.state = "INIT" /\ w.route = r.sc[v].route
             ELSE z.rest = r.rest /\ Elected(r.sc[v], w, o)
      BY <1>5, <3>1, <3>2, ElectEffect
    <3> HIDE DEF x, xr, w
    <3>4. SameRole(x, w) /\ w.running \in BOOLEAN
      <4>1. w \in Softc
        BY <3>3 DEF w, Frame
      <4> QED
        BY <1>3, <1>5, <3>3, <4>1 DEF SameRole, Softc
    <3>5. Leaves(y, z, v) /\ Counted(y, z, v) /\ r.rest = y.rest
      <4>1. Ailing(r.sc[v]) = Ailing(x)
        BY <1>3, <1>5 DEF Ailing
      <4> QED
        BY <1>4, <3>3, <4>1 DEF Leaves, Counted, Touches, x
    <3>6. Elected(r.sc[v], w, o) => Elected(x, w, o)
      BY DEF Elected
    <3> HIDE DEF may
    <3>7. w.running = may
      BY <1>8, <3>3, <3>4
    <3>8. w.running <=> x.up /\ x.addr
      BY <1>8, <3>3 DEF may
    <3>9. x.up /\ x.addr /\ r.sc[v].route = x.route /\ (x.errors = 0 => r.sc[v].errors = 0)
      BY <1>3, <1>5, <1>8 DEF may
    <3>10. CASE z.open
      BY <2>2, <3>3, <3>4, <3>5, <3>8, <3>9, <3>10 DEF AfterRun, w, x, z
    <3>11. CASE ~z.open
      BY <2>2, <3>3, <3>4, <3>5, <3>6, <3>8, <3>9, <3>11 DEF AfterRun, w, x, z
    <3> QED
      BY <3>10, <3>11
  <2>3. CASE x.state = "BACKUP"
    <3> DEFINE w == [xr EXCEPT !.ad = FALSE, !.md = TRUE]
    <3>1. z = Waiting(r, v)
      BY <1>3, <1>5, <1>8, <2>1, <2>3 DEF SetRun
    <3>2. Touches(r, z, v, w)
      <4>1. Touches(r, Waiting(r, v), v, [r.sc[v] EXCEPT !.ad = FALSE, !.md = TRUE])
        BY <1>5, WaitingFrame
      <4> HIDE DEF z, xr
      <4> QED
        BY <1>5, <3>1, <4>1
    <3>3. SameRole(x, w) /\ w.running = may /\ w.state = x.state /\ w.errors = x.errors
          /\ w.route = x.route /\ w.md
      <4> HIDE DEF xr, x, may
      <4> QED
        BY <1>3 DEF SameRole, Softc
    <3> HIDE DEF z, w, x, xr
    <3>4. z \in Frame /\ Leaves(y, z, v) /\ z.sc[v] = w /\ z.open = y.open /\ z.rest = y.rest
          /\ z.demoted = y.demoted
      BY <1>4, <3>2 DEF Touches, Leaves
    <3>5. Counted(y, z, v)
      BY <1>1, <3>3, <3>4 DEF Counted, Ailing, x
    <3> QED
      BY <1>8, <2>3, <3>3, <3>4, <3>5 DEF AfterRun, z, x
  <2>4. CASE x.state = "MASTER"
    <3> DEFINE w == [xr EXCEPT !.ad = TRUE]
    <3>1. z = ArmAd(r, v)
      BY <1>3, <1>5, <1>8, <2>1, <2>4 DEF SetRun
    <3>2. Touches(r, z, v, w)
      <4>1. Touches(r, Call(r, v, "arm", o), v, [r.sc[v] EXCEPT !.ad = TRUE])
        BY <1>5, PlainCalls
      <4>2. Call(r, v, "arm", o) = ArmAd(r, v)
        BY DEF Call, State
      <4> HIDE DEF z, xr
      <4> QED
        BY <1>5, <3>1, <4>1, <4>2
    <3>3. SameRole(x, w) /\ w.running = may /\ w.state = x.state /\ w.errors = x.errors
          /\ w.route = x.route /\ w.ad
      <4> HIDE DEF xr, x, may
      <4> QED
        BY <1>3 DEF SameRole, Softc
    <3> HIDE DEF z, w, x, xr
    <3>4. z \in Frame /\ Leaves(y, z, v) /\ z.sc[v] = w /\ z.open = y.open /\ z.rest = y.rest
          /\ z.demoted = y.demoted
      BY <1>4, <3>2 DEF Touches, Leaves
    <3>5. Counted(y, z, v)
      BY <1>1, <3>3, <3>4 DEF Counted, Ailing, x
    <3> QED
      BY <1>8, <2>4, <3>3, <3>4, <3>5 DEF AfterRun, z, x
  <2> QED
    BY <1>2, <2>2, <2>3, <2>4 DEF State
<1> QED
  BY <1>7, <1>8

\* Suppress of an interface that is the first to be counted.
LEMMA SuppressFirst ==
  ASSUME NEW y \in Frame, NEW v \in Vhid, ~y.sc[v].suppress, NEW y1, y1 = [y EXCEPT !.demoted = @ + 1],
         y1.demoted = 1
  PROVE  Suppress(y, v) = Opened(y1, <<"suppressed">>)
BY DEF Suppress

\* The calls that count an interface whose parent is down.
LEMMA SuppressEffect ==
  ASSUME NEW y \in Frame, NEW v \in Vhid, ~y.open
  PROVE  LET x == y.sc[v]
             z == Suppress(y, v)
         IN  /\ z \in Frame /\ Leaves(y, z, v)
             /\ z.demoted = y.demoted + (IF x.suppress THEN 0 ELSE 1)
             /\ IF z.open THEN z.rest = <<"suppressed">> /\ z.sc[v] = x /\ ~x.suppress
                ELSE z.rest = y.rest /\ z.sc[v] = [x EXCEPT !.suppress = TRUE]
<1> DEFINE x == y.sc[v]
           z == Suppress(y, v)
           d == y.demoted + 1
           y1 == [y EXCEPT !.demoted = @ + 1]
<1>1. x \in Softc /\ y.demoted \in Int /\ x.suppress \in BOOLEAN
  BY DEF Frame, Softc
<1>2. CASE x.suppress
  <2>1. z = y
    BY <1>2 DEF Suppress
  <2>2. [x EXCEPT !.suppress = TRUE] = x
    <3> HIDE DEF x
    <3> QED
      BY <1>1, <1>2 DEF Softc
  <2> QED
    BY <1>1, <1>2, <2>1, <2>2 DEF Leaves
<1>3. CASE ~x.suppress
  <2>1. /\ y1 \in Frame /\ Leaves(y, y1, v) /\ y1.sc[v] = x /\ y1.demoted = d
        /\ y1.open = y.open /\ y1.rest = y.rest
    <3>1. y1 \in Frame /\ y1.sc = y.sc /\ y1.demoted = d
          /\ y1.h = y.h /\ y1.walks = y.walks /\ y1.inbox = y.inbox /\ y1.left = y.left /\ y1.by = y.by
          /\ y1.open = y.open /\ y1.rest = y.rest
      <4> DEFINE e == y.demoted + 1
      <4>1. e \in Int /\ y1 = [y EXCEPT !.demoted = e]
        BY <1>1
      <4> HIDE DEF e, y1
      <4>2. /\ y1 \in Frame /\ y1.sc = y.sc /\ y1.demoted = e
            /\ y1.h = y.h /\ y1.walks = y.walks /\ y1.inbox = y.inbox /\ y1.left = y.left /\ y1.by = y.by
            /\ y1.open = y.open /\ y1.rest = y.rest
        BY <4>1 DEF Frame
      <4> QED
        BY <4>2 DEF e
    <3> HIDE DEF y1
    <3> QED
      BY <3>1 DEF Leaves
  <2>2. CASE y1.demoted = 1
    <3>0. y1 = [y EXCEPT !.demoted = @ + 1] /\ ~y.sc[v].suppress /\ z = Suppress(y, v)
      BY <1>3
    <3> HIDE DEF y1, z
    <3>1. z = Opened(y1, <<"suppressed">>)
      BY <2>2, <3>0, SuppressFirst, Zenon
    <3> DEFINE r == <<"suppressed">>
    <3>2. r \in Seq(CallKind) /\ z = Opened(y1, r)
      BY <3>1 DEF CallKind
    <3> HIDE DEF r
    <3>3. /\ z \in Frame /\ z.h = y1.h /\ z.sc = y1.sc /\ z.demoted = y1.demoted /\ z.walks = y1.walks
          /\ z.inbox = y1.inbox /\ z.left = y1.left /\ z.by = y1.by
          /\ z.open /\ z.rest = r
      BY <2>1, <3>2, OpenedFrame
    <3>4. z.sc[v] = x /\ z.demoted = y.demoted + 1
      BY <2>1, <3>3
    <3>5. Leaves(y, z, v)
      BY <2>1, <3>3 DEF Leaves
    <3> QED
      BY <1>3, <3>3, <3>4, <3>5 DEF z, r
  <2>3. CASE y1.demoted # 1
    <3> DEFINE x2 == [x EXCEPT !.suppress = TRUE]
    <3>0. y1 = [y EXCEPT !.demoted = @ + 1] /\ ~y.sc[v].suppress /\ z = Suppress(y, v)
      BY <1>3
    <3> HIDE DEF y1, z
    <3> HIDE DEF x2
    <3>1. z = [y1 EXCEPT !.sc[v].suppress = TRUE]
      <4>1. y1 = [y EXCEPT !.demoted = @ + 1]
        BY <3>0
      <4>2. ~y.sc[v].suppress
        BY <3>0
      <4>3. Suppress(y, v) = [y1 EXCEPT !.sc[v].suppress = TRUE]
        BY <2>3, <4>1, <4>2 DEF Suppress
      <4> QED
        BY <3>0, <4>3, Zenon
    <3>2. x2 \in Softc
      BY <1>1, SoftcFields DEF x2
    <3>3. z = [y1 EXCEPT !.sc[v] = x2]
      <4>1. x2 = [y1.sc[v] EXCEPT !.suppress = TRUE]
        BY <2>1 DEF x2
      <4> QED
        BY <3>1, <4>1, Zenon
    <3>4. Touches(y1, z, v, x2)
      BY <2>1, <3>2, <3>3, TouchedSoftc
    <3> QED
      BY <1>3, <2>1, <3>4 DEF Leaves, Touches, z, x2
  <2> QED
    BY <2>2, <2>3
<1> QED
  BY <1>1, <1>2, <1>3

\* The flag and its count are given back together.
LEMMA UnsuppressEffect ==
  ASSUME NEW y \in Frame, NEW v \in Vhid
  PROVE  LET x == y.sc[v]
             z == Unsuppress(y, v)
         IN  /\ z \in Frame /\ Leaves(y, z, v)
             /\ z.demoted = y.demoted - (IF x.suppress THEN 1 ELSE 0)
             /\ z.sc[v] = [x EXCEPT !.suppress = FALSE]
             /\ z.open = y.open /\ z.rest = y.rest
<1> DEFINE x == y.sc[v]
           z == Unsuppress(y, v)
           d == IF x.suppress THEN y.demoted - 1 ELSE y.demoted
           x2 == [x EXCEPT !.suppress = FALSE]
           y1 == [y EXCEPT !.demoted = d]
<1>1. x \in Softc /\ y.demoted \in Int /\ x.suppress \in BOOLEAN
  BY DEF Frame, Softc
<1>2. d \in Int /\ d = y.demoted - (IF x.suppress THEN 1 ELSE 0)
  BY <1>1
<1>3. x2 \in Softc
  BY <1>1, SoftcFields
<1>4. z = [y1 EXCEPT !.sc[v].suppress = FALSE]
  BY DEF Unsuppress, Frame
<1> HIDE DEF d
<1>5. y1 \in Frame /\ y1.sc = y.sc /\ y1.demoted = d
      /\ y1.h = y.h /\ y1.walks = y.walks /\ y1.inbox = y.inbox /\ y1.left = y.left /\ y1.by = y.by
      /\ y1.open = y.open /\ y1.rest = y.rest
  BY <1>2 DEF Frame
<1>6. z = [y1 EXCEPT !.sc[v] = x2]
  BY <1>4, <1>5
<1>7. Touches(y1, z, v, x2)
  BY <1>3, <1>5, <1>6, TouchedSoftc
<1> HIDE DEF y1, z
<1> QED
  BY <1>2, <1>5, <1>7 DEF Leaves, Touches, z

-----------------------------------------------------------------------------
(* What is left to do: the rest of an open frame and the calls that follow. *)
Counting == {"suppress", "unsuppress", "suppressed"}
Has(q, c) == \E i \in 1..Len(q) : q[i] = c
Starts(q, c) == Len(q) >= 1 /\ q[1] = c
StartsTwo(q, c, d) == Len(q) >= 2 /\ q[1] = c /\ q[2] = d

\* The order in which every handler of carp makes its calls.
Tidy(q) ==
  /\ \A i \in 1..Len(q) : q[i] = "INIT" => i + 1 <= Len(q) /\ q[i + 1] = "setrun"
  /\ \A i \in 1..Len(q) : q[i] = "BACKUP" => i + 2 <= Len(q) /\ q[i + 1] = "setrun" /\ q[i + 2] = "delete"
  /\ \A i \in 1..Len(q) : q[i] = "stop_ad" => i + 1 <= Len(q) /\ q[i + 1] = "BACKUP"
  /\ \A i \in 1..Len(q) : q[i] = "MASTER" => \E j \in (i + 1)..Len(q) : q[j] = "add"
  /\ \A i \in 1..Len(q) : i + 1 <= Len(q) /\ q[i + 1] = "MASTER" => q[i] = "arm"
\* At most one of them counts, and what counts late is first.
Once(q) ==
  /\ \A i \in 1..Len(q) : q[i] = "suppressed" => i = 1
  /\ \A i, j \in 1..Len(q) : q[i] \in Counting /\ q[j] \in Counting => i = j
Orderly(q) == q \in Seq(CallKind) /\ Tidy(q) /\ Once(q)

\* Two lists of calls, one after the other.
LEMMA Joined ==
  ASSUME NEW S, NEW p \in Seq(S), NEW t \in Seq(S), NEW q, q = p \o t
  PROVE  /\ q \in Seq(S) /\ Len(p) \in Nat /\ Len(t) \in Nat /\ Len(q) = Len(p) + Len(t)
         /\ \A i \in 1..Len(p) : q[i] = p[i]
         /\ \A i \in 1..Len(t) : q[Len(p) + i] = t[i]
         /\ \A i \in 1..Len(q) : i <= Len(p) \/ (i - Len(p) \in 1..Len(t) /\ q[i] = t[i - Len(p)])
<1>1. /\ q \in Seq(S) /\ Len(q) = Len(p) + Len(t)
      /\ \A i \in 1..(Len(p) + Len(t)) : q[i] = IF i <= Len(p) THEN p[i] ELSE t[i - Len(p)]
  BY ConcatProperties
<1>2. Len(p) \in Nat /\ Len(t) \in Nat
  OBVIOUS
<1> QED
  BY <1>1, <1>2

\* A list of one call.
LEMMA Single ==
  ASSUME NEW S, NEW c \in S, NEW p, p = <<c>>
  PROVE  p \in Seq(S) /\ Len(p) = 1 /\ p[1] = c
OBVIOUS

\* Who has, who starts, in a list that is put together.
LEMMA JoinedHas ==
  ASSUME NEW S, NEW p \in Seq(S), NEW t \in Seq(S), NEW d
  PROVE  Has(p \o t, d) <=> Has(p, d) \/ Has(t, d)
<1> DEFINE q == p \o t
<1>1. /\ Len(p) \in Nat /\ Len(t) \in Nat /\ Len(q) = Len(p) + Len(t)
      /\ \A i \in 1..Len(p) : q[i] = p[i]
      /\ \A i \in 1..Len(t) : q[Len(p) + i] = t[i]
      /\ \A i \in 1..Len(q) : i <= Len(p) \/ (i - Len(p) \in 1..Len(t) /\ q[i] = t[i - Len(p)])
  BY Joined
<1> HIDE DEF q
<1>2. ASSUME NEW i \in 1..Len(p), p[i] = d PROVE Has(q, d)
  <2>1. i \in 1..Len(q) /\ q[i] = d
    BY <1>1, <1>2
  <2> QED
    BY <2>1 DEF Has
<1>3. ASSUME NEW i \in 1..Len(t), t[i] = d PROVE Has(q, d)
  <2>1. Len(p) + i \in 1..Len(q) /\ q[Len(p) + i] = d
    BY <1>1, <1>3
  <2> QED
    BY <2>1 DEF Has
<1>4. ASSUME NEW i \in 1..Len(q), q[i] = d PROVE Has(p, d) \/ Has(t, d)
  BY <1>1, <1>4 DEF Has
<1>5. Has(q, d) <=> Has(p, d) \/ Has(t, d)
  BY <1>2, <1>3, <1>4 DEF Has
<1> QED
  BY <1>5 DEF q

\* A list starts as its first part does.
LEMMA JoinedStarts ==
  ASSUME NEW S, NEW p \in Seq(S), NEW t \in Seq(S), Len(p) >= 1, NEW d, NEW e
  PROVE  /\ Starts(p \o t, d) <=> Starts(p, d)
         /\ Len(p) = 1 => (StartsTwo(p \o t, d, e) <=> Starts(p, d) /\ Starts(t, e))
         /\ Len(p) >= 2 => (StartsTwo(p \o t, d, e) <=> StartsTwo(p, d, e))
<1> DEFINE q == p \o t
<1>1. /\ Len(p) \in Nat /\ Len(t) \in Nat /\ Len(q) = Len(p) + Len(t)
      /\ \A i \in 1..Len(p) : q[i] = p[i]
      /\ \A i \in 1..Len(t) : q[Len(p) + i] = t[i]
  BY Joined
<1> HIDE DEF q
<1>2. q[1] = p[1]
  BY <1>1
<1>3. Len(p) >= 2 => q[2] = p[2]
  BY <1>1
<1>4. Len(p) = 1 /\ Len(t) >= 1 => q[2] = t[1]
  <2>1. SUFFICES ASSUME Len(p) = 1, Len(t) >= 1 PROVE q[2] = t[1]
    OBVIOUS
  <2>2. q[Len(p) + 1] = t[1]
    BY <1>1, <2>1
  <2> QED
    BY <2>1, <2>2
<1>5. /\ Starts(q, d) <=> Starts(p, d)
      /\ Len(p) = 1 => (StartsTwo(q, d, e) <=> Starts(p, d) /\ Starts(t, e))
      /\ Len(p) >= 2 => (StartsTwo(q, d, e) <=> StartsTwo(p, d, e))
  BY <1>1, <1>2, <1>3, <1>4 DEF Starts, StartsTwo
<1> QED
  BY <1>5 DEF q

Counts(q) == \E c \in Counting : Has(q, c)

\* What the order says of the first call and of those that follow.
Follows(c, t) ==
  /\ c = "INIT" => Starts(t, "setrun")
  /\ c = "BACKUP" => StartsTwo(t, "setrun", "delete")
  /\ c = "stop_ad" => Starts(t, "BACKUP")
  /\ c = "MASTER" => Has(t, "add")
  /\ c # "arm" => ~Starts(t, "MASTER")
  /\ ~Has(t, "suppressed")
  /\ c \in Counting => ~Counts(t)

\* An orderly list stays so when its first call is made.
LEMMA OrderlyTail ==
  ASSUME NEW c \in CallKind, NEW t \in Seq(CallKind), Orderly(<<c>> \o t)
  PROVE  Orderly(t) /\ Follows(c, t)
<1> DEFINE p == <<c>>
           q == p \o t
<1>0. p \in Seq(CallKind) /\ Len(p) = 1 /\ p[1] = c
  BY Single
<1>1. /\ q \in Seq(CallKind) /\ Len(t) \in Nat /\ Len(q) = Len(t) + 1
      /\ q[1] = c
      /\ \A i \in 1..Len(t) : q[i + 1] = t[i]
  <2>0. p \in Seq(CallKind)
    BY <1>0
  <2> HIDE DEF p
  <2>1. /\ q \in Seq(CallKind) /\ Len(p) \in Nat /\ Len(t) \in Nat /\ Len(q) = Len(p) + Len(t)
        /\ \A i \in 1..Len(p) : q[i] = p[i]
        /\ \A i \in 1..Len(t) : q[Len(p) + i] = t[i]
    BY <2>0, Joined
  <2> HIDE DEF q
  <2> QED
    BY <1>0, <2>1
<1>2. Tidy(q) /\ Once(q)
  BY DEF Orderly
<1> HIDE DEF q, p
<1>3. Tidy(t)
  <2>1. ASSUME NEW i \in 1..Len(t), t[i] = "INIT"
        PROVE  i + 1 <= Len(t) /\ t[i + 1] = "setrun"
    <3>1. i + 1 \in 1..Len(q) /\ q[i + 1] = "INIT"
      BY <1>1, <2>1
    <3>2. (i + 1) + 1 <= Len(q) /\ q[(i + 1) + 1] = "setrun"
      BY <1>2, <3>1 DEF Tidy
    <3> QED
      BY <1>1, <3>1, <3>2
  <2>2. ASSUME NEW i \in 1..Len(t), t[i] = "BACKUP"
        PROVE  i + 2 <= Len(t) /\ t[i + 1] = "setrun" /\ t[i + 2] = "delete"
    <3>1. i + 1 \in 1..Len(q) /\ q[i + 1] = "BACKUP"
      BY <1>1, <2>2
    <3>2. (i + 1) + 2 <= Len(q) /\ q[(i + 1) + 1] = "setrun" /\ q[(i + 1) + 2] = "delete"
      BY <1>2, <3>1 DEF Tidy
    <3>3. i + 1 \in 1..Len(t) /\ i + 2 \in 1..Len(t)
      BY <1>1, <3>1, <3>2
    <3>4. q[(i + 1) + 1] = t[i + 1] /\ q[(i + 2) + 1] = t[i + 2]
      BY <1>1, <3>3
    <3> QED
      BY <1>1, <3>2, <3>3, <3>4
  <2>3. ASSUME NEW i \in 1..Len(t), t[i] = "stop_ad"
        PROVE  i + 1 <= Len(t) /\ t[i + 1] = "BACKUP"
    <3>1. i + 1 \in 1..Len(q) /\ q[i + 1] = "stop_ad"
      BY <1>1, <2>3
    <3>2. (i + 1) + 1 <= Len(q) /\ q[(i + 1) + 1] = "BACKUP"
      BY <1>2, <3>1 DEF Tidy
    <3> QED
      BY <1>1, <3>1, <3>2
  <2>4. ASSUME NEW i \in 1..Len(t), t[i] = "MASTER"
        PROVE  \E j \in (i + 1)..Len(t) : t[j] = "add"
    <3>1. i + 1 \in 1..Len(q) /\ q[i + 1] = "MASTER"
      BY <1>1, <2>4
    <3>2. PICK j \in ((i + 1) + 1)..Len(q) : q[j] = "add"
      BY <1>2, <3>1 DEF Tidy
    <3>3. j - 1 \in (i + 1)..Len(t) /\ j - 1 \in 1..Len(t) /\ (j - 1) + 1 = j
      BY <1>1, <3>2
    <3>4. t[j - 1] = "add"
      BY <1>1, <3>2, <3>3
    <3> QED
      BY <3>3, <3>4
  <2>5. ASSUME NEW i \in 1..Len(t), i + 1 <= Len(t), t[i + 1] = "MASTER"
        PROVE  t[i] = "arm"
    <3>1. i + 1 \in 1..Len(t)
      BY <1>1, <2>5
    <3>2. i + 1 \in 1..Len(q) /\ (i + 1) + 1 <= Len(q) /\ q[(i + 1) + 1] = "MASTER"
      BY <1>1, <2>5, <3>1
    <3>3. q[i + 1] = "arm"
      BY <1>2, <3>2 DEF Tidy
    <3> QED
      BY <1>1, <3>3
  <2> QED
    BY <2>1, <2>2, <2>3, <2>4, <2>5 DEF Tidy
<1>4. Once(t)
  <2>1. ASSUME NEW i \in 1..Len(t), t[i] = "suppressed"
        PROVE  FALSE
    <3>1. i + 1 \in 1..Len(q) /\ q[i + 1] = "suppressed" /\ i + 1 # 1
      BY <1>1, <2>1
    <3> QED
      BY <1>2, <3>1 DEF Once
  <2>2. ASSUME NEW i \in 1..Len(t), NEW j \in 1..Len(t), t[i] \in Counting, t[j] \in Counting
        PROVE  i = j
    <3>1. i + 1 \in 1..Len(q) /\ j + 1 \in 1..Len(q) /\ q[i + 1] \in Counting /\ q[j + 1] \in Counting
      BY <1>1, <2>2
    <3>2. i + 1 = j + 1
      BY <1>2, <3>1 DEF Once
    <3> QED
      BY <3>2
  <2> QED
    BY <2>1, <2>2 DEF Once
<1>5. Follows(c, t)
  <2>1. 1 \in 1..Len(q) /\ q[1] = c
    BY <1>1
  <2>2. ASSUME c = "INIT" PROVE Starts(t, "setrun")
    <3>1. 1 + 1 <= Len(q) /\ q[1 + 1] = "setrun"
      BY <1>2, <2>1, <2>2 DEF Tidy
    <3> QED
      BY <1>1, <3>1 DEF Starts
  <2>3. ASSUME c = "BACKUP" PROVE StartsTwo(t, "setrun", "delete")
    <3>1. 1 + 2 <= Len(q) /\ q[1 + 1] = "setrun" /\ q[1 + 2] = "delete"
      BY <1>2, <2>1, <2>3 DEF Tidy
    <3>2. 2 \in 1..Len(t) /\ 1 \in 1..Len(t) /\ q[1 + 1] = t[1] /\ q[2 + 1] = t[2]
      BY <1>1, <3>1
    <3> QED
      BY <1>1, <3>1, <3>2 DEF StartsTwo
  <2>4. ASSUME c = "stop_ad" PROVE Starts(t, "BACKUP")
    <3>1. 1 + 1 <= Len(q) /\ q[1 + 1] = "BACKUP"
      BY <1>2, <2>1, <2>4 DEF Tidy
    <3> QED
      BY <1>1, <3>1 DEF Starts
  <2>5. ASSUME c = "MASTER" PROVE Has(t, "add")
    <3>1. PICK j \in (1 + 1)..Len(q) : q[j] = "add"
      BY <1>2, <2>1, <2>5 DEF Tidy
    <3>2. j - 1 \in 1..Len(t) /\ (j - 1) + 1 = j
      BY <1>1, <3>1
    <3>3. t[j - 1] = "add"
      BY <1>1, <3>1, <3>2
    <3> QED
      BY <3>2, <3>3 DEF Has
  <2>6. ASSUME c # "arm" PROVE ~Starts(t, "MASTER")
    <3>1. SUFFICES ASSUME Len(t) >= 1, t[1] = "MASTER" PROVE FALSE
      BY DEF Starts
    <3>2. 1 + 1 <= Len(q) /\ q[1 + 1] = "MASTER"
      BY <1>1, <3>1
    <3> QED
      BY <1>2, <2>1, <2>6, <3>2 DEF Tidy
  <2>7. ~Has(t, "suppressed")
    <3>1. ASSUME NEW i \in 1..Len(t), t[i] = "suppressed" PROVE FALSE
      <4>1. i + 1 \in 1..Len(q) /\ q[i + 1] = "suppressed" /\ i + 1 # 1
        BY <1>1, <3>1
      <4> QED
        BY <1>2, <4>1 DEF Once
    <3> QED
      BY <3>1 DEF Has
  <2>8. ASSUME c \in Counting PROVE ~Counts(t)
    <3>1. ASSUME NEW i \in 1..Len(t), t[i] \in Counting PROVE FALSE
      <4>1. i + 1 \in 1..Len(q) /\ q[i + 1] \in Counting /\ i + 1 # 1
        BY <1>1, <3>1
      <4> QED
        BY <1>2, <2>1, <2>8, <4>1 DEF Once
    <3> QED
      BY <3>1 DEF Has, Counts
  <2> QED
    BY <2>2, <2>3, <2>4, <2>5, <2>6, <2>7, <2>8 DEF Follows
<1> QED
  BY <1>3, <1>4, <1>5 DEF Orderly

\* What a walk leaves to do may come before an orderly list.
LEMMA OrderlyAhead ==
  ASSUME NEW p, Orderly(p), Len(p) >= 1, NEW t, Orderly(t),
         ~Starts(t, "MASTER"), ~Has(t, "suppressed"), Counts(p) => ~Counts(t)
  PROVE  Orderly(p \o t)
<1> DEFINE q == p \o t
           n == Len(p)
<1>0. p \in Seq(CallKind) /\ t \in Seq(CallKind) /\ Tidy(p) /\ Tidy(t) /\ Once(p) /\ Once(t)
  BY DEF Orderly
<1>1. /\ q \in Seq(CallKind) /\ n \in Nat /\ Len(t) \in Nat /\ Len(q) = n + Len(t)
      /\ \A i \in 1..n : q[i] = p[i]
      /\ \A i \in 1..Len(t) : q[n + i] = t[i]
      /\ \A i \in 1..Len(q) : i \in 1..n \/ (i - n \in 1..Len(t) /\ q[i] = t[i - n])
  <2>1. /\ q \in Seq(CallKind) /\ n \in Nat /\ Len(t) \in Nat /\ Len(q) = n + Len(t)
        /\ \A i \in 1..n : q[i] = p[i]
        /\ \A i \in 1..Len(t) : q[n + i] = t[i]
        /\ \A i \in 1..Len(q) : i <= n \/ (i - n \in 1..Len(t) /\ q[i] = t[i - n])
    BY <1>0, Joined
  <2> HIDE DEF q
  <2> QED
    BY <2>1
<1>p. /\ \A i \in 1..n : p[i] = "INIT" => i + 1 <= n /\ p[i + 1] = "setrun"
      /\ \A i \in 1..n : p[i] = "BACKUP" => i + 2 <= n /\ p[i + 1] = "setrun" /\ p[i + 2] = "delete"
      /\ \A i \in 1..n : p[i] = "stop_ad" => i + 1 <= n /\ p[i + 1] = "BACKUP"
      /\ \A i \in 1..n : p[i] = "MASTER" => \E j \in (i + 1)..n : p[j] = "add"
      /\ \A i \in 1..n : i + 1 <= n /\ p[i + 1] = "MASTER" => p[i] = "arm"
  BY <1>0 DEF Tidy
<1> HIDE DEF q, n
<1>2. Tidy(q)
  <2>1. ASSUME NEW i \in 1..Len(q), q[i] = "INIT"
        PROVE  i + 1 <= Len(q) /\ q[i + 1] = "setrun"
    <3>1. CASE i \in 1..n
      <4>1. i + 1 <= n /\ p[i + 1] = "setrun"
        BY <1>p, <1>1, <2>1, <3>1
      <4> QED
        BY <1>1, <3>1, <4>1
    <3>2. CASE i - n \in 1..Len(t) /\ q[i] = t[i - n]
      <4>1. (i - n) + 1 <= Len(t) /\ t[(i - n) + 1] = "setrun"
        BY <1>0, <2>1, <3>2 DEF Tidy
      <4>2. n + ((i - n) + 1) = i + 1 /\ (i - n) + 1 \in 1..Len(t)
        BY <1>1, <3>2, <4>1
      <4> QED
        BY <1>1, <4>1, <4>2
    <3> QED
      BY <1>1, <3>1, <3>2
  <2>2. ASSUME NEW i \in 1..Len(q), q[i] = "BACKUP"
        PROVE  i + 2 <= Len(q) /\ q[i + 1] = "setrun" /\ q[i + 2] = "delete"
    <3>1. CASE i \in 1..n
      <4>1. i + 2 <= n /\ p[i + 1] = "setrun" /\ p[i + 2] = "delete"
        BY <1>p, <1>1, <2>2, <3>1
      <4> QED
        BY <1>1, <3>1, <4>1
    <3>2. CASE i - n \in 1..Len(t) /\ q[i] = t[i - n]
      <4>1. (i - n) + 2 <= Len(t) /\ t[(i - n) + 1] = "setrun" /\ t[(i - n) + 2] = "delete"
        BY <1>0, <2>2, <3>2 DEF Tidy
      <4>2. n + ((i - n) + 1) = i + 1 /\ (i - n) + 1 \in 1..Len(t)
            /\ n + ((i - n) + 2) = i + 2 /\ (i - n) + 2 \in 1..Len(t)
        BY <1>1, <3>2, <4>1
      <4>3. q[i + 1] = t[(i - n) + 1] /\ q[i + 2] = t[(i - n) + 2]
        <5>1. q[n + ((i - n) + 1)] = t[(i - n) + 1]
          BY <1>1, <4>2
        <5>2. q[n + ((i - n) + 2)] = t[(i - n) + 2]
          BY <1>1, <4>2
        <5> QED
          BY <4>2, <5>1, <5>2
      <4> QED
        BY <1>1, <4>1, <4>2, <4>3
    <3> QED
      BY <1>1, <3>1, <3>2
  <2>3. ASSUME NEW i \in 1..Len(q), q[i] = "stop_ad"
        PROVE  i + 1 <= Len(q) /\ q[i + 1] = "BACKUP"
    <3>1. CASE i \in 1..n
      <4>1. i + 1 <= n /\ p[i + 1] = "BACKUP"
        BY <1>p, <1>1, <2>3, <3>1
      <4> QED
        BY <1>1, <3>1, <4>1
    <3>2. CASE i - n \in 1..Len(t) /\ q[i] = t[i - n]
      <4>1. (i - n) + 1 <= Len(t) /\ t[(i - n) + 1] = "BACKUP"
        BY <1>0, <2>3, <3>2 DEF Tidy
      <4>2. n + ((i - n) + 1) = i + 1 /\ (i - n) + 1 \in 1..Len(t)
        BY <1>1, <3>2, <4>1
      <4> QED
        BY <1>1, <4>1, <4>2
    <3> QED
      BY <1>1, <3>1, <3>2
  <2>4. ASSUME NEW i \in 1..Len(q), q[i] = "MASTER"
        PROVE  \E j \in (i + 1)..Len(q) : q[j] = "add"
    <3>1. CASE i \in 1..n
      <4>1. PICK j \in (i + 1)..n : p[j] = "add"
        BY <1>p, <1>1, <2>4, <3>1
      <4>2. j \in (i + 1)..Len(q) /\ j \in 1..n
        BY <1>1, <3>1
      <4>3. q[j] = "add"
        BY <1>1, <4>1, <4>2
      <4> QED
        BY <4>2, <4>3
    <3>2. CASE i - n \in 1..Len(t) /\ q[i] = t[i - n]
      <4>1. PICK j \in ((i - n) + 1)..Len(t) : t[j] = "add"
        BY <1>0, <2>4, <3>2 DEF Tidy
      <4>2. n + j \in (i + 1)..Len(q) /\ j \in 1..Len(t)
        BY <1>1, <3>2
      <4>3. q[n + j] = "add"
        BY <1>1, <4>1, <4>2
      <4> QED
        BY <4>2, <4>3
    <3> QED
      BY <1>1, <3>1, <3>2
  <2>5. ASSUME NEW i \in 1..Len(q), i + 1 <= Len(q), q[i + 1] = "MASTER"
        PROVE  q[i] = "arm"
    <3>1. CASE i + 1 \in 1..n
      <4>1. i \in 1..n /\ p[i + 1] = "MASTER"
        BY <1>1, <2>5, <3>1
      <4>2. p[i] = "arm"
        BY <1>p, <1>1, <3>1, <4>1
      <4> QED
        BY <1>1, <4>1, <4>2
    <3>2. CASE i = n
      <4>1. 1 \in 1..Len(t) /\ q[n + 1] = t[1]
        BY <1>1, <2>5, <3>2
      <4> QED
        BY <2>5, <3>2, <4>1 DEF Starts
    <3>3. CASE i - n \in 1..Len(t)
      <4>1. n + ((i - n) + 1) = i + 1 /\ (i - n) + 1 \in 1..Len(t) /\ n + (i - n) = i
        BY <1>1, <2>5, <3>3
      <4>2. q[i + 1] = t[(i - n) + 1] /\ q[i] = t[i - n]
        BY <1>1, <3>3, <4>1
      <4>3. t[i - n] = "arm"
        BY <1>0, <2>5, <3>3, <4>1, <4>2 DEF Tidy
      <4> QED
        BY <4>2, <4>3
    <3> QED
      BY <1>1, <2>5, <3>1, <3>2, <3>3
  <2> QED
    BY <2>1, <2>2, <2>3, <2>4, <2>5 DEF Tidy
<1>3. Once(q)
  <2>1. ASSUME NEW i \in 1..Len(q), q[i] = "suppressed" PROVE i = 1
    <3>1. CASE i \in 1..n
      BY <1>0, <1>1, <2>1, <3>1 DEF Once, n
    <3>2. CASE i - n \in 1..Len(t) /\ q[i] = t[i - n]
      BY <2>1, <3>2 DEF Has
    <3> QED
      BY <1>1, <3>1, <3>2
  <2>2. \A i \in 1..Len(t) : t[i] \in Counting => Counts(t)
    BY DEF Counts, Has
  <2>3. \A i \in 1..n : p[i] \in Counting => Counts(p)
    BY DEF Counts, Has, n
  <2>4. ASSUME NEW i \in 1..Len(q), NEW j \in 1..Len(q), q[i] \in Counting, q[j] \in Counting
        PROVE  i = j
    <3>1. CASE i \in 1..n /\ j \in 1..n
      BY <1>0, <1>1, <2>4, <3>1 DEF Once, n
    <3>2. CASE i - n \in 1..Len(t) /\ q[i] = t[i - n] /\ j - n \in 1..Len(t) /\ q[j] = t[j - n]
      <4>1. i - n = j - n
        BY <1>0, <2>4, <3>2 DEF Once
      <4> QED
        BY <1>1, <4>1
    <3>3. CASE i \in 1..n /\ j - n \in 1..Len(t) /\ q[j] = t[j - n]
      BY <1>1, <2>2, <2>3, <2>4, <3>3
    <3>4. CASE j \in 1..n /\ i - n \in 1..Len(t) /\ q[i] = t[i - n]
      BY <1>1, <2>2, <2>3, <2>4, <3>4
    <3> QED
      BY <1>1, <3>1, <3>2, <3>3, <3>4
  <2> QED
    BY <2>1, <2>4 DEF Once
<1> QED
  BY <1>1, <1>2, <1>3 DEF Orderly, q

-----------------------------------------------------------------------------
(* What a call does, in the terms that the invariants are stated in. *)

\* The rests that a call leaves which gives up the lock.
Openings(c) ==
  CASE c = "send_ad"  -> {<<"nosuccess", "arm">>, <<"nosuccess">>}
    [] c = "setrun"   -> {ElectRest}
    [] c = "suppress" -> {<<"suppressed">>}
    [] OTHER -> {}

Counter(y, z, v, c) ==
  LET x == y.sc[v]
      w == z.sc[v]
  IN /\ c \notin Counting => Counted(y, z, v) /\ (w.suppress <=> x.suppress)
     /\ c \in Counting => w.errors = x.errors
     /\ c = "suppress" => /\ z.demoted = y.demoted + (IF x.suppress THEN 0 ELSE 1)
                          /\ IF z.open THEN ~x.suppress /\ ~w.suppress ELSE w.suppress
     /\ c = "unsuppress" => z.demoted = y.demoted - (IF x.suppress THEN 1 ELSE 0) /\ ~w.suppress
     /\ c = "suppressed" => z.demoted = y.demoted /\ w.suppress

Role(x, w, c, o, open) ==
  /\ w.addr = x.addr /\ w.up = x.up /\ w.backup = x.backup
  /\ IF c = "setrun" THEN w.running <=> x.up /\ x.addr ELSE w.running = x.running
  /\ c \notin State \cup {"setrun"} => w.state = x.state
  /\ c \in State => w.state = c
  /\ c \notin {"setrun", "add", "delete"} => w.route = x.route
  /\ c = "add" => IF x.state = "MASTER" THEN w.route ELSE w.route = x.route
  /\ c = "delete" => IF x.state = "MASTER" THEN w.route = x.route ELSE ~w.route
  /\ c = "setrun" =>
       \/ open /\ x.up /\ x.addr /\ x.state = "INIT" /\ w.state = "INIT" /\ w.route = x.route
       \/ ~open /\ x.up /\ x.addr /\ x.state = "INIT" /\ w.state = "MASTER" /\ w.route
       \/ ~open /\ x.up /\ x.addr /\ x.state = "INIT" /\ w.state = "BACKUP" /\ ~w.route
       \/ ~open /\ x.up /\ x.addr /\ x.state # "INIT" /\ w.state = x.state /\ w.route = x.route
       \/ ~open /\ ~(x.up /\ x.addr) /\ w.state = x.state /\ (w.route <=> x.route /\ x.state = "MASTER")

Timers(x, w, c, o, z) ==
  /\ w.adRuns = x.adRuns /\ w.mdRuns = x.mdRuns
  /\ c # "setrun" => w.md = x.md
  /\ c \notin {"setrun", "stop_ad"} => (x.ad => w.ad)
  /\ c = "arm" => w.ad
  /\ c = "send_ad" /\ o # "notag" /\ Runs(x) => IF z.open THEN z.rest = <<"nosuccess", "arm">> ELSE w.ad
  /\ c = "setrun" /\ ~z.open /\ x.up /\ x.addr /\ o # "notag" =>
       /\ w.state = "MASTER" => w.ad
       /\ w.state = "BACKUP" => w.md

Effect(y, z, v, c, o) ==
  /\ z \in Frame /\ Leaves(y, z, v)
  /\ IF z.open THEN z.rest \in Openings(c) ELSE z.rest = y.rest
  /\ o # "failed" /\ y.sc[v].errors = 0 => z.sc[v].errors = 0
  /\ Counter(y, z, v, c)
  /\ Role(y.sc[v], z.sc[v], c, o, z.open)
  /\ Timers(y.sc[v], z.sc[v], c, o, z)

\* A call that only touches the softc.
LEMMA TouchEffect ==
  ASSUME NEW y \in Frame, NEW v \in Vhid, NEW o \in Outcome, ~y.open, NEW z, NEW w,
         Touches(y, z, v, w), NEW c \in CallKind, w.errors = y.sc[v].errors,
         c \notin Counting => w.suppress = y.sc[v].suppress,
         c \in Counting => c = "suppressed" /\ w.suppress,
         Role(y.sc[v], w, c, o, FALSE), Timers(y.sc[v], w, c, o, z)
  PROVE  Effect(y, z, v, c, o)
<1> DEFINE x == y.sc[v]
<1>1. z \in Frame /\ Leaves(y, z, v) /\ z.sc[v] = w /\ z.demoted = y.demoted /\ z.open = y.open /\ z.rest = y.rest
  BY DEF Touches
<1>2. Bit(Ailing(x)) \in Int /\ y.demoted \in Int /\ (Ailing(x) <=> Ailing(w))
  BY DEF Bit, Ailing, Frame
<1>3. Counted(y, z, v)
  BY <1>1, <1>2 DEF Counted, Bit
<1>4. Counter(y, z, v, c)
  BY <1>1, <1>3 DEF Counter, Counting
<1>5. z.open = FALSE
  BY <1>1 DEF Frame
<1> HIDE DEF x
<1> QED
  BY <1>1, <1>4, <1>5 DEF Effect

\* The effect of a call that sets one field.
LEMMA PlainEffect ==
  ASSUME NEW y \in Frame, NEW v \in Vhid, NEW o \in Outcome, ~y.open,
         NEW c \in {"suppressed", "nosuccess", "arm", "stop_ad"}
  PROVE  Effect(y, Call(y, v, c, o), v, c, o)
<1> DEFINE x == y.sc[v]
           z == Call(y, v, c, o)
<1>1. x \in Softc
  BY DEF Frame
<1>2. c \in CallKind /\ c \notin State
  BY DEF CallKind, State
<1>3. CASE c = "suppressed"
  <2> DEFINE w == [x EXCEPT !.suppress = TRUE]
  <2>1. Touches(y, z, v, w)
    BY <1>3, PlainCalls
  <2> HIDE DEF x
  <2>2. w.errors = x.errors /\ w.suppress /\ Role(x, w, c, o, FALSE) /\ Timers(x, w, c, o, z)
    BY <1>1, <1>2, <1>3 DEF Softc, Role, Timers
  <2> HIDE DEF w, z
  <2>3. c \in Counting
    BY <1>3 DEF Counting
  <2> QED
    BY <1>2, <1>3, <2>1, <2>2, <2>3, TouchEffect DEF x, z
<1>4. CASE c = "nosuccess"
  <2> DEFINE w == [x EXCEPT !.success = 0]
  <2>1. Touches(y, z, v, w)
    BY <1>4, PlainCalls
  <2> HIDE DEF x
  <2>2. w.errors = x.errors /\ w.suppress = x.suppress /\ Role(x, w, c, o, FALSE) /\ Timers(x, w, c, o, z)
    BY <1>1, <1>2, <1>4 DEF Softc, Role, Timers
  <2> HIDE DEF w, z
  <2>3. c \notin Counting
    BY <1>4 DEF Counting
  <2> QED
    BY <1>2, <2>1, <2>2, <2>3, TouchEffect DEF x, z
<1>5. CASE c = "arm"
  <2> DEFINE w == [x EXCEPT !.ad = TRUE]
  <2>1. Touches(y, z, v, w)
    BY <1>5, PlainCalls
  <2> HIDE DEF x
  <2>2. w.errors = x.errors /\ w.suppress = x.suppress /\ Role(x, w, c, o, FALSE) /\ Timers(x, w, c, o, z)
    BY <1>1, <1>2, <1>5 DEF Softc, Role, Timers
  <2> HIDE DEF w, z
  <2>3. c \notin Counting
    BY <1>5 DEF Counting
  <2> QED
    BY <1>2, <2>1, <2>2, <2>3, TouchEffect DEF x, z
<1>6. CASE c = "stop_ad"
  <2> DEFINE w == [x EXCEPT !.ad = FALSE]
  <2>1. Touches(y, z, v, w)
    BY <1>6, PlainCalls
  <2> HIDE DEF x
  <2>2. w.errors = x.errors /\ w.suppress = x.suppress /\ Role(x, w, c, o, FALSE) /\ Timers(x, w, c, o, z)
    BY <1>1, <1>2, <1>6 DEF Softc, Role, Timers
  <2> HIDE DEF w, z
  <2>3. c \notin Counting
    BY <1>6 DEF Counting
  <2> QED
    BY <1>2, <2>1, <2>2, <2>3, TouchEffect DEF x, z
<1> QED
  BY <1>3, <1>4, <1>5, <1>6

\* The effect of a call that sets the state.
LEMMA StateEffect ==
  ASSUME NEW y \in Frame, NEW v \in Vhid, NEW o \in Outcome, ~y.open, NEW c \in State
  PROVE  Effect(y, Call(y, v, c, o), v, c, o)
<1> DEFINE x == y.sc[v]
           z == Call(y, v, c, o)
           w == [x EXCEPT !.state = c]
<1>1. x \in Softc
  BY DEF Frame
<1>2. c \in CallKind /\ c \notin Counting /\ c \notin {"setrun", "add", "delete", "stop_ad", "arm", "send_ad"}
  BY DEF CallKind, State, Counting
<1>3. Touches(y, z, v, w)
  BY StateCalls
<1> HIDE DEF x
<1>4. w.errors = x.errors /\ w.suppress = x.suppress /\ Role(x, w, c, o, FALSE) /\ Timers(x, w, c, o, z)
  BY <1>1, <1>2 DEF Softc, Role, Timers
<1> HIDE DEF w, z
<1> QED
  BY <1>2, <1>3, <1>4, TouchEffect DEF x, z

\* The effect of carp_setroute.
LEMMA RouteEffect ==
  ASSUME NEW y \in Frame, NEW v \in Vhid, NEW o \in Outcome, ~y.open, NEW c \in {"add", "delete"}
  PROVE  Effect(y, Call(y, v, c, o), v, c, o)
<1> DEFINE x == y.sc[v]
           z == Call(y, v, c, o)
           add == c = "add"
           w == Routed(x, add)
<1>1. x \in Softc
  BY DEF Frame
<1>2. c \in CallKind /\ c \notin Counting /\ c \notin State
  BY DEF CallKind, State, Counting
<1>3. Touches(y, z, v, w)
  <2>1. CASE c = "add"
    BY <2>1, RouteCalls
  <2>2. CASE c = "delete"
    BY <2>2, RouteCalls
  <2> QED
    BY <2>1, <2>2
<1> HIDE DEF x
<1>4. w.errors = x.errors /\ w.suppress = x.suppress /\ Role(x, w, c, o, FALSE) /\ Timers(x, w, c, o, z)
  <2>1. CASE c = "add"
    BY <1>1, <1>2, <2>1 DEF Softc, Role, Timers, Routed
  <2>2. CASE c = "delete"
    BY <1>1, <1>2, <2>2 DEF Softc, Role, Timers, Routed
  <2> QED
    BY <2>1, <2>2
<1> HIDE DEF w, z
<1> QED
  BY <1>2, <1>3, <1>4, TouchEffect DEF x, z

\* The effect of carp_send_ad_locked.
LEMMA SendAdCall ==
  ASSUME NEW y \in Frame, NEW v \in Vhid, NEW o \in Outcome, ~y.open
  PROVE  Effect(y, Call(y, v, "send_ad", o), v, "send_ad", o)
<1> DEFINE x == y.sc[v]
           z == SendAd(y, v, o)
           w == z.sc[v]
<1>1. AfterAd(y, z, v, o)
  BY SendAdEffect
<1>2. Call(y, v, "send_ad", o) = z
  BY DEF Call, State
<1> HIDE DEF z
<1>3. /\ z \in Frame /\ Leaves(y, z, v) /\ Advertised(x, w) /\ Counted(y, z, v)
      /\ z.open => z.rest = AdRest(x)
      /\ ~z.open => z.rest = y.rest /\ (o # "notag" /\ Runs(x) => w.ad)
      /\ o # "failed" /\ x.errors = 0 => w.errors = 0
  BY <1>1 DEF AfterAd
<1>4. x \in Softc /\ w \in Softc
  BY <1>3 DEF Frame
<1> HIDE DEF x, w
<1>5. Counter(y, z, v, "send_ad")
  BY <1>3 DEF Counter, Counting, Advertised, SameRole, x, w
<1>6. Role(x, w, "send_ad", o, z.open)
  BY <1>3 DEF Role, State, Advertised, SameRole
<1>7. Timers(x, w, "send_ad", o, z)
  BY <1>3, <1>4 DEF Timers, Advertised, SameRole, AdRest
<1>8. IF z.open THEN z.rest \in Openings("send_ad") ELSE z.rest = y.rest
  BY <1>3 DEF Openings, AdRest
<1> QED
  BY <1>2, <1>3, <1>5, <1>6, <1>7, <1>8 DEF Effect, x, w

\* The effect of carp_setrun.
LEMMA SetRunCall ==
  ASSUME NEW y \in Frame, NEW v \in Vhid, NEW o \in Outcome, ~y.open
  PROVE  Effect(y, Call(y, v, "setrun", o), v, "setrun", o)
<1> DEFINE x == y.sc[v]
           z == SetRun(y, v, o)
           w == z.sc[v]
           may == x.up /\ x.addr
<1>1. AfterRun(y, z, v, o)
  BY SetRunEffect
<1>2. Call(y, v, "setrun", o) = z
  BY DEF Call, State
<1> HIDE DEF z
<1>3. /\ z \in Frame /\ Leaves(y, z, v) /\ SameRole(x, w) /\ Counted(y, z, v)
      /\ o # "failed" /\ x.errors = 0 => w.errors = 0
      /\ w.running <=> may
      /\ z.open => z.rest = ElectRest /\ may /\ x.state = "INIT" /\ w.state = "INIT" /\ w.route = x.route
      /\ ~z.open => z.rest = y.rest
      /\ ~z.open /\ may /\ x.state = "INIT" => Elected(x, w, o)
      /\ ~z.open /\ may /\ x.state = "BACKUP" => w.state = "BACKUP" /\ w.route = x.route /\ w.md
      /\ ~z.open /\ may /\ x.state = "MASTER" => w.state = "MASTER" /\ w.route = x.route /\ w.ad
      /\ ~z.open /\ ~may => w.state = x.state /\ (w.route <=> x.route /\ x.state = "MASTER")
  BY <1>1 DEF AfterRun
<1>4. x \in Softc /\ w \in Softc
  BY <1>3 DEF Frame
<1>5. x.state = "INIT" \/ x.state = "BACKUP" \/ x.state = "MASTER"
  BY <1>4 DEF Softc, State
<1> HIDE DEF x, w
<1>6. Counter(y, z, v, "setrun")
  BY <1>3 DEF Counter, Counting, SameRole, x, w
<1>7. Role(x, w, "setrun", o, z.open)
  <2>1. w.addr = x.addr /\ w.up = x.up /\ w.backup = x.backup
    BY <1>3 DEF SameRole
  <2>2. \/ z.open /\ may /\ x.state = "INIT" /\ w.state = "INIT" /\ w.route = x.route
        \/ ~z.open /\ may /\ x.state = "INIT" /\ w.state = "MASTER" /\ w.route
        \/ ~z.open /\ may /\ x.state = "INIT" /\ w.state = "BACKUP" /\ ~w.route
        \/ ~z.open /\ may /\ x.state # "INIT" /\ w.state = x.state /\ w.route = x.route
        \/ ~z.open /\ ~may /\ w.state = x.state /\ (w.route <=> x.route /\ x.state = "MASTER")
    BY <1>3, <1>5 DEF Elected
  <2> QED
    BY <1>3, <2>1, <2>2 DEF Role, State
<1>8. Timers(x, w, "setrun", o, z)
  <2>1. w.adRuns = x.adRuns /\ w.mdRuns = x.mdRuns
    BY <1>3 DEF SameRole
  <2>2. ~z.open /\ may /\ o # "notag" => (w.state = "MASTER" => w.ad) /\ (w.state = "BACKUP" => w.md)
    BY <1>3, <1>5 DEF Elected
  <2> QED
    BY <2>1, <2>2 DEF Timers
<1>9. IF z.open THEN z.rest \in Openings("setrun") ELSE z.rest = y.rest
  BY <1>3 DEF Openings
<1> QED
  BY <1>2, <1>3, <1>6, <1>7, <1>8, <1>9 DEF Effect, x, w

\* The effect of a demotion: a first one opens a walk before its flag is set.
LEMMA SuppressCall ==
  ASSUME NEW y \in Frame, NEW v \in Vhid, NEW o \in Outcome, ~y.open
  PROVE  Effect(y, Call(y, v, "suppress", o), v, "suppress", o)
<1> DEFINE x == y.sc[v]
           z == Suppress(y, v)
           w == z.sc[v]
<1>1. /\ z \in Frame /\ Leaves(y, z, v)
      /\ z.demoted = y.demoted + (IF x.suppress THEN 0 ELSE 1)
      /\ z.open => z.rest = <<"suppressed">> /\ w = x /\ ~x.suppress
      /\ ~z.open => z.rest = y.rest /\ w = [x EXCEPT !.suppress = TRUE]
  BY SuppressEffect
<1>2. Call(y, v, "suppress", o) = z
  BY DEF Call, State
<1> HIDE DEF z
<1>3. x \in Softc
  BY DEF Frame
<1> HIDE DEF x, w
<1>4. /\ w.errors = x.errors /\ w.addr = x.addr /\ w.up = x.up /\ w.backup = x.backup /\ w.running = x.running
      /\ w.state = x.state /\ w.route = x.route /\ w.ad = x.ad /\ w.md = x.md
      /\ w.adRuns = x.adRuns /\ w.mdRuns = x.mdRuns
      /\ IF z.open THEN ~x.suppress /\ ~w.suppress ELSE w.suppress
  BY <1>1, <1>3 DEF Softc
<1>5. Counter(y, z, v, "suppress")
  BY <1>1, <1>4 DEF Counter, Counting, x, w
<1>6. Role(x, w, "suppress", o, z.open) /\ Timers(x, w, "suppress", o, z)
  BY <1>4 DEF Role, State, Timers
<1>7. IF z.open THEN z.rest \in Openings("suppress") ELSE z.rest = y.rest
  BY <1>1 DEF Openings
<1> QED
  BY <1>1, <1>2, <1>4, <1>5, <1>6, <1>7 DEF Effect, x, w

\* The effect of the end of a demotion.
LEMMA UnsuppressCall ==
  ASSUME NEW y \in Frame, NEW v \in Vhid, NEW o \in Outcome, ~y.open
  PROVE  Effect(y, Call(y, v, "unsuppress", o), v, "unsuppress", o)
<1> DEFINE x == y.sc[v]
           z == Unsuppress(y, v)
           w == z.sc[v]
<1>1. /\ z \in Frame /\ Leaves(y, z, v)
      /\ z.demoted = y.demoted - (IF x.suppress THEN 1 ELSE 0)
      /\ w = [x EXCEPT !.suppress = FALSE]
      /\ z.open = y.open /\ z.rest = y.rest
  BY UnsuppressEffect
<1>2. Call(y, v, "unsuppress", o) = z
  BY DEF Call, State
<1> HIDE DEF z
<1>3. x \in Softc
  BY DEF Frame
<1> HIDE DEF x, w
<1>4. /\ w.errors = x.errors /\ w.addr = x.addr /\ w.up = x.up /\ w.backup = x.backup /\ w.running = x.running
      /\ w.state = x.state /\ w.route = x.route /\ w.ad = x.ad /\ w.md = x.md
      /\ w.adRuns = x.adRuns /\ w.mdRuns = x.mdRuns /\ ~w.suppress
  BY <1>1, <1>3 DEF Softc
<1>5. Counter(y, z, v, "unsuppress")
  BY <1>1, <1>4 DEF Counter, Counting, x, w
<1>6. Role(x, w, "unsuppress", o, z.open) /\ Timers(x, w, "unsuppress", o, z)
  BY <1>1, <1>4 DEF Role, State, Timers
<1> QED
  BY <1>1, <1>2, <1>4, <1>5, <1>6 DEF Effect, x, w

\* The effect of every call.
LEMMA CallEffect ==
  ASSUME NEW y \in Frame, NEW v \in Vhid, NEW o \in Outcome, ~y.open, NEW c \in CallKind
  PROVE  Effect(y, Call(y, v, c, o), v, c, o)
<1>1. CASE c = "send_ad"
  BY <1>1, SendAdCall
<1>2. CASE c = "setrun"
  BY <1>2, SetRunCall
<1>3. CASE c = "suppress"
  BY <1>3, SuppressCall
<1>4. CASE c = "unsuppress"
  BY <1>4, UnsuppressCall
<1>5. CASE c \in {"suppressed", "nosuccess", "arm", "stop_ad"}
  BY <1>5, PlainEffect
<1>6. CASE c \in State
  BY <1>6, StateEffect
<1>7. CASE c \in {"add", "delete"}
  BY <1>7, RouteEffect
<1>8. \/ c = "send_ad" \/ c = "setrun" \/ c = "suppress" \/ c = "unsuppress"
      \/ c \in {"suppressed", "nosuccess", "arm", "stop_ad"} \/ c \in State \/ c \in {"add", "delete"}
  BY DEF CallKind, State
<1> QED
  BY <1>1, <1>2, <1>3, <1>4, <1>5, <1>6, <1>7, <1>8

\* An opening is in order.
Short(r) ==
  /\ \A i \in 1..Len(r) : r[i] \in {"suppressed", "nosuccess", "arm", "MASTER", "add"}
  /\ \A i \in 1..Len(r) : r[i] = "suppressed" => Len(r) = 1
  /\ \A i \in 1..Len(r) : r[i] = "MASTER" => i + 1 <= Len(r) /\ r[i + 1] = "add"
  /\ \A i \in 1..Len(r) : i + 1 <= Len(r) /\ r[i + 1] = "MASTER" => r[i] = "arm"

\* The lists that a walk leaves are short, and orderly.
LEMMA ShortOrderly ==
  ASSUME NEW r \in Seq(CallKind), Len(r) >= 1, Short(r)
  PROVE  Orderly(r)
<1>1. Len(r) \in Nat
  OBVIOUS
<1>2. Tidy(r)
  <2>1. ASSUME NEW i \in 1..Len(r), r[i] = "MASTER"
        PROVE  \E j \in (i + 1)..Len(r) : r[j] = "add"
    <3>1. i + 1 \in (i + 1)..Len(r) /\ r[i + 1] = "add"
      BY <1>1, <2>1 DEF Short
    <3> QED
      BY <3>1
  <2> QED
    BY <2>1 DEF Tidy, Short
<1>3. Once(r)
  <2>1. \A i \in 1..Len(r) : r[i] \in Counting => r[i] = "suppressed"
    BY DEF Counting, Short
  <2>2. \A i, j \in 1..Len(r) : r[i] \in Counting /\ r[j] \in Counting => i = j
    BY <1>1, <2>1 DEF Short
  <2> QED
    BY <1>1, <2>2 DEF Once, Short
<1> QED
  BY <1>2, <1>3 DEF Orderly

\* What a call that opens a walk leaves to do.
LEMMA OpeningShape ==
  ASSUME NEW c \in CallKind, NEW r, r \in Openings(c)
  PROVE  /\ Orderly(r) /\ Len(r) >= 1
         /\ c \in {"send_ad", "setrun", "suppress"}
         /\ c # "suppress" => Starts(r, "nosuccess") /\ ~Counts(r)
         /\ c = "suppress" => Starts(r, "suppressed")
         /\ c = "setrun" => Has(r, "MASTER")
         /\ r = <<"nosuccess", "arm">> => Has(r, "arm")
<1>1. CASE c = "send_ad" /\ r = <<"nosuccess", "arm">>
  <2>1. r \in Seq(CallKind) /\ Len(r) = 2 /\ r[1] = "nosuccess" /\ r[2] = "arm"
    BY <1>1 DEF CallKind
  <2>2. \A i \in 1..Len(r) : i = 1 \/ i = 2
    BY <2>1
  <2>3. Orderly(r)
    <3>1. Short(r)
      BY <2>1, <2>2 DEF Short
    <3>2. r \in Seq(CallKind)
      BY <2>1
    <3>3. Len(r) >= 1
      BY <2>1
    <3> QED
      BY <3>1, <3>2, <3>3, ShortOrderly, Zenon
  <2>4. ~Counts(r)
    BY <2>1, <2>2 DEF Counts, Has, Counting
  <2>5. Has(r, "arm")
    <3>1. 2 \in 1..Len(r)
      BY <2>1
    <3> QED
      BY <2>1, <3>1 DEF Has
  <2> QED
    BY <1>1, <2>1, <2>3, <2>4, <2>5 DEF Starts
<1>2. CASE c = "send_ad" /\ r = <<"nosuccess">>
  <2>1. r \in Seq(CallKind) /\ Len(r) = 1 /\ r[1] = "nosuccess"
    BY <1>2 DEF CallKind
  <2>2. \A i \in 1..Len(r) : i = 1
    BY <2>1
  <2>3. Orderly(r)
    <3>1. Short(r)
      BY <2>1, <2>2 DEF Short
    <3>2. r \in Seq(CallKind)
      BY <2>1
    <3>3. Len(r) >= 1
      BY <2>1
    <3> QED
      BY <3>1, <3>2, <3>3, ShortOrderly, Zenon
  <2>4. ~Counts(r)
    BY <2>1, <2>2 DEF Counts, Has, Counting
  <2>5. r # <<"nosuccess", "arm">>
    BY <1>2
  <2> QED
    BY <1>2, <2>1, <2>3, <2>4, <2>5 DEF Starts
<1>3. CASE c = "setrun" /\ r = ElectRest
  <2>1. r \in Seq(CallKind) /\ Len(r) = 4 /\ r[1] = "nosuccess" /\ r[2] = "arm" /\ r[3] = "MASTER" /\ r[4] = "add"
    BY <1>3 DEF ElectRest, CallKind
  <2>2. \A i \in 1..Len(r) : i = 1 \/ i = 2 \/ i = 3 \/ i = 4
    BY <2>1
  <2>3. Orderly(r)
    <3>1. \A i \in 1..Len(r) : r[i] = "MASTER" => i + 1 <= Len(r) /\ r[i + 1] = "add"
      BY <2>1, <2>2
    <3>2. \A i \in 1..Len(r) : i + 1 <= Len(r) /\ r[i + 1] = "MASTER" => r[i] = "arm"
      BY <2>1, <2>2
    <3>3. Short(r)
      BY <2>1, <2>2, <3>1, <3>2 DEF Short
    <3> QED
      BY <2>1, <3>3, ShortOrderly
  <2>4. ~Counts(r)
    BY <2>1, <2>2 DEF Counts, Has, Counting
  <2>5. Has(r, "MASTER") /\ Has(r, "arm")
    <3>1. 3 \in 1..Len(r) /\ 2 \in 1..Len(r)
      BY <2>1
    <3> QED
      BY <2>1, <3>1 DEF Has
  <2> QED
    BY <1>3, <2>1, <2>3, <2>4, <2>5 DEF Starts
<1>4. CASE c = "suppress" /\ r = <<"suppressed">>
  <2>1. r \in Seq(CallKind) /\ Len(r) = 1 /\ r[1] = "suppressed"
    BY <1>4 DEF CallKind
  <2>2. \A i \in 1..Len(r) : i = 1
    BY <2>1
  <2>3. Orderly(r)
    <3>1. Short(r)
      BY <2>1, <2>2 DEF Short
    <3>2. r \in Seq(CallKind)
      BY <2>1
    <3>3. Len(r) >= 1
      BY <2>1
    <3> QED
      BY <3>1, <3>2, <3>3, ShortOrderly, Zenon
  <2>4. r # <<"nosuccess", "arm">>
    BY <1>4
  <2> QED
    BY <1>4, <2>1, <2>3, <2>4 DEF Starts
<1> DEFINE both == <<"nosuccess", "arm">>
           one == <<"nosuccess">>
           late == <<"suppressed">>
<1>5. \/ c = "send_ad" /\ r = both
      \/ c = "send_ad" /\ r = one
      \/ c = "setrun" /\ r = ElectRest
      \/ c = "suppress" /\ r = late
  <2> HIDE DEF both, one, late
  <2>1. Openings(c) = CASE c = "send_ad" -> {both, one} [] c = "setrun" -> {ElectRest}
                        [] c = "suppress" -> {late} [] OTHER -> {}
    BY DEF Openings, both, one, late
  <2> QED
    BY <2>1
<1> HIDE DEF both, one, late
<1> QED
  BY <1>1, <1>2, <1>3, <1>4, <1>5 DEF both, one, late

-----------------------------------------------------------------------------
(* What is left to do after a call. *)
\* What a call that gives up the lock leaves to do first.
Opener(c) == IF c = "suppress" THEN "suppressed" ELSE "nosuccess"

\* What the lists before and after a call have in common.
LEMMA NextTodo ==
  ASSUME NEW c \in CallKind, NEW t \in Seq(CallKind), Orderly(<<c>> \o t),
         NEW r, NEW open, IF open THEN r \in Openings(c) ELSE r = <<>>
  PROVE  LET q == <<c>> \o t
             p == r \o t
         IN  /\ Orderly(p) /\ Follows(c, t)
             /\ \A d : Has(q, d) <=> d = c \/ Has(t, d)
             /\ \A d : Starts(q, d) <=> d = c
             /\ \A d, e : StartsTwo(q, d, e) <=> d = c /\ Starts(t, e)
             /\ ~open => p = t
             /\ open => /\ \A d : Has(p, d) <=> Has(r, d) \/ Has(t, d)
                        /\ \A d : Starts(p, d) <=> d = Opener(c)
                        /\ \A d, e : StartsTwo(p, d, e) => Starts(p, d)
<1> DEFINE q == <<c>> \o t
           p == r \o t
           one == <<c>>
<1>1. Orderly(t) /\ Follows(c, t)
  BY OrderlyTail
<1>2. one \in Seq(CallKind) /\ Len(one) = 1 /\ one[1] = c
  BY Single
<1>3. \A d : Has(q, d) <=> d = c \/ Has(t, d)
  <2> TAKE d
  <2>1. Has(one, d) <=> d = c
    BY <1>2 DEF Has
  <2> HIDE DEF one
  <2>2. Has(one \o t, d) <=> Has(one, d) \/ Has(t, d)
    BY <1>2, JoinedHas
  <2> QED
    BY <2>1, <2>2 DEF one
<1>4. \A d, e : (Starts(q, d) <=> d = c) /\ (StartsTwo(q, d, e) <=> d = c /\ Starts(t, e))
  <2> TAKE d, e
  <2>1. Starts(one, d) <=> d = c
    BY <1>2 DEF Starts
  <2> HIDE DEF one
  <2>2. Len(one) >= 1
    BY <1>2
  <2>3. /\ Starts(one \o t, d) <=> Starts(one, d)
        /\ Len(one) = 1 => (StartsTwo(one \o t, d, e) <=> Starts(one, d) /\ Starts(t, e))
    BY <1>2, <2>2, JoinedStarts
  <2> QED
    BY <1>2, <2>1, <2>3 DEF one
<1>5. CASE ~open
  <2>1. p = t
    BY <1>5
  <2> HIDE DEF p, q
  <2> QED
    BY <1>1, <1>3, <1>4, <1>5, <2>1 DEF p, q
<1>6. CASE open
  <2>1. /\ Orderly(r) /\ Len(r) >= 1
        /\ c \in {"send_ad", "setrun", "suppress"}
        /\ c # "suppress" => Starts(r, "nosuccess") /\ ~Counts(r)
        /\ c = "suppress" => Starts(r, "suppressed")
    BY <1>6, OpeningShape
  <2>2. c # "arm" /\ (c = "suppress" => c \in Counting)
    BY <2>1 DEF Counting
  <2>3. ~Starts(t, "MASTER") /\ ~Has(t, "suppressed") /\ (Counts(r) => ~Counts(t))
    BY <1>1, <2>1, <2>2 DEF Follows
  <2>4. Orderly(p)
    BY <1>1, <2>1, <2>3, OrderlyAhead
  <2>5. r \in Seq(CallKind)
    BY <2>1 DEF Orderly
  <2>6. \A d : Has(p, d) <=> Has(r, d) \/ Has(t, d)
    BY <2>5, JoinedHas
  <2>7. \A d : Starts(p, d) <=> d = Opener(c)
    <3> TAKE d
    <3>1. Starts(p, d) <=> Starts(r, d)
      BY <2>1, <2>5, JoinedStarts
    <3>2. Starts(r, d) <=> d = Opener(c)
      BY <2>1 DEF Starts, Opener
    <3> QED
      BY <3>1, <3>2
  <2>8. \A d, e : StartsTwo(p, d, e) => Starts(p, d)
    <3>1. Len(p) \in Nat
      BY <2>4 DEF Orderly
    <3> QED
      BY <3>1 DEF StartsTwo, Starts
  <2> HIDE DEF p, q
  <2> QED
    BY <1>1, <1>3, <1>4, <1>6, <2>4, <2>6, <2>7, <2>8 DEF p, q
<1> QED
  BY <1>5, <1>6

-----------------------------------------------------------------------------
(* What holds of an interface while there are calls left to do. *)
Elsewhere(ws, v, c) == \E w \in Range(ws) : w.v = v /\ Has(w.rest, c)

\* The route and the state are apart only as long as a call is due.
RouteGood(x, ws, v, q) ==
  /\ x.route /\ x.state = "INIT" => Elsewhere(ws, v, "MASTER") \/ Has(q, "MASTER") \/ Starts(q, "setrun")
  /\ x.route /\ x.state = "BACKUP" => Starts(q, "delete") \/ StartsTwo(q, "setrun", "delete")
  /\ x.state = "MASTER" /\ ~x.route => Elsewhere(ws, v, "add") \/ Has(q, "add")

\* A call keeps what ties the route to the state.
LEMMA RouteStep ==
  ASSUME NEW x \in Softc, NEW w \in Softc, NEW c \in CallKind, NEW t \in Seq(CallKind),
         Orderly(<<c>> \o t), NEW r, NEW open, IF open THEN r \in Openings(c) ELSE r = <<>>,
         NEW o, NEW ws, NEW v, Role(x, w, c, o, open), RouteGood(x, ws, v, <<c>> \o t)
  PROVE  RouteGood(w, ws, v, r \o t)
<1> DEFINE q == <<c>> \o t
           p == r \o t
           em == Elsewhere(ws, v, "MASTER")
           ea == Elsewhere(ws, v, "add")
<1>1. /\ Follows(c, t)
      /\ \A d : Has(q, d) <=> d = c \/ Has(t, d)
      /\ \A d : Starts(q, d) <=> d = c
      /\ \A d, e : StartsTwo(q, d, e) <=> d = c /\ Starts(t, e)
      /\ ~open => p = t
      /\ open => \A d : Has(p, d) <=> Has(r, d) \/ Has(t, d)
  BY NextTodo
<1>2. open /\ c = "setrun" => Has(r, "MASTER")
  BY OpeningShape
<1>3. RouteGood(x, ws, v, q)
  OBVIOUS
<1> HIDE DEF q, p, em, ea
<1>4. /\ x.route /\ x.state = "INIT" => em \/ c = "MASTER" \/ Has(t, "MASTER") \/ c = "setrun"
      /\ x.route /\ x.state = "BACKUP" => c = "delete" \/ (c = "setrun" /\ Starts(t, "delete"))
      /\ x.state = "MASTER" /\ ~x.route => ea \/ c = "add" \/ Has(t, "add")
  BY <1>1, <1>3 DEF RouteGood, em, ea
<1>5. Has(t, "MASTER") => Has(p, "MASTER")
  BY <1>1
<1>6. Has(t, "add") => Has(p, "add")
  BY <1>1
<1>7. x.state \in State /\ w.state \in State /\ x.route \in BOOLEAN /\ w.route \in BOOLEAN
  BY DEF Softc
<1>8. SUFFICES /\ w.route /\ w.state = "INIT" => em \/ Has(p, "MASTER") \/ Starts(p, "setrun")
               /\ w.route /\ w.state = "BACKUP" => Starts(p, "delete") \/ StartsTwo(p, "setrun", "delete")
               /\ w.state = "MASTER" /\ ~w.route => ea \/ Has(p, "add")
  BY DEF RouteGood, em, ea, p
<1>9. CASE c = "setrun"
  <2>1. open => Has(p, "MASTER")
    BY <1>1, <1>2, <1>9
  <2>2. ~open => p = t
    BY <1>1
  <2> QED
    BY <1>4, <1>6, <1>7, <1>9, <2>1, <2>2 DEF Role, State
<1>10. CASE c \in State
  <2>1. ~open
    BY <1>10, OpeningShape DEF State
  <2>2. w.state = c /\ w.route = x.route
    BY <1>10 DEF Role, State
  <2>3. c # "setrun" /\ c # "delete" /\ c # "add"
    BY <1>10 DEF State
  <2>4. p = t /\ Follows(c, t)
    BY <1>1, <2>1
  <2> QED
    BY <1>4, <1>5, <1>6, <1>7, <2>2, <2>3, <2>4 DEF Follows, State
<1>11. CASE c \in {"add", "delete"}
  <2>1. w.state = x.state
    BY <1>11 DEF Role, State
  <2>2. c = "add" => IF x.state = "MASTER" THEN w.route ELSE w.route = x.route
    BY <1>11 DEF Role
  <2>3. c = "delete" => IF x.state = "MASTER" THEN w.route = x.route ELSE ~w.route
    BY <1>11 DEF Role
  <2> QED
    BY <1>4, <1>5, <1>6, <1>7, <1>11, <2>1, <2>2, <2>3
<1>12. CASE c \notin State \cup {"setrun", "add", "delete"}
  <2>1. w.state = x.state /\ w.route = x.route
    BY <1>12 DEF Role
  <2> QED
    BY <1>4, <1>5, <1>6, <1>7, <1>12, <2>1 DEF State
<1> QED
  BY <1>9, <1>10, <1>11, <1>12

-----------------------------------------------------------------------------
\* An interface whose parent is there takes part, or is about to: a call is
\* due, here or after a walk, that sets its state or its timer.  One whose
\* parent is away has been put aside.
PartGood(x, ws, v, q, there) ==
  IF there
  THEN /\ x.up
       /\ x.running \/ Starts(q, "INIT") \/ Starts(q, "setrun")
       /\ x.state = "INIT" => \/ Elsewhere(ws, v, "MASTER") \/ Has(q, "MASTER")
                              \/ Starts(q, "INIT") \/ Starts(q, "setrun")
       /\ x.state = "MASTER" => \/ x.ad \/ x.adRuns \/ Elsewhere(ws, v, "arm") \/ Has(q, "arm")
                                \/ Starts(q, "send_ad") \/ Starts(q, "INIT") \/ Starts(q, "BACKUP")
       /\ x.state = "BACKUP" => \/ x.md \/ x.mdRuns \/ Starts(q, "INIT") \/ Starts(q, "setrun")
                                \/ Starts(q, "MASTER")
       /\ Starts(q, "MASTER") => \/ x.ad \/ x.adRuns \/ Elsewhere(ws, v, "arm")
                                 \/ StartsTwo(q, "MASTER", "send_ad")
  ELSE ~x.up /\ ~x.running /\ x.backup

\* A call keeps what ties the state to its timer.
LEMMA PartStep ==
  ASSUME NEW x \in Softc, NEW w \in Softc, NEW c \in CallKind, NEW t \in Seq(CallKind),
         Orderly(<<c>> \o t), NEW z, IF z.open THEN z.rest \in Openings(c) ELSE z.rest = <<>>,
         NEW o, o # "notag", NEW ws, NEW v, Role(x, w, c, o, z.open), Timers(x, w, c, o, z),
         NEW there, x.addr, PartGood(x, ws, v, <<c>> \o t, there)
  PROVE  PartGood(w, ws, v, z.rest \o t, there)
<1> DEFINE q == <<c>> \o t
           r == z.rest
           p == r \o t
           em == Elsewhere(ws, v, "MASTER")
           er == Elsewhere(ws, v, "arm")
<1>1. /\ Follows(c, t)
      /\ \A d : Has(q, d) <=> d = c \/ Has(t, d)
      /\ \A d : Starts(q, d) <=> d = c
      /\ \A d, e : StartsTwo(q, d, e) <=> d = c /\ Starts(t, e)
      /\ ~z.open => p = t
      /\ z.open => \A d : Has(p, d) <=> Has(r, d) \/ Has(t, d)
      /\ z.open => \A d : Starts(p, d) <=> d = Opener(c)
  <2>1. PICK open : open = z.open
    OBVIOUS
  <2>2. IF open THEN r \in Openings(c) ELSE r = <<>>
    BY <2>1
  <2> HIDE DEF r
  <2>3. /\ ~open => p = t
        /\ open => /\ \A d : Has(p, d) <=> Has(r, d) \/ Has(t, d)
                   /\ \A d : Starts(p, d) <=> d = Opener(c)
    BY <2>2, NextTodo
  <2>4. /\ Follows(c, t)
        /\ \A d : Has(q, d) <=> d = c \/ Has(t, d)
        /\ \A d : Starts(q, d) <=> d = c
        /\ \A d, e : StartsTwo(q, d, e) <=> d = c /\ Starts(t, e)
    BY <2>2, NextTodo
  <2> HIDE DEF p, q
  <2> QED
    BY <2>1, <2>3, <2>4
<1>2. z.open => /\ c \in {"send_ad", "setrun", "suppress"}
                /\ c = "setrun" => Has(r, "MASTER")
                /\ r = <<"nosuccess", "arm">> => Has(r, "arm")
  BY OpeningShape
<1>3. PartGood(x, ws, v, q, there) /\ (IF z.open THEN r \in Openings(c) ELSE r = <<>>)
  OBVIOUS
<1>t. Timers(x, w, c, o, z) /\ z.rest = r
  OBVIOUS
<1> HIDE DEF q, p, em, er, r
<1>5. w.up = x.up /\ w.backup = x.backup
  BY DEF Role
<1>6. CASE ~there
  <2>1. ~x.up /\ ~x.running /\ x.backup
    BY <1>3, <1>6 DEF PartGood
  <2>2. ~w.running
    BY <2>1 DEF Role
  <2> QED
    BY <1>5, <1>6, <2>1, <2>2 DEF PartGood
<1>7. CASE there
  <2>1. /\ x.up
        /\ x.running \/ c = "INIT" \/ c = "setrun"
        /\ x.state = "INIT" => em \/ c = "MASTER" \/ Has(t, "MASTER") \/ c = "INIT" \/ c = "setrun"
        /\ x.state = "MASTER" => \/ x.ad \/ x.adRuns \/ er \/ c = "arm" \/ Has(t, "arm")
                                 \/ c = "send_ad" \/ c = "INIT" \/ c = "BACKUP"
        /\ x.state = "BACKUP" => x.md \/ x.mdRuns \/ c = "INIT" \/ c = "setrun" \/ c = "MASTER"
        /\ c = "MASTER" => x.ad \/ x.adRuns \/ er \/ Starts(t, "send_ad")
    BY <1>1, <1>3, <1>7 DEF PartGood, em, er
  <2> DEFINE Goal ==
        /\ w.running \/ Starts(p, "INIT") \/ Starts(p, "setrun")
        /\ w.state = "INIT" => em \/ Has(p, "MASTER") \/ Starts(p, "INIT") \/ Starts(p, "setrun")
        /\ w.state = "MASTER" => \/ w.ad \/ w.adRuns \/ er \/ Has(p, "arm")
                                 \/ Starts(p, "send_ad") \/ Starts(p, "INIT") \/ Starts(p, "BACKUP")
        /\ w.state = "BACKUP" => w.md \/ w.mdRuns \/ Starts(p, "INIT") \/ Starts(p, "setrun") \/ Starts(p, "MASTER")
        /\ Starts(p, "MASTER") => w.ad \/ w.adRuns \/ er \/ StartsTwo(p, "MASTER", "send_ad")
  <2>2. SUFFICES Goal
    BY <1>5, <1>7, <2>1 DEF PartGood, em, er, p, r
  <2>3. Has(t, "MASTER") => Has(p, "MASTER")
    BY <1>1
  <2>4. Has(t, "arm") => Has(p, "arm")
    BY <1>1
  <2>5. w.adRuns = x.adRuns /\ w.mdRuns = x.mdRuns
    BY <1>t DEF Timers
  <2>6. Starts(p, "MASTER") => c = "arm" /\ ~z.open
    BY <1>1, <1>2 DEF Follows, Opener
  <2>7. CASE c = "setrun"
    <3>1. w.running
      BY <2>1, <2>7 DEF Role
    <3>2. CASE z.open
      <4>1. w.state = "INIT" /\ Has(p, "MASTER")
        BY <1>1, <1>2, <2>7, <3>2 DEF Role
      <4> QED
        BY <2>6, <2>7, <3>1, <4>1
    <3>3. CASE ~z.open
      <4>1. (w.state = "MASTER" => w.ad) /\ (w.state = "BACKUP" => w.md)
        BY <1>t, <2>1, <2>7, <3>3 DEF Timers
      <4>2. w.state # "INIT"
        BY <2>1, <2>7, <3>3 DEF Role
      <4> QED
        BY <2>6, <2>7, <3>1, <4>1, <4>2
    <3> QED
      BY <3>2, <3>3
  <2>8. CASE c = "send_ad"
    <3>1. w.state = x.state /\ w.running = x.running
      BY <2>8 DEF Role, State
    <3>2. w.md = x.md /\ (x.ad => w.ad)
      BY <1>t, <2>8 DEF Timers
    <3>3. w.ad \/ Has(p, "arm")
      <4>1. Runs(x)
        BY <2>1, <2>8 DEF Runs
      <4>2. IF z.open THEN r = <<"nosuccess", "arm">> ELSE w.ad
        BY <1>t, <2>8, <4>1 DEF Timers
      <4> QED
        BY <1>1, <1>2, <4>2
    <3> QED
      BY <2>1, <2>3, <2>5, <2>6, <2>8, <3>1, <3>2, <3>3
  <2>9. CASE c \in State
    <3>1. w.state = c /\ w.running = x.running
      BY <2>9 DEF Role, State
    <3>2. w.md = x.md /\ (x.ad => w.ad)
      BY <1>t, <2>9 DEF Timers, State
    <3>3. ~z.open /\ c # "arm" /\ c # "setrun"
      BY <1>2, <2>9 DEF State
    <3>4. p = t /\ Follows(c, t)
      BY <1>1, <3>3
    <3>5. CASE c = "INIT"
      BY <2>6, <3>1, <3>3, <3>4, <3>5 DEF Follows
    <3>6. CASE c = "BACKUP"
      <4>1. Starts(t, "setrun")
        BY <3>4, <3>6 DEF Follows, Starts, StartsTwo
      <4> QED
        BY <2>6, <3>1, <3>3, <3>4, <3>6, <4>1
    <3>7. CASE c = "MASTER"
      BY <2>1, <2>5, <2>6, <3>1, <3>2, <3>3, <3>4, <3>7
    <3> QED
      BY <2>9, <3>5, <3>6, <3>7 DEF State
  <2>10. CASE c = "stop_ad"
    <3>1. w.state = x.state /\ w.running = x.running
      BY <2>10 DEF Role, State
    <3>2. w.md = x.md
      BY <1>t, <2>10 DEF Timers
    <3>3. p = t /\ Starts(t, "BACKUP")
      BY <1>1, <1>2, <2>10 DEF Follows
    <3> QED
      BY <2>1, <2>3, <2>5, <2>6, <2>10, <3>1, <3>2, <3>3
  <2>11. CASE c \notin State \cup {"setrun", "send_ad", "stop_ad"}
    <3>1. w.state = x.state /\ w.running = x.running
      BY <2>11 DEF Role
    <3>2. w.md = x.md /\ (x.ad => w.ad) /\ (c = "arm" => w.ad)
      BY <1>t, <2>11 DEF Timers
    <3>3. c # "INIT" /\ c # "MASTER" /\ c # "BACKUP" /\ c # "setrun" /\ c # "send_ad"
      BY <2>11 DEF State
    <3> QED
      BY <2>1, <2>3, <2>4, <2>5, <2>6, <3>1, <3>2, <3>3
  <2> QED
    BY <2>7, <2>8, <2>9, <2>10, <2>11
<1> QED
  BY <1>6, <1>7

-----------------------------------------------------------------------------
(* The counter: the ids that are flagged, or whose flag is owed after a     *)
(* walk, and those that cannot send.                                        *)
Flagged(s) == {u \in Vhid : s[u].suppress}
Faulty(s) == {u \in Vhid : Ailing(s[u])}
Owed(ws) == {w.v : w \in {w \in Range(ws) : Starts(w.rest, "suppressed")}}
CountedBy(ws) == {w.v : w \in {w \in Range(ws) : Counts(w.rest)}}
Own(v, q) == IF Starts(q, "suppressed") THEN {v} ELSE {}
CountGood(y, v, q) ==
  /\ y.demoted = Cardinality(Flagged(y.sc) \cup Owed(y.walks) \cup Own(v, q)) + Cardinality(Faulty(y.sc))
  /\ Counts(q) => v \notin CountedBy(y.walks)

\* Two sets that differ in one element at most.
LEMMA ButOne ==
  ASSUME NEW S, NEW T, IsFiniteSet(S), IsFiniteSet(T), NEW v, S \ {v} = T \ {v}
  PROVE  /\ Cardinality(S) \in Nat /\ Cardinality(T) \in Nat
         /\ Cardinality(T) = Cardinality(S) + Bit(v \in T) - Bit(v \in S)
<1>1. /\ Cardinality(S) \in Nat /\ Cardinality(T) \in Nat
  BY FS_CardinalityType
<1>2. /\ IsFiniteSet(S \ {v}) /\ Cardinality(S \ {v}) = IF v \in S THEN Cardinality(S) - 1 ELSE Cardinality(S)
  BY FS_RemoveElement
<1>3. /\ IsFiniteSet(T \ {v}) /\ Cardinality(T \ {v}) = IF v \in T THEN Cardinality(T) - 1 ELSE Cardinality(T)
  BY FS_RemoveElement
<1> QED
  BY <1>1, <1>2, <1>3 DEF Bit

\* A walk in the list has its type.
LEMMA WalksRange ==
  ASSUME NEW ws \in Seq(WalkRec), NEW w \in Range(ws)
  PROVE  w \in WalkRec /\ w.v \in Vhid /\ w.rest \in Seq(CallKind) /\ w.todo \in Seq(Vhid) /\ w.by \in By
<1>1. PICK i \in DOMAIN ws : w = ws[i]
  BY DEF Range
<1>2. w \in WalkRec
  BY <1>1
<1> QED
  BY <1>2 DEF WalkRec

\* A flag that is owed is owed by a walk that counts.
LEMMA OwedFinite ==
  ASSUME NEW ws \in Seq(WalkRec)
  PROVE  Owed(ws) \subseteq CountedBy(ws) /\ Owed(ws) \subseteq Vhid
<1>1. Owed(ws) \subseteq Vhid
  BY WalksRange DEF Owed
<1>2. ASSUME NEW w \in Range(ws), Starts(w.rest, "suppressed")
      PROVE  Counts(w.rest)
  <2>1. w.rest \in Seq(CallKind)
    BY WalksRange
  <2>2. Len(w.rest) \in Nat
    BY <2>1
  <2>3. 1 \in 1..Len(w.rest) /\ w.rest[1] = "suppressed"
    BY <1>2, <2>2 DEF Starts
  <2>4. Has(w.rest, "suppressed")
    BY <2>3 DEF Has
  <2> QED
    BY <2>4 DEF Counts, Counting
<1> QED
  BY <1>1, <1>2 DEF Owed, CountedBy

\* A call keeps the counter: what it counts is flagged, or owed by what is left.
LEMMA CountStep ==
  ASSUME NEW y \in Frame, NEW z \in Frame, NEW v \in Vhid, Leaves(y, z, v), NEW c \in CallKind, NEW t \in Seq(CallKind),
         Orderly(<<c>> \o t), IF z.open THEN z.rest \in Openings(c) ELSE z.rest = <<>>,
         Counter(y, z, v, c), CountGood(y, v, <<c>> \o t)
  PROVE  CountGood(z, v, z.rest \o t)
<1> DEFINE q == <<c>> \o t
           r == z.rest
           p == r \o t
           x == y.sc[v]
           w == z.sc[v]
           U == Flagged(y.sc) \cup Owed(y.walks) \cup Own(v, q)
           W == Flagged(z.sc) \cup Owed(z.walks) \cup Own(v, p)
           F == Faulty(y.sc)
           G == Faulty(z.sc)
<1>1. /\ Follows(c, t)
      /\ \A d : Has(q, d) <=> d = c \/ Has(t, d)
      /\ \A d : Starts(q, d) <=> d = c
      /\ ~z.open => p = t
      /\ z.open => \A d : Has(p, d) <=> Has(r, d) \/ Has(t, d)
      /\ z.open => \A d : Starts(p, d) <=> d = Opener(c)
  <2>1. PICK open : open = z.open
    OBVIOUS
  <2>2. IF open THEN r \in Openings(c) ELSE r = <<>>
    BY <2>1
  <2> HIDE DEF r
  <2>3. /\ ~open => p = t
        /\ open => /\ \A d : Has(p, d) <=> Has(r, d) \/ Has(t, d)
                   /\ \A d : Starts(p, d) <=> d = Opener(c)
    BY <2>2, NextTodo
  <2>4. /\ Follows(c, t)
        /\ \A d : Has(q, d) <=> d = c \/ Has(t, d)
        /\ \A d : Starts(q, d) <=> d = c
    BY <2>2, NextTodo
  <2> HIDE DEF p, q
  <2> QED
    BY <2>1, <2>3, <2>4
<1>2. z.open => /\ c \in {"send_ad", "setrun", "suppress"}
                /\ c # "suppress" => ~Counts(r)
  BY OpeningShape
<1>3. CountGood(y, v, q)
  OBVIOUS
<1> HIDE DEF q, p, r
<1>4. z.walks = y.walks /\ y.walks \in Seq(WalkRec) /\ y.demoted \in Int /\ z.demoted \in Int
      /\ \A u \in Vhid : u # v => z.sc[u] = y.sc[u]
  BY DEF Leaves, Frame
<1>5. Owed(y.walks) \subseteq CountedBy(y.walks) /\ Owed(y.walks) \subseteq Vhid
  BY <1>4, OwedFinite
<1>6. IsFiniteSet(Vhid)
  BY CarpAssumption
<1>7. U \subseteq Vhid /\ W \subseteq Vhid /\ F \subseteq Vhid /\ G \subseteq Vhid
  BY <1>4, <1>5 DEF Flagged, Faulty, Own
<1>8. U \ {v} = W \ {v} /\ F \ {v} = G \ {v}
  BY <1>4 DEF Flagged, Faulty, Own
<1>9. /\ v \in U <=> x.suppress \/ v \in Owed(y.walks) \/ c = "suppressed"
      /\ v \in W <=> w.suppress \/ v \in Owed(y.walks) \/ Starts(p, "suppressed")
      /\ v \in F <=> Ailing(x)
      /\ v \in G <=> Ailing(w)
  BY <1>1, <1>4 DEF Flagged, Faulty, Own
<1>10. y.demoted = Cardinality(U) + Cardinality(F)
  BY <1>3 DEF CountGood
<1>11. Counts(q) => v \notin CountedBy(y.walks)
  BY <1>3 DEF CountGood
<1>12. c \in Counting => Counts(q)
  BY <1>1 DEF Counts
<1>13. Starts(p, "suppressed") <=> z.open /\ c = "suppress"
  <2>1. Starts(t, "suppressed") => Has(t, "suppressed")
    <3>1. Len(t) \in Nat
      OBVIOUS
    <3>2. Len(t) >= 1 => 1 \in 1..Len(t)
      BY <3>1
    <3> QED
      BY <3>2 DEF Starts, Has
  <2> QED
    BY <1>1, <1>2, <2>1 DEF Follows, Opener
<1>14. x.suppress \in BOOLEAN /\ w.suppress \in BOOLEAN /\ (x.errors = w.errors => (Ailing(x) <=> Ailing(w)))
  BY DEF Frame, Softc, Ailing
<1>15. Counts(p) => Counts(q)
  <2>1. Counts(t) => Counts(q)
    BY <1>1 DEF Counts
  <2>2. CASE ~z.open
    BY <1>1, <2>1, <2>2
  <2>3. CASE z.open
    <3>1. Counts(p) => Counts(r) \/ Counts(t)
      BY <1>1, <2>3 DEF Counts
    <3>2. c = "suppress" => c \in Counting
      BY DEF Counting
    <3> QED
      BY <1>2, <1>12, <2>1, <2>3, <3>1, <3>2
  <2> QED
    BY <2>2, <2>3
<1>16. Counter(y, z, v, c)
  OBVIOUS
<1> HIDE DEF U, W, F, G, x, w
<1>17. /\ IsFiniteSet(U) /\ IsFiniteSet(W) /\ IsFiniteSet(F) /\ IsFiniteSet(G)
  BY <1>6, <1>7, FS_Subset
<1>18. /\ Cardinality(U) \in Nat /\ Cardinality(W) \in Nat
       /\ Cardinality(W) = Cardinality(U) + Bit(v \in W) - Bit(v \in U)
  BY <1>8, <1>17, ButOne
<1>19. /\ Cardinality(F) \in Nat /\ Cardinality(G) \in Nat
       /\ Cardinality(G) = Cardinality(F) + Bit(v \in G) - Bit(v \in F)
  BY <1>8, <1>17, ButOne
<1>20. z.demoted = y.demoted + Bit(v \in W) - Bit(v \in U) + Bit(v \in G) - Bit(v \in F)
  <2>1. CASE c \notin Counting
    <3>1. z.demoted = y.demoted + Bit(Ailing(w)) - Bit(Ailing(x)) /\ (w.suppress <=> x.suppress)
      BY <1>16, <2>1 DEF Counter, Counted, x, w
    <3>2. v \in W <=> v \in U
      BY <1>9, <1>13, <2>1, <3>1 DEF Counting
    <3> QED
      BY <1>4, <1>9, <3>1, <3>2 DEF Bit
  <2>2. CASE c \in Counting
    <3>1. w.errors = x.errors
      BY <1>16, <2>2 DEF Counter, x, w
    <3>2. v \in G <=> v \in F
      BY <1>9, <1>14, <3>1
    <3>3. v \notin Owed(y.walks)
      BY <1>5, <1>11, <1>12, <2>2
    <3>4. CASE c = "suppress"
      <4>1. /\ z.demoted = y.demoted + (IF x.suppress THEN 0 ELSE 1)
            /\ IF z.open THEN ~x.suppress /\ ~w.suppress ELSE w.suppress
        BY <1>16, <3>4 DEF Counter, x, w
      <4>2. v \in W /\ (v \in U <=> x.suppress)
        BY <1>9, <1>13, <3>3, <3>4, <4>1
      <4> QED
        BY <1>4, <3>2, <4>1, <4>2 DEF Bit
    <3>5. CASE c = "unsuppress"
      <4>1. z.demoted = y.demoted - (IF x.suppress THEN 1 ELSE 0) /\ ~w.suppress
        BY <1>16, <3>5 DEF Counter, x, w
      <4>2. v \notin W /\ (v \in U <=> x.suppress)
        BY <1>9, <1>13, <3>3, <3>5, <4>1
      <4> QED
        BY <1>4, <3>2, <4>1, <4>2 DEF Bit
    <3>6. CASE c = "suppressed"
      <4>1. z.demoted = y.demoted /\ w.suppress
        BY <1>16, <3>6 DEF Counter, x, w
      <4>2. v \in W /\ v \in U
        BY <1>9, <3>6, <4>1
      <4> QED
        BY <1>4, <3>2, <4>1, <4>2 DEF Bit
    <3> QED
      BY <2>2, <3>4, <3>5, <3>6 DEF Counting
  <2> QED
    BY <2>1, <2>2
<1>21. z.demoted = Cardinality(W) + Cardinality(G)
  <2>1. Bit(v \in W) \in Int /\ Bit(v \in U) \in Int /\ Bit(v \in G) \in Int /\ Bit(v \in F) \in Int
    BY DEF Bit
  <2> QED
    BY <1>4, <1>10, <1>18, <1>19, <1>20, <2>1
<1> QED
  BY <1>4, <1>11, <1>15, <1>21 DEF CountGood, W, G, p, r

-----------------------------------------------------------------------------
(* The lists of what is left to do, from one call to the next. *)
\* A list from its k-th call on is that call and those after it.
LEMMA RestOf ==
  ASSUME NEW S, NEW q \in Seq(S), NEW k \in 1..Len(q)
  PROVE  /\ SubSeq(q, k, Len(q)) = <<q[k]>> \o SubSeq(q, k + 1, Len(q))
         /\ q[k] \in S /\ SubSeq(q, k + 1, Len(q)) \in Seq(S)
<1>1. Len(q) \in Nat /\ q[k] \in S /\ \A i \in (k + 1)..Len(q) : q[i] \in S
  OBVIOUS
<1>2. Len(q) \in k..Len(q)
  BY <1>1
<1>3. SubSeq(q, k, Len(q)) = <<q[k]>> \o SubSeq(q, k + 1, Len(q))
  BY <1>2, SubSeqRecursiveFirst
<1>4. SubSeq(q, k + 1, Len(q)) \in Seq(S)
  BY <1>1, SubSeqProperties
<1> QED
  BY <1>1, <1>3, <1>4

\* A call put at the end of the rest is the next of those left.
LEMMA AppendAhead ==
  ASSUME NEW S, NEW r \in Seq(S), NEW c \in S, NEW t \in Seq(S)
  PROVE  Append(r, c) \o t = r \o (<<c>> \o t)
<1>1. <<c>> \in Seq(S)
  OBVIOUS
<1>2. r \o (<<c>> \o t) = (r \o <<c>>) \o t
  BY <1>1, ConcatAssociative
<1>3. Append(r, c) = r \o <<c>>
  BY AppendIsConcat
<1> QED
  BY <1>2, <1>3

\* Nothing before or after a list.
LEMMA EmptyEnds ==
  ASSUME NEW S, NEW q \in Seq(S)
  PROVE  q \o <<>> = q /\ <<>> \o q = q /\ SubSeq(q, 1, Len(q)) = q /\ SubSeq(q, Len(q) + 1, Len(q)) = <<>>
<1>1. q \o <<>> = q /\ <<>> \o q = q
  BY ConcatEmptySeq
<1>2. SubSeq(q, 1, Len(q)) = q
  OBVIOUS
<1>3. SubSeq(q, Len(q) + 1, Len(q)) = <<>>
  OBVIOUS
<1> QED
  BY <1>1, <1>2, <1>3

-----------------------------------------------------------------------------
(* What the calls of a handler keep, from what it finds (y) to what it has  *)
(* come to (z); q and p are the calls left to do.                           *)
Keeps(y, q, z, p, v, o, there) ==
  LET x == y.sc[v]
      w == z.sc[v]
  IN /\ z \in Frame /\ Leaves(y, z, v)
     /\ Orderly(p) /\ (Counts(p) => Counts(q))
     /\ IF z.open THEN Starts(z.rest, "nosuccess") \/ Starts(z.rest, "suppressed") ELSE z.rest = <<>>
     /\ w.addr = x.addr
     /\ o # "failed" /\ x.errors = 0 => w.errors = 0
     /\ RouteGood(x, y.walks, v, q) => RouteGood(w, z.walks, v, p)
     /\ o # "notag" /\ x.addr /\ PartGood(x, y.walks, v, q, there) => PartGood(w, z.walks, v, p, there)
     /\ CountGood(y, v, q) => CountGood(z, v, p)

\* A list counts after a call only if it did before.
LEMMA CountsStep ==
  ASSUME NEW c \in CallKind, NEW t \in Seq(CallKind), Orderly(<<c>> \o t),
         NEW r, NEW open, IF open THEN r \in Openings(c) ELSE r = <<>>, Counts(r \o t)
  PROVE  Counts(<<c>> \o t)
<1> DEFINE q == <<c>> \o t
           p == r \o t
<1>1. /\ \A d : Has(q, d) <=> d = c \/ Has(t, d)
      /\ ~open => p = t
      /\ open => \A d : Has(p, d) <=> Has(r, d) \/ Has(t, d)
  BY NextTodo
<1>2. open => /\ c \in {"send_ad", "setrun", "suppress"}
              /\ c # "suppress" => ~Counts(r)
  BY OpeningShape
<1>3. Counts(p)
  OBVIOUS
<1> HIDE DEF q, p
<1>4. Counts(t) => Counts(q)
  BY <1>1 DEF Counts
<1>5. c = "suppress" => Counts(q)
  BY <1>1 DEF Counts, Counting
<1>6. open => Counts(r) \/ Counts(t)
  BY <1>1, <1>3 DEF Counts
<1>7. Counts(q)
  BY <1>1, <1>2, <1>3, <1>4, <1>5, <1>6
<1> QED
  BY <1>7 DEF q

\* Before the first call all is kept.
LEMMA KeepsStart ==
  ASSUME NEW y \in Frame, ~y.open, y.rest = <<>>, NEW q, Orderly(q), NEW v \in Vhid, NEW o, NEW there
  PROVE  Keeps(y, q, y, q, v, o, there)
BY DEF Keeps, Leaves

\* A call that is made keeps the invariants.
LEMMA KeepsCall ==
  ASSUME NEW y \in Frame, NEW q, NEW z, NEW c \in CallKind, NEW t \in Seq(CallKind), NEW v \in Vhid,
         NEW o \in Outcome, NEW there, Keeps(y, q, z, <<c>> \o t, v, o, there), ~z.open,
         NEW e, e = Call(z, v, c, o)
  PROVE  Keeps(y, q, e, e.rest \o t, v, o, there)
<1> DEFINE a == <<c>> \o t
           p == e.rest \o t
           x == y.sc[v]
           w == z.sc[v]
           u == e.sc[v]
<1>1. /\ z \in Frame /\ Leaves(y, z, v)
      /\ Orderly(a) /\ (Counts(a) => Counts(q))
      /\ z.rest = <<>>
      /\ w.addr = x.addr
      /\ o # "failed" /\ x.errors = 0 => w.errors = 0
      /\ RouteGood(x, y.walks, v, q) => RouteGood(w, z.walks, v, a)
      /\ o # "notag" /\ x.addr /\ PartGood(x, y.walks, v, q, there) => PartGood(w, z.walks, v, a, there)
      /\ CountGood(y, v, q) => CountGood(z, v, a)
  BY DEF Keeps
<1>2. Effect(z, e, v, c, o)
  BY <1>1, CallEffect
<1>3. /\ e \in Frame /\ Leaves(z, e, v)
      /\ IF e.open THEN e.rest \in Openings(c) ELSE e.rest = <<>>
      /\ o # "failed" /\ w.errors = 0 => u.errors = 0
      /\ Counter(z, e, v, c)
      /\ Role(w, u, c, o, e.open)
      /\ Timers(w, u, c, o, e)
  BY <1>1, <1>2 DEF Effect
<1>4. w \in Softc /\ u \in Softc /\ e.open \in BOOLEAN
  BY <1>1, <1>3 DEF Frame
<1>5. Leaves(y, e, v) /\ e.walks = z.walks
  BY <1>1, <1>3 DEF Leaves
<1>6. u.addr = x.addr
  BY <1>1, <1>3 DEF Role
<1> HIDE DEF x, w, u
<1>7. Orderly(p) /\ (Counts(p) => Counts(a)) /\ (RouteGood(w, z.walks, v, a) => RouteGood(u, z.walks, v, p))
      /\ IF e.open THEN Starts(e.rest, "nosuccess") \/ Starts(e.rest, "suppressed") ELSE e.rest = <<>>
  <2>1. PICK r, open : r = e.rest /\ open = e.open
    OBVIOUS
  <2>2. IF open THEN r \in Openings(c) ELSE r = <<>>
    BY <1>3, <2>1
  <2>3. Role(w, u, c, o, open)
    BY <1>3, <2>1
  <2>4. Orderly(<<c>> \o t)
    BY <1>1
  <2>5. Orderly(r \o t)
    BY <2>2, <2>4, NextTodo
  <2>6. Counts(r \o t) => Counts(<<c>> \o t)
    BY <2>2, <2>4, CountsStep
  <2>7. RouteGood(w, z.walks, v, <<c>> \o t) => RouteGood(u, z.walks, v, r \o t)
    BY <1>4, <2>2, <2>3, <2>4, RouteStep
  <2>8. open => Starts(r, "nosuccess") \/ Starts(r, "suppressed")
    BY <2>2, OpeningShape
  <2> QED
    BY <2>1, <2>2, <2>5, <2>6, <2>7, <2>8
<1>8. x.addr /\ o # "notag" /\ PartGood(w, z.walks, v, a, there) => PartGood(u, z.walks, v, p, there)
  <2>1. SUFFICES ASSUME x.addr, o # "notag", PartGood(w, z.walks, v, a, there)
                 PROVE  PartGood(u, z.walks, v, p, there)
    OBVIOUS
  <2>2. w.addr
    BY <1>1, <2>1 DEF w, x
  <2> QED
    BY <1>1, <1>3, <1>4, <2>1, <2>2, PartStep DEF w, u
<1>9. CountGood(z, v, a) => CountGood(e, v, p)
  BY <1>1, <1>3, CountStep
<1> HIDE DEF p, a
<1> QED
  BY <1>1, <1>3, <1>5, <1>6, <1>7, <1>8, <1>9 DEF Keeps, x, w, u, p

\* A call that is put off keeps them too.
LEMMA KeepsOpen ==
  ASSUME NEW y \in Frame, NEW q, NEW z, NEW c \in CallKind, NEW t \in Seq(CallKind), NEW v \in Vhid,
         NEW o, NEW there, Keeps(y, q, z, z.rest \o (<<c>> \o t), v, o, there), z.open,
         NEW e, e = [z EXCEPT !.rest = Append(@, c)]
  PROVE  Keeps(y, q, e, e.rest \o t, v, o, there)
<1> DEFINE r == Append(z.rest, c)
           p == z.rest \o (<<c>> \o t)
<1>1. z \in Frame /\ z.rest \in Seq(CallKind)
  BY DEF Keeps, Frame
<1>2. r \in Seq(CallKind) /\ r \o t = p
  <2>1. r \in Seq(CallKind)
    <3> DEFINE s == z.rest
    <3>1. s \in Seq(CallKind)
      BY <1>1
    <3> HIDE DEF s
    <3>2. Append(s, c) \in Seq(CallKind)
      BY <3>1, AppendProperties
    <3> QED
      BY <3>2 DEF s
  <2>2. r \o t = p
    <3> DEFINE s == z.rest
    <3>1. s \in Seq(CallKind)
      BY <1>1
    <3> HIDE DEF s
    <3>2. Append(s, c) \o t = s \o (<<c>> \o t)
      BY <3>1, AppendAhead
    <3> QED
      BY <3>2 DEF s
  <2> QED
    BY <2>1, <2>2
<1>3. e = [z EXCEPT !.rest = r]
  OBVIOUS
<1>4. Starts(z.rest, "nosuccess") \/ Starts(z.rest, "suppressed")
  BY DEF Keeps
<1>5. \A d : Starts(z.rest, d) => Starts(r, d)
  <2>1. Len(z.rest) \in Nat /\ Len(r) = Len(z.rest) + 1 /\ \A i \in 1..Len(z.rest) : r[i] = z.rest[i]
    BY <1>1, AppendProperties
  <2> HIDE DEF r
  <2> QED
    BY <2>1 DEF Starts
<1>6. Keeps(y, q, z, p, v, o, there)
  OBVIOUS
<1> HIDE DEF r, p
<1>7. /\ e \in Frame /\ e.rest = r /\ e.open = z.open /\ e.sc = z.sc /\ e.walks = z.walks
      /\ e.h = z.h /\ e.inbox = z.inbox /\ e.left = z.left /\ e.by = z.by /\ e.demoted = z.demoted
  BY <1>1, <1>2, <1>3 DEF Frame
<1>8. e.rest \o t = p
  BY <1>2, <1>7
<1>9. CountGood(z, v, p) => CountGood(e, v, p)
  BY <1>7 DEF CountGood
<1>10. Leaves(y, z, v) => Leaves(y, e, v)
  BY <1>7 DEF Leaves
<1>11. Keeps(y, q, e, p, v, o, there)
  BY <1>4, <1>5, <1>6, <1>7, <1>9, <1>10 DEF Keeps
<1> QED
  BY <1>8, <1>11

\* A handler with orderly calls keeps the invariants, from its first call to its
\* last or to the walk that it opens.
LEMMA DoKeeps ==
  ASSUME NEW y \in Frame, ~y.open, y.rest = <<>>, NEW calls, Orderly(calls), NEW v \in Vhid,
         NEW o \in Outcome, NEW there, NEW z, z = Do(y, v, calls, o)
  PROVE  Keeps(y, calls, z, z.rest, v, o, there)
<1> DEFINE n == Len(calls)
           Left(k) == SubSeq(calls, k + 1, n)
<1>1. calls \in Seq(CallKind) /\ n \in Nat
  BY DEF Orderly
<1>2. PICK at : /\ at[0] = y
                /\ \A i \in 1..n : at[i] = Proceed(at[i - 1], v, calls[i], o)
                /\ z = at[n]
  BY <1>1, DoSteps
<1> DEFINE S == {k \in 0..n : Keeps(y, calls, at[k], at[k].rest \o Left(k), v, o, there)}
<1>3. 0 \in S
  <2>1. y.rest \o Left(0) = calls
    <3>1. Left(0) = calls
      BY <1>1, EmptyEnds
    <3>2. <<>> \o calls = calls
      BY <1>1, EmptyEnds
    <3> QED
      BY <3>1, <3>2
  <2>2. Keeps(y, calls, y, calls, v, o, there)
    BY KeepsStart
  <2> HIDE DEF Left
  <2>3. Keeps(y, calls, at[0], at[0].rest \o Left(0), v, o, there)
    BY <1>2, <2>1, <2>2
  <2> QED
    BY <1>1, <2>3
<1>4. ASSUME NEW k \in 1..n, k - 1 \in S
      PROVE  k \in S
  <2> DEFINE a == at[k - 1]
             e == at[k]
             c == calls[k]
             t == Left(k)
  <2>1. Left(k - 1) = <<c>> \o t /\ c \in CallKind /\ t \in Seq(CallKind)
    <3>1. SubSeq(calls, k, n) = <<c>> \o t /\ c \in CallKind /\ t \in Seq(CallKind)
      BY <1>1, RestOf
    <3>2. (k - 1) + 1 = k
      OBVIOUS
    <3> QED
      BY <3>1, <3>2
  <2>2. Keeps(y, calls, a, a.rest \o (<<c>> \o t), v, o, there)
    BY <1>4, <2>1
  <2>3. e = Proceed(a, v, c, o)
    BY <1>2
  <2> HIDE DEF a, e, c, t
  <2>4. CASE a.open
    <3>1. e = [a EXCEPT !.rest = Append(@, c)]
      BY <2>3, <2>4 DEF Proceed
    <3>2. Keeps(y, calls, e, e.rest \o t, v, o, there)
      BY <2>1, <2>2, <2>4, <3>1, KeepsOpen
    <3> QED
      BY <3>2 DEF e, t
  <2>5. CASE ~a.open
    <3>1. e = Call(a, v, c, o)
      BY <2>3, <2>5 DEF Proceed
    <3>2. a.rest = <<>>
      BY <2>2, <2>5 DEF Keeps
    <3>3. <<c>> \o t \in Seq(CallKind)
      BY <2>1
    <3>4. a.rest \o (<<c>> \o t) = <<c>> \o t
      BY <3>2, <3>3, EmptyEnds
    <3>5. Keeps(y, calls, a, <<c>> \o t, v, o, there)
      BY <2>2, <3>4
    <3>6. Keeps(y, calls, e, e.rest \o t, v, o, there)
      BY <2>1, <2>5, <3>1, <3>5, KeepsCall
    <3> QED
      BY <3>6 DEF e, t
  <2> QED
    BY <2>4, <2>5
<1> HIDE DEF S
<1>5. 0..n \subseteq S
  BY <1>1, <1>3, <1>4, FromZero
<1>6. n \in S
  BY <1>1, <1>5
<1>7. Keeps(y, calls, z, z.rest \o Left(n), v, o, there)
  BY <1>2, <1>6 DEF S
<1>8. Left(n) = <<>>
  BY <1>1, EmptyEnds
<1>9. z.rest \in Seq(CallKind)
  BY <1>7 DEF Keeps, Frame
<1>10. z.rest \o <<>> = z.rest
  BY <1>9, EmptyEnds
<1> QED
  BY <1>7, <1>8, <1>10

-----------------------------------------------------------------------------
(* The handlers make their calls in order. *)
\* carp_sc_state_locked, and carp_set_addr after it.
LEMMA StateOrder ==
  ASSUME NEW r \in Seq(CallKind), Len(r) \in {3, 4}, r[1] = "INIT", r[2] = "setrun",
         r[3] \in {"suppress", "unsuppress"}, Len(r) = 4 => r[4] = "setrun"
  PROVE  Orderly(r) /\ Starts(r, "INIT")
<1>1. \A i \in 1..Len(r) : i \in {1, 2, 3} \/ (i = 4 /\ Len(r) = 4)
  <2> DEFINE n == Len(r)
  <2>1. n = 3 \/ n = 4
    OBVIOUS
  <2> HIDE DEF n
  <2>2. \A i \in 1..n : i \in {1, 2, 3} \/ (i = 4 /\ n = 4)
    BY <2>1
  <2> QED
    BY <2>2 DEF n
<1>2. \A i \in 1..Len(r) : /\ r[i] \in {"INIT", "setrun", "suppress", "unsuppress"}
                           /\ r[i] = "INIT" => i = 1
                           /\ r[i] \in {"suppress", "unsuppress"} => i = 3
  BY <1>1
<1>3. \A i \in 1..Len(r) : r[i] = "INIT" => i + 1 <= Len(r) /\ r[i + 1] = "setrun"
  BY <1>2
<1>4. \A i \in 1..Len(r) : r[i] \notin {"BACKUP", "stop_ad", "MASTER", "suppressed"}
  BY <1>2
<1>5. \A i \in 1..Len(r) : i + 1 <= Len(r) => r[i + 1] # "MASTER"
  <2>1. \A i \in 1..Len(r) : i + 1 <= Len(r) => i + 1 \in 1..Len(r)
    OBVIOUS
  <2> QED
    BY <1>4, <2>1
<1>6. Tidy(r)
  BY <1>3, <1>4, <1>5 DEF Tidy
<1>7. Once(r)
  BY <1>2, <1>4 DEF Once, Counting
<1> QED
  BY <1>6, <1>7 DEF Orderly, Starts

\* carp_master_down_locked.
LEMMA MasterOrder ==
  ASSUME NEW r \in Seq(CallKind), Len(r) \in {4, 5}, r[1] = "MASTER", r[2] = "send_ad",
         r[3] = "setrun", r[4] = "add", Len(r) = 5 => r[5] = "setrun"
  PROVE  Orderly(r) /\ ~Counts(r) /\ StartsTwo(r, "MASTER", "send_ad") /\ Starts(r, "MASTER")
<1>1. \A i \in 1..Len(r) : i \in {1, 2, 3, 4} \/ (i = 5 /\ Len(r) = 5)
  <2> DEFINE n == Len(r)
  <2>1. n = 4 \/ n = 5
    OBVIOUS
  <2> HIDE DEF n
  <2>2. \A i \in 1..n : i \in {1, 2, 3, 4} \/ (i = 5 /\ n = 5)
    BY <2>1
  <2> QED
    BY <2>2 DEF n
<1>2. \A i \in 1..Len(r) : /\ r[i] \in {"MASTER", "send_ad", "setrun", "add"}
                           /\ r[i] = "MASTER" => i = 1
  BY <1>1
<1>3. \A i \in 1..Len(r) : r[i] = "MASTER" => \E j \in (i + 1)..Len(r) : r[j] = "add"
  <2>1. 4 \in (1 + 1)..Len(r)
    OBVIOUS
  <2> QED
    BY <1>2, <2>1
<1>4. \A i \in 1..Len(r) : r[i] \notin {"INIT", "BACKUP", "stop_ad", "suppress", "unsuppress", "suppressed"}
  BY <1>2
<1>5. \A i \in 1..Len(r) : i + 1 <= Len(r) => r[i + 1] # "MASTER"
  <2>1. \A i \in 1..Len(r) : i + 1 <= Len(r) => i + 1 \in 1..Len(r) /\ i + 1 # 1
    OBVIOUS
  <2> QED
    BY <1>2, <2>1
<1>6. Tidy(r)
  BY <1>3, <1>4, <1>5 DEF Tidy
<1>7. Once(r) /\ ~Counts(r)
  BY <1>4 DEF Once, Counting, Counts, Has
<1> QED
  BY <1>6, <1>7 DEF Orderly, Starts, StartsTwo

\* A MASTER gives way.
LEMMA BackupOrder ==
  ASSUME NEW r \in Seq(CallKind), Len(r) \in {4, 5}, r[1] = "stop_ad", r[2] = "BACKUP",
         r[3] = "setrun", r[4] = "delete", Len(r) = 5 => r[5] = "setrun"
  PROVE  Orderly(r) /\ ~Counts(r)
<1>1. \A i \in 1..Len(r) : i \in {1, 2, 3, 4} \/ (i = 5 /\ Len(r) = 5)
  <2> DEFINE n == Len(r)
  <2>1. n = 4 \/ n = 5
    OBVIOUS
  <2> HIDE DEF n
  <2>2. \A i \in 1..n : i \in {1, 2, 3, 4} \/ (i = 5 /\ n = 5)
    BY <2>1
  <2> QED
    BY <2>2 DEF n
<1>2. \A i \in 1..Len(r) : /\ r[i] \in {"stop_ad", "BACKUP", "setrun", "delete"}
                           /\ r[i] = "stop_ad" => i = 1
                           /\ r[i] = "BACKUP" => i = 2
  BY <1>1
<1>3. /\ \A i \in 1..Len(r) : r[i] = "stop_ad" => i + 1 <= Len(r) /\ r[i + 1] = "BACKUP"
      /\ \A i \in 1..Len(r) : r[i] = "BACKUP" => i + 2 <= Len(r) /\ r[i + 1] = "setrun" /\ r[i + 2] = "delete"
  BY <1>2
<1>4. \A i \in 1..Len(r) : r[i] \notin {"INIT", "MASTER", "suppress", "unsuppress", "suppressed"}
  BY <1>2
<1>5. \A i \in 1..Len(r) : i + 1 <= Len(r) => r[i + 1] # "MASTER"
  <2>1. \A i \in 1..Len(r) : i + 1 <= Len(r) => i + 1 \in 1..Len(r)
    OBVIOUS
  <2> QED
    BY <1>4, <2>1
<1>6. Tidy(r)
  BY <1>3, <1>4, <1>5 DEF Tidy
<1>7. Once(r) /\ ~Counts(r)
  BY <1>4 DEF Once, Counting, Counts, Has
<1> QED
  BY <1>6, <1>7 DEF Orderly

\* ifconfig down, and the short ones.
LEMMA DownOrder ==
  ASSUME NEW r \in Seq(CallKind),
         \/ Len(r) = 0
         \/ Len(r) = 1 /\ r[1] \in {"send_ad", "setrun"}
         \/ Len(r) = 2 /\ r[1] = "INIT" /\ r[2] = "setrun"
         \/ Len(r) = 3 /\ r[1] = "send_ad" /\ r[2] = "INIT" /\ r[3] = "setrun"
  PROVE  Orderly(r) /\ ~Counts(r)
<1>1. Len(r) \in Nat /\ \A i \in 1..Len(r) : i \in {1, 2, 3}
  <2> DEFINE n == Len(r)
  <2>1. n = 0 \/ n = 1 \/ n = 2 \/ n = 3
    OBVIOUS
  <2> HIDE DEF n
  <2>2. n \in Nat /\ \A i \in 1..n : i \in {1, 2, 3}
    BY <2>1
  <2> QED
    BY <2>2 DEF n
<1>2. \A i \in 1..Len(r) : /\ r[i] \in {"send_ad", "INIT", "setrun"}
                           /\ r[i] = "INIT" => i + 1 <= Len(r) /\ r[i + 1] = "setrun"
  BY <1>1
<1>3. \A i \in 1..Len(r) : r[i] \notin {"BACKUP", "stop_ad", "MASTER", "suppress", "unsuppress", "suppressed"}
  BY <1>2
<1>4. \A i \in 1..Len(r) : i + 1 <= Len(r) => r[i + 1] # "MASTER"
  <2>1. \A i \in 1..Len(r) : i + 1 <= Len(r) => i + 1 \in 1..Len(r)
    BY <1>1
  <2> QED
    BY <1>3, <2>1
<1>5. Tidy(r)
  BY <1>2, <1>3, <1>4 DEF Tidy
<1>6. Once(r) /\ ~Counts(r)
  BY <1>3 DEF Once, Counting, Counts, Has
<1> QED
  BY <1>5, <1>6 DEF Orderly

\* A list with one more call.
LEMMA OneMore ==
  ASSUME NEW s \in Seq(CallKind), NEW c \in CallKind, NEW t, t = Append(s, c)
  PROVE  /\ t \in Seq(CallKind) /\ Len(t) = Len(s) + 1 /\ \A i \in 1..Len(s) : t[i] = s[i]
         /\ t[Len(s) + 1] = c
BY AppendProperties

\* The lists as the actions write them.
LEMMA ScStateOrder ==
  ASSUME NEW h, NEW v
  PROVE  /\ Orderly(ScState(h, v)) /\ Starts(ScState(h, v), "INIT")
         /\ Orderly(Append(ScState(h, v), "setrun")) /\ Starts(Append(ScState(h, v), "setrun"), "INIT")
<1> DEFINE c == IF link[h][v] THEN "unsuppress" ELSE "suppress"
           s == ScState(h, v)
           t == Append(s, "setrun")
<1>1. c \in {"suppress", "unsuppress"}
  OBVIOUS
<1>2. s = <<"INIT", "setrun", c>>
  BY DEF ScState
<1> HIDE DEF c, s
<1>3. s \in Seq(CallKind) /\ Len(s) = 3 /\ s[1] = "INIT" /\ s[2] = "setrun" /\ s[3] = c /\ "setrun" \in CallKind
  BY <1>1, <1>2 DEF CallKind
<1>4. Orderly(s) /\ Starts(s, "INIT")
  BY <1>1, <1>3, StateOrder
<1>5. /\ t \in Seq(CallKind) /\ Len(t) = Len(s) + 1 /\ \A i \in 1..Len(s) : t[i] = s[i]
      /\ t[Len(s) + 1] = "setrun"
  <2>1. t = Append(s, "setrun") /\ s \in Seq(CallKind) /\ "setrun" \in CallKind
    BY <1>3
  <2> HIDE DEF t
  <2> QED
    BY <2>1, OneMore
<1> HIDE DEF t
<1>6. Len(t) = 4 /\ t[1] = "INIT" /\ t[2] = "setrun" /\ t[3] = c /\ t[4] = "setrun"
  BY <1>3, <1>5
<1>7. Orderly(t) /\ Starts(t, "INIT")
  BY <1>1, <1>5, <1>6, StateOrder
<1> QED
  BY <1>4, <1>7 DEF s, t

\* The calls of carp_master_down_locked are in order and do not count.
LEMMA MasterDownOrder ==
  ASSUME NEW state
  PROVE  /\ Orderly(MasterDown(state)) /\ ~Counts(MasterDown(state))
         /\ state = "BACKUP" => StartsTwo(MasterDown(state), "MASTER", "send_ad") /\ Starts(MasterDown(state), "MASTER")
<1>1. CASE state = "BACKUP"
  <2> DEFINE r == <<"MASTER", "send_ad", "setrun", "add">>
  <2>1. r \in Seq(CallKind) /\ Len(r) = 4 /\ r[1] = "MASTER" /\ r[2] = "send_ad" /\ r[3] = "setrun" /\ r[4] = "add"
    BY DEF CallKind
  <2>2. MasterDown(state) = r
    BY <1>1 DEF MasterDown
  <2> HIDE DEF r
  <2>3. Orderly(r) /\ ~Counts(r) /\ StartsTwo(r, "MASTER", "send_ad") /\ Starts(r, "MASTER")
    BY <2>1, MasterOrder
  <2> QED
    BY <2>2, <2>3
<1>2. CASE state # "BACKUP"
  <2> DEFINE r == <<>>
  <2>1. r \in Seq(CallKind) /\ Len(r) = 0 /\ MasterDown(state) = r
    BY <1>2 DEF MasterDown
  <2> HIDE DEF r
  <2>2. Orderly(r) /\ ~Counts(r)
    BY <2>1, DownOrder
  <2> QED
    BY <1>2, <2>1, <2>2
<1> QED
  BY <1>1, <1>2

\* The calls of a BACKUP that is made MASTER by hand are in order.
LEMMA MasterVhOrder ==
  LET r == Append(MasterDown("BACKUP"), "setrun")
  IN  Orderly(r) /\ ~Counts(r) /\ StartsTwo(r, "MASTER", "send_ad") /\ Starts(r, "MASTER")
<1> DEFINE s == <<"MASTER", "send_ad", "setrun", "add">>
           t == Append(s, "setrun")
<1>1. s \in Seq(CallKind) /\ Len(s) = 4 /\ s[1] = "MASTER" /\ s[2] = "send_ad" /\ s[3] = "setrun" /\ s[4] = "add"
      /\ "setrun" \in CallKind
  BY DEF CallKind
<1>2. MasterDown("BACKUP") = s
  BY DEF MasterDown
<1> HIDE DEF s
<1>3. /\ t \in Seq(CallKind) /\ Len(t) = Len(s) + 1 /\ \A i \in 1..Len(s) : t[i] = s[i]
      /\ t[Len(s) + 1] = "setrun"
  <2>1. t = Append(s, "setrun") /\ s \in Seq(CallKind) /\ "setrun" \in CallKind
    BY <1>1
  <2> HIDE DEF t
  <2> QED
    BY <2>1, OneMore
<1> HIDE DEF t
<1>4. Len(t) = 5 /\ t[1] = "MASTER" /\ t[2] = "send_ad" /\ t[3] = "setrun" /\ t[4] = "add" /\ t[5] = "setrun"
  BY <1>1, <1>3
<1>5. Orderly(t) /\ ~Counts(t) /\ StartsTwo(t, "MASTER", "send_ad") /\ Starts(t, "MASTER")
  BY <1>3, <1>4, MasterOrder
<1> QED
  BY <1>2, <1>5 DEF t

\* The calls of a MASTER that gives way are in order.
LEMMA BackupOrders ==
  /\ Orderly(<<"stop_ad", "BACKUP", "setrun", "delete">>) /\ ~Counts(<<"stop_ad", "BACKUP", "setrun", "delete">>)
  /\ Orderly(<<"stop_ad", "BACKUP", "setrun", "delete", "setrun">>)
  /\ ~Counts(<<"stop_ad", "BACKUP", "setrun", "delete", "setrun">>)
<1> DEFINE r == <<"stop_ad", "BACKUP", "setrun", "delete">>
           s == <<"stop_ad", "BACKUP", "setrun", "delete", "setrun">>
<1>1. r \in Seq(CallKind) /\ Len(r) = 4 /\ r[1] = "stop_ad" /\ r[2] = "BACKUP" /\ r[3] = "setrun" /\ r[4] = "delete"
  BY DEF CallKind
<1>2. s \in Seq(CallKind) /\ Len(s) = 5 /\ s[1] = "stop_ad" /\ s[2] = "BACKUP" /\ s[3] = "setrun" /\ s[4] = "delete"
      /\ s[5] = "setrun"
  BY DEF CallKind
<1> HIDE DEF r, s
<1>3. Orderly(r) /\ ~Counts(r)
  BY <1>1, BackupOrder
<1>4. Orderly(s) /\ ~Counts(s)
  BY <1>2, BackupOrder
<1> QED
  BY <1>3, <1>4 DEF r, s

\* The calls of ifconfig down and up, and of the timer of a MASTER, are in order.
LEMMA DownOrders ==
  \A r \in {<<>>, <<"setrun">>, <<"send_ad">>, <<"INIT", "setrun">>, <<"send_ad", "INIT", "setrun">>} :
    Orderly(r) /\ ~Counts(r)
<1> DEFINE a == <<>>
           b == <<"setrun">>
           c == <<"send_ad">>
           d == <<"INIT", "setrun">>
           e == <<"send_ad", "INIT", "setrun">>
<1>1. a \in Seq(CallKind) /\ Len(a) = 0
  OBVIOUS
<1>2. b \in Seq(CallKind) /\ Len(b) = 1 /\ b[1] = "setrun"
  BY DEF CallKind
<1>3. c \in Seq(CallKind) /\ Len(c) = 1 /\ c[1] = "send_ad"
  BY DEF CallKind
<1>4. d \in Seq(CallKind) /\ Len(d) = 2 /\ d[1] = "INIT" /\ d[2] = "setrun"
  BY DEF CallKind
<1>5. e \in Seq(CallKind) /\ Len(e) = 3 /\ e[1] = "send_ad" /\ e[2] = "INIT" /\ e[3] = "setrun"
  BY DEF CallKind
<1> HIDE DEF a, b, c, d, e
<1>6. Orderly(a) /\ ~Counts(a)
  BY <1>1, DownOrder
<1>7. Orderly(b) /\ ~Counts(b)
  BY <1>2, DownOrder
<1>8. Orderly(c) /\ ~Counts(c)
  BY <1>3, DownOrder
<1>9. Orderly(d) /\ ~Counts(d)
  BY <1>4, DownOrder
<1>10. Orderly(e) /\ ~Counts(e)
  BY <1>5, DownOrder
<1>11. \A r \in {a, b, c, d, e} : Orderly(r) /\ ~Counts(r)
  BY <1>6, <1>7, <1>8, <1>9, <1>10
<1> QED
  BY <1>11 DEF a, b, c, d, e

-----------------------------------------------------------------------------
(* The walks of a host, as one begins or is over. *)
RestOk(q) == Orderly(q) /\ (Starts(q, "nosuccess") \/ Starts(q, "suppressed"))
Shape(ws) == \A w \in Range(ws) : RestOk(w.rest)

\* carpif_list names every interface.
LEMMA CarpifListType ==
  CarpifList \in Seq(Vhid)
<1> DEFINE n == Cardinality(Vhid)
<1>1. IsFiniteSet(Vhid)
  BY CarpAssumption
<1>2. n \in Nat /\ ExistsBijection(1..n, Vhid)
  BY <1>1, FS_CardinalityType
<1>3. PICK f \in [1..n -> Vhid] : IsInjective(f)
  BY <1>2 DEF ExistsBijection, Bijection, Injection, IsInjective
<1>4. CarpifList \in [1..n -> Vhid]
  BY <1>3 DEF CarpifList, SetToSeq
<1> QED
  BY <1>2, <1>4

\* One more walk, or one less.
LEMMA OneWalk ==
  ASSUME NEW ws, NEW xs, NEW w, Range(xs) = Range(ws) \cup {w}
  PROVE  /\ \A u, c : Elsewhere(xs, u, c) <=> Elsewhere(ws, u, c) \/ (u = w.v /\ Has(w.rest, c))
         /\ Owed(xs) = Owed(ws) \cup Own(w.v, w.rest)
         /\ CountedBy(xs) = CountedBy(ws) \cup (IF Counts(w.rest) THEN {w.v} ELSE {})
         /\ Shape(xs) <=> Shape(ws) /\ RestOk(w.rest)
<1>1. \A u, c : Elsewhere(xs, u, c) <=> Elsewhere(ws, u, c) \/ (u = w.v /\ Has(w.rest, c))
  BY DEF Elsewhere
<1>2. Owed(xs) = Owed(ws) \cup Own(w.v, w.rest)
  BY DEF Owed, Own
<1>3. CountedBy(xs) = CountedBy(ws) \cup (IF Counts(w.rest) THEN {w.v} ELSE {})
  BY DEF CountedBy
<1>4. Shape(xs) <=> Shape(ws) /\ RestOk(w.rest)
  BY DEF Shape
<1> QED
  BY <1>1, <1>2, <1>3, <1>4

\* xs is ws and, behind it, w.
Grown(ws, w, xs) ==
  /\ xs \in Seq(WalkRec) /\ Len(xs) = Len(ws) + 1 /\ Len(ws) \in Nat
  /\ \A i \in 1..Len(ws) : xs[i] = ws[i]
  /\ xs[Len(ws) + 1] = w
  /\ Range(xs) = Range(ws) \cup {w}

\* The walks of a host when one more begins.
LEMMA Appended ==
  ASSUME NEW ws \in Seq(WalkRec), NEW w \in WalkRec, NEW xs, xs = Append(ws, w)
  PROVE  Grown(ws, w, xs)
<1>1. /\ xs \in Seq(WalkRec) /\ Len(xs) = Len(ws) + 1 /\ Len(ws) \in Nat
      /\ \A i \in 1..Len(ws) : xs[i] = ws[i]
      /\ xs[Len(ws) + 1] = w
  BY AppendProperties
<1>2. DOMAIN xs = 1..Len(xs) /\ DOMAIN ws = 1..Len(ws)
  BY <1>1
<1>3. Range(xs) = Range(ws) \cup {w}
  <2>1. ASSUME NEW i \in 1..Len(xs) PROVE xs[i] \in Range(ws) \cup {w}
    BY <1>1, <1>2 DEF Range
  <2>2. ASSUME NEW i \in 1..Len(ws) PROVE ws[i] \in Range(xs)
    BY <1>1, <1>2 DEF Range
  <2>3. w \in Range(xs)
    BY <1>1, <1>2 DEF Range
  <2> QED
    BY <1>2, <2>1, <2>2, <2>3 DEF Range
<1> QED
  BY <1>1, <1>3 DEF Grown

\* The walks of a host when the first is over.
LEMMA HeadGone ==
  ASSUME NEW ws \in Seq(WalkRec), ws # <<>>, NEW w, w = Head(ws), NEW xs, xs = Tail(ws)
  PROVE  /\ w \in WalkRec /\ w = ws[1]
         /\ xs \in Seq(WalkRec) /\ Len(xs) = Len(ws) - 1 /\ Len(ws) \in Nat /\ Len(ws) >= 1
         /\ \A i \in 1..Len(xs) : xs[i] = ws[i + 1]
         /\ Range(ws) = Range(xs) \cup {w}
<1>1. /\ w \in WalkRec /\ w = ws[1]
      /\ xs \in Seq(WalkRec) /\ Len(xs) = Len(ws) - 1 /\ Len(ws) \in Nat /\ Len(ws) >= 1
      /\ \A i \in 1..Len(xs) : xs[i] = ws[i + 1]
  BY HeadTailProperties
<1>2. DOMAIN xs = 1..Len(xs) /\ DOMAIN ws = 1..Len(ws)
  BY <1>1
<1>3. Range(ws) = Range(xs) \cup {w}
  <2>1. ASSUME NEW i \in 1..Len(ws) PROVE ws[i] \in Range(xs) \cup {w}
    <3>1. CASE i = 1
      BY <1>1, <3>1
    <3>2. CASE i # 1
      <4>1. i - 1 \in 1..Len(xs) /\ xs[i - 1] = ws[i]
        BY <1>1, <3>2
      <4> QED
        BY <1>2, <4>1 DEF Range
    <3> QED
      BY <3>1, <3>2
  <2>2. ASSUME NEW i \in 1..Len(xs) PROVE xs[i] \in Range(ws)
    <3>1. i + 1 \in 1..Len(ws) /\ xs[i] = ws[i + 1]
      BY <1>1
    <3> QED
      BY <1>2, <3>1 DEF Range
  <2>3. w \in Range(ws)
    <3>1. 1 \in 1..Len(ws)
      BY <1>1
    <3> QED
      BY <1>1, <1>2, <3>1 DEF Range
  <2> QED
    BY <1>2, <2>1, <2>2, <2>3 DEF Range
<1> QED
  BY <1>1, <1>3

\* No two walks of an interface have both to count it.
Singly(ws) ==
  /\ \A w \in Range(ws) : Counts(w.rest) => w.by \in {"link", "addr"}
  /\ \A i, j \in 1..Len(ws) : Counts(ws[i].rest) /\ Counts(ws[j].rest) /\ ws[i].v = ws[j].v => i = j

\* A walk that has to count its interface is the only one, and begun by who counts.
MayJoin(ws, w) == Counts(w.rest) => w.v \notin CountedBy(ws) /\ w.by \in {"link", "addr"}

\* One more walk counts an interface that no other counts.
LEMMA SinglyAppended ==
  ASSUME NEW ws \in Seq(WalkRec), NEW w \in WalkRec, NEW xs, xs = Append(ws, w), Singly(ws), MayJoin(ws, w)
  PROVE  Singly(xs)
<1>1. /\ xs \in Seq(WalkRec) /\ Len(xs) = Len(ws) + 1 /\ Len(ws) \in Nat
      /\ \A i \in 1..Len(ws) : xs[i] = ws[i]
      /\ xs[Len(ws) + 1] = w
      /\ Range(xs) = Range(ws) \cup {w}
  <2>1. Grown(ws, w, xs)
    BY Appended
  <2> QED
    BY <2>1 DEF Grown
<1>2. \A u \in Range(xs) : Counts(u.rest) => u.by \in {"link", "addr"}
  BY <1>1 DEF Singly, MayJoin
<1>3. ASSUME NEW i \in 1..Len(ws), Counts(ws[i].rest), Counts(w.rest), ws[i].v = w.v PROVE FALSE
  <2>1. ws[i] \in Range(ws)
    BY DEF Range
  <2> QED
    BY <1>3, <2>1 DEF CountedBy, MayJoin
<1>4. ASSUME NEW i \in 1..Len(xs), NEW j \in 1..Len(xs), Counts(xs[i].rest), Counts(xs[j].rest), xs[i].v = xs[j].v
      PROVE  i = j
  <2>1. CASE i <= Len(ws) /\ j <= Len(ws)
    BY <1>1, <1>4, <2>1 DEF Singly
  <2>2. CASE i <= Len(ws) /\ j = Len(ws) + 1
    BY <1>1, <1>3, <1>4, <2>2
  <2>3. CASE i = Len(ws) + 1 /\ j <= Len(ws)
    BY <1>1, <1>3, <1>4, <2>3
  <2>4. CASE i = Len(ws) + 1 /\ j = Len(ws) + 1
    BY <2>4
  <2> QED
    BY <1>1, <2>1, <2>2, <2>3, <2>4
<1> QED
  BY <1>2, <1>4 DEF Singly

\* A walk that is over leaves no other that counts its interface.
LEMMA SinglyTail ==
  ASSUME NEW ws \in Seq(WalkRec), ws # <<>>, NEW w, w = Head(ws), NEW xs, xs = Tail(ws), Singly(ws)
  PROVE  Singly(xs) /\ MayJoin(xs, w)
<1>1. /\ w \in WalkRec /\ w = ws[1]
      /\ xs \in Seq(WalkRec) /\ Len(xs) = Len(ws) - 1 /\ Len(ws) \in Nat /\ Len(ws) >= 1
      /\ \A i \in 1..Len(xs) : xs[i] = ws[i + 1]
      /\ Range(ws) = Range(xs) \cup {w}
  BY HeadGone
<1>2. \A i \in 1..Len(xs) : i + 1 \in 1..Len(ws)
  BY <1>1
<1>3. Singly(xs)
  <2>1. \A u \in Range(xs) : Counts(u.rest) => u.by \in {"link", "addr"}
    BY <1>1 DEF Singly
  <2>2. ASSUME NEW i \in 1..Len(xs), NEW j \in 1..Len(xs), Counts(xs[i].rest), Counts(xs[j].rest), xs[i].v = xs[j].v
        PROVE  i = j
    <3>1. i + 1 = j + 1
      BY <1>1, <1>2, <2>2 DEF Singly
    <3> QED
      BY <3>1
  <2> QED
    BY <2>1, <2>2 DEF Singly
<1>4. ASSUME Counts(w.rest), w.v \in CountedBy(xs) PROVE FALSE
  <2>1. PICK u \in Range(xs) : Counts(u.rest) /\ u.v = w.v
    BY <1>4 DEF CountedBy
  <2>2. PICK i \in 1..Len(xs) : u = xs[i]
    BY <1>1 DEF Range
  <2>3. 1 = i + 1
    <3>1. 1 \in 1..Len(ws)
      BY <1>1
    <3> QED
      BY <1>1, <1>2, <1>4, <2>1, <2>2, <3>1 DEF Singly
  <2> QED
    BY <2>3
<1> QED
  BY <1>1, <1>3, <1>4 DEF Singly, MayJoin

-----------------------------------------------------------------------------
(* A rest that waits for its walk is owed by the walk. *)
Waits(p) == p = <<>> \/ Starts(p, "nosuccess") \/ Starts(p, "suppressed")
\* ws is xs and a walk of u with p for its rest.
Merged(ws, xs, u, p) == \A c : Elsewhere(ws, u, c) <=> Elsewhere(xs, u, c) \/ Has(p, c)

\* Nothing is left to do.
LEMMA EmptyHas ==
  /\ \A c : ~Has(<<>>, c) /\ ~Starts(<<>>, c)
  /\ \A c, d : ~StartsTwo(<<>>, c, d)
  /\ ~Counts(<<>>) /\ (\A v : Own(v, <<>>) = {})
<1>1. Len(<<>>) = 0
  OBVIOUS
<1>2. \A c : ~Has(<<>>, c) /\ ~Starts(<<>>, c)
  BY <1>1 DEF Has, Starts
<1>3. \A c, d : ~StartsTwo(<<>>, c, d)
  BY <1>1 DEF StartsTwo
<1> QED
  BY <1>2, <1>3 DEF Counts, Own

\* A rest that waits starts with the flag or the counter of successes.
LEMMA WaitsStarts ==
  ASSUME NEW p, Waits(p)
  PROVE  /\ \A c \in {"MASTER", "setrun", "INIT", "BACKUP", "send_ad", "delete"} : ~Starts(p, c)
         /\ ~StartsTwo(p, "setrun", "delete") /\ ~StartsTwo(p, "MASTER", "send_ad")
<1>1. \A c \in {"MASTER", "setrun", "INIT", "BACKUP", "send_ad", "delete"} : ~Starts(p, c)
  <2>1. CASE p = <<>>
    BY <2>1, EmptyHas
  <2>2. CASE Starts(p, "nosuccess") \/ Starts(p, "suppressed")
    BY <2>2 DEF Starts
  <2> QED
    BY <2>1, <2>2 DEF Waits
<1>2. ~StartsTwo(p, "setrun", "delete") /\ ~StartsTwo(p, "MASTER", "send_ad")
  BY <1>1 DEF StartsTwo, Starts
<1> QED
  BY <1>1, <1>2

\* The rest of a handler and that of its walk say the same of an interface.
LEMMA MergedGood ==
  ASSUME NEW ws, NEW xs, NEW u, NEW p, Merged(ws, xs, u, p), Waits(p), NEW x
  PROVE  /\ RouteGood(x, ws, u, <<>>) <=> RouteGood(x, xs, u, p)
         /\ \A there : PartGood(x, ws, u, <<>>, there) <=> PartGood(x, xs, u, p, there)
<1> DEFINE e == <<>>
<1>1. /\ \A c \in {"MASTER", "setrun", "INIT", "BACKUP", "send_ad", "delete"} : ~Starts(p, c)
      /\ ~StartsTwo(p, "setrun", "delete") /\ ~StartsTwo(p, "MASTER", "send_ad")
  BY WaitsStarts
<1>2. /\ \A c : ~Has(e, c) /\ ~Starts(e, c)
      /\ \A c, d : ~StartsTwo(e, c, d)
  BY EmptyHas
<1> HIDE DEF e
<1>3. /\ Elsewhere(ws, u, "MASTER") <=> Elsewhere(xs, u, "MASTER") \/ Has(p, "MASTER")
      /\ Elsewhere(ws, u, "add") <=> Elsewhere(xs, u, "add") \/ Has(p, "add")
      /\ Elsewhere(ws, u, "arm") <=> Elsewhere(xs, u, "arm") \/ Has(p, "arm")
  BY DEF Merged
<1>4. RouteGood(x, ws, u, e) <=> RouteGood(x, xs, u, p)
  BY <1>1, <1>2, <1>3 DEF RouteGood
<1>5. ASSUME NEW there PROVE PartGood(x, ws, u, e, there) <=> PartGood(x, xs, u, p, there)
  BY <1>1, <1>2, <1>3 DEF PartGood
<1> QED
  BY <1>4, <1>5 DEF e

\* The walks of a host behind a handler.
LEMMA WalkingIs ==
  ASSUME NEW z \in Frame, NEW v \in Vhid, NEW r, r = z.rest, NEW ws, ws = z.walks, NEW xs, xs = Walking(z, v),
         IF z.open THEN RestOk(r) ELSE r = <<>>
  PROVE  /\ xs \in Seq(WalkRec)
         /\ Merged(xs, ws, v, r) /\ Waits(r)
         /\ \A u : u # v => Merged(xs, ws, u, <<>>)
         /\ Owed(xs) = Owed(ws) \cup Own(v, r)
         /\ Shape(ws) => Shape(xs)
         /\ Singly(ws) /\ (Counts(r) => v \notin CountedBy(ws) /\ z.by \in {"link", "addr"}) => Singly(xs)
<1>1. ws \in Seq(WalkRec) /\ r \in Seq(CallKind) /\ z.by \in By
  BY DEF Frame
<1>2. CASE ~z.open
  <2>1. xs = ws /\ r = <<>>
    BY <1>2 DEF Walking
  <2>2. \A u : Merged(xs, ws, u, r)
    BY <2>1, EmptyHas DEF Merged
  <2>3. Own(v, r) = {} /\ Waits(r)
    BY <2>1, EmptyHas DEF Waits
  <2> QED
    BY <1>1, <2>1, <2>2, <2>3
<1>3. CASE z.open
  <2> DEFINE w == [v |-> v, rest |-> z.rest, todo |-> CarpifList, by |-> z.by]
  <2>1. xs = Append(ws, w)
    BY <1>3 DEF Walking
  <2>2. w \in WalkRec
    BY <1>1, CarpifListType DEF WalkRec
  <2>3. w.v = v /\ w.rest = r /\ w.by = z.by
    OBVIOUS
  <2> HIDE DEF w
  <2>4. Grown(ws, w, xs)
    BY <1>1, <2>1, <2>2, Appended
  <2>5. xs \in Seq(WalkRec) /\ Range(xs) = Range(ws) \cup {w}
    BY <2>4 DEF Grown
  <2>6. /\ \A u, c : Elsewhere(xs, u, c) <=> Elsewhere(ws, u, c) \/ (u = w.v /\ Has(w.rest, c))
        /\ Owed(xs) = Owed(ws) \cup Own(w.v, w.rest)
        /\ Shape(xs) <=> Shape(ws) /\ RestOk(w.rest)
    BY <2>5, OneWalk
  <2>7. \A u : u # v => Merged(xs, ws, u, <<>>)
    BY <2>3, <2>6, EmptyHas DEF Merged
  <2>8. Merged(xs, ws, v, r)
    BY <2>3, <2>6 DEF Merged
  <2>9. ASSUME Singly(ws), Counts(r) => v \notin CountedBy(ws) /\ z.by \in {"link", "addr"}
        PROVE  Singly(xs)
    <3>1. MayJoin(ws, w)
      BY <2>3, <2>9 DEF MayJoin
    <3> QED
      BY <1>1, <2>1, <2>2, <2>9, <3>1, SinglyAppended
  <2>10. Waits(r)
    BY <1>3 DEF RestOk, Waits
  <2> QED
    BY <1>3, <2>3, <2>5, <2>6, <2>7, <2>8, <2>9, <2>10
<1> QED
  BY <1>2, <1>3

-----------------------------------------------------------------------------
(* What a handler does to the state of its host. *)
Inboxes == [Host -> [Vhid -> Seq(Nat)]]

\* z is what the handler has come to with the outcome o.
Handled(y, v, calls, z, o) ==
  /\ o \in Outcome /\ o \in Troubles \cup {"sent"}
  /\ \A there : Keeps(y, calls, z, z.rest, v, o, there)
  /\ sc' = [sc EXCEPT ![y.h] = z.sc]
  /\ demoted' = [demoted EXCEPT ![y.h] = z.demoted]
  /\ walks' = [walks EXCEPT ![y.h] = Walking(z, v)]
  /\ inbox' \in Inboxes
  /\ left' \in Int /\ 0 <= left' /\ left' <= y.left
  /\ o = "failed" /\ y.sc[v].errors = 0 => left' < y.left

\* An advertisement arrives in the inboxes of others.
LEMMA DeliveredType ==
  ASSUME NEW z \in Frame, NEW v \in Vhid
  PROVE  Delivered(z, v) \in Inboxes
<1>1. z.inbox \in [Host -> [Vhid -> Seq(Nat)]] /\ z.sent \in Nat
  BY DEF Frame
<1>2. ASSUME NEW g \in Host
      PROVE  (IF z.sent # NoAd /\ Reaches(z.h, g, v)
              THEN [z.inbox[g] EXCEPT ![v] = Append(@, z.sent)] ELSE z.inbox[g]) \in [Vhid -> Seq(Nat)]
  <2> DEFINE b == z.inbox[g]
             s == b[v]
             n == z.sent
  <2>1. b \in [Vhid -> Seq(Nat)] /\ s \in Seq(Nat) /\ n \in Nat
    BY <1>1
  <2> HIDE DEF s, n
  <2>2. Append(s, n) \in Seq(Nat)
    BY <2>1, AppendProperties
  <2>3. [b EXCEPT ![v] = Append(s, n)] \in [Vhid -> Seq(Nat)]
    BY <2>1, <2>2
  <2> QED
    BY <2>1, <2>3 DEF s, n
<1> QED
  BY <1>2 DEF Delivered, Inboxes

\* A trouble that is paid for changes nothing else.
LEMMA ChargedFrame ==
  ASSUME NEW z \in Frame, NEW c \in Int, NEW e, e = Charged(z, c)
  PROVE  /\ e \in Frame
         /\ e.h = z.h /\ e.sc = z.sc /\ e.demoted = z.demoted /\ e.walks = z.walks /\ e.inbox = z.inbox
         /\ e.by = z.by /\ e.open = z.open /\ e.rest = z.rest /\ e.left = z.left - c
<1> DEFINE n == z.left - c
<1>1. n \in Int
  BY DEF Frame
<1>2. e = [z EXCEPT !.left = n]
  BY DEF Charged
<1>3. e.left = n
  BY <1>2 DEF Frame
<1> HIDE DEF n
<1>4. /\ e \in Frame
      /\ e.h = z.h /\ e.sc = z.sc /\ e.demoted = z.demoted /\ e.walks = z.walks /\ e.inbox = z.inbox
      /\ e.by = z.by /\ e.open = z.open /\ e.rest = z.rest
  BY <1>1, <1>2 DEF Frame
<1> QED
  BY <1>3, <1>4 DEF n

\* A handler ends in what its calls have kept.
LEMMA HandleDoes ==
  ASSUME NEW y \in Frame, ~y.open, y.rest = <<>>, NEW calls, Orderly(calls), NEW v \in Vhid,
         Handle(v, y, calls)
  PROVE  \E z, o : Handled(y, v, calls, z, o)
<1>1. PICK o, z, e :
        o \in Outcomes(y, v) /\ z = Do(y, v, calls, o) /\ e = Charged(z, Cost(y.sc[v], o)) /\ Finish(e, v)
  BY DEF Handle
<1>2. o \in Outcome /\ o \in Troubles \cup {"sent"} /\ Cost(y.sc[v], o) <= y.left
  BY <1>1 DEF Outcomes, Outcome
<1>3. ASSUME NEW there PROVE Keeps(y, calls, z, z.rest, v, o, there)
  BY <1>1, <1>2, DoKeeps
<1>4. z \in Frame /\ z.h = y.h /\ z.left = y.left
  BY <1>3 DEF Keeps, Leaves
<1>5. y.left \in Int /\ Cost(y.sc[v], o) \in {0, 1}
  BY DEF Frame, Cost
<1>6. o = "failed" /\ y.sc[v].errors = 0 => Cost(y.sc[v], o) = 1
  BY DEF Cost
<1> DEFINE c == Cost(y.sc[v], o)
<1>7. c \in Int
  BY <1>5
<1> HIDE DEF c
<1>8. /\ e \in Frame
      /\ e.h = z.h /\ e.sc = z.sc /\ e.demoted = z.demoted /\ e.walks = z.walks
      /\ e.by = z.by /\ e.open = z.open /\ e.rest = z.rest /\ e.left = z.left - c
  <2>1. e = Charged(z, c)
    BY <1>1 DEF c
  <2> QED
    BY <1>4, <1>7, <2>1, ChargedFrame
<1>9. Walking(e, v) = Walking(z, v)
  BY <1>8 DEF Walking
<1>10. /\ sc' = [sc EXCEPT ![y.h] = z.sc]
       /\ demoted' = [demoted EXCEPT ![y.h] = z.demoted]
       /\ walks' = [walks EXCEPT ![y.h] = Walking(z, v)]
       /\ inbox' = Delivered(e, v) /\ left' = e.left
  BY <1>1, <1>4, <1>8, <1>9 DEF Finish
<1>11. inbox' \in Inboxes
  BY <1>8, <1>10, DeliveredType
<1>12. /\ left' \in Int /\ 0 <= left' /\ left' <= y.left
       /\ o = "failed" /\ y.sc[v].errors = 0 => left' < y.left
  BY <1>2, <1>4, <1>5, <1>6, <1>8, <1>10 DEF c
<1>13. Handled(y, v, calls, z, o)
  BY <1>2, <1>3, <1>10, <1>11, <1>12 DEF Handled
<1> QED
  BY <1>13

-----------------------------------------------------------------------------
(* The invariants. *)
TypeOK ==
  /\ link \in [Host -> [Vhid -> BOOLEAN]]
  /\ task \in [Host -> SUBSET Vhid]
  /\ sc \in [Host -> [Vhid -> Softc]]
  /\ demoted \in [Host -> Int]
  /\ walks \in [Host -> Seq(WalkRec)]
  /\ stuck \in [Host -> BOOLEAN]
  /\ inbox \in Inboxes
  /\ touched \subseteq Host \X Vhid
  /\ left \in 0..MaxTroubles

ShapeInv == \A h \in Host : Shape(walks[h])

RouteInv == \A h \in Host, v \in Vhid : RouteGood(sc[h][v], walks[h], v, <<>>)

\* What the link task has seen of the parent.
Seen(h, v) == link[h][v] # (v \in task[h])
PartInv == \A h \in Host, v \in Vhid :
  sc[h][v].addr /\ <<h, v>> \notin touched => PartGood(sc[h][v], walks[h], v, <<>>, Seen(h, v))

CountHost(s, d, ws) == d = Cardinality(Flagged(s) \cup Owed(ws)) + Cardinality(Faulty(s))
SinglyInv == \A h \in Host : Singly(walks[h])
CountInv == \A h \in Host : CountHost(sc[h], demoted[h], walks[h])
ErrorInv == (\E h \in Host, v \in Vhid : sc[h][v].errors # 0) => left < MaxTroubles /\ "failed" \in Troubles

-----------------------------------------------------------------------------
(* A handler keeps them, if it finds them with its calls still to be made. *)
From(h, v, y) ==
  /\ y \in Frame /\ ~y.open /\ y.rest = <<>> /\ y.h = h
  /\ y.demoted = demoted[h] /\ y.left \in Int /\ y.left <= left
  /\ \A u \in Vhid : u # v => y.sc[u] = sc[h][u]
  /\ y.sc[v].suppress = sc[h][v].suppress /\ y.sc[v].errors = sc[h][v].errors

\* What a handler writes back: its own host, and there one interface.
LEMMA HandledState ==
  ASSUME TypeOK, NEW h \in Host, NEW v \in Vhid, NEW y, From(h, v, y), NEW calls,
         NEW z, NEW o, Handled(y, v, calls, z, o)
  PROVE  /\ z \in Frame /\ z.walks = y.walks /\ z.by = y.by
         /\ IF z.open THEN RestOk(z.rest) ELSE z.rest = <<>>
         /\ sc' = [sc EXCEPT ![h] = z.sc] /\ sc'[h] = z.sc
         /\ demoted' = [demoted EXCEPT ![h] = z.demoted] /\ demoted'[h] = z.demoted
         /\ walks' = [walks EXCEPT ![h] = Walking(z, v)] /\ walks'[h] = Walking(z, v)
         /\ \A g \in Host : g # h => sc'[g] = sc[g] /\ demoted'[g] = demoted[g] /\ walks'[g] = walks[g]
         /\ \A u \in Vhid : u # v => z.sc[u] = sc[h][u]
         /\ sc' \in [Host -> [Vhid -> Softc]] /\ demoted' \in [Host -> Int] /\ walks' \in [Host -> Seq(WalkRec)]
         /\ inbox' \in Inboxes /\ left' \in 0..MaxTroubles
<1>1. Keeps(y, calls, z, z.rest, v, o, TRUE)
  BY DEF Handled
<1>2. z \in Frame /\ z.walks = y.walks /\ z.by = y.by /\ \A u \in Vhid : u # v => z.sc[u] = y.sc[u]
  BY <1>1 DEF Keeps, Leaves
<1>3. IF z.open THEN RestOk(z.rest) ELSE z.rest = <<>>
  BY <1>1 DEF Keeps, RestOk
<1>4. Walking(z, v) \in Seq(WalkRec)
  <2>1. PICK r, ws, xs : r = z.rest /\ ws = z.walks /\ xs = Walking(z, v)
    OBVIOUS
  <2>2. IF z.open THEN RestOk(r) ELSE r = <<>>
    BY <1>3, <2>1
  <2>3. xs \in Seq(WalkRec)
    BY <1>2, <2>1, <2>2, WalkingIs
  <2> QED
    BY <2>1, <2>3
<1>5. y.h = h /\ \A u \in Vhid : u # v => y.sc[u] = sc[h][u]
  BY DEF From
<1>6. /\ sc' = [sc EXCEPT ![h] = z.sc]
      /\ demoted' = [demoted EXCEPT ![h] = z.demoted]
      /\ walks' = [walks EXCEPT ![h] = Walking(z, v)]
      /\ inbox' \in Inboxes
      /\ left' \in Int /\ 0 <= left' /\ left' <= y.left
  BY <1>5 DEF Handled
<1>7. z.sc \in [Vhid -> Softc] /\ z.demoted \in Int
  BY <1>2 DEF Frame
<1>8. left' \in 0..MaxTroubles
  BY <1>6, CarpAssumption DEF From, TypeOK
<1> QED
  BY <1>2, <1>3, <1>4, <1>5, <1>6, <1>7, <1>8 DEF TypeOK

\* A handler keeps the routes.
LEMMA RouteHandled ==
  ASSUME TypeOK, ShapeInv, RouteInv, NEW h \in Host, NEW v \in Vhid, NEW y, From(h, v, y), NEW calls,
         NEW z, NEW o, Handled(y, v, calls, z, o), Shape(y.walks),
         \A u \in Vhid : u # v => RouteGood(sc[h][u], y.walks, u, <<>>),
         RouteGood(y.sc[v], y.walks, v, calls)
  PROVE  ShapeInv' /\ RouteInv'
<1>1. /\ z \in Frame /\ z.walks = y.walks /\ z.by = y.by
      /\ IF z.open THEN RestOk(z.rest) ELSE z.rest = <<>>
      /\ sc'[h] = z.sc /\ walks'[h] = Walking(z, v)
      /\ \A g \in Host : g # h => sc'[g] = sc[g] /\ walks'[g] = walks[g]
      /\ \A u \in Vhid : u # v => z.sc[u] = sc[h][u]
  BY HandledState
<1>2. RouteGood(z.sc[v], z.walks, v, z.rest)
  <2>1. Keeps(y, calls, z, z.rest, v, o, TRUE)
    BY DEF Handled
  <2> QED
    BY <2>1 DEF Keeps
<1>3. Shape(walks'[h]) /\ \A u \in Vhid : RouteGood(z.sc[u], walks'[h], u, <<>>)
  <2>1. PICK r, ws, xs : r = z.rest /\ ws = z.walks /\ xs = Walking(z, v)
    OBVIOUS
  <2>2. IF z.open THEN RestOk(r) ELSE r = <<>>
    BY <1>1, <2>1
  <2>3. /\ Merged(xs, ws, v, r) /\ Waits(r)
        /\ \A u : u # v => Merged(xs, ws, u, <<>>)
        /\ Shape(ws) => Shape(xs)
    BY <1>1, <2>1, <2>2, WalkingIs
  <2>4. RouteGood(z.sc[v], xs, v, <<>>)
    BY <1>2, <2>1, <2>3, MergedGood
  <2>5. ASSUME NEW u \in Vhid, u # v PROVE RouteGood(z.sc[u], xs, u, <<>>)
    <3>1. Merged(xs, ws, u, <<>>) /\ Waits(<<>>)
      BY <2>3, <2>5 DEF Waits
    <3>2. RouteGood(z.sc[u], ws, u, <<>>)
      BY <1>1, <2>1, <2>5
    <3> QED
      BY <3>1, <3>2, MergedGood
  <2> QED
    BY <1>1, <2>1, <2>3, <2>4, <2>5
<1> QED
  BY <1>1, <1>3 DEF ShapeInv, RouteInv

\* A handler keeps its interface taking part.
LEMMA PartHandled ==
  ASSUME TypeOK, PartInv, NEW h \in Host, NEW v \in Vhid, NEW y, From(h, v, y), NEW calls,
         NEW z, NEW o, Handled(y, v, calls, z, o), "notag" \notin Troubles,
         \A u \in Vhid : u # v /\ sc[h][u].addr /\ <<h, u>> \notin touched =>
                         PartGood(sc[h][u], y.walks, u, <<>>, Seen(h, u)),
         y.sc[v].addr /\ <<h, v>> \notin touched' => PartGood(y.sc[v], y.walks, v, calls, Seen(h, v)'),
         touched \subseteq touched', \A g \in Host, u \in Vhid : <<g, u>> # <<h, v>> => Seen(g, u)' = Seen(g, u)
  PROVE  PartInv'
<1>1. /\ z \in Frame /\ z.walks = y.walks /\ z.by = y.by
      /\ IF z.open THEN RestOk(z.rest) ELSE z.rest = <<>>
      /\ sc'[h] = z.sc /\ walks'[h] = Walking(z, v)
      /\ \A g \in Host : g # h => sc'[g] = sc[g] /\ walks'[g] = walks[g]
      /\ \A u \in Vhid : u # v => z.sc[u] = sc[h][u]
  BY HandledState
<1>2. /\ o # "notag"
      /\ z.sc[v].addr = y.sc[v].addr
      /\ \A there : y.sc[v].addr /\ PartGood(y.sc[v], y.walks, v, calls, there)
                    => PartGood(z.sc[v], z.walks, v, z.rest, there)
  <2>1. o # "notag" /\ \A there : Keeps(y, calls, z, z.rest, v, o, there)
    BY DEF Handled
  <2> QED
    BY <2>1 DEF Keeps
<1>3. /\ Merged(walks'[h], z.walks, v, z.rest) /\ Waits(z.rest)
      /\ \A u : u # v => Merged(walks'[h], z.walks, u, <<>>)
  <2>1. PICK r, ws, xs : r = z.rest /\ ws = z.walks /\ xs = Walking(z, v)
    OBVIOUS
  <2>2. IF z.open THEN RestOk(r) ELSE r = <<>>
    BY <1>1, <2>1
  <2>3. /\ Merged(xs, ws, v, r) /\ Waits(r)
        /\ \A u : u # v => Merged(xs, ws, u, <<>>)
    BY <1>1, <2>1, <2>2, WalkingIs
  <2> QED
    BY <1>1, <2>1, <2>3
<1>4. ASSUME z.sc[v].addr, <<h, v>> \notin touched'
      PROVE  PartGood(z.sc[v], walks'[h], v, <<>>, Seen(h, v)')
  <2>1. PICK there : there = Seen(h, v)'
    OBVIOUS
  <2>2. PartGood(z.sc[v], z.walks, v, z.rest, there)
    BY <1>2, <1>4, <2>1
  <2>3. PartGood(z.sc[v], walks'[h], v, <<>>, there)
    BY <1>3, <2>2, MergedGood
  <2> QED
    BY <2>1, <2>3
<1>5. ASSUME NEW u \in Vhid, u # v, z.sc[u].addr, <<h, u>> \notin touched'
      PROVE  PartGood(z.sc[u], walks'[h], u, <<>>, Seen(h, u)')
  <2>1. PartGood(z.sc[u], z.walks, u, <<>>, Seen(h, u))
    BY <1>1, <1>5
  <2>2. Merged(walks'[h], z.walks, u, <<>>) /\ Waits(<<>>)
    BY <1>3, <1>5 DEF Waits
  <2>3. PartGood(z.sc[u], walks'[h], u, <<>>, Seen(h, u))
    BY <2>1, <2>2, MergedGood
  <2>4. Seen(h, u)' = Seen(h, u)
    BY <1>5
  <2> QED
    BY <2>3, <2>4
<1>6. ASSUME NEW g \in Host, g # h, NEW u \in Vhid, sc'[g][u].addr, <<g, u>> \notin touched'
      PROVE  PartGood(sc'[g][u], walks'[g], u, <<>>, Seen(g, u)')
  <2>1. PartGood(sc[g][u], walks[g], u, <<>>, Seen(g, u))
    BY <1>1, <1>6 DEF PartInv
  <2>2. Seen(g, u)' = Seen(g, u)
    BY <1>6
  <2> QED
    BY <1>1, <1>6, <2>1, <2>2
<1> QED
  BY <1>1, <1>4, <1>5, <1>6 DEF PartInv

\* A handler keeps the counter.
LEMMA CountHandled ==
  ASSUME TypeOK, SinglyInv, CountInv, NEW h \in Host, NEW v \in Vhid, NEW y, From(h, v, y), NEW calls,
         NEW z, NEW o, Handled(y, v, calls, z, o), CountGood(y, v, calls), Singly(y.walks),
         Counts(calls) => y.by \in {"link", "addr"}
  PROVE  SinglyInv' /\ CountInv'
<1>1. /\ z \in Frame /\ z.walks = y.walks /\ z.by = y.by
      /\ IF z.open THEN RestOk(z.rest) ELSE z.rest = <<>>
      /\ sc'[h] = z.sc /\ walks'[h] = Walking(z, v) /\ demoted'[h] = z.demoted
      /\ \A g \in Host : g # h => sc'[g] = sc[g] /\ walks'[g] = walks[g] /\ demoted'[g] = demoted[g]
  BY HandledState
<1>2. CountGood(z, v, z.rest) /\ (Counts(z.rest) => Counts(calls))
  <2>1. Keeps(y, calls, z, z.rest, v, o, TRUE)
    BY DEF Handled
  <2> QED
    BY <2>1 DEF Keeps
<1>3. Singly(walks'[h]) /\ Owed(walks'[h]) = Owed(z.walks) \cup Own(v, z.rest)
  <2>1. PICK r, ws, xs : r = z.rest /\ ws = z.walks /\ xs = Walking(z, v)
    OBVIOUS
  <2>2. IF z.open THEN RestOk(r) ELSE r = <<>>
    BY <1>1, <2>1
  <2>3. /\ Owed(xs) = Owed(ws) \cup Own(v, r)
        /\ Singly(ws) /\ (Counts(r) => v \notin CountedBy(ws) /\ z.by \in {"link", "addr"}) => Singly(xs)
    BY <1>1, <2>1, <2>2, WalkingIs
  <2>4. Singly(ws) /\ (Counts(r) => v \notin CountedBy(ws) /\ z.by \in {"link", "addr"})
    BY <1>1, <1>2, <2>1 DEF CountGood
  <2> QED
    BY <1>1, <2>1, <2>3, <2>4
<1>4. CountHost(z.sc, z.demoted, walks'[h])
  <2>1. Flagged(z.sc) \cup Owed(walks'[h]) = Flagged(z.sc) \cup Owed(z.walks) \cup Own(v, z.rest)
    BY <1>3
  <2> QED
    BY <1>2, <2>1 DEF CountGood, CountHost
<1> QED
  BY <1>1, <1>3, <1>4 DEF SinglyInv, CountInv

\* A handler pays for the errors that it counts.
LEMMA ErrorHandled ==
  ASSUME TypeOK, ErrorInv, NEW h \in Host, NEW v \in Vhid, NEW y, From(h, v, y), NEW calls,
         NEW z, NEW o, Handled(y, v, calls, z, o)
  PROVE  ErrorInv'
<1>1. /\ sc'[h] = z.sc
      /\ \A g \in Host : g # h => sc'[g] = sc[g]
      /\ \A u \in Vhid : u # v => z.sc[u] = sc[h][u]
  BY HandledState
<1>2. o # "failed" /\ y.sc[v].errors = 0 => z.sc[v].errors = 0
  <2>1. Keeps(y, calls, z, z.rest, v, o, TRUE)
    BY DEF Handled
  <2> QED
    BY <2>1 DEF Keeps
<1>3. /\ o \in Troubles \cup {"sent"}
      /\ left' \in Int /\ left' <= y.left /\ y.left <= left /\ left <= MaxTroubles /\ left \in Int /\ MaxTroubles \in Int
      /\ y.left \in Int /\ y.sc[v].errors = sc[h][v].errors
      /\ o = "failed" /\ y.sc[v].errors = 0 => left' < y.left
  BY CarpAssumption DEF Handled, From, TypeOK
<1>4. ASSUME NEW g \in Host, NEW u \in Vhid, sc'[g][u].errors # 0
      PROVE  left' < MaxTroubles /\ "failed" \in Troubles
  <2>1. CASE sc[g][u].errors # 0
    <3>1. left < MaxTroubles /\ "failed" \in Troubles
      BY <2>1 DEF ErrorInv
    <3> QED
      BY <1>3, <3>1
  <2>2. CASE sc[g][u].errors = 0
    <3>1. g = h /\ u = v
      BY <1>1, <1>4, <2>2
    <3>2. o = "failed"
      BY <1>1, <1>2, <1>3, <1>4, <2>2, <3>1
    <3> QED
      BY <1>3, <2>2, <3>1, <3>2
  <2> QED
    BY <2>1, <2>2
<1> QED
  BY <1>4 DEF ErrorInv

-----------------------------------------------------------------------------
(* What a handler finds. *)
\* A handler finds its host as it is.
LEMMA FromBegin ==
  ASSUME TypeOK, NEW h \in Host, NEW v \in Vhid, NEW y, y = Begin(h)
  PROVE  /\ From(h, v, y) /\ y.sc = sc[h] /\ y.walks = walks[h] /\ y.by = "other" /\ y.left = left
         /\ y.inbox = inbox /\ y.sent = NoAd
<1>1. /\ y.h = h /\ y.sc = sc[h] /\ y.demoted = demoted[h] /\ y.walks = walks[h] /\ y.inbox = inbox /\ y.left = left
      /\ y.by = "other" /\ y.sent = NoAd /\ y.open = FALSE /\ y.rest = <<>>
  BY DEF Begin
<1>2. y \in Frame
  <2>1. <<>> \in Seq(CallKind) /\ NoAd \in Nat /\ "other" \in By
    BY DEF NoAd, By
  <2>2. sc[h] \in [Vhid -> Softc] /\ demoted[h] \in Int /\ walks[h] \in Seq(WalkRec) /\ left \in Int
        /\ inbox \in [Host -> [Vhid -> Seq(Nat)]]
    BY DEF TypeOK, Inboxes
  <2> QED
    BY <2>1, <2>2 DEF Begin, Frame
<1>3. left \in Int
  BY CarpAssumption DEF TypeOK
<1> QED
  BY <1>1, <1>2, <1>3 DEF From

\* The softc of the interface is another one.
WithSoftc(b, v, x) == [b EXCEPT !.sc[v] = x]
\* A handler may find its softc changed, but for what is counted.
LEMMA FromSoftc ==
  ASSUME NEW h \in Host, NEW v \in Vhid, NEW b, From(h, v, b), NEW x \in Softc,
         x.suppress = sc[h][v].suppress, x.errors = sc[h][v].errors, NEW y, y = WithSoftc(b, v, x)
  PROVE  /\ From(h, v, y) /\ y.sc[v] = x /\ y.walks = b.walks /\ y.by = b.by /\ y.left = b.left /\ y.inbox = b.inbox
<1>1. b \in Frame
  BY DEF From
<1>2. Touches(b, y, v, x)
  BY <1>1, TouchedSoftc DEF WithSoftc
<1> QED
  BY <1>2 DEF Touches, Leaves, From

\* What else an action changes before it begins.
WithLeft(b, n) == [b EXCEPT !.left = n]
\* A handler may have paid for its trouble.
LEMMA FromLeft ==
  ASSUME NEW h \in Host, NEW v \in Vhid, NEW b, From(h, v, b), NEW n \in Int, n <= left, NEW y, y = WithLeft(b, n)
  PROVE  /\ From(h, v, y) /\ y.sc = b.sc /\ y.walks = b.walks /\ y.by = b.by /\ y.left = n /\ y.inbox = b.inbox
<1>1. b \in Frame
  BY DEF From
<1>2. /\ y \in Frame /\ y.h = b.h /\ y.sc = b.sc /\ y.demoted = b.demoted /\ y.walks = b.walks /\ y.inbox = b.inbox
      /\ y.left = n /\ y.by = b.by /\ y.open = b.open /\ y.rest = b.rest
  BY <1>1 DEF Frame, WithLeft
<1> QED
  BY <1>2 DEF From

WithBy(b, by) == [b EXCEPT !.by = by]
\* A handler may have a name.
LEMMA FromBy ==
  ASSUME NEW h \in Host, NEW v \in Vhid, NEW b, From(h, v, b), NEW by \in By, NEW y, y = WithBy(b, by)
  PROVE  /\ From(h, v, y) /\ y.sc = b.sc /\ y.walks = b.walks /\ y.by = by /\ y.left = b.left /\ y.inbox = b.inbox
<1>1. b \in Frame
  BY DEF From
<1>2. /\ y \in Frame /\ y.h = b.h /\ y.sc = b.sc /\ y.demoted = b.demoted /\ y.walks = b.walks /\ y.inbox = b.inbox
      /\ y.left = b.left /\ y.by = by /\ y.open = b.open /\ y.rest = b.rest
  BY <1>1 DEF Frame, WithBy
<1> QED
  BY <1>2 DEF From

WithWalks(b, ws) == [b EXCEPT !.walks = ws]
\* A handler may follow a walk that is over.
LEMMA FromWalks ==
  ASSUME NEW h \in Host, NEW v \in Vhid, NEW b, From(h, v, b), NEW ws \in Seq(WalkRec), NEW y, y = WithWalks(b, ws)
  PROVE  /\ From(h, v, y) /\ y.sc = b.sc /\ y.walks = ws /\ y.by = b.by /\ y.left = b.left /\ y.inbox = b.inbox
<1>1. b \in Frame
  BY DEF From
<1>2. /\ y \in Frame /\ y.h = b.h /\ y.sc = b.sc /\ y.demoted = b.demoted /\ y.walks = ws /\ y.inbox = b.inbox
      /\ y.left = b.left /\ y.by = b.by /\ y.open = b.open /\ y.rest = b.rest
  BY <1>1 DEF Frame, WithWalks
<1> QED
  BY <1>2 DEF From

WithInbox(b, ib) == [b EXCEPT !.inbox = ib]
\* A handler may have read an advertisement.
LEMMA FromInbox ==
  ASSUME NEW h \in Host, NEW v \in Vhid, NEW b, From(h, v, b), NEW ib \in Inboxes, NEW y, y = WithInbox(b, ib)
  PROVE  /\ From(h, v, y) /\ y.sc = b.sc /\ y.walks = b.walks /\ y.by = b.by /\ y.left = b.left /\ y.inbox = ib
<1>1. b \in Frame
  BY DEF From
<1>2. /\ y \in Frame /\ y.h = b.h /\ y.sc = b.sc /\ y.demoted = b.demoted /\ y.walks = b.walks /\ y.inbox = ib
      /\ y.left = b.left /\ y.by = b.by /\ y.open = b.open /\ y.rest = b.rest
  BY <1>1 DEF Frame, WithInbox, Inboxes
<1> QED
  BY <1>2 DEF From

-----------------------------------------------------------------------------
(* The invariants hold of what it finds. *)
\* Calls to be made excuse more of the route than none.
LEMMA RouteAhead ==
  ASSUME NEW x, NEW ws, NEW v, NEW q, RouteGood(x, ws, v, <<>>)
  PROVE  RouteGood(x, ws, v, q)
<1> DEFINE e == <<>>
<1>1. /\ \A c : ~Has(e, c) /\ ~Starts(e, c)
      /\ \A c, d : ~StartsTwo(e, c, d)
  BY EmptyHas
<1>2. RouteGood(x, ws, v, e)
  OBVIOUS
<1> HIDE DEF e
<1> QED
  BY <1>1, <1>2 DEF RouteGood

\* Calls to be made excuse more of the timers than none.
LEMMA PartAhead ==
  ASSUME NEW x, NEW ws, NEW v, NEW q, NEW there, PartGood(x, ws, v, <<>>, there),
         Starts(q, "MASTER") => StartsTwo(q, "MASTER", "send_ad")
  PROVE  PartGood(x, ws, v, q, there)
<1> DEFINE e == <<>>
<1>1. /\ \A c : ~Has(e, c) /\ ~Starts(e, c)
      /\ \A c, d : ~StartsTwo(e, c, d)
  BY EmptyHas
<1>2. PartGood(x, ws, v, e, there)
  OBVIOUS
<1> HIDE DEF e
<1> QED
  BY <1>1, <1>2 DEF PartGood

\* The counter of the host is that of the handler.
LEMMA CountAhead ==
  ASSUME TypeOK, NEW h \in Host, NEW v \in Vhid, NEW y, From(h, v, y), NEW q,
         CountHost(sc[h], demoted[h], walks[h]), Owed(walks[h]) = Owed(y.walks) \cup Own(v, q),
         Counts(q) => v \notin CountedBy(y.walks)
  PROVE  CountGood(y, v, q)
<1>1. /\ \A u \in Vhid : u # v => y.sc[u] = sc[h][u]
      /\ y.sc[v].suppress = sc[h][v].suppress /\ y.sc[v].errors = sc[h][v].errors
      /\ y.demoted = demoted[h]
  BY DEF From
<1>2. Flagged(y.sc) = Flagged(sc[h])
  BY <1>1 DEF Flagged
<1>3. Faulty(y.sc) = Faulty(sc[h])
  BY <1>1 DEF Faulty, Ailing
<1>4. Flagged(y.sc) \cup Owed(y.walks) \cup Own(v, q) = Flagged(sc[h]) \cup Owed(walks[h])
  BY <1>2
<1> QED
  BY <1>1, <1>3, <1>4 DEF CountGood, CountHost

\* Calls that do not count.
LEMMA NotCounting ==
  ASSUME NEW q \in Seq(CallKind), ~Counts(q), NEW v
  PROVE  Own(v, q) = {}
<1>1. Len(q) \in Nat
  OBVIOUS
<1>2. Starts(q, "suppressed") => 1 \in 1..Len(q) /\ q[1] = "suppressed"
  BY <1>1 DEF Starts
<1>3. ~Starts(q, "suppressed")
  BY <1>2 DEF Counts, Has, Counting
<1> QED
  BY <1>3 DEF Own

PutAside(x) == [x EXCEPT !.backup = x.up, !.up = FALSE, !.running = FALSE, !.ad = FALSE, !.md = FALSE]
\* A parent that is down takes the flags and the timers of its interface.
LEMMA DownIs ==
  ASSUME NEW h \in Host, NEW v \in Vhid, NEW b, From(h, v, b), NEW y, y = Down(b, v)
  PROVE  From(h, v, y) /\ y.sc[v] = PutAside(b.sc[v]) /\ y.walks = b.walks /\ y.by = b.by /\ y.left = b.left
<1> DEFINE x == b.sc[v]
           y1 == [b EXCEPT !.sc[v].backup = x.up]
           y2 == [y1 EXCEPT !.sc[v].up = FALSE]
           y3 == [y2 EXCEPT !.sc[v].running = FALSE]
           y4 == [y3 EXCEPT !.sc[v].ad = FALSE]
           y5 == [y4 EXCEPT !.sc[v].md = FALSE]
           x1 == [x EXCEPT !.backup = x.up]
           x2 == [x1 EXCEPT !.up = FALSE]
           x3 == [x2 EXCEPT !.running = FALSE]
           x4 == [x3 EXCEPT !.ad = FALSE]
           x5 == [x4 EXCEPT !.md = FALSE]
<1>1. b \in Frame /\ x \in Softc /\ x.suppress = sc[h][v].suppress /\ x.errors = sc[h][v].errors
  BY DEF From, Frame
<1>2. y = y5
  BY DEF Down
<1>3. x5 = PutAside(x)
  BY DEF PutAside
<1> HIDE DEF x
<1>4. x1 \in Softc /\ x1.suppress = x.suppress /\ x1.errors = x.errors
  BY <1>1 DEF Softc
<1>5. From(h, v, y1) /\ y1.sc[v] = x1 /\ y1.walks = b.walks /\ y1.by = b.by /\ y1.left = b.left
  <2>1. y1 = WithSoftc(b, v, x1)
    BY DEF WithSoftc, x
  <2> HIDE DEF x1, y1
  <2> QED
    BY <1>1, <1>4, <2>1, FromSoftc
<1> HIDE DEF x1, y1
<1>6. x2 \in Softc /\ x2.suppress = x.suppress /\ x2.errors = x.errors
  BY <1>4 DEF Softc
<1>7. From(h, v, y2) /\ y2.sc[v] = x2 /\ y2.walks = b.walks /\ y2.by = b.by /\ y2.left = b.left
  <2>1. y2 = WithSoftc(y1, v, x2)
    BY <1>5 DEF WithSoftc
  <2> HIDE DEF x2, y2
  <2> QED
    BY <1>1, <1>5, <1>6, <2>1, FromSoftc
<1> HIDE DEF x2, y2
<1>8. x3 \in Softc /\ x3.suppress = x.suppress /\ x3.errors = x.errors
  BY <1>6 DEF Softc
<1>9. From(h, v, y3) /\ y3.sc[v] = x3 /\ y3.walks = b.walks /\ y3.by = b.by /\ y3.left = b.left
  <2>1. y3 = WithSoftc(y2, v, x3)
    BY <1>7 DEF WithSoftc
  <2> HIDE DEF x3, y3
  <2> QED
    BY <1>1, <1>7, <1>8, <2>1, FromSoftc
<1> HIDE DEF x3, y3
<1>10. x4 \in Softc /\ x4.suppress = x.suppress /\ x4.errors = x.errors
  BY <1>8 DEF Softc
<1>11. From(h, v, y4) /\ y4.sc[v] = x4 /\ y4.walks = b.walks /\ y4.by = b.by /\ y4.left = b.left
  <2>1. y4 = WithSoftc(y3, v, x4)
    BY <1>9 DEF WithSoftc
  <2> HIDE DEF x4, y4
  <2> QED
    BY <1>1, <1>9, <1>10, <2>1, FromSoftc
<1> HIDE DEF x4, y4
<1>12. x5 \in Softc /\ x5.suppress = x.suppress /\ x5.errors = x.errors
  BY <1>10 DEF Softc
<1>13. From(h, v, y5) /\ y5.sc[v] = x5 /\ y5.walks = b.walks /\ y5.by = b.by /\ y5.left = b.left
  <2>1. y5 = WithSoftc(y4, v, x5)
    BY <1>11 DEF WithSoftc
  <2> HIDE DEF x5, y5
  <2> QED
    BY <1>1, <1>11, <1>12, <2>1, FromSoftc
<1> HIDE DEF x5, y5
<1> QED
  BY <1>2, <1>3, <1>13 DEF x

\* What carp_sc_state_locked makes of the flags.
LEMMA ParentStateIs ==
  ASSUME NEW h \in Host, NEW v \in Vhid, NEW b, From(h, v, b), NEW y, y = ParentState(b, v), TypeOK
  PROVE  /\ From(h, v, y) /\ y.walks = b.walks /\ y.by = b.by /\ y.left = b.left
         /\ y.sc[v].addr = b.sc[v].addr /\ y.sc[v].route = b.sc[v].route /\ y.sc[v].state = b.sc[v].state
         /\ link[h][v] => y.sc[v].up = (b.sc[v].up \/ b.sc[v].backup)
         /\ ~link[h][v] => ~y.sc[v].up /\ ~y.sc[v].running /\ y.sc[v].backup = b.sc[v].up
<1> DEFINE x == b.sc[v]
<1>1. b \in Frame /\ b.h = h /\ x \in Softc /\ x.suppress = sc[h][v].suppress /\ x.errors = sc[h][v].errors
  BY DEF From, Frame
<1>2. CASE link[h][v]
  <2> DEFINE w == [x EXCEPT !.up = x.up \/ x.backup]
  <2>1. y = [b EXCEPT !.sc[v].up = @ \/ b.sc[v].backup]
    BY <1>1, <1>2 DEF ParentState
  <2>2. y = WithSoftc(b, v, w)
    BY <2>1 DEF WithSoftc
  <2> HIDE DEF x
  <2>3. /\ w \in Softc /\ w.suppress = x.suppress /\ w.errors = x.errors
        /\ w.addr = x.addr /\ w.route = x.route /\ w.state = x.state /\ w.up = (x.up \/ x.backup)
    BY <1>1 DEF Softc
  <2> HIDE DEF w
  <2>4. From(h, v, y) /\ y.sc[v] = w /\ y.walks = b.walks /\ y.by = b.by /\ y.left = b.left
    BY <1>1, <2>2, <2>3, FromSoftc
  <2> QED
    BY <1>2, <2>3, <2>4 DEF x
<1>3. CASE ~link[h][v]
  <2>1. y = Down(b, v)
    BY <1>1, <1>3 DEF ParentState
  <2> HIDE DEF x
  <2>2. From(h, v, y) /\ y.sc[v] = PutAside(x) /\ y.walks = b.walks /\ y.by = b.by /\ y.left = b.left
    BY <1>1, <2>1, DownIs DEF x
  <2>3. LET w == PutAside(x) IN w.addr = x.addr /\ w.route = x.route /\ w.state = x.state /\ ~w.up /\ ~w.running /\ w.backup = x.up
    BY <1>1 DEF Softc, PutAside
  <2> QED
    BY <1>3, <2>2, <2>3 DEF x
<1> QED
  BY <1>2, <1>3

-----------------------------------------------------------------------------
(* The inductive invariant.  Quiet: nothing changes a link before the link  *)
(* task has seen it, and an advertisement that is not sent sets its timer.  *)
(* Sole: an interface is counted by one thread at a time, and one that is   *)
(* destroyed has not been counted for its errors.                           *)
Quiet == Overlap = {} /\ "notag" \notin Troubles
Sole == "addr" \notin Overlap /\ ("destroy" \in Troubles => "failed" \notin Troubles \/ MaxTroubles <= 1)

CarpInv ==
  /\ TypeOK
  /\ ShapeInv
  /\ RouteInv
  /\ ErrorInv
  /\ Quiet => PartInv
  /\ Sole => SinglyInv /\ CountInv

RouteReady(h, v, y, calls) ==
  /\ Shape(y.walks)
  /\ \A u \in Vhid : u # v => RouteGood(sc[h][u], y.walks, u, <<>>)
  /\ RouteGood(y.sc[v], y.walks, v, calls)
PartReady(h, v, y, calls) ==
  /\ \A u \in Vhid : u # v /\ sc[h][u].addr /\ <<h, u>> \notin touched
                     => PartGood(sc[h][u], y.walks, u, <<>>, Seen(h, u))
  /\ y.sc[v].addr /\ <<h, v>> \notin touched' => PartGood(y.sc[v], y.walks, v, calls, Seen(h, v)')
CountReady(h, v, y, calls) ==
  CountGood(y, v, calls) /\ Singly(y.walks) /\ (Counts(calls) => y.by \in {"link", "addr"})
\* What the action does besides.
Around(h, v) ==
  /\ link' \in [Host -> [Vhid -> BOOLEAN]] /\ task' \in [Host -> SUBSET Vhid]
  /\ stuck' \in [Host -> BOOLEAN] /\ touched \subseteq touched' /\ touched' \subseteq Host \X Vhid
  /\ \A g \in Host, u \in Vhid : <<g, u>> # <<h, v>> => Seen(g, u)' = Seen(g, u)

\* A handler that finds all in order keeps the invariant.
LEMMA HandlerKeeps ==
  ASSUME CarpInv, NEW h \in Host, NEW v \in Vhid, NEW y, NEW calls, From(h, v, y), Orderly(calls),
         RouteReady(h, v, y, calls), Quiet => PartReady(h, v, y, calls), Sole => CountReady(h, v, y, calls),
         Handle(v, y, calls), Around(h, v)
  PROVE  CarpInv'
<1>1. PICK z, o : Handled(y, v, calls, z, o)
  BY HandleDoes DEF From
<1>2. TypeOK /\ ShapeInv /\ RouteInv /\ ErrorInv /\ (Quiet => PartInv) /\ (Sole => SinglyInv /\ CountInv)
  BY DEF CarpInv
<1>3. TypeOK'
  <2>1. /\ sc' \in [Host -> [Vhid -> Softc]] /\ demoted' \in [Host -> Int] /\ walks' \in [Host -> Seq(WalkRec)]
        /\ inbox' \in Inboxes /\ left' \in 0..MaxTroubles
    BY <1>1, <1>2, HandledState
  <2> QED
    BY <2>1 DEF TypeOK, Around
<1>4. ShapeInv' /\ RouteInv'
  BY <1>1, <1>2, RouteHandled DEF RouteReady
<1>5. ErrorInv'
  BY <1>1, <1>2, ErrorHandled
<1>6. Quiet => PartInv'
  BY <1>1, <1>2, PartHandled DEF PartReady, Around, Quiet
<1>7. Sole => SinglyInv' /\ CountInv'
  BY <1>1, <1>2, CountHandled DEF CountReady
<1> QED
  BY <1>3, <1>4, <1>5, <1>6, <1>7 DEF CarpInv, Quiet, Sole

\* A handler that begins with the walks of the host, route and state as they are.
LEMMA RouteBegins ==
  ASSUME CarpInv, NEW h \in Host, NEW v \in Vhid, NEW y, y.walks = walks[h],
         y.sc[v].route = sc[h][v].route, y.sc[v].state = sc[h][v].state, NEW calls
  PROVE  RouteReady(h, v, y, calls)
<1>1. Shape(walks[h]) /\ \A u \in Vhid : RouteGood(sc[h][u], walks[h], u, <<>>)
  BY DEF CarpInv, ShapeInv, RouteInv
<1>2. RouteGood(sc[h][v], walks[h], v, calls)
  BY <1>1, RouteAhead
<1>3. RouteGood(y.sc[v], walks[h], v, calls)
  BY <1>2 DEF RouteGood
<1> QED
  BY <1>1, <1>3 DEF RouteReady

\* A handler that finds its own interface in order finds the others so.
LEMMA PartBegins ==
  ASSUME CarpInv, Quiet, NEW h \in Host, NEW v \in Vhid, NEW y, y.walks = walks[h], NEW calls,
         y.sc[v].addr /\ <<h, v>> \notin touched' => PartGood(y.sc[v], walks[h], v, calls, Seen(h, v)')
  PROVE  PartReady(h, v, y, calls)
BY DEF PartReady, CarpInv, PartInv

\* A handler that does not count finds the counter in order.
LEMMA CountBegins ==
  ASSUME CarpInv, Sole, NEW h \in Host, NEW v \in Vhid, NEW y, From(h, v, y), y.walks = walks[h],
         NEW calls \in Seq(CallKind), ~Counts(calls)
  PROVE  CountReady(h, v, y, calls)
<1>1. TypeOK /\ Singly(walks[h]) /\ CountHost(sc[h], demoted[h], walks[h])
  BY DEF CarpInv, SinglyInv, CountInv
<1>2. Owed(walks[h]) = Owed(y.walks) \cup Own(v, calls)
  BY NotCounting
<1>3. CountGood(y, v, calls)
  BY <1>1, <1>2, CountAhead
<1> QED
  BY <1>1, <1>3 DEF CountReady

\* An action that leaves the links and the history alone.
LEMMA AroundSame ==
  ASSUME TypeOK, UNCHANGED <<link, task, stuck, touched>>, NEW h, NEW v
  PROVE  Around(h, v) /\ \A g, u : Seen(g, u)' = Seen(g, u)
BY DEF Around, TypeOK, Seen

\* A handler that does not count, and whose interface takes part as before.
LEMMA PlainHandler ==
  ASSUME CarpInv, NEW h \in Host, NEW v \in Vhid, NEW y, NEW calls, From(h, v, y), Orderly(calls), ~Counts(calls),
         y.walks = walks[h], y.sc[v].route = sc[h][v].route, y.sc[v].state = sc[h][v].state,
         Quiet => (y.sc[v].addr /\ <<h, v>> \notin touched => PartGood(y.sc[v], walks[h], v, calls, Seen(h, v))),
         Handle(v, y, calls), UNCHANGED <<link, task, stuck, touched>>
  PROVE  CarpInv'
<1>1. TypeOK /\ calls \in Seq(CallKind)
  BY DEF CarpInv, Orderly
<1>2. Around(h, v) /\ Seen(h, v)' = Seen(h, v) /\ touched' = touched
  BY <1>1, AroundSame
<1>3. RouteReady(h, v, y, calls)
  BY RouteBegins
<1>4. Quiet => PartReady(h, v, y, calls)
  BY <1>2, PartBegins
<1>5. Sole => CountReady(h, v, y, calls)
  BY <1>1, CountBegins
<1> QED
  BY <1>2, <1>3, <1>4, <1>5, HandlerKeeps

-----------------------------------------------------------------------------
(* The handlers. *)
\* An interface takes part, or its parent is down and it is put aside.
LEMMA PartIs ==
  ASSUME CarpInv, Quiet, NEW h \in Host, NEW v \in Vhid, sc[h][v].addr, <<h, v>> \notin touched
  PROVE  PartGood(sc[h][v], walks[h], v, <<>>, Seen(h, v))
BY DEF CarpInv, PartInv

\* What a handler finds when it begins.
LEMMA FromSame ==
  ASSUME CarpInv, NEW h \in Host, NEW v \in Vhid, NEW b, b = Begin(h)
  PROVE  /\ From(h, v, b) /\ b.sc = sc[h] /\ b.walks = walks[h] /\ b.by = "other" /\ b.left = left /\ b.inbox = inbox
         /\ sc[h][v] \in Softc /\ left \in Int
<1>1. TypeOK
  BY DEF CarpInv
<1> QED
  BY <1>1, FromBegin, CarpAssumption DEF TypeOK

\* The function of a timer: what it waited with is spent.
LEMMA SendAdTimerKeeps ==
  ASSUME CarpInv, NEW h \in Host, NEW v \in Vhid, SendAdTimer(h, v)
  PROVE  CarpInv'
<1> DEFINE b == Begin(h)
           x == sc[h][v]
           w == [x EXCEPT !.adRuns = FALSE]
           y == [b EXCEPT !.sc[v].adRuns = FALSE]
           q == <<"send_ad">>
<1>1. /\ From(h, v, b) /\ b.sc = sc[h] /\ b.walks = walks[h] /\ x \in Softc
  BY FromSame
<1>2. Handle(v, y, q) /\ UNCHANGED <<link, task, stuck, touched>>
  BY DEF SendAdTimer
<1> HIDE DEF b
<1>3. y = WithSoftc(b, v, w)
  BY <1>1 DEF WithSoftc
<1>4. Orderly(q) /\ ~Counts(q) /\ Starts(q, "send_ad")
  <2>1. Starts(q, "send_ad")
    BY DEF Starts
  <2> QED
    BY <2>1, DownOrders
<1> HIDE DEF x, y, q
<1>5. /\ w \in Softc /\ w.suppress = x.suppress /\ w.errors = x.errors
      /\ w.addr = x.addr /\ w.route = x.route /\ w.state = x.state /\ w.up = x.up /\ w.running = x.running
      /\ w.ad = x.ad /\ w.md = x.md /\ w.mdRuns = x.mdRuns /\ w.backup = x.backup
  BY <1>1 DEF Softc
<1> HIDE DEF w
<1>6. From(h, v, y) /\ y.sc[v] = w /\ y.walks = walks[h]
  BY <1>1, <1>3, <1>5, FromSoftc DEF x
<1>7. ASSUME Quiet, w.addr, <<h, v>> \notin touched
      PROVE  PartGood(w, walks[h], v, q, Seen(h, v))
  <2>1. PartGood(x, walks[h], v, <<>>, Seen(h, v))
    BY <1>5, <1>7, PartIs DEF x
  <2>2. ~Starts(q, "MASTER")
    BY <1>4 DEF Starts
  <2>3. PartGood(x, walks[h], v, q, Seen(h, v))
    BY <2>1, <2>2, PartAhead
  <2> QED
    BY <1>4, <1>5, <2>2, <2>3 DEF PartGood
<1> QED
  BY <1>2, <1>4, <1>5, <1>6, <1>7, PlainHandler DEF x

\* carp_master_down: the timer waited with is spent, the calls make a MASTER.
LEMMA MasterDownTimerKeeps ==
  ASSUME CarpInv, NEW h \in Host, NEW v \in Vhid, MasterDownTimer(h, v)
  PROVE  CarpInv'
<1> DEFINE b == Begin(h)
           x == sc[h][v]
           w == [x EXCEPT !.mdRuns = FALSE]
           y == [b EXCEPT !.sc[v].mdRuns = FALSE]
           q == MasterDown(x.state)
<1>1. /\ From(h, v, b) /\ b.sc = sc[h] /\ b.walks = walks[h] /\ x \in Softc
  BY FromSame
<1>2. Handle(v, y, q) /\ UNCHANGED <<link, task, stuck, touched>>
  BY DEF MasterDownTimer
<1> HIDE DEF b
<1>3. y = WithSoftc(b, v, w)
  BY <1>1 DEF WithSoftc
<1>4. /\ Orderly(q) /\ ~Counts(q)
      /\ x.state = "BACKUP" => StartsTwo(q, "MASTER", "send_ad") /\ Starts(q, "MASTER")
      /\ Starts(q, "MASTER") => StartsTwo(q, "MASTER", "send_ad")
  <2>1. x.state # "BACKUP" => ~Starts(q, "MASTER")
    BY EmptyHas DEF MasterDown
  <2> QED
    BY <2>1, MasterDownOrder
<1> HIDE DEF x, y, q
<1>5. /\ w \in Softc /\ w.suppress = x.suppress /\ w.errors = x.errors
      /\ w.addr = x.addr /\ w.route = x.route /\ w.state = x.state /\ w.up = x.up /\ w.running = x.running
      /\ w.ad = x.ad /\ w.md = x.md /\ w.adRuns = x.adRuns /\ w.backup = x.backup
  BY <1>1 DEF Softc
<1> HIDE DEF w
<1>6. From(h, v, y) /\ y.sc[v] = w /\ y.walks = walks[h]
  BY <1>1, <1>3, <1>5, FromSoftc DEF x
<1>7. ASSUME Quiet, w.addr, <<h, v>> \notin touched
      PROVE  PartGood(w, walks[h], v, q, Seen(h, v))
  <2>1. PartGood(x, walks[h], v, <<>>, Seen(h, v))
    BY <1>5, <1>7, PartIs DEF x
  <2>2. PartGood(x, walks[h], v, q, Seen(h, v))
    BY <1>4, <2>1, PartAhead
  <2> QED
    BY <1>4, <1>5, <2>2 DEF PartGood
<1> QED
  BY <1>2, <1>4, <1>5, <1>6, <1>7, PlainHandler DEF x

\* A handler that begins with what is there.
LEMMA SameHandler ==
  ASSUME CarpInv, NEW h \in Host, NEW v \in Vhid, NEW y, From(h, v, y), y.sc[v] = sc[h][v], y.walks = walks[h],
         NEW q, Orderly(q), ~Counts(q), Starts(q, "MASTER") => StartsTwo(q, "MASTER", "send_ad"),
         Handle(v, y, q), UNCHANGED <<link, task, stuck, touched>>
  PROVE  CarpInv'
<1>1. Quiet => (y.sc[v].addr /\ <<h, v>> \notin touched => PartGood(y.sc[v], walks[h], v, q, Seen(h, v)))
  BY PartIs, PartAhead
<1> QED
  BY <1>1, PlainHandler

\* carp_input_c: the advertisement is read, a MASTER gives way or a BACKUP takes over.
LEMMA InputKeeps ==
  ASSUME CarpInv, NEW h \in Host, NEW v \in Vhid, Input(h, v)
  PROVE  CarpInv'
<1> DEFINE b == Begin(h)
           ib == [inbox EXCEPT ![h][v] = Tail(inbox[h][v])]
           y == [b EXCEPT !.inbox[h][v] = Tail(@)]
           q == InputCalls(sc[h][v], Speed(h, demoted[h]), Head(inbox[h][v]))
<1>1. /\ From(h, v, b) /\ b.sc = sc[h] /\ b.walks = walks[h] /\ b.inbox = inbox
  BY FromSame
<1>2. Handle(v, y, q) /\ UNCHANGED <<link, task, stuck, touched>> /\ inbox[h][v] # <<>>
  BY DEF Input
<1>3. ib \in Inboxes
  <2> DEFINE s == inbox[h][v]
  <2>1. inbox \in [Host -> [Vhid -> Seq(Nat)]] /\ s \in Seq(Nat) /\ s # <<>>
    BY <1>2 DEF CarpInv, TypeOK, Inboxes
  <2> HIDE DEF s
  <2>2. Tail(s) \in Seq(Nat)
    BY <2>1
  <2>3. [inbox EXCEPT ![h][v] = Tail(s)] \in [Host -> [Vhid -> Seq(Nat)]]
    BY <2>1, <2>2
  <2> QED
    BY <2>3 DEF s, Inboxes
<1>4. Orderly(q) /\ ~Counts(q) /\ (Starts(q, "MASTER") => StartsTwo(q, "MASTER", "send_ad"))
  <2>1. \/ q = <<"stop_ad", "BACKUP", "setrun", "delete">>
        \/ q = MasterDown("BACKUP")
        \/ q = <<"setrun">>
        \/ q = <<>>
    BY DEF InputCalls
  <2> HIDE DEF q
  <2>2. CASE q = <<"stop_ad", "BACKUP", "setrun", "delete">>
    <3>1. ~Starts(q, "MASTER")
      BY <2>2 DEF Starts
    <3> QED
      BY <2>2, <3>1, BackupOrders
  <2>3. CASE q = MasterDown("BACKUP")
    BY <2>3, MasterDownOrder
  <2>4. CASE q = <<"setrun">>
    <3>1. ~Starts(q, "MASTER")
      BY <2>4 DEF Starts
    <3> QED
      BY <2>4, <3>1, DownOrders
  <2>5. CASE q = <<>>
    BY <2>5, EmptyHas, DownOrders
  <2> QED
    BY <2>1, <2>2, <2>3, <2>4, <2>5
<1> HIDE DEF b, q
<1>5. y = [b EXCEPT !.inbox = ib]
  BY <1>1
<1> HIDE DEF y, ib
<1>6. From(h, v, y) /\ y.sc = b.sc /\ y.walks = b.walks
  <2>1. y = WithInbox(b, ib)
    BY <1>5 DEF WithInbox
  <2> QED
    BY <1>1, <1>3, <2>1, FromInbox
<1> QED
  BY <1>1, <1>2, <1>4, <1>6, SameHandler

\* A state given by hand.
LEMMA SetVhKeeps ==
  ASSUME CarpInv, NEW h \in Host, NEW v \in Vhid, SetVh(h, v)
  PROVE  CarpInv'
<1> DEFINE b == Begin(h)
           n == left - 1
           y == [b EXCEPT !.left = @ - 1]
           r == Append(MasterDown("BACKUP"), "setrun")
           s == <<"stop_ad", "BACKUP", "setrun", "delete", "setrun">>
<1>1. /\ From(h, v, b) /\ b.sc = sc[h] /\ b.walks = walks[h] /\ b.left = left /\ left \in Int
  BY FromSame
<1>2. (Handle(v, y, s) \/ Handle(v, y, r)) /\ UNCHANGED <<link, task, stuck, touched>>
  BY DEF SetVh
<1> HIDE DEF b
<1>3. y = WithLeft(b, n)
  BY <1>1 DEF WithLeft
<1>4. n \in Int /\ n <= left
  BY <1>1
<1>5. Orderly(r) /\ ~Counts(r) /\ StartsTwo(r, "MASTER", "send_ad")
  BY MasterVhOrder
<1>6. Orderly(s) /\ ~Counts(s) /\ ~Starts(s, "MASTER")
  <2>1. ~Starts(s, "MASTER")
    BY DEF Starts
  <2> QED
    BY <2>1, BackupOrders
<1> HIDE DEF n, y, r, s
<1>7. From(h, v, y) /\ y.sc = b.sc /\ y.walks = b.walks
  BY <1>1, <1>3, <1>4, FromLeft
<1> QED
  BY <1>1, <1>2, <1>5, <1>6, <1>7, SameHandler

\* Nothing happens to the interfaces.
LEMMA QuietStep ==
  ASSUME CarpInv, NEW h \in Host, NEW v \in Vhid, UNCHANGED <<sc, demoted, walks>>,
         inbox' \in Inboxes, left' \in 0..left, Around(h, v),
         Quiet /\ sc[h][v].addr => Seen(h, v)' = Seen(h, v)
  PROVE  CarpInv'
<1>1. TypeOK /\ ShapeInv /\ RouteInv /\ ErrorInv /\ (Quiet => PartInv) /\ (Sole => SinglyInv /\ CountInv)
  BY DEF CarpInv
<1>2. left' \in 0..MaxTroubles /\ left' \in Int /\ left \in Int /\ left' <= left
  BY <1>1, CarpAssumption DEF TypeOK
<1>3. TypeOK'
  BY <1>1, <1>2 DEF TypeOK, Around
<1>4. ShapeInv' /\ RouteInv'
  BY <1>1 DEF ShapeInv, RouteInv
<1>5. ErrorInv'
  BY <1>1, <1>2, CarpAssumption DEF ErrorInv
<1>6. Quiet => PartInv'
  <2>1. SUFFICES ASSUME Quiet, NEW g \in Host, NEW u \in Vhid, sc[g][u].addr, <<g, u>> \notin touched'
                 PROVE  PartGood(sc[g][u], walks[g], u, <<>>, Seen(g, u)')
    BY DEF PartInv
  <2>2. PartGood(sc[g][u], walks[g], u, <<>>, Seen(g, u))
    BY <2>1, PartIs DEF Around
  <2>3. Seen(g, u)' = Seen(g, u)
    BY <2>1 DEF Around
  <2> QED
    BY <2>2, <2>3
<1>7. Sole => SinglyInv' /\ CountInv'
  BY <1>1 DEF SinglyInv, CountInv
<1> QED
  BY <1>3, <1>4, <1>5, <1>6, <1>7 DEF CarpInv, Quiet, Sole

\* What the link task has seen, before and after.
LEMMA SeenAfter ==
  ASSUME TypeOK, NEW h \in Host, NEW v \in Vhid, task' = [task EXCEPT ![h] = @ \ {v}], v \in task[h],
         UNCHANGED <<link, stuck, touched>>
  PROVE  Around(h, v) /\ (Seen(h, v) <=> ~link[h][v]) /\ (Seen(h, v)' <=> link[h][v])
<1>1. link[h][v] \in BOOLEAN /\ task \in [Host -> SUBSET Vhid]
  BY DEF TypeOK
<1>2. task' \in [Host -> SUBSET Vhid] /\ task'[h] = task[h] \ {v} /\ \A g \in Host : g # h => task'[g] = task[g]
  BY <1>1
<1>3. Seen(h, v) <=> ~link[h][v]
  BY <1>1 DEF Seen
<1>4. Seen(h, v)' <=> link[h][v]
  BY <1>1, <1>2 DEF Seen
<1>5. ASSUME NEW g \in Host, NEW u \in Vhid, <<g, u>> # <<h, v>>
      PROVE  Seen(g, u)' = Seen(g, u)
  <2>1. u \in task'[g] <=> u \in task[g]
    BY <1>2, <1>5
  <2> QED
    BY <2>1 DEF Seen
<1> QED
  BY <1>2, <1>3, <1>4, <1>5 DEF Around, TypeOK

\* carp_sc_state_locked finds a parent's change it has not seen.
LEMMA PartOfState ==
  ASSUME NEW x, NEW ws, NEW v, NEW q, Starts(q, "INIT"), NEW there,
         IF there THEN x.up ELSE ~x.up /\ ~x.running /\ x.backup
  PROVE  PartGood(x, ws, v, q, there)
<1>1. ~Starts(q, "MASTER")
  BY DEF Starts
<1> QED
  BY <1>1 DEF PartGood

\* carp_carpdev_state: the link task sees the parent go down or come up.
LEMMA CarpdevStateKeeps ==
  ASSUME CarpInv, NEW h \in Host, NEW v \in Vhid, CarpdevState(h, v)
  PROVE  CarpInv'
<1> DEFINE b == Begin(h)
           c == [b EXCEPT !.by = "link"]
           y == ParentState(c, v)
           q == ScState(h, v)
<1>1. /\ From(h, v, b) /\ b.sc = sc[h] /\ b.walks = walks[h] /\ sc[h][v] \in Softc /\ TypeOK
  BY FromSame DEF CarpInv
<1>2. /\ v \in task[h] /\ task' = [task EXCEPT ![h] = @ \ {v}] /\ UNCHANGED <<link, stuck, touched>>
      /\ \A w \in Range(walks[h]) : w.by # "link"
      /\ "addr" \in Overlap \/ \A w \in Range(walks[h]) : w.v = v => w.by # "addr"
      /\ IF sc[h][v].addr THEN Handle(v, y, q) ELSE UNCHANGED <<sc, demoted, walks, inbox, left>>
  BY DEF CarpdevState
<1>3. Around(h, v) /\ (Seen(h, v) <=> ~link[h][v]) /\ (Seen(h, v)' <=> link[h][v])
  BY <1>1, <1>2, SeenAfter
<1>4. CASE ~sc[h][v].addr
  <2>1. UNCHANGED <<sc, demoted, walks, inbox, left>>
    BY <1>2, <1>4
  <2>2. inbox' \in Inboxes /\ left' \in 0..left
    BY <1>1, <2>1, CarpAssumption DEF TypeOK
  <2> QED
    BY <1>3, <1>4, <2>1, <2>2, QuietStep
<1>5. CASE sc[h][v].addr
  <2>1. Handle(v, y, q)
    BY <1>2, <1>5
  <2>2. c = WithBy(b, "link") /\ "link" \in By
    BY DEF WithBy, By
  <2>3. Orderly(q) /\ Starts(q, "INIT")
    BY ScStateOrder
  <2> HIDE DEF b, c, q
  <2>4. From(h, v, c) /\ c.sc = sc[h] /\ c.walks = walks[h] /\ c.by = "link"
    BY <1>1, <2>2, FromBy
  <2>5. /\ From(h, v, y) /\ y.walks = c.walks /\ y.by = c.by
        /\ y.sc[v].route = c.sc[v].route /\ y.sc[v].state = c.sc[v].state
        /\ link[h][v] => y.sc[v].up = (c.sc[v].up \/ c.sc[v].backup)
        /\ ~link[h][v] => ~y.sc[v].up /\ ~y.sc[v].running /\ y.sc[v].backup = c.sc[v].up
    BY <1>1, <2>4, ParentStateIs
  <2> HIDE DEF y
  <2>6. RouteReady(h, v, y, q)
    BY <2>4, <2>5, RouteBegins
  <2>7. Quiet => PartReady(h, v, y, q)
    <3>1. ASSUME Quiet, <<h, v>> \notin touched
          PROVE  PartGood(y.sc[v], walks[h], v, q, Seen(h, v)')
      <4>1. PartGood(sc[h][v], walks[h], v, <<>>, Seen(h, v))
        BY <1>5, <3>1, PartIs
      <4>2. IF link[h][v] THEN sc[h][v].backup ELSE sc[h][v].up
        BY <1>3, <4>1 DEF PartGood
      <4>3. IF Seen(h, v)' THEN y.sc[v].up ELSE ~y.sc[v].up /\ ~y.sc[v].running /\ y.sc[v].backup
        BY <1>3, <2>4, <2>5, <4>2
      <4> QED
        BY <2>3, <4>3, PartOfState
    <3> QED
      BY <1>2, <2>4, <2>5, <3>1, PartBegins
  <2>8. Sole => CountReady(h, v, y, q)
    <3>1. SUFFICES ASSUME Sole PROVE CountReady(h, v, y, q)
      OBVIOUS
    <3>2. Singly(walks[h]) /\ CountHost(sc[h], demoted[h], walks[h])
      BY <3>1 DEF CarpInv, SinglyInv, CountInv
    <3>3. v \notin CountedBy(walks[h])
      BY <1>2, <3>1, <3>2 DEF CountedBy, Singly, Sole
    <3>4. Own(v, q) = {}
      BY <2>3 DEF Own, Starts
    <3>5. CountGood(y, v, q)
      BY <1>1, <2>4, <2>5, <3>2, <3>3, <3>4, CountAhead
    <3> QED
      BY <2>4, <2>5, <3>2, <3>5 DEF CountReady
  <2> QED
    BY <1>3, <2>1, <2>3, <2>5, <2>6, <2>7, <2>8, HandlerKeeps
<1> QED
  BY <1>4, <1>5

\* carp_set_addr: the first address of an interface, or another one.
LEMMA SetAddrKeeps ==
  ASSUME CarpInv, NEW h \in Host, NEW v \in Vhid, SetAddr(h, v)
  PROVE  CarpInv'
<1> DEFINE b == Begin(h)
           x == sc[h][v]
           b1 == [b EXCEPT !.sc[v].addr = TRUE]
           b2 == [b1 EXCEPT !.sc[v].up = TRUE]
           b3 == [b2 EXCEPT !.by = "addr"]
           n == IF sc[h][v].addr THEN b3.left - 1 ELSE b3.left
           c == [b3 EXCEPT !.left = n]
           x1 == [x EXCEPT !.addr = TRUE]
           w == [x1 EXCEPT !.up = TRUE]
           y == ParentState(c, v)
           q == Append(ScState(h, v), "setrun")
<1>1. /\ From(h, v, b) /\ b.sc = sc[h] /\ b.walks = walks[h] /\ b.left = left /\ x \in Softc /\ left \in Int /\ TypeOK
  BY FromSame DEF CarpInv
<1>2. /\ UNCHANGED <<link, task, stuck, touched>>
      /\ "addr" \in Overlap \/ (v \notin task[h] /\ \A t \in Range(walks[h]) : t.v # v)
  BY DEF SetAddr
<1>3. Handle(v, y, q)
  <2> DEFINE c0 == [Begin(h) EXCEPT !.sc[v].addr = TRUE, !.sc[v].up = TRUE, !.by = "addr",
                               !.left = IF sc[h][v].addr THEN @ - 1 ELSE @]
  <2>1. Handle(v, ParentState(c0, v), q)
    BY DEF SetAddr
  <2>2. c0 = c
    OBVIOUS
  <2> QED
    BY <2>1, <2>2
<1>4. Orderly(q) /\ Starts(q, "INIT")
  BY ScStateOrder
<1> HIDE DEF b, q, x
<1>5. /\ x1 \in Softc /\ x1.suppress = x.suppress /\ x1.errors = x.errors /\ x1.route = x.route /\ x1.state = x.state
      /\ w \in Softc /\ w.suppress = x.suppress /\ w.errors = x.errors /\ w.route = x.route /\ w.state = x.state
      /\ w.up
  BY <1>1 DEF Softc
<1>6. From(h, v, b1) /\ b1.sc[v] = x1 /\ b1.walks = walks[h] /\ b1.left = left
  <2>1. b1 = WithSoftc(b, v, x1)
    BY <1>1 DEF WithSoftc, x
  <2> HIDE DEF b1, x1
  <2> QED
    BY <1>1, <1>5, <2>1, FromSoftc DEF x
<1> HIDE DEF b1
<1>7. From(h, v, b2) /\ b2.sc[v] = w /\ b2.walks = walks[h] /\ b2.left = left
  <2>1. b2 = WithSoftc(b1, v, w)
    BY <1>6 DEF WithSoftc
  <2> HIDE DEF b2, x1, w
  <2> QED
    BY <1>5, <1>6, <2>1, FromSoftc DEF x
<1> HIDE DEF b2, x1, w
<1>8. From(h, v, b3) /\ b3.sc[v] = w /\ b3.walks = walks[h] /\ b3.by = "addr" /\ b3.left = left
  <2>1. b3 = WithBy(b2, "addr") /\ "addr" \in By
    BY DEF WithBy, By
  <2> HIDE DEF b3
  <2> QED
    BY <1>7, <2>1, FromBy
<1> HIDE DEF b3
<1>9. From(h, v, c) /\ c.sc[v] = w /\ c.walks = walks[h] /\ c.by = "addr"
  <2>1. c = WithLeft(b3, n)
    BY DEF WithLeft
  <2>2. n \in Int /\ n <= left
    BY <1>1, <1>8
  <2> HIDE DEF c, n
  <2> QED
    BY <1>8, <2>1, <2>2, FromLeft
<1> HIDE DEF c
<1>10. /\ From(h, v, y) /\ y.walks = walks[h] /\ y.by = "addr"
       /\ y.sc[v].route = x.route /\ y.sc[v].state = x.state
       /\ IF link[h][v] THEN y.sc[v].up ELSE ~y.sc[v].up /\ ~y.sc[v].running /\ y.sc[v].backup
  <2>1. y = ParentState(c, v)
    OBVIOUS
  <2> HIDE DEF y
  <2>2. /\ From(h, v, y) /\ y.walks = c.walks /\ y.by = c.by
        /\ y.sc[v].route = c.sc[v].route /\ y.sc[v].state = c.sc[v].state
        /\ link[h][v] => y.sc[v].up = (c.sc[v].up \/ c.sc[v].backup)
        /\ ~link[h][v] => ~y.sc[v].up /\ ~y.sc[v].running /\ y.sc[v].backup = c.sc[v].up
    BY <1>1, <1>9, <2>1, ParentStateIs
  <2> QED
    BY <1>5, <1>9, <2>2
<1> HIDE DEF y
<1>11. Around(h, v) /\ Seen(h, v)' = Seen(h, v)
  BY <1>1, <1>2, AroundSame
<1>12. RouteReady(h, v, y, q)
  BY <1>10, RouteBegins DEF x
<1>13. Quiet => PartReady(h, v, y, q)
  <2>1. ASSUME Quiet PROVE PartGood(y.sc[v], walks[h], v, q, Seen(h, v)')
    <3>1. v \notin task[h]
      BY <1>2, <2>1 DEF Quiet
    <3>2. link[h][v] \in BOOLEAN
      BY <1>1 DEF TypeOK
    <3>3. Seen(h, v)' <=> link[h][v]
      BY <1>11, <3>1, <3>2 DEF Seen
    <3> QED
      BY <1>4, <1>10, <3>3, PartOfState
  <2> QED
    BY <1>10, <2>1, PartBegins
<1>14. Sole => CountReady(h, v, y, q)
  <2>1. SUFFICES ASSUME Sole PROVE CountReady(h, v, y, q)
    OBVIOUS
  <2>2. Singly(walks[h]) /\ CountHost(sc[h], demoted[h], walks[h])
    BY <2>1 DEF CarpInv, SinglyInv, CountInv
  <2>3. v \notin CountedBy(walks[h])
    BY <1>2, <2>1 DEF CountedBy, Sole
  <2>4. Own(v, q) = {}
    BY <1>4 DEF Own, Starts
  <2>5. CountGood(y, v, q)
    BY <1>1, <1>10, <2>2, <2>3, <2>4, CountAhead
  <2> QED
    BY <1>10, <2>2, <2>5 DEF CountReady
<1> QED
  BY <1>3, <1>4, <1>10, <1>11, <1>12, <1>13, <1>14, HandlerKeeps

\* The rest of a handler, after its walk.
LEMMA WalkEndsKeeps ==
  ASSUME CarpInv, NEW h \in Host, WalkEnds(h)
  PROVE  CarpInv'
<1> DEFINE b == Begin(h)
           ws == walks[h]
           w == Head(ws)
           xs == Tail(ws)
           q == w.rest
           b1 == [b EXCEPT !.walks = Tail(b.walks)]
           y == [b1 EXCEPT !.by = w.by]
<1>1. ws # <<>> /\ UNCHANGED <<link, task, stuck, touched>> /\ TypeOK /\ ws \in Seq(WalkRec)
  BY DEF WalkEnds, CarpInv, TypeOK
<1>2. Handle(w.v, y, q)
  <2> DEFINE y0 == [Begin(h) EXCEPT !.walks = Tail(@), !.by = w.by]
  <2>1. Handle(w.v, y0, q)
    BY DEF WalkEnds
  <2>2. y0 = y
    OBVIOUS
  <2> QED
    BY <2>1, <2>2
<1>3. /\ w \in WalkRec /\ xs \in Seq(WalkRec) /\ Range(ws) = Range(xs) \cup {w}
  <2>1. ws # <<>> /\ ws \in Seq(WalkRec)
    BY <1>1
  <2> HIDE DEF ws
  <2> QED
    BY <2>1, HeadGone
<1>4. w.v \in Vhid /\ w.by \in By
  BY <1>3 DEF WalkRec
<1>v. PICK v \in Vhid : v = w.v
  BY <1>4
<1>5. From(h, v, b) /\ b.sc = sc[h] /\ b.walks = ws
  BY FromSame
<1> HIDE DEF b
<1>6. b1 = WithWalks(b, xs) /\ y = WithBy(b1, w.by)
  BY <1>5 DEF WithWalks, WithBy
<1> HIDE DEF b1, y, xs, w
<1>7. From(h, v, b1) /\ b1.sc = sc[h] /\ b1.walks = xs
  BY <1>3, <1>4, <1>5, <1>6, FromWalks
<1>8. From(h, v, y) /\ y.sc = sc[h] /\ y.walks = xs /\ y.by = w.by
  <2> DEFINE by == w.by
  <2>1. y = WithBy(b1, by) /\ by \in By
    BY <1>4, <1>6
  <2> HIDE DEF by
  <2>2. From(h, v, y) /\ y.sc = b1.sc /\ y.walks = b1.walks /\ y.by = by
    BY <1>4, <1>7, <2>1, FromBy
  <2> QED
    BY <1>7, <2>2 DEF by
<1>9. /\ \A u, c : Elsewhere(ws, u, c) <=> Elsewhere(xs, u, c) \/ (u = v /\ Has(q, c))
      /\ Owed(ws) = Owed(xs) \cup Own(v, q)
      /\ Shape(ws) <=> Shape(xs) /\ RestOk(q)
  BY <1>3, <1>v, OneWalk
<1>10. Shape(xs) /\ RestOk(q) /\ \A u \in Vhid : RouteGood(sc[h][u], ws, u, <<>>)
  BY <1>9 DEF CarpInv, ShapeInv, RouteInv
<1>11. Orderly(q) /\ Waits(q) /\ Waits(<<>>)
  BY <1>10 DEF RestOk, Waits
<1>12. Merged(ws, xs, v, q) /\ \A u : u # v => Merged(ws, xs, u, <<>>)
  BY <1>9, EmptyHas DEF Merged
<1> HIDE DEF ws, q
<1>13. RouteReady(h, v, y, q)
  <2>1. RouteGood(sc[h][v], xs, v, q)
    BY <1>4, <1>10, <1>11, <1>12, MergedGood
  <2>2. ASSUME NEW u \in Vhid, u # v PROVE RouteGood(sc[h][u], xs, u, <<>>)
    <3>1. Merged(ws, xs, u, <<>>) /\ RouteGood(sc[h][u], ws, u, <<>>)
      BY <1>10, <1>12, <2>2
    <3> QED
      BY <1>11, <3>1, MergedGood
  <2> QED
    BY <1>8, <1>10, <2>1, <2>2 DEF RouteReady
<1>14. Around(h, v) /\ Seen(h, v)' = Seen(h, v) /\ touched' = touched
  BY <1>1, AroundSame
<1>15. Quiet => PartReady(h, v, y, q)
  <2>1. SUFFICES ASSUME Quiet PROVE PartReady(h, v, y, q)
    OBVIOUS
  <2>2. ASSUME NEW u \in Vhid, u # v, sc[h][u].addr, <<h, u>> \notin touched
        PROVE  PartGood(sc[h][u], xs, u, <<>>, Seen(h, u))
    <3>1. PartGood(sc[h][u], ws, u, <<>>, Seen(h, u))
      BY <2>1, <2>2, PartIs DEF ws
    <3>2. Merged(ws, xs, u, <<>>)
      BY <1>12, <2>2
    <3> QED
      BY <1>11, <3>1, <3>2, MergedGood
  <2>3. ASSUME sc[h][v].addr, <<h, v>> \notin touched
        PROVE  PartGood(sc[h][v], xs, v, q, Seen(h, v))
    <3>1. PartGood(sc[h][v], ws, v, <<>>, Seen(h, v))
      BY <1>4, <2>1, <2>3, PartIs DEF ws
    <3> QED
      BY <1>11, <1>12, <3>1, MergedGood
  <2> QED
    BY <1>8, <1>14, <2>2, <2>3 DEF PartReady
<1>16. Sole => CountReady(h, v, y, q)
  <2>1. SUFFICES ASSUME Sole PROVE CountReady(h, v, y, q)
    OBVIOUS
  <2>2. Singly(ws) /\ CountHost(sc[h], demoted[h], ws)
    BY <2>1 DEF CarpInv, SinglyInv, CountInv, ws
  <2>3. Singly(xs) /\ MayJoin(xs, w)
    BY <1>1, <2>2, SinglyTail DEF w, xs
  <2>4. Counts(q) => v \notin CountedBy(xs) /\ w.by \in {"link", "addr"}
    BY <1>v, <2>3 DEF MayJoin, q
  <2>5. CountGood(y, v, q)
    BY <1>1, <1>4, <1>8, <1>9, <2>2, <2>4, CountAhead DEF ws
  <2> QED
    BY <1>8, <2>3, <2>4, <2>5 DEF CountReady
<1> QED
  BY <1>2, <1>v, <1>8, <1>11, <1>13, <1>14, <1>15, <1>16, HandlerKeeps

\* ifconfig touches the interface.
LEMMA TouchedHandler ==
  ASSUME CarpInv, NEW h \in Host, NEW v \in Vhid, NEW y, NEW q, From(h, v, y), y.walks = walks[h],
         y.sc[v].route = sc[h][v].route, y.sc[v].state = sc[h][v].state,
         q \in {<<>>, <<"setrun">>, <<"send_ad">>, <<"INIT", "setrun">>, <<"send_ad", "INIT", "setrun">>},
         Handle(v, y, q), touched' = touched \cup {<<h, v>>}, UNCHANGED <<link, task, stuck>>
  PROVE  CarpInv'
<1>1. Orderly(q) /\ ~Counts(q) /\ q \in Seq(CallKind)
  BY DownOrders DEF Orderly
<1>2. Around(h, v) /\ <<h, v>> \in touched'
  BY DEF Around, CarpInv, TypeOK, Seen
<1>3. RouteReady(h, v, y, q)
  BY RouteBegins
<1>4. Quiet => PartReady(h, v, y, q)
  BY <1>2, PartBegins
<1>5. Sole => CountReady(h, v, y, q)
  BY <1>1, CountBegins
<1> QED
  BY <1>1, <1>2, <1>3, <1>4, <1>5, HandlerKeeps

\* ifconfig up and down: the interface is touched, its state goes with its route.
LEMMA SetFlagsKeeps ==
  ASSUME CarpInv, NEW h \in Host, NEW v \in Vhid, SetFlags(h, v)
  PROVE  CarpInv'
<1> DEFINE b == Begin(h)
           x == sc[h][v]
           y1 == [b EXCEPT !.left = b.left - 1]
           y == [y1 EXCEPT !.sc[v].up = ~x.up]
           y2 == [y EXCEPT !.sc[v].ad = FALSE]
           stopped == [y2 EXCEPT !.sc[v].md = FALSE]
           x1 == [x EXCEPT !.up = ~x.up]
           x2 == [x1 EXCEPT !.ad = FALSE]
           x3 == [x2 EXCEPT !.md = FALSE]
<1>1. /\ From(h, v, b) /\ b.sc = sc[h] /\ b.walks = walks[h] /\ b.left = left /\ x \in Softc /\ left \in Int
  BY FromSame
<1>2. touched' = touched \cup {<<h, v>>} /\ UNCHANGED <<link, task, stuck>>
  BY DEF SetFlags
<1>3. \/ Handle(v, y, <<>>)
      \/ Handle(v, stopped, <<"INIT", "setrun">>)
      \/ Handle(v, stopped, <<"send_ad", "INIT", "setrun">>)
      \/ Handle(v, y, <<"setrun">>)
  <2> DEFINE e == [Begin(h) EXCEPT !.left = @ - 1, !.sc[v].up = ~@]
             f == [e EXCEPT !.sc[v].ad = FALSE, !.sc[v].md = FALSE]
  <2>1. x.state = "INIT" \/ x.state = "BACKUP" \/ x.state = "MASTER"
    BY <1>1 DEF Softc, State
  <2>2. \/ Handle(v, e, <<>>)
        \/ Handle(v, f, <<"INIT", "setrun">>)
        \/ Handle(v, f, <<"send_ad", "INIT", "setrun">>)
        \/ Handle(v, e, <<"setrun">>)
    BY <2>1 DEF SetFlags
  <2>3. e = y
    <3>1. b.sc = sc[h] /\ b = Begin(h) /\ y1.sc = b.sc
      BY <1>1 DEF Begin
    <3> HIDE DEF b
    <3>2. e = [y1 EXCEPT !.sc[v].up = ~y1.sc[v].up]
      BY <3>1
    <3> QED
      BY <3>1, <3>2
  <2>4. f = stopped
    BY <2>3
  <2> QED
    BY <2>2, <2>3, <2>4
<1> HIDE DEF b, x
<1>4. /\ x1 \in Softc /\ x1.suppress = x.suppress /\ x1.errors = x.errors /\ x1.route = x.route /\ x1.state = x.state
      /\ x2 \in Softc /\ x2.suppress = x.suppress /\ x2.errors = x.errors /\ x2.route = x.route /\ x2.state = x.state
      /\ x3 \in Softc /\ x3.suppress = x.suppress /\ x3.errors = x.errors /\ x3.route = x.route /\ x3.state = x.state
  <2>1. x.up \in BOOLEAN
    BY <1>1 DEF Softc
  <2>2. x1 \in Softc /\ x1.suppress = x.suppress /\ x1.errors = x.errors /\ x1.route = x.route /\ x1.state = x.state
    BY <1>1, <2>1 DEF Softc
  <2> HIDE DEF x1
  <2>3. x2 \in Softc /\ x2.suppress = x.suppress /\ x2.errors = x.errors /\ x2.route = x.route /\ x2.state = x.state
    BY <2>2 DEF Softc
  <2> HIDE DEF x2
  <2>4. x3 \in Softc /\ x3.suppress = x.suppress /\ x3.errors = x.errors /\ x3.route = x.route /\ x3.state = x.state
    BY <2>3 DEF Softc
  <2> QED
    BY <2>2, <2>3, <2>4
<1>5. From(h, v, y1) /\ y1.sc = sc[h] /\ y1.walks = walks[h]
  <2> DEFINE n == b.left - 1
  <2>1. y1 = WithLeft(b, n) /\ n \in Int /\ n <= left
    BY <1>1 DEF WithLeft
  <2> HIDE DEF y1, n
  <2> QED
    BY <1>1, <2>1, FromLeft
<1> HIDE DEF y1
<1>6. From(h, v, y) /\ y.sc[v] = x1 /\ y.walks = walks[h]
  <2>1. y = WithSoftc(y1, v, x1)
    BY <1>5 DEF WithSoftc, x
  <2> HIDE DEF y, x1
  <2> QED
    BY <1>4, <1>5, <2>1, FromSoftc DEF x
<1> HIDE DEF y
<1>7. From(h, v, y2) /\ y2.sc[v] = x2 /\ y2.walks = walks[h]
  <2>1. y2 = WithSoftc(y, v, x2)
    BY <1>6 DEF WithSoftc
  <2> HIDE DEF y2, x1, x2
  <2> QED
    BY <1>4, <1>6, <2>1, FromSoftc DEF x
<1> HIDE DEF y2
<1>8. From(h, v, stopped) /\ stopped.sc[v] = x3 /\ stopped.walks = walks[h]
  <2>1. stopped = WithSoftc(y2, v, x3)
    BY <1>7 DEF WithSoftc
  <2> HIDE DEF stopped, x1, x2, x3
  <2> QED
    BY <1>4, <1>7, <2>1, FromSoftc DEF x
<1> HIDE DEF stopped, x1, x2, x3
<1>9. ASSUME NEW q, q \in {<<>>, <<"setrun">>, <<"send_ad">>, <<"INIT", "setrun">>, <<"send_ad", "INIT", "setrun">>},
             Handle(v, y, q) \/ Handle(v, stopped, q)
      PROVE  CarpInv'
  BY <1>2, <1>4, <1>6, <1>8, <1>9, TouchedHandler DEF x
<1> QED
  BY <1>3, <1>9

-----------------------------------------------------------------------------
(* Steps that are not handlers. *)
\* An interface changes, and nothing of the others does.
OneSoftc(h, v, w) ==
  /\ sc' \in [Host -> [Vhid -> Softc]] /\ sc'[h][v] = w
  /\ \A g \in Host, u \in Vhid : <<g, u>> # <<h, v>> => sc'[g][u] = sc[g][u]

\* A step that changes one softc and makes no call.
LEMMA SoftcStep ==
  ASSUME CarpInv, NEW h \in Host, NEW v \in Vhid, NEW w, OneSoftc(h, v, w),
         demoted' \in [Host -> Int], \A g \in Host : g # h => demoted'[g] = demoted[g],
         UNCHANGED <<link, task, walks, stuck, touched>>, inbox' \in Inboxes, left' \in 0..left,
         RouteGood(w, walks[h], v, <<>>), w.errors # 0 => sc[h][v].errors # 0,
         Quiet /\ w.addr /\ <<h, v>> \notin touched => PartGood(w, walks[h], v, <<>>, Seen(h, v)),
         Sole => CountHost(sc'[h], demoted'[h], walks[h])
  PROVE  CarpInv'
<1>1. TypeOK /\ ShapeInv /\ RouteInv /\ ErrorInv /\ (Quiet => PartInv) /\ (Sole => SinglyInv /\ CountInv)
  BY DEF CarpInv
<1>2. left' \in 0..MaxTroubles /\ left' \in Int /\ left \in Int /\ left' <= left
  BY <1>1, CarpAssumption DEF TypeOK
<1>3. TypeOK'
  BY <1>1, <1>2 DEF TypeOK, OneSoftc
<1>4. ShapeInv'
  BY <1>1 DEF ShapeInv
<1>5. RouteInv'
  <2>1. SUFFICES ASSUME NEW g \in Host, NEW u \in Vhid PROVE RouteGood(sc'[g][u], walks[g], u, <<>>)
    BY DEF RouteInv
  <2>2. CASE <<g, u>> = <<h, v>>
    BY <2>2 DEF OneSoftc
  <2>3. CASE <<g, u>> # <<h, v>>
    BY <1>1, <2>3 DEF OneSoftc, RouteInv
  <2> QED
    BY <2>2, <2>3
<1>6. ErrorInv'
  <2>1. SUFFICES ASSUME NEW g \in Host, NEW u \in Vhid, sc'[g][u].errors # 0
                 PROVE  left' < MaxTroubles /\ "failed" \in Troubles
    BY DEF ErrorInv
  <2>2. sc[g][u].errors # 0
    BY <2>1 DEF OneSoftc
  <2> QED
    BY <1>1, <1>2, <2>2, CarpAssumption DEF ErrorInv
<1>7. Quiet => PartInv'
  <2>1. SUFFICES ASSUME Quiet, NEW g \in Host, NEW u \in Vhid, sc'[g][u].addr, <<g, u>> \notin touched
                 PROVE  PartGood(sc'[g][u], walks[g], u, <<>>, Seen(g, u))
    <3>1. \A g, u : Seen(g, u)' = Seen(g, u)
      BY DEF Seen
    <3> QED
      BY <3>1 DEF PartInv
  <2>2. CASE <<g, u>> = <<h, v>>
    BY <2>1, <2>2 DEF OneSoftc
  <2>3. CASE <<g, u>> # <<h, v>>
    BY <2>1, <2>3, PartIs DEF OneSoftc
  <2> QED
    BY <2>2, <2>3
<1>8. Sole => SinglyInv' /\ CountInv'
  <2>1. SUFFICES ASSUME Sole PROVE SinglyInv' /\ CountInv'
    OBVIOUS
  <2>2. SinglyInv'
    BY <1>1, <2>1 DEF SinglyInv
  <2>3. ASSUME NEW g \in Host PROVE CountHost(sc'[g], demoted'[g], walks[g])
    <3>1. CASE g = h
      BY <2>1, <3>1
    <3>2. CASE g # h
      <4>1. sc'[g] = sc[g]
        BY <1>1, <3>2 DEF OneSoftc, TypeOK
      <4> QED
        BY <1>1, <2>1, <3>2, <4>1 DEF CountInv
    <3> QED
      BY <3>1, <3>2
  <2> QED
    BY <2>2, <2>3 DEF CountInv
<1> QED
  BY <1>3, <1>4, <1>5, <1>6, <1>7, <1>8 DEF CarpInv, Quiet, Sole

\* A timer expires: its function waits.
LEMMA TimerStep ==
  ASSUME CarpInv, NEW h \in Host, NEW v \in Vhid, NEW w \in Softc, OneSoftc(h, v, w), NEW x, x = sc[h][v],
         UNCHANGED <<link, task, demoted, walks, stuck, inbox, touched>>, left' \in 0..left,
         w.addr = x.addr, w.state = x.state, w.up = x.up, w.backup = x.backup, w.running = x.running,
         w.route = x.route, w.suppress = x.suppress, w.errors = x.errors,
         x.ad \/ x.adRuns => w.ad \/ w.adRuns, x.md \/ x.mdRuns => w.md \/ w.mdRuns
  PROVE  CarpInv'
<1>1. TypeOK /\ RouteInv /\ (Sole => CountInv)
  BY DEF CarpInv
<1>2. RouteGood(w, walks[h], v, <<>>)
  BY <1>1 DEF RouteInv, RouteGood
<1>3. Quiet /\ w.addr /\ <<h, v>> \notin touched => PartGood(w, walks[h], v, <<>>, Seen(h, v))
  BY PartIs DEF PartGood
<1>4. \A u \in Vhid : sc'[h][u].suppress = sc[h][u].suppress /\ sc'[h][u].errors = sc[h][u].errors
  BY DEF OneSoftc
<1>5. Flagged(sc'[h]) = Flagged(sc[h]) /\ Faulty(sc'[h]) = Faulty(sc[h])
  BY <1>4 DEF Flagged, Faulty, Ailing
<1>6. Sole => CountHost(sc'[h], demoted'[h], walks[h])
  BY <1>1, <1>5 DEF CountInv, CountHost
<1>7. demoted' \in [Host -> Int] /\ inbox' \in Inboxes
  BY <1>1 DEF TypeOK
<1> QED
  BY <1>2, <1>3, <1>6, <1>7, SoftcStep

\* A timer that expires still runs: its function waits for the lock.
LEMMA ExpiresKeep ==
  ASSUME CarpInv, NEW h \in Host, NEW v \in Vhid, AdExpires(h, v) \/ MdExpires(h, v)
  PROVE  CarpInv'
<1> DEFINE x == sc[h][v]
<1>1. sc \in [Host -> [Vhid -> Softc]] /\ x \in Softc /\ left \in 0..MaxTroubles /\ MaxTroubles \in Nat
  BY CarpAssumption DEF CarpInv, TypeOK
<1>2. CASE AdExpires(h, v)
  <2> DEFINE x1 == [x EXCEPT !.ad = FALSE]
             w == [x1 EXCEPT !.adRuns = TRUE]
             s == [sc EXCEPT ![h][v].ad = FALSE]
  <2>1. sc' = [s EXCEPT ![h][v].adRuns = TRUE] /\ UNCHANGED <<link, task, demoted, walks, stuck, inbox, touched, left>>
    BY <1>2 DEF AdExpires
  <2>2. s[h][v] = x1 /\ s \in [Host -> [Vhid -> Softc]] /\ x1 \in Softc
        /\ \A g \in Host, u \in Vhid : <<g, u>> # <<h, v>> => s[g][u] = sc[g][u]
    BY <1>1 DEF Softc
  <2> HIDE DEF s, x1
  <2>3. w \in Softc
    BY <2>2 DEF Softc
  <2>4. sc'[h][v] = w /\ sc' \in [Host -> [Vhid -> Softc]]
        /\ \A g \in Host, u \in Vhid : <<g, u>> # <<h, v>> => sc'[g][u] = s[g][u]
    BY <2>1, <2>2 DEF Softc
  <2>5. OneSoftc(h, v, w)
    BY <2>2, <2>4 DEF OneSoftc
  <2>6. /\ w.addr = x.addr /\ w.state = x.state /\ w.up = x.up /\ w.backup = x.backup /\ w.running = x.running
        /\ w.route = x.route /\ w.suppress = x.suppress /\ w.errors = x.errors /\ w.adRuns
        /\ w.md = x.md /\ w.mdRuns = x.mdRuns
    BY <1>1 DEF Softc, x1
  <2>7. left' \in 0..left
    BY <1>1, <2>1
  <2> HIDE DEF w
  <2> QED
    BY <2>1, <2>3, <2>5, <2>6, <2>7, TimerStep
<1>3. CASE MdExpires(h, v)
  <2> DEFINE x1 == [x EXCEPT !.md = FALSE]
             w == [x1 EXCEPT !.mdRuns = TRUE]
             s == [sc EXCEPT ![h][v].md = FALSE]
  <2>1. sc' = [s EXCEPT ![h][v].mdRuns = TRUE] /\ UNCHANGED <<link, task, demoted, walks, stuck, inbox, touched>>
    BY <1>3 DEF MdExpires
  <2>2. s[h][v] = x1 /\ s \in [Host -> [Vhid -> Softc]] /\ x1 \in Softc
        /\ \A g \in Host, u \in Vhid : <<g, u>> # <<h, v>> => s[g][u] = sc[g][u]
    BY <1>1 DEF Softc
  <2> HIDE DEF s, x1
  <2>3. w \in Softc
    BY <2>2 DEF Softc
  <2>4. sc'[h][v] = w /\ sc' \in [Host -> [Vhid -> Softc]]
        /\ \A g \in Host, u \in Vhid : <<g, u>> # <<h, v>> => sc'[g][u] = s[g][u]
    BY <2>1, <2>2 DEF Softc
  <2>5. OneSoftc(h, v, w)
    BY <2>2, <2>4 DEF OneSoftc
  <2>6. /\ w.addr = x.addr /\ w.state = x.state /\ w.up = x.up /\ w.backup = x.backup /\ w.running = x.running
        /\ w.route = x.route /\ w.suppress = x.suppress /\ w.errors = x.errors /\ w.mdRuns
        /\ w.ad = x.ad /\ w.adRuns = x.adRuns
    BY <1>1 DEF Softc, x1
  <2>7. left' \in 0..left
    BY <1>1, <1>3 DEF MdExpires, Trouble
  <2> HIDE DEF w
  <2> QED
    BY <2>1, <2>3, <2>5, <2>6, <2>7, TimerStep
<1> QED
  BY <1>2, <1>3

\* A link that changes is not seen before the link task runs.
LEMMA LinkChangesKeeps ==
  ASSUME CarpInv, NEW h \in Host, NEW v \in Vhid, LinkChanges(h, v)
  PROVE  CarpInv'
<1>1. TypeOK /\ left \in Nat
  BY CarpAssumption DEF CarpInv, TypeOK
<1>2. /\ left' \in 0..left
      /\ "flap" \in Overlap \/ v \notin task[h]
      /\ link' = [link EXCEPT ![h][v] = ~@] /\ task' = [task EXCEPT ![h] = @ \cup {v}]
      /\ UNCHANGED <<sc, demoted, walks, stuck, inbox, touched>>
  BY <1>1 DEF LinkChanges, Trouble
<1>3. link[h][v] \in BOOLEAN /\ link \in [Host -> [Vhid -> BOOLEAN]] /\ task \in [Host -> SUBSET Vhid]
  BY <1>1 DEF TypeOK
<1>4. /\ link' \in [Host -> [Vhid -> BOOLEAN]] /\ (link'[h][v] <=> ~link[h][v])
      /\ \A g \in Host, u \in Vhid : <<g, u>> # <<h, v>> => link'[g][u] = link[g][u]
  BY <1>2, <1>3
<1>5. /\ task' \in [Host -> SUBSET Vhid] /\ v \in task'[h]
      /\ \A g \in Host, u \in Vhid : <<g, u>> # <<h, v>> => (u \in task'[g] <=> u \in task[g])
  BY <1>2, <1>3
<1>6. ASSUME NEW g \in Host, NEW u \in Vhid, <<g, u>> # <<h, v>> PROVE Seen(g, u)' = Seen(g, u)
  BY <1>4, <1>5, <1>6 DEF Seen
<1>7. ASSUME Quiet PROVE Seen(h, v)' = Seen(h, v)
  <2>1. v \notin task[h]
    BY <1>2, <1>7 DEF Quiet
  <2>2. Seen(h, v) <=> link[h][v]
    BY <1>3, <2>1 DEF Seen
  <2>3. Seen(h, v)' <=> link[h][v]
    BY <1>3, <1>4, <1>5 DEF Seen
  <2>4. Seen(h, v) \in BOOLEAN /\ Seen(h, v)' \in BOOLEAN
    BY DEF Seen
  <2> QED
    BY <2>2, <2>3, <2>4
<1>8. Around(h, v) /\ inbox' \in Inboxes
  BY <1>1, <1>2, <1>4, <1>5, <1>6 DEF Around, TypeOK
<1> QED
  BY <1>2, <1>7, <1>8, QuietStep

\* An advertisement that is lost changes no interface.
LEMMA LoseKeeps ==
  ASSUME CarpInv, NEW h \in Host, NEW v \in Vhid, Lose(h, v)
  PROVE  CarpInv'
<1>1. TypeOK /\ left \in Nat
  BY CarpAssumption DEF CarpInv, TypeOK
<1>2. /\ left' \in 0..left /\ inbox[h][v] # <<>> /\ inbox' = [inbox EXCEPT ![h][v] = Tail(@)]
      /\ UNCHANGED <<link, task, sc, demoted, walks, stuck, touched>>
  BY <1>1 DEF Lose, Trouble
<1>3. inbox' \in Inboxes
  <2> DEFINE s == inbox[h][v]
  <2>1. inbox \in [Host -> [Vhid -> Seq(Nat)]] /\ s \in Seq(Nat) /\ s # <<>>
    BY <1>1, <1>2 DEF TypeOK, Inboxes
  <2>2. inbox' = [inbox EXCEPT ![h][v] = Tail(s)]
    BY <1>2
  <2> HIDE DEF s
  <2>3. Tail(s) \in Seq(Nat)
    BY <2>1
  <2> QED
    BY <2>1, <2>2, <2>3 DEF Inboxes
<1>4. Around(h, v) /\ Seen(h, v)' = Seen(h, v)
  BY <1>1, <1>2, AroundSame
<1> QED
  BY <1>2, <1>3, <1>4, QuietStep

\* A softc that was never configured.
LEMMA FreshType ==
  Fresh \in Softc /\ ~Fresh.addr /\ Fresh.state = "INIT" /\ ~Fresh.route /\ ~Fresh.suppress /\ Fresh.errors = 0
BY DEF Fresh, Softc, State

\* carp_clone_destroy gives back what its flag has counted.
LEMMA DestroyKeeps ==
  ASSUME CarpInv, NEW h \in Host, NEW v \in Vhid, Destroy(h, v)
  PROVE  CarpInv'
<1> DEFINE b == Begin(h)
           c == Unsuppress(b, v)
           d == [c EXCEPT !.left = c.left - 1]
           e == [d EXCEPT !.sc[v] = Fresh]
           x == sc[h][v]
           ws == walks[h]
<1>1. TypeOK /\ left \in Nat
  BY CarpAssumption DEF CarpInv, TypeOK
<1>2. /\ From(h, v, b) /\ b.sc = sc[h] /\ b.walks = ws /\ b.left = left /\ x \in Softc
  BY FromSame
<1>3. /\ \A w \in Range(ws) : w.v # v
      /\ "destroy" \in Troubles /\ left > 0 /\ UNCHANGED <<link, task, stuck, touched>>
      /\ Finish(e, v)
  <2>1. Finish([Unsuppress(Begin(h), v) EXCEPT !.left = @ - 1, !.sc[v] = Fresh], v)
    BY DEF Destroy
  <2>2. [Unsuppress(Begin(h), v) EXCEPT !.left = @ - 1, !.sc[v] = Fresh] = e
    OBVIOUS
  <2> HIDE DEF e
  <2>3. Finish(e, v)
    BY <2>1, <2>2
  <2> QED
    BY <2>3 DEF Destroy
<1> HIDE DEF b, x, ws
<1>4. /\ c \in Frame /\ c.h = h /\ c.walks = ws /\ c.left = left /\ ~c.open
      /\ \A u \in Vhid : u # v => c.sc[u] = sc[h][u]
      /\ c.demoted = demoted[h] - (IF x.suppress THEN 1 ELSE 0)
  <2>1. b \in Frame /\ ~b.open /\ b.h = h /\ b.demoted = demoted[h] /\ "sent" \in Outcome
    BY <1>2 DEF From, Outcome
  <2>2. Effect(b, Call(b, v, "unsuppress", "sent"), v, "unsuppress", "sent")
    BY <2>1, UnsuppressCall
  <2>3. Call(b, v, "unsuppress", "sent") = c
    BY DEF Call, State
  <2> HIDE DEF c
  <2>4. /\ c \in Frame /\ Leaves(b, c, v) /\ (c.open => c.rest \in Openings("unsuppress"))
        /\ Counter(b, c, v, "unsuppress")
    BY <2>2, <2>3 DEF Effect
  <2>5. ~c.open
    BY <2>4 DEF Openings
  <2>6. c.demoted = b.demoted - (IF b.sc[v].suppress THEN 1 ELSE 0)
    BY <2>4 DEF Counter
  <2> QED
    BY <1>2, <2>1, <2>4, <2>5, <2>6 DEF Leaves, x
<1> HIDE DEF c
<1>5. /\ d \in Frame /\ d.h = h /\ d.walks = ws /\ d.left = left - 1 /\ ~d.open /\ d.sc = c.sc /\ d.demoted = c.demoted
  <2> DEFINE n == c.left - 1
  <2>1. n \in Int /\ n = left - 1 /\ d = [c EXCEPT !.left = n]
    BY <1>1, <1>4
  <2> HIDE DEF n, d
  <2> QED
    BY <1>4, <2>1 DEF Frame
<1> HIDE DEF d
<1>6. /\ e \in Frame /\ e.h = h /\ e.walks = ws /\ e.left = left - 1 /\ ~e.open /\ e.demoted = c.demoted
      /\ e.sc[v] = Fresh /\ \A u \in Vhid : u # v => e.sc[u] = sc[h][u]
  <2>1. Touches(d, e, v, Fresh)
    BY <1>5, FreshType, TouchedSoftc
  <2> HIDE DEF e
  <2> QED
    BY <1>4, <1>5, <2>1 DEF Touches, Leaves
<1> HIDE DEF e
<1>7. /\ sc' = [sc EXCEPT ![h] = e.sc] /\ demoted' = [demoted EXCEPT ![h] = e.demoted]
      /\ walks' = [walks EXCEPT ![h] = ws] /\ inbox' = Delivered(e, v) /\ left' = left - 1
  BY <1>3, <1>6 DEF Finish, Walking
<1>8. OneSoftc(h, v, Fresh)
  <2>1. e.sc \in [Vhid -> Softc]
    BY <1>6 DEF Frame
  <2> QED
    BY <1>1, <1>6, <1>7, <2>1 DEF OneSoftc, TypeOK
<1>9. demoted' \in [Host -> Int] /\ demoted'[h] = e.demoted /\ \A g \in Host : g # h => demoted'[g] = demoted[g]
  <2>1. e.demoted \in Int
    BY <1>6 DEF Frame
  <2> QED
    BY <1>1, <1>7, <2>1 DEF TypeOK
<1>10. walks' = walks /\ inbox' \in Inboxes /\ left' \in 0..left
  <2>1. inbox' \in Inboxes
    BY <1>6, <1>7, DeliveredType
  <2>2. walks' = walks
    BY <1>1, <1>7 DEF TypeOK, ws
  <2> QED
    BY <1>1, <1>3, <1>7, <2>1, <2>2
<1>11. RouteGood(Fresh, ws, v, <<>>)
  BY FreshType DEF RouteGood
<1>12. Sole => CountHost(sc'[h], demoted'[h], ws)
  <2>1. SUFFICES ASSUME Sole PROVE CountHost(sc'[h], demoted'[h], ws)
    OBVIOUS
  <2>2. CountHost(sc[h], demoted[h], ws)
    BY <2>1 DEF CarpInv, CountInv, ws
  <2>3. x.errors = 0
    <3>1. SUFFICES ASSUME x.errors # 0 PROVE FALSE
      OBVIOUS
    <3>2. left < MaxTroubles /\ "failed" \in Troubles
      BY <3>1 DEF CarpInv, ErrorInv, x
    <3>3. MaxTroubles <= 1
      BY <1>3, <2>1, <3>2 DEF Sole
    <3> QED
      BY <1>1, <1>3, <3>2, <3>3, CarpAssumption
  <2> DEFINE U == Flagged(sc[h]) \cup Owed(ws)
             W == Flagged(sc'[h]) \cup Owed(ws)
             F == Faulty(sc[h])
  <2>4. Faulty(sc'[h]) = F
    <3>1. ~Ailing(x) /\ ~Ailing(Fresh)
      BY <2>3, FreshType, CarpAssumption DEF Ailing
    <3>2. \A u \in Vhid : Ailing(sc'[h][u]) <=> Ailing(sc[h][u])
      BY <1>8, <3>1 DEF OneSoftc, x
    <3> QED
      BY <3>2 DEF Faulty
  <2>5. ws \in Seq(WalkRec)
    BY <1>1 DEF TypeOK, ws
  <2>6. v \notin Owed(ws) /\ Owed(ws) \subseteq Vhid
    BY <1>3, <2>5, OwedFinite DEF Owed
  <2>7. U \subseteq Vhid /\ W \subseteq Vhid /\ U \ {v} = W \ {v} /\ v \notin W /\ (v \in U <=> x.suppress)
    <3>1. \A u \in Vhid : u # v => sc'[h][u] = sc[h][u]
      BY <1>8 DEF OneSoftc
    <3>2. sc'[h][v] = Fresh
      BY <1>8 DEF OneSoftc
    <3> QED
      BY <2>6, <3>1, <3>2, FreshType DEF Flagged, x
  <2>8. demoted[h] = Cardinality(U) + Cardinality(F)
    BY <2>2 DEF CountHost
  <2> HIDE DEF U, W, F
  <2>9. IsFiniteSet(U) /\ IsFiniteSet(W) /\ IsFiniteSet(F)
    BY <2>7, CarpAssumption, FS_Subset DEF F, Faulty
  <2>10. /\ Cardinality(U) \in Nat /\ Cardinality(W) \in Nat
         /\ Cardinality(W) = Cardinality(U) + Bit(v \in W) - Bit(v \in U)
    BY <2>7, <2>9, ButOne
  <2>11. Cardinality(F) \in Nat
    BY <2>9, FS_CardinalityType
  <2>12. demoted'[h] = Cardinality(W) + Cardinality(F)
    BY <1>4, <1>6, <1>9, <2>7, <2>8, <2>10, <2>11 DEF Bit
  <2> QED
    BY <2>4, <2>12 DEF CountHost, W
<1> QED
  BY <1>3, <1>8, <1>9, <1>10, <1>11, <1>12, FreshType, SoftcStep DEF ws

-----------------------------------------------------------------------------
(* The walk comes to an interface. *)
Alike(ws, xs) == Len(xs) = Len(ws) /\ \A i \in 1..Len(ws) : xs[i].v = ws[i].v /\ xs[i].rest = ws[i].rest /\ xs[i].by = ws[i].by

\* Walks that differ in what they still have to visit say the same.
LEMMA AlikeWalks ==
  ASSUME NEW ws \in Seq(WalkRec), NEW xs \in Seq(WalkRec), Alike(ws, xs)
  PROVE  /\ \A u, c : Elsewhere(xs, u, c) <=> Elsewhere(ws, u, c)
         /\ Owed(xs) = Owed(ws) /\ (Shape(ws) => Shape(xs)) /\ (Singly(ws) => Singly(xs))
<1>1. DOMAIN xs = 1..Len(ws) /\ DOMAIN ws = 1..Len(ws) /\ Len(xs) = Len(ws)
  BY DEF Alike
<1>2. ASSUME NEW w \in Range(ws) PROVE \E t \in Range(xs) : t.v = w.v /\ t.rest = w.rest /\ t.by = w.by
  <2>1. PICK i \in 1..Len(ws) : w = ws[i]
    BY <1>1 DEF Range
  <2>2. xs[i] \in Range(xs)
    BY <1>1 DEF Range
  <2> QED
    BY <2>1, <2>2 DEF Alike
<1>3. ASSUME NEW t \in Range(xs) PROVE \E w \in Range(ws) : t.v = w.v /\ t.rest = w.rest /\ t.by = w.by
  <2>1. PICK i \in 1..Len(ws) : t = xs[i]
    BY <1>1 DEF Range
  <2>2. ws[i] \in Range(ws)
    BY <1>1 DEF Range
  <2> QED
    BY <2>1, <2>2 DEF Alike
<1>4. \A u, c : Elsewhere(xs, u, c) <=> Elsewhere(ws, u, c)
  BY <1>2, <1>3 DEF Elsewhere
<1>5. Owed(xs) = Owed(ws)
  BY <1>2, <1>3 DEF Owed
<1>6. Shape(ws) => Shape(xs)
  BY <1>3 DEF Shape
<1>7. Singly(ws) => Singly(xs)
  <2>1. SUFFICES ASSUME Singly(ws) PROVE Singly(xs)
    OBVIOUS
  <2>2. \A t \in Range(xs) : Counts(t.rest) => t.by \in {"link", "addr"}
    BY <1>3, <2>1 DEF Singly
  <2>3. \A i, j \in 1..Len(xs) : Counts(xs[i].rest) /\ Counts(xs[j].rest) /\ xs[i].v = xs[j].v => i = j
    BY <1>1, <2>1 DEF Singly, Alike
  <2> QED
    BY <2>2, <2>3 DEF Singly
<1> QED
  BY <1>4, <1>5, <1>6, <1>7

\* An advertisement, or none.
Visited(y, z, v, o) ==
  LET x == y.sc[v]
      w == z.sc[v]
  IN /\ z \in Frame /\ Leaves(y, z, v) /\ Counted(y, z, v) /\ (w.suppress <=> x.suppress)
     /\ w.addr = x.addr /\ w.up = x.up /\ w.backup = x.backup /\ w.running = x.running
     /\ w.state = x.state /\ w.route = x.route
     /\ w.adRuns = x.adRuns /\ w.md = x.md /\ w.mdRuns = x.mdRuns /\ (x.ad => w.ad)
     /\ o # "failed" /\ x.errors = 0 => w.errors = 0

\* What the walk does to an interface that it visits: it may send, or not.
LEMMA VisitDoes ==
  ASSUME NEW y \in Frame, ~y.open, y.rest = <<>>, NEW v \in Vhid, NEW o \in Outcome,
         NEW calls \in {<<>>, <<"send_ad">>}, NEW z, z = Do(y, v, calls, o)
  PROVE  Visited(y, z, v, o)
<1>1. CASE calls = <<>>
  <2>1. z = y
    <3>1. Len(calls) = 0
      BY <1>1
    <3>2. PICK at : at[0] = y /\ z = at[Len(calls)]
      BY <3>1, DoSteps
    <3> QED
      BY <3>1, <3>2
  <2>2. Counted(y, y, v)
    BY DEF Counted, Bit, Frame
  <2> QED
    BY <2>1, <2>2 DEF Visited, Leaves
<1>2. CASE calls = <<"send_ad">>
  <2>1. z = Call(y, v, "send_ad", o)
    <3>1. Len(calls) = 1 /\ calls[1] = "send_ad"
      BY <1>2
    <3>2. PICK at : at[0] = y /\ (\A i \in 1..Len(calls) : at[i] = Proceed(at[i - 1], v, calls[i], o)) /\ z = at[Len(calls)]
      BY <3>1, DoSteps
    <3>3. z = Proceed(y, v, "send_ad", o)
      BY <3>1, <3>2
    <3> QED
      BY <3>3 DEF Proceed
  <2>2. Effect(y, Call(y, v, "send_ad", o), v, "send_ad", o)
    BY SendAdCall
  <2>3. /\ z \in Frame /\ Leaves(y, z, v) /\ Counter(y, z, v, "send_ad")
        /\ Role(y.sc[v], z.sc[v], "send_ad", o, z.open) /\ Timers(y.sc[v], z.sc[v], "send_ad", o, z)
        /\ o # "failed" /\ y.sc[v].errors = 0 => z.sc[v].errors = 0
    BY <2>1, <2>2 DEF Effect
  <2>4. Counted(y, z, v) /\ (z.sc[v].suppress <=> y.sc[v].suppress)
    BY <2>3 DEF Counter, Counting
  <2>5. PICK x, w : x = y.sc[v] /\ w = z.sc[v]
    OBVIOUS
  <2>6. Role(x, w, "send_ad", o, z.open) /\ Timers(x, w, "send_ad", o, z)
    BY <2>3, <2>5
  <2>7. /\ w.addr = x.addr /\ w.up = x.up /\ w.backup = x.backup /\ w.running = x.running
        /\ w.state = x.state /\ w.route = x.route
    BY <2>6 DEF Role, State
  <2>8. w.adRuns = x.adRuns /\ w.md = x.md /\ w.mdRuns = x.mdRuns /\ (x.ad => w.ad)
    BY <2>6 DEF Timers
  <2> QED
    BY <2>3, <2>4, <2>5, <2>7, <2>8 DEF Visited
<1> QED
  BY <1>1, <1>2

\* What a step of the walk leaves behind it.
WalkStep(h, u, xs, y, z, o) ==
  /\ From(h, u, y) /\ y.sc = sc[h] /\ y.walks = xs
  /\ xs \in Seq(WalkRec) /\ Alike(walks[h], xs)
  /\ o \in Outcome /\ o \in Troubles \cup {"sent"} /\ Visited(y, z, u, o)
  /\ sc' = [sc EXCEPT ![h] = z.sc] /\ demoted' = [demoted EXCEPT ![h] = z.demoted]
  /\ walks' = [walks EXCEPT ![h] = xs] /\ inbox' \in Inboxes
  /\ left' \in Int /\ 0 <= left' /\ left' <= y.left
  /\ o = "failed" /\ y.sc[u].errors = 0 => left' < y.left
  /\ stuck' \in [Host -> BOOLEAN] /\ UNCHANGED <<link, task, touched>>

\* A step of the walk finds its host as a handler does, one interface further.
LEMMA WalkOnSteps ==
  ASSUME CarpInv, NEW h \in Host, WalkOn(h)
  PROVE  \E u, xs, y, z, o : u \in Vhid /\ WalkStep(h, u, xs, y, z, o)
<1> DEFINE b == Begin(h)
           ws == walks[h]
           w == Head(ws)
           t == [w EXCEPT !.todo = Tail(w.todo)]
           xs == [ws EXCEPT ![1] = t]
           y == [b EXCEPT !.walks = xs]
           calls == IF Runs(sc[h][Head(w.todo)]) /\ sc[h][Head(w.todo)].state = "MASTER" THEN <<"send_ad">> ELSE <<>>
<1>1. /\ ws # <<>> /\ ws \in Seq(WalkRec) /\ w.todo # <<>> /\ UNCHANGED <<link, task, touched>> /\ TypeOK
  BY DEF WalkOn, CarpInv, TypeOK
<1>2. w \in WalkRec /\ w = ws[1] /\ Len(ws) \in Nat /\ Len(ws) >= 1
  <2>1. ws # <<>> /\ ws \in Seq(WalkRec)
    BY <1>1
  <2> HIDE DEF ws
  <2> QED
    BY <2>1, HeadGone
<1>3. /\ [Begin(h) EXCEPT !.walks[1].todo = Tail(@)] = y
  <2>1. b.walks = ws
    BY DEF Begin
  <2> HIDE DEF ws
  <2>2. [b EXCEPT !.walks[1].todo = Tail(@)] = y
    BY <1>2, <2>1
  <2> QED
    BY <2>2
<1>4. w.todo \in Seq(Vhid) /\ Head(w.todo) \in Vhid /\ Tail(w.todo) \in Seq(Vhid)
  <2> DEFINE s == w.todo
  <2>1. s \in Seq(Vhid) /\ s # <<>>
    BY <1>1, <1>2 DEF WalkRec
  <2> HIDE DEF s
  <2>2. Head(s) \in Vhid /\ Tail(s) \in Seq(Vhid)
    BY <2>1
  <2> QED
    BY <2>1, <2>2 DEF s
<1>5. PICK u \in Vhid : u = Head(w.todo)
  BY <1>4
<1>6. PICK o, z, e :
        /\ o \in Outcomes(y, u) /\ z = Do(y, u, calls, o) /\ stuck' = [stuck EXCEPT ![h] = z.open]
        /\ e = Charged(z, Cost(y.sc[u], o)) /\ Finish([e EXCEPT !.open = FALSE], u)
  BY <1>3, <1>5 DEF WalkOn
<1>7. calls \in {<<>>, <<"send_ad">>}
  OBVIOUS
<1>8. From(h, u, b) /\ b.sc = sc[h] /\ b.left = left
  BY FromSame
<1> HIDE DEF b, calls
<1>9. t \in WalkRec /\ t.v = w.v /\ t.rest = w.rest /\ t.by = w.by
  BY <1>2, <1>4 DEF WalkRec
<1> HIDE DEF t
<1>10. xs \in Seq(WalkRec) /\ Alike(ws, xs)
  <2>1. ws \in Seq(WalkRec) /\ 1 \in 1..Len(ws)
    BY <1>1, <1>2
  <2> HIDE DEF ws
  <2>2. xs \in Seq(WalkRec) /\ Len(xs) = Len(ws) /\ xs[1] = t /\ \A i \in 1..Len(ws) : i # 1 => xs[i] = ws[i]
    BY <1>9, <2>1
  <2> HIDE DEF xs, w
  <2>3. \A i \in 1..Len(ws) : xs[i].v = ws[i].v /\ xs[i].rest = ws[i].rest /\ xs[i].by = ws[i].by
    BY <1>2, <1>9, <2>2
  <2> QED
    BY <2>2, <2>3 DEF Alike
<1>11. From(h, u, y) /\ y.sc = sc[h] /\ y.walks = xs /\ y.left = left
  <2>1. y = WithWalks(b, xs)
    BY DEF WithWalks
  <2> HIDE DEF y, xs
  <2> QED
    BY <1>8, <1>10, <2>1, FromWalks
<1> HIDE DEF y, xs, ws, w
<1>12. o \in Outcome /\ o \in Troubles \cup {"sent"} /\ Cost(y.sc[u], o) <= y.left
  BY <1>6 DEF Outcomes, Outcome
<1>13. Visited(y, z, u, o)
  BY <1>6, <1>7, <1>11, <1>12, VisitDoes DEF From
<1>14. z \in Frame /\ z.h = h /\ z.left = y.left /\ z.walks = xs
  BY <1>11, <1>13 DEF Visited, Leaves, From
<1> DEFINE c == Cost(y.sc[u], o)
           f == [e EXCEPT !.open = FALSE]
<1>15. y.left \in Int /\ c \in {0, 1} /\ (o = "failed" /\ y.sc[u].errors = 0 => c = 1) /\ c <= y.left
  BY <1>11, <1>12 DEF From, Cost
<1>16. e = Charged(z, c) /\ Finish(f, u)
  BY <1>6
<1> HIDE DEF c
<1>17. e \in Frame /\ e.h = h /\ e.sc = z.sc /\ e.demoted = z.demoted /\ e.walks = xs /\ e.left = y.left - c
  <2>1. c \in Int
    BY <1>15
  <2>2. /\ e \in Frame /\ e.h = z.h /\ e.sc = z.sc /\ e.demoted = z.demoted /\ e.walks = z.walks /\ e.left = z.left - c
    BY <1>14, <1>16, <2>1, ChargedFrame
  <2> QED
    BY <1>14, <2>2
<1>18. f \in Frame /\ f.h = h /\ f.sc = z.sc /\ f.demoted = z.demoted /\ f.walks = xs /\ f.left = y.left - c /\ ~f.open
  BY <1>17 DEF Frame
<1> HIDE DEF f
<1>19. /\ sc' = [sc EXCEPT ![h] = z.sc] /\ demoted' = [demoted EXCEPT ![h] = z.demoted]
       /\ walks' = [walks EXCEPT ![h] = xs] /\ inbox' = Delivered(f, u) /\ left' = y.left - c
  BY <1>16, <1>18 DEF Finish, Walking
<1>20. inbox' \in Inboxes
  BY <1>18, <1>19, DeliveredType
<1>21. stuck' \in [Host -> BOOLEAN]
  <2>1. z.open \in BOOLEAN
    BY <1>14 DEF Frame
  <2> QED
    BY <1>1, <1>6, <2>1 DEF TypeOK
<1>22. left' \in Int /\ 0 <= left' /\ left' <= y.left /\ (o = "failed" /\ y.sc[u].errors = 0 => left' < y.left)
  BY <1>15, <1>19
<1>23. WalkStep(h, u, xs, y, z, o)
  BY <1>1, <1>10, <1>11, <1>12, <1>13, <1>19, <1>20, <1>21, <1>22 DEF WalkStep, ws
<1> QED
  BY <1>23

\* carp_send_ad_all keeps the invariant, also when it asks for carp_mtx again.
LEMMA WalkOnKeeps ==
  ASSUME CarpInv, NEW h \in Host, WalkOn(h)
  PROVE  CarpInv'
<1>1. PICK u, xs, y, z, o : u \in Vhid /\ WalkStep(h, u, xs, y, z, o)
  BY WalkOnSteps
<1> DEFINE x == sc[h][u]
           w == z.sc[u]
           ws == walks[h]
<1>2. TypeOK /\ ShapeInv /\ RouteInv /\ ErrorInv /\ (Quiet => PartInv) /\ (Sole => SinglyInv /\ CountInv)
  BY DEF CarpInv
<1>3. /\ From(h, u, y) /\ y.sc = sc[h] /\ y.walks = xs /\ xs \in Seq(WalkRec) /\ Alike(ws, xs)
      /\ o \in Troubles \cup {"sent"} /\ Visited(y, z, u, o)
      /\ sc' = [sc EXCEPT ![h] = z.sc] /\ demoted' = [demoted EXCEPT ![h] = z.demoted]
      /\ walks' = [walks EXCEPT ![h] = xs] /\ inbox' \in Inboxes
      /\ left' \in Int /\ 0 <= left' /\ left' <= y.left
      /\ o = "failed" /\ x.errors = 0 => left' < y.left
      /\ stuck' \in [Host -> BOOLEAN] /\ UNCHANGED <<link, task, touched>>
  BY <1>1 DEF WalkStep
<1>4. /\ z \in Frame /\ Leaves(y, z, u) /\ Counted(y, z, u) /\ (w.suppress <=> x.suppress)
      /\ w.addr = x.addr /\ w.up = x.up /\ w.backup = x.backup /\ w.running = x.running
      /\ w.state = x.state /\ w.route = x.route
      /\ w.adRuns = x.adRuns /\ w.md = x.md /\ w.mdRuns = x.mdRuns /\ (x.ad => w.ad)
      /\ o # "failed" /\ x.errors = 0 => w.errors = 0
  BY <1>3 DEF Visited
<1>5. /\ z.sc \in [Vhid -> Softc] /\ z.demoted \in Int /\ \A a \in Vhid : a # u => z.sc[a] = sc[h][a]
      /\ y.left \in Int /\ y.left <= left /\ y.demoted = demoted[h]
  BY <1>3, <1>4 DEF Frame, Leaves, From
<1>6. /\ sc' \in [Host -> [Vhid -> Softc]] /\ sc'[h] = z.sc /\ demoted' \in [Host -> Int] /\ demoted'[h] = z.demoted
      /\ walks' \in [Host -> Seq(WalkRec)] /\ walks'[h] = xs
      /\ \A g \in Host : g # h => sc'[g] = sc[g] /\ demoted'[g] = demoted[g] /\ walks'[g] = walks[g]
  BY <1>2, <1>3, <1>5 DEF TypeOK
<1>7. /\ \A a, c : Elsewhere(xs, a, c) <=> Elsewhere(ws, a, c)
      /\ Owed(xs) = Owed(ws) /\ (Shape(ws) => Shape(xs)) /\ (Singly(ws) => Singly(xs))
  <2>1. ws \in Seq(WalkRec)
    BY <1>2 DEF TypeOK
  <2> HIDE DEF ws
  <2> QED
    BY <1>3, <2>1, AlikeWalks
<1>8. TypeOK'
  <2>1. left' \in 0..MaxTroubles
    BY <1>2, <1>3, <1>5, CarpAssumption DEF TypeOK
  <2> QED
    BY <1>2, <1>3, <1>6, <2>1 DEF TypeOK
<1> HIDE DEF x, w, ws
<1>9. ShapeInv'
  BY <1>2, <1>6, <1>7 DEF ShapeInv, ws
<1>10. RouteInv'
  <2>1. ASSUME NEW a \in Vhid PROVE RouteGood(z.sc[a], xs, a, <<>>)
    <3>1. RouteGood(sc[h][a], ws, a, <<>>)
      BY <1>2 DEF RouteInv, ws
    <3>2. z.sc[a].route = sc[h][a].route /\ z.sc[a].state = sc[h][a].state
      BY <1>4, <1>5 DEF x, w
    <3> QED
      BY <1>7, <3>1, <3>2 DEF RouteGood
  <2> QED
    BY <1>2, <1>6, <2>1 DEF RouteInv
<1>11. ErrorInv'
  <2>1. SUFFICES ASSUME NEW g \in Host, NEW a \in Vhid, sc'[g][a].errors # 0
                 PROVE  left' < MaxTroubles /\ "failed" \in Troubles
    BY DEF ErrorInv
  <2>2. left \in Int /\ left <= MaxTroubles /\ MaxTroubles \in Int
    BY <1>2, CarpAssumption DEF TypeOK
  <2>3. CASE sc[g][a].errors # 0
    <3>1. left < MaxTroubles /\ "failed" \in Troubles
      BY <1>2, <2>3 DEF ErrorInv
    <3> QED
      BY <1>3, <1>5, <2>2, <3>1
  <2>4. CASE sc[g][a].errors = 0
    <3>1. g = h /\ a = u
      BY <1>5, <1>6, <2>1, <2>4
    <3>2. x.errors = 0 /\ w.errors # 0
      BY <1>6, <2>1, <2>4, <3>1 DEF x, w
    <3> QED
      BY <1>3, <1>4, <1>5, <2>2, <3>2
  <2> QED
    BY <2>3, <2>4
<1>12. Quiet => PartInv'
  <2>1. SUFFICES ASSUME Quiet, NEW g \in Host, NEW a \in Vhid, sc'[g][a].addr, <<g, a>> \notin touched
                 PROVE  PartGood(sc'[g][a], walks'[g], a, <<>>, Seen(g, a))
    <3>1. \A g, a : Seen(g, a)' = Seen(g, a)
      BY <1>3 DEF Seen
    <3>2. touched' = touched
      BY <1>3
    <3> QED
      BY <3>1, <3>2 DEF PartInv
  <2>2. CASE g # h
    BY <1>6, <2>1, <2>2, PartIs
  <2>3. CASE g = h
    <3>1. PartGood(sc[h][a], ws, a, <<>>, Seen(h, a))
      <4>1. sc[h][a].addr
        BY <1>4, <1>5, <1>6, <2>1, <2>3 DEF x, w
      <4> QED
        BY <2>1, <2>3, <4>1, PartIs DEF ws
    <3>2. CASE a # u
      <4>1. sc'[g][a] = sc[h][a]
        BY <1>5, <1>6, <2>3, <3>2
      <4>2. PartGood(sc[h][a], xs, a, <<>>, Seen(h, a))
        BY <1>7, <3>1 DEF PartGood
      <4> QED
        BY <1>6, <2>3, <4>1, <4>2
    <3>3. CASE a = u
      <4>1. PartGood(x, ws, u, <<>>, Seen(h, u))
        BY <3>1, <3>3 DEF x
      <4>2. PartGood(w, xs, u, <<>>, Seen(h, u))
        BY <1>4, <1>7, <4>1 DEF PartGood
      <4> QED
        BY <1>6, <2>3, <3>3, <4>2 DEF w
    <3> QED
      BY <3>2, <3>3
  <2> QED
    BY <2>2, <2>3
<1>13. Sole => SinglyInv' /\ CountInv'
  <2>1. SUFFICES ASSUME Sole PROVE SinglyInv' /\ CountInv'
    OBVIOUS
  <2>2. SinglyInv'
    BY <1>2, <1>6, <1>7, <2>1 DEF SinglyInv, ws
  <2>3. CountHost(z.sc, z.demoted, xs)
    <3> DEFINE U == Flagged(sc[h]) \cup Owed(ws)
               F == Faulty(sc[h])
               G == Faulty(z.sc)
    <3>1. demoted[h] = Cardinality(U) + Cardinality(F)
      BY <1>2, <2>1 DEF CountInv, CountHost, ws
    <3>2. Flagged(z.sc) \cup Owed(xs) = U
      <4>1. \A a \in Vhid : z.sc[a].suppress <=> sc[h][a].suppress
        BY <1>4, <1>5 DEF x, w
      <4> QED
        BY <1>7, <4>1 DEF Flagged
    <3>3. F \ {u} = G \ {u} /\ (u \in F <=> Ailing(x)) /\ (u \in G <=> Ailing(w))
      BY <1>1, <1>5 DEF Faulty, x, w
    <3>4. F \subseteq Vhid /\ G \subseteq Vhid /\ U \subseteq Vhid
      <4>1. ws \in Seq(WalkRec)
        BY <1>2 DEF TypeOK, ws
      <4> QED
        BY <4>1, OwedFinite DEF Faulty, Flagged
    <3>5. z.demoted = demoted[h] + Bit(Ailing(w)) - Bit(Ailing(x))
      BY <1>3, <1>4, <1>5 DEF Counted, x, w
    <3> HIDE DEF U, F, G
    <3>6. IsFiniteSet(F) /\ IsFiniteSet(G) /\ IsFiniteSet(U)
      BY <3>4, CarpAssumption, FS_Subset
    <3>7. Cardinality(F) \in Nat /\ Cardinality(G) \in Nat /\ Cardinality(G) = Cardinality(F) + Bit(u \in G) - Bit(u \in F)
      BY <3>3, <3>6, ButOne
    <3>8. Cardinality(U) \in Nat
      BY <3>6, FS_CardinalityType
    <3>9. z.demoted = Cardinality(U) + Cardinality(G)
      BY <3>1, <3>3, <3>5, <3>7, <3>8 DEF Bit
    <3> QED
      BY <3>2, <3>9 DEF CountHost, G
  <2> QED
    BY <1>2, <1>6, <2>1, <2>2, <2>3 DEF CountInv
<1> QED
  BY <1>8, <1>9, <1>10, <1>11, <1>12, <1>13 DEF CarpInv, Quiet, Sole

-----------------------------------------------------------------------------
(* The hosts that have booted. *)
\* An interface that was elected when its host booted.
LEMMA BootedType ==
  ASSUME NEW m \in BOOLEAN, NEW x, x = Booted(m)
  PROVE  /\ x \in Softc /\ x.addr /\ Runs(x) /\ ~x.suppress /\ x.errors = 0
         /\ x.state \in {"MASTER", "BACKUP"} /\ (x.state = "MASTER" <=> m)
         /\ (x.ad <=> m) /\ (x.md <=> ~m) /\ (x.route <=> m)
BY DEF Booted, Fresh, Softc, State, Runs

\* Nothing walks and nothing is owed.
LEMMA NoWalks ==
  /\ <<>> \in Seq(WalkRec) /\ Range(<<>>) = {} /\ Owed(<<>>) = {} /\ Shape(<<>>) /\ Singly(<<>>)
<1>1. Range(<<>>) = {}
  BY DEF Range
<1>2. Len(<<>>) = 0 /\ <<>> \in Seq(WalkRec)
  OBVIOUS
<1> QED
  BY <1>1, <1>2 DEF Owed, Shape, Singly

\* The invariant holds of hosts that have booted.
LEMMA InitCarp ==
  Init => CarpInv
<1> SUFFICES ASSUME Init
             PROVE  CarpInv
  OBVIOUS
<1>1. PICK m \in Host : sc = [h \in Host |-> [v \in Vhid |-> Booted(h = m)]]
  BY DEF Init
<1>2. ASSUME NEW h \in Host, NEW v \in Vhid
      PROVE  /\ sc[h][v] = Booted(h = m) /\ walks[h] = <<>> /\ Seen(h, v) = TRUE /\ demoted[h] = 0
             /\ sc[h][v] \in Softc /\ sc[h][v].addr /\ Runs(sc[h][v]) /\ ~sc[h][v].suppress /\ sc[h][v].errors = 0
             /\ sc[h][v].state \in {"MASTER", "BACKUP"} /\ (sc[h][v].state = "MASTER" <=> h = m)
             /\ (sc[h][v].ad <=> h = m) /\ (sc[h][v].md <=> h # m) /\ (sc[h][v].route <=> h = m)
  <2>1. sc[h][v] = Booted(h = m) /\ walks[h] = <<>> /\ link[h][v] = TRUE /\ task[h] = {} /\ demoted[h] = 0
    BY <1>1 DEF Init
  <2>2. (h = m) \in BOOLEAN
    OBVIOUS
  <2> QED
    BY <2>1, <2>2, BootedType DEF Seen
<1>3. TypeOK
  <2>1. sc \in [Host -> [Vhid -> Softc]]
    <3>1. ASSUME NEW h \in Host PROVE Booted(h = m) \in Softc
      <4>1. (h = m) \in BOOLEAN
        OBVIOUS
      <4> QED
        BY <4>1, BootedType
    <3> QED
      BY <1>1, <3>1
  <2>2. inbox \in Inboxes
    <3>1. inbox = [h \in Host |-> [v \in Vhid |-> <<>>]] /\ <<>> \in Seq(Nat)
      BY DEF Init
    <3> QED
      BY <3>1 DEF Inboxes
  <2>3. walks \in [Host -> Seq(WalkRec)]
    BY NoWalks DEF Init
  <2>4. left \in 0..MaxTroubles
    BY CarpAssumption DEF Init
  <2>5. /\ link \in [Host -> [Vhid -> BOOLEAN]] /\ task \in [Host -> SUBSET Vhid]
        /\ demoted \in [Host -> Int] /\ stuck \in [Host -> BOOLEAN] /\ touched \subseteq Host \X Vhid
    BY DEF Init
  <2> QED
    BY <2>1, <2>2, <2>3, <2>4, <2>5 DEF TypeOK
<1>4. ShapeInv /\ SinglyInv
  <2>1. \A h \in Host : walks[h] = <<>>
    BY DEF Init
  <2> QED
    BY <2>1, NoWalks DEF ShapeInv, SinglyInv
<1>5. RouteInv
  BY <1>2 DEF RouteInv, RouteGood
<1>6. ErrorInv
  BY <1>2 DEF ErrorInv
<1>7. PartInv
  <2>1. ASSUME NEW h \in Host, NEW v \in Vhid
        PROVE  PartGood(sc[h][v], walks[h], v, <<>>, Seen(h, v))
    <3>1. PICK x, ws : x = sc[h][v] /\ ws = walks[h]
      OBVIOUS
    <3>2. /\ Runs(x) /\ x.state \in {"MASTER", "BACKUP"}
          /\ x.state = "MASTER" => x.ad
          /\ x.state = "BACKUP" => x.md
      <4>1. /\ Runs(sc[h][v]) /\ sc[h][v].state \in {"MASTER", "BACKUP"}
            /\ (sc[h][v].state = "MASTER" <=> h = m) /\ (sc[h][v].ad <=> h = m) /\ (sc[h][v].md <=> h # m)
        BY <1>2
      <4>2. /\ sc[h][v].state = "MASTER" => sc[h][v].ad
            /\ sc[h][v].state = "BACKUP" => sc[h][v].md
        BY <4>1
      <4> QED
        BY <3>1, <4>1, <4>2
    <3>3. PartGood(x, ws, v, <<>>, TRUE)
      BY <3>2, EmptyHas DEF PartGood, Runs
    <3>4. Seen(h, v) = TRUE
      BY <1>2
    <3> QED
      BY <3>1, <3>3, <3>4
  <2> QED
    BY <2>1 DEF PartInv
<1>8. CountInv
  <2>1. ASSUME NEW h \in Host PROVE CountHost(sc[h], demoted[h], walks[h])
    <3>1. walks[h] = <<>> /\ demoted[h] = 0
      BY DEF Init
    <3>2. Flagged(sc[h]) = {} /\ Faulty(sc[h]) = {}
      <4>1. CARP_SENDAD_MAX_ERRORS \in Nat \ {0}
        BY CarpAssumption
      <4>2. \A v \in Vhid : ~sc[h][v].suppress /\ sc[h][v].errors = 0
        BY <1>2
      <4> QED
        BY <4>1, <4>2 DEF Flagged, Faulty, Ailing
    <3>3. Owed(walks[h]) = {}
      BY <3>1, NoWalks
    <3>4. Flagged(sc[h]) \cup Owed(walks[h]) = {}
      BY <3>2, <3>3
    <3>5. Cardinality({}) = 0
      BY FS_EmptySet
    <3>6. /\ demoted[h] = 0 /\ Cardinality(Flagged(sc[h]) \cup Owed(walks[h])) = 0
          /\ Cardinality(Faulty(sc[h])) = 0 /\ 0 = 0 + 0
      <4>1. Cardinality(Flagged(sc[h]) \cup Owed(walks[h])) = 0
        BY <3>4, <3>5
      <4>2. Cardinality(Faulty(sc[h])) = 0
        BY <3>2, <3>5
      <4>3. 0 = 0 + 0
        OBVIOUS
      <4> QED
        BY <3>1, <4>1, <4>2, <4>3
    <3> QED
      BY <3>6 DEF CountHost
  <2> QED
    BY <2>1 DEF CountInv
<1> QED
  BY <1>3, <1>4, <1>5, <1>6, <1>7, <1>8 DEF CarpInv

-----------------------------------------------------------------------------
(* Every step. *)
\* A step that changes nothing keeps the invariant.
LEMMA StutterKeeps ==
  ASSUME CarpInv, UNCHANGED vars
  PROVE  CarpInv'
BY DEF CarpInv, vars, TypeOK, ShapeInv, RouteInv, ErrorInv, PartInv, SinglyInv, CountInv, Seen, Quiet, Sole

\* Every step keeps the invariant.
LEMMA NextKeeps ==
  ASSUME CarpInv, Next
  PROVE  CarpInv'
<1>1. PICK h \in Host : \/ Walk(h)
                        \/ \E v \in Vhid : \/ Ad(h, v) \/ Md(h, v) \/ Input(h, v) \/ CarpdevState(h, v)
                                           \/ Ifconfig(h, v) \/ LinkChanges(h, v) \/ Lose(h, v)
  BY DEF Next
<1>2. CASE Walk(h)
  <2>1. CASE WalkOn(h)
    BY <2>1, WalkOnKeeps
  <2>2. CASE WalkEnds(h)
    BY <2>2, WalkEndsKeeps
  <2> QED
    BY <1>2, <2>1, <2>2 DEF Walk
<1>3. ASSUME NEW v \in Vhid, Ad(h, v)
      PROVE  CarpInv'
  <2>1. CASE AdExpires(h, v)
    BY <2>1, ExpiresKeep
  <2>2. CASE SendAdTimer(h, v)
    BY <2>2, SendAdTimerKeeps
  <2> QED
    BY <1>3, <2>1, <2>2 DEF Ad
<1>4. ASSUME NEW v \in Vhid, Md(h, v)
      PROVE  CarpInv'
  <2>1. CASE MdExpires(h, v)
    BY <2>1, ExpiresKeep
  <2>2. CASE MasterDownTimer(h, v)
    BY <2>2, MasterDownTimerKeeps
  <2> QED
    BY <1>4, <2>1, <2>2 DEF Md
<1>5. ASSUME NEW v \in Vhid, Ifconfig(h, v)
      PROVE  CarpInv'
  <2>1. CASE SetAddr(h, v)
    BY <2>1, SetAddrKeeps
  <2>2. CASE SetFlags(h, v)
    BY <2>2, SetFlagsKeeps
  <2>3. CASE SetVh(h, v)
    BY <2>3, SetVhKeeps
  <2>4. CASE Destroy(h, v)
    BY <2>4, DestroyKeeps
  <2> QED
    BY <1>5, <2>1, <2>2, <2>3, <2>4 DEF Ifconfig
<1>6. ASSUME NEW v \in Vhid, Input(h, v)
      PROVE  CarpInv'
  BY <1>6, InputKeeps
<1>7. ASSUME NEW v \in Vhid, CarpdevState(h, v)
      PROVE  CarpInv'
  BY <1>7, CarpdevStateKeeps
<1>8. ASSUME NEW v \in Vhid, LinkChanges(h, v)
      PROVE  CarpInv'
  BY <1>8, LinkChangesKeeps
<1>9. ASSUME NEW v \in Vhid, Lose(h, v)
      PROVE  CarpInv'
  BY <1>9, LoseKeeps
<1> QED
  BY <1>1, <1>2, <1>3, <1>4, <1>5, <1>6, <1>7, <1>8, <1>9

\* The inductive invariant holds, whatever the hosts, the ids and the limits are.
THEOREM CarpInvariant ==
  Spec => []CarpInv
<1>1. CarpInv /\ [Next]_vars => CarpInv'
  BY NextKeeps, StutterKeeps
<1> QED
  BY <1>1, InitCarp, PTL DEF Spec

-----------------------------------------------------------------------------
(* What it says of the properties. *)
\* Outside its walks an interface has no call left to do.
LEMMA NotWaiting ==
  ASSUME NEW h \in Host, NEW v \in Vhid, ~InWalk(h, v), NEW c
  PROVE  ~Elsewhere(walks[h], v, c)
BY DEF InWalk, Elsewhere

\* Outside a walk no call is due, and the route is that of a MASTER.
LEMMA RouteFollows ==
  ASSUME CarpInv
  PROVE  RouteIffMaster
<1>1. ASSUME NEW h \in Host, NEW v \in Vhid, ~InWalk(h, v)
      PROVE  sc[h][v].route <=> sc[h][v].state = "MASTER"
  <2>1. RouteGood(sc[h][v], walks[h], v, <<>>) /\ sc[h][v] \in Softc
    BY DEF CarpInv, TypeOK, RouteInv
  <2>2. /\ \A c : ~Elsewhere(walks[h], v, c) /\ ~Has(<<>>, c) /\ ~Starts(<<>>, c)
        /\ \A c, d : ~StartsTwo(<<>>, c, d)
    BY <1>1, NotWaiting, EmptyHas
  <2> QED
    BY <2>1, <2>2 DEF RouteGood, Softc, State
<1> QED
  BY <1>1 DEF RouteIffMaster

\* Outside a walk no call is due, and the timer of the state runs.
LEMMA PartFollows ==
  ASSUME CarpInv, Quiet
  PROVE  UpTakesPart
<1>1. ASSUME NEW h \in Host, NEW v \in Vhid, sc[h][v].addr, link[h][v], v \notin task[h],
             ~InWalk(h, v), <<h, v>> \notin touched
      PROVE  /\ Runs(sc[h][v]) /\ sc[h][v].state # "INIT"
             /\ sc[h][v].state = "MASTER" => sc[h][v].ad \/ sc[h][v].adRuns
             /\ sc[h][v].state = "BACKUP" => sc[h][v].md \/ sc[h][v].mdRuns
  <2>1. PartGood(sc[h][v], walks[h], v, <<>>, TRUE)
    <3>1. TypeOK /\ PartGood(sc[h][v], walks[h], v, <<>>, Seen(h, v))
      BY <1>1, PartIs DEF CarpInv
    <3>2. Seen(h, v) = TRUE
      BY <1>1, <3>1 DEF Seen, TypeOK
    <3> QED
      BY <3>1, <3>2
  <2>2. \A c : ~Elsewhere(walks[h], v, c) /\ ~Has(<<>>, c) /\ ~Starts(<<>>, c)
    BY <1>1, NotWaiting, EmptyHas
  <2> QED
    BY <2>1, <2>2 DEF PartGood, Runs
<1> QED
  BY <1>1 DEF UpTakesPart

\* Without walks no flag is owed: the counter is the number of reasons.
LEMMA CountFollows ==
  ASSUME CarpInv, Sole
  PROVE  DemotionIsCounted
<1>1. ASSUME NEW h \in Host, walks[h] = <<>>
      PROVE  demoted[h] = Cardinality({v \in Vhid : sc[h][v].suppress})
                          + Cardinality({v \in Vhid : sc[h][v].errors >= CARP_SENDAD_MAX_ERRORS})
  <2>1. CountHost(sc[h], demoted[h], walks[h]) /\ Owed(walks[h]) = {}
    BY <1>1, NoWalks DEF CarpInv, CountInv
  <2>2. Flagged(sc[h]) \cup Owed(walks[h]) = {v \in Vhid : sc[h][v].suppress}
    BY <2>1 DEF Flagged
  <2>3. Faulty(sc[h]) = {v \in Vhid : sc[h][v].errors >= CARP_SENDAD_MAX_ERRORS}
    BY DEF Faulty, Ailing
  <2> QED
    BY <2>1, <2>2, <2>3 DEF CountHost
<1> QED
  BY <1>1 DEF DemotionIsCounted

-----------------------------------------------------------------------------
\* The counter, the softcs and the calls that walks have left have their types.
THEOREM CarpTypes ==
  Spec => []TypeOK
<1>1. CarpInv => TypeOK
  BY DEF CarpInv
<1> QED
  BY <1>1, CarpInvariant, PTL

\* Outside a walk, carp_setroute has routed an address to the host if and only if
\* the host is MASTER, with every trouble there is and however threads overlap.
THEOREM MasterHasRoute ==
  Spec => []RouteIffMaster
<1>1. CarpInv => RouteIffMaster
  BY RouteFollows
<1> QED
  BY <1>1, CarpInvariant, PTL

\* An interface whose parent is up has the timer of its state running, when a link
\* does not change before the link task saw the last change and no packet tag is
\* refused: carp_send_ad_locked then returns without setting its timer.
THEOREM PartTaken ==
  ASSUME Quiet
  PROVE  Spec => []UpTakesPart
<1>1. CarpInv => UpTakesPart
  BY PartFollows
<1> QED
  BY <1>1, CarpInvariant, PTL

\* carp_suppress_preempt counts the interfaces that have a reason, when one thread at
\* a time counts an interface and none is destroyed after it was counted for its errors.
THEOREM DemotionCounted ==
  ASSUME Sole
  PROVE  Spec => []DemotionIsCounted
<1>1. CarpInv => DemotionIsCounted
  BY CountFollows
<1> QED
  BY <1>1, CarpInvariant, PTL

=============================================================================
