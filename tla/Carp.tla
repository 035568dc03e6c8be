-------------------------------- MODULE Carp --------------------------------
(***************************************************************************)
(* carp(4): hosts share virtual addresses.  A virtual host id is an        *)
(* interface of its own on every host, carried by a parent interface; the  *)
(* hosts whose parents are up on a segment elect a MASTER by how often     *)
(* they advertise.  A host that lost a parent, or cannot send, demotes     *)
(* itself on all its ids: carp_suppress_preempt counts the reasons.        *)
(*                                                                         *)
(* Handlers run under the lock of one parent.  carp_send_ad_all, which     *)
(* tells a first demotion to all, needs the locks of the others: its       *)
(* caller gives up its own lock, walks the interfaces under carp_mtx, and  *)
(* goes on with whatever state it finds then.  A timer that has expired    *)
(* waits for the lock, and callout_stop is too late for it.                *)
(*                                                                         *)
(* A host has one parent per id, and all hosts advertise once a second     *)
(* (advbase): only sc_advskew tells them apart.                            *)
(***************************************************************************)
EXTENDS Naturals, Sequences, FiniteSets, SequencesExt

CONSTANTS
  Host, Vhid,
  Skew,          \* sc_advskew of a host's interfaces
  Preempt,       \* net.inet.carp.preempt
  CARP_SENDAD_MAX_ERRORS,
  CARP_SENDAD_MIN_SUCCESS,
  Overlap,       \* which threads overlap: "flap", a link changes again before the
                 \* link task saw it; "addr", carp_set_addr and the link task
  Troubles,      \* the kinds of trouble that happen, and
  MaxTroubles    \* bound: how many of them, all together

ASSUME CarpAssumption ==
  /\ IsFiniteSet(Host) /\ IsFiniteSet(Vhid)
  /\ Skew \in [Host -> 0..254]
  /\ Preempt \in BOOLEAN /\ Overlap \subseteq {"flap", "addr"}
  /\ CARP_SENDAD_MAX_ERRORS \in Nat \ {0} /\ CARP_SENDAD_MIN_SUCCESS \in Nat \ {0}
  /\ Troubles \subseteq {"link", "loss", "failed", "nobuf", "notag", "alias", "admin", "destroy"}
  /\ MaxTroubles \in Nat

VARIABLES
  link,      \* is the parent of an interface up?
  task,      \* parents whose change the link task has not seen
  sc,        \* the carp_softc of each host and id
  demoted,   \* carp_suppress_preempt
  walks,     \* calls of carp_send_ad_all; the first holds carp_mtx
  stuck,     \* did a walk ask for carp_mtx again?
  inbox,     \* advertisements that arrived
  touched,   \* history: interfaces taken up or down by ifconfig
  left       \* troubles that may still happen

vars == <<link, task, sc, demoted, walks, stuck, inbox, touched, left>>

(***************************************************************************)
(* A carp_softc.  up and running are IFF_UP and IFF_DRV_RUNNING, backup    *)
(* the IFF_UP of sc_flags_backup.  ad and md: sc_ad_tmo and sc_md_tmo are  *)
(* pending; adRuns and mdRuns: their function waits for the lock.  route:  *)
(* the host route that carp_setroute adds for a MASTER.                    *)
(***************************************************************************)
State == {"INIT", "BACKUP", "MASTER"}
Fresh == [addr |-> FALSE, state |-> "INIT", up |-> FALSE, backup |-> FALSE, running |-> FALSE,
          suppress |-> FALSE, errors |-> 0, success |-> 0, ad |-> FALSE, adRuns |-> FALSE,
          md |-> FALSE, mdRuns |-> FALSE, route |-> FALSE]
Runs(x) == x.up /\ x.running

(* The hosts have booted: every id has been elected a MASTER. *)
Booted(master) == [Fresh EXCEPT !.addr = TRUE, !.up = TRUE, !.running = TRUE,
  !.state = IF master THEN "MASTER" ELSE "BACKUP", !.ad = master, !.md = ~master, !.route = master]

Init ==
  /\ link = [h \in Host |-> [v \in Vhid |-> TRUE]]
  /\ task = [h \in Host |-> {}]
  /\ \E m \in Host :
       /\ \A h \in Host : Skew[m] <= Skew[h]
       /\ sc = [h \in Host |-> [v \in Vhid |-> Booted(h = m)]]
  /\ demoted = [h \in Host |-> 0]
  /\ walks = [h \in Host |-> <<>>]
  /\ stuck = [h \in Host |-> FALSE]
  /\ inbox = [h \in Host |-> [v \in Vhid |-> <<>>]]
  /\ touched = {}
  /\ left = MaxTroubles

Trouble(kind) == kind \in Troubles /\ left > 0 /\ left' = left - 1

(***************************************************************************)
(* How often an interface advertises: its skew, 240 at least on a demoted  *)
(* host.  An interface that lost its UPness advertises 255 seconds.        *)
(***************************************************************************)
BowOut == 1000
Speed(h, d) == IF d > 0 /\ Skew[h] < 240 THEN 240 ELSE Skew[h]

(***************************************************************************)
(* A handler is a sequence of calls.  y is what it finds and changes: the  *)
(* softcs and the counter of its host, the walks of others, what has       *)
(* arrived, what may still go wrong.  A call that opens a walk gives up    *)
(* the lock: the calls after it are the rest, for when the walk is over.   *)
(***************************************************************************)
NoAd == 1001
Begin(h) == [h |-> h, sc |-> sc[h], demoted |-> demoted[h], walks |-> walks[h], inbox |-> inbox,
             left |-> left, by |-> "other", sent |-> NoAd, open |-> FALSE, rest |-> <<>>]

SetState(y, v, s) == [y EXCEPT !.sc[v].state = s]
SetRoute(y, v, add) == IF add = (y.sc[v].state = "MASTER") THEN [y EXCEPT !.sc[v].route = add] ELSE y
ArmAd(y, v) == [y EXCEPT !.sc[v].ad = TRUE]
Opened(y, calls) == [y EXCEPT !.open = TRUE, !.rest = calls]

(***************************************************************************)
(* carp_send_ad_locked.  "nobuf": no mbuf for the packet; "notag": none    *)
(* for its tag, and the timer is left alone; "failed": ip_output fails.    *)
(* The timer is not set again by an interface that bows out.               *)
(***************************************************************************)
Min2(a, b) == IF a < b THEN a ELSE b
Failed(y, v, rearm) ==
  LET x == y.sc[v]
      first == x.errors + 1 = CARP_SENDAD_MAX_ERRORS
      z == [y EXCEPT !.sc[v].errors = Min2(@ + 1, CARP_SENDAD_MAX_ERRORS + 1),
                     !.demoted = IF first THEN @ + 1 ELSE @]
      after == IF rearm THEN <<"nosuccess", "arm">> ELSE <<"nosuccess">>
  IN IF first /\ z.demoted = 1 THEN Opened(z, after)
     ELSE [z EXCEPT !.sc[v] = [@ EXCEPT !.success = 0, !.ad = x.ad \/ rearm]]

\* Mutant: the error count is cleared without the demotion it caused.
SentKeepingDemotion(y, v, rearm) ==
  [y EXCEPT !.sent = IF Runs(y.sc[v]) THEN Speed(y.h, y.demoted) ELSE BowOut,
            !.sc[v].errors = 0,
            !.sc[v].ad = @ \/ rearm]

Sent(y, v, rearm) ==
  LET x == y.sc[v]
      counted == x.errors >= CARP_SENDAD_MAX_ERRORS
      recovers == counted /\ x.success + 1 >= CARP_SENDAD_MIN_SUCCESS
  IN [y EXCEPT !.sent = IF Runs(x) THEN Speed(y.h, y.demoted) ELSE BowOut,
               !.demoted = IF recovers THEN @ - 1 ELSE @,
               !.sc[v] = [x EXCEPT !.success = IF counted THEN @ + 1 ELSE @,
                                   !.errors = IF counted /\ ~recovers THEN @ ELSE 0,
                                   !.ad = @ \/ rearm]]

SendAd(y, v, outcome) ==
  LET rearm == Runs(y.sc[v]) IN
  CASE outcome = "sent"   -> Sent(y, v, rearm)
    [] outcome = "failed" -> Failed(y, v, rearm)
    [] outcome = "nobuf"  -> IF rearm THEN ArmAd(y, v) ELSE y
    [] outcome = "notag"  -> y

(***************************************************************************)
(* carp_setrun: an interface that may run gets its state, and the timer of *)
(* its state.                                                              *)
(***************************************************************************)
Waiting(y, v) == [y EXCEPT !.sc[v].ad = FALSE, !.sc[v].md = TRUE]

Elect(y, v, outcome) ==
  IF Preempt /\ y.demoted = 0
  THEN LET z == SendAd(y, v, outcome) IN
       IF z.open THEN [z EXCEPT !.rest = @ \o <<"MASTER", "add">>]
       ELSE SetRoute(SetState(z, v, "MASTER"), v, TRUE)
  ELSE Waiting(SetRoute(SetState(y, v, "BACKUP"), v, FALSE), v)

SetRun(y, v, outcome) ==
  IF y.sc[v].up /\ y.sc[v].addr
  THEN LET z == [y EXCEPT !.sc[v].running = TRUE] IN
       CASE z.sc[v].state = "INIT"   -> Elect(z, v, outcome)
         [] z.sc[v].state = "BACKUP" -> Waiting(z, v)
         [] z.sc[v].state = "MASTER" -> ArmAd(z, v)
  ELSE SetRoute([y EXCEPT !.sc[v].running = FALSE], v, FALSE)

(***************************************************************************)
(* The counter's part of carp_sc_state_locked, and the calls of a handler. *)
(***************************************************************************)
Suppress(y, v) ==
  IF y.sc[v].suppress THEN y
  ELSE LET z == [y EXCEPT !.demoted = @ + 1] IN
       IF z.demoted = 1 THEN Opened(z, <<"suppressed">>)
       ELSE [z EXCEPT !.sc[v].suppress = TRUE]

Unsuppress(y, v) ==
  [y EXCEPT !.demoted = IF y.sc[v].suppress THEN @ - 1 ELSE @, !.sc[v].suppress = FALSE]

Call(y, v, c, outcome) ==
  CASE c = "send_ad"    -> SendAd(y, v, outcome)
    [] c = "setrun"     -> SetRun(y, v, outcome)
    [] c = "suppress"   -> Suppress(y, v)
    [] c = "unsuppress" -> Unsuppress(y, v)
    [] c = "suppressed" -> [y EXCEPT !.sc[v].suppress = TRUE]
    [] c = "nosuccess"  -> [y EXCEPT !.sc[v].success = 0]
    [] c = "arm"        -> ArmAd(y, v)
    [] c = "stop_ad"    -> [y EXCEPT !.sc[v].ad = FALSE]
    [] c \in State      -> SetState(y, v, c)
    [] c = "add"        -> SetRoute(y, v, TRUE)
    [] c = "delete"     -> SetRoute(y, v, FALSE)

\* A call, or its place in the rest.
Proceed(y, v, c, outcome) == IF y.open THEN [y EXCEPT !.rest = Append(@, c)] ELSE Call(y, v, c, outcome)
Do(y, v, calls, outcome) ==
  LET at[i \in 0..Len(calls)] ==
        IF i = 0 THEN y
        ELSE CHOOSE z \in {Proceed(x, v, calls[i], outcome) : x \in {at[i - 1]}} : TRUE
  IN  at[Len(calls)]

(***************************************************************************)
(* The end of a handler, or its first walk.  Its advertisement is with the *)
(* hosts that are up on the segment.  An output that fails is trouble, and *)
(* may fail as often again as makes the interface demote the host.         *)
(***************************************************************************)
CarpifList == SetToSeq(Vhid)
Reaches(h, g, v) == g # h /\ link[h][v] /\ link[g][v]
Delivered(y, v) ==
  [g \in Host |-> IF y.sent # NoAd /\ Reaches(y.h, g, v)
                  THEN [y.inbox[g] EXCEPT ![v] = Append(@, y.sent)] ELSE y.inbox[g]]
Walking(y, v) ==
  IF y.open
  THEN Append(y.walks, [v |-> v, rest |-> y.rest, todo |-> CarpifList, by |-> y.by])
  ELSE y.walks

Finish(y, v) ==
  /\ sc' = [sc EXCEPT ![y.h] = y.sc]
  /\ demoted' = [demoted EXCEPT ![y.h] = y.demoted]
  /\ walks' = [walks EXCEPT ![y.h] = Walking(y, v)]
  /\ inbox' = Delivered(y, v)
  /\ left' = y.left

Cost(x, o) == IF o = "sent" \/ (o = "failed" /\ x.errors \in 1..(CARP_SENDAD_MAX_ERRORS - 1)) THEN 0 ELSE 1
Charged(y, cost) == [y EXCEPT !.left = @ - cost]
Outcomes(y, v) == {o \in {"sent"} \cup (Troubles \cap {"failed", "nobuf", "notag"}) :
                     Cost(y.sc[v], o) <= y.left}

Handle(v, start, calls) ==
  \E y \in {start} : \E o \in Outcomes(y, v) : \E z \in {Do(y, v, calls, o)} :
    /\ o # "sent" => z # Do(y, v, calls, "sent")     \* only a sender can fail
    /\ \E end \in {Charged(z, Cost(y.sc[v], o))} : Finish(end, v)

(***************************************************************************)
(* carp_sc_state_locked: the parent went down or came up.                  *)
(***************************************************************************)
Down(y, v) == [y EXCEPT !.sc[v].backup = y.sc[v].up, !.sc[v].up = FALSE, !.sc[v].running = FALSE,
                        !.sc[v].ad = FALSE, !.sc[v].md = FALSE]
\* Mutant: IFF_UP is not given back.
ParentStateForgetting(y, v) == IF link[y.h][v] THEN y ELSE Down(y, v)
ParentState(y, v) == IF link[y.h][v] THEN [y EXCEPT !.sc[v].up = @ \/ y.sc[v].backup] ELSE Down(y, v)
ScState(h, v) == <<"INIT", "setrun", IF link[h][v] THEN "unsuppress" ELSE "suppress">>

(* carp_set_addr: the parent's state, and carp_setrun once more.  The first *)
(* address configures the interface, another one is counted as trouble.     *)
SetAddr(h, v) ==
  /\ sc[h][v].addr => "alias" \in Troubles /\ left > 0
  /\ "addr" \in Overlap \/ (v \notin task[h] /\ \A w \in Range(walks[h]) : w.v # v)
  /\ LET y == [Begin(h) EXCEPT !.sc[v].addr = TRUE, !.sc[v].up = TRUE, !.by = "addr",
                               !.left = IF sc[h][v].addr THEN @ - 1 ELSE @]
     IN Handle(v, ParentState(y, v), Append(ScState(h, v), "setrun"))
  /\ UNCHANGED <<link, task, stuck, touched>>

(* The parent's link is lost, which is trouble, or comes back; the link     *)
(* task, one for all parents, sees it later.                                *)
LinkChanges(h, v) ==
  /\ IF link[h][v] THEN Trouble("link") ELSE UNCHANGED left
  /\ "flap" \in Overlap \/ v \notin task[h]
  /\ link' = [link EXCEPT ![h][v] = ~@]
  /\ task' = [task EXCEPT ![h] = @ \cup {v}]
  /\ UNCHANGED <<sc, demoted, walks, stuck, inbox, touched>>

(* carp_carpdev_state, for a parent that has a carp interface. *)
CarpdevState(h, v) ==
  /\ v \in task[h]
  /\ \A w \in Range(walks[h]) : w.by # "link"
  /\ "addr" \in Overlap \/ \A w \in Range(walks[h]) : w.v = v => w.by # "addr"
  /\ task' = [task EXCEPT ![h] = @ \ {v}]
  /\ IF sc[h][v].addr
     THEN Handle(v, ParentState([Begin(h) EXCEPT !.by = "link"], v), ScState(h, v))
     ELSE UNCHANGED <<sc, demoted, walks, inbox, left>>
  /\ UNCHANGED <<link, stuck, touched>>

(***************************************************************************)
(* carp_send_ad: the timer expires, and its function gets the lock.  The   *)
(* functions of timers follow each other.  A walk is short: a timer that   *)
(* expires meanwhile does so before it and waits.  An interval is long     *)
(* enough for the last advertisements of a host to be read by the others.  *)
(***************************************************************************)
Softclock(h) == /\ walks[h] = <<>>
                /\ \A u \in Vhid : ~sc[h][u].adRuns /\ ~sc[h][u].mdRuns

AdExpires(h, v) ==
  /\ sc[h][v].ad /\ Softclock(h)
  /\ \A u \in Vhid, g \in Host \ {h} : inbox[g][u] = <<>>
  /\ sc' = [sc EXCEPT ![h][v].ad = FALSE, ![h][v].adRuns = TRUE]
  /\ UNCHANGED <<link, task, demoted, walks, stuck, inbox, touched, left>>

SendAdTimer(h, v) ==
  /\ sc[h][v].adRuns
  /\ Handle(v, [Begin(h) EXCEPT !.sc[v].adRuns = FALSE], <<"send_ad">>)
  /\ UNCHANGED <<link, task, stuck, touched>>

(***************************************************************************)
(* carp_master_down.  Its timer is three advertisements long and does not  *)
(* expire while a MASTER advertises on the segment, unless these are lost. *)
(***************************************************************************)
Heard(h, v) == \E g \in Host :
  Reaches(g, h, v) /\ Runs(sc[g][v]) /\ sc[g][v].state = "MASTER" /\ (sc[g][v].ad \/ sc[g][v].adRuns)

MdExpires(h, v) ==
  /\ sc[h][v].md /\ Softclock(h)
  /\ \A u \in Vhid, g \in Host : inbox[g][u] = <<>>
  /\ IF Heard(h, v) THEN Trouble("loss") ELSE UNCHANGED left
  /\ sc' = [sc EXCEPT ![h][v].md = FALSE, ![h][v].mdRuns = TRUE]
  /\ UNCHANGED <<link, task, demoted, walks, stuck, inbox, touched>>

MasterDown(state) == IF state = "BACKUP" THEN <<"MASTER", "send_ad", "setrun", "add">> ELSE <<>>

MasterDownTimer(h, v) ==
  /\ sc[h][v].mdRuns
  /\ Handle(v, [Begin(h) EXCEPT !.sc[v].mdRuns = FALSE], MasterDown(sc[h][v].state))
  /\ UNCHANGED <<link, task, stuck, touched>>

(***************************************************************************)
(* carp_input_c: a MASTER gives way to one who is not slower, a BACKUP     *)
(* takes over from one who is, or who bows out.                            *)
(***************************************************************************)
\* Mutant: only a MASTER that bows out is replaced.
TakesOverFromLeaver(own, ad) == ad = BowOut
TakesOver(own, ad) == (Preempt /\ own < ad) \/ ad = BowOut

\* Mutant: the route is looked at while the state still is MASTER.
InputCallsSwapped(x, own, ad) ==
  IF Runs(x) /\ x.state = "MASTER" /\ ad <= own THEN <<"stop_ad", "delete", "BACKUP", "setrun">>
  ELSE IF Runs(x) /\ x.state = "BACKUP"
  THEN IF TakesOver(own, ad) THEN MasterDown("BACKUP") ELSE <<"setrun">>
  ELSE <<>>

InputCalls(x, own, ad) ==
  IF Runs(x) /\ x.state = "MASTER" /\ ad <= own THEN <<"stop_ad", "BACKUP", "setrun", "delete">>
  ELSE IF Runs(x) /\ x.state = "BACKUP"
  THEN IF TakesOver(own, ad) THEN MasterDown("BACKUP") ELSE <<"setrun">>
  ELSE <<>>

Input(h, v) ==
  /\ inbox[h][v] # <<>>
  /\ Handle(v, [Begin(h) EXCEPT !.inbox[h][v] = Tail(@)],
            InputCalls(sc[h][v], Speed(h, demoted[h]), Head(inbox[h][v])))
  /\ UNCHANGED <<link, task, stuck, touched>>

Lose(h, v) ==
  /\ inbox[h][v] # <<>>
  /\ Trouble("loss")
  /\ inbox' = [inbox EXCEPT ![h][v] = Tail(@)]
  /\ UNCHANGED <<link, task, sc, demoted, walks, stuck, touched>>

(***************************************************************************)
(* carp_send_ad_all, one interface of its list at a time, and the rest of  *)
(* the handler that called it.  A call of it from within the walk asks for *)
(* carp_mtx again.                                                         *)
(***************************************************************************)
WalkOn(h) ==
  /\ walks[h] # <<>> /\ ~stuck[h]
  /\ Head(walks[h]).todo # <<>>
  /\ LET w == Head(walks[h])
         u == Head(w.todo)
         base == [Begin(h) EXCEPT !.walks[1].todo = Tail(@)]
         calls == IF Runs(sc[h][u]) /\ sc[h][u].state = "MASTER" THEN <<"send_ad">> ELSE <<>>
     IN \E y \in {base} : \E o \in Outcomes(y, u) : \E z \in {Do(y, u, calls, o)} :
          /\ o # "sent" => z # Do(y, u, calls, "sent")
          /\ stuck' = [stuck EXCEPT ![h] = z.open]
          /\ Finish([Charged(z, Cost(y.sc[u], o)) EXCEPT !.open = FALSE], u)
  /\ UNCHANGED <<link, task, touched>>

WalkEnds(h) ==
  /\ walks[h] # <<>> /\ ~stuck[h]
  /\ Head(walks[h]).todo = <<>>
  /\ LET w == Head(walks[h]) IN
       Handle(w.v, [Begin(h) EXCEPT !.walks = Tail(@), !.by = w.by], w.rest)
  /\ UNCHANGED <<link, task, stuck, touched>>

(***************************************************************************)
(* carp_ioctl: ifconfig up and down (the generic code has set IFF_UP), a   *)
(* state given by hand, and carp_clone_destroy, here only while no other   *)
(* thread is about to use the softc that it frees.                         *)
(***************************************************************************)
SetFlags(h, v) ==
  /\ sc[h][v].addr
  /\ "admin" \in Troubles /\ left > 0
  /\ LET x == sc[h][v]
         y == [Begin(h) EXCEPT !.left = @ - 1, !.sc[v].up = ~@]
         stopped == [y EXCEPT !.sc[v].ad = FALSE, !.sc[v].md = FALSE]
     IN IF x.up
        THEN CASE x.state = "INIT"   -> Handle(v, y, <<>>)
               [] x.state = "BACKUP" -> Handle(v, stopped, <<"INIT", "setrun">>)
               [] x.state = "MASTER" -> Handle(v, stopped, <<"send_ad", "INIT", "setrun">>)
        ELSE Handle(v, y, IF x.state = "INIT" THEN <<"setrun">> ELSE <<>>)
  /\ touched' = touched \cup {<<h, v>>}
  /\ UNCHANGED <<link, task, stuck>>

SetVh(h, v) ==
  /\ "admin" \in Troubles /\ left > 0
  /\ LET y == [Begin(h) EXCEPT !.left = @ - 1] IN
       \/ sc[h][v].state = "MASTER" /\ Handle(v, y, <<"stop_ad", "BACKUP", "setrun", "delete", "setrun">>)
       \/ sc[h][v].state = "BACKUP" /\ Handle(v, y, Append(MasterDown("BACKUP"), "setrun"))
  /\ UNCHANGED <<link, task, stuck, touched>>

Destroy(h, v) ==
  /\ sc[h][v].addr /\ ~sc[h][v].adRuns /\ ~sc[h][v].mdRuns
  /\ \A w \in Range(walks[h]) : w.v # v
  /\ "destroy" \in Troubles /\ left > 0
  /\ Finish([Unsuppress(Begin(h), v) EXCEPT !.left = @ - 1, !.sc[v] = Fresh], v)
  /\ UNCHANGED <<link, task, stuck, touched>>

Ad(h, v) == AdExpires(h, v) \/ SendAdTimer(h, v)
Md(h, v) == MdExpires(h, v) \/ MasterDownTimer(h, v)
Ifconfig(h, v) == SetAddr(h, v) \/ SetFlags(h, v) \/ SetVh(h, v) \/ Destroy(h, v)
Walk(h) == WalkOn(h) \/ WalkEnds(h)

Next == \E h \in Host :
  \/ Walk(h)
  \/ \E v \in Vhid : \/ Ad(h, v) \/ Md(h, v) \/ Input(h, v) \/ CarpdevState(h, v)
                     \/ Ifconfig(h, v) \/ LinkChanges(h, v) \/ Lose(h, v)

(* Timers expire, and threads get the locks they wait for.  Every interface *)
(* is configured.                                                           *)
Fairness == \A h \in Host :
  /\ WF_vars(Walk(h))
  /\ WF_vars(\E v \in Vhid : CarpdevState(h, v) \/ (SetAddr(h, v) /\ ~sc[h][v].addr))
  /\ \A v \in Vhid : SF_vars(Ad(h, v)) /\ SF_vars(Md(h, v)) /\ WF_vars(Input(h, v))

Spec == Init /\ [][Next]_vars /\ Fairness

(***************************************************************************)
(* carp_suppress_preempt is the number of interfaces that have a reason to *)
(* demote the host, whatever happens while their handlers gave up the lock *)
(* between the count and the flag: a host is not demoted for ever.         *)
(***************************************************************************)
InWalk(h, v) == \E w \in Range(walks[h]) : w.v = v
DemotionIsCounted == \A h \in Host : walks[h] = <<>> =>
  demoted[h] = Cardinality({v \in Vhid : sc[h][v].suppress})
               + Cardinality({v \in Vhid : sc[h][v].errors >= CARP_SENDAD_MAX_ERRORS})

(***************************************************************************)
(* An interface whose parent is up takes part: it is MASTER or BACKUP, and *)
(* the timer of its state runs, though callout_stop comes too late, a link *)
(* comes back while its loss is still announced, or an output fails.       *)
(***************************************************************************)
UpTakesPart == \A h \in Host, v \in Vhid :
  LET x == sc[h][v] IN
  x.addr /\ link[h][v] /\ v \notin task[h] /\ ~InWalk(h, v) /\ <<h, v>> \notin touched =>
    /\ Runs(x)
    /\ x.state = "MASTER" => x.ad \/ x.adRuns
    /\ x.state = "BACKUP" => x.md \/ x.mdRuns
    /\ x.state # "INIT"

(* Outside a walk, an address is routed to this host while it is MASTER.    *)
RouteIffMaster == \A h \in Host, v \in Vhid :
  ~InWalk(h, v) => (sc[h][v].route <=> sc[h][v].state = "MASTER")

(* A walk is never asked for by an interface it visits, under carp_mtx.     *)
NoWalkInWalk == \A h \in Host : ~stuck[h]

(***************************************************************************)
(* Once links and outputs are quiet, every id has exactly one MASTER among *)
(* the hosts that reach its segment, and with preemption that is the least *)
(* demoted and fastest one: a host that lost one parent loses all ids.     *)
(***************************************************************************)
Candidates(v) == {h \in Host : link[h][v] /\ sc[h][v].up}
Masters(v) == {h \in Candidates(v) : sc[h][v].state = "MASTER"}
Fastest(v) == {h \in Candidates(v) : \A g \in Candidates(v) \ {h} : Speed(h, demoted[h]) < Speed(g, demoted[g])}
Settles == <>[](\A v \in Vhid :
  IF Preempt THEN Fastest(v) \subseteq Masters(v) /\ (Fastest(v) # {} => Masters(v) = Fastest(v))
  ELSE Candidates(v) # {} => Cardinality(Masters(v)) = 1)

=============================================================================
