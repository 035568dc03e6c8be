---------------------------- MODULE ReloadService ----------------------------
(***************************************************************************)
(* What check_reload_status promises its clients, whatever its queue does: *)
(* a run follows every accepted event, several events may share one run,   *)
(* and nothing runs that was not asked for.                                *)
(***************************************************************************)
EXTENDS Naturals

CONSTANT Event

VARIABLES
  owed,     \* events accepted since their last run began
  queued    \* event -> runs the daemon has scheduled for it

svars == <<owed, queued>>

ServiceInit ==
  /\ owed = {}
  /\ queued = [e \in Event |-> 0]

\* The event is accepted: a run is scheduled for it, or one already is.
Ask(e) ==
  /\ owed' = owed \cup {e}
  /\ \/ queued[e] > 0 /\ UNCHANGED queued
     \/ queued' = [queued EXCEPT ![e] = @ + 1]

\* A scheduled run begins and settles the event.
Begin(e) ==
  /\ queued[e] > 0
  /\ queued' = [queued EXCEPT ![e] = @ - 1]
  /\ owed' = owed \ {e}

ServiceNext == \E e \in Event : Ask(e) \/ Begin(e)

ServiceSafety == ServiceInit /\ [][ServiceNext]_svars

ServiceSpec ==
  /\ ServiceSafety
  /\ \A e \in Event : WF_svars(Begin(e))

=============================================================================
