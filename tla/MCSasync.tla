------------------------------ MODULE MCSasync ------------------------------
(***************************************************************************)
(* Two gateways.  The constants' values are in the configurations.         *)
(***************************************************************************)
EXTENDS Sasync, TLC

Gateways == Permutations(Node)

(* For the temporal properties, where TLC's symmetry is unsound: the same  *)
(* gateway is the carp MASTER at the start.                                *)
LiveInit ==
  /\ Init
  /\ carp = [n \in Node |-> IF n = CHOOSE m \in Node : TRUE THEN "MASTER" ELSE "SLAVE"]
LiveSpec == LiveInit /\ [][Next]_vars /\ Fairness
=============================================================================
