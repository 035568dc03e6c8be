---------------------------- MODULE MCClassifyd ----------------------------
(* Classifyd on the instance of Classifyd.cfg: flows are interchangeable.  *)
EXTENDS Classifyd, TLC

Flows == Permutations(Flow)
=============================================================================
