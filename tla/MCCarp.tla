------------------------------- MODULE MCCarp -------------------------------
(***************************************************************************)
(* Two hosts with two ids each; the first is the faster one, as pfSense    *)
(* configures a backup with a higher skew.                                 *)
(***************************************************************************)
EXTENDS Carp, TLC

CONSTANTS a, b

Skews == (a :> 0) @@ (b :> 100)
=============================================================================
