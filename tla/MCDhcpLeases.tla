---------------------------- MODULE MCDhcpLeases ----------------------------
(***************************************************************************)
(* The constants' values are in the configuration.                         *)
(***************************************************************************)
EXTENDS DhcpLeases, TLC
=============================================================================
