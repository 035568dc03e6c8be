---------------------------- MODULE MCCommandTree ----------------------------
(* Lines of one to five tokens over words of every kind of table entry. *)
EXTENDS CommandTree

Tokens == {"", "filter", "interface", "service", "reload", "sync", "linkup",
           "start", "newip", "dns"}

ShortLines == UNION {[1..n -> Tokens] : n \in 1..5}

=============================================================================
