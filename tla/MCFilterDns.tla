----------------------------- MODULE MCFilterDns -----------------------------
(* Instances of FilterDns: configurations over two hosts and two tables. *)
EXTENDS FilterDns

Hosts == {"alice", "bob"}
Tables == {"work", "home"}

AliceWork == <<"alice", "work">>
BobWork == <<"bob", "work">>
BobHome == <<"bob", "home">>

JustAlice == {AliceWork}
SharedWork == {AliceWork, BobWork}
Apart == {AliceWork, BobHome}

NeverChanged == {}
BobMoves == {SharedWork}
AnyChange == {JustAlice, SharedWork, Apart}

=============================================================================
