---------------------------- MODULE MCGroupOrder ----------------------------
(* GroupOrder with the users TLC runs: its state space is finite by the     *)
(* bounds on ids and on requests in flight.                                 *)
EXTENDS GroupOrder

MoversAndDeleters == {{"move"}, {"delete"}}
Movers == {{"move"}}
=============================================================================
