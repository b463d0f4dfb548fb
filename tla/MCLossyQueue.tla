---------------------------- MODULE MCLossyQueue ----------------------------
(* Two handles and both policies; weights that fit once, twice and never.  *)
EXTENDS LossyQueue, TLC

MCSizes == {1, 2, 4}
MCPolicies == {"DropNewest", "DropOldest"}
=============================================================================
