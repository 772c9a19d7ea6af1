---- MODULE MCSharding ----
(***************************************************************************)
(* Constants for checking Sharding: a ring of 2^MaxLevel sectors and       *)
(* agents that all live in sector 0, so that they race for the same half.  *)
(***************************************************************************)
EXTENDS Sharding

MCBlockSize == [l \in 0..MaxLevel |-> 2^l]
MCHome == [a \in Agents |-> 0]
====
