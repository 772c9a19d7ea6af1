---- MODULE MCRounds ----
(***************************************************************************)
(* The two protocols gossip peers speak with each other: the rounds, and   *)
(* the announcements of shrinking arcs.  The sharding controllers see of a *)
(* round no more than that it ended, so a behaviour is explored on one     *)
(* side or on the other.                                                   *)
(***************************************************************************)
EXTENDS MCGossip, MCSharding

VARIABLE side

(* The side that rests has one initial state. *)
RoundsInit ==
    /\ side \in {"rounds", "sharding"} /\ Init /\ ShardingInit
    /\ side # "sharding" => \A g \in Agents : ctl[g].shrink_acc = 0
    /\ side # "rounds" => \A n, p \in Nodes : Held(n) = Ops /\ bookmark[n][p] = 1

RoundsNext ==
    /\ UNCHANGED side
    /\ \/ side = "rounds" /\ Next /\ UNCHANGED shardingVars
       \/ side = "sharding" /\ ShardingNext /\ UNCHANGED vars

RoundsSpec == RoundsInit /\ [][RoundsNext]_<<side, vars, shardingVars>>
====
