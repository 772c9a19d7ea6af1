---- MODULE MCNode ----
(***************************************************************************)
(* The lifecycle of a space and the initiate task inside it. The task      *)
(* touches none of the tables the lifecycle is about, so a behaviour of    *)
(* the node is explored on one side or on the other.                       *)
(***************************************************************************)
EXTENDS Spaces, Initiation, TLC

VARIABLE side

(* Nothing tells the tasks of the host apart. *)
Alike == Permutations(Callers)

(* The side that rests has one initial state. *)
Init ==
    /\ side \in {"space", "gossip"} /\ SpacesInit /\ GossipInit
    /\ side # "gossip" => ~synced /\ down = {}

Next ==
    /\ UNCHANGED side
    /\ \/ side = "space" /\ SpacesNext /\ UNCHANGED gossipVars
       \/ side = "gossip" /\ GossipNext /\ UNCHANGED spacesVars

Spec == Init /\ [][Next]_<<side, spacesVars, gossipVars>>
====
