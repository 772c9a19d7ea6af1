---- MODULE MCGossip ----
(***************************************************************************)
(* Two sectors and three slices: one op in the disc, one in the rings in   *)
(* the same sector, and one too recent for a snapshot until the boundary   *)
(* moves.                                                                  *)
(***************************************************************************)
EXTENDS GossipRound, TLC

MCSector == [o \in Ops |-> o % 2]
MCSlice  == [o \in Ops |-> CASE o = 1 -> 0 [] o = 2 -> 1 [] o = 3 -> 1 [] OTHER -> 2]

(* Nothing tells the nodes apart. *)
NodeSymmetry == Permutations(Nodes)

(* For liveness, one node holds every op at the start; by symmetry it does *)
(* not matter which.                                                       *)
Holder == CHOOSE n \in Nodes : TRUE
OneHolderInit ==
    /\ Init
    /\ Held(Holder) = Ops
    /\ \A n \in Nodes \ {Holder} : Held(n) = {}
OneHolderSpec == OneHolderInit /\ [][Next]_vars /\ Fairness
====
