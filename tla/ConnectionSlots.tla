---- MODULE ConnectionSlots ----
(***************************************************************************)
(* What the connection registry promises of the connections between peers  *)
(* (crates/transport_iroh/src/connection_registry.rs): a connection's life *)
(* only moves forward and ends for good, the entry kept for a peer is the  *)
(* only one that can become usable, and an entry that is displaced knows   *)
(* it in the same instant.                                                 *)
(***************************************************************************)
EXTENDS Naturals

CONSTANTS
    Nodes,   \* endpoints
    Conns    \* connections, numbers from 1; 0 stands for no connection

VARIABLES
    life,    \* ConnectionState of a connection at each of its ends
    slot     \* the registry: the entry each node keeps for each peer

Live     == {"Pending", "Active"}
Terminal == {"Superseded", "Closed"}

SlotsInit ==
    /\ life = [c \in Conns |-> [n \in Nodes |-> "none"]]
    /\ slot = [n \in Nodes |-> [m \in Nodes |-> 0]]

(* A connection is made between two nodes. *)
Open(c, n, m) ==
    /\ life[c][n] = "none"
    /\ life[c][m] = "none"
    /\ life' = [life EXCEPT ![c][n] = "Pending", ![c][m] = "Pending"]
    /\ UNCHANGED slot

(* A live connection takes the slot; a live holder is superseded by it. *)
Claim(c, n, m) ==
    /\ life[c][n] \in Live
    /\ slot' = [slot EXCEPT ![n][m] = c]
    /\ life' = [d \in Conns |->
                  IF d = slot[n][m] /\ d # c /\ life[d][n] \in Live
                  THEN [life[d] EXCEPT ![n] = "Superseded"] ELSE life[d]]

(* The holder of a slot becomes usable. *)
Activate(c, n, m) ==
    /\ life[c][n] = "Pending"
    /\ slot[n][m] = c
    /\ life' = [life EXCEPT ![c][n] = "Active"]
    /\ UNCHANGED slot

(* A connection ends; its entry may go with it. *)
End(c, n, m) ==
    /\ life[c][n] \in Live
    /\ \E t \in Terminal : life' = [life EXCEPT ![c][n] = t]
    /\ \/ UNCHANGED slot
       \/ slot[n][m] = c /\ slot' = [slot EXCEPT ![n][m] = 0]

(* An entry is removed. *)
Release(n, m) == slot' = [slot EXCEPT ![n][m] = 0] /\ UNCHANGED life

SlotsNext ==
    \E c \in Conns, n, m \in Nodes :
        \/ Open(c, n, m)
        \/ Claim(c, n, m)
        \/ Activate(c, n, m)
        \/ End(c, n, m)
        \/ Release(n, m)

SlotsSpec == SlotsInit /\ [][SlotsNext]_<<life, slot>>
====
