---- MODULE MCConnections ----
(***************************************************************************)
(* Everything that holds connections: the iroh transport, the transport    *)
(* inside one process, and the sockets of the bootstrap server.  They      *)
(* share no state, so a behaviour is explored on one side at a time.       *)
(***************************************************************************)
EXTENDS IrohTransport, MemTransport, HttpServer

VARIABLE side

\* Two nodes that send to each other.
MCHome   == [s \in Senders |-> IF s % 2 = 1 THEN 1 ELSE 2]
MCTarget == [s \in Senders |-> IF s % 2 = 1 THEN 2 ELSE 1]

Init ==
    /\ side \in {"iroh", "memory", "http"}
    /\ IrohInit /\ MemInit /\ HttpInit
    /\ side # "memory" => joined = MemNodes

Next ==
    /\ UNCHANGED side
    /\ \/ side = "iroh" /\ IrohNext /\ UNCHANGED <<memVars, httpVars>>
       \/ side = "memory" /\ MemNext /\ UNCHANGED <<irohVars, httpVars>>
       \/ side = "http" /\ HttpNext /\ UNCHANGED <<irohVars, memVars>>

Spec == Init /\ [][Next]_<<side, irohVars, memVars, httpVars>>
====
