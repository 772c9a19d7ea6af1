---- MODULE MCAnnounce ----
(***************************************************************************)
(* Two services a node depends on and that may fail it: the relay that     *)
(* carries its connections, and the bootstrap server that makes its agents *)
(* known.  They share no state, so a behaviour is explored on one side or  *)
(* on the other, under the fairness of that side.                          *)
(***************************************************************************)
EXTENDS RelayAuth, Announce

VARIABLE side

Init == side \in {"relay", "announce"} /\ RelayInit /\ AnnounceInit

Next ==
    /\ UNCHANGED side
    /\ \/ side = "relay" /\ RelayNext /\ UNCHANGED announceVars
       \/ side = "announce" /\ AnnounceNext /\ UNCHANGED relayVars

Spec ==
    /\ Init /\ [][Next]_<<side, relayVars, announceVars>>
    /\ \/ side = "relay" /\ RelayFairness
       \/ side = "announce" /\ AnnounceFairness
====
