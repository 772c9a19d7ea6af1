---- MODULE MCExchange ----
(***************************************************************************)
(* What moves between a node and its peers outside the rounds of gossip:   *)
(* the ops it fetches, the ops and agent infos it publishes, and what it   *)
(* remembers of contact with them.  What publish hands over is a call of   *)
(* request_ops, which Fetch takes from anywhere; they share no state, so a *)
(* behaviour is explored on one side at a time.                            *)
(***************************************************************************)
EXTENDS Fetch, Publish, PeerMeta

VARIABLE side

\* One op with metadata that the publisher allows and the peers do not.
MCMetaBytes == [e \in Entries |-> e]

MCInit ==
    /\ side \in {"fetch", "publish", "contact"}
    /\ Init /\ PublishInit /\ PeerMetaInit

MCNext ==
    /\ UNCHANGED side
    /\ \/ side = "fetch" /\ Next /\ UNCHANGED <<publishVars, peerMetaVars>>
       \/ side = "publish" /\ PublishNext /\ UNCHANGED <<vars, peerMetaVars>>
       \/ side = "contact" /\ PeerMetaNext /\ UNCHANGED <<vars, publishVars>>

MCSpec ==
    /\ MCInit /\ [][MCNext]_<<side, vars, publishVars, peerMetaVars>>
    /\ Fairness /\ PublishFairness
====
