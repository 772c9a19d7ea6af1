---- MODULE Publish ----
(***************************************************************************)
(* The publish module (crates/core/src/factories/core_publish.rs and       *)
(* core_publish/message_handler.rs): ops and agent infos pass from the     *)
(* callers through a bounded queue to an outgoing task, over the wire to   *)
(* the peer's message handler, through a second bounded queue to its       *)
(* incoming task, and from there to its fetch module or its peer store.    *)
(*                                                                         *)
(* A caller waits for room in its queue; the handler cannot wait, and      *)
(* refuses what does not fit.  The two kinds of publish have queues and    *)
(* tasks of their own and share the connection.                            *)
(***************************************************************************)
EXTENDS Naturals, Sequences, FiniteSets

CONSTANTS
    Targets,      \* the urls that are published to
    Entries,      \* the ops of a publish
    MetaBytes,    \* [Entries -> Nat]: the size of the metadata of each
    OwnCap,       \* max_metadata_bytes of the publisher
    PeerCap,      \* max_metadata_bytes of the peers
    OutgoingCap,  \* capacity of an outgoing queue
    IncomingCap,  \* capacity of an incoming queue
    MaxPublishes, \* bound: how often anything is published
    MaxCuts       \* bound: how often a connection is lost or a mark changes

Kinds == {"ops", "agent"}

(* A publish; an agent info has no entries.  Its number is its caller. *)
Batch == [kind : Kinds, id : 1..MaxPublishes, to : Targets,
          entries : SUBSET Entries]
Idle  == [kind |-> "idle"]

VARIABLES
    calling,   \* the calls of each kind that wait for room, first come first
    outgoing,  \* outgoing_publish_ops, outgoing_publish_agent
    sending,   \* what each outgoing task is sending
    wire,      \* what is on its way to each peer
    incoming,  \* the incoming queues of each peer
    marked,    \* urls marked unresponsive in the peer meta store
    transport, \* whether the transport still exists
    stopped,   \* outgoing tasks that have returned; their queue is closed
    published, \* history: every publish
    handled,   \* history: what the peers' fetch and peer store were given
    lost,      \* history: publishes whose loss was logged
    cuts       \* how many disturbances there have been

publishVars == <<calling, outgoing, sending, wire, incoming, marked, transport,
                 stopped, published, handled, lost, cuts>>

Ids(batches) == {b.id : b \in batches}
InQueue(q)   == {q[i] : i \in DOMAIN q}

----------------------------------------------------------------------------
(* The callers.                                                            *)

Publishing(b) ==
    /\ Cardinality(published) < MaxPublishes
    /\ published' = published \cup {b}
    /\ calling' = [calling EXCEPT ![b.kind] = Append(@, b)]
    /\ UNCHANGED <<outgoing, sending, wire, incoming, marked, transport,
                   stopped, handled, lost, cuts>>

(* publish_ops: refused as a whole if any metadata is too large. *)
PublishOps(p, ops) ==
    /\ ops # {}
    /\ \A e \in ops : MetaBytes[e] <= OwnCap
    /\ Publishing([kind |-> "ops", id |-> Cardinality(published) + 1, to |-> p,
                   entries |-> ops])

PublishAgent(p) ==
    Publishing([kind |-> "agent", id |-> Cardinality(published) + 1, to |-> p,
                entries |-> {}])

(* The channel has room for the call that has waited longest; a closed     *)
(* one fails every call, which is logged and forgotten.                    *)
Queue(k) ==
    /\ calling[k] # <<>>
    /\ k \in stopped \/ Len(outgoing[k]) < OutgoingCap
    /\ calling' = [calling EXCEPT ![k] = Tail(@)]
    /\ IF k \in stopped
       THEN lost' = lost \cup {Head(calling[k]).id} /\ UNCHANGED outgoing
       ELSE /\ outgoing' = [outgoing EXCEPT ![k] = Append(@, Head(calling[k]))]
            /\ UNCHANGED lost
    /\ UNCHANGED <<sending, wire, incoming, marked, transport, stopped,
                   published, handled, cuts>>

----------------------------------------------------------------------------
(* The outgoing tasks.                                                     *)

(* With the transport gone the task returns and what it had not taken is   *)
(* dropped with the queue.                                                 *)
StopTask(k) ==
    /\ ~transport
    /\ k \notin stopped
    /\ sending[k] = Idle
    /\ outgoing[k] # <<>>
    /\ stopped' = stopped \cup {k}
    /\ lost' = lost \cup Ids(InQueue(outgoing[k]))
    /\ outgoing' = [outgoing EXCEPT ![k] = <<>>]
    /\ UNCHANGED <<calling, sending, wire, incoming, marked, transport,
                   published, handled, cuts>>

(* Mutant of TakeNext: ops for an unresponsive peer are kept for later. *)
TakeNextPatient(k) ==
    /\ transport
    /\ sending[k] = Idle
    /\ outgoing[k] # <<>>
    /\ k = "ops" => Head(outgoing[k]).to \notin marked
    /\ outgoing' = [outgoing EXCEPT ![k] = Tail(@)]
    /\ sending' = [sending EXCEPT ![k] = Head(outgoing[k])]
    /\ UNCHANGED <<calling, wire, incoming, marked, transport, stopped,
                   published, handled, lost, cuts>>

(* The task takes the next publish; ops for a peer marked unresponsive are *)
(* passed over, agent infos are not.                                       *)
TakeNext(k) ==
    LET b       == Head(outgoing[k])
        skipped == k = "ops" /\ b.to \in marked
    IN  /\ transport
        /\ sending[k] = Idle
        /\ outgoing[k] # <<>>
        /\ outgoing' = [outgoing EXCEPT ![k] = Tail(@)]
        /\ IF skipped
           THEN lost' = lost \cup {b.id} /\ UNCHANGED sending
           ELSE sending' = [sending EXCEPT ![k] = b] /\ UNCHANGED lost
        /\ UNCHANGED <<calling, wire, incoming, marked, transport, stopped,
                       published, handled, cuts>>

(* send_module succeeds, or fails and is logged. *)
SendModule(k) ==
    /\ sending[k] # Idle
    /\ sending' = [sending EXCEPT ![k] = Idle]
    /\ \/ /\ wire' = [wire EXCEPT ![sending[k].to] = Append(@, sending[k])]
          /\ UNCHANGED <<lost, cuts>>
       \/ /\ cuts < MaxCuts
          /\ cuts' = cuts + 1
          /\ lost' = lost \cup {sending[k].id}
          /\ UNCHANGED wire
    /\ UNCHANGED <<calling, outgoing, incoming, marked, transport, stopped,
                   published, handled>>

----------------------------------------------------------------------------
(* The peer.                                                               *)

(* Entries whose metadata is over the peer's own cap are dropped. *)
Fitting(b) == [b EXCEPT !.entries = {e \in @ : MetaBytes[e] <= PeerCap}]

(* recv_module_msg runs inside the transport and cannot wait: with the     *)
(* queue full it returns an error and the message is gone.                 *)
RecvModuleMsg(p) ==
    LET b == Head(wire[p])
    IN  /\ wire[p] # <<>>
        /\ wire' = [wire EXCEPT ![p] = Tail(@)]
        /\ IF Len(incoming[p][b.kind]) < IncomingCap
           THEN /\ incoming' = [incoming EXCEPT ![p][b.kind] =
                                   Append(@, Fitting(b))]
                /\ UNCHANGED lost
           ELSE lost' = lost \cup {b.id} /\ UNCHANGED incoming
        /\ UNCHANGED <<calling, outgoing, sending, marked, transport, stopped,
                       published, handled, cuts>>

(* The incoming task asks fetch for the ops (request_ops) or puts the info *)
(* in the peer store (insert).                                             *)
Process(p, k) ==
    /\ incoming[p][k] # <<>>
    /\ incoming' = [incoming EXCEPT ![p][k] = Tail(@)]
    /\ handled' = handled \cup {Head(incoming[p][k])}
    /\ UNCHANGED <<calling, outgoing, sending, wire, marked, transport,
                   stopped, published, lost, cuts>>

----------------------------------------------------------------------------
(* What happens around it.                                                 *)

Disturbs ==
    /\ cuts < MaxCuts
    /\ cuts' = cuts + 1
    /\ UNCHANGED <<calling, outgoing, sending, incoming, stopped, published,
                   handled>>

(* A connection ends with what was on it. *)
Cut(p) ==
    /\ Disturbs
    /\ wire[p] # <<>>
    /\ lost' = lost \cup Ids(InQueue(wire[p]))
    /\ wire' = [wire EXCEPT ![p] = <<>>]
    /\ UNCHANGED <<marked, transport>>

(* A peer is marked unresponsive, or found to be there again. *)
Mark(p) ==
    /\ Disturbs
    /\ marked' = IF p \in marked THEN marked \ {p} ELSE marked \cup {p}
    /\ UNCHANGED <<wire, transport, lost>>

(* The node shuts down and drops the transport. *)
DropTransport ==
    /\ Disturbs
    /\ transport
    /\ transport' = FALSE
    /\ UNCHANGED <<wire, marked, lost>>

PublishInit ==
    /\ calling = [k \in Kinds |-> <<>>]
    /\ outgoing = [k \in Kinds |-> <<>>]
    /\ sending = [k \in Kinds |-> Idle]
    /\ wire = [p \in Targets |-> <<>>]
    /\ incoming = [p \in Targets |-> [k \in Kinds |-> <<>>]]
    /\ marked = {}
    /\ transport = TRUE
    /\ stopped = {}
    /\ published = {}
    /\ handled = {}
    /\ lost = {}
    /\ cuts = 0

PublishNext ==
    \/ \E p \in Targets, ops \in SUBSET Entries : PublishOps(p, ops)
    \/ \E p \in Targets : PublishAgent(p)
    \/ \E k \in Kinds : Queue(k)
    \/ \E k \in Kinds : StopTask(k)
    \/ \E k \in Kinds : TakeNext(k)
    \/ \E k \in Kinds : SendModule(k)
    \/ \E p \in Targets : RecvModuleMsg(p)
    \/ \E p \in Targets, k \in Kinds : Process(p, k)
    \/ \E p \in Targets : Cut(p)
    \/ \E p \in Targets : Mark(p)
    \/ DropTransport

(* The tasks run, sends end, and the transport reads what it receives. *)
PublishFairness ==
    /\ \A k \in Kinds : /\ WF_publishVars(Queue(k))
                        /\ WF_publishVars(StopTask(k) \/ TakeNext(k))
                        /\ WF_publishVars(SendModule(k))
    /\ \A p \in Targets : /\ WF_publishVars(RecvModuleMsg(p))
                          /\ \A k \in Kinds : WF_publishVars(Process(p, k))

----------------------------------------------------------------------------
(* Properties.                                                             *)

(* Publishes that have neither reached the peer's fetch or peer store,     *)
(* less exactly what does not fit its cap, nor been lost.                  *)
UnderWayStill == {b \in published : b.id \notin lost /\ Fitting(b) \notin handled}

(* Every call returns and nothing published is held back or thinned out by *)
(* what else is queued: the peer's fetch or peer store is given exactly    *)
(* the part that fits its metadata cap, unless the publish met a failed    *)
(* send, a lost connection, an unresponsive mark, a full incoming queue or *)
(* the end of the transport (publish_ops, outgoing_publish_ops_task,       *)
(* recv_module_msg, incoming_publish_ops_task).                            *)
PublishedArrives == []<>(UnderWayStill = {})
====
