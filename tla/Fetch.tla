---- MODULE Fetch ----
(***************************************************************************)
(* The fetch module of one node (crates/core/src/factories/core_fetch.rs,  *)
(* core_fetch/message_handler.rs).                                         *)
(*                                                                         *)
(* request_ops records what to fetch in the request set and puts it in a   *)
(* bounded queue; worker tasks take requests from the queue and send them; *)
(* one task stores what comes back.  Each of them runs between the awaits  *)
(* of the others.  Nothing is ever sent twice on its own account: a        *)
(* request whose answer is lost stays in the set until request_ops is      *)
(* called for it again.  The metadata kept with a request is left out.     *)
(***************************************************************************)
EXTENDS Integers, Sequences, FiniteSets

CONSTANTS
    Ops,        \* op ids
    Peers,      \* urls of the peers ops are fetched from
    Callers,    \* concurrent calls of request_ops
    Workers,    \* outgoing_request_task, parallel_request_count of them
    Listeners,  \* senders passed to notify_on_drained
    QueueSize,  \* capacity of the outgoing queue
    MaxCalls,   \* bound: how often request_ops is called
    Lossy,      \* whether messages get lost and storing can fail
    None        \* no call, no work

Requests == Ops \X Peers
Calls    == [source : Peers, new : (SUBSET Ops) \ {{}}, added : BOOLEAN]
Work     == [request : Requests, checked : BOOLEAN]

ASSUME QueueAssumption == QueueSize \in Nat \ {0} /\ MaxCalls \in Nat
ASSUME LossyAssumption == Lossy \in BOOLEAN
ASSUME NoneAssumption == None \notin Requests \cup Calls \cup Work

VARIABLES
    store,        \* ops in the op store
    requests,     \* State::requests, <<op, peer>>
    queue,        \* the outgoing request channel
    calls,        \* calls of request_ops that have not returned
    working,      \* what each worker is doing
    unresponsive, \* peers marked unresponsive in the peer meta store
    asked,        \* requests sent and not yet answered
    responses,    \* answers not yet taken from the incoming channel
    processing,   \* the answer whose ops are being stored
    waiting,      \* notify_when_drained_senders
    unanswered,   \* history: requests whose last answer never came
    called        \* how many times request_ops was called

vars == <<store, requests, queue, calls, working, unresponsive, asked,
          responses, processing, waiting, unanswered, called>>

----------------------------------------------------------------------------
(* request_ops.                                                            *)

(* The ops that are not stored yet are looked up first. *)
RequestOps(c, p, ops) ==
    /\ calls[c] = None
    /\ ops \ store # {}
    /\ called < MaxCalls
    /\ called' = called + 1
    /\ calls' = [calls EXCEPT ![c] =
                    [source |-> p, new |-> ops \ store, added |-> FALSE]]
    /\ UNCHANGED <<store, requests, queue, working, unresponsive, asked,
                   responses, processing, waiting, unanswered>>

(* They enter the request set together, before any of them is queued. *)
AddRequests(c) ==
    /\ calls[c] # None
    /\ ~calls[c].added
    /\ requests' = requests \cup {<<o, calls[c].source>> : o \in calls[c].new}
    /\ calls' = [calls EXCEPT ![c].added = TRUE]
    /\ UNCHANGED <<store, queue, working, unresponsive, asked, responses,
                   processing, waiting, unanswered, called>>

(* What is left of a call when o has been queued; the last op ends it. *)
Unqueued(call, o) ==
    IF call.new = {o} THEN None ELSE [call EXCEPT !.new = @ \ {o}]

(* Mutant: without room an op is passed over. *)
EnqueueOrDrop(c) ==
    /\ calls[c] # None
    /\ calls[c].added
    /\ \E o \in calls[c].new :
          /\ queue' = IF Len(queue) < QueueSize
                      THEN Append(queue, <<o, calls[c].source>>) ELSE queue
          /\ calls' = [calls EXCEPT ![c] = Unqueued(calls[c], o)]
          /\ unanswered' = unanswered \ {<<o, calls[c].source>>}
    /\ UNCHANGED <<store, requests, working, unresponsive, asked, responses,
                   processing, waiting, called>>

(* Then they are queued one at a time, waiting for room.  The queue is      *)
(* closed only once the space, and with it every worker, is gone.          *)
Enqueue(c) ==
    /\ calls[c] # None
    /\ calls[c].added
    /\ Len(queue) < QueueSize
    /\ \E o \in calls[c].new :
          /\ queue' = Append(queue, <<o, calls[c].source>>)
          /\ calls' = [calls EXCEPT ![c] = Unqueued(calls[c], o)]
          /\ unanswered' = unanswered \ {<<o, calls[c].source>>}
    /\ UNCHANGED <<store, requests, working, unresponsive, asked, responses,
                   processing, waiting, called>>

----------------------------------------------------------------------------
(* outgoing_request_task.                                                  *)

(* notify_listeners_if_queue_drained, with the request set as it will be. *)
NotifyIfDrained(left) ==
    waiting' = IF left = {} THEN {} ELSE waiting

(* A worker stops at the first item it takes after the transport is gone,  *)
(* which outlives the space.                                               *)
Take(w) ==
    /\ working[w] = None
    /\ queue # <<>>
    /\ working' = [working EXCEPT ![w] =
                      [request |-> Head(queue), checked |-> FALSE]]
    /\ queue' = Tail(queue)
    /\ UNCHANGED <<store, requests, calls, unresponsive, asked, responses,
                   processing, waiting, unanswered, called>>

(* A request to an unresponsive peer is dropped; one that is no longer in  *)
(* the set is not sent.                                                    *)
CheckRequest(w) ==
    /\ working[w] # None
    /\ ~working[w].checked
    /\ LET r    == working[w].request
           left == IF r[2] \in unresponsive THEN requests \ {r} ELSE requests
       IN  /\ requests' = left
           /\ IF r \in left
              THEN /\ working' = [working EXCEPT ![w].checked = TRUE]
                   /\ UNCHANGED waiting
              ELSE /\ working' = [working EXCEPT ![w] = None]
                   /\ NotifyIfDrained(left)
    /\ UNCHANGED <<store, queue, calls, unresponsive, asked, responses,
                   processing, unanswered, called>>

Send(w) ==
    /\ working[w] # None
    /\ working[w].checked
    /\ asked' = asked \cup {working[w].request}
    /\ working' = [working EXCEPT ![w] = None]
    /\ UNCHANGED <<store, requests, queue, calls, unresponsive, responses,
                   processing, waiting, unanswered, called>>

(* Mutant: the requests to the peer are kept. *)
FailSendForgetful(w) ==
    /\ working[w] # None
    /\ working[w].checked
    /\ working' = [working EXCEPT ![w] = None]
    /\ unresponsive' = unresponsive \cup {working[w].request[2]}
    /\ UNCHANGED <<store, requests, queue, calls, asked, responses, processing,
                   waiting, unanswered, called>>

(* The transport marks the peer unresponsive, and every request to it is   *)
(* given up.                                                               *)
FailSend(w) ==
    /\ working[w] # None
    /\ working[w].checked
    /\ LET p == working[w].request[2]
       IN  /\ unresponsive' = unresponsive \cup {p}
           /\ requests' = {r \in requests : r[2] # p}
    /\ working' = [working EXCEPT ![w] = None]
    /\ NotifyIfDrained(requests')
    /\ UNCHANGED <<store, queue, calls, asked, responses, processing,
                   unanswered, called>>

(* The mark on a peer expires. *)
Recover(p) ==
    /\ p \in unresponsive
    /\ unresponsive' = unresponsive \ {p}
    /\ UNCHANGED <<store, requests, queue, calls, working, asked, responses,
                   processing, waiting, unanswered, called>>

----------------------------------------------------------------------------
(* The peer's incoming_request_task, and incoming_response_task.           *)

Answer(r) ==
    /\ r \in asked
    /\ asked' = asked \ {r}
    /\ responses' = responses \cup {r}
    /\ UNCHANGED <<store, requests, queue, calls, working, unresponsive,
                   processing, waiting, unanswered, called>>

(* The request or the answer is lost or finds a full queue, or the peer    *)
(* does not have the op and stays silent.                                  *)
Lose(r) ==
    /\ Lossy
    /\ r \in asked
    /\ asked' = asked \ {r}
    /\ unanswered' = unanswered \cup {r}
    /\ UNCHANGED <<store, requests, queue, calls, working, unresponsive,
                   responses, processing, waiting, called>>

Receive(r) ==
    /\ processing = None
    /\ r \in responses
    /\ processing' = r
    /\ responses' = responses \ {r}
    /\ UNCHANGED <<store, requests, queue, calls, working, unresponsive, asked,
                   waiting, unanswered, called>>

(* process_incoming_ops succeeds: nobody needs to be asked for the op any  *)
(* more.  Listeners are not told.                                          *)
Store ==
    /\ processing # None
    /\ store' = store \cup {processing[1]}
    /\ requests' = {r \in requests : r[1] # processing[1]}
    /\ processing' = None
    /\ UNCHANGED <<queue, calls, working, unresponsive, asked, responses,
                   waiting, unanswered, called>>

(* It fails: the request remains. *)
FailStore ==
    /\ Lossy
    /\ processing # None
    /\ processing' = None
    /\ unanswered' = unanswered \cup {processing}
    /\ UNCHANGED <<store, requests, queue, calls, working, unresponsive, asked,
                   responses, waiting, called>>

(* notify_on_drained: at once if there is nothing to wait for. *)
NotifyOnDrained(l) ==
    /\ requests # {}
    /\ l \notin waiting
    /\ waiting' = waiting \cup {l}
    /\ UNCHANGED <<store, requests, queue, calls, working, unresponsive, asked,
                   responses, processing, unanswered, called>>

----------------------------------------------------------------------------
Init ==
    /\ store = {}
    /\ requests = {}
    /\ queue = <<>>
    /\ calls = [c \in Callers |-> None]
    /\ working = [w \in Workers |-> None]
    /\ unresponsive = {}
    /\ asked = {}
    /\ responses = {}
    /\ processing = None
    /\ waiting = {}
    /\ unanswered = {}
    /\ called = 0

Next ==
    \/ \E c \in Callers, p \in Peers, ops \in SUBSET Ops : RequestOps(c, p, ops)
    \/ \E c \in Callers : AddRequests(c)
    \/ \E c \in Callers : Enqueue(c)
    \/ \E w \in Workers : Take(w)
    \/ \E w \in Workers : CheckRequest(w)
    \/ \E w \in Workers : Send(w)
    \/ \E w \in Workers : FailSend(w)
    \/ \E p \in Peers : Recover(p)
    \/ \E r \in Requests : Answer(r)
    \/ \E r \in Requests : Lose(r)
    \/ \E r \in Requests : Receive(r)
    \/ Store
    \/ FailStore
    \/ \E l \in Listeners : NotifyOnDrained(l)

Spec == Init /\ [][Next]_vars

(* Tasks run when they can; a peer answers unless something is lost.       *)
Fairness ==
    /\ \A c \in Callers : WF_vars(AddRequests(c)) /\ WF_vars(Enqueue(c))
    /\ \A w \in Workers :
          WF_vars(Take(w) \/ CheckRequest(w) \/ Send(w) \/ FailSend(w))
    /\ \A r \in Requests : WF_vars(Answer(r) \/ Lose(r)) /\ WF_vars(Receive(r))
    /\ WF_vars(Store \/ FailStore)

FairSpec == Spec /\ Fairness

----------------------------------------------------------------------------
(* Properties.                                                             *)

(* The request set, the channels and the tasks hold what their types say;  *)
(* the outgoing channel never exceeds its capacity.                        *)
TypeOK ==
    /\ store \subseteq Ops
    /\ requests \subseteq Requests
    /\ queue \in Seq(Requests) /\ Len(queue) <= QueueSize
    /\ calls \in [Callers -> Calls \cup {None}]
    /\ working \in [Workers -> Work \cup {None}]
    /\ unresponsive \subseteq Peers
    /\ asked \subseteq Requests
    /\ responses \subseteq Requests
    /\ processing \in Requests \cup {None}
    /\ waiting \subseteq Listeners
    /\ unanswered \subseteq Requests
    /\ called \in 0..MaxCalls

(* Whoever is still going to act on a request. *)
Pursued(r) ==
    \/ \E c \in Callers :
          calls[c] # None /\ calls[c].source = r[2] /\ r[1] \in calls[c].new
    \/ \E i \in 1..Len(queue) : queue[i] = r
    \/ \E w \in Workers : working[w] # None /\ working[w].request = r
    \/ r \in asked
    \/ r \in responses
    \/ processing = r

(* A request stays in the set only as long as someone is acting on it,     *)
(* unless its answer was lost: requests given up by one task while another *)
(* holds, sends or answers them leave nothing behind.                      *)
NoOrphanRequest == \A r \in requests : Pursued(r) \/ r \in unanswered

(* Every request is settled: answered, given up, or its answer was lost    *)
(* (request_ops, outgoing_request_task, incoming_response_task).           *)
RequestsSettle == []<>(requests \subseteq unanswered)

(* notify_on_drained: a listener that waits is told once the requests have *)
(* all been fetched, if none is lost and no more ops are requested.        *)
ListenersAreTold ==
    \A l \in Listeners : (<>[](requests = {})) => []<>(l \notin waiting)
====
