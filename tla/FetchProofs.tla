---- MODULE FetchProofs ----
(***************************************************************************)
(* Theorems about what a node keeps of other peers.                        *)
(*                                                                         *)
(* The fetch module, for any number of ops, peers, callers and workers and *)
(* any queue size: the state keeps its shape and no request is orphaned.   *)
(* The second needs no strengthening beyond types: each task hands a       *)
(* request on before it lets go of it.                                     *)
(*                                                                         *)
(* The counters, marks and probes of contacts, for any intervals: a dead   *)
(* peer is not counted as a holder for long.  The invariant follows the    *)
(* last value of its counter into the record of a check, and its next      *)
(* probe from the check that sends it to the mark that ends it.            *)
(***************************************************************************)
EXTENDS Fetch, PeerMeta, SequenceTheorems, TLAPS

(* The request of a worker that is busy, and the call of a busy caller. *)
LEMMA BusyTypes ==
    ASSUME TypeOK
    PROVE  /\ \A c \in Callers : calls[c] # None => calls[c] \in Calls
           /\ \A w \in Workers : working[w] # None => working[w] \in Work
           /\ processing # None => processing \in Requests
  BY DEF TypeOK

(* What Enqueue leaves of a call is a call. *)
LEMMA UnqueuedType ==
    ASSUME NEW call \in Calls, NEW o \in call.new
    PROVE  Unqueued(call, o) \in Calls \cup {None}
<1> DEFINE rest == call.new \ {o}
<1>1. call.new \in SUBSET Ops
  BY DEF Calls
<1>2. call.new # {o} => rest \in (SUBSET Ops) \ {{}}
  BY <1>1
<1>3. [call EXCEPT !.new = @ \ {o}] = [call EXCEPT !.new = rest]
  BY Zenon
<1> HIDE DEF rest
<1>4. call.new # {o} => [call EXCEPT !.new = rest] \in Calls
  BY <1>2 DEF Calls
<1> QED
  BY <1>3, <1>4 DEF Unqueued

(* Enqueue keeps the types, the capacity of the queue included. *)
LEMMA EnqueueTypes ==
    ASSUME TypeOK, NEW c \in Callers, Enqueue(c)
    PROVE  TypeOK'
<1>1. calls[c] \in Calls
  BY BusyTypes DEF Enqueue
<1>2. PICK o \in calls[c].new :
          /\ queue' = Append(queue, <<o, calls[c].source>>)
          /\ calls' = [calls EXCEPT ![c] = Unqueued(calls[c], o)]
          /\ unanswered' = unanswered \ {<<o, calls[c].source>>}
  BY DEF Enqueue
<1>3. <<o, calls[c].source>> \in Requests
  BY <1>1 DEF Calls, Requests
<1>4. queue' \in Seq(Requests) /\ Len(queue') <= QueueSize
  <2>1. queue \in Seq(Requests) /\ Len(queue) < QueueSize /\ Len(queue) \in Nat
    BY DEF TypeOK, Enqueue
  <2>2. queue' \in Seq(Requests) /\ Len(queue') = Len(queue) + 1
    BY <1>2, <1>3, <2>1
  <2> QED
    BY <2>1, <2>2, QueueAssumption
<1>5. Unqueued(calls[c], o) \in Calls \cup {None}
  BY <1>1, UnqueuedType
<1>6. calls' \in [Callers -> Calls \cup {None}]
  BY <1>2, <1>5 DEF TypeOK
<1>7. unanswered' \subseteq Requests
  BY <1>2 DEF TypeOK
<1> QED
  BY <1>4, <1>6, <1>7 DEF TypeOK, Enqueue

(* Every step keeps the types. *)
LEMMA NextTypes == TypeOK /\ [Next]_vars => TypeOK'
<1> SUFFICES ASSUME TypeOK, [Next]_vars
             PROVE  TypeOK'
  OBVIOUS
<1> USE BusyTypes
<1>1. ASSUME NEW c \in Callers, NEW p \in Peers, NEW ops \in SUBSET Ops,
             RequestOps(c, p, ops)
      PROVE  TypeOK'
  <2>1. [source |-> p, new |-> ops \ store, added |-> FALSE] \in Calls
    <3> DEFINE missing == ops \ store
    <3>1. missing \in (SUBSET Ops) \ {{}}
      BY <1>1 DEF RequestOps
    <3> HIDE DEF missing
    <3>2. [source |-> p, new |-> missing, added |-> FALSE] \in Calls
      BY <3>1 DEF Calls
    <3> QED
      BY <3>2 DEF missing
  <2>2. called' \in 0..MaxCalls
    BY <1>1, QueueAssumption DEF TypeOK, RequestOps
  <2>3. calls' \in [Callers -> Calls \cup {None}]
    BY <1>1, <2>1 DEF TypeOK, RequestOps
  <2> QED
    BY <1>1, <2>2, <2>3 DEF TypeOK, RequestOps
<1>2. ASSUME NEW c \in Callers, AddRequests(c)
      PROVE  TypeOK'
  <2>1. calls[c] \in Calls
    BY <1>2 DEF AddRequests
  <2>2. {<<o, calls[c].source>> : o \in calls[c].new} \subseteq Requests
    BY <2>1 DEF Calls, Requests
  <2>3. [calls[c] EXCEPT !.added = TRUE] \in Calls
    BY <2>1 DEF Calls
  <2>4. calls' \in [Callers -> Calls \cup {None}]
    BY <1>2, <2>3 DEF AddRequests, TypeOK
  <2> QED
    BY <1>2, <2>2, <2>4 DEF AddRequests, TypeOK
<1>3. ASSUME NEW c \in Callers, Enqueue(c)
      PROVE  TypeOK'
  BY <1>3, EnqueueTypes
<1>4. ASSUME NEW w \in Workers, Take(w)
      PROVE  TypeOK'
  <2>1. queue \in Seq(Requests) /\ queue # <<>> /\ Len(queue) <= QueueSize
    BY <1>4 DEF Take, TypeOK
  <2>2. Head(queue) \in Requests /\ Tail(queue) \in Seq(Requests)
        /\ Len(Tail(queue)) = Len(queue) - 1 /\ Len(queue) \in Nat
    BY <2>1, HeadTailProperties
  <2>3. Len(Tail(queue)) <= QueueSize
    BY <2>1, <2>2, QueueAssumption
  <2>4. working' \in [Workers -> Work \cup {None}]
    BY <1>4, <2>2 DEF Take, TypeOK, Work
  <2> QED
    BY <1>4, <2>2, <2>3, <2>4 DEF Take, TypeOK
<1>5. ASSUME NEW w \in Workers, CheckRequest(w)
      PROVE  TypeOK'
  <2>1. working[w] \in Work
    BY <1>5 DEF CheckRequest
  <2>2. [working[w] EXCEPT !.checked = TRUE] \in Work
    BY <2>1 DEF Work
  <2>3. working' \in [Workers -> Work \cup {None}]
    BY <1>5, <2>2 DEF CheckRequest, TypeOK
  <2> QED
    BY <1>5, <2>3 DEF CheckRequest, TypeOK, NotifyIfDrained
<1>6. ASSUME NEW w \in Workers, Send(w)
      PROVE  TypeOK'
  <2>1. working[w].request \in Requests
    BY <1>6 DEF Send, Work
  <2> QED
    BY <1>6, <2>1 DEF Send, TypeOK
<1>7. ASSUME NEW w \in Workers, FailSend(w)
      PROVE  TypeOK'
  <2>1. working[w].request[2] \in Peers
    BY <1>7 DEF FailSend, Work, Requests
  <2> QED
    BY <1>7, <2>1 DEF FailSend, TypeOK, NotifyIfDrained
<1>8. ASSUME NEW p \in Peers, Recover(p)
      PROVE  TypeOK'
  BY <1>8 DEF Recover, TypeOK
<1>9. ASSUME NEW r \in Requests, Answer(r) \/ Lose(r) \/ Receive(r)
      PROVE  TypeOK'
  BY <1>9 DEF Answer, Lose, Receive, TypeOK
<1>10. CASE Store
  <2>1. processing[1] \in Ops
    BY <1>10 DEF Store, Requests
  <2> QED
    BY <1>10, <2>1 DEF Store, TypeOK
<1>11. CASE FailStore
  BY <1>11 DEF FailStore, TypeOK
<1>12. ASSUME NEW l \in Listeners, NotifyOnDrained(l)
       PROVE  TypeOK'
  BY <1>12 DEF NotifyOnDrained, TypeOK
<1>13. CASE UNCHANGED vars
  BY <1>13 DEF vars, TypeOK
<1> QED
  BY <1>1, <1>2, <1>3, <1>4, <1>5, <1>6, <1>7, <1>8, <1>9, <1>10, <1>11,
     <1>12, <1>13 DEF Next

(* The request set, the channels and the tasks keep their types and the    *)
(* outgoing channel its capacity, whatever the numbers of ops, peers,      *)
(* callers and workers.                                                    *)
THEOREM TypeCorrect == Spec => []TypeOK
<1>1. Init => TypeOK
  BY QueueAssumption DEF Init, TypeOK
<1> QED
  BY <1>1, NextTypes, PTL DEF Spec

(* A request in the queue stays there while others are added. *)
LEMMA QueuedAfterAppend ==
    ASSUME TypeOK, NEW x \in Requests, NEW r, queue' = Append(queue, x),
           r = x \/ \E i \in 1..Len(queue) : queue[i] = r
    PROVE  \E i \in 1..Len(queue') : queue'[i] = r
<1>1. queue \in Seq(Requests) /\ Len(queue) \in Nat
  BY DEF TypeOK
<1>2. /\ Len(queue') = Len(queue) + 1
      /\ \A i \in 1..Len(queue) : queue'[i] = queue[i]
      /\ queue'[Len(queue) + 1] = x
  BY <1>1, AppendProperties
<1>3. CASE r = x
  BY <1>1, <1>2, <1>3
<1>4. CASE \E i \in 1..Len(queue) : queue[i] = r
  BY <1>1, <1>2, <1>4
<1> QED
  BY <1>3, <1>4

(* When the head is taken, every other request stays queued. *)
LEMMA QueuedAfterTail ==
    ASSUME TypeOK, queue # <<>>, queue' = Tail(queue), NEW r,
           \E i \in 1..Len(queue) : queue[i] = r
    PROVE  r = Head(queue) \/ \E i \in 1..Len(queue') : queue'[i] = r
<1>1. queue \in Seq(Requests) /\ Len(queue) \in Nat
  BY DEF TypeOK
<1>2. /\ Len(queue') = Len(queue) - 1
      /\ Head(queue) = queue[1]
      /\ \A i \in 1..(Len(queue) - 1) : queue'[i] = queue[i + 1]
  BY <1>1, HeadTailProperties
<1>3. PICK i \in 1..Len(queue) : queue[i] = r
  OBVIOUS
<1>4. CASE i = 1
  BY <1>2, <1>3, <1>4
<1>5. CASE i # 1
  <2>1. i - 1 \in 1..Len(queue') /\ (i - 1) + 1 = i /\ i - 1 \in 1..(Len(queue) - 1)
    BY <1>1, <1>2, <1>5
  <2>2. queue'[i - 1] = r
    BY <1>2, <1>3, <2>1
  <2> QED
    BY <2>1, <2>2
<1> QED
  BY <1>4, <1>5

(* The ways to pursue a request, one by one. *)
InCall(r) ==
    \E c \in Callers :
        calls[c] # None /\ calls[c].source = r[2] /\ r[1] \in calls[c].new
InQueue(r) == \E i \in 1..Len(queue) : queue[i] = r
InWork(r)  == \E w \in Workers : working[w] # None /\ working[w].request = r

(* They are all there are. *)
LEMMA PursuedCases ==
    ASSUME NEW r
    PROVE  Pursued(r) <=> \/ InCall(r) \/ InQueue(r) \/ InWork(r)
                          \/ r \in asked \/ r \in responses \/ processing = r
  BY DEF Pursued, InCall, InQueue, InWork

(* Every step that lets go of a request hands it on first or settles it.   *)
LEMMA NextPursues ==
    TypeOK /\ TypeOK' /\ NoOrphanRequest /\ [Next]_vars => NoOrphanRequest'
<1> SUFFICES ASSUME TypeOK, TypeOK', NoOrphanRequest, [Next]_vars,
                    NEW r \in requests'
             PROVE  Pursued(r)' \/ r \in unanswered'
  BY DEF NoOrphanRequest
<1> DEFINE Held == InCall(r) \/ InQueue(r) \/ InWork(r) \/ r \in asked
                   \/ r \in responses \/ processing = r \/ r \in unanswered
<1>0. r \in Requests /\ r = <<r[1], r[2]>>
  BY DEF TypeOK, Requests
<1>a. r \in requests => Held
  BY PursuedCases DEF NoOrphanRequest
<1>b. SUFFICES Held'
  BY DEF Pursued, InCall, InQueue, InWork
<1>1. ASSUME NEW c \in Callers, NEW p \in Peers, NEW ops \in SUBSET Ops,
             RequestOps(c, p, ops)
      PROVE  Held'
  <2>1. r \in requests
    BY <1>1 DEF RequestOps
  <2>2. InCall(r) => InCall(r)'
    BY <1>1 DEF RequestOps, InCall, TypeOK
  <2> QED
    BY <1>1, <1>a, <2>1, <2>2 DEF RequestOps, InQueue, InWork
<1>2. ASSUME NEW c \in Callers, AddRequests(c)
      PROVE  Held'
  <2>1. calls[c] \in Calls
    BY <1>2, BusyTypes DEF AddRequests
  <2>2. calls'[c] \in Calls /\ calls'[c].source = calls[c].source
        /\ calls'[c].new = calls[c].new
    BY <1>2, <2>1 DEF AddRequests, Calls, TypeOK
  <2>3. calls'[c] # None
    BY <2>2, NoneAssumption
  <2>4. \A d \in Callers \ {c} : calls'[d] = calls[d]
    BY <1>2 DEF AddRequests, TypeOK
  <2>5. InCall(r) => InCall(r)'
    BY <2>2, <2>3, <2>4 DEF InCall
  <2>6. CASE r \in requests
    BY <1>2, <1>a, <2>5, <2>6 DEF AddRequests, InQueue, InWork
  <2>7. CASE r \notin requests
    <3>1. PICK o \in calls[c].new : r = <<o, calls[c].source>>
      BY <1>2, <2>7 DEF AddRequests
    <3>2. InCall(r)'
      BY <2>2, <2>3, <3>1 DEF InCall
    <3> QED
      BY <3>2
  <2> QED
    BY <2>6, <2>7
<1>3. ASSUME NEW c \in Callers, Enqueue(c)
      PROVE  Held'
  <2>1. calls[c] \in Calls
    BY <1>3, BusyTypes DEF Enqueue
  <2>2. PICK o \in calls[c].new :
            /\ queue' = Append(queue, <<o, calls[c].source>>)
            /\ calls' = [calls EXCEPT ![c] = Unqueued(calls[c], o)]
            /\ unanswered' = unanswered \ {<<o, calls[c].source>>}
    BY <1>3 DEF Enqueue
  <2> DEFINE x == <<o, calls[c].source>>
  <2>3. x \in Requests
    BY <2>1 DEF Calls, Requests
  <2>4. r = x \/ InQueue(r) => InQueue(r)'
    <3> HIDE DEF x
    <3>1. queue' = Append(queue, x)
      BY <2>2 DEF x
    <3> QED
      BY <2>3, <3>1, QueuedAfterAppend DEF InQueue
  <2>5. InCall(r) /\ r # x => InCall(r)'
    <3> SUFFICES ASSUME r # x, NEW d \in Callers, calls[d] # None,
                        calls[d].source = r[2], r[1] \in calls[d].new
                 PROVE  calls'[d] # None /\ calls'[d].source = r[2]
                        /\ r[1] \in calls'[d].new
      BY DEF InCall
    <3>1. CASE d # c
      BY <2>2, <3>1 DEF TypeOK
    <3>2. CASE d = c
      <4>1. r[1] # o
        BY <1>0, <3>2
      <4>2. calls[c].new # {o}
        BY <3>2, <4>1
      <4>3. calls'[c] = [calls[c] EXCEPT !.new = @ \ {o}]
        BY <2>2, <4>2 DEF Unqueued, TypeOK
      <4>4. calls'[c].source = calls[c].source
            /\ calls'[c].new = calls[c].new \ {o}
        BY <2>1, <4>3 DEF Calls
      <4>5. calls'[c] # None
        <5>1. Unqueued(calls[c], o) \in Calls
          <6>1. [calls[c] EXCEPT !.new = calls[c].new \ {o}] \in Calls
            <7> DEFINE rest == calls[c].new \ {o}
            <7>1. rest \in (SUBSET Ops) \ {{}}
              BY <2>1, <3>2, <4>1 DEF Calls
            <7> HIDE DEF rest
            <7>2. [calls[c] EXCEPT !.new = rest] \in Calls
              BY <2>1, <7>1 DEF Calls
            <7> QED
              BY <7>2 DEF rest
          <6> QED
            BY <4>2, <6>1 DEF Unqueued
        <5> QED
          BY <2>2, <5>1, NoneAssumption DEF TypeOK
      <4> QED
        BY <3>2, <4>1, <4>4, <4>5
    <3> QED
      BY <3>1, <3>2
  <2>6. r \in requests
    BY <1>3 DEF Enqueue
  <2>7. CASE r = x
    BY <2>4, <2>7
  <2>8. CASE r # x
    BY <1>3, <1>a, <2>2, <2>4, <2>5, <2>6, <2>8 DEF Enqueue, InWork
  <2> QED
    BY <2>7, <2>8
<1>4. ASSUME NEW w \in Workers, Take(w)
      PROVE  Held'
  <2>1. working'[w] = [request |-> Head(queue), checked |-> FALSE]
        /\ \A v \in Workers \ {w} : working'[v] = working[v]
    BY <1>4 DEF Take, TypeOK
  <2>2. InQueue(r) => r = Head(queue) \/ InQueue(r)'
    BY <1>4, QueuedAfterTail DEF Take, InQueue
  <2>3. r = Head(queue) => InWork(r)'
    <3>1. ASSUME r = Head(queue) PROVE InWork(r)'
      <4>1. working'[w] \in Work
        BY <1>0, <2>1, <3>1 DEF Work
      <4> QED
        BY <2>1, <3>1, <4>1, NoneAssumption DEF InWork
    <3> QED
      BY <3>1
  <2>4. InWork(r) => InWork(r)'
    BY <1>4, <2>1 DEF Take, InWork
  <2>5. r \in requests
    BY <1>4 DEF Take
  <2> QED
    BY <1>4, <1>a, <2>2, <2>3, <2>4, <2>5 DEF Take, InCall
<1>5. ASSUME NEW w \in Workers, CheckRequest(w)
      PROVE  Held'
  <2>1. r \in requests
    BY <1>5 DEF CheckRequest
  <2>2. working[w] \in Work
    BY <1>5, BusyTypes DEF CheckRequest
  <2>3. \A v \in Workers \ {w} : working'[v] = working[v]
    BY <1>5 DEF CheckRequest, TypeOK
  <2>4. working[w].request = r => working'[w] = [working[w] EXCEPT !.checked = TRUE]
    BY <1>5 DEF CheckRequest, TypeOK
  <2>5. working[w].request = r => working'[w] \in Work /\ working'[w].request = r
    BY <2>2, <2>4 DEF Work
  <2>6. InWork(r) => InWork(r)'
    BY <2>3, <2>5, NoneAssumption DEF InWork
  <2> QED
    BY <1>5, <1>a, <2>1, <2>6 DEF CheckRequest, InCall, InQueue
<1>6. ASSUME NEW w \in Workers, Send(w)
      PROVE  Held'
  <2>1. r \in requests
    BY <1>6 DEF Send
  <2>2. InWork(r) => InWork(r)' \/ r \in asked'
    BY <1>6 DEF Send, InWork, TypeOK
  <2> QED
    BY <1>6, <1>a, <2>1, <2>2 DEF Send, InCall, InQueue
<1>7. ASSUME NEW w \in Workers, FailSend(w)
      PROVE  Held'
  <2>1. r \in requests /\ r # working[w].request
    BY <1>7 DEF FailSend
  <2>2. InWork(r) => InWork(r)'
    BY <1>7, <2>1 DEF FailSend, InWork, TypeOK
  <2> QED
    BY <1>7, <1>a, <2>1, <2>2 DEF FailSend, InCall, InQueue
<1>8. ASSUME NEW p \in Peers, Recover(p)
      PROVE  Held'
  BY <1>8, <1>a DEF Recover, InCall, InQueue, InWork
<1>9. ASSUME NEW q \in Requests, Answer(q) \/ Lose(q) \/ Receive(q)
      PROVE  Held'
  <2>1. processing = r /\ Receive(q) => FALSE
    BY <1>0, NoneAssumption DEF Receive
  <2> QED
    BY <1>9, <1>a, <2>1 DEF Answer, Lose, Receive, InCall, InQueue, InWork
<1>10. CASE Store
  <2>1. r \in requests /\ r # processing
    BY <1>10 DEF Store
  <2> QED
    BY <1>10, <1>a, <2>1 DEF Store, InCall, InQueue, InWork
<1>11. CASE FailStore
  BY <1>11, <1>a DEF FailStore, InCall, InQueue, InWork
<1>12. ASSUME NEW l \in Listeners, NotifyOnDrained(l)
       PROVE  Held'
  BY <1>12, <1>a DEF NotifyOnDrained, InCall, InQueue, InWork
<1>13. CASE UNCHANGED vars
  BY <1>13, <1>a DEF vars, InCall, InQueue, InWork
<1> QED
  BY <1>1, <1>2, <1>3, <1>4, <1>5, <1>6, <1>7, <1>8, <1>9, <1>10, <1>11,
     <1>12, <1>13 DEF Next

(* No request outlives the tasks that act on it (request_ops, the workers, *)
(* a send failure that gives up a whole peer, the response task), unless   *)
(* its answer was lost.                                                    *)
THEOREM NoRequestIsOrphaned == Spec => []NoOrphanRequest
<1>1. Init => NoOrphanRequest
  BY DEF Init, NoOrphanRequest
<1> QED
  BY <1>1, NextPursues, TypeCorrect, PTL DEF Spec

(***************************************************************************)
(* What is remembered of peers.                                            *)
(***************************************************************************)

Dated == [value : Nat, until : Nat]

MetaTypes ==
    /\ clock \in Nat /\ checked \in Nat /\ restarts \in Nat
    /\ death \in [Contacts -> Nat \cup {Never}]
    /\ lastProbe \in [Contacts -> Nat \cup {Never}]
    /\ probing \in [Contacts -> Nat \cup {Never}]
    /\ signed \in [Contacts -> Nat]
    /\ info \in [Contacts -> Nat]
    /\ arrived \in [Contacts -> Nat]
    /\ completed \in [Contacts -> Dated]
    /\ mark \in [Contacts -> Dated]
    /\ ending \in [Rounds -> {Absent} \cup [peer : Contacts, read : Nat]]
    /\ contact \in [Contacts -> {Unseen} \cup [count : Nat, heard : Nat \cup {Never}]]
    /\ growers \in SUBSET Contacts
    /\ stayers \in SUBSET Contacts

\* How much the restarts have delayed the probes.
Delay == restarts * (Every + SendTime)

\* When a probe of a dead peer has started, if its info is still valid.
ProbedBy(p) == Since(p) + ProbeEvery + Every + Delay

\* The check ran a moment ago.
CheckInv == checked <= clock /\ clock <= checked + Every

\* Nothing that is remembered of a peer lies ahead of the clock, and who is
\* counted for a shrink was heard of within a wait before the last check.
ContactInv(p) ==
    /\ contact[p].heard <= clock /\ lastProbe[p] <= clock
    /\ death[p] <= clock /\ arrived[p] <= clock /\ mark[p].until <= info[p]
    /\ probing[p] # Never => probing[p] <= clock /\ clock <= probing[p] + SendTime
    /\ p \in stayers => /\ contact[p].heard # Never
                        /\ checked < contact[p].heard + MaxWait

\* A dead peer's counter is written no more; a check that saw the peer has
\* seen its last value.
SilenceInv(p) ==
    death[p] # Never =>
        /\ \A t \in Rounds : ending[t] # Absent => ending[t].peer # p
        /\ contact[p].heard <= Since(p) + Every
        /\ \/ contact[p] = Unseen
           \/ contact[p].count >= Get(completed[p])
           \/ checked <= Since(p)
           \/ info[p] <= checked

\* The probe of a dead peer starts in time, and ends in a mark.
ProbeInv(p) ==
    death[p] # Never =>
        /\ lastProbe[p] # Never => \/ probing[p] # Never
                                   \/ lastProbe[p] <= Since(p)
                                   \/ info[p] <= clock
        /\ probing[p] # Never => probing[p] <= ProbedBy(p)
        /\ \/ probing[p] # Never
           \/ info[p] <= clock
           \/ checked + Every <= ProbedBy(p)
        /\ p \in growers => checked <= ProbedBy(p) + SendTime

MetaInv == /\ MetaTypes /\ CheckInv
           /\ \A p \in Contacts : ContactInv(p) /\ SilenceInv(p) /\ ProbeInv(p)

(* The constants as numbers. *)
LEMMA MetaNumbers ==
    /\ Every \in Nat \ {0} /\ SendTime \in Nat /\ ProbeEvery \in Nat \ {0}
    /\ InfoLife \in Nat /\ CountLife \in Nat /\ ResignAt \in Nat
    /\ LagFloor \in Nat /\ LagCeiling \in Nat /\ IntentWait \in Nat /\ MinWait \in Nat
    /\ MaxCount \in Nat /\ MaxWait \in Nat
    BY PeerMetaAssumption DEF MaxWait

(* No lag makes a wait longer than the largest one. *)
LEMMA WaitsAreBounded ==
    ASSUME NEW lag \in LagEstimate
    PROVE  WaitFor(lag) \in Nat /\ WaitFor(lag) <= MaxWait
<1>1. lag \in Nat /\ lag <= LagCeiling
    BY MetaNumbers DEF LagEstimate
<1>2. lag * IntentWait \in Nat /\ LagCeiling * IntentWait \in Nat
    BY <1>1, MetaNumbers
<1>3. lag * IntentWait <= LagCeiling * IntentWait
    BY <1>1, MetaNumbers
<1>4. QED
    BY <1>2, <1>3, MetaNumbers DEF WaitFor, MaxWait

(* The delay is a time and grows with every restart. *)
LEMMA DelayIsTime ==
    ASSUME restarts \in Nat
    PROVE  /\ Delay \in Nat
           /\ restarts' = restarts => Delay' = Delay
           /\ restarts' = restarts + 1 => Delay' = Delay + Every + SendTime
<1> DEFINE step == Every + SendTime
<1>1. step \in Nat
    BY MetaNumbers
<1>2. step' = step
    OBVIOUS
<1> HIDE DEF step
<1>3. (restarts + 1) * step = restarts * step + step
    BY <1>1
<1>4. Delay = restarts * step /\ Delay' = restarts' * step
    BY DEF Delay, step
<1>5. Delay \in Nat
    BY <1>1, <1>4
<1>6. ASSUME restarts' = restarts + 1
      PROVE  Delay' = Delay + step
    BY <1>3, <1>4, <1>6
<1>7. ASSUME restarts' = restarts
      PROVE  Delay' = Delay
    BY <1>4, <1>7
<1>8. step = Every + SendTime
    BY DEF step
<1>9. restarts' = restarts + 1 => Delay' = Delay + Every + SendTime
    BY <1>1, <1>5, <1>6, <1>8, MetaNumbers
<1>10. QED
    BY <1>5, <1>7, <1>9

(* Since is the latest of three times. *)
LEMMA SinceIsLatest ==
    ASSUME MetaTypes, NEW p \in Contacts
    PROVE  /\ Since(p) \in Nat
           /\ arrived[p] <= Since(p) /\ death[p] <= Since(p) /\ mark[p].until <= Since(p)
           /\ Since(p) \in {arrived[p], death[p], mark[p].until}
<1>1. arrived[p] \in Nat /\ death[p] \in Nat \cup {Never} /\ mark[p].until \in Nat
    BY DEF MetaTypes, Dated
<1>2. QED
    BY <1>1 DEF Since, Later, Never

(***************************************************************************)
(* The steps.                                                              *)
(***************************************************************************)

(* A put that expires later than now has a time to expire. *)
LEMMA PutIsEntry ==
    ASSUME clock \in Nat, NEW v \in Nat, NEW life \in Nat
    PROVE  Put(v, life) \in Dated /\ Put(v, life).until = clock + life
    BY DEF Put, Dated

(* A counter is a number. *)
LEMMA GetIsNumber ==
    ASSUME NEW e \in Dated
    PROVE  Get(e) \in Nat
    BY DEF Get, Dated

(* What a check makes of the record of a peer. *)
LEMMA ObservedType ==
    ASSUME MetaTypes, NEW p \in Contacts
    PROVE  /\ Observed(p) \in [count : Nat, heard : Nat \cup {Never}]
           /\ Observed(p) # Unseen
           /\ Observed(p).count >= Get(completed[p])
           /\ Observed(p).heard # clock => Observed(p).heard \in {Never, contact[p].heard}
           /\ Observed(p).heard = clock => \/ contact[p].heard = clock
                                           \/ /\ contact[p] # Unseen
                                              /\ contact[p].count < Get(completed[p])
<1> DEFINE n == Get(completed[p])
<1>1. n \in Nat
    BY GetIsNumber DEF MetaTypes
<1>2. clock \in Nat
    BY DEF MetaTypes
<1>3. CASE contact[p] = Unseen
    <2>1. Observed(p) = [count |-> n, heard |-> Never]
        BY <1>1, <1>3 DEF Observed
    <2> HIDE DEF n
    <2>2. QED
        BY <1>1, <1>2, <2>1 DEF Unseen, Never, n
<1>4. CASE contact[p] # Unseen
    <2>1. contact[p] \in [count : Nat, heard : Nat \cup {Never}]
        BY <1>4 DEF MetaTypes
    <2>2. Observed(p) = IF n > contact[p].count THEN [count |-> n, heard |-> clock]
                                                ELSE contact[p]
        BY <1>4 DEF Observed
    <2> HIDE DEF n
    <2>3. QED
        BY <1>1, <1>2, <1>4, <2>1, <2>2 DEF Unseen, Never, n
<1>5. QED
    BY <1>3, <1>4

(* Every step keeps the types. *)
LEMMA MetaTypeStep ==
    ASSUME MetaTypes, [PeerMetaNext]_peerMetaVars
    PROVE  MetaTypes'
<1> USE MetaNumbers DEF MetaTypes, Never
<1>1. ASSUME NEW p \in Contacts, SignInfo(p)
      PROVE  MetaTypes'
    BY <1>1 DEF SignInfo, stored, learned
<1>2. ASSUME NEW p \in Contacts, ReceiveInfo(p)
      PROVE  MetaTypes'
    BY <1>2 DEF ReceiveInfo, stored, learned
<1>3. ASSUME NEW t \in Rounds, NEW p \in Contacts, RoundEnds(t, p)
      PROVE  MetaTypes'
    <2>1. Get(completed[p]) \in Nat
        BY GetIsNumber
    <2>2. [peer |-> p, read |-> Get(completed[p])] \in [peer : Contacts, read : Nat]
        BY <2>1
    <2>3. QED
        BY <1>3, <2>2 DEF RoundEnds, infos, stored, learned
<1>4. ASSUME NEW t \in Rounds, CountRound(t)
      PROVE  MetaTypes'
    <2>1. ending[t] \in [peer : Contacts, read : Nat]
        BY <1>4 DEF CountRound
    <2>2. Put(ending[t].read + 1, CountLife) \in Dated
        BY <2>1, PutIsEntry
    <2>3. QED
        BY <1>4, <2>1, <2>2 DEF CountRound, infos, learned
<1>5. ASSUME Check
      PROVE  MetaTypes'
    <2>1. \A p \in Contacts : Observed(p) \in [count : Nat, heard : Nat \cup {Never}]
        BY ObservedType
    <2>2. contact' \in [Contacts -> {Unseen} \cup [count : Nat, heard : Nat \cup {Never}]]
        BY <1>5, <2>1 DEF Check
    <2>3. QED
        BY <1>5, <2>2 DEF Check, infos, stored
<1>6. ASSUME NEW p \in Contacts, ProbeEnds(p)
      PROVE  MetaTypes'
    <2>1. clock < info[p] => Put(clock, info[p] - clock) \in Dated
        BY PutIsEntry
    <2>2. mark' \in [Contacts -> Dated]
        BY <1>6, <2>1 DEF ProbeEnds, SetUnresponsive
    <2>3. QED
        BY <1>6, <2>2 DEF ProbeEnds, infos, learned
<1>7. ASSUME NEW p \in Contacts, PeerDies(p)
      PROVE  MetaTypes'
    BY <1>7 DEF PeerDies, infos, stored, learned
<1>8. ASSUME Restart
      PROVE  MetaTypes'
    BY <1>8 DEF Restart, Forgetful, infos, stored
<1>9. ASSUME PassTime
      PROVE  MetaTypes'
    BY <1>9 DEF PassTime, infos, stored, learned
<1>10. ASSUME UNCHANGED peerMetaVars
       PROVE  MetaTypes'
    BY <1>10 DEF peerMetaVars
<1>11. QED
    BY <1>1, <1>2, <1>3, <1>4, <1>5, <1>6, <1>7, <1>8, <1>9, <1>10 DEF PeerMetaNext

(* What a step does to the times of one peer. *)
LEMMA TimesOfAPeer ==
    ASSUME MetaTypes, NEW p \in Contacts, ContactInv(p), [PeerMetaNext]_peerMetaVars
    PROVE  /\ clock' >= clock
           /\ \/ death'[p] = death[p]
              \/ death[p] = Never /\ death'[p] = clock /\ clock' = clock
           /\ \/ arrived'[p] = arrived[p]
              \/ death[p] # Never /\ arrived'[p] = clock /\ clock' = clock
           /\ mark'[p].until >= mark[p].until /\ mark'[p].until <= info'[p]
           /\ info'[p] >= info[p]
<1> USE MetaNumbers DEF MetaTypes, Dated, Never
<1>1. ASSUME NEW q \in Contacts, SignInfo(q) \/ ReceiveInfo(q)
      PROVE  /\ info'[p] >= info[p] /\ clock' = clock /\ death' = death /\ mark' = mark
             /\ arrived'[p] = arrived[p] \/ (death[p] # Never /\ arrived'[p] = clock)
    <2>1. CASE SignInfo(q)
        BY <2>1 DEF SignInfo, stored
    <2>2. CASE ReceiveInfo(q)
        <3>1. info' = [info EXCEPT ![q] = signed[q]] /\ info[q] < signed[q]
              /\ clock' = clock /\ death' = death /\ mark' = mark
            BY <2>2 DEF ReceiveInfo, stored
        <3>2. arrived' = arrived \/ (death[q] # Never /\ arrived' = [arrived EXCEPT ![q] = clock])
            BY <2>2 DEF ReceiveInfo
        <3>3. arrived'[p] = arrived[p] \/ (death[p] # Never /\ arrived'[p] = clock)
            BY <3>2
        <3>4. info'[p] >= info[p]
            BY <3>1
        <3>5. QED
            BY <3>1, <3>3, <3>4
    <2>3. QED
        BY <1>1, <2>1, <2>2
<1>2. ASSUME NEW q \in Contacts, ProbeEnds(q)
      PROVE  /\ clock' = clock /\ death' = death /\ arrived' = arrived /\ info' = info
             /\ mark'[p].until >= mark[p].until /\ mark'[p].until <= info[p]
    <2>1. mark' = mark \/ (clock < info[q] /\ mark' = [mark EXCEPT ![q] = Put(clock, info[q] - clock)])
        BY <1>2 DEF ProbeEnds, SetUnresponsive
    <2>2. clock < info[q] => Put(clock, info[q] - clock).until = info[q]
        BY DEF Put
    <2>3. mark'[p].until = mark[p].until \/ mark'[p].until = info[p]
        BY <2>1, <2>2
    <2>4. QED
        BY <1>2, <2>3 DEF ProbeEnds, infos, ContactInv
<1>3. ASSUME NEW q \in Contacts, PeerDies(q)
      PROVE  /\ clock' = clock /\ mark' = mark /\ arrived' = arrived /\ info' = info
             /\ death'[p] = death[p] \/ (death[p] = Never /\ death'[p] = clock)
    <2>1. /\ death' = [death EXCEPT ![q] = clock] /\ death[q] = Never
          /\ clock' = clock /\ mark' = mark /\ arrived' = arrived /\ info' = info
        BY <1>3 DEF PeerDies, infos, stored
    <2>2. death'[p] = death[p] \/ (death[p] = Never /\ death'[p] = clock)
        BY <2>1
    <2>3. QED
        BY <2>1, <2>2
<1>4. ASSUME PassTime
      PROVE  /\ clock' >= clock /\ death' = death /\ mark' = mark
             /\ arrived' = arrived /\ info' = info
    BY <1>4 DEF PassTime, infos, stored
<1>5. ASSUME \/ \E t \in Rounds, q \in Contacts : RoundEnds(t, q)
             \/ \E t \in Rounds : CountRound(t)
             \/ Check \/ Restart \/ UNCHANGED peerMetaVars
      PROVE  /\ clock' = clock /\ death' = death /\ mark' = mark
             /\ arrived' = arrived /\ info' = info
    BY <1>5 DEF RoundEnds, CountRound, Check, Restart, peerMetaVars, infos, stored
<1>6. /\ mark[p].until <= info[p]
      /\ clock \in Nat /\ clock' \in Nat /\ info[p] \in Nat /\ info'[p] \in Nat
      /\ mark[p].until \in Nat /\ mark'[p].until \in Nat
    BY MetaTypeStep DEF ContactInv
<1>7. \/ \E q \in Contacts : SignInfo(q) \/ ReceiveInfo(q)
      \/ \E q \in Contacts : ProbeEnds(q)
      \/ \E q \in Contacts : PeerDies(q)
      \/ PassTime
      \/ \/ \E t \in Rounds, q \in Contacts : RoundEnds(t, q)
         \/ \E t \in Rounds : CountRound(t)
         \/ Check \/ Restart \/ UNCHANGED peerMetaVars
    BY DEF PeerMetaNext
<1> DEFINE still == clock' = clock /\ mark' = mark
           dies == \/ death'[p] = death[p]
                   \/ death[p] = Never /\ death'[p] = clock /\ clock' = clock
           comes == \/ arrived'[p] = arrived[p]
                    \/ death[p] # Never /\ arrived'[p] = clock /\ clock' = clock
           goes == /\ clock' >= clock /\ info'[p] >= info[p]
                   /\ mark'[p].until >= mark[p].until /\ mark'[p].until <= info'[p]
<1>8. dies
    BY <1>1, <1>2, <1>3, <1>4, <1>5, <1>7, Zenon
<1>9. comes
    BY <1>1, <1>2, <1>3, <1>4, <1>5, <1>7, Zenon
<1>10. ASSUME mark' = mark, info'[p] >= info[p], clock' >= clock
       PROVE  goes
    BY <1>6, <1>10
<1>11. goes
    <2>1. clock' = clock => clock' >= clock
        BY <1>6
    <2>2. info' = info => info'[p] >= info[p]
        BY <1>6
    <2>3. ASSUME NEW q \in Contacts, ProbeEnds(q)
          PROVE  goes
        BY <1>2, <2>1, <2>2, <2>3
    <2>4. QED
        BY <1>1, <1>3, <1>4, <1>5, <1>7, <1>10, <2>1, <2>2, <2>3, Zenon
<1>12. QED
    BY <1>8, <1>9, <1>11

(* Since never goes back. *)
LEMMA SinceGrows ==
    ASSUME MetaTypes, NEW p \in Contacts, ContactInv(p), [PeerMetaNext]_peerMetaVars
    PROVE  /\ Since(p)' >= Since(p) /\ Since(p)' \in Nat
           /\ arrived'[p] <= Since(p)' /\ death'[p] <= Since(p)' /\ mark'[p].until <= Since(p)'
<1>1. MetaTypes'
    BY MetaTypeStep
<1>2. /\ arrived[p] \in Nat /\ death[p] \in Nat \cup {Never} /\ mark[p].until \in Nat
      /\ arrived'[p] \in Nat /\ death'[p] \in Nat \cup {Never} /\ mark'[p].until \in Nat
      /\ clock \in Nat
    BY <1>1 DEF MetaTypes, Dated
<1>3. arrived'[p] >= arrived[p] /\ death'[p] >= death[p] /\ mark'[p].until >= mark[p].until
    BY <1>2, TimesOfAPeer DEF ContactInv, Never
<1>4. QED
    BY <1>2, <1>3 DEF Since, Later, Never

(* The check runs in time. *)
LEMMA CheckStep ==
    ASSUME MetaTypes, CheckInv, [PeerMetaNext]_peerMetaVars
    PROVE  CheckInv'
<1> USE MetaNumbers DEF MetaTypes, CheckInv
<1>1. CASE Check
    BY <1>1 DEF Check
<1>2. CASE Restart
    BY <1>2 DEF Restart, Forgetful
<1>3. CASE PassTime
    BY <1>3 DEF PassTime, learned
<1>4. CASE \/ \E p \in Contacts : SignInfo(p) \/ ReceiveInfo(p) \/ ProbeEnds(p) \/ PeerDies(p)
           \/ \E t \in Rounds, p \in Contacts : RoundEnds(t, p)
           \/ \E t \in Rounds : CountRound(t)
           \/ UNCHANGED peerMetaVars
    <2>1. clock' = clock /\ checked' = checked
        BY <1>4 DEF SignInfo, ReceiveInfo, ProbeEnds, PeerDies, RoundEnds, CountRound,
                    learned, peerMetaVars
    <2>2. QED
        BY <2>1
<1>5. QED
    BY <1>1, <1>2, <1>3, <1>4 DEF PeerMetaNext

(* Nothing is remembered that lies ahead of the clock. *)
LEMMA ContactStep ==
    ASSUME MetaTypes, CheckInv, NEW p \in Contacts, ContactInv(p), [PeerMetaNext]_peerMetaVars
    PROVE  ContactInv(p)'
<1> USE MetaNumbers DEF MetaTypes, Dated, Never
<1>1. /\ clock' >= clock /\ death'[p] <= clock' /\ arrived'[p] <= clock'
      /\ mark'[p].until <= info'[p]
    <2>1. clock \in Nat /\ clock' \in Nat /\ death[p] \in Nat \cup {Never} /\ arrived[p] \in Nat
        BY MetaTypeStep
    <2>2. death[p] <= clock /\ arrived[p] <= clock
        BY DEF ContactInv
    <2>3. QED
        BY <2>1, <2>2, TimesOfAPeer
<1>2. CASE Check
    <2>1. PICK lag \in LagEstimate :
            LET present == {q \in Contacts : clock < info[q]} \ Marked
                due     == {q \in present : ProbeDue(q)}
            IN  /\ checked' = clock
                /\ stayers' = present \ Silent(present, lag)
                /\ contact' = [q \in Contacts |->
                                  IF q \in present THEN Observed(q) ELSE contact[q]]
                /\ lastProbe' = [q \in Contacts |->
                                    IF q \in due THEN clock ELSE lastProbe[q]]
                /\ probing' = [q \in Contacts |->
                                  IF q \in due /\ probing[q] = Never THEN clock
                                  ELSE probing[q]]
                /\ clock' = clock
        BY <1>2 DEF Check
    <2>2. /\ Observed(p).heard \in Nat \cup {Never}
          /\ Observed(p).heard = clock \/ Observed(p).heard \in {Never, contact[p].heard}
        BY ObservedType
    <2>3. contact'[p].heard <= clock /\ lastProbe'[p] <= clock
        BY <2>1, <2>2 DEF ContactInv
    <2>4. probing'[p] # Never => probing'[p] <= clock /\ clock <= probing'[p] + SendTime
        BY <2>1 DEF ContactInv
    <2>5. ASSUME p \in stayers'
          PROVE  contact'[p].heard # Never /\ checked' < contact'[p].heard + MaxWait
        <3>1. contact'[p] = Observed(p) /\ p \notin Silent({q \in Contacts : clock < info[q]} \ Marked, lag)
              /\ p \in {q \in Contacts : clock < info[q]} \ Marked
            BY <2>1, <2>5
        <3>2. Observed(p).heard # Never /\ ~(clock - Observed(p).heard >= WaitFor(lag))
            BY <3>1 DEF Silent
        <3>3. QED
            BY <2>1, <2>2, <3>1, <3>2, WaitsAreBounded
    <2>6. QED
        BY <1>1, <2>1, <2>3, <2>4, <2>5 DEF ContactInv
<1>3. CASE Restart
    BY <1>1, <1>3 DEF Restart, Forgetful, Unseen, ContactInv
<1>4. CASE PassTime
    <2>1. /\ UNCHANGED <<contact, lastProbe, stayers, checked, probing>>
          /\ clock' = clock + 1
          /\ probing[p] # Never => clock < probing[p] + SendTime
        BY <1>4 DEF PassTime, learned
    <2>2. contact[p].heard \in Nat \cup {Never}
        BY DEF Unseen
    <2>3. QED
        BY <1>1, <2>1, <2>2 DEF ContactInv
<1>5. CASE \E q \in Contacts : ProbeEnds(q)
    <2>1. /\ UNCHANGED <<contact, lastProbe, stayers, checked, clock>>
          /\ probing'[p] \in {probing[p], Never}
        BY <1>5 DEF ProbeEnds, learned
    <2>2. QED
        BY <1>1, <2>1 DEF ContactInv
<1>6. CASE \/ \E q \in Contacts : SignInfo(q) \/ ReceiveInfo(q) \/ PeerDies(q)
           \/ \E t \in Rounds, q \in Contacts : RoundEnds(t, q)
           \/ \E t \in Rounds : CountRound(t)
           \/ UNCHANGED peerMetaVars
    <2>1. UNCHANGED <<contact, lastProbe, stayers, checked, clock, probing>>
        BY <1>6 DEF SignInfo, ReceiveInfo, PeerDies, RoundEnds, CountRound,
                    learned, peerMetaVars
    <2>2. QED
        BY <1>1, <2>1 DEF ContactInv
<1>7. QED
    BY <1>2, <1>3, <1>4, <1>5, <1>6 DEF PeerMetaNext

(* A peer that just died was seen by no check since. *)
LEMMA DeathIsNews ==
    ASSUME MetaTypes, CheckInv, NEW p \in Contacts, ContactInv(p),
           [PeerMetaNext]_peerMetaVars, death[p] = Never, death'[p] # Never
    PROVE  /\ PeerDies(p)
           /\ Since(p)' >= clock
           /\ UNCHANGED <<clock, infos, stored, ending, learned, probing, restarts>>
<1>1. PeerDies(p)
    BY DEF PeerMetaNext, SignInfo, ReceiveInfo, RoundEnds, CountRound, Check, ProbeEnds,
           PeerDies, Restart, PassTime, peerMetaVars, MetaTypes
<1>2. death'[p] = clock
    BY <1>1 DEF PeerDies, MetaTypes
<1>3. Since(p)' >= death'[p] /\ clock \in Nat /\ Since(p)' \in Nat
    BY SinceGrows, <1>2 DEF MetaTypes
<1>4. QED
    BY <1>1, <1>2, <1>3 DEF PeerDies

(* A step leaves a dead peer dead. *)
LEMMA DeadStayDead ==
    ASSUME MetaTypes, NEW p \in Contacts, ContactInv(p), [PeerMetaNext]_peerMetaVars,
           death[p] # Never
    PROVE  death'[p] = death[p]
    BY TimesOfAPeer

(* Nobody counts rounds with a dead peer. *)
LEMMA EndingStep ==
    ASSUME MetaTypes, NEW p \in Contacts, [PeerMetaNext]_peerMetaVars, death[p] # Never,
           \A t \in Rounds : ending[t] # Absent => ending[t].peer # p
    PROVE  /\ \A t \in Rounds : ending'[t] # Absent => ending'[t].peer # p
           /\ completed'[p] = completed[p]
<1>1. ASSUME NEW q \in Contacts, NEW t \in Rounds, RoundEnds(t, q)
      PROVE  /\ \A u \in Rounds : ending'[u] # Absent => ending'[u].peer # p
             /\ completed'[p] = completed[p]
    <2>1. q # p
        BY <1>1 DEF RoundEnds
    <2>2. QED
        BY <1>1, <2>1 DEF RoundEnds, stored, MetaTypes
<1>2. ASSUME NEW t \in Rounds, CountRound(t)
      PROVE  /\ \A u \in Rounds : ending'[u] # Absent => ending'[u].peer # p
             /\ completed'[p] = completed[p]
    <2>1. ending[t].peer # p
        BY <1>2 DEF CountRound
    <2>2. QED
        BY <1>2, <2>1 DEF CountRound, MetaTypes
<1>3. CASE Restart
    BY <1>3 DEF Restart, Forgetful, stored
<1>4. CASE \/ \E q \in Contacts : SignInfo(q) \/ ReceiveInfo(q) \/ ProbeEnds(q) \/ PeerDies(q)
           \/ Check \/ PassTime \/ UNCHANGED peerMetaVars
    <2>1. ending' = ending /\ completed' = completed
        BY <1>4 DEF SignInfo, ReceiveInfo, ProbeEnds, PeerDies, Check, PassTime, stored,
                    peerMetaVars
    <2>2. QED
        BY <2>1
<1>5. QED
    BY <1>1, <1>2, <1>3, <1>4 DEF PeerMetaNext

(* An entry can only lapse. *)
LEMMA EntriesLapse ==
    ASSUME clock \in Nat, clock' \in Nat, clock' >= clock, NEW e \in Dated
    PROVE  Get(e)' \in {Get(e), 0}
    BY DEF Get, Present, Dated

(* What is known of a dead peer is not renewed. *)
LEMMA SilenceStep ==
    ASSUME MetaTypes, CheckInv, NEW p \in Contacts, ContactInv(p), SilenceInv(p),
           [PeerMetaNext]_peerMetaVars
    PROVE  SilenceInv(p)'
<1> SUFFICES ASSUME death'[p] # Never
             PROVE  /\ \A t \in Rounds : ending'[t] # Absent => ending'[t].peer # p
                    /\ contact'[p].heard <= Since(p)' + Every
                    /\ \/ contact'[p] = Unseen
                       \/ contact'[p].count >= Get(completed[p])'
                       \/ checked' <= Since(p)'
                       \/ info'[p] <= checked'
    BY DEF SilenceInv
<1> USE MetaNumbers DEF Never
<1>1. MetaTypes' /\ CheckInv' /\ ContactInv(p)'
    BY MetaTypeStep, CheckStep, ContactStep
<1>2. /\ clock \in Nat /\ clock' \in Nat /\ checked \in Nat /\ checked' \in Nat
      /\ contact[p].heard \in Nat \cup {Never} /\ contact'[p].heard \in Nat \cup {Never}
      /\ info[p] \in Nat /\ info'[p] \in Nat /\ mark[p].until \in Nat
      /\ completed[p] \in Dated
      /\ contact[p] # Unseen => contact[p].count \in Nat
      /\ contact'[p] # Unseen => contact'[p].count \in Nat
    BY <1>1 DEF MetaTypes, Dated, Unseen
<1>3. Since(p) \in Nat /\ Since(p)' \in Nat /\ Since(p)' >= Since(p)
    BY SinceGrows, SinceIsLatest
<1> DEFINE heard == contact'[p].heard <= Since(p)' + Every
           known == \/ contact'[p] = Unseen
                    \/ contact'[p].count >= Get(completed[p])'
                    \/ checked' <= Since(p)'
                    \/ info'[p] <= checked'
<1>4. CASE death[p] = Never
    <2>1. /\ PeerDies(p) /\ Since(p)' >= clock
          /\ ending' = ending /\ contact' = contact /\ checked' = checked
        BY <1>4, DeathIsNews DEF learned
    <2>2. \A t \in Rounds : ending[t] # Absent => ending[t].peer # p
        BY <2>1 DEF PeerDies
    <2>3. QED
        BY <1>2, <1>3, <2>1, <2>2 DEF ContactInv, CheckInv, Never
<1>5. CASE death[p] # Never
    <2>1. /\ \A t \in Rounds : ending[t] # Absent => ending[t].peer # p
          /\ contact[p].heard <= Since(p) + Every
          /\ \/ contact[p] = Unseen
             \/ contact[p].count >= Get(completed[p])
             \/ checked <= Since(p)
             \/ info[p] <= checked
        BY <1>5 DEF SilenceInv
    <2>2. /\ \A t \in Rounds : ending'[t] # Absent => ending'[t].peer # p
          /\ completed'[p] = completed[p]
        BY <1>5, <2>1, EndingStep
    <2>3. Get(completed[p]) \in Nat
        BY <1>2, GetIsNumber
    <2>4. Get(completed[p])' \in {Get(completed[p]), 0}
        <3>1. clock' >= clock
            BY TimesOfAPeer
        <3>2. QED
            BY <1>2, <2>2, <3>1 DEF Get, Present, Dated
    \* Nothing changes as long as no check runs and no info arrives.
    <2>5. ASSUME contact'[p] = contact[p], checked' = checked, info'[p] = info[p]
          PROVE  heard /\ known
        <3>1. heard
            BY <1>2, <1>3, <2>1, <2>5
        <3>2. ASSUME contact[p] # Unseen, contact[p].count >= Get(completed[p])
              PROVE  known
            BY <1>2, <2>3, <2>4, <2>5, <3>2
        <3>3. ASSUME checked <= Since(p)
              PROVE  known
            BY <1>2, <1>3, <2>5, <3>3
        <3>4. known
            BY <2>1, <2>5, <3>2, <3>3
        <3>5. QED
            BY <3>1, <3>4
    <2>6. CASE Check
        <3> DEFINE present == {q \in Contacts : clock < info[q]} \ Marked
        <3>1. /\ contact'[p] = IF p \in present THEN Observed(p) ELSE contact[p]
              /\ checked' = clock /\ clock' = clock /\ info' = info /\ completed' = completed
            BY <2>6 DEF Check, infos, stored
        <3>2. CASE p \in present
            <4>1. /\ Observed(p) # Unseen /\ Observed(p).count >= Get(completed[p])
                  /\ Observed(p).heard # clock => Observed(p).heard \in {Never, contact[p].heard}
                  /\ Observed(p).heard = clock =>
                        \/ contact[p].heard = clock
                        \/ contact[p] # Unseen /\ contact[p].count < Get(completed[p])
                BY ObservedType
            <4>2. clock < info[p] /\ checked <= clock /\ clock <= checked + Every
                BY <3>2 DEF CheckInv
            <4>3. Observed(p).heard <= Since(p) + Every
                BY <1>2, <1>3, <2>1, <2>3, <4>1, <4>2 DEF Never
            <4>4. contact'[p] = Observed(p)
                BY <3>1, <3>2
            <4>5. Get(completed[p])' = Get(completed[p])
                BY <3>1 DEF Get, Present
            <4>6. heard
                BY <1>2, <1>3, <4>3, <4>4
            <4>7. known
                BY <4>1, <4>4, <4>5
            <4>8. QED
                BY <2>2, <4>6, <4>7
        <3>3. CASE p \notin present
            <4>1. info[p] <= clock \/ clock < mark[p].until
                BY <1>2, <3>3 DEF Marked, Present
            <4>2. mark[p].until <= Since(p)
                BY SinceIsLatest
            <4>3. info'[p] <= checked' \/ checked' <= Since(p)'
                BY <1>2, <1>3, <3>1, <4>1, <4>2
            <4>4. contact'[p] = contact[p]
                BY <3>1, <3>3
            <4>5. heard
                BY <1>2, <1>3, <2>1, <4>4
            <4>6. QED
                BY <2>2, <4>3, <4>5
        <3>4. QED
            BY <3>2, <3>3
    <2>7. CASE Restart
        BY <1>2, <1>3, <2>2, <2>7 DEF Restart, Forgetful, Unseen, Never
    <2>8. CASE ReceiveInfo(p)
        <3>1. /\ arrived'[p] = clock /\ contact' = contact /\ checked' = checked
            BY <1>5, <2>8 DEF ReceiveInfo, learned, MetaTypes
        <3>2. clock <= Since(p)'
            BY <1>2, <3>1, SinceGrows
        <3>3. heard
            BY <1>2, <1>3, <2>1, <3>1
        <3>4. checked' <= Since(p)'
            BY <1>2, <1>3, <3>1, <3>2 DEF CheckInv
        <3>5. QED
            BY <2>2, <3>3, <3>4
    <2>9. CASE \/ \E q \in Contacts : \/ SignInfo(q) \/ ProbeEnds(q) \/ PeerDies(q)
                                      \/ (ReceiveInfo(q) /\ q # p)
               \/ \E t \in Rounds, q \in Contacts : RoundEnds(t, q)
               \/ \E t \in Rounds : CountRound(t)
               \/ PassTime \/ UNCHANGED peerMetaVars
        <3>1. contact' = contact /\ checked' = checked /\ info'[p] = info[p]
            BY <2>9 DEF SignInfo, ReceiveInfo, ProbeEnds, PeerDies, RoundEnds, CountRound,
                        PassTime, learned, infos, peerMetaVars, MetaTypes
        <3>2. QED
            BY <2>2, <2>5, <3>1
    <2>10. QED
        BY <2>6, <2>7, <2>8, <2>9 DEF PeerMetaNext
<1>6. QED
    BY <1>4, <1>5

(* The probe of a dead peer has started by ProbedBy, and ends soon after;  *)
(* until then the clock is not far.                                        *)
LEMMA ProbeIsSoon ==
    ASSUME MetaTypes, CheckInv, NEW p \in Contacts, ContactInv(p), ProbeInv(p),
           death[p] # Never, clock < info[p]
    PROVE  clock <= ProbedBy(p) + SendTime
<1>1. /\ clock \in Nat /\ checked \in Nat /\ info[p] \in Nat
      /\ probing[p] \in Nat \cup {Never}
    BY DEF MetaTypes
<1>2. ProbedBy(p) \in Nat
    BY SinceIsLatest, DelayIsTime, MetaNumbers DEF MetaTypes, ProbedBy
<1>3. CASE probing[p] # Never
    BY <1>1, <1>2, <1>3, MetaNumbers DEF ProbeInv, ContactInv
<1>4. CASE probing[p] = Never
    BY <1>1, <1>2, <1>4, MetaNumbers DEF ProbeInv, CheckInv
<1>5. QED
    BY <1>3, <1>4

(* Nor does ProbedBy go back. *)
LEMMA ProbedByGrows ==
    ASSUME MetaTypes, NEW p \in Contacts, ContactInv(p), [PeerMetaNext]_peerMetaVars
    PROVE  /\ ProbedBy(p) \in Nat /\ ProbedBy(p)' \in Nat /\ ProbedBy(p)' >= ProbedBy(p)
           /\ ProbedBy(p) >= Since(p) + ProbeEvery + Every
           /\ ProbedBy(p)' >= Since(p)' + ProbeEvery + Every
           /\ Restart => ProbedBy(p)' >= ProbedBy(p) + Every + SendTime
<1> USE MetaNumbers
<1>1. restarts \in Nat /\ restarts' \in Nat
    BY MetaTypeStep DEF MetaTypes
<1>2. restarts' = restarts \/ (restarts' = restarts + 1 /\ Restart)
    BY DEF PeerMetaNext, SignInfo, ReceiveInfo, RoundEnds, CountRound, Check, ProbeEnds,
           PeerDies, Restart, PassTime, peerMetaVars
<1>3. Restart => restarts' = restarts + 1
    BY DEF Restart
<1>4. Delay \in Nat
    BY <1>1, DelayIsTime
<1>5. Delay' \in Nat /\ Delay' >= Delay /\ (Restart => Delay' = Delay + Every + SendTime)
    BY <1>1, <1>2, <1>3, <1>4, DelayIsTime
<1>6. Since(p) \in Nat /\ Since(p)' \in Nat /\ Since(p)' >= Since(p)
    BY SinceGrows, SinceIsLatest
<1>7. ProbedBy(p) = Since(p) + ProbeEvery + Every + Delay
    BY DEF ProbedBy
<1>8. ProbedBy(p)' = Since(p)' + ProbeEvery + Every + Delay'
    BY DEF ProbedBy
<1>9. QED
    BY <1>4, <1>5, <1>6, <1>7, <1>8

(* A dead peer is probed in time. *)
LEMMA ProbeStep ==
    ASSUME MetaTypes, CheckInv, NEW p \in Contacts, ContactInv(p), ProbeInv(p),
           [PeerMetaNext]_peerMetaVars
    PROVE  ProbeInv(p)'
<1> USE MetaNumbers DEF Never
<1> DEFINE probed == lastProbe'[p] # Never => \/ probing'[p] # Never
                                              \/ lastProbe'[p] <= Since(p)'
                                              \/ info'[p] <= clock'
           intime == probing'[p] # Never => probing'[p] <= ProbedBy(p)'
           next   == \/ probing'[p] # Never
                     \/ info'[p] <= clock'
                     \/ checked' + Every <= ProbedBy(p)'
           counted == p \in growers' => checked' <= ProbedBy(p)' + SendTime
<1> SUFFICES ASSUME death'[p] # Never
             PROVE  probed /\ intime /\ next /\ counted
    BY DEF ProbeInv
<1>1. MetaTypes'
    BY MetaTypeStep
<1>2. /\ clock \in Nat /\ clock' \in Nat /\ checked \in Nat /\ checked' \in Nat
      /\ info[p] \in Nat /\ info'[p] \in Nat /\ mark[p].until \in Nat
      /\ probing[p] \in Nat \cup {Never} /\ probing'[p] \in Nat \cup {Never}
      /\ lastProbe[p] \in Nat \cup {Never} /\ lastProbe'[p] \in Nat \cup {Never}
    BY <1>1 DEF MetaTypes, Dated
<1>3. Since(p) \in Nat /\ Since(p)' \in Nat /\ Since(p)' >= Since(p)
    BY SinceGrows, SinceIsLatest
<1>4. /\ ProbedBy(p) \in Nat /\ ProbedBy(p)' \in Nat /\ ProbedBy(p)' >= ProbedBy(p)
      /\ ProbedBy(p) >= Since(p) + ProbeEvery + Every
      /\ ProbedBy(p)' >= Since(p)' + ProbeEvery + Every
    BY ProbedByGrows
<1>5. /\ checked <= clock /\ clock <= checked + Every /\ lastProbe[p] <= clock
      /\ probing[p] # Never => probing[p] <= clock
    BY DEF CheckInv, ContactInv
<1>6. CASE death[p] = Never
    <2>1. /\ Since(p)' >= clock /\ clock' = clock /\ checked' = checked
          /\ lastProbe' = lastProbe /\ probing' = probing
        BY <1>6, DeathIsNews DEF learned
    <2>2. QED
        BY <1>2, <1>3, <1>4, <1>5, <2>1
<1>7. CASE death[p] # Never
    <2>1. /\ lastProbe[p] # Never => \/ probing[p] # Never
                                     \/ lastProbe[p] <= Since(p)
                                     \/ info[p] <= clock
          /\ probing[p] # Never => probing[p] <= ProbedBy(p)
          /\ \/ probing[p] # Never
             \/ info[p] <= clock
             \/ checked + Every <= ProbedBy(p)
          /\ p \in growers => checked <= ProbedBy(p) + SendTime
        BY <1>7 DEF ProbeInv
    <2>2. clock < info[p] => clock <= ProbedBy(p) + SendTime
        BY <1>7, ProbeIsSoon
    <2>3. CASE Check
        <3> DEFINE present == {q \in Contacts : clock < info[q]} \ Marked
        <3>1. /\ checked' = clock /\ clock' = clock /\ info' = info
              /\ growers' = present
              /\ lastProbe'[p] = IF p \in present /\ ProbeDue(p) THEN clock ELSE lastProbe[p]
              /\ probing'[p] = IF p \in present /\ ProbeDue(p) /\ probing[p] = Never THEN clock
                               ELSE probing[p]
            BY <2>3 DEF Check, infos
        <3>2. CASE p \in present /\ ProbeDue(p)
            <4>1. clock < info[p] /\ lastProbe'[p] = clock
                  /\ probing'[p] = IF probing[p] = Never THEN clock ELSE probing[p]
                BY <3>1, <3>2
            <4>2. probing'[p] # Never
                BY <1>2, <4>1
            <4>3. intime
                BY <1>2, <1>4, <1>5, <2>1, <4>1
            <4>4. counted
                BY <1>2, <1>4, <2>2, <3>1, <4>1
            <4>5. QED
                BY <4>2, <4>3, <4>4
        <3>3. CASE p \in present /\ ~ProbeDue(p)
            <4>1. clock < info[p] /\ lastProbe'[p] = lastProbe[p] /\ probing'[p] = probing[p]
                BY <3>1, <3>3
            <4>2. lastProbe[p] # Never /\ clock < lastProbe[p] + ProbeEvery
                BY <1>2, <3>3 DEF ProbeDue
            <4>3. probed /\ intime
                BY <1>2, <1>3, <1>4, <2>1, <3>1, <4>1
            <4>4. counted
                BY <1>2, <1>4, <2>2, <3>1, <4>1
            <4>5. next
                BY <1>2, <1>3, <1>4, <2>1, <3>1, <4>1, <4>2
            <4>6. QED
                BY <4>3, <4>4, <4>5
        <3>4. CASE p \notin present
            <4>1. info[p] <= clock \/ clock < mark[p].until
                BY <1>2, <3>4 DEF Marked, Present
            <4>2. mark[p].until <= Since(p)
                BY SinceIsLatest
            <4>3. lastProbe'[p] = lastProbe[p] /\ probing'[p] = probing[p] /\ p \notin growers'
                BY <3>1, <3>4
            <4>4. probed /\ intime /\ counted
                BY <1>2, <1>3, <1>4, <2>1, <3>1, <4>3
            <4>5. next
                BY <1>2, <1>3, <1>4, <3>1, <4>1, <4>2, <4>3
            <4>6. QED
                BY <4>4, <4>5
        <3>5. QED
            BY <3>2, <3>3, <3>4
    <2>4. CASE Restart
        <3>1. /\ lastProbe'[p] = Never /\ probing'[p] = Never /\ growers' = {}
              /\ checked' = clock /\ clock' = clock /\ info' = info
            BY <2>4 DEF Restart, Forgetful, infos
        <3>2. ProbedBy(p)' >= ProbedBy(p) + Every + SendTime
            BY <2>4, ProbedByGrows
        <3>3. next
            BY <1>2, <1>4, <2>2, <3>1, <3>2
        <3>4. QED
            BY <3>1, <3>3
    <2>5. CASE ReceiveInfo(p)
        <3>1. /\ arrived'[p] = clock /\ clock' = clock /\ checked' = checked /\ probing' = probing
              /\ lastProbe' = lastProbe /\ growers' = growers
            BY <1>7, <2>5 DEF ReceiveInfo, learned, MetaTypes
        <3>2. clock <= Since(p)'
            BY <1>2, <3>1, SinceGrows
        <3>3. QED
            BY <1>2, <1>3, <1>4, <1>5, <2>1, <3>1, <3>2
    <2>6. CASE ProbeEnds(p)
        <3>1. /\ probing'[p] = Never /\ clock' = clock /\ checked' = checked /\ info' = info
              /\ lastProbe' = lastProbe /\ growers' = growers
            BY <2>6 DEF ProbeEnds, learned, infos, MetaTypes
        <3>2. CASE clock < info[p]
            <4>1. mark'[p].until = clock + (info[p] - clock)
                BY <1>7, <2>6, <3>2 DEF ProbeEnds, SetUnresponsive, Put, MetaTypes
            <4>2. Since(p)' >= info[p]
                BY <1>2, <4>1, SinceGrows
            <4>3. QED
                BY <1>2, <1>3, <1>4, <1>5, <2>1, <3>1, <3>2, <4>2
        <3>3. CASE ~(clock < info[p])
            BY <1>2, <1>4, <2>1, <3>1, <3>3
        <3>4. QED
            BY <3>2, <3>3
    \* Anything else only lets time pass.
    <2>7. CASE \/ \E q \in Contacts : \/ SignInfo(q) \/ PeerDies(q)
                                      \/ (ReceiveInfo(q) /\ q # p)
                                      \/ (ProbeEnds(q) /\ q # p)
               \/ \E t \in Rounds, q \in Contacts : RoundEnds(t, q)
               \/ \E t \in Rounds : CountRound(t)
               \/ PassTime \/ UNCHANGED peerMetaVars
        <3>1. /\ lastProbe' = lastProbe /\ checked' = checked /\ growers' = growers
              /\ info'[p] = info[p] /\ probing'[p] = probing[p]
            BY <2>7 DEF SignInfo, ReceiveInfo, ProbeEnds, PeerDies, RoundEnds, CountRound,
                        PassTime, learned, infos, peerMetaVars, MetaTypes
        <3>2. clock' >= clock
            BY TimesOfAPeer
        <3>3. QED
            BY <1>2, <1>3, <1>4, <2>1, <3>1, <3>2
    <2>8. QED
        BY <2>3, <2>4, <2>5, <2>6, <2>7 DEF PeerMetaNext
<1>8. QED
    BY <1>6, <1>7

(* In the beginning nothing is known. *)
LEMMA MetaStart ==
    ASSUME PeerMetaInit
    PROVE  MetaInv
<1> USE MetaNumbers DEF PeerMetaInit
<1>1. MetaTypes
    BY DEF MetaTypes, Dated, Absent, Never
<1>2. CheckInv
    BY DEF CheckInv
<1>3. ASSUME NEW p \in Contacts
      PROVE  ContactInv(p) /\ SilenceInv(p) /\ ProbeInv(p)
    BY DEF ContactInv, SilenceInv, ProbeInv, Unseen, Absent, Never
<1>4. QED
    BY <1>1, <1>2, <1>3 DEF MetaInv

(* Who is counted beyond the bounds would have been found out. *)
LEMMA MetaMeans ==
    ASSUME MetaInv
    PROVE  NoGhostCounted
<1> SUFFICES ASSUME NEW p \in Contacts, death[p] # Never
             PROVE  /\ p \in stayers => clock <= Since(p) + MaxWait + 2 * Every
                    /\ p \in growers => clock <= Since(p) + ProbeEvery + SendTime + 2 * Every
                                                    + restarts * (Every + SendTime)
    BY DEF NoGhostCounted
<1> USE MetaNumbers
<1>1. MetaTypes /\ CheckInv /\ ContactInv(p) /\ SilenceInv(p) /\ ProbeInv(p)
    BY DEF MetaInv
<1>2. /\ clock \in Nat /\ checked \in Nat /\ restarts \in Nat
      /\ contact[p].heard \in Nat \cup {Never}
    BY <1>1 DEF MetaTypes, Unseen
<1>3. Since(p) \in Nat
    BY <1>1, SinceIsLatest
<1>4. p \in stayers => clock <= Since(p) + MaxWait + 2 * Every
    BY <1>1, <1>2, <1>3 DEF ContactInv, SilenceInv, CheckInv, Never
<1> DEFINE delay == restarts * (Every + SendTime)
<1>5. Delay = delay /\ Delay \in Nat
    BY <1>2, DelayIsTime DEF Delay
<1> HIDE DEF delay
<1>6. p \in growers => clock <= Since(p) + ProbeEvery + SendTime + 2 * Every + delay
    BY <1>1, <1>2, <1>3, <1>5 DEF ProbeInv, ProbedBy, CheckInv
<1>7. QED
    BY <1>4, <1>6 DEF delay

(* For any number of peers and handlers, any intervals, lifetimes and      *)
(* factors, and any restarts: a dead peer is not counted as a holder for   *)
(* long (check, silent_peers, probe_holders, set_unresponsive).            *)
THEOREM GhostsFade == PeerMetaSpec => []NoGhostCounted
<1>1. PeerMetaInit => MetaInv
    BY MetaStart
<1>2. MetaInv /\ [PeerMetaNext]_peerMetaVars => MetaInv'
    <2> SUFFICES ASSUME MetaInv, [PeerMetaNext]_peerMetaVars
                 PROVE  MetaInv'
        OBVIOUS
    <2>1. MetaTypes' /\ CheckInv'
        BY MetaTypeStep, CheckStep DEF MetaInv
    <2>2. ASSUME NEW p \in Contacts
          PROVE  ContactInv(p)' /\ SilenceInv(p)' /\ ProbeInv(p)'
        BY ContactStep, SilenceStep, ProbeStep DEF MetaInv
    <2>3. QED
        BY <2>1, <2>2 DEF MetaInv
<1>3. MetaInv => NoGhostCounted
    BY MetaMeans
<1>4. QED
    BY <1>1, <1>2, <1>3, PTL DEF PeerMetaSpec
====
