------------------------------ MODULE Announce ------------------------------
(***************************************************************************)
(* How one agent of a space is announced to a remote peer and withdrawn.   *)
(* Joining, a new address and the re-sign loop each spawn a task that      *)
(* reads the space's url, takes the time, signs an info, stores it, hands  *)
(* it to bootstrap and broadcasts it; leaving does the same with a         *)
(* tombstone.  Nothing orders these tasks.  Bootstrap pushes from a queue  *)
(* to a server that forgets tombstones; what failed goes to the back of    *)
(* the queue.  The peer polls that server and takes broadcasts.            *)
(*                                                                         *)
(* An info is a place in "stamps": the infos that have not expired, in the *)
(* order of their creation times.  When the oldest expires, it vanishes    *)
(* everywhere and the others move up.                                      *)
(***************************************************************************)
EXTENDS Integers, Sequences, FiniteSets, SequencesExt

CONSTANTS Urls,      \* addresses of the node
          NoUrl,     \* no address yet
          Gone,      \* what a tombstone says
          MaxTasks,  \* bound: tasks at a time
          MaxLive    \* bound: infos alive at a time

ASSUME AnnounceAssumption == /\ NoUrl \notin Urls /\ Gone \notin Urls
                             /\ MaxTasks \in Nat \ {0}
                             /\ MaxLive \in Nat \ {0}

VARIABLES current,  \* InnerData.current_url
          joined,   \* the agent is in the local agent store
          tasks,    \* callbacks and leaves under way, alike ones as one
          stamps,   \* what each live info says, oldest first
          own,      \* the agent's info in our peer store
          queue,    \* infos to push to the bootstrap server
          server,   \* the agent's info on the bootstrap server
          net,      \* infos on their way to the peer
          remote    \* the agent's info in the peer's store

announceVars == <<current, joined, tasks, stamps, own, queue, server, net, remote>>

Absent == 0
Infos == 1 .. Len(stamps)
Says(i) == IF i = Absent THEN Gone ELSE stamps[i]
Spawned == [pc |-> "spawned", url |-> NoUrl, info |-> Absent]

AnnounceInit ==
  /\ current = NoUrl
  /\ joined = FALSE
  /\ tasks = {}
  /\ stamps = <<>>
  /\ own = Absent
  /\ queue = <<>>
  /\ server = Absent
  /\ net = {}
  /\ remote = Absent
-----------------------------------------------------------------------------
(* What starts a task.                                                     *)

Spawn(t) == Cardinality(tasks) < MaxTasks /\ tasks' = tasks \union {t}

\* invoke_cb: spawns the task that local_agent_join registered.
InvokeCb == Spawn(Spawned)

Join ==
  /\ ~joined
  /\ joined' = TRUE
  /\ InvokeCb
  /\ UNCHANGED <<current, stamps, own, queue, server, net, remote>>

\* A callback that reads no url does nothing, so the first address is given
\* to the agents here.
NewUrl(u) ==
  /\ u # current
  /\ current' = u
  /\ IF joined THEN InvokeCb ELSE UNCHANGED tasks
  /\ UNCHANGED <<joined, stamps, own, queue, server, net, remote>>

\* A bug: the callback of an agent that left is still there.
Forever == own # Absent

\* The agents whose callback is not the dummy of local_agent_leave.
Callable == joined

\* check_agent_infos: our info is missing, or the next to expire.
ReSign ==
  /\ Callable
  /\ own <= 1
  /\ InvokeCb
  /\ UNCHANGED <<current, joined, stamps, own, queue, server, net, remote>>

Leave ==
  /\ joined
  /\ joined' = FALSE
  /\ Spawn([pc |-> "read", url |-> Gone, info |-> Absent])
  /\ UNCHANGED <<current, stamps, own, queue, server, net, remote>>
-----------------------------------------------------------------------------
(* The steps of a task.                                                    *)

\* A bug: the new info is made from the last one.
LastUrl == IF Says(own) \in Urls THEN Says(own) ELSE current

UrlNow == current

ReadUrl ==
  /\ Spawned \in tasks
  /\ tasks' = (tasks \ {Spawned})
                \union {[pc |-> "read", url |-> u, info |-> Absent] :
                           u \in {UrlNow} \ {NoUrl}}
  /\ UNCHANGED <<current, joined, stamps, own, queue, server, net, remote>>

\* The time is taken after the url was read, so that a task which read the
\* older url may make the newer info.
Sign(t) ==
  /\ t.pc = "read"
  /\ Len(stamps) < MaxLive
  /\ stamps' = Append(stamps, t.url)
  /\ tasks' = (tasks \ {t})
                \union {[t EXCEPT !.pc = "signed", !.info = Len(stamps) + 1]}
  /\ UNCHANGED <<current, joined, own, queue, server, net, remote>>

\* The host's signer fails: no info, and no tombstone either.
SignFails(t) ==
  /\ t.pc = "read"
  /\ tasks' = tasks \ {t}
  /\ UNCHANGED <<current, joined, stamps, own, queue, server, net, remote>>

\* A peer store keeps the newer info.
Newer(i, j) == IF i > j THEN i ELSE j

\* Bootstrap::put: the queue is shared with the node's other agents; when it
\* is full, the info is dropped.
Put(q, i, room) == IF room THEN Append(q, i) ELSE q

\* What becomes of an info published to the peer: the send fails, the peer's
\* queue of incoming infos is full, or it is queued there.
Published(i) == {{}, {i}}

\* broadcast_agent_info: to every peer known, if there is one.
Broadcast(i) == {net \union sent : sent \in Published(i)}

\* Stored, put and broadcast.
Store(t, room) ==
  /\ t.pc = "signed"
  /\ own' = Newer(t.info, own)
  /\ queue' = Put(queue, t.info, room)
  /\ net' \in Broadcast(t.info)
  /\ tasks' = tasks \ {t}
  /\ UNCHANGED <<current, joined, stamps, server, remote>>
-----------------------------------------------------------------------------
(* The bootstrap module and its server.                                    *)

\* The server's answer to a put: a tombstone deletes and is forgotten.
Served(i) == IF i <= server THEN server
             ELSE IF stamps[i] = Gone THEN Absent ELSE i

PushOk ==
  /\ queue # <<>>
  /\ server' = Served(Head(queue))
  /\ queue' = Tail(queue)
  /\ UNCHANGED <<current, joined, tasks, stamps, own, net, remote>>

\* The push fails, before or after the server heard it, and is queued again.
PushFails(room) ==
  /\ queue # <<>>
  /\ server' \in {server, Served(Head(queue))}
  /\ queue' = Put(Tail(queue), Head(queue), room)
  /\ UNCHANGED <<current, joined, tasks, stamps, own, net, remote>>

\* The server restarts, or makes room for another agent.
Evict ==
  /\ server # Absent
  /\ server' = Absent
  /\ UNCHANGED <<current, joined, tasks, stamps, own, queue, net, remote>>

\* blocking_get_auth of the peer: what the server lists.
Listed == {server} \ {Absent}

\* The peer polls; what it got is inserted later.
Poll ==
  /\ Listed # {}
  /\ net' = net \union Listed
  /\ UNCHANGED <<current, joined, tasks, stamps, own, queue, server, remote>>

Deliver ==
  \E i \in net :
    /\ remote' = Newer(i, remote)
    /\ net' = net \ {i}
    /\ UNCHANGED <<current, joined, tasks, stamps, own, queue, server>>

\* No task takes as long as an info lives.
Expire ==
  LET Up(i) == IF i = Absent THEN Absent ELSE i - 1
  IN /\ stamps # <<>>
     /\ \A t \in tasks : t.info # 1
     /\ stamps' = Tail(stamps)
     /\ tasks' = {[t EXCEPT !.info = Up(@)] : t \in tasks}
     /\ own' = Up(own)
     /\ server' = Up(server)
     /\ remote' = Up(remote)
     /\ net' = {i - 1 : i \in net \ {1}}
     /\ queue' = [k \in DOMAIN Remove(queue, 1) |-> Remove(queue, 1)[k] - 1]
     /\ UNCHANGED <<current, joined>>

AnnounceNext ==
  \/ Join
  \/ \E u \in Urls : NewUrl(u)
  \/ ReSign
  \/ Leave
  \/ ReadUrl
  \/ \E t \in tasks : \/ Sign(t)
                      \/ SignFails(t)
                      \/ \E room \in BOOLEAN : Store(t, room)
  \/ PushOk
  \/ \E room \in BOOLEAN : PushFails(room)
  \/ Evict
  \/ Poll
  \/ Deliver
  \/ Expire

\* Tasks are polled, the re-sign loop runs, infos expire; signing, queueing,
\* pushing and polling may fail, but not for ever, and an info lives long enough for
\* one that got through to arrive.
AnnounceFairness ==
  /\ WF_announceVars(ReadUrl)
  /\ SF_announceVars(\E t \in tasks : Sign(t))
  /\ SF_announceVars(\E t \in tasks : Store(t, TRUE))
  /\ WF_announceVars(ReSign)
  /\ SF_announceVars(PushOk)
  /\ SF_announceVars(Poll)
  /\ SF_announceVars(Deliver)
  /\ WF_announceVars(Expire)
-----------------------------------------------------------------------------
(* Types, and that a store never holds an info younger than our own: the   *)
(* re-sign loop looks at our own store only.                               *)
AnnounceTypeOK ==
  /\ current \in Urls \union {NoUrl}
  /\ joined \in BOOLEAN
  /\ Len(stamps) <= MaxLive
  /\ \A i \in Infos : stamps[i] \in Urls \union {Gone}
  /\ \A i \in {server, remote} \union net \union ToSet(queue) : i <= own
  /\ \A t \in tasks : t.pc \in {"spawned", "read", "signed"} /\ t.info <= Len(stamps)

(* An agent that stays, at an address that stays, is found by the peer at  *)
(* that address again and again, and in the end never at another one:      *)
(* whatever callbacks with an older url were stamped later, whatever       *)
(* tombstone of an earlier leave came late, was lost, or was pushed again. *)
Announced ==
  \A u \in Urls : <>[](joined /\ current = u)
                    => /\ []<>(Says(remote) = u)
                       /\ <>[](Says(remote) \in {u, Gone})

(* An agent that left is forgotten by the peer, although its tombstone may *)
(* never be signed, dropped from a full queue, or overtaken by a callback, *)
(* and although the server forgets it and may list an older info again.    *)
Withdrawn == <>[]~joined => <>[](Says(remote) = Gone)
=============================================================================
