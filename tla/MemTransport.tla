---------------------------- MODULE MemTransport ----------------------------
(***************************************************************************)
(* The in-process transport two nodes talk over when no network is wanted: *)
(* a connection is a pair of channels, every node runs one command task    *)
(* and one receiver task per connection, and a send waits until the        *)
(* connection has seen the peer's preflight.  Both nodes may connect at    *)
(* once, and a node may connect again before it registered the first       *)
(* connection.  The five second timeouts outlast every step of a live      *)
(* node: they only fire when what they wait for can no longer come.        *)
(***************************************************************************)
EXTENDS Integers, Sequences, FiniteSets

CONSTANTS
    MemNodes,   \* the two transports
    MemSends,   \* calls of send
    MaxLinks,   \* bound: connections made
    MaxFaults   \* bound: disconnects, handler errors and drops

ASSUME MemAssumption ==
    /\ \E a, b \in MemNodes : a # b /\ MemNodes = {a, b}
    /\ {MaxLinks, MaxFaults} \subseteq Nat

VARIABLES
    alive,    \* transports not dropped; their ids are in TRANSPORT_INSTANCES
    joined,   \* nodes with a local agent: peer_connect gives a preflight
    cmds,     \* per node, the commands for its cmd_task
    calls,    \* per node, connections its listener has not forwarded
    link,     \* all connections made, with both of their ends
    con_pool, \* per node, the connection it uses, 0 for none
    send,     \* calls of send and their progress
    faults,   \* history: how much went wrong so far
    unmet     \* history: a connection was refused for want of an agent

memVars == <<alive, joined, cmds, calls, link, con_pool, send, faults, unmet>>

Other(n) == CHOOSE m \in MemNodes : m # n

(* The end of a connection at one node: its receiver task, whether it is   *)
(* marked ready, and the channel the task reads.                           *)
NewEnd == [task |-> "none", ready |-> FALSE, chan |-> <<>>]
LiveTask == {"first", "open"}

MemInit ==
    /\ alive = MemNodes /\ joined \in SUBSET MemNodes
    /\ cmds = [n \in MemNodes |-> <<>>] /\ calls = [n \in MemNodes |-> <<>>]
    /\ link = <<>> /\ con_pool = [n \in MemNodes |-> 0]
    /\ send = [s \in MemSends |-> [at |-> "new", from |-> CHOOSE n \in MemNodes : TRUE, on |-> 0]]
    /\ faults = 0 /\ unmet = FALSE

Fault == faults < MaxFaults /\ faults' = faults + 1

(* Sends whose result sender is dropped or used with an error. *)
Carried(items) == {items[i].of : i \in {j \in 1 .. Len(items) : items[j].k = "data"}}
Failing(ss) == [s \in MemSends |-> IF s \in ss THEN [send[s] EXCEPT !.at = "err"] ELSE send[s]]
Moved(s, at) == send' = [send EXCEPT ![s].at = at]

-----------------------------------------------------------------------------
(* TxImp::send and TxImp::disconnect queue a command.                      *)

SendCall(s, n) ==
    /\ send[s].at = "new"
    /\ \/ /\ n \in alive
          /\ cmds' = [cmds EXCEPT ![n] = Append(@, [k |-> "send", of |-> s])]
          /\ send' = [send EXCEPT ![s].at = "queued", ![s].from = n]
       \/ /\ n \notin alive
          /\ send' = [send EXCEPT ![s].at = "err", ![s].from = n]
          /\ UNCHANGED cmds
    /\ UNCHANGED <<alive, joined, calls, link, con_pool, faults, unmet>>

DisconnectCall(n, goodbye) ==
    /\ n \in alive /\ Fault
    /\ cmds' = [cmds EXCEPT ![n] = Append(@, [k |-> "disconnect", bye |-> goodbye])]
    /\ UNCHANGED <<alive, joined, calls, link, con_pool, send, unmet>>

(* The task that listens for incoming connections. *)
Listen(n) ==
    /\ n \in alive /\ calls[n] # <<>>
    /\ cmds' = [cmds EXCEPT ![n] = Append(@, [k |-> "register", on |-> Head(calls[n])])]
    /\ calls' = [calls EXCEPT ![n] = Tail(@)]
    /\ UNCHANGED <<alive, joined, link, con_pool, send, faults, unmet>>

-----------------------------------------------------------------------------
(* The commands, one at a time.                                            *)

Cmd(n, k) == n \in alive /\ cmds[n] # <<>> /\ Head(cmds[n]).k = k

(* TransportInstances::connect hands the peer its ends and queues our own  *)
(* registration behind the commands that are already waiting.              *)
connect(n, rest) ==
    /\ link' = Append(link, [m \in MemNodes |-> NewEnd])
    /\ calls' = [calls EXCEPT ![Other(n)] = Append(@, Len(link) + 1)]
    /\ cmds' = [cmds EXCEPT ![n] = Append(rest, [k |-> "register", on |-> Len(link) + 1])]

SendCmd(n) ==
    LET s == Head(cmds[n]).of
        rest == Tail(cmds[n])
    IN  /\ Cmd(n, "send")
        /\ \/ /\ con_pool[n] # 0
              /\ send' = [send EXCEPT ![s].at = "wait", ![s].on = con_pool[n]]
              /\ cmds' = [cmds EXCEPT ![n] = rest]
              /\ UNCHANGED <<calls, link>>
           \/ /\ con_pool[n] = 0 /\ Other(n) \in alive /\ Len(link) < MaxLinks
              /\ connect(n, rest)
              /\ send' = [send EXCEPT ![s].at = "wait", ![s].on = Len(link) + 1]
           \/ /\ con_pool[n] = 0 /\ Other(n) \notin alive
              /\ Moved(s, "err")
              /\ cmds' = [cmds EXCEPT ![n] = rest]
              /\ UNCHANGED <<calls, link>>
        /\ UNCHANGED <<alive, joined, con_pool, faults, unmet>>

(* The end is dropped when there is nobody to introduce ourselves as;      *)
(* otherwise our preflight goes out, the receiver task starts, and the     *)
(* connection replaces the one in the pool.                                *)
Introduced(n, ends) ==
    [m \in MemNodes |->
        IF m = n THEN [ends[m] EXCEPT !.task = "first"]
        ELSE IF ends[m].task \in {"ended", "dropped"} THEN ends[m]
        ELSE [ends[m] EXCEPT !.chan = Append(@, [k |-> "preflight"])]]

RegisterConnection(n) ==
    LET c == Head(cmds[n]).on
    IN  /\ Cmd(n, "register")
        /\ \/ /\ n \in joined
              /\ link' = [link EXCEPT ![c] = Introduced(n, @)]
              /\ con_pool' = [con_pool EXCEPT ![n] = c]
              /\ UNCHANGED send
           \/ /\ n \notin joined
              /\ link' = [link EXCEPT ![c][n] = [@ EXCEPT !.task = "dropped", !.chan = <<>>]]
              /\ send' = Failing(Carried(link[c][n].chan))
              /\ UNCHANGED con_pool
        /\ unmet' = (unmet \/ n \notin joined)
        /\ cmds' = [cmds EXCEPT ![n] = Tail(@)]
        /\ UNCHANGED <<alive, joined, calls, faults>>

(* The handler takes a message or fails on it, which costs the peer its    *)
(* place in the pool, whichever connection the message came on.  A goodbye *)
(* is always an error to it (TxImpHnd::recv_data).                         *)
RecvData(n) ==
    LET item == Head(cmds[n]).item
    IN  /\ Cmd(n, "recv")
        /\ \/ /\ item.k # "bye"
              /\ IF item.k = "data" THEN Moved(item.of, "ok") ELSE UNCHANGED send
              /\ UNCHANGED <<con_pool, faults>>
           \/ /\ item.k # "bye" /\ Fault
              /\ con_pool' = [con_pool EXCEPT ![n] = 0]
              /\ send' = Failing(Carried(<<item>>))
           \/ /\ item.k = "bye"
              /\ con_pool' = [con_pool EXCEPT ![n] = 0]
              /\ UNCHANGED <<send, faults>>
        /\ cmds' = [cmds EXCEPT ![n] = Tail(@)]
        /\ UNCHANGED <<alive, joined, calls, link, unmet>>

DisconnectCmd(n) ==
    /\ Cmd(n, "disconnect")
    /\ con_pool' = [con_pool EXCEPT ![n] = 0]
    /\ link' = IF Head(cmds[n]).bye /\ con_pool[n] # 0
                  /\ link[con_pool[n]][Other(n)].task \notin {"ended", "dropped"}
               THEN [link EXCEPT ![con_pool[n]][Other(n)].chan = Append(@, [k |-> "bye"])]
               ELSE link
    /\ cmds' = [cmds EXCEPT ![n] = Tail(@)]
    /\ UNCHANGED <<alive, joined, calls, send, faults, unmet>>

-----------------------------------------------------------------------------
(* The receiver task of node n on connection c                             *)

EndTask(n, c) ==
    /\ link' = [link EXCEPT ![c][n] = [@ EXCEPT !.task = "ended", !.chan = <<>>]]
    /\ send' = Failing(Carried(link[c][n].chan))

Forward(n, c) ==
    /\ link[c][n].chan # <<>>
    /\ cmds' = [cmds EXCEPT ![n] = Append(@, [k |-> "recv", item |-> Head(link[c][n].chan)])]

(* The first message has to be a preflight; then the connection is ready. *)
TakeFirst(n, c) ==
    /\ link[c][n].task = "first" /\ link[c][n].chan # <<>>
    /\ \/ /\ Head(link[c][n].chan).k = "preflight"
          /\ Forward(n, c)
          /\ link' = [link EXCEPT ![c][n] = [task |-> "open", ready |-> TRUE, chan |-> Tail(@.chan)]]
          /\ UNCHANGED send
       \/ /\ Head(link[c][n].chan).k # "preflight"
          /\ EndTask(n, c) /\ UNCHANGED cmds
    /\ UNCHANGED <<alive, joined, calls, con_pool, faults, unmet>>

TakeNext(n, c) ==
    /\ link[c][n].task = "open"
    /\ Forward(n, c)
    /\ link' = [link EXCEPT ![c][n].chan = Tail(@)]
    /\ UNCHANGED <<alive, joined, calls, con_pool, send, faults, unmet>>

(* Nobody holds a sender of this channel any more: not the peer's pool,    *)
(* not its own receiver task, not a send that waits.                       *)
Unheld(n, c) ==
    /\ link[c][Other(n)].task \in {"ended", "dropped"}
    /\ con_pool[Other(n)] # c
    /\ \A s \in MemSends : ~(send[s].at = "wait" /\ send[s].on = c /\ send[s].from = Other(n))

(* A closed channel ends the task, and so does a preflight that is late. *)
TaskEnds(n, c) ==
    /\ link[c][n].task \in LiveTask /\ link[c][n].chan = <<>>
    /\ \/ Unheld(n, c)
       \/ link[c][n].task = "first" /\ link[c][Other(n)].task \in {"ended", "dropped"}
    /\ EndTask(n, c)
    /\ UNCHANGED <<alive, joined, cmds, calls, con_pool, faults, unmet>>

-----------------------------------------------------------------------------
(* The task of a send: wait_ready, then the channel                        *)

NeverWaits(n, c) == TRUE
wait_ready(n, c) == link[c][n].ready

SendData(s) ==
    LET n == send[s].from
        c == send[s].on
        lost == link[c][Other(n)].task \in {"ended", "dropped"}
    IN  /\ send[s].at = "wait" /\ wait_ready(n, c)
        /\ Moved(s, IF lost THEN "err" ELSE "sent")
        /\ link' = IF lost THEN link
                   ELSE [link EXCEPT ![c][Other(n)].chan = Append(@, [k |-> "data", of |-> s])]
        /\ UNCHANGED <<alive, joined, cmds, calls, con_pool, faults, unmet>>

NotReady(s) ==
    /\ send[s].at = "wait" /\ ~link[send[s].on][send[s].from].ready
    /\ link[send[s].on][send[s].from].task \in {"ended", "dropped"}
    /\ Moved(s, "err")
    /\ UNCHANGED <<alive, joined, cmds, calls, link, con_pool, faults, unmet>>

-----------------------------------------------------------------------------
(* The drop of a transport aborts its tasks and takes its listener away;   *)
(* the tasks of its waiting sends live on.                                 *)
NoneAborted(n) == {}
Aborted(n) ==
    {cmds[n][i].of : i \in {j \in 1 .. Len(cmds[n]) : cmds[n][j].k = "send"}}
        \cup UNION {Carried(<<cmds[n][i].item>>) : i \in {j \in 1 .. Len(cmds[n]) : cmds[n][j].k = "recv"}}

DropTransport(n) ==
    /\ n \in alive /\ Fault
    /\ alive' = alive \ {n}
    /\ cmds' = [cmds EXCEPT ![n] = <<>>]
    /\ calls' = [calls EXCEPT ![n] = <<>>]
    /\ con_pool' = [con_pool EXCEPT ![n] = 0]
    /\ link' = [c \in 1 .. Len(link) |-> [link[c] EXCEPT ![n] =
                   [@ EXCEPT !.task = "ended", !.chan = <<>>]]]
    /\ send' = Failing(Aborted(n) \cup UNION {Carried(link[c][n].chan) : c \in 1 .. Len(link)})
    /\ UNCHANGED <<joined, unmet>>

(* An agent joins the node: from now on it introduces itself. *)
Join(n) ==
    /\ n \notin joined /\ joined' = joined \cup {n}
    /\ UNCHANGED <<alive, cmds, calls, link, con_pool, send, faults, unmet>>

MemNext ==
    \/ \E n \in MemNodes :
         \/ \E s \in MemSends : SendCall(s, n)
         \/ \E goodbye \in BOOLEAN : DisconnectCall(n, goodbye)
         \/ Listen(n) \/ SendCmd(n) \/ RegisterConnection(n) \/ RecvData(n) \/ DisconnectCmd(n)
         \/ \E c \in 1 .. Len(link) : TakeFirst(n, c) \/ TakeNext(n, c) \/ TaskEnds(n, c)
         \/ DropTransport(n) \/ Join(n)
    \/ \E s \in MemSends : SendData(s) \/ NotReady(s)

MemSpec == MemInit /\ [][MemNext]_memVars

-----------------------------------------------------------------------------
MemTypeOK ==
    /\ \A n \in MemNodes : con_pool[n] \in 0 .. Len(link)
    /\ \A s \in MemSends : send[s].at \in {"new", "queued", "wait", "sent", "ok", "err"}

(* Between two nodes that have agents and meet no fault, no send fails,    *)
(* also when both connect at once, or one connects twice, and each         *)
(* connection replaces another in the pool (RegisterConnection).           *)
SendsSucceed ==
    (\E s \in MemSends : send[s].at = "err") => faults > 0 \/ unmet

(* Every send gets its answer: once the queues are empty, one that is      *)
(* still waiting has a timeout or a closed channel coming to it, whatever  *)
(* was dropped, disconnected or replaced in between.                       *)
SendsAreAnswered ==
    LET settled == /\ \A n \in MemNodes : cmds[n] = <<>> /\ calls[n] = <<>>
                   /\ \A c \in 1 .. Len(link), n \in MemNodes :
                        link[c][n].task \in LiveTask => link[c][n].chan = <<>>
        coming(e, o) == e.ready \/ e.task \in {"ended", "dropped"} \/ o.task \in {"ended", "dropped"}
    IN  settled => \A s \in MemSends :
                     /\ send[s].at \notin {"queued", "sent"}
                     /\ send[s].at = "wait" =>
                          coming(link[send[s].on][send[s].from], link[send[s].on][Other(send[s].from)])
=============================================================================
