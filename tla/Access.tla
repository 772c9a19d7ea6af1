------------------------------- MODULE Access -------------------------------
(***************************************************************************)
(* Who may talk to us in a space: the peer store with its update           *)
(* listeners, the index of known peers, the host's blocks, the cache of    *)
(* access decisions that is computed from them, and the check that the     *)
(* transport makes of every message against that cache.                    *)
(*                                                                         *)
(* Agents sign a new info every quarter of an hour or so, each living      *)
(* twenty minutes.  Only the order of an agent's infos and their expiry    *)
(* matter, so an info carries its age instead of timestamps: Newest,       *)
(* Previous, or Older than both and expired.  A call to insert or remove   *)
(* runs as a task with one step per await of the code; several may be in   *)
(* flight.                                                                 *)
(***************************************************************************)
EXTENDS Integers, FiniteSets

CONSTANTS Agents,     \* remote agents
          Urls,       \* peer urls
          NoUrl,      \* the url of a tombstone
          Inserters,  \* callers of PeerStore::insert
          Hosts,      \* callers of block_and_remove_agent
          Movers,     \* agents that may move or leave; their old infos circulate
          Suspects,   \* agents the host may block
          Home        \* the url each agent starts with

ASSUME AccessAssumption == /\ NoUrl \notin Urls
                           /\ Movers \subseteq Agents
                           /\ Suspects \subseteq Agents
                           /\ Inserters \cap Hosts = {}
                           /\ Home \in [Agents -> Urls]

VARIABLES blocked,    \* MemBlocks: the blocked agents
          known,      \* CoreKnownPeers: the newest info seen of each agent
          store,      \* MemPeerStore: the info held of each agent
          decisions,  \* CorePeerAccessState: url to verdict
          issued,     \* the urls of each agent's previous and newest info
          task,       \* the calls in progress
          local,      \* whether an agent of ours is in the space
          open,       \* urls with an open connection
          cleared,    \* history: urls that once had only unblocked agents
          strayed     \* history: urls talked to before they were cleared

hub == <<local, open, strayed>>
vars == <<blocked, known, store, decisions, issued, task, cleared, hub>>

Tasks == Inserters \union Hosts

None == -1   \* no info at all
Older == 0
Previous == 1
Newest == 2

Info == [at : None .. Newest, url : Urls \union {NoUrl}]
NoInfo == [at |-> None, url |-> NoUrl]

Verdicts == {"none", "granted", "blocked"}
Idle == [pc |-> "idle", infos |-> [a \in Agents |-> NoInfo], todo |-> {},
         url |-> NoUrl, seen |-> {}, verdict |-> "none"]

KnownAt(k, u) == {a \in Agents : k[a].url = u}
ClearNow(k, b) == {u \in Urls : KnownAt(k, u) # {} /\ KnownAt(k, u) \cap b = {}}
Expired(info) == info.at <= Older
Unlocked == \A t \in Tasks : task[t].pc # "filter"
Granted(u) == decisions[u] = "granted"

Init == /\ blocked = {}
        /\ known = [a \in Agents |-> NoInfo]
        /\ store = [a \in Agents |-> NoInfo]
        /\ decisions = [u \in Urls |-> "none"]
        /\ issued = [a \in Agents |-> <<Home[a], Home[a]>>]
        /\ task = [t \in Tasks |-> Idle]
        /\ cleared = {}
        /\ local = FALSE
        /\ open = {}
        /\ strayed = {}

-----------------------------------------------------------------------------
(* The remote agents.  Signing makes every earlier info one step older.    *)

InFlight(a) == {task[t].infos[a].at : t \in Tasks}
Aged(i) == IF i.at > Older THEN [i EXCEPT !.at = @ - 1] ELSE i

\* One bound: no call lasts as long as two of the agent's infos.
Sign(a, u) ==
  /\ Previous \notin InFlight(a)
  /\ issued' = [issued EXCEPT ![a] = <<@[2], u>>]
  /\ known' = [known EXCEPT ![a] = Aged(@)]
  /\ store' = [store EXCEPT ![a] = Aged(@)]
  /\ task' = [t \in Tasks |-> [task[t] EXCEPT !.infos[a] = Aged(@)]]
  /\ UNCHANGED <<blocked, decisions, cleared, hub>>

Refresh(a) == issued[a][2] # NoUrl /\ Sign(a, issued[a][2])

\* To another url, away with a tombstone, or back again.
Move(a, u) == a \in Movers /\ u # issued[a][2] /\ Sign(a, u)

-----------------------------------------------------------------------------
(* MemPeerStore::insert, called with what a bootstrap poll, a publish, a   *)
(* gossip round or a preflight brought: newest infos and cached ones.      *)

Pruned == [a \in Agents |-> IF Expired(store[a])
                            THEN NoInfo ELSE store[a]]

Recorded(infos) == [a \in Agents |-> IF known[a].at >= infos[a].at
                                     THEN known[a] ELSE infos[a]]

\* Takes the lock, prunes if the interval has passed, records every info.  A
\* batch holds one info per agent; of two of one agent only the newer would
\* stay, as when they come in two batches.
InsertRecord(t, batch) ==
  /\ task[t].pc = "idle"
  /\ Unlocked
  /\ \E ages \in [batch -> {Previous, Newest}] :
       /\ \A a \in batch \ Movers : ages[a] = Newest
       /\ LET infos == [a \in Agents |->
                          IF a \in batch
                          THEN [at |-> ages[a], url |-> issued[a][ages[a]]]
                          ELSE NoInfo]
          IN /\ task' = [task EXCEPT ![t] = [Idle EXCEPT !.pc = "filter",
                                               !.infos = infos, !.todo = batch]]
             /\ known' = Recorded(infos)
  /\ store' \in {store, Pruned}
  /\ cleared' = cleared \union ClearNow(known', blocked)
  /\ UNCHANGED <<blocked, decisions, issued, hub>>

Refused(a, info) == \/ a \in blocked
                    \/ Expired(info)
                    \/ store[a].at >= info.at

\* The infos of the batch are stored or passed over, then the lock is
\* released; the blocks are read in one step.
InsertFilter(t) ==
  LET infos == task[t].infos
      inserted == {a \in task[t].todo : ~Refused(a, infos[a])}
  IN /\ task[t].pc = "filter"
     /\ store' = [a \in Agents |-> IF a \in inserted THEN infos[a] ELSE store[a]]
     /\ task' = [task EXCEPT ![t] =
          IF inserted = {} THEN Idle
          ELSE [@ EXCEPT !.pc = "listen", !.todo = inserted,
                  !.infos = [a \in Agents |-> IF a \in inserted THEN infos[a]
                                              ELSE NoInfo]]]
     /\ UNCHANGED <<blocked, known, decisions, issued, cleared, hub>>

(* block_and_remove_agent: the host blocks, then removes from the store.   *)
BlockAgent(t, a) ==
  /\ task[t].pc = "idle"
  /\ a \in Suspects
  /\ a \notin blocked
  /\ blocked' = blocked \union {a}
  /\ task' = [task EXCEPT ![t] = [Idle EXCEPT !.pc = "remove", !.todo = {a}]]
  /\ UNCHANGED <<known, store, decisions, issued, cleared, hub>>

RemoveInfo(t, a) ==
  /\ task[t].pc = "remove"
  /\ a \in task[t].todo
  /\ Unlocked
  /\ store' = [store EXCEPT ![a] = NoInfo]
  /\ task' = [task EXCEPT ![t] =
       IF store[a] = NoInfo THEN Idle
       ELSE [@ EXCEPT !.pc = "listen", !.infos[a] = store[a]]]
  /\ UNCHANGED <<blocked, known, decisions, issued, cleared, hub>>

\* A read of the store after the prune interval.
PruneStore == /\ Unlocked
              /\ store' = Pruned
              /\ UNCHANGED <<blocked, known, decisions, issued,
                             task, cleared, hub>>

-----------------------------------------------------------------------------
(* The access listener, run for one inserted or removed info at a time.    *)

\* An info without url is passed over; else the agents at its url are read.
Listen(t, a) ==
  LET u == task[t].infos[a].url
      rest == [task[t] EXCEPT !.todo = @ \ {a}, !.infos[a] = NoInfo]
  IN /\ task[t].pc = "listen"
     /\ a \in task[t].todo
     /\ task' = [task EXCEPT ![t] =
          IF u # NoUrl
          THEN [rest EXCEPT !.pc = "check", !.url = u, !.seen = KnownAt(known, u)]
          ELSE IF rest.todo = {} THEN Idle ELSE rest]
     /\ UNCHANGED <<blocked, known, store, decisions, issued,
                    cleared, hub>>

Decided(t) == IF task[t].todo = {} THEN Idle
              ELSE [task[t] EXCEPT !.pc = "listen", !.url = NoUrl, !.seen = {},
                                   !.verdict = "none"]

ClearDecision(t) ==
  /\ task[t].pc = "check"
  /\ task[t].seen = {}
  /\ decisions' = [decisions EXCEPT ![task[t].url] = "none"]
  /\ task' = [task EXCEPT ![t] = Decided(t)]
  /\ UNCHANGED <<blocked, known, store, issued, cleared, hub>>

AllBlocked(agents) == agents \subseteq blocked

AnyBlocked(agents) == agents \cap blocked # {}

CheckBlocks(t) ==
  /\ task[t].pc = "check"
  /\ task[t].seen # {}
  /\ task' = [task EXCEPT ![t].pc = "write", ![t].seen = {},
                          ![t].verdict = IF AnyBlocked(task[t].seen)
                                         THEN "blocked" ELSE "granted"]
  /\ UNCHANGED <<blocked, known, store, decisions, issued,
                 cleared, hub>>

WriteDecision(t) ==
  /\ task[t].pc = "write"
  /\ decisions' = [decisions EXCEPT ![task[t].url] = task[t].verdict]
  /\ task' = [task EXCEPT ![t] = Decided(t)]
  /\ UNCHANGED <<blocked, known, store, issued, cleared, hub>>

(* The hourly task drops a decision made more than an hour ago.  An info   *)
(* lives twenty minutes and every stored one made a decision, so by then   *)
(* the store holds none for that url that is not expired.                  *)
AnyAge(u) == decisions[u] # "none"

HourOld(u) == \A a \in Agents : store[a].url = u => Expired(store[a])

PruneDecision(u) ==
  /\ HourOld(u)
  /\ decisions' = [decisions EXCEPT ![u] = "none"]
  /\ UNCHANGED <<blocked, known, store, issued, task, cleared, hub>>

(* is_peer_blocked, asked by recv_data, send_module and send_space_notify  *)
(* of every message of a space: no decision counts as blocked.             *)
OnlyIfBlocked(u) == decisions[u] = "blocked"

is_any_agent_at_url_blocked(u) == ~Granted(u)

IsPeerBlocked(u) == is_any_agent_at_url_blocked(u)

Kinds == {"preflight", "unspecified", "disconnect", "notify", "module"}

\* A message of the space passes, in either direction.
Exchange(u) == strayed' = strayed \union ({u} \ cleared)

\* peer_connect gives no preflight to a node without local agents.
PeerConnect(u) ==
  /\ local
  /\ open' = open \union {u}
  /\ UNCHANGED <<blocked, known, store, decisions, issued, task, cleared, local,
                 strayed>>

Scoped == {"notify", "module"}

check_message_permitted(u, kind, hasSpace) ==
  IF kind \notin Scoped THEN "pass"
  ELSE IF ~hasSpace THEN "error"
  ELSE IF IsPeerBlocked(u) THEN "drop" ELSE "pass"

\* recv_data.  A preflight is validated by the host, which inserts the infos
\* it brings; a message of the space goes to its handler.  An error of the
\* check or of a handler closes the connection, a disconnect always does.
RecvData(u, kind, hasSpace) ==
  LET verdict == check_message_permitted(u, kind, hasSpace)
  IN /\ u \in open
     /\ open' \in (IF verdict = "error" \/ kind = "disconnect" THEN {open \ {u}}
                   ELSE IF verdict = "drop" \/ kind = "unspecified" THEN {open}
                   ELSE {open, open \ {u}})
     /\ IF kind \in Scoped /\ verdict = "pass"
        THEN Exchange(u) ELSE UNCHANGED strayed
     /\ UNCHANGED <<blocked, known, store, decisions, issued, task, cleared,
                    local>>

error_if_no_local_agents == ~local

\* A send connects if it has to.
Sent(u) ==
  /\ ~error_if_no_local_agents
  /\ ~IsPeerBlocked(u)
  /\ Exchange(u)
  /\ open' = open \union {u}
  /\ UNCHANGED <<blocked, known, store, decisions, issued, task, cleared, local>>

SendModule(u) == Sent(u)
SendSpaceNotify(u) == Sent(u)

Disconnect(u) ==
  /\ open' = open \ {u}
  /\ UNCHANGED <<blocked, known, store, decisions, issued, task, cleared, local,
                 strayed>>

\* The last of our agents leaves the space, or the first one joins.
LocalAgents ==
  /\ local' = ~local
  /\ UNCHANGED <<blocked, known, store, decisions, issued, task, cleared, open,
                 strayed>>

Next == \/ \E a \in Agents : \/ Refresh(a)
                             \/ \E u \in Urls \union {NoUrl} : Move(a, u)
        \/ \E t \in Inserters :
             \/ \E batch \in (SUBSET Agents) \ {{}} : InsertRecord(t, batch)
             \/ InsertFilter(t)
        \/ \E t \in Hosts, a \in Agents : BlockAgent(t, a) \/ RemoveInfo(t, a)
        \/ \E t \in Tasks : \/ \E a \in Agents : Listen(t, a)
                            \/ ClearDecision(t)
                            \/ CheckBlocks(t)
                            \/ WriteDecision(t)
        \/ PruneStore
        \/ \E u \in Urls : \/ PruneDecision(u)
                           \/ PeerConnect(u)
                           \/ \E kind \in Kinds, s \in BOOLEAN : RecvData(u, kind, s)
                           \/ SendModule(u)
                           \/ SendSpaceNotify(u)
                           \/ Disconnect(u)
        \/ LocalAgents

\* Every call in progress is polled to its end and gets the store's lock,
\* which tokio hands out in order; agents keep re-signing and
\* their newest infos keep arriving, infos expire and the hour passes.
TaskStep(t) == \/ InsertFilter(t)
               \/ \E a \in Agents : RemoveInfo(t, a) \/ Listen(t, a)
               \/ ClearDecision(t)
               \/ CheckBlocks(t)
               \/ WriteDecision(t)

Arrives(a) == \E t \in Inserters : InsertRecord(t, {a}) /\ task'[t].infos[a].at = Newest

Fairness == /\ \A t \in Tasks : SF_vars(TaskStep(t))
            /\ \A a \in Agents : /\ SF_vars(Refresh(a))
                                 /\ SF_vars(Arrives(a))
            /\ \A u \in Urls : WF_vars(PruneDecision(u))

Spec == Init /\ [][Next]_vars /\ Fairness
-----------------------------------------------------------------------------
TypeOK ==
  /\ blocked \subseteq Agents
  /\ known \in [Agents -> Info]
  /\ store \in [Agents -> Info]
  /\ decisions \in [Urls -> Verdicts]
  /\ issued \in [Agents -> [1 .. 2 -> Urls \union {NoUrl}]]
  /\ \A t \in Tasks :
       /\ task[t].pc \in {"idle", "filter", "remove", "listen", "check", "write"}
       /\ task[t].infos \in [Agents -> Info]
       /\ task[t].todo \subseteq Agents
       /\ task[t].seen \subseteq Agents
       /\ task[t].pc \in {"filter", "remove", "listen"} => task[t].todo # {}
       /\ task[t].pc \in {"check", "write"} <=> task[t].url # NoUrl
  /\ cleared \subseteq Urls
  /\ local \in BOOLEAN
  /\ open \subseteq Urls
  /\ strayed \subseteq Urls

(* A url is talked to only if at some moment every agent then known there  *)
(* was unblocked: the decision is computed from a read of known_peers and  *)
(* a later read of the blocks, over two awaits, while infos arrive and the *)
(* host blocks.                                                            *)
OnlyClearedAreHeard == strayed = {}

(* A block takes hold.  Whatever listeners were in flight with an older    *)
(* verdict, and although the info of a blocked agent triggers no listener, *)
(* a url where a blocked agent stays is in the end refused for good: the   *)
(* next info of a neighbour corrects the decision, or the hourly task      *)
(* drops it.                                                               *)
BlockTakesHold ==
  \A a \in Suspects, u \in Urls :
    <>[](a \in blocked /\ known[a].url = u) => <>[]~Granted(u)

(* A peer whose infos arrive before the last one expires, at a url without *)
(* blocked agents, ends up admitted and stays so, however listeners,       *)
(* tombstones, removals and the pruning of decisions interleave.           *)
Welcome(u) == /\ \E a \in Agents : store[a].url = u /\ ~Expired(store[a])
              /\ KnownAt(known, u) \cap blocked = {}

AccessStays == \A u \in Urls : <>[]Welcome(u) => <>[]Granted(u)
=============================================================================
