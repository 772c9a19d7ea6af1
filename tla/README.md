# Kitsune2: a TLA+ verification

Kitsune2 is a peer-to-peer DHT library. Nodes that share a *space* hold signed
*ops* (immutable data) and *agent infos* (who is where, and which part of the
ring they store). Gossip rounds between pairs of nodes compare what each holds
and hand the difference to the fetch module; a sharding controller decides
which part of the ring each agent stores; transports carry the messages, a
bootstrap server introduces nodes to each other, and access decisions say who
is listened to. This directory models those parts in TLA+, checks them with TLC
on small instances, and proves their central safety properties with TLAPS for
all instances.

Everything here is translated from the code under `src/crates/`.
`PROJECT.json` gives, for each definition, the file and lines it models.

## 1. Inventory

| Component | State | Operations | Hard part | What makes it correct |
|---|---|---|---|---|
| **Sharding controller** `gossip/src/sharding/` | per agent: declared and target level, grow/shrink accumulators, pending shrink; per node: intent table, unresponsive and last-contact bookkeeping | periodic check (grow, announce, re-check, stand down, wait), receive intent / withdrawal, storm brake | agreement without acknowledgements, on views that are stale; crashes | no shrink takes a sector below the target; a race resolves; a short sector is repaired |
| **Block arithmetic** `sharding/blocks.rs` | none | block, sibling half, vacate half | alignment, the whole-ring level | grow and shrink are inverses; the dropped half is the announced one |
| **Gossip rounds** `gossip/src/{gossip,respond,state,timeout,update}.rs`, `respond/` | one initiated round, accepted rounds by peer, bookmarks, storage arcs | initiate, ten message handlers, timeouts, DHT update | both ends initiate at once; each message is a task of its own; lost messages; restarts; the DHT moves under a round | one live round per pair, bookmarks skip nothing, arcs claim only what is held, nodes converge |
| **DHT model** `dht/src/` | slice hashes, time partitions, sectors | update, inform of stored ops, snapshot, compare, list hashes | failures half way, ops reported late, boundaries that differ | hashes count each op once; differences are found |
| **Gossip initiation and limits** `gossip/src/{initiate,burst}.rs` | the task, last gossip times, bursts per peer | choose a target, admit or refuse an initiate | starvation, counters at their limits | every peer has its turn; nobody polite is refused |
| **Fetch** `core_fetch.rs` | request set, bounded queue, drained listeners | request ops, N workers, answer, store | set and queue are changed by several tasks between awaits | no orphaned request, listeners are told |
| **Publish** `core_publish.rs` | four bounded queues | publish ops and infos, receive | full queues, metadata limit, end of the transport | a publish is handed on or its loss is logged |
| **Peer store, known peers, blocks, access** `mem_peer_store.rs`, `core_known_peers.rs`, `mem_blocks.rs`, `core_access.rs` | infos by agent, urls seen, blocks, decision cache | insert, remove, block, decide, query | a cached decision is computed across awaits | nobody blocked is heard, nobody cleared is cut off |
| **Peer meta store** `gossip/src/peer_meta_store.rs`, `mem_peer_meta_store.rs` | marks, round counters, bookmarks, with expiry | mark, count, probe, expire | marks and counters lapse; the dead cannot say so | a dead peer is not counted as a holder for long |
| **Space, local agents, kitsune** `core_space.rs`, `core_kitsune.rs` | spaces, handlers, local agents, current url | create, find, remove, join, leave, re-sign, url change | removal in steps against creation; unordered callbacks | what the host holds is served; a peer learns the address that stays |
| **Bootstrap module, client, server** `core_bootstrap.rs`, `bootstrap_client/`, `bootstrap_srv/` | push and poll queues; spaces of infos under two locks; tokens; sockets, workers | push, poll, put, get, prune, evict, authenticate, shut down | prune against put; restart against cached tokens; deadlines against late answers | an acknowledged info is served; open connections stay valid; a shutdown ends |
| **Iroh transport** `transport_iroh/` | registry of connections by peer | connect, accept, preflight, send, supersede, disconnect | simultaneous open | both ends keep the same connection; waiting senders move to it; nobody is blamed |
| **Memory transport** `mem_transport.rs` | channels, a pool, a command queue per node | send, accept, disconnect, drop | both ends connect and replace each other's connection | every send is answered, and succeeds if nothing fails |
| **Op store** `mem_op_store.rs` | ops by id | insert, page | paging by stored-at | a page boundary skips nothing |
| **Arcs** `api/src/arc.rs`, `dht/src/arc_set.rs` | none | contains, overlaps, distance, arcs to sectors | wrap-around, boundaries | agree with sets of locations |
| **Wire formats, builder, showcase, test tools** | little or none | encoding, wiring | byte layout | covered by unit tests |

How they interact: gossip calls fetch (`request_ops`) with op ids learned in a
round, and the peer store with agent infos; fetch stores ops and informs gossip
of them, which updates the DHT model; a round that finds a sector in sync widens
the local agent's current arc; the sharding controller sets the target arc that
this widening follows, reads the peer store for coverage and the peer meta store
for unresponsive peers and completed rounds; the space re-signs and publishes
agent infos whenever an arc or its url changes, to its bootstrap queue and by
broadcast; every insert into the peer store is a reason to compute an access
decision anew, and the transport looks at the cached decision for every
message. All of these are tokio tasks that share maps behind mutexes and talk
through bounded channels; the bootstrap server mixes tokio tasks and threads.
The hazards that follow from it are listed, each at its line, in
`PROJECT.json`.

## 2. Modules

| Part | Model | Theorems |
|---|---|---|
| sharding | `Blocks`, `Sharding`, `ShardingInv` (the timing assumption and the inductive invariant), `PeerMeta` (what counts as a holder) | `ShardingProofs` |
| gossip | `GossipRound`, `Initiation`, `Dht`, `Snapshots`, `Arcs` | `GossipProofs`, `DhtProofs`; the ones on initiation are in `NodeProofs` |
| fetch and publish | `Fetch`, `Publish` | `FetchProofs` |
| peers and access | `Access`, `PeerQueries` | `AccessProofs` |
| space and host | `Spaces`, `Announce` | `NodeProofs` |
| bootstrap server | `BootstrapStore`, `HttpServer`, `RelayAuth` | `ServerProofs` |
| transports | `IrohTransport` with the abstract registry `ConnectionSlots`, `MemTransport` | `IrohProofs`; the memory transport's are in `ServerProofs` |
| instances for TLC | `MCSharding`, `MCGossip`, `MCRounds` (both), `MCExchange`, `MCFetch`, `MCAccess`, `MCAnnounce`, `MCStores`, `MCNode`, `MCConnections` | |

An MC module that instantiates several components explores one of them at a
time: its variable `side` says which. Those components share no state, so
nothing is lost, and one run answers one question about all of them.

A definition with a comment that begins with *Mutant* is a faulty variant of the
definition after it. No specification uses it; each one must make the property
it is paired with in `PROJECT.json` fail, which shows that the property depends
on that code.

### Sharding

One agent per node. `now` counts check intervals. `ctl[a]` is `AgentControl`,
`intents[a]` the intent table of `a`'s node (its own announcement under its own
id), `seen[a][b]` the agent info of `b` in `a`'s peer store, `gone[a]` the peers
marked unresponsive. `posts` holds agent infos, announcements and withdrawals in
flight, in any order.

`Check(a)` is one run of the check task for one agent: brake, purge of lapsed
intents, then either the re-check of a pending shrink (`ExecuteIntent`:
`ExecuteShrink`, `WaitLonger` or `StandDown`) or `Decide` (`StartGrow`,
`AnnounceShrink`, `Hold`). `Sync` is the gossip side widening the current arc
towards the target. `Receive` files an info, intent or withdrawal. `Die` and
`MarkUnresponsive` are the failures. `Tick` lets time pass, but never past a
message that is older than `Lag`, a check more than `Stall` late, or a death
undetected for longer than `Detect`.

Abstractions: arcs are sets of sectors, which is exact because blocks are sector
aligned; accumulators count intervals, not milliseconds; `wait_for` is the
constant `Wait`; recent contact (`silent_peers`) is a nondeterministic choice of
silent peers that must include whoever has been dead for `SilentAfter`, may
include anyone dead more recently, and anyone in `Quiet`. The opt-in modes
`agentinfo_encoding` and `coordinated_growth`, pinned agents and several local
agents on one node are not in the model.

`PeerMeta` opens up what `Sharding` leaves to choice: the round counter and the
unresponsive mark of each url with their expiry (`RoundEnds` reads a counter,
`CountRound` writes it, a step later), the `contact` and `last_probe` maps that
a restart forgets, and the `Check` that counts holders, estimates the lag and
sends probes (`ProbeEnds`). Peers die, and infos they signed before may still
arrive.

### Gossip

*`GossipRound`.* `initiated[n]` and `accepted[n]` are `initiated_round_state` and
`accepted_round_states`. Each handler of `respond_to_msg` is an action with its
validation as guard; `Reject` is what happens to a message that fails
validation. Handling `Initiate` takes two steps, `AdmitInitiate` and
`AcceptRound`, because the code checks the limit and the tie breaker first and
records the round several awaits later. Other handlers keep the round's mutex
from validation to reply and are one step. `TimeoutInitiated` and
`TimeoutAccepted` are `remove_timed_out_rounds`, `UpdateDht` the task that moves
the time boundary, `Fetch` an op arriving from the peer it was asked of, and
`Lose`, `LoseFetch`, `Restart` the faults.

Abstractions: a hash stands for the set of ops it combines; an op is one unit of
the byte budget and all nodes have the same budget; all nodes aim for the full
arc, so their arcs always overlap; storing an op and informing the DHT model of
it are one step; the n-th op a node stores has `stored_at` n; session ids are
fresh, and the tie breakers of crossing rounds differ (32 random bits each). The arc
is the set of sectors claimed, without the requirement that it be contiguous.

*`Initiation`.* The initiate task of one node, cut at its awaits
(`ReadLocalAgents`, `Wake` or `WakeByForce`, `CheckRound`,
`select_next_target`, `InitiateRound`), the answers, failures and timeouts of the
rounds it starts, and the rounds peers start with it under the burst limit. Last
gossip times are kept as an order (`recent`, a relation) and the timestamps of
the burst tracker as how many there are up to each age in intervals (`bursts`).

*`Dht`* is one node's DHT model over the slice hashes in its op store: per sector
a time partition (`parts`), the update that cuts and merges slices, its
failures half way and restarts, and ops that are stored and reported late. A
hash is the set of ops counted an odd number of times, since hashes combine by
XOR. *`Snapshots`* are the operators that take, compare and refine snapshots of
two such models, and an exchange of them as the turns that the two nodes take;
*`Arcs`* those on arcs and sectors.

### Fetch and publish

*`Fetch`.* `requests` is `State::requests` (without the metadata kept in it), `queue` the
outgoing channel, `working[w]` what each outgoing worker has taken from it. A
call of `request_ops` takes three kinds of step, `RequestOps`, `AddRequests` and
`Enqueue`, since other tasks run at its awaits; a worker takes `Take`,
`CheckRequest` and `Send` or `FailSend`. `Answer` is the peer, `Receive`,
`Store` and `FailStore` the response task. `unanswered` is a history variable:
the requests whose latest answer was lost. The
error branch of `send` on a closed channel and the worker's stop when the
transport is gone are left out: both outlive the space.

*`Publish`* has the two kinds of publish (ops, an agent info), each with a caller
waiting for room (`PublishOps`, `PublishAgent`, `Queue`), an outgoing task
(`TakeNext`, `SendModule`, `StopTask` when the transport is gone), the peer's
handler that refuses what does not fit (`RecvModuleMsg`) and the peer's task
(`Process`). `Cut`, `Mark` and `DropTransport` are the disturbances.

### Peers and access

*`Access`.* `store`, `known`, `blocked` and `decisions` are the peer store, the
index of known peers, the host's blocks and the cache of verdicts. A call to
insert, block or remove is a task (`task[t]`) with a step per await: the record,
the filter, each listener, and of the decision its clearing, the reading of the
blocks (`CheckBlocks`) and the write (`WriteDecision`), so a verdict can be
stale. `RecvData`, `SendModule` and the other transport steps look at the
cache; `cleared` and `strayed` are histories. An info carries its age instead of
a timestamp. *`PeerQueries`* are the read-only queries of the store and of
`common.rs`.

### Space and host

*`Spaces`* follows one space id of one instance: calls of `space` and
`remove_space` by several tasks over the shared future of a construction (a
*generation*), the handler tables of the transport, and the ways an address
reaches the space (the transport's own, a relay configured for the space, the
watch loop that hands it out). The host may make any call at any time. Two
histories name what the code does not protect: `crossed` the generations a call
of `space` for which met a removal, `missed` those that lost an address in one of
the three windows in which the code drops it. *`Announce`* follows one agent: callbacks that read
the url, sign, store, push and broadcast, none of them ordered; leaving; the
push queue, a server that forgets, and a peer that polls and hears broadcasts.

### Bootstrap server

*`BootstrapStore`*: worker threads take a put, look its space up under the map's
lock and update it after that lock is released; the prune thread lists the keys,
looks a space up and prunes it. A list that is filtered or cut is what `Kept`
takes of it: some of its places, in their order. *`HttpServer`*: sockets with their establish
deadline, the request channel, the threads, relay connections with their byte
bucket, start and shutdown. *`RelayAuth`*: tokens with their idle times, the allow
list, the prune thread with the list it read, clients that cache a token, and the
token that iroh keeps for reconnecting.

### Transports

*`IrohTransport`*: a connection is a number with an end at two nodes; `life` is
the `ConnectionState` of each end, `slot` the registry, `reader` the reader task,
`snd` the calls of send, and close frames, preflights and data are in flight.
Steps are cut at awaits and at the registry's lock. `ConnectionSlots` is the
abstract registry it implements: open, claim (superseding the live holder in the
same step), activate, end, release. *`MemTransport`*: `link` holds the connections
with both of their ends, `cmds` the command queues, `calls` connections the
listener has yet to forward, `con_pool` the one each node uses.

## 3. Runs

Each run has a `.cfg`; `tlc -workers 2 -config X.cfg MCModule` repeats it. The
runs with a violation are described with the findings (section 5).

| Run | Instance | Shows |
|---|---|---|
| `gossip_peers` (`Rounds.cfg`) | sharding: 3 agents in sector 0 of a 2-sector ring, target 1, views 1 interval stale, wait 2, 10 intervals; rounds: 2 nodes, 2 ops (one in the disc, one in a ring), budget of 1 op, 2 sessions at a time, 1 fault | No sector falls below the target (`AtTarget`), an agent is never counted on after it left (`PhantomAnnounced`), and the race does end in a shrink (`RaceResolves`); `OneRoundPerPair`; `ClaimsHold`: a storage arc claims only what is held; `BookmarkSkipsNothing` |
| `sharding_deaths` (`ShardingDeaths.cfg`) | the same agents, up to 2 crashes at any time, death detected within 2 intervals, small-network clamp 2 | `ShrinkLeavesTarget`: no shrink counts on a peer that left or could be known dead. `RepairStarts`: soon after the deaths no survivor stands by at its smallest arc next to a sector that is short |
| `gossip_converges` (`GossipLiveness.cfg`) | 2 nodes, 1 op, held by one of them, that moves from ring to disc and that bookmarks no longer reach, 1 fault, fair | `Converges`: both nodes end up with all ops and all agent infos, and one of them claims its whole arc |
| `exchange` (`Exchange.cfg`) | fetch: 2 ops, 2 peers, 2 callers, 2 workers, queue of 1, lossy; publish: 2 publishes, queues of 1, 2 cuts; contacts: 1 peer, 2 handlers that count, infos valid 7, counters 6, 1 restart, 9 ticks | `NoOrphanRequest`, `RequestsSettle`; `PublishedArrives`: what is published arrives or its loss has a cause; `NoGhostCounted`: the dead stop counting as holders |
| `fetch_drained` (`FetchDrained.cfg`) | 1 caller, 1 worker, nothing lost, fair | `ListenersAreTold` is violated |
| `access_decisions` (`Access.cfg`) | 2 agents at 1 url (both use it, one moves away), 1 inserting task, 1 host | `OnlyClearedAreHeard`; `BlockTakesHold` and `AccessStays`: the cached decision ends up right for the blocked and for the unblocked |
| `announce` (`Announce.cfg`) | relay: 1 client, 4 tokens, idle limit 3; announcing: 1 agent, 2 urls, 2 callbacks and 2 live infos at a time | `OpenConnectionKeepsToken`, `RelayRecovers`; `Announced` and `Withdrawn`: a peer ends up with the address that stays, or without the agent that left |
| `stores` (`Stores.cfg`) | bootstrap: 3 authors, 2 workers, 2 entries, three moments, lifetimes of one and two and one that is refused; DHT: 3 ops at the edges of slices, 2 sectors, 1 fault | `AckedIsListed`; `SlicesHoldTheirOps`, `SlicesFollowTheClock`, `DiffFindsTheOps`, `LongRunningStay`. The `ASSUME`s of `MCStores` compare the pure operators (arcs, arc sets, `stat_process`, peer queries) with reference definitions |
| `bootstrap_orphan` (`BootstrapOrphan.cfg`) | as above | `PutIsStored` is violated |
| `node` (`Node.cfg`) | 2 tasks of the host that call what they like, 2 generations of the space, 1 url of the transport and 1 at the space's relay; 3 peers (near, silent, banned), burst factor 2 | `HeldIsServed`, `AddressArrives`; `TurnsAreFair`, `PoliteIsHeard` |
| `space_race` (`SpaceRace.cfg`) | 2 tasks of the host, 2 generations of the space | `SpaceIsGiven` is violated |
| `connections` (`Connections.cfg`) | iroh: 2 nodes, 2 connections, 2 sends, 1 trouble; memory: 2 nodes, 2 links, 2 sends, 1 fault; server: 2 sockets, 1 thread, 2 listeners | Both ends settle on one connection (`EndsAgree`), nobody is blamed for a race (`NoFalseUnresponsive`), no end in silence (`EndsAreReported`), written data is read (`WrittenArrives`), no send waits for ever (`NoStuckSend`), and `ImplementsSlots`; `SendsSucceed`, `SendsAreAnswered`; `EstablishedStays`, `ShutdownEnds`, `ReadsArePaced` |

Deadlock is checked where something always remains to be done. It is not
(`CHECK_DEADLOCK FALSE`) where the system may rest: nothing left to fetch or
send, no call of the host under way, a server that has stopped, bounded clocks
at their end.

### Bounds and why they are enough

*Sharding.* Three agents with target 1 is the smallest setting where two leavers
are one too many and a third can be counted on wrongly. All agents share a home,
so all ranges collide, and two sectors are enough because decisions are per
sector. `HeadStart` lets agents begin their accumulators up to one interval
apart, which yields the staggered announcements. The horizon of 10 intervals
covers announce, wait, stand-down or wait, refresh, and a second announcement
(`ShrinkNeed + 2 * Wait + Lag` = 8). The safety properties do not rest on these
bounds: they are proved. The run with crashes has `Lag` 0 to stay small; the
theorem covers any `Lag`.

*Gossip.* Two nodes are all a round involves. Two ops with a budget of one make
every listing partial, so that paging of the bookmark and passing over places
happen; the nodes are interchangeable, so the run uses symmetry; one op in the
disc and one in a ring take a round through both kinds of detail. Two session
ids allow the crossing rounds and a stale message of the earlier one. One fault
is what each recovery path (timeout, next round) handles; a second fault
restarts the same path. In `gossip_converges` the op is one that the bookmark
has passed (`Pasts = {"old"}`), so only a DHT diff can carry it, and the
boundary moves once, at a different time on each node. It starts at one node;
nothing in the model tells nodes apart, so the other choice is the same run with
the names exchanged (`OneHolderSpec`). The safety properties are proved for any
number of nodes, ops and faults.

*Fetch and publish.* Two callers and two workers for the races on one request,
two peers so that a failure of one leaves requests to the other, queues of one
so that callers wait. Two publishes of each size fill every queue, and two cuts
let a connection fail, come back and fail again.

*Contacts.* The lifetimes keep the order of the defaults: counters outlive an
info's renewal, a probe interval is several checks. Nine ticks reach past the
lapse of the counter, of the mark, and of the info that a dead peer had signed.

*Access.* Two agents at one url are the case in which blocking one must not cut
off the other, and an agent that moves away turns a good verdict stale. One
insert racing one call of the host covers every pair of awaits of a decision.

*Announce.* Two callbacks at a time are enough for the older one to sign, store
or push last; four tokens let the client's, the server's and iroh's differ and
one more be issued.

*Stores.* Two workers and the prune thread are every pair that meets at the two
locks; with two entries the third put evicts. The three ops lie at the edge of a
full slice, at the edge of a partial slice, and ahead of the clock; the clock
runs from 21 to 29 units, over every kind of cut and merge of slices with factor
2.

*Node.* Two generations are the old and the new space that share the transport's
tables, and two tasks are a removal and the call that meets it; in this instance
a construction does run into the old handlers and a space does lose its own, so
the cases that `HeldIsServed` sets apart happen. Tasks are interchangeable
(symmetry). The theorem covers any number of both. Three peers make a choice that can be unfair to one.

*Connections.* A simultaneous open is two nodes and two connections. One trouble
hits each step of it in turn. The one fault of the memory transport may be a
disconnect; the goodbye that follows from it is no fault of its own.

### Fairness

*GossipRound* (`FairSpec`): weak fairness on initiating (the initiate task is a
loop), on handling each message and on recording an admitted initiate (tokio
polls every spawned task), on fetching each requested op, on the DHT update task
and on timing out a round of which nothing is under way (the timeout task is a
loop and the round's clock only runs). A hasty timeout, while an answer is still
under way, is possible but counts as a fault: the default is 15 s. Faults are
bounded, so that convergence is asked of a network that calms down.

*Fetch*: weak fairness on each worker, each caller's queueing, the peer's answer
or its loss, and the response task. No fairness makes a send succeed or an
unresponsive mark expire.

*Publish*: weak fairness on the caller's queueing, on every step of the outgoing
tasks, on the peer's handler and on its incoming tasks.

*Access*: strong fairness on the steps of a task, since tasks take turns on the
locks of the stores, and on the refresh of a local info and its arrival, which
other inserts may overtake; weak fairness on pruning decisions.

*Announce*: strong fairness on signing, storing, pushing, polling and delivery,
because each may fail any number of times and is tried again; weak fairness on
the tasks that only need to run. *RelayAuth*: weak fairness on the client's
steps once it has a transport (the keepalive loop), on connecting, on the prune
thread and on the clock. None on `Create`: a transport or relay whose creation
failed is made again only if the host does so, so `RelayRecovers` promises
nothing of a client that stays down.

*Sharding* states no fairness: its time bounds are guards of `Tick`, so what
must happen soon is an invariant over the clock (`RaceResolves`,
`RepairStarts`). The contact side of `exchange` and the relay's idle times are
bounded by their clocks in the same way.

## 4. Theorems

The proofs are checked with `tlapm <Module>.tla`. Each theorem holds for every
value of the constants that satisfies the named assumptions of the module that
declares them; what more it assumes is said below. `PROJECT.json` lists them.

*Blocks* (`ShardingProofs`; any ring size, from `MaxLevelAssumption` and
`BlockSizeAssumption`, which says that sizes double and divide the ring):
`BlockInRing`, `VacateIsDropped`, `SiblingIsVacated`.

*Sharding* (`ShardingProofs`): `TypeCorrect`, `ShrinksKeepTarget`,
`NoUnannouncedPhantom`, `DropsAreCovered`, `ShortagesAreTaken`, for any agents,
homes, ring, redundancy, number and time of deaths, head starts, and any set of
agents gone quiet, assuming only `Patient` (the default re-check) and
`WellTimed`:

    Lag + Stall < Wait   and   Lag < ShrinkNeed

In words: the wait between announcement and re-check outlasts the staleness of
any view plus a late check, and a new announcement is made only after the news
of the previous outcome has arrived. The code aims at both (`intent_wait` 2.5
and `shrink_persistence` 4.0 times the measured lag) but measures the lag rather
than enforcing it, so these are assumptions about the network.

`AtTarget` is far from inductive: whether a shrink is safe depends on what the
shrinking agent believes of every other. `IInv` in `ShardingInv` says why that
belief is right. `TimesOK` bounds the age of what is in flight. `PendingOK` ties
a pending shrink to the agent's arc and block, and says that its intent outlives
its re-check by a wait. `InfoOK` says that arcs in flight never declare more than
is stored and that an outdated view has its correction under way. `IntentOK`
says that nothing of an earlier shrink is in flight during a later one.
`VisibleOK`: a pending shrink is in every peer's table or on its way there, early
enough. `PhantomOK`: a sector that was dropped but is still seen is covered by an
intent that outlives the correction. At the re-check of `a` these give: each peer
that `a` counts stores the sector, is not counted as an intender, and, if it is
itself about to leave, counts `a` as gone, so the `R` holders that `a` relies on
stay (`DropsAreCovered`), and `AtTarget` follows.

`ShortagesAreTaken` (`RepairStarts`) is a response within a bound: an agent whose
target is its smallest arc does not stay so next to a sector that is short for
longer than `Detect + (GrowNeed + 2) * (Stall + 1)` after the last death. `RepairInv`
adds three facts to `IInv`. `MarksOK`: a dead peer is marked in time.
`FloorOK`: such an agent has no sync under way that keeps its check from
deciding. `LapseOK` is the measure: since the death that could hide the shortage was marked, the
agent has checked no more often than its grow accumulator shows. It rests on
`DropsAreCovered`, by which a sector becomes short only through a death, and on
`IInv`, by which every check after the marks sees the shortage and so raises the
accumulator or grows. A lone death suffices as the witness, so the bound does
not add up over deaths.

*Gossip* (`GossipProofs`), for any number of nodes and ops, any budget and any
faults. `NoOpIsPassedOver` (`BookmarkSkipsNothing`): `GossipInv` says that a
message which asks names a bookmark no later than the present one, and that a
page in flight contains every op its sender stored from that bookmark to the
page's end. `OneRoundAdvances` (`OneRoundPerPair`): `PairInv` follows a round
from the moment its initiate is admitted (`Met`), while it is in the peer's
checks and then in the `Accept`, long before the initiator's stage shows it.
`ClaimsAreHeld` and `PairsHoldTheirClaims` (`ClaimsHold`): in `ClaimsInv` what
a snapshot in flight leaves out its receiver holds, except in rings where both
agreed, and what the initiator of a ring diff lacks lies in the rings it asks
about. This needs that no op is lacking at two nodes at the start
(`OnlyOneLacks`); two nodes start like that, since every op is somewhere. With
more nodes it is a real condition: two nodes that lack the same op agree with
each other and may claim its sector.

*DHT model* (`DhtProofs`), for any ops, locations and creation times, any factor,
any clock and any faults: `DhtInvariant`, `SlicesAreExact`
(`SlicesHoldTheirOps`) and `SlicesAreLaidOut` (`SlicesFollowTheClock`). What a
slice counts is exact only because of where its neighbours end, so `DhtInv`
takes each sector as a whole. `FullOK`: the stored slices are exact below the
count of full slices and absent from there on, which is what makes
`slice_hash_count` (the highest index plus one) the right place to resume after
a restart; it therefore also holds of a process that is down. `PartialsOK`: the
partial slices begin where the full ones end, each where the one before it
ends, and each counts what was told of its own window. `ClockOK`: sizes and
number of the partial slices are those that `layout_partials` gives for the time
of the update. *Exact* leaves out the ops in `early`: an update reads the store,
and so counts ops that `inform_ops_stored` has yet to report and that are then
added a second time. The lemmas underneath are about the arithmetic of the cuts:
`SizeFacts` and `LayoutSteps` say that from the largest size to the smallest
what is left over stays below what the smaller sizes can take
(`residual_duration_for_factor`), and `Continue` that each size occurs at most twice in a
row. `Recursion` unrolls a recursive function over `0..Factor`, by the least place
where it would differ, instead of by induction.

`DiffsAreFound` (`DiffFindsTheOps`): what an exchange of snapshots lists to each
side, whatever two nodes that cut time alike were told of and whichever sectors
they have in common, once every report is in. It assumes that there are finitely
many ops (`IsFiniteSet(Ops)`). `DhtInv` alone is not enough, because a hash from
which every op was taken again differs from one that was never there: `TidyInv`
adds that a stored or partial hash holds only ops that were told or are early,
and never becomes the empty one. From the two, `OursIsModel` and `PeerIsModel`
show that the snapshots of either node are those of the set it was told of.
`Ordered` says that `InOrder` counts the places of a difference off one by one,
and `Lists` that `HashList` therefore takes all of their ops when the budget
allows, and never more than the budget. `ExchangeFinds` follows the turns:
minimal, then either sectors and sector details (history differs) or ring details
(only the rings do), then the lists, or the end when the minimal snapshots agree.

*Fetch* (`FetchProofs`), for any ops, peers, callers, workers and queue size:
`TypeCorrect` and `NoRequestIsOrphaned` (`Spec => []NoOrphanRequest`). The
latter is inductive given the types, because each task hands a request on (call
to queue, queue to worker, worker to the network) in the step that lets go of it,
and whoever gives a request up removes it from the set in the same step.

*Contacts* (`FetchProofs`): `GhostsFade` (`NoGhostCounted`), for any peers,
handlers, intervals and lifetimes. `CheckInv` bounds the age of the last check.
`ContactInv` and `SilenceInv`: the counter of a dead peer is not written any
more, and a check that looked at it since saw its last value, so it goes up at
most once after the death. `ProbeInv`: a peer that is still counted has a probe
due, on its way, or ended in a mark. Each restart forgets a probe and adds a check
and a send to the bound.

*Access* (`AccessProofs`): `OnlyTheClearedAreHeard` (`OnlyClearedAreHeard`). A
verdict is written two awaits after the infos were read, so the invariant speaks
of the verdict in hand (`VerdictInv`): whatever the call found then, an url that
it is about to clear had an agent that was not blocked when the blocks were read
(`ClearInv`).

*Space* (`NodeProofs`): `HoldersAreServed` (`HeldIsServed`) and
`AddressesArrive` (`AddressArrives`), for any number of tasks that call `space`
and `remove_space` beside each other in any order. `remove_space` empties the
tables in several steps without a lock across them, so a call of `space` that
meets it can get a space without handlers, or a panic (section 5); the history
`crossed` names the generations this may happen to: one that was asked for
while a removal of it was past its check, and one that was created while a
removal was under way or what such a one left was still there. The
theorems are about all others. `ServedInv` says why they are safe. `CallsInv`:
while a *sound* generation (one not in `crossed`) is in the map, every removal
under way is about it and has not taken it out yet, and a call that waits for
it keeps it there. `HandlersInv`: it is built alone, finds both tables empty,
and out of the map it has handlers only while its removal takes them
(`Taking`, `Unregistering`). So the handlers a removal takes out are never
those of another sound generation. `AddressInv` follows the url of the
registered generation.

*Gossip initiation* (`NodeProofs`): `EveryPeerHasItsTurn` (`TurnsAreFair`) and
`PolitePeersAreHeard` (`PoliteIsHeard`). `TurnInv` counts, for each peer, how
often it was passed over and how many urls still come before it (`Ahead`): the
sum stays below the number of urls, since an attempt stamps its target before
the send, and the stamp takes it out of those ahead; while the task is about to
send, the target may already have lost its place to a round it started with us.
`PoliteInv` bounds the timestamps of a polite peer up to each age by one per
interval and one late arrival. That is within the limit when the burst factor is
at least two, which `PolitePeersAreHeard` assumes (the default is 3): with a factor
of one and a full window, the late initiate would be refused.

*Iroh transport* (`IrohProofs`), for any nodes, connections, sends and troubles:
`BothEndsAgree`, `NobodyIsBlamed`, `EndsAreTold`, `DataArrives`, `WaitsEnd`, and
the refinement `SlotsAreKept` (`ImplementsSlots`). `IrohInv` has the shape of
ends, slots, calls and frames, who holds the registry's lock, what a dial and an
answer know of their connection (`DialInv`, `AnswerInv`), and what follows an
end (`EndInv`, `ReadInv`, `ReplaceInv`, `FramesInv`, `OwedInv`). `CalmInv` holds
while nothing has gone wrong: of the connections between two nodes there is a
champion - the one dialed by the larger id, or the only one - that neither side
gives up. For the refinement each step is mapped to a step of the registry or
to a stutter.

*Memory transport* (`ServerProofs`): `SendsGoThrough` (`SendsSucceed`) and
`SendsComeBack` (`SendsAreAnswered`). `MemInv` says where an end of a link can
be (with its owner, in a queue of calls, in a command), that what waits is in
exactly one place that will answer it (`PendInv`, `RegInv`, `SendInv`), and,
without faults, that a link whose owner pools another one is about to be
replaced (`CalmInv`). The 5 s timeouts of the code are taken to outlast live
steps.

*Bootstrap server* (`ServerProofs`): `EstablishedIsSafe`, `ShutdownIsSafe`,
`ReadsAreLimited`, `OpenTokensStayValid`, `AcknowledgedIsServed`,
`FirstHalfIsSafe`. `EstablishInv` ties the socket's
deadline to what was answered; `ShutdownInv` orders the closing of channel,
threads and sockets; `PaceInv` bounds the debt of the byte bucket by one frame;
`TokensFresh` says that the prune thread, which refreshes tokens from a list
that is one step old, still comes before a token of an open connection is idle
for its limit. It rests on the idle limit being longer than two ticks, one tick
being at most one prune interval (the defaults are a day and minutes).
`AcknowledgedIsServed` (`AckedIsListed`) and `FirstHalfIsSafe`
(`LongRunningStay`) rest on `StoreInv`: a list names no agent twice and has no
tombstone, what is due is one info per agent, and a worker in `update` still has
a space (the others hold an orphan). The lemmas before it say what `Kept`,
`MakeRoom` and `UpdatedList` do to a list of any length; they replace induction
on the list by the least place that would break them (`LeastNat`).

*Only model-checked, and why.*

- Liveness under fairness is outside what the provers handle: `Converges`,
  `RequestsSettle`, `PublishedArrives`, `RelayRecovers`, `Announced`,
  `Withdrawn`, `BlockTakesHold`, `AccessStays`.
- `RaceResolves` is a bounded response as well, but one that follows the whole
  course of a race between several agents.
- The comparisons with reference definitions in `MCStores` are assumptions that its
  run evaluates.

## 5. Findings

Three runs check a statement of the repository that the code does not meet.

1. **Listeners are not told when the last op is fetched** (`fetch_drained`):
   `incoming_response_task` (`core_fetch.rs:519`) removes requests without
   looking at the listeners, and no queued item is left to do it. The API
   promises a notification "when the fetch module has drained all pending
   requests".
2. **A put can be acknowledged and not stored** (`bootstrap_orphan`):
   `SpaceMap::update` (`space.rs:68`) releases the map's lock before it writes,
   and a prune removes the still empty space in between.
3. **`space` can panic beside `remove_space`** (`space_race`): the removal takes
   the space out of the map (`core_kitsune.rs:221`) before it unregisters the
   handlers; a call of `space` in between creates the space anew and runs into
   the old module handlers, where the transport panics
   (`api/src/transport.rs:729`). The API promises "an existing space ... or ... a
   new one", and asks for no exclusion of the two calls. The construction has to
   overtake a few lines of another task. In the same way the second of two
   removals that both passed the check takes the handlers of a space made after
   the first, which then looks alive and receives nothing.

Smaller observations made while modelling, none of which breaks a property
here:

- The initiator accepts an `Agents` message only at stage `NoDiff`; one that ends
  a disc or ring diff is refused and the round stays until its timeout.
- An info that has expired and was not pruned yet still counts as the newer one:
  a put of an older info that lives longer is acknowledged, and both are gone
  (`Space::update` compares `created_at` before it looks at the expiry).
- The limit on accepted rounds is read several awaits before the round is
  recorded, so it can be exceeded.
- The re-check by lower id (`patient_lowest = false`, not the default) is unsafe
  under stale views, as the configuration's documentation says.
- When the counter or the mark of a dead peer lapses while its info is still
  valid, the peer counts again for a wait or a probe; each restart lengthens the
  time by a check and a send.
- A space whose construction fails stays in the map (`core_kitsune.rs:147`), and
  `unconfigure_for_space` is never called.
- `get_near_location` applies its limit before local and unresponsive agents are
  filtered out by `common.rs`.
- `ArcSet::as_arcs` does not join sectors across the origin.
- `MemBootstrap` keeps the last put, whatever its `created_at`.
- Metadata that arrives for a request between the read at `core_fetch.rs:482`
  and its removal is dropped.

## 6. Not modelled

Byte formats, encoding, framing, urls, logging, reports and statistics have no
state worth exploring. TLS, HTTP and the relay protocol are library code. The
showcase, the test utilities and the build tool are not part of the running
system.

Known limits of what is modelled: announcements are always delivered (the code
has no acknowledgement and a lost announcement does break `AtTarget`);
`coordinated_growth`, `agentinfo_encoding`, pinned agents and several local
agents on a node are left out of `Sharding`; a place larger than the op budget
never converges and is kept out of the gossip instances, and so are nodes with
different budgets (`respond/accept.rs:79`); the locks inside gossip handlers are
not modelled, only the order their awaits allow; growth of the storage arc on
identical rounds happens only at the initiator, so `Converges` asks it of some
node and not of each.

## 7. Plan

1. A proof of `RaceResolves`: the lowest racer's accumulator and pending shrink as
   a measure.
2. The refinement of an abstract set of requests by `Fetch`, as `GossipRound`
   uses it.
3. The locks inside gossip handlers (accepted map against round mutex), for
   deadlock; `coordinated_growth` in `Sharding`.
