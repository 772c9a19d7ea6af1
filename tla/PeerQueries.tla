---------------------------- MODULE PeerQueries ----------------------------
(***************************************************************************)
(* What the peer store and the helpers on top of it answer: the agents at  *)
(* a url, the agents whose storage arcs overlap an arc, the agents nearest *)
(* to a location, and of those the remote and the responsive ones.         *)
(*                                                                         *)
(* A store is a function from agents to their infos; the answer to a query *)
(* is a set of infos, and a sequence where the code sorts.  The queries    *)
(* change nothing.                                                         *)
(***************************************************************************)
EXTENDS Arcs

(* The peer store, after the pruning that every query begins with.         *)

GetAll(store) == {store[a] : a \in DOMAIN store}

GetByUrl(store, url) == {i \in GetAll(store) : i.url = url}

GetByOverlappingStorageArc(store, arc) ==
    {i \in GetAll(store) : ~i.is_tombstone /\ Overlaps(arc, i.storage_arc)}

\* A tombstone is an agent that has left; an empty arc cannot help us.
Helpful(i) == ~i.is_tombstone /\ i.storage_arc # EmptyArc

\* The answers that sorting by distance allows: infos at one distance come in
\* the order of the hash map, which may be any.
GetNearLocation(store, loc, limit) ==
    {SubSeq(s, 1, IF Len(s) < limit THEN Len(s) ELSE limit) :
       s \in {t \in SetToSeqs({i \in GetAll(store) : Helpful(i)}) :
                \A j, k \in DOMAIN t :
                   j < k => Dist(t[j].storage_arc, loc) <= Dist(t[k].storage_arc, loc)}}
-----------------------------------------------------------------------------
(* The helpers of common.rs.  unresponsive is the set of urls that the     *)
(* peer meta store holds a mark for.                                       *)

FilterLocal(infos, locals) == {i \in infos : i.agent \notin locals}

\* An info without a url cannot be reached and goes with the unresponsive.
FilterUnresponsive(infos, unresponsive, NoUrl) ==
    {i \in infos : i.url # NoUrl /\ i.url \notin unresponsive}

AllRemote(store, locals) == FilterLocal(GetAll(store), locals)

RemoteByOverlappingStorageArc(store, locals, arc) ==
    FilterLocal(GetByOverlappingStorageArc(store, arc), locals)

\* The limit is applied before the local agents are taken out.
RemoteNearLocation(store, locals, loc, limit) ==
    {FilterLocal(Range(s), locals) : s \in GetNearLocation(store, loc, limit)}

AllResponsiveRemote(store, locals, unresponsive, NoUrl) ==
    FilterUnresponsive(AllRemote(store, locals), unresponsive, NoUrl)

ResponsiveRemoteByOverlappingStorageArc(store, locals, unresponsive, NoUrl, arc) ==
    FilterUnresponsive(RemoteByOverlappingStorageArc(store, locals, arc), unresponsive, NoUrl)

\* And before the unresponsive ones are.
ResponsiveRemoteNearLocation(store, locals, unresponsive, NoUrl, loc, limit) ==
    {FilterUnresponsive(r, unresponsive, NoUrl) :
       r \in RemoteNearLocation(store, locals, loc, limit)}
=============================================================================
