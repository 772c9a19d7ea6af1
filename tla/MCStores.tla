---- MODULE MCStores ----
(***************************************************************************)
(* Two stores that age with the clock: the bootstrap server's infos, and   *)
(* the slice hashes of the ops of a space.  They share no state, so a      *)
(* behaviour is explored on one side or on the other.                      *)
(*                                                                         *)
(* The space has two sectors and three ops: at the edge of a full slice,   *)
(* at the edge of a partial slice, and ahead of the clock in the other     *)
(* sector.                                                                 *)
(***************************************************************************)
EXTENDS BootstrapStore, Snapshots, PeerQueries

VARIABLE side

\* Lifetimes that are too short, usual, and longer than allowed.
MCLives == {1, 2, 3}

Alike == Permutations(Authors) \union Permutations(Workers)

MCLoc == [o \in Ops |-> IF o = 3 THEN SectorSize ELSE SectorSize - 1]
MCCreated == [o \in Ops |-> CASE o = 1 -> 16 [] o = 2 -> 22 [] OTHER -> 25]

(* The locations of an arc, counted from its start. *)
LocationsOf(arc) ==
    IF arc = EmptyArc THEN {} ELSE {Ring(arc[1] + k) : k \in 0..ArcSpan(arc)}

(* dist, contains and overlaps against the locations of the arcs, and      *)
(* ArcSet::new and as_arcs against the sectors of arcs that start and end  *)
(* with one, on every arc of the small ring; an arc set of six sectors     *)
(* survives its two three-bit words.                                       *)
ASSUME ArcsReference ==
    /\ \A a \in Arcs : \A l \in Locations : ArcContains(a, l) <=> l \in LocationsOf(a)
    /\ \A a, b \in Arcs :
          Overlaps(a, b) <=> LocationsOf(a) \intersect LocationsOf(b) # {}
    /\ \A a \in Arcs : a # EmptyArc /\ a[1] % SectorSize = 0 =>
          IF Ring(a[2] + 1) % SectorSize = 0
          THEN ArcSetNew(<<a>>) = {SectorAt(l) : l \in LocationsOf(a)}
          ELSE ArcSetNew(<<a>>) = Refused
    /\ \A S \in SUBSET SectorIds :
          \A arcs \in SetToSeqs(AsArcs(S)) : ArcSetNew(arcs) = S
    /\ \A S \in SUBSET (0..5) : Decode(Encode(S, 6, 3), 6, 3) = S

(* stat_process over every list of infos of distinct agents: one info for  *)
(* an agent, none that is expired, the info just put at the end, and never *)
(* more than the limit.                                                    *)
ASSUME StatProcessReference ==
    LET Infos == [agent : 1..3, expires_at : 1..2]
        Lists == UNION {{l \in [1..n -> Infos] :
                            \A i, j \in 1..n : l[i].agent = l[j].agent => i = j} :
                          n \in 0..3}
        Distinct(l) == \A i, j \in DOMAIN l : l[i].agent = l[j].agent => i = j
    IN \A l \in Lists : \A e \in Infos \union {[agent |-> 4, expires_at |-> 2]} :
         LET polled == StatProcess(l, <<>>, 1, 3)
             held == StatProcess(l, <<e>>, 1, 3) IN
         /\ Range(polled) = {x \in Range(l) : x.expires_at > 1}
         /\ Distinct(held) /\ Len(held) <= 3 /\ Last(held) = e
         /\ Range(held) \ {e} \subseteq {x \in Range(polled) : x.agent # e.agent}
         /\ Len(held) < 3
               => {x \in Range(polled) : x.agent # e.agent} \subseteq Range(held)

(* The queries of the peer store and of its helpers: an answer near a      *)
(* location is in the order of distance, keeps to its limit and leaves out *)
(* no agent that is nearer than the last one it has; and who is asked for  *)
(* as a responsive remote agent is one, for any marks and local agents.    *)
ASSUME QueriesReference ==
    LET Infos == [agent : 1..2, url : {1, 0}, storage_arc : {EmptyArc, <<1, 2>>, <<5, 0>>},
                  is_tombstone : BOOLEAN]
        Stores == UNION {{s \in [A -> Infos] : \A a \in A : s[a].agent = a} :
                           A \in SUBSET (1..2)}
        Far(i, l) == Dist(i.storage_arc, l)
    IN \A s \in Stores, l \in {0, 3} :
         /\ \A k \in 0..2 : \A near \in GetNearLocation(s, l, k) :
              /\ Len(near) <= k
              /\ \A i \in 1 .. Len(near) - 1 : Far(near[i], l) <= Far(near[i + 1], l)
              /\ \A x \in GetAll(s) \ Range(near) :
                    Helpful(x) => /\ Len(near) = k
                                  /\ \A i \in DOMAIN near : Far(near[i], l) <= Far(x, l)
         /\ \A locals \in SUBSET (1..2), marked \in SUBSET {1} :
              /\ ResponsiveRemoteByOverlappingStorageArc(s, locals, marked, 0, <<1, 1>>)
                   \subseteq AllResponsiveRemote(s, locals, marked, 0)
              /\ \A r \in ResponsiveRemoteNearLocation(s, locals, marked, 0, l, 1) :
                   r \subseteq AllResponsiveRemote(s, locals, marked, 0)
              /\ \A x \in AllResponsiveRemote(s, locals, marked, 0) :
                   x \in GetByUrl(s, 1) /\ marked = {} /\ x.agent \notin locals

Init == side \in {"infos", "ops"} /\ StoreInit /\ DhtInit

Next ==
    /\ UNCHANGED side
    /\ \/ side = "infos" /\ StoreNext /\ UNCHANGED dhtVars
       \/ side = "ops" /\ DhtNext /\ UNCHANGED storeVars

Spec == Init /\ [][Next]_<<side, storeVars, dhtVars>>
====
