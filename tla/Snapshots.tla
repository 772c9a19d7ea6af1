----------------------------- MODULE Snapshots -----------------------------
(***************************************************************************)
(* How two nodes find the ops they do not share: snapshots of the DHT      *)
(* model in more and more detail, taken over the sectors both store        *)
(* (arcs), until a pair of slices with different hashes remains.           *)
(*                                                                         *)
(* A model d is what one node holds: the slice hashes of its op store, its *)
(* time partitions and its ops.  A HashMap without an entry is a function  *)
(* with a smaller domain.                                                  *)
(***************************************************************************)
EXTENDS Dht
-----------------------------------------------------------------------------
(* Queries of TimePartition and HashPartition.                             *)

\* combine_op_hashes over the hashes of f, empty ones left out.
Combined(f) ==
    LET used == {i \in DOMAIN f : f[i] # NoHash}
    IN IF used = {} THEN NoHash
       ELSE {o \in Ops : Cardinality({i \in used : o \in f[i]}) % 2 = 1}

\* The entries of a HashMap that an empty hash does not get into.
NonEmpty(f) == [i \in {j \in DOMAIN f : f[j] # NoHash} |-> f[i]]

FullTimeSliceHashes(d, s) == NonEmpty(d.slices[s])
FullTimeSliceTopHash(d, s) == Combined(FullTimeSliceHashes(d, s))
PartialSliceHash(d, s, r) == d.parts[s].partials[r].hash
DiscBoundary(d) == FullEnd(d.parts[0])

DiscTopHash(d, arcs) == Combined([s \in arcs |-> FullTimeSliceTopHash(d, s)])

\* One ring for every partial slice of the first sector of the arcs.
RingTopHashes(d, arcs) ==
    [r \in DOMAIN d.parts[Min(arcs)].partials |->
        Combined([s \in {x \in arcs : r \in DOMAIN d.parts[x].partials} |->
                     PartialSliceHash(d, s, r)])]

DiscSectorHashes(d, arcs) ==
    NonEmpty([s \in arcs |-> FullTimeSliceTopHash(d, s)])

DiscSectorSectorDetails(d, arcs, indices) ==
    [s \in arcs \intersect indices |-> FullTimeSliceHashes(d, s)]

\* A ring stays in even when no sector has a hash in it.
RingDetails(d, arcs, rings) ==
    [r \in rings |-> NonEmpty([s \in arcs |-> PartialSliceHash(d, s, r)])]

\* time_bounds_for_full_slice_index and its counterpart for partial slices;
\* the first sector stands for all.
FullSliceBounds(i) == [from |-> i * FullSize, to |-> (i + 1) * FullSize]
PartialSliceBounds(d, r) ==
    LET sl == d.parts[0].partials[r] IN [from |-> sl.start, to |-> PartialEnd(sl)]
-----------------------------------------------------------------------------
(* DhtSnapshot.                                                            *)

SnapshotMinimal(d, arcs) ==
    [kind |-> "Minimal", boundary |-> DiscBoundary(d),
     disc |-> DiscTopHash(d, arcs), hashes |-> RingTopHashes(d, arcs)]

SnapshotDiscSectors(d, arcs) ==
    [kind |-> "DiscSectors", boundary |-> DiscBoundary(d),
     hashes |-> DiscSectorHashes(d, arcs)]

SnapshotDiscSectorDetails(d, arcs, sectors) ==
    [kind |-> "DiscSectorDetails", boundary |-> DiscBoundary(d),
     hashes |-> DiscSectorSectorDetails(d, arcs, sectors)]

SnapshotRingSectorDetails(d, arcs, rings) ==
    [kind |-> "RingSectorDetails", boundary |-> DiscBoundary(d),
     hashes |-> RingDetails(d, arcs, rings)]

\* Mutant: an entry that only one side has is not a mismatch.
CommonMismatches(f, g) == {i \in DOMAIN f \intersect DOMAIN g : f[i] # g[i]}

\* The indices at which two HashMaps differ, one-sided entries included.
Mismatches(f, g) ==
    SymDiff(DOMAIN f, DOMAIN g)
        \union {i \in DOMAIN f \intersect DOMAIN g : f[i] # g[i]}

\* The places <<i, j>> at which two HashMaps of HashMaps differ.  A key that
\* one side lacks counts with all that the other has under it.
PlaceMismatches(f, g) ==
    LET differing(i) == IF i \notin DOMAIN f THEN DOMAIN g[i]
                        ELSE IF i \notin DOMAIN g THEN DOMAIN f[i]
                        ELSE Mismatches(f[i], g[i])
    IN UNION {{<<i, j>> : j \in differing(i)} : i \in DOMAIN f \union DOMAIN g}

\* compare: what kind of difference there is, and where.
Diff(kind, at) == [diff |-> kind, at |-> at]

CompareMinimal(ours, theirs) ==
    IF ours.disc # theirs.disc THEN Diff("DiscMismatch", {})
    ELSE IF Len(ours.hashes) # Len(theirs.hashes) THEN Diff("CannotCompare", {})
    ELSE Diff("RingMismatches", Mismatches(ours.hashes, theirs.hashes))

Compare(ours, theirs) ==
    IF ours = theirs THEN Diff("Identical", {})
    ELSE IF ours.kind # theirs.kind \/ ours.boundary # theirs.boundary
         THEN Diff("CannotCompare", {})
    ELSE CASE ours.kind = "Minimal" -> CompareMinimal(ours, theirs)
           [] ours.kind = "DiscSectors" ->
                Diff("DiscSectorMismatches", Mismatches(ours.hashes, theirs.hashes))
           [] ours.kind = "DiscSectorDetails" ->
                Diff("DiscSectorSliceMismatches",
                     PlaceMismatches(ours.hashes, theirs.hashes))
           [] OTHER ->
                IF DOMAIN ours.hashes # DOMAIN theirs.hashes
                THEN Diff("CannotCompare", {})
                ELSE Diff("RingSectorMismatches",
                          PlaceMismatches(ours.hashes, theirs.hashes))
-----------------------------------------------------------------------------
(* Dht::handle_snapshot.                                                   *)

\* What d stores in sector s and the given time.
OpsWithin(d, s, bounds) ==
    {o \in d.stored : /\ ArcContains(SectorArc(s), Loc[o])
                      /\ bounds.from <= Created[o] /\ Created[o] < bounds.to}

\* The batches of ops, in order, each listed if it still fits (an op is one
\* byte).  Stopping early at an exhausted budget leaves nothing out but
\* batches that are empty.
Taken(contents, budget) ==
    LET list[k \in 0..Len(contents)] ==
            IF k = 0 THEN {}
            ELSE IF Cardinality(list[k - 1]) + Cardinality(contents[k]) <= budget
                 THEN list[k - 1] \union contents[k] ELSE list[k - 1]
    IN list

HashList(contents, budget) == Taken(contents, budget)[Len(contents)]

\* The places, by their first part and then by their second.
Before(p, q) == p[1] < q[1] \/ (p[1] = q[1] /\ p[2] < q[2])
Rank(places, p) == Cardinality({q \in places : Before(q, p)})
InOrder(places) ==
    [k \in 1..Cardinality(places) |-> CHOOSE p \in places : Rank(places, p) = k - 1]

\* The ops of mismatched disc places <<sector, slice>>, by sector then slice;
\* places out of bounds are ignored.
DiscHashList(d, places, budget) ==
    LET known == InOrder({p \in places : p[1] \in Sectors /\ p[2] <= d.parts[0].full})
    IN HashList([k \in DOMAIN known |->
                   OpsWithin(d, known[k][1], FullSliceBounds(known[k][2]))], budget)

\* The ops of mismatched ring places <<ring, sector>>, by ring then sector.
RingHashList(d, places, budget) ==
    LET known == InOrder({p \in places : /\ p[1] \in DOMAIN d.parts[0].partials
                                         /\ p[2] \in Sectors})
    IN HashList([k \in DOMAIN known |->
                   OpsWithin(d, known[k][2], PartialSliceBounds(d, known[k][1]))], budget)

NoSnapshot == [kind |-> "None", hashes |-> <<>>]

\* The snapshot to compare theirs with: details sent before are not
\* computed again.
Matching(d, theirs, previous, arcs) ==
    IF theirs.kind = "Minimal" THEN SnapshotMinimal(d, arcs)
    ELSE IF theirs.kind = "DiscSectors" THEN SnapshotDiscSectors(d, arcs)
    ELSE IF theirs.kind = previous.kind THEN previous
    ELSE IF theirs.kind = "DiscSectorDetails"
         THEN SnapshotDiscSectorDetails(d, arcs, DOMAIN theirs.hashes)
    ELSE SnapshotRingSectorDetails(d, arcs, DOMAIN theirs.hashes)

NextAction(name, snapshot, list) == [action |-> name, snapshot |-> snapshot, list |-> list]

\* A final answer carries the list alone, an earlier one our details too.
Answered(previous, ours, list) ==
    IF previous.kind \in {"DiscSectorDetails", "RingSectorDetails"}
    THEN NextAction("HashList", NoSnapshot, list)
    ELSE NextAction("NewSnapshotAndHashList", ours, list)

HandleSnapshot(d, theirs, previous, arcs, budget) ==
    LET ours == Matching(d, theirs, previous, arcs)
        c == Compare(ours, theirs)
    IN CASE c.diff = "DiscMismatch" ->
              NextAction("NewSnapshot", SnapshotDiscSectors(d, arcs), {})
         [] c.diff = "DiscSectorMismatches" ->
              NextAction("NewSnapshot", SnapshotDiscSectorDetails(d, arcs, c.at), {})
         [] c.diff = "RingMismatches" ->
              NextAction("NewSnapshot", SnapshotRingSectorDetails(d, arcs, c.at), {})
         [] c.diff = "DiscSectorSliceMismatches" ->
              Answered(previous, ours, DiscHashList(d, c.at, budget))
         [] c.diff = "RingSectorMismatches" ->
              Answered(previous, ours, RingHashList(d, c.at, budget))
         [] OTHER -> NextAction(c.diff, NoSnapshot, {})
-----------------------------------------------------------------------------
(* A whole exchange: two nodes answer each other until one has the last    *)
(* word.  The side that sent details keeps them.                           *)

\* Node x.turn answers r to what the other one sent, which answered what it
\* kept; lists is what each has listed so far.
After(x, r) ==
    [turn |-> 3 - x.turn,
     sent |-> r.snapshot,
     kept |-> x.sent,
     lists |-> [x.lists EXCEPT ![x.turn] = @ \union r.list],
     end |-> IF r.action \in {"NewSnapshot", "NewSnapshotAndHashList"}
             THEN "open" ELSE r.action]

Turn(ds, arcs, budget, x) ==
    IF x.end = "open"
    THEN After(x, HandleSnapshot(ds[x.turn], x.sent, x.kept, arcs, budget))
    ELSE x

\* The second of ds accepts with its minimal snapshot, and four turns follow.
Exchange(ds, arcs, budget) ==
    LET first == [turn |-> 1, sent |-> SnapshotMinimal(ds[2], arcs), kept |-> NoSnapshot,
                  lists |-> <<{}, {}>>, end |-> "open"]
        second == Turn(ds, arcs, budget, first)
        third == Turn(ds, arcs, budget, second)
        fourth == Turn(ds, arcs, budget, third)
    IN Turn(ds, arcs, budget, fourth)

\* This node, and a peer that cuts time alike and was told of the ops S.
Ours == [slices |-> slices, parts |-> parts, stored |-> stored]
HashOf(S, s, from, to) ==
    CombineOpHashes({o \in S : /\ SectorAt(Loc[o]) = s
                               /\ from <= Created[o] /\ Created[o] < to})
Peer(S) ==
    [slices |-> [s \in Sectors |-> [i \in Indices |->
                    IF i < parts[s].full
                    THEN HashOf(S, s, i * FullSize, (i + 1) * FullSize) ELSE NoHash]],
     parts |-> [s \in Sectors |-> [parts[s] EXCEPT !.partials =
                    [r \in DOMAIN parts[s].partials |->
                        LET sl == parts[s].partials[r]
                        IN [start |-> sl.start, size |-> sl.size,
                            hash |-> HashOf(S, s, sl.start, PartialEnd(sl))]]]],
     stored |-> S]

(* When every sector is cut at the same time and no hash is off, the       *)
(* exchange (Dht::handle_snapshot on both sides, DhtSnapshot::compare)     *)
(* with any peer over any common sectors lists, to each side, every op     *)
(* that only the other one has: of the disc if anything differs there,     *)
(* else of the rings.  It ends within four turns, as identical exactly     *)
(* when there is no such op, and neither list exceeds its budget.          *)
DiffFindsTheOps ==
    (parts # Down /\ early = {} /\ \A s \in Sectors : parts[s].at = now) =>
        \A S \in SUBSET Ops : \A arcs \in (SUBSET Sectors) \ {{}} :
            LET common == {o \in Ops : SectorAt(Loc[o]) \in arcs}
                disc == {o \in common : InFull(parts[0], o)}
                ring == {o \in common : InPartials(parts[0], o)}
                differ == IF told \intersect disc # S \intersect disc THEN disc ELSE ring
                all == Exchange(<<Ours, Peer(S)>>, arcs, Cardinality(Ops))
                few == Exchange(<<Ours, Peer(S)>>, arcs, 1)
            IN /\ (told \ S) \intersect differ \subseteq all.lists[1]
               /\ (S \ told) \intersect differ \subseteq all.lists[2]
               /\ all.end = IF told \intersect differ = S \intersect differ
                            THEN "Identical" ELSE "HashList"
               /\ \A x \in {1, 2} : Cardinality(few.lists[x]) <= 1
=============================================================================
