-------------------------------- MODULE Dht --------------------------------
(***************************************************************************)
(* The DHT model of one node: in every sector, time is cut into full       *)
(* slices, whose combined hashes live in the op store, and ever smaller    *)
(* partial slices, whose hashes live in memory.  The update task moves the *)
(* cuts as time passes, and the host tells the model of ops it stored      *)
(* before, at any later time.  Times are ticks, Unit ticks to UNIT_TIME.   *)
(*                                                                         *)
(* Hashes combine by XOR, so a combined hash is the set of the ops counted *)
(* an odd number of times.                                                 *)
(***************************************************************************)
EXTENDS Arcs

CONSTANTS Ops,      \* ids of ops
          NoHash,   \* the hash of no bytes
          Loc,      \* op.op_id.loc()
          Created,  \* op.created_at, whatever its author's clock says
          Factor,   \* the time factor
          Unit,     \* UNIT_TIME in ticks
          Origin,   \* the node's first start
          MaxTime,  \* bound on the clock
          MaxFaults \* bound on failed updates and crashes

ASSUME DhtAssumption == /\ Factor \in Nat \ {0}
                        /\ Unit \in Nat \ {0}
                        /\ Loc \in [Ops -> Locations]
                        /\ Created \in [Ops -> 0..MaxTime]
                        /\ MaxTime \in Nat
                        /\ Origin \in 1..MaxTime
                        /\ MaxFaults \in Nat
                        /\ \A S \in SUBSET Ops : NoHash # S

VARIABLES now,      \* the clock
          stored,   \* op_list of the op store
          slices,   \* slice hashes of the op store, per sector and index
          parts,    \* the time partition of each sector, or Down
          opCount,  \* Dht.op_count
          faults,   \* failed updates and crashes so far
          told,     \* history: ops the host has told the model of
          early     \* history: ops that got into a hash before they were told

dhtVars == <<now, stored, slices, parts, opCount, faults, told, early>>

Sectors == SectorIds
Down == <<>>
Hashes == {NoHash} \union SUBSET Ops
-----------------------------------------------------------------------------
(* The layout of time.                                                     *)

\* 2^i UNIT_TIME.
Size[i \in 0..Factor] == IF i = 0 THEN Unit ELSE 2 * Size[i - 1]

FullSize == Size[Factor]
Indices == 0 .. MaxTime \div FullSize

\* residual_duration_for_factor: one slice of each size up to 2^i.
Residual(i) == Size[i + 1] - Unit

\* new: min_recent_time.
MinRecent == Residual(Factor - 1)

FullEnd(p) == p.full * FullSize
PartialEnd(sl) == sl.start + Size[sl.size]

\* Mutant: no recent time is reserved.
FullSlicesKeepingNothing(p, t) == (t - FullEnd(p)) \div FullSize

\* layout_full_slices: how many full slices p can add at t.
NewFullSlices(p, t) ==
    LET recent == t - FullEnd(p)
    IN IF recent > MinRecent THEN (recent - MinRecent) \div FullSize ELSE 0

\* The number of slices of size i that fit into recent time.
SliceCount(i, recent) ==
    IF recent > Residual(i) + Size[i] THEN 2 ELSE IF recent > Size[i] THEN 1 ELSE 0

\* layout_partials: from the largest size down, two slices or one of each.
\* Layout[k] is what the first k sizes have come to.
Layout(from, t) ==
    LET lay[k \in 0..Factor] ==
            IF k = 0 THEN [next |-> from, cuts |-> <<>>]
            ELSE LET before == lay[k - 1]
                     i == Factor - k
                     n == SliceCount(i, t - before.next)
                 IN [next |-> before.next + n * Size[i],
                     cuts |-> before.cuts \o
                        [j \in 1..n |-> [start |-> before.next + (j - 1) * Size[i],
                                         size |-> i]]]
    IN lay

LayoutPartials(from, t) == Layout(from, t)[Factor].cuts
-----------------------------------------------------------------------------
(* Combined hashes and the op store.                                       *)

CombineHashes(h, o) == IF h = NoHash THEN {o} ELSE SymDiff(h, {o})
CombineOpHashes(S) == IF S = {} THEN NoHash ELSE S

InSector(s) == {o \in stored : ArcContains(SectorArc(s), Loc[o])}
OpsIn(s, a, b) == {o \in InSector(s) : a <= Created[o] /\ Created[o] < b}
Counted(h) == IF h = NoHash THEN {} ELSE h

\* slice_hash_count: the highest stored index plus one.
SliceHashCount(s) ==
    LET used == {i \in Indices : slices[s][i] # NoHash}
    IN IF used = {} THEN 0 ELSE Max(used) + 1

\* update_full_slice_hashes, up to the n-th new slice.
FullHashes(s, p, n) ==
    [i \in Indices |->
        LET found == OpsIn(s, i * FullSize, (i + 1) * FullSize)
        IN IF i \in p.full .. p.full + n - 1 /\ found # {}
           THEN CombineOpHashes(found) ELSE slices[s][i]]

\* Mutant: a slice is reused by its start alone.
SameStart(p, cut) == {sl \in Range(p.partials) : sl.start = cut.start}

\* The slices of p that a cut leaves as they are.
Same(p, cut) == {sl \in Range(p.partials) : sl.start = cut.start /\ sl.size = cut.size}

\* No op of the sector is older than the end of the cut.
AllLater(s, cut) == \A o \in InSector(s) : Created[o] > PartialEnd(cut)

PartialHash(s, p, cut) ==
    IF Same(p, cut) # {} THEN (CHOOSE sl \in Same(p, cut) : TRUE).hash
    ELSE IF AllLater(s, cut) THEN NoHash
    ELSE CombineOpHashes(OpsIn(s, cut.start, PartialEnd(cut)))

\* update_partials: the first k slices of the new layout.
Partials(s, p, cuts, k) ==
    [j \in 1..k |-> [start |-> cuts[j].start, size |-> cuts[j].size,
                     hash |-> PartialHash(s, p, cuts[j])]]
-----------------------------------------------------------------------------
(* TimePartition::update of sector s from p at time now.  It can fail      *)
(* wherever the op store does, and leaves what it has done so far.         *)

Grown(p, n) == [p EXCEPT !.full = @ + n]
Cuts(p) == LayoutPartials(FullEnd(p), now)

Updated(s, p) ==
    LET q == Grown(p, NewFullSlices(p, now))
        sls == Partials(s, q, Cuts(q), Len(Cuts(q)))
    IN [full |-> q.full, partials |-> sls, at |-> now,
        next |-> IF sls = <<>> THEN p.next ELSE PartialEnd(Last(sls)) + Unit]

\* What a failed update leaves: fewer full slices, or all of them with the
\* old partials, or with the new ones before the first that cannot be read.
Broken(s, p) ==
    LET n == NewFullSlices(p, now)
        q == Grown(p, n)
        read == {k \in 1..Len(Cuts(q)) :
                    Same(q, Cuts(q)[k]) = {} /\ ~AllLater(s, Cuts(q)[k])}
    IN {[Grown(p, k) EXCEPT !.at = 0] : k \in 0..n}
       \union {[q EXCEPT !.partials = Partials(s, q, Cuts(q), k - 1), !.at = 0]
                  : k \in read}

\* Which ops some hash of the store or of a partition counts.
InSlices(ss) == UNION {Counted(ss[s][i]) : s \in Sectors, i \in Indices}
InPartitions(ps) ==
    UNION {Counted(sl.hash) : sl \in UNION {Range(ps[s].partials) : s \in Sectors}}

\* Dht::update: sector by sector, up to the first that fails.
Finish(ps, ss) ==
    /\ parts' = ps
    /\ slices' = ss
    /\ early' = early \union ((InSlices(ss) \union InPartitions(ps)) \ told)

Due == parts # Down /\ now >= parts[0].next

Fault == faults < MaxFaults /\ faults' = faults + 1

Update ==
    /\ Due
    /\ Finish([s \in Sectors |-> Updated(s, parts[s])],
              [s \in Sectors |-> FullHashes(s, parts[s], NewFullSlices(parts[s], now))])
    /\ UNCHANGED <<now, stored, opCount, faults, told>>

UpdateFails ==
    /\ Due
    /\ \E f \in Sectors : \E p \in Broken(f, parts[f]) :
        Finish([s \in Sectors |-> IF s < f THEN Updated(s, parts[s])
                                  ELSE IF s = f THEN p ELSE parts[s]],
               [s \in Sectors |->
                   IF s < f THEN FullHashes(s, parts[s], NewFullSlices(parts[s], now))
                   ELSE IF s = f THEN FullHashes(s, parts[s], p.full - parts[s].full)
                   ELSE slices[s]])
    /\ Fault
    /\ UNCHANGED <<now, stored, opCount, told>>
-----------------------------------------------------------------------------
(* inform_ops_stored for one op.                                           *)

\* The first slice from the back that begins no later than the op.
Holder(p, o) == Max({j \in 1..Len(p.partials) : p.partials[j].start <= Created[o]})

InFull(p, o) == Created[o] < FullEnd(p)
InPartials(p, o) == /\ ~InFull(p, o)
                    /\ p.partials # <<>>
                    /\ Created[o] < PartialEnd(Last(p.partials))

InformOpsStored(o) ==
    /\ parts # Down
    /\ o \in stored \ told
    /\ LET s == SectorAt(Loc[o])
           p == parts[s]
           i == Created[o] \div FullSize
       IN /\ slices' = IF InFull(p, o)
                       THEN [slices EXCEPT ![s][i] = CombineHashes(@, o)] ELSE slices
          /\ parts' = IF InPartials(p, o)
                      THEN [parts EXCEPT ![s].partials[Holder(p, o)].hash =
                                CombineHashes(@, o)]
                      ELSE parts
    /\ opCount' = opCount + 1
    /\ told' = told \union {o}
    /\ UNCHANGED <<now, stored, faults, early>>
-----------------------------------------------------------------------------
(* Dht::try_from_store at the start of the process.                        *)

\* Without stored slices, begin one before the slice of the earliest op.
StoredFull(s) ==
    IF SliceHashCount(s) > 0 THEN SliceHashCount(s)
    ELSE LET earliest == IF InSector(s) = {} THEN now
                         ELSE Min({Created[o] : o \in InSector(s)})
             index == earliest \div FullSize
         IN IF index = 0 THEN 0 ELSE index - 1

New(s) == [full |-> StoredFull(s), partials |-> <<>>, next |-> 0, at |-> 0]

Consistent(p) == /\ now >= FullEnd(p)
                 /\ p.full > 0 => now - FullEnd(p) >= MinRecent

TryFromStore ==
    /\ parts = Down
    /\ \A s \in Sectors : Consistent(New(s))
    /\ Finish([s \in Sectors |-> Updated(s, New(s))],
              [s \in Sectors |-> FullHashes(s, New(s), NewFullSlices(New(s), now))])
    /\ opCount' = Cardinality(stored)
    /\ UNCHANGED <<now, stored, faults, told>>

\* A sector's first op is stamped so far ahead that the layout cannot be
\* right: the sectors before it are laid out, and then there is no model.
CreateFails ==
    /\ parts = Down
    /\ \E f \in Sectors :
        /\ ~Consistent(New(f))
        /\ \A s \in Sectors : s < f => Consistent(New(s))
        /\ slices' = [s \in Sectors |->
                        IF s < f THEN FullHashes(s, New(s), NewFullSlices(New(s), now))
                        ELSE slices[s]]
        /\ early' = early \union (InSlices(slices') \ told)
    /\ UNCHANGED <<now, stored, parts, opCount, faults, told>>

\* The process stops; only the op store outlives it.
Crash ==
    /\ parts # Down
    /\ Fault
    /\ parts' = Down
    /\ opCount' = 0
    /\ UNCHANGED <<now, stored, slices, told, early>>
-----------------------------------------------------------------------------
\* process_incoming_ops, or the host authoring an op.
StoreOp(o) ==
    /\ o \notin stored
    /\ stored' = stored \union {o}
    /\ UNCHANGED <<now, slices, parts, opCount, faults, told, early>>

Tick ==
    /\ now < MaxTime
    /\ now' = now + 1
    /\ UNCHANGED <<stored, slices, parts, opCount, faults, told, early>>

DhtInit ==
    /\ now = Origin
    /\ stored = {}
    /\ slices = [s \in Sectors |-> [i \in Indices |-> NoHash]]
    /\ parts = Down
    /\ opCount = 0
    /\ faults = 0
    /\ told = {}
    /\ early = {}

DhtNext ==
    \/ Tick
    \/ \E o \in Ops : StoreOp(o)
    \/ \E o \in Ops : InformOpsStored(o)
    \/ Update
    \/ UpdateFails
    \/ TryFromStore
    \/ CreateFails
    \/ Crash

-----------------------------------------------------------------------------
(* Type invariant: what the op store and the partitions hold.              *)
Slice == [start : Nat, size : 0 .. Factor - 1, hash : Hashes]
DhtTypeOK ==
    /\ now \in Origin..MaxTime
    /\ stored \in SUBSET Ops
    /\ slices \in [Sectors -> [Indices -> Hashes]]
    /\ \/ parts = Down
       \/ /\ DOMAIN parts = Sectors
          /\ \A s \in Sectors :
                /\ parts[s].full \in Nat
                /\ parts[s].partials \in Seq(Slice)
                /\ parts[s].next \in Nat
                /\ parts[s].at \in 0..MaxTime
    /\ opCount \in 0 .. 2 * Cardinality(Ops)
    /\ faults \in 0..MaxFaults
    /\ told \in SUBSET stored
    /\ early \in SUBSET stored

(* The slices of s: the full ones, and the partial ones after them.  (An   *)
(* update that fails between the two leaves old partial slices that the    *)
(* new full ones have replaced; the next update drops them.)               *)
Held(s) == {[from |-> i * FullSize, to |-> (i + 1) * FullSize, hash |-> slices[s][i]]
               : i \in {j \in Indices : j < parts[s].full}}
           \union {[from |-> sl.start, to |-> PartialEnd(sl), hash |-> sl.hash]
               : sl \in {c \in Range(parts[s].partials) : c.start >= FullEnd(parts[s])}}

(* The combined hash of every slice (time.rs, update and                   *)
(* inform_ops_stored) counts exactly the ops of its sector and time that   *)
(* the host told the model of - whether they came late, while slices were  *)
(* merged, across failed updates and restarts - except ops that an update  *)
(* read from the store before the host told it of them.                    *)
SlicesHoldTheirOps ==
    parts # Down =>
        \A s \in Sectors : \A sl \in Held(s) :
            Counted(sl.hash) \ early = (told \intersect OpsIn(s, sl.from, sl.to)) \ early

(* After an update (TimePartition::update), the slices depend on its time  *)
(* only and not on when the node started, what it stored or which updates  *)
(* failed before: full slices leave at least MinRecent and less than a     *)
(* full slice more, partial slices follow without a gap, from large to     *)
(* small and at most two of a size, and at most UNIT_TIME is left over.    *)
(* Two nodes therefore cut time alike.                                     *)
SlicesFollowTheClock ==
    parts # Down =>
        \A s \in Sectors : parts[s].at > 0 =>
            LET p == parts[s]
                sls == p.partials
                end(j) == IF j = 0 THEN FullEnd(p) ELSE PartialEnd(sls[j])
            IN /\ p.full > 0 => p.at - FullEnd(p) >= MinRecent
               /\ p.at - FullEnd(p) < MinRecent + FullSize
               /\ \A j \in 1..Len(sls) : sls[j].start = end(j - 1)
               /\ \A i, j \in 1..Len(sls) : i < j => sls[i].size >= sls[j].size
               /\ \A j \in 1 .. Len(sls) - 2 : sls[j].size > sls[j + 2].size
               /\ p.at - end(Len(sls)) \in 0..Unit
               /\ \A r \in Sectors : parts[r].at = p.at =>
                     [j \in 1..Len(parts[r].partials) |-> parts[r].partials[j].size]
                        = [j \in 1..Len(sls) |-> sls[j].size]
=============================================================================
