-------------------------------- MODULE Arcs --------------------------------
(***************************************************************************)
(* Storage arcs on the ring of locations 0..MaxLoc and the sectors that    *)
(* the ring is cut into.  An arc runs from start up to and including end   *)
(* and wraps around when start > end.                                      *)
(***************************************************************************)
EXTENDS Integers, FiniteSets, Sequences, SequencesExt, FiniteSetsExt

CONSTANTS SectorSize, \* SECTOR_SIZE
          SectorCount \* u32::MAX / SECTOR_SIZE + 1

ASSUME ArcsAssumption == SectorSize \in Nat \ {0} /\ SectorCount \in Nat \ {0}

MaxLoc == SectorSize * SectorCount - 1
Locations == 0..MaxLoc
Ring(x) == x % (MaxLoc + 1)

EmptyArc == <<>>
Arcs == {EmptyArc} \union (Locations \X Locations)
FullArc == <<0, MaxLoc>>
-----------------------------------------------------------------------------
(* DhtArc.                                                                 *)

Least(a, b) == IF a <= b THEN a ELSE b

\* dist: 0 inside of the arc, else the way to its nearer end.
Dist(arc, loc) ==
    IF arc = EmptyArc THEN MaxLoc
    ELSE LET start == arc[1]
             end == arc[2]
         IN IF start > end
            THEN IF loc >= start \/ loc <= end THEN 0
                 ELSE Least(start - loc, loc - end)
            ELSE IF loc >= start /\ loc <= end THEN 0
                 ELSE IF loc < start THEN Least(start - loc, MaxLoc - end + loc + 1)
                 ELSE Least(MaxLoc - loc + start + 1, loc - end)

ArcContains(arc, loc) == Dist(arc, loc) = 0

\* One of the four ends lies in the other arc.
Overlaps(a, b) ==
    /\ a # EmptyArc
    /\ b # EmptyArc
    /\ \/ Dist(a, b[1]) = 0 \/ Dist(a, b[2]) = 0
       \/ Dist(b, a[1]) = 0 \/ Dist(b, a[2]) = 0

ArcSpan(arc) ==
    IF arc = EmptyArc THEN 0
    ELSE IF arc[1] > arc[2] THEN MaxLoc - arc[1] + arc[2] + 1
    ELSE arc[2] - arc[1]
-----------------------------------------------------------------------------
(* Sectors: HashPartition and ArcSet.                                      *)

SectorIds == 0 .. SectorCount - 1

\* dht_arc_for_sector_index.
SectorArc(s) == <<s * SectorSize, s * SectorSize + SectorSize - 1>>

\* The sector of a location, in inform_ops_stored.
SectorAt(loc) == loc \div SectorSize

\* ArcSet::new for one arc: step through it by whole sectors, and refuse it
\* unless the last step ends where the arc does.
Covered(arc) == IF arc = EmptyArc THEN 0 ELSE ArcSpan(arc) \div SectorSize + 1
Aligned(arc) ==
    arc # EmptyArc => Ring(arc[1] + Covered(arc) * SectorSize) = Ring(arc[2] + 1)
SectorsOf(arc) ==
    {Ring(arc[1] + k * SectorSize) \div SectorSize : k \in 0 .. Covered(arc) - 1}

\* ArcSet::new: refused, or the union; arcs after the ring is full are not
\* looked at.
Refused == {-1}
ArcSetNew(arcs) ==
    LET set[i \in 0..Len(arcs)] ==
            IF i = 0 THEN {}
            ELSE IF set[i - 1] = Refused \/ Cardinality(set[i - 1]) = SectorCount
                 THEN set[i - 1]
            ELSE IF ~Aligned(arcs[i]) THEN Refused
            ELSE set[i - 1] \union SectorsOf(arcs[i])
    IN set[Len(arcs)]

\* as_arcs: the runs of neighbouring sectors; a run does not wrap.
AsArcs(sectors) ==
    IF sectors = SectorIds THEN {FullArc}
    ELSE {<<run[1] * SectorSize, run[2] * SectorSize + SectorSize - 1>> :
            run \in {r \in sectors \X sectors :
                        /\ r[1] <= r[2]
                        /\ r[1]..r[2] \subseteq sectors
                        /\ r[1] - 1 \notin sectors
                        /\ r[2] + 1 \notin sectors}}

\* encode: a bit for every sector, in words; decode: the bits that are set,
\* unless the number of words is wrong.
Encode(sectors, count, bits) ==
    [w \in 0 .. count \div bits - 1 |->
        SumSet({2^(s % bits) : s \in {x \in sectors : x \div bits = w}})]
Decode(words, count, bits) ==
    IF DOMAIN words # 0 .. count \div bits - 1 THEN Refused
    ELSE {i \in 0 .. count - 1 : words[i \div bits] \div 2^(i % bits) % 2 = 1}
=============================================================================
