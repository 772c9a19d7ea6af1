---- MODULE Blocks ----
(***************************************************************************)
(* The block arithmetic of the sharding controller                         *)
(* (crates/gossip/src/sharding/blocks.rs).  The DHT ring is cut into       *)
(* NUM_SECTORS sectors; an agent stores an aligned block of 2^level of     *)
(* them that contains its home sector, and MaxLevel is the whole ring.     *)
(* Ranges of sectors are half open, <<start, end>>, as in the code.        *)
(*                                                                         *)
(* BlockSize[l] is `1u32 << l`.  It is a parameter, pinned down by         *)
(* BlockSizeAssumption, because the provers know nothing of 2^l.           *)
(***************************************************************************)
EXTENDS Integers

CONSTANTS
    MaxLevel,   \* MAX_LEVEL: the level whose block is the whole ring
    BlockSize   \* [0..MaxLevel -> Nat]: sectors in a block of each level

ASSUME MaxLevelAssumption == MaxLevel \in Nat \ {0}

ASSUME BlockSizeAssumption ==
    /\ BlockSize \in [0..MaxLevel -> Nat \ {0}]
    /\ BlockSize[0] = 1
    /\ \A l \in 0..(MaxLevel - 1) : BlockSize[l + 1] = 2 * BlockSize[l]
    /\ \A l \in 0..MaxLevel : BlockSize[MaxLevel] % BlockSize[l] = 0

Levels == 0..MaxLevel
NumSectors == BlockSize[MaxLevel]
Sectors == 0..(NumSectors - 1)

(* The sectors of a half-open range. *)
Span(range) == range[1]..(range[2] - 1)

(* The aligned block of 2^level sectors containing home. *)
block(home, level) ==
    IF level >= MaxLevel
    THEN <<0, NumSectors>>
    ELSE LET size  == BlockSize[level]
             start == (home \div size) * size
         IN  <<start, start + size>>

(* The sectors gained by growing level -> level + 1: the other half of the *)
(* parent block.                                                           *)
sibling_half(home, level) ==
    LET parent == block(home, level + 1)
        cur    == block(home, level)
    IN  IF parent[1] = cur[1]
        THEN <<cur[2], parent[2]>>
        ELSE <<parent[1], cur[1]>>

(* The sectors dropped by shrinking level -> level - 1: the half of the    *)
(* current block that does not contain home.                               *)
vacate_half(home, level) ==
    LET cur  == block(home, level)
        keep == block(home, level - 1)
    IN  IF cur[1] = keep[1]
        THEN <<keep[2], cur[2]>>
        ELSE <<cur[1], keep[1]>>

(* The sector sets the controller reasons about: an arc is sector aligned, *)
(* so block_arc is the set of sectors of the block.                        *)
BlockArc(home, level)    == Span(block(home, level))
SiblingHalf(home, level) == Span(sibling_half(home, level))
VacateHalf(home, level)  == Span(vacate_half(home, level))
====
