---- MODULE ShardingProofs ----
(***************************************************************************)
(* Type correctness of Sharding and, when the controller is patient and    *)
(* the waits are long enough, that no sequence of shrinks takes a sector   *)
(* below its target and that a sector the dead leave short is taken over.  *)
(***************************************************************************)
EXTENDS ShardingInv, FiniteSetTheorems, TLAPS

----------------------------------------------------------------------------
(* What the block arithmetic guarantees, for every ring size: a block lies *)
(* in the ring and holds its home, and shrinking one level drops exactly   *)
(* the half that vacate_half announces.                                    *)

(* Division by a block size brackets the dividend. *)
LEMMA DivBracket ==
    ASSUME NEW h \in Nat, NEW m \in Nat \ {0}
    PROVE  /\ h \div m \in Nat
           /\ (h \div m) * m <= h
           /\ h < (h \div m) * m + m
  BY Z3

(* Multiples of m that are less than m apart are equal. *)
LEMMA Cancel ==
    ASSUME NEW x \in Int, NEW y \in Int, NEW m \in Nat \ {0}, x * m < y * m
    PROVE  x < y
  BY Z3

(* Products of small sums and doubles. *)
LEMMA Distribute ==
    ASSUME NEW x \in Int, NEW m \in Int
    PROVE  /\ (x + 1) * m = x * m + m
           /\ (x + 2) * m = x * m + 2 * m
           /\ x * (2 * m) = (2 * x) * m
           /\ (2 * x) * m = 2 * (x * m)
  BY Z3

(* Where a block starts, and that it is a block of the ring. *)
LEMMA BlockBounds ==
    ASSUME NEW h \in Sectors, NEW l \in Levels
    PROVE  /\ block(h, l)[1] \in Nat
           /\ block(h, l)[2] = block(h, l)[1] + BlockSize[l]
           /\ block(h, l)[1] <= h
           /\ h < block(h, l)[2]
           /\ block(h, l)[2] <= NumSectors
<1>1. NumSectors \in Nat \ {0} /\ h \in Nat /\ h < NumSectors
  BY BlockSizeAssumption, MaxLevelAssumption DEF NumSectors, Sectors
<1>2. CASE l >= MaxLevel
  <2>1. l = MaxLevel
    BY <1>2, MaxLevelAssumption DEF Levels
  <2>2. block(h, l) = <<0, NumSectors>>
    BY <1>2 DEF block
  <2> QED
    BY <1>1, <2>1, <2>2 DEF NumSectors
<1>3. CASE ~(l >= MaxLevel)
  <2> DEFINE m == BlockSize[l]
             q == h \div m
  <2>1. m \in Nat \ {0}
    BY BlockSizeAssumption DEF Levels
  <2> HIDE DEF m
  <2>2. q \in Nat /\ q * m <= h /\ h < q * m + m
    BY <1>1, <2>1, DivBracket
  <2>3. block(h, l) = <<q * m, q * m + m>>
    BY <1>3 DEF block, m
  <2>4. PICK k \in Nat : NumSectors = k * m
    <3>1. NumSectors % m = 0
      BY BlockSizeAssumption DEF m, Levels, NumSectors
    <3>2. NumSectors = (NumSectors \div m) * m /\ NumSectors \div m \in Nat
      BY <1>1, <2>1, <3>1, Z3
    <3> QED
      BY <3>2
  <2> HIDE DEF q
  <2>5. q * m < k * m
    BY <1>1, <2>1, <2>2, <2>4
  <2>6. q < k
    BY <2>1, <2>2, <2>4, <2>5, Cancel
  <2>7. (q + 1) * m <= k * m
    BY <2>1, <2>2, <2>4, <2>6, Z3
  <2>8. q * m + m <= NumSectors
    BY <2>1, <2>2, <2>4, <2>7, Distribute
  <2>9. q * m \in Nat
    BY <2>1, <2>2
  <2> QED
    BY <1>1, <2>1, <2>2, <2>3, <2>8, <2>9 DEF m
<1> QED
  BY <1>2, <1>3

(* The lower block is the first or the second half of the upper one. *)
LEMMA HalfStart ==
    ASSUME NEW h \in Sectors, NEW l \in Levels, l > 0
    PROVE  /\ BlockSize[l] = 2 * BlockSize[l - 1]
           /\ \/ block(h, l - 1)[1] = block(h, l)[1]
              \/ block(h, l - 1)[1] = block(h, l)[1] + BlockSize[l - 1]
<1> DEFINE m == BlockSize[l - 1]
<1>1. m \in Nat \ {0} /\ BlockSize[l] = 2 * m
  <2>1. l - 1 \in 0..(MaxLevel - 1) /\ l - 1 \in 0..MaxLevel /\ (l - 1) + 1 = l
    BY MaxLevelAssumption DEF Levels
  <2>2. m \in Nat \ {0}
    BY <2>1, BlockSizeAssumption
  <2>3. BlockSize[(l - 1) + 1] = 2 * m
    BY <2>1, BlockSizeAssumption
  <2> QED
    BY <2>1, <2>2, <2>3
<1> HIDE DEF m
<1>2. l - 1 \in Levels /\ ~(l - 1 >= MaxLevel) /\ h \in Nat
  BY MaxLevelAssumption, BlockSizeAssumption DEF Levels, Sectors, NumSectors
<1>3. PICK q \in Nat : block(h, l - 1)[1] = q * m
  <2>1. h \div m \in Nat
    BY <1>1, <1>2, DivBracket
  <2> QED
    BY <1>2, <2>1 DEF block, m
<1>4. PICK p \in Nat : block(h, l)[1] = (2 * p) * m
  <2>1. CASE l >= MaxLevel
    BY <1>1, <2>1 DEF block
  <2>2. CASE ~(l >= MaxLevel)
    <3>1. BlockSize[l] \in Nat \ {0}
      BY <1>1
    <3>2. h \div BlockSize[l] \in Nat
      BY <1>2, <3>1, DivBracket
    <3>3. block(h, l)[1] = (h \div BlockSize[l]) * BlockSize[l]
      BY <2>2 DEF block
    <3> QED
      BY <1>1, <3>2, <3>3, Distribute
  <2> QED
    BY <2>1, <2>2
<1>5. /\ q * m <= h /\ h < q * m + m
      /\ (2 * p) * m <= h /\ h < (2 * p) * m + 2 * m
  BY <1>1, <1>2, <1>3, <1>4, BlockBounds DEF m
<1>6. q * m < (2 * p + 2) * m /\ (2 * p) * m < (q + 1) * m
  <2>1. 2 * p \in Int /\ q * m \in Int /\ (2 * p) * m \in Int
    BY <1>1
  <2> QED
    BY <1>1, <1>2, <1>5, <2>1, Distribute
<1>7. q < 2 * p + 2 /\ 2 * p < q + 1
  BY <1>1, <1>6, Cancel
<1>8. q = 2 * p \/ q = 2 * p + 1
  BY <1>7
<1>9. (2 * p + 1) * m = (2 * p) * m + m
  BY <1>1, Distribute
<1> QED
  BY <1>1, <1>3, <1>4, <1>8, <1>9 DEF m

(* An agent's block lies in the ring and contains its home. *)
THEOREM BlockInRing ==
    ASSUME NEW h \in Sectors, NEW l \in Levels
    PROVE  BlockArc(h, l) \subseteq Sectors /\ h \in BlockArc(h, l)
<1>1. NumSectors \in Nat /\ BlockSize[l] \in Nat /\ h \in Nat
  BY BlockSizeAssumption, MaxLevelAssumption
     DEF NumSectors, Levels, Sectors
<1> QED
  BY <1>1, BlockBounds DEF BlockArc, Span, Sectors

(* A shrink drops exactly the announced half: vacate_half and the block    *)
(* one level down partition the block.                                     *)
THEOREM VacateIsDropped ==
    ASSUME NEW h \in Sectors, NEW l \in Levels, l > 0
    PROVE  /\ VacateHalf(h, l) = BlockArc(h, l) \ BlockArc(h, l - 1)
           /\ BlockArc(h, l - 1) \subseteq BlockArc(h, l)
           /\ VacateHalf(h, l) # {}
<1> DEFINE m == BlockSize[l - 1]
           s == block(h, l)[1]
           t == block(h, l - 1)[1]
<1>1. l - 1 \in Levels /\ m \in Nat \ {0}
  BY MaxLevelAssumption, BlockSizeAssumption DEF Levels
<1>2. s \in Nat /\ t \in Nat /\ block(h, l)[2] = s + 2 * m
      /\ block(h, l - 1)[2] = t + m /\ (t = s \/ t = s + m)
  BY <1>1, BlockBounds, HalfStart
<1>3. /\ s = t => vacate_half(h, l) = <<block(h, l - 1)[2], block(h, l)[2]>>
      /\ s # t => vacate_half(h, l) = <<s, t>>
  BY DEF vacate_half
<1>4. BlockArc(h, l) = s..(block(h, l)[2] - 1)
      /\ BlockArc(h, l - 1) = t..(block(h, l - 1)[2] - 1)
  BY DEF BlockArc, Span
<1> HIDE DEF m, s, t
<1>8. BlockArc(h, l) = s..(s + 2 * m - 1) /\ BlockArc(h, l - 1) = t..(t + m - 1)
  BY <1>1, <1>2, <1>4
<1>5. BlockArc(h, l - 1) \subseteq BlockArc(h, l)
  BY <1>1, <1>2, <1>8
<1>6. CASE t = s
  <2>1. VacateHalf(h, l) = (s + m)..(s + 2 * m - 1)
    BY <1>1, <1>2, <1>3, <1>6 DEF VacateHalf, Span
  <2>2. (s + m)..(s + 2 * m - 1) = (s..(s + 2 * m - 1)) \ (s..(s + m - 1))
    BY <1>1, <1>2
  <2>3. s + m \in (s + m)..(s + 2 * m - 1)
    BY <1>1, <1>2
  <2> QED
    BY <1>8, <1>5, <1>6, <2>1, <2>2, <2>3
<1>7. CASE t = s + m
  <2>1. VacateHalf(h, l) = s..(s + m - 1)
    <3>1. s # t
      BY <1>1, <1>2, <1>7
    <3> QED
      BY <1>1, <1>2, <1>3, <1>7, <3>1 DEF VacateHalf, Span
  <2>2. s..(s + m - 1) = (s..(s + 2 * m - 1)) \ ((s + m)..(s + m + m - 1))
    BY <1>1, <1>2
  <2>3. s \in s..(s + m - 1)
    BY <1>1, <1>2
  <2> QED
    BY <1>8, <1>5, <1>7, <2>1, <2>2, <2>3
<1> QED
  BY <1>2, <1>6, <1>7

(* A grow takes exactly what the next shrink would drop: sibling_half is   *)
(* the vacated half seen from one level down.                              *)
THEOREM SiblingIsVacated ==
    ASSUME NEW h \in Sectors, NEW l \in Levels, l < MaxLevel
    PROVE  SiblingHalf(h, l) = VacateHalf(h, l + 1)
<1>1. (l + 1) - 1 = l
  BY DEF Levels
<1> QED
  BY <1>1 DEF SiblingHalf, VacateHalf, sibling_half, vacate_half

----------------------------------------------------------------------------
(* The controller.                                                         *)

(* The fields of a message, by kind. *)
LEMMA MessageFields ==
    ASSUME NEW m \in Message
    PROVE  /\ m.from \in Agents /\ m.to \in Agents /\ m.at \in Nat
           /\ m.type \in {"info", "intent", "withdraw"}
           /\ m.type = "info" => m.arc \in SUBSET Sectors /\ m.ver \in Nat
           /\ m.type # "info" =>
                m.vacate \in SUBSET Sectors /\ m.expires_at \in Nat
  BY DEF Message

(* Updating one entry of a table of tables. *)
LEMMA UpdateEntry ==
    ASSUME NEW T, NEW f \in [Agents -> [Agents -> T]], NEW x \in Agents,
           NEW y \in Agents, NEW v \in T
    PROVE  /\ [f EXCEPT ![x][y] = v] \in [Agents -> [Agents -> T]]
           /\ \A a, b \in Agents :
                 [f EXCEPT ![x][y] = v][a][b] =
                    IF a = x /\ b = y THEN v ELSE f[a][b]
  OBVIOUS

(* The agent infos that invoke_cb sends are messages. *)
LEMMA SentInfoTyped ==
    ASSUME ShardingTypeOK, NEW a \in Agents, NEW newArc \in SUBSET Sectors
    PROVE  SendInfo(a, newArc) \subseteq Message
<1>1. now \in Nat /\ ver[a] + 1 \in Nat
  BY DEF ShardingTypeOK
<1> QED
  BY <1>1 DEF SendInfo, Message

(* So are announcements and withdrawals. *)
LEMMA SentIntentTyped ==
    ASSUME ShardingTypeOK, NEW a \in Agents, NEW range \in SUBSET Sectors,
           NEW expiry \in Nat, NEW type \in {"intent", "withdraw"}
    PROVE  SendIntent(type, a, range, expiry) \subseteq Message
<1>1. now \in Nat
  BY DEF ShardingTypeOK
<1> QED
  BY <1>1 DEF SendIntent, Message, Reachable

(* The half a shrink would drop lies on the ring. *)
LEMMA VacateTyped ==
    ASSUME NEW a \in Agents, NEW l \in Levels, l > 0
    PROVE  VacateHalf(Home[a], l) \in SUBSET Sectors
<1>1. Home[a] \in Sectors
  BY HomeAssumption
<1> QED
  BY <1>1, VacateIsDropped, BlockInRing

(* The block of a level lies on the ring. *)
LEMMA BlockTyped ==
    ASSUME NEW a \in Agents, NEW l \in Levels
    PROVE  BlockArc(Home[a], l) \in SUBSET Sectors
<1>1. Home[a] \in Sectors
  BY HomeAssumption
<1> QED
  BY <1>1, BlockInRing

(* A purged intent table is an intent table. *)
LEMMA PurgedTyped ==
    ASSUME ShardingTypeOK, NEW a \in Agents
    PROVE  Purged(a) \in [Agents -> Intent]
<1>1. NoIntent \in Intent
  BY DEF NoIntent, Intent
<1> QED
  BY <1>1 DEF Purged, ShardingTypeOK

(* The storm brake leaves a control record. *)
LEMMA BrakedTyped ==
    ASSUME ShardingTypeOK, NEW a \in Agents
    PROVE  Braked(a) \in AgentControl
<1>1. NoPending \in Pending
  BY DEF NoPending, Pending
<1>2. ctl[a] \in AgentControl
  BY DEF ShardingTypeOK
<1> QED
  BY <1>1, <1>2 DEF Braked, AgentControl

----------------------------------------------------------------------------
(* What a check can come to, with what no invariant needs left out.        *)

(* The effects of every check of agent a. *)
Framed(a) ==
    /\ a \in Alive
    /\ now > lastCheck[a]
    /\ ctl'[a] \in AgentControl
    /\ ctl' = [ctl EXCEPT ![a] = ctl'[a]]
    /\ intents'[a] \in [Agents -> Intent]
    /\ intents' = [intents EXCEPT ![a] = intents'[a]]
    /\ \A b \in Agents \ {a} :
          intents[a][b].expires_at > now => intents'[a][b] = intents[a][b]
    /\ lastGone' = [lastGone EXCEPT ![a] = gone[a]]
    /\ lastCheck' = [lastCheck EXCEPT ![a] = now]
    /\ UNCHANGED <<now, dead, diedAt, seen, gone>>

(* The shrink accumulator grows by at most one per check, and restarts     *)
(* when a pending shrink ends.                                             *)
AccBound(a) ==
    \/ IsPending(a) /\ ctl'[a].shrink_acc <= 1
    \/ ~IsPending(a) /\ ctl'[a].shrink_acc <= ctl[a].shrink_acc + 1

QuietOutcome(a) ==
    /\ UNCHANGED <<arc, ver, posts>>
    /\ \/ IsPending(a) /\ now < ctl[a].pending.execute_at /\ ctl'[a] = ctl[a]
       \/ ~IsPending(a)' /\ AccBound(a)

AnnounceOutcome(a) ==
    LET level == ctl'[a].declared_level
        range == VacateHalf(Home[a], level)
    IN  /\ UNCHANGED <<arc, ver>>
        /\ AccBound(a)
        /\ ctl'[a].shrink_acc >= ShrinkNeed
        /\ level > 0
        /\ ctl'[a].target_level = level
        /\ arc[a] = BlockArc(Home[a], level)
        /\ ctl'[a].pending = [execute_at |-> now + Wait, vacate |-> range,
                              expires_at |-> now + Wait + Wait]
        /\ posts' = posts \cup SendIntent("intent", a, range, now + Wait + Wait)

ExecuteOutcome(a) ==
    LET rest == BlockArc(Home[a], ctl[a].declared_level - 1)
    IN  /\ IsPending(a)
        /\ now >= ctl[a].pending.execute_at
        /\ \E silent \in SilentPeers(a) :
              Recheck(a, gone[a] \cup silent, ctl[a].pending.vacate) = "Proceed"
        /\ ~IsPending(a)'
        /\ ctl'[a].shrink_acc = 0
        /\ arc' = [arc EXCEPT ![a] = rest]
        /\ ver' = [ver EXCEPT ![a] = @ + 1]
        /\ posts' = posts \cup SendInfo(a, rest)

WaitOutcome(a) ==
    LET p == ctl[a].pending
        q == ctl'[a].pending
    IN  /\ IsPending(a)
        /\ now >= p.execute_at
        /\ UNCHANGED <<arc, ver>>
        /\ ctl'[a].declared_level = ctl[a].declared_level
        /\ ctl'[a].target_level = ctl[a].target_level
        /\ q.vacate = p.vacate
        /\ q.execute_at = now + 1
        /\ \/ /\ p.expires_at >= now + 1 + Wait
              /\ q.expires_at = p.expires_at
              /\ posts' = posts
           \/ /\ p.expires_at < now + 1 + Wait
              /\ q.expires_at = now + 1 + Wait + Wait
              /\ posts' = posts \cup SendIntent("intent", a, p.vacate, q.expires_at)

StandDownOutcome(a) ==
    /\ IsPending(a)
    /\ ~IsPending(a)'
    /\ ctl'[a].shrink_acc = 0
    /\ UNCHANGED <<arc, ver>>
    /\ posts' \in {posts, posts \cup SendIntent("withdraw", a, ctl[a].pending.vacate,
                                             ctl[a].pending.expires_at)}

Outcome(a) ==
    \/ QuietOutcome(a)
    \/ AnnounceOutcome(a)
    \/ ExecuteOutcome(a)
    \/ WaitOutcome(a)
    \/ StandDownOutcome(a)

(* What typing needs beside the types: an agent that will shrink has a     *)
(* level to drop.                                                          *)
TypeInv == ShardingTypeOK /\ \A a \in Agents : IsPending(a) => ctl[a].declared_level > 0

(* A check that records c and a table derived from the purged one. *)
LEMMA CheckedFramed ==
    ASSUME ShardingTypeOK, NEW a \in Alive, now > lastCheck[a], NEW c \in AgentControl,
           NEW own \in Intent,
           \/ Checked(a, c, Purged(a))
           \/ Checked(a, c, [Purged(a) EXCEPT ![a] = own])
    PROVE  Framed(a) /\ ctl'[a] = c
<1>1. a \in Agents
  BY DEF Alive
<1>2. PICK table \in [Agents -> Intent] :
         /\ Checked(a, c, table)
         /\ \A b \in Agents \ {a} : table[b] = Purged(a)[b]
  <2>1. Purged(a) \in [Agents -> Intent]
    BY <1>1, PurgedTyped
  <2> QED
    BY <1>1, <2>1
<1>3. ctl'[a] = c /\ intents'[a] = table
  BY <1>1, <1>2 DEF Checked, ShardingTypeOK
<1>4. \A b \in Agents \ {a} :
         intents[a][b].expires_at > now => intents'[a][b] = intents[a][b]
  BY <1>2, <1>3 DEF Purged
<1> QED
  BY <1>1, <1>2, <1>3, <1>4 DEF Framed, Checked

(* The brake either cancels the pending shrink or changes nothing. *)
LEMMA BrakedShape ==
    ASSUME ShardingTypeOK, NEW a \in Agents
    PROVE  /\ Braked(a).pending # NoPending => Braked(a) = ctl[a] /\ IsPending(a)
           /\ Braked(a).declared_level = ctl[a].declared_level
           /\ Braked(a).target_level = ctl[a].target_level
           /\ Braked(a).pending = NoPending =>
                \/ IsPending(a) /\ Braked(a).shrink_acc = 0
                \/ ~IsPending(a) /\ Braked(a).shrink_acc = ctl[a].shrink_acc
<1>1. ctl[a] \in AgentControl
  BY DEF ShardingTypeOK
<1> QED
  BY <1>1 DEF Braked, Brake, IsPending, AgentControl

(* The decision branch of a check: hold, start a grow, or announce. *)
LEMMA DecideOutcome ==
    ASSUME TypeInv, NEW a \in Alive, now > lastCheck[a],
           NEW skip, NEW c0 \in AgentControl, c0 = Braked(a),
           c0.pending = NoPending,
           arc[a] = BlockArc(Home[a], c0.target_level), Decide(a, c0, skip)
    PROVE  Framed(a) /\ (QuietOutcome(a) \/ AnnounceOutcome(a))
<1> DEFINE c == Accumulate(a, c0, skip)
           settled == [c0 EXCEPT !.declared_level = c0.target_level]
<1>0. a \in Agents /\ ShardingTypeOK /\ now \in Nat /\ Wait \in Nat /\ MaxLevel \in Nat
  BY ParameterAssumption, MaxLevelAssumption DEF Alive, TypeInv, ShardingTypeOK
<1>1. NoPending \in Pending /\ NoIntent \in Intent
  BY DEF NoPending, NoIntent, Pending, Intent
<1>2. /\ c \in AgentControl /\ settled \in AgentControl
      /\ c.pending = NoPending /\ settled.pending = NoPending
      /\ c.declared_level = c0.target_level /\ c.target_level = c0.target_level
      /\ settled.declared_level = c0.target_level
      /\ c.shrink_acc <= c0.shrink_acc + 1
      /\ settled.shrink_acc = c0.shrink_acc
  <2>1. /\ c0.grow_acc \in Nat /\ c0.shrink_acc \in Nat
        /\ c0.target_level \in Levels
    BY DEF AgentControl
  <2>2. \E g, h \in Nat :
           /\ c = [c0 EXCEPT !.declared_level = c0.target_level,
                             !.grow_acc = g, !.shrink_acc = h]
           /\ h <= c0.shrink_acc + 1
    <3> DEFINE g == IF GrowCondition(a, c0.target_level)
                    THEN c0.grow_acc + 1 ELSE 0
               h == IF ShrinkCondition(a, skip, c0.target_level)
                    THEN c0.shrink_acc + 1 ELSE 0
    <3>1. g \in Nat /\ h \in Nat /\ h <= c0.shrink_acc + 1
      BY <2>1
    <3>2. c = [c0 EXCEPT !.declared_level = c0.target_level,
                         !.grow_acc = g, !.shrink_acc = h]
      BY DEF Accumulate
    <3> QED
      BY <3>1, <3>2
  <2> HIDE DEF c
  <2> QED
    BY <2>1, <2>2 DEF AgentControl
<1>3. \/ IsPending(a) /\ c0.shrink_acc = 0
      \/ ~IsPending(a) /\ c0.shrink_acc = ctl[a].shrink_acc
  BY <1>0, BrakedShape
<1>4. ctl[a].shrink_acc \in Nat /\ c0.shrink_acc \in Nat /\ c.shrink_acc \in Nat
  BY <1>0, <1>2 DEF ShardingTypeOK, AgentControl
<1> DEFINE Settles(d) == d \in AgentControl /\ d.pending = NoPending
                         /\ d.shrink_acc <= c0.shrink_acc + 1
                         /\ d.shrink_acc \in Nat
<1>5. ASSUME NEW d, Settles(d), Hold(a, d)
      PROVE  Framed(a) /\ QuietOutcome(a)
  <2>1. Framed(a) /\ ctl'[a] = d
    BY <1>0, <1>1, <1>5, CheckedFramed DEF Hold
  <2>2. UNCHANGED <<arc, ver, posts>>
    BY <1>5 DEF Hold, KeepCurStorageArc
  <2>3. ~IsPending(a)' /\ AccBound(a)
    BY <1>3, <1>4, <1>5, <2>1 DEF IsPending, AccBound
  <2> QED
    BY <2>1, <2>2, <2>3 DEF QuietOutcome
<1>6. ASSUME NEW d, Settles(d), StartGrow(a, d), d.declared_level < MaxLevel
      PROVE  Framed(a) /\ QuietOutcome(a)
  <2> DEFINE e == [d EXCEPT !.target_level = d.declared_level + 1,
                            !.grow_acc = 0, !.shrink_acc = 0,
                            !.pending = NoPending]
  <2>0. d.declared_level \in Levels /\ d.declared_level + 1 \in Levels
    BY <1>0, <1>6 DEF AgentControl, Levels
  <2>1. e \in AgentControl /\ e.pending = NoPending /\ e.shrink_acc = 0
    BY <1>1, <1>6, <2>0 DEF AgentControl
  <2>2. Framed(a) /\ ctl'[a] = e
    BY <1>0, <1>1, <1>6, <2>1, CheckedFramed DEF StartGrow
  <2>3. UNCHANGED <<arc, ver, posts>>
    BY <1>6 DEF StartGrow, KeepCurStorageArc
  <2> HIDE DEF e
  <2>4. ~IsPending(a)' /\ AccBound(a)
    BY <1>3, <1>4, <2>1, <2>2 DEF IsPending, AccBound
  <2> QED
    BY <2>2, <2>3, <2>4 DEF QuietOutcome
<1>7. ASSUME ShrinkCondition(a, skip, c.declared_level), c.shrink_acc >= ShrinkNeed,
             AnnounceShrink(a, c)
      PROVE  Framed(a) /\ AnnounceOutcome(a)
  <2> DEFINE range == VacateHalf(Home[a], c.declared_level)
             expiry == now + Wait + Wait
             p == [execute_at |-> now + Wait, vacate |-> range,
                   expires_at |-> expiry]
             own == [vacate |-> range, expires_at |-> expiry]
             d == [c EXCEPT !.pending = p]
  <2>1. c.declared_level > 0 /\ c.declared_level \in Levels
    BY <1>2, <1>7 DEF ShrinkCondition, AgentControl
  <2>2. range \in SUBSET Sectors
    BY <1>0, <2>1, VacateTyped
  <2>3. p \in Pending /\ own \in Intent
    BY <1>0, <2>2 DEF Pending, Intent
  <2>4. /\ d \in AgentControl /\ d.pending = p
        /\ d.declared_level = c.declared_level
        /\ d.target_level = c.target_level /\ d.shrink_acc = c.shrink_acc
    BY <1>2, <2>3 DEF AgentControl
  <2>5. /\ Checked(a, d, [Purged(a) EXCEPT ![a] = own])
        /\ KeepCurStorageArc(SendIntent("intent", a, range, expiry))
    BY <1>7 DEF AnnounceShrink
  <2> HIDE DEF d, own
  <2>6. Framed(a) /\ ctl'[a] = d
    BY <1>0, <2>3, <2>4, <2>5, CheckedFramed
  <2>7. AccBound(a)
    BY <1>2, <1>3, <1>4, <2>4, <2>6 DEF AccBound
  <2> QED
    BY <1>2, <1>7, <2>1, <2>4, <2>5, <2>6, <2>7
       DEF AnnounceOutcome, KeepCurStorageArc
<1>8. Settles(c) /\ Settles(settled)
  BY <1>2, <1>4
<1>9. CASE VisiblePeers(a) < ClampMinPeers
            /\ IF settled.declared_level < MaxLevel
               THEN StartGrow(a, settled) ELSE Hold(a, settled)
  BY <1>5, <1>6, <1>8, <1>9
<1>10. CASE /\ GrowCondition(a, c.declared_level)
            /\ StartGrow(a, c)
  <2>1. c.declared_level < MaxLevel
    BY <1>10 DEF GrowCondition
  <2> QED
    BY <1>6, <1>8, <1>10, <2>1
<1>11. CASE Hold(a, c)
  BY <1>5, <1>8, <1>11
<1>12. CASE /\ ShrinkCondition(a, skip, c.declared_level)
            /\ c.shrink_acc >= ShrinkNeed
            /\ AnnounceShrink(a, c)
  BY <1>7, <1>12
<1> QED
  BY <1>9, <1>10, <1>11, <1>12 DEF Decide

(* Every run of the check task has one of the outcomes listed above. *)
LEMMA CheckOutcome ==
    ASSUME TypeInv, NEW a \in Agents, Check(a)
    PROVE  Framed(a) /\ Outcome(a)
<1> DEFINE c == Braked(a)
<1>0. a \in Alive /\ now > lastCheck[a] /\ ShardingTypeOK /\ c \in AgentControl
  BY BrakedTyped DEF Check, TypeInv
<1>1. now \in Nat /\ Wait \in Nat /\ MaxLevel \in Nat
  BY ParameterAssumption, MaxLevelAssumption DEF TypeInv, ShardingTypeOK
<1>2. NoPending \in Pending /\ NoIntent \in Intent
  BY DEF NoPending, NoIntent, Pending, Intent
<1>3. PICK silent \in SilentPeers(a) :
         \/ /\ c.pending # NoPending
            /\ now >= c.pending.execute_at
            /\ ExecuteIntent(a, c, gone[a] \cup silent)
         \/ /\ c.pending # NoPending
            /\ now < c.pending.execute_at
            /\ Hold(a, c)
         \/ /\ c.pending = NoPending
            /\ Hold(a, c)
         \/ /\ c.pending = NoPending
            /\ arc[a] = BlockArc(Home[a], c.target_level)
            /\ Decide(a, c, gone[a] \cup silent)
  BY DEF Check, TickAgent
<1> DEFINE skip == gone[a] \cup silent
<1>4. CASE c.pending = NoPending /\ Decide(a, c, skip)
            /\ arc[a] = BlockArc(Home[a], c.target_level)
  BY <1>0, <1>4, DecideOutcome DEF Outcome
<1>5. CASE Hold(a, c) /\ c.pending = NoPending
  <2>1. Framed(a) /\ ctl'[a] = c
    BY <1>0, <1>2, <1>5, CheckedFramed DEF Hold
  <2>2. UNCHANGED <<arc, ver, posts>>
    BY <1>5 DEF Hold, KeepCurStorageArc
  <2>3. ctl[a].shrink_acc \in Nat
    BY DEF TypeInv, ShardingTypeOK, AgentControl
  <2>4. ~IsPending(a)' /\ AccBound(a)
    BY <1>0, <1>5, <2>1, <2>3, BrakedShape DEF IsPending, AccBound
  <2> QED
    BY <2>1, <2>2, <2>4 DEF Outcome, QuietOutcome
<1>6. CASE c.pending # NoPending /\ now < c.pending.execute_at /\ Hold(a, c)
  <2>1. Framed(a) /\ ctl'[a] = c
    BY <1>0, <1>2, <1>6, CheckedFramed DEF Hold
  <2>2. UNCHANGED <<arc, ver, posts>>
    BY <1>6 DEF Hold, KeepCurStorageArc
  <2>3. c = ctl[a] /\ IsPending(a)
    BY <1>0, <1>6, BrakedShape
  <2> QED
    BY <1>6, <2>1, <2>2, <2>3 DEF Outcome, QuietOutcome
<1>7. CASE /\ c.pending # NoPending /\ now >= c.pending.execute_at
           /\ ExecuteIntent(a, c, skip)
  <2>1. c = ctl[a] /\ IsPending(a) /\ ctl[a] \in AgentControl
    BY <1>0, <1>7, BrakedShape
  <2> HIDE DEF c
  <2>2. CASE Recheck(a, skip, c.pending.vacate) = "Proceed" /\ ExecuteShrink(a, c)
    <3> DEFINE level == c.declared_level - 1
               d == [c EXCEPT !.declared_level = level, !.target_level = level,
                              !.grow_acc = 0, !.shrink_acc = 0,
                              !.pending = NoPending]
    <3>1. level \in Levels
      BY <1>1, <2>1 DEF TypeInv, AgentControl, Levels
    <3>2. d \in AgentControl /\ d.pending = NoPending /\ d.shrink_acc = 0
      BY <1>2, <2>1, <3>1 DEF AgentControl
    <3>3. /\ Checked(a, d, [Purged(a) EXCEPT ![a] = NoIntent])
          /\ SetCurStorageArc(a, BlockArc(Home[a], level), {})
      BY <2>2 DEF ExecuteShrink
    <3> HIDE DEF d
    <3>4. Framed(a) /\ ctl'[a] = d
      BY <1>0, <1>2, <3>2, <3>3, CheckedFramed
    <3>5. ~IsPending(a)' /\ ctl'[a].shrink_acc = 0
      BY <3>2, <3>4 DEF IsPending
    <3>6. ExecuteOutcome(a)
      BY <1>7, <2>1, <2>2, <3>3, <3>5 DEF ExecuteOutcome, SetCurStorageArc
    <3> QED
      BY <3>4, <3>6 DEF Outcome
  <2>3. CASE StandDown(a, c)
    <3> DEFINE d == [c EXCEPT !.shrink_acc = 0, !.pending = NoPending]
    <3>1. d \in AgentControl /\ d.pending = NoPending /\ d.shrink_acc = 0
      BY <1>2, <2>1 DEF AgentControl
    <3>2. Checked(a, d, [Purged(a) EXCEPT ![a] = NoIntent])
      BY <2>3 DEF StandDown
    <3> HIDE DEF d
    <3>3. Framed(a) /\ ctl'[a] = d
      BY <1>0, <1>2, <3>1, <3>2, CheckedFramed
    <3>4. ~IsPending(a)' /\ ctl'[a].shrink_acc = 0
      BY <3>1, <3>3 DEF IsPending
    <3>5. /\ UNCHANGED <<arc, ver>>
          /\ posts' \in {posts, posts \cup
                 SendIntent("withdraw", a, c.pending.vacate, c.pending.expires_at)}
      BY <2>3 DEF StandDown, KeepCurStorageArc
    <3> QED
      BY <2>1, <3>3, <3>4, <3>5 DEF Outcome, StandDownOutcome
  <2>4. CASE WaitLonger(a, c)
    <3> DEFINE p == c.pending
               next == now + 1
               due == p.expires_at < next + Wait
               until == IF due THEN next + Wait + Wait ELSE p.expires_at
               d == [c EXCEPT !.pending.execute_at = next,
                              !.pending.expires_at = until]
               own == [vacate |-> p.vacate, expires_at |-> until]
    <3>1. p \in Pending /\ p.expires_at \in Nat /\ p.vacate \in SUBSET Sectors
      BY <2>1 DEF AgentControl, Pending
    <3>2. until \in Nat
      BY <1>1, <3>1
    <3>3. /\ Checked(a, d, IF due THEN [Purged(a) EXCEPT ![a] = own] ELSE Purged(a))
          /\ KeepCurStorageArc(IF due THEN SendIntent("intent", a, p.vacate, until)
                               ELSE {})
      BY <2>4 DEF WaitLonger
    <3>4. own \in Intent
      BY <3>1, <3>2 DEF Intent
    <3> HIDE DEF until
    <3>5. /\ d \in AgentControl
          /\ d.declared_level = c.declared_level
          /\ d.target_level = c.target_level
          /\ d.pending.vacate = p.vacate /\ d.pending.execute_at = next
          /\ d.pending.expires_at = until
      <4> DEFINE q == [p EXCEPT !.execute_at = next, !.expires_at = until]
      <4>1. next \in Nat
        BY <1>1
      <4>2. /\ q \in Pending /\ q.vacate = p.vacate
            /\ q.execute_at = next /\ q.expires_at = until
        BY <3>1, <3>2, <4>1 DEF Pending
      <4>3. d = [c EXCEPT !.pending = q]
        BY <2>1, <3>1 DEF AgentControl, Pending
      <4> HIDE DEF q, d
      <4> QED
        BY <2>1, <4>2, <4>3 DEF AgentControl
    <3> HIDE DEF d, own
    <3>6. Framed(a) /\ ctl'[a] = d
      BY <1>0, <3>3, <3>4, <3>5, CheckedFramed
    <3>7. UNCHANGED <<arc, ver>>
      BY <3>3 DEF KeepCurStorageArc
    <3>8. CASE due
      BY <1>7, <2>1, <3>3, <3>5, <3>6, <3>7, <3>8
         DEF Outcome, WaitOutcome, KeepCurStorageArc, until
    <3>9. CASE ~due
      BY <1>1, <1>7, <2>1, <3>1, <3>3, <3>5, <3>6, <3>7, <3>9
         DEF Outcome, WaitOutcome, KeepCurStorageArc, until
    <3> QED
      BY <3>8, <3>9
  <2> QED
    BY <1>7, <2>2, <2>3, <2>4 DEF ExecuteIntent
<1> QED
  BY <1>3, <1>4, <1>5, <1>6, <1>7

(* The types are kept by whatever a check does. *)
LEMMA CheckKeepsTypes ==
    ASSUME TypeInv, NEW a \in Agents, Framed(a), Outcome(a)
    PROVE  TypeInv'
<1>0. ShardingTypeOK /\ now \in Nat /\ Wait \in Nat /\ ctl[a] \in AgentControl
  BY ParameterAssumption DEF TypeInv, ShardingTypeOK
<1>1. arc' \in [Agents -> SUBSET Sectors] /\ ver' \in [Agents -> Nat]
      /\ posts' \subseteq Message
  <2>1. CASE QuietOutcome(a)
    BY <2>1 DEF QuietOutcome, TypeInv, ShardingTypeOK
  <2>2. CASE AnnounceOutcome(a)
    <3>1. ctl'[a].declared_level \in Levels
      BY DEF Framed, AgentControl
    <3>2. VacateHalf(Home[a], ctl'[a].declared_level) \in SUBSET Sectors
      BY <2>2, <3>1, VacateTyped DEF AnnounceOutcome
    <3>3. SendIntent("intent", a, VacateHalf(Home[a], ctl'[a].declared_level),
                     now + Wait + Wait) \subseteq Message
      <4>1. now + Wait + Wait \in Nat
        BY <1>0
      <4> QED
        BY <1>0, <3>2, <4>1, SentIntentTyped
    <3> QED
      BY <2>2, <3>3 DEF AnnounceOutcome, TypeInv, ShardingTypeOK
  <2>3. CASE ExecuteOutcome(a)
    <3>1. ctl[a].declared_level - 1 \in Levels
      BY <1>0, <2>3, MaxLevelAssumption DEF ExecuteOutcome, TypeInv, AgentControl, Levels
    <3>2. BlockArc(Home[a], ctl[a].declared_level - 1) \in SUBSET Sectors
      BY <3>1, BlockTyped
    <3>3. SendInfo(a, BlockArc(Home[a], ctl[a].declared_level - 1)) \subseteq Message
      BY <1>0, <3>2, SentInfoTyped
    <3> QED
      BY <1>0, <2>3, <3>2, <3>3 DEF ExecuteOutcome, ShardingTypeOK
  <2>4. CASE WaitOutcome(a)
    <3>1. ctl[a].pending.vacate \in SUBSET Sectors /\ ctl'[a].pending.expires_at \in Nat
      BY <1>0 DEF AgentControl, Pending, Framed
    <3>2. SendIntent("intent", a, ctl[a].pending.vacate,
                     ctl'[a].pending.expires_at) \subseteq Message
      BY <1>0, <3>1, SentIntentTyped
    <3> QED
      BY <2>4, <3>2 DEF WaitOutcome, TypeInv, ShardingTypeOK
  <2>5. CASE StandDownOutcome(a)
    <3>1. ctl[a].pending.vacate \in SUBSET Sectors /\ ctl[a].pending.expires_at \in Nat
      BY <1>0 DEF AgentControl, Pending
    <3>2. SendIntent("withdraw", a, ctl[a].pending.vacate,
                     ctl[a].pending.expires_at) \subseteq Message
      BY <1>0, <3>1, SentIntentTyped
    <3> QED
      BY <2>5, <3>2 DEF StandDownOutcome, TypeInv, ShardingTypeOK
  <2> QED
    BY <2>1, <2>2, <2>3, <2>4, <2>5 DEF Outcome
<1>2. ShardingTypeOK'
  BY <1>0, <1>1 DEF Framed, ShardingTypeOK
<1>3. \A b \in Agents : IsPending(b)' => ctl'[b].declared_level > 0
  <2> SUFFICES ASSUME NEW b \in Agents, IsPending(b)'
               PROVE  ctl'[b].declared_level > 0
    OBVIOUS
  <2>1. CASE b # a
    BY <2>1 DEF TypeInv, ShardingTypeOK, Framed, IsPending
  <2>2. CASE b = a
    BY <2>2 DEF Outcome, QuietOutcome, AnnounceOutcome, ExecuteOutcome,
                WaitOutcome, StandDownOutcome, TypeInv, IsPending
  <2> QED
    BY <2>1, <2>2
<1> QED
  BY <1>2, <1>3 DEF TypeInv

----------------------------------------------------------------------------
(* Type correctness.                                                       *)

(* The initial state is well typed. *)
LEMMA InitTypes == ShardingInit => TypeInv
<1> SUFFICES ASSUME ShardingInit PROVE TypeInv
  OBVIOUS
<1>1. NoPending \in Pending /\ NoIntent \in Intent
  BY DEF NoPending, NoIntent, Pending, Intent
<1>2. MaxLevel \in Levels
  BY MaxLevelAssumption DEF Levels
<1>3. \A a \in Agents : BlockArc(Home[a], MaxLevel) \in SUBSET Sectors
  BY <1>2, BlockTyped
<1>4. ctl \in [Agents -> AgentControl] /\ \A a \in Agents : ~IsPending(a)
  <2>1. PICK early \in [Agents -> 0..HeadStart] :
           ctl = [a \in Agents |->
                   [declared_level |-> MaxLevel, target_level |-> MaxLevel,
                    grow_acc |-> 0, shrink_acc |-> early[a],
                    pending |-> NoPending]]
    BY DEF ShardingInit
  <2>2. \A a \in Agents : early[a] \in Nat
    BY ParameterAssumption
  <2> QED
    BY <1>1, <1>2, <2>1, <2>2 DEF AgentControl, IsPending
<1>5. intents \in [Agents -> [Agents -> Intent]]
  BY <1>1 DEF ShardingInit
<1>6. seen \in [Agents -> [Agents -> [arc : SUBSET Sectors, ver : Nat]]]
  BY <1>3 DEF ShardingInit
<1> QED
  BY <1>3, <1>4, <1>5, <1>6 DEF ShardingInit, TypeInv, ShardingTypeOK

(* Widening an arc towards its target keeps the types. *)
LEMMA SyncTypes ==
    ASSUME TypeInv, NEW a \in Agents, Sync(a)
    PROVE  TypeInv'
<1>0. ShardingTypeOK /\ ctl[a].target_level \in Levels
  BY DEF TypeInv, ShardingTypeOK, AgentControl
<1>1. PICK newArc \in SUBSET BlockArc(Home[a], ctl[a].target_level) :
         SetCurStorageArc(a, newArc, {})
  BY DEF Sync
<1>2. newArc \in SUBSET Sectors
  BY <1>0, BlockTyped
<1>3. SendInfo(a, newArc) \subseteq Message
  BY <1>0, <1>2, SentInfoTyped
<1>4. ShardingTypeOK'
  BY <1>0, <1>1, <1>2, <1>3 DEF Sync, SetCurStorageArc, ShardingTypeOK
<1>5. ctl' = ctl
  BY DEF Sync
<1> QED
  BY <1>4, <1>5 DEF TypeInv, IsPending

(* Filing an info, an intent or a withdrawal keeps the types. *)
LEMMA ReceiveTypes ==
    ASSUME TypeInv, NEW m \in posts, Receive(m)
    PROVE  TypeInv'
<1>0. /\ ShardingTypeOK /\ m \in Message /\ m.to \in Agents /\ m.from \in Agents
      /\ m.type = "info" => [arc |-> m.arc, ver |-> m.ver]
                              \in [arc : SUBSET Sectors, ver : Nat]
      /\ m.type # "info" => [vacate |-> m.vacate, expires_at |-> m.expires_at]
                              \in Intent
      /\ NoIntent \in Intent
  BY MessageFields DEF TypeInv, ShardingTypeOK, Intent, NoIntent
<1>1. seen' \in [Agents -> [Agents -> [arc : SUBSET Sectors, ver : Nat]]]
  <2> DEFINE v == [arc |-> m.arc, ver |-> m.ver]
  <2>1. m.type = "info" => [seen EXCEPT ![m.to][m.from] = v]
                  \in [Agents -> [Agents -> [arc : SUBSET Sectors, ver : Nat]]]
    <3> HIDE DEF v
    <3> QED
      BY <1>0, UpdateEntry DEF ShardingTypeOK, v
  <2>2. \/ m.type = "info" /\ seen' = [seen EXCEPT ![m.to][m.from] = v]
        \/ seen' = seen
    BY DEF Receive, ReceiveInfo, ReceiveIntent, ReceiveWithdraw
  <2> QED
    BY <1>0, <2>1, <2>2 DEF ShardingTypeOK
<1>2. intents' \in [Agents -> [Agents -> Intent]]
  <2>1. PICK v \in Intent :
           intents' = intents \/ intents' = [intents EXCEPT ![m.to][m.from] = v]
    BY <1>0 DEF Receive, ReceiveInfo, ReceiveIntent, ReceiveWithdraw
  <2>2. [intents EXCEPT ![m.to][m.from] = v] \in [Agents -> [Agents -> Intent]]
    BY <1>0, UpdateEntry DEF ShardingTypeOK
  <2> QED
    BY <1>0, <2>1, <2>2 DEF ShardingTypeOK
<1>3. ShardingTypeOK'
  BY <1>0, <1>1, <1>2 DEF Receive, ShardingTypeOK
<1>4. ctl' = ctl
  BY DEF Receive
<1> QED
  BY <1>3, <1>4 DEF TypeInv, IsPending

(* Every step keeps the types. *)
LEMMA NextTypes == TypeInv /\ [ShardingNext]_shardingVars => TypeInv'
<1> SUFFICES ASSUME TypeInv, [ShardingNext]_shardingVars PROVE TypeInv'
  OBVIOUS
<1>1. CASE \E a \in Agents : Check(a)
  BY <1>1, CheckOutcome, CheckKeepsTypes
<1>2. CASE \E a \in Agents : Sync(a)
  BY <1>2, SyncTypes
<1>3. CASE \E a \in Agents : Die(a)
  BY <1>3 DEF Die, TypeInv, ShardingTypeOK, IsPending
<1>4. CASE \E a, b \in Agents : MarkUnresponsive(a, b)
  BY <1>4 DEF MarkUnresponsive, TypeInv, ShardingTypeOK, IsPending
<1>5. CASE \E m \in posts : Receive(m)
  BY <1>5, ReceiveTypes
<1>6. CASE Tick
  BY <1>6 DEF Tick, TypeInv, ShardingTypeOK, IsPending
<1>7. CASE UNCHANGED shardingVars
  BY <1>7 DEF shardingVars, TypeInv, ShardingTypeOK, IsPending
<1> QED
  BY <1>1, <1>2, <1>3, <1>4, <1>5, <1>6, <1>7 DEF ShardingNext, Finished

(* Every state the controller reaches is well formed, whatever the timing, *)
(* the deaths and the order of arrival: in particular a shrink never takes *)
(* an agent below level 0 and a grow never past MAX_LEVEL.                 *)
THEOREM TypeCorrect == ShardingSpec => []ShardingTypeOK
<1>1. TypeInv => ShardingTypeOK
  BY DEF TypeInv
<1> QED
  BY <1>1, InitTypes, NextTypes, PTL DEF ShardingSpec

----------------------------------------------------------------------------
(* The copies of a sector.  When the controller is patient and the waits   *)
(* are long enough (WellTimed), no sequence of shrinks takes a sector      *)
(* below its target, and what crashes take is taken over again.  The       *)
(* argument is the inductive invariants IInv and RepairInv of ShardingInv; *)
(* each conjunct is kept by every outcome of a check and every other       *)
(* action.                                                                 *)

(* The assumptions of every lemma below. *)
Safe == IInv /\ WellTimed

(* The timing constants are natural numbers. *)
LEMMA Parameters ==
    {R, Wait, ShrinkNeed, Lag, Stall, Horizon} \subseteq Nat
  BY ParameterAssumption

(* The types that CheckOutcome rests on. *)
LEMMA PendingTypes == IInv => TypeInv
<1> SUFFICES ASSUME IInv, NEW a \in Agents, IsPending(a)
             PROVE  ctl[a].declared_level > 0
  BY DEF IInv, TypeInv
<1> QED
  BY DEF IInv, PendingOK

(* The fields of a control record, one by one. *)
LEMMA ControlFields ==
    ASSUME ShardingTypeOK, NEW b \in Agents
    PROVE  /\ ctl[b] \in AgentControl
           /\ ctl[b].declared_level \in Levels
           /\ ctl[b].target_level \in Levels
           /\ ctl[b].shrink_acc \in Nat
           /\ ctl[b].pending.execute_at \in Nat
           /\ ctl[b].pending.expires_at \in Nat
           /\ ctl[b].pending.vacate \in SUBSET Sectors
           /\ lastCheck[b] \in Nat
           /\ now \in Nat
<1>1. ctl[b] \in AgentControl /\ lastCheck[b] \in Nat /\ now \in Nat
  BY DEF ShardingTypeOK
<1>2. ctl[b].pending \in Pending
  BY <1>1 DEF AgentControl
<1> QED
  BY <1>1, <1>2 DEF AgentControl, Pending

(* A message in flight is no older than Lag. *)
LEMMA InFlight ==
    ASSUME ShardingTypeOK, TimesOK, NEW m \in posts
    PROVE  /\ m.at \in Nat /\ m.at <= now /\ now <= m.at + Lag
           /\ m.from \in Agents /\ m.to \in Alive /\ m.to \in Agents
           /\ m.from # m.to
           /\ m.type \in {"info", "intent", "withdraw"}
           /\ m.type = "info" => m.arc \in SUBSET Sectors /\ m.ver \in Nat
           /\ m.type # "info" =>
                m.vacate \in SUBSET Sectors /\ m.expires_at \in Nat
<1>1. m \in Message
  BY DEF ShardingTypeOK
<1> QED
  BY <1>1, MessageFields DEF TimesOK

(* What a check sends carries its sender and its time, and reaches the     *)
(* living.                                                                 *)
LEMMA SentNow ==
    ASSUME NEW a \in Agents, Framed(a), Outcome(a)
    PROVE  /\ posts \subseteq posts'
           /\ \A m \in posts' \ posts :
                 m.from = a /\ m.to \in Alive \ {a} /\ m.at = now
<1>1. ASSUME NEW type, NEW range, NEW expiry, NEW m \in SendIntent(type, a, range, expiry)
      PROVE  m.from = a /\ m.to \in Alive \ {a} /\ m.at = now
  BY <1>1 DEF SendIntent, Reachable, Alive
<1>2. ASSUME NEW newArc, NEW m \in SendInfo(a, newArc)
      PROVE  m.from = a /\ m.to \in Alive \ {a} /\ m.at = now
  BY <1>2 DEF SendInfo, Alive
<1>3. CASE QuietOutcome(a)
  BY <1>3 DEF QuietOutcome
<1>4. CASE AnnounceOutcome(a)
  BY <1>1, <1>4 DEF AnnounceOutcome
<1>5. CASE ExecuteOutcome(a)
  BY <1>2, <1>5 DEF ExecuteOutcome
<1>6. CASE WaitOutcome(a)
  BY <1>1, <1>6 DEF WaitOutcome
<1>7. CASE StandDownOutcome(a)
  BY <1>1, <1>7 DEF StandDownOutcome
<1> QED
  BY <1>3, <1>4, <1>5, <1>6, <1>7 DEF Outcome

----------------------------------------------------------------------------
(* The timing facts.                                                       *)

(* When a pending shrink is due, no agent info of that agent is under way. *)
LEMMA NoInfoWhenDue ==
    ASSUME Safe, NEW b \in Agents, IsPending(b), now >= ctl[b].pending.execute_at,
           NEW m \in posts, m.type = "info", m.from = b
    PROVE  FALSE
<1>1. /\ m.at \in Nat /\ now <= m.at + Lag /\ m.to \in Agents
  BY InFlight DEF Safe, IInv
<1>2. m.at + Wait <= ctl[b].pending.execute_at
  BY <1>1 DEF Safe, IInv, InfoOK, Infos
<1>3. ctl[b].pending.execute_at \in Nat /\ now \in Nat
  BY ControlFields DEF Safe, IInv
<1> QED
  BY <1>1, <1>2, <1>3, Parameters DEF Safe, WellTimed

(* The intent of a pending shrink outlasts anything sent now. *)
LEMMA IntentOutlasts ==
    ASSUME Safe, NEW b \in Alive, IsPending(b)
    PROVE  ctl[b].pending.expires_at > now + Lag
<1>1. b \in Agents
  BY DEF Alive
<1>2. /\ lastCheck[b] < ctl[b].pending.execute_at
      /\ ctl[b].pending.execute_at + Wait <= ctl[b].pending.expires_at
  BY <1>1 DEF Safe, IInv, PendingOK
<1>3. now <= lastCheck[b] + Stall + 1
  BY DEF Safe, IInv, TimesOK
<1>4. /\ ctl[b].pending.execute_at \in Nat /\ ctl[b].pending.expires_at \in Nat
      /\ now \in Nat /\ lastCheck[b] \in Nat
  BY <1>1, ControlFields DEF Safe, IInv
<1> QED
  BY <1>2, <1>3, <1>4, Parameters DEF Safe, WellTimed

(* By the time an agent announces, the last it sent about a shrink has     *)
(* arrived.                                                                *)
LEMMA FreshAnnounce ==
    ASSUME Safe, NEW b \in Agents, Framed(b), AnnounceOutcome(b)
    PROVE  /\ \A m \in posts : m.from = b => m.type = "info"
           /\ ~IsPending(b) => \A m \in posts :
                 ctl[b].shrink_acc + m.at > lastCheck[b]
<1>1. /\ ctl[b].shrink_acc \in Nat /\ lastCheck[b] \in Nat /\ now \in Nat
      /\ now > lastCheck[b]
  BY ControlFields DEF Safe, IInv, Framed
<1>2. ctl'[b].shrink_acc \in Nat
  BY DEF Framed, AgentControl
<1>3. ctl'[b].shrink_acc >= ShrinkNeed /\ AccBound(b)
  BY DEF AnnounceOutcome
<1>4. ASSUME NEW m \in posts, ~IsPending(b)
      PROVE  ctl[b].shrink_acc + m.at > lastCheck[b]
  <2>1. m.at \in Nat /\ now <= m.at + Lag
    BY InFlight DEF Safe, IInv
  <2> QED
    BY <1>1, <1>2, <1>3, <1>4, <2>1, Parameters DEF AccBound, Safe, WellTimed
<1>5. ASSUME NEW m \in posts, m.from = b, m.type # "info"
      PROVE  FALSE
  <2>1. m.at \in Nat /\ now <= m.at + Lag /\ m.to \in Agents
        /\ m.type \in {"intent", "withdraw"}
    BY <1>5, InFlight DEF Safe, IInv
  <2>2. m \in IntentMsgs(b, m.to) \cup Withdrawals(b, m.to)
    BY <1>5, <2>1 DEF IntentMsgs, Withdrawals
  <2>3. /\ m.at <= lastCheck[b]
        /\ ~IsPending(b) => ctl[b].shrink_acc + m.at <= lastCheck[b]
    BY <2>1, <2>2 DEF Safe, IInv, IntentOK
  <2>4. IsPending(b)
    BY <1>1, <1>4, <2>1, <2>3
  <2> QED
    BY <1>1, <1>2, <1>3, <2>1, <2>3, <2>4, Parameters DEF AccBound, Safe, WellTimed
<1> QED
  BY <1>4, <1>5

(* By the time an intent is refreshed, the last announcement has arrived. *)
LEMMA FreshRefresh ==
    ASSUME Safe, NEW b \in Agents, IsPending(b),
           ctl[b].pending.expires_at < now + 1 + Wait,
           NEW m \in posts, m.from = b, m.type = "intent"
    PROVE  FALSE
<1>1. m.at \in Nat /\ now <= m.at + Lag /\ m.to \in Agents /\ m.expires_at \in Nat
  BY InFlight DEF Safe, IInv
<1>2. m \in IntentMsgs(b, m.to)
  BY DEF IntentMsgs
<1>3. m.at + Wait + Wait <= m.expires_at /\ m.expires_at = ctl[b].pending.expires_at
  BY <1>1, <1>2 DEF Safe, IInv, IntentOK
<1>4. now \in Nat
  BY ControlFields DEF Safe, IInv
<1> QED
  BY <1>1, <1>3, <1>4, Parameters DEF Safe, WellTimed

(* Nobody's arc changes while its shrink is pending. *)
LEMMA SyncNotPending ==
    ASSUME Safe, NEW b \in Agents, Sync(b)
    PROVE  ~IsPending(b)
  BY DEF Safe, IInv, PendingOK, Sync

----------------------------------------------------------------------------
(* The steps other than checks.  Only Sync, Receive and Die touch posts.    *)

(* What a sync does: a wider arc, a new version, an info to the living. *)
SyncOutcome(a, newArc) ==
    /\ arc[a] \subseteq newArc
    /\ arc' = [arc EXCEPT ![a] = newArc]
    /\ ver' = [ver EXCEPT ![a] = @ + 1]
    /\ posts' = posts \cup SendInfo(a, newArc)
    /\ UNCHANGED <<now, dead, diedAt, ctl, intents, seen, gone, lastGone,
                   lastCheck>>

(* An info goes out to every living peer, and says what was declared. *)
LEMMA InfoSent ==
    ASSUME NEW a \in Agents, NEW newArc
    PROVE  /\ \A m \in SendInfo(a, newArc) :
                 /\ m.from = a /\ m.to \in Alive \ {a} /\ m.at = now
                 /\ m.type = "info" /\ m.arc = newArc /\ m.ver = ver[a] + 1
           /\ \A b \in Alive \ {a} : \E m \in SendInfo(a, newArc) :
                 /\ m.type = "info" /\ m.from = a /\ m.to = b
                 /\ m.at = now /\ m.arc = newArc /\ m.ver = ver[a] + 1
<1>1. ASSUME NEW b \in Alive \ {a}
      PROVE  \E m \in SendInfo(a, newArc) :
                 /\ m.type = "info" /\ m.from = a /\ m.to = b
                 /\ m.at = now /\ m.arc = newArc /\ m.ver = ver[a] + 1
  <2> DEFINE m == [type |-> "info", from |-> a, to |-> b, at |-> now,
                   arc |-> newArc, ver |-> ver[a] + 1]
  <2>1. b \in Agents \ ({a} \cup dead)
    BY DEF Alive
  <2>2. m \in SendInfo(a, newArc)
    BY <2>1 DEF SendInfo
  <2> QED
    BY <2>2
<1>2. ASSUME NEW m \in SendInfo(a, newArc)
      PROVE  /\ m.from = a /\ m.to \in Alive \ {a} /\ m.at = now
             /\ m.type = "info" /\ m.arc = newArc /\ m.ver = ver[a] + 1
  BY <1>2 DEF SendInfo, Alive
<1> QED
  BY <1>1, <1>2

(* An announcement goes out to every living peer. *)
LEMMA IntentSent ==
    ASSUME TimesOK, NEW a \in Agents, NEW type, NEW range, NEW expiry
    PROVE  /\ \A m \in SendIntent(type, a, range, expiry) :
                 /\ m.from = a /\ m.to \in Alive \ {a} /\ m.at = now
                 /\ m.type = type /\ m.vacate = range /\ m.expires_at = expiry
           /\ \A b \in Alive \ {a} : \E m \in SendIntent(type, a, range, expiry) :
                 /\ m.type = type /\ m.from = a /\ m.to = b /\ m.at = now
                 /\ m.vacate = range /\ m.expires_at = expiry
<1>1. ASSUME NEW b \in Alive \ {a}
      PROVE  \E m \in SendIntent(type, a, range, expiry) :
                 /\ m.type = type /\ m.from = a /\ m.to = b /\ m.at = now
                 /\ m.vacate = range /\ m.expires_at = expiry
  <2> DEFINE m == [type |-> type, from |-> a, to |-> b, at |-> now,
                   vacate |-> range, expires_at |-> expiry]
  <2>1. b \in Reachable(a)
    BY DEF Alive, Reachable, TimesOK
  <2>2. m \in SendIntent(type, a, range, expiry)
    BY <2>1 DEF SendIntent
  <2> QED
    BY <2>2
<1>2. ASSUME NEW m \in SendIntent(type, a, range, expiry)
      PROVE  /\ m.from = a /\ m.to \in Alive \ {a} /\ m.at = now
             /\ m.type = type /\ m.vacate = range /\ m.expires_at = expiry
  BY <1>2 DEF SendIntent, Reachable, Alive
<1> QED
  BY <1>1, <1>2

(* What a Sync does, without its guards. *)
LEMMA SyncIs ==
    ASSUME NEW a \in Agents, Sync(a)
    PROVE  \E newArc : SyncOutcome(a, newArc)
  BY DEF Sync, SyncOutcome, SetCurStorageArc

(* A Sync sends the new arc to every live peer and nothing else. *)
LEMMA SyncSends ==
    ASSUME NEW a \in Agents, NEW newArc, SyncOutcome(a, newArc)
    PROVE  /\ posts \subseteq posts'
           /\ \A m \in posts' \ posts :
                 /\ m.from = a /\ m.to \in Alive \ {a} /\ m.at = now
                 /\ m.type = "info" /\ m.arc = newArc /\ m.ver = ver[a] + 1
           /\ \A b \in Alive \ {a} : \E m \in posts' :
                 /\ m.type = "info" /\ m.from = a /\ m.to = b
                 /\ m.at = now /\ m.arc = newArc /\ m.ver = ver[a] + 1
  BY InfoSent DEF SyncOutcome

(* No step makes anything in flight, or a check, overdue. *)
LEMMA TimesKept ==
    ASSUME Safe, [ShardingNext]_shardingVars
    PROVE  TimesOK'
<1>0. /\ ShardingTypeOK /\ TimesOK /\ now \in Nat
      /\ \A a \in Agents : lastCheck[a] \in Nat
  BY DEF Safe, IInv, ShardingTypeOK
<1>a. \A m \in posts : m.at \in Nat
  BY <1>0, InFlight
<1>1. ASSUME NEW a \in Agents, Check(a) PROVE TimesOK'
  <2>1. Framed(a) /\ Outcome(a)
    BY <1>1, CheckOutcome, PendingTypes DEF Safe
  <2>2. /\ \A m \in posts' : m \in posts \/
              (m.from = a /\ m.to \in Alive \ {a} /\ m.at = now)
    BY <2>1, SentNow
  <2>3. /\ now' = now /\ dead' = dead /\ gone' = gone
        /\ lastCheck' = [lastCheck EXCEPT ![a] = now]
    BY <2>1 DEF Framed
  <2>4. \A m \in posts' : /\ m.at <= now /\ now <= m.at + Lag
                         /\ m.from # m.to /\ m.to \in Alive
    BY <1>0, <2>2, Parameters DEF TimesOK
  <2> QED
    BY <1>0, <2>3, <2>4, Parameters DEF TimesOK, Alive, ShardingTypeOK
<1>2. ASSUME NEW a \in Agents, Sync(a) PROVE TimesOK'
  <2>1. PICK newArc : SyncOutcome(a, newArc)
    BY <1>2, SyncIs
  <2>2. /\ \A m \in posts' : m \in posts \/
              (m.from = a /\ m.to \in Alive \ {a} /\ m.at = now)
    BY <2>1, SyncSends
  <2>3. \A m \in posts' : /\ m.at <= now /\ now <= m.at + Lag
                         /\ m.from # m.to /\ m.to \in Alive
    BY <1>0, <2>2, Parameters DEF TimesOK
  <2> QED
    BY <1>0, <2>1, <2>3 DEF TimesOK, Alive, SyncOutcome
<1>3. ASSUME NEW a \in Agents, Die(a) PROVE TimesOK'
  BY <1>0, <1>3 DEF Die, TimesOK, Alive
<1>4. ASSUME NEW a \in Agents, NEW b \in Agents, MarkUnresponsive(a, b)
      PROVE  TimesOK'
  BY <1>0, <1>4 DEF MarkUnresponsive, TimesOK, Alive, ShardingTypeOK
<1>5. ASSUME NEW m \in posts, Receive(m) PROVE TimesOK'
  BY <1>0, <1>5 DEF Receive, TimesOK, Alive
<1>6. ASSUME Tick PROVE TimesOK'
  BY <1>0, <1>6, <1>a, Parameters DEF Tick, TimesOK, Alive
<1>7. ASSUME UNCHANGED shardingVars PROVE TimesOK'
  BY <1>0, <1>7 DEF shardingVars, TimesOK, Alive
<1> QED
  BY <1>1, <1>2, <1>3, <1>4, <1>5, <1>6, <1>7 DEF ShardingNext, Finished

(* A pending shrink stays tied to the block and the arc it was announced for. *)
LEMMA PendingKept ==
    ASSUME Safe, [ShardingNext]_shardingVars
    PROVE  PendingOK'
<1>0. ShardingTypeOK /\ PendingOK /\ now \in Nat /\ Wait \in Nat /\ Wait > 0
  BY Parameters DEF Safe, IInv, ShardingTypeOK, WellTimed
<1> SUFFICES ASSUME NEW b \in Agents, IsPending(b)'
             PROVE  /\ arc'[b] = BlockArc(Home[b], ctl'[b].declared_level)
                    /\ ctl'[b].target_level = ctl'[b].declared_level
                    /\ ctl'[b].declared_level > 0
                    /\ ctl'[b].pending.vacate =
                          VacateHalf(Home[b], ctl'[b].declared_level)
                    /\ lastCheck'[b] < ctl'[b].pending.execute_at
                    /\ ctl'[b].pending.execute_at + Wait <= ctl'[b].pending.expires_at
  BY DEF PendingOK
<1>1. CASE \E a \in Agents : Check(a)
  <2>1. PICK a \in Agents : Framed(a) /\ Outcome(a)
    BY <1>1, CheckOutcome, PendingTypes DEF Safe
  <2>2. /\ lastCheck' = [lastCheck EXCEPT ![a] = now]
        /\ ctl' = [ctl EXCEPT ![a] = ctl'[a]]
    BY <2>1 DEF Framed
  <2>3. lastCheck'[a] = now /\ a \in Agents
    BY <1>0, <2>2 DEF ShardingTypeOK
  <2>4. CASE b # a
    <3>1. ctl'[b] = ctl[b] /\ lastCheck'[b] = lastCheck[b]
      BY <1>0, <2>2, <2>4 DEF ShardingTypeOK
    <3>2. arc'[b] = arc[b]
      BY <1>0, <2>1, <2>4 DEF Outcome, QuietOutcome, AnnounceOutcome,
             ExecuteOutcome, WaitOutcome, StandDownOutcome, ShardingTypeOK
    <3>3. IsPending(b)
      BY <3>1 DEF IsPending
    <3> QED
      BY <1>0, <3>1, <3>2, <3>3 DEF PendingOK
  <2>5. CASE b = a
    <3>1. CASE QuietOutcome(a)
      BY <1>0, <2>3, <2>5, <3>1 DEF QuietOutcome, PendingOK
    <3>2. CASE AnnounceOutcome(a)
      BY <1>0, <2>3, <2>5, <3>2 DEF AnnounceOutcome
    <3>3. CASE WaitOutcome(a)
      BY <1>0, <2>3, <2>5, <3>3, ControlFields DEF WaitOutcome, PendingOK
    <3>4. CASE ExecuteOutcome(a) \/ StandDownOutcome(a)
      BY <2>5, <3>4 DEF ExecuteOutcome, StandDownOutcome
    <3> QED
      BY <2>1, <3>1, <3>2, <3>3, <3>4 DEF Outcome
  <2> QED
    BY <2>4, <2>5
<1>2. CASE \E a \in Agents : Sync(a)
  <2>1. PICK a \in Agents : Sync(a)
    BY <1>2
  <2>2. ~IsPending(a)
    BY <2>1, SyncNotPending
  <2>3. PICK newArc : SyncOutcome(a, newArc)
    BY <2>1, SyncIs
  <2>4. ctl' = ctl /\ lastCheck' = lastCheck /\ (b # a => arc'[b] = arc[b])
    BY <1>0, <2>3 DEF SyncOutcome, ShardingTypeOK
  <2>5. IsPending(b) /\ b # a
    BY <2>2, <2>4 DEF IsPending
  <2> QED
    BY <1>0, <2>4, <2>5 DEF PendingOK
<1>3. CASE ctl' = ctl /\ lastCheck' = lastCheck /\ arc' = arc
  BY <1>0, <1>3 DEF PendingOK, IsPending
<1> QED
  BY <1>1, <1>2, <1>3 DEF ShardingNext, Finished, Die, MarkUnresponsive, Receive, Tick, shardingVars

(* A check of a changes nothing of another agent, and sends nothing in its *)
(* name.                                                                   *)
LEMMA OthersUntouched ==
    ASSUME ShardingTypeOK, NEW a \in Agents, NEW b \in Agents, b # a,
           Framed(a), Outcome(a)
    PROVE  /\ ctl'[b] = ctl[b] /\ lastCheck'[b] = lastCheck[b]
           /\ arc'[b] = arc[b] /\ ver'[b] = ver[b] /\ intents'[b] = intents[b]
           /\ IsPending(b)' = IsPending(b)
           /\ \A m \in posts' : m.from = b => m \in posts
           /\ posts \subseteq posts'
<1>1. ctl'[b] = ctl[b] /\ lastCheck'[b] = lastCheck[b] /\ intents'[b] = intents[b]
  BY DEF Framed, ShardingTypeOK
<1>2. arc'[b] = arc[b] /\ ver'[b] = ver[b]
  BY DEF Outcome, QuietOutcome, AnnounceOutcome, ExecuteOutcome, WaitOutcome,
         StandDownOutcome, ShardingTypeOK
<1>3. posts \subseteq posts' /\ \A m \in posts' : m.from = b => m \in posts
  BY SentNow
<1>4. IsPending(b)' = IsPending(b)
  BY <1>1 DEF IsPending
<1> QED
  BY <1>1, <1>2, <1>3, <1>4

(* What a check of an agent sends, by outcome. *)
LEMMA SentKinds ==
    ASSUME TimesOK, NEW a \in Agents, Outcome(a), NEW m \in posts' \ posts
    PROVE  \/ m.type = "info" /\ ExecuteOutcome(a)
           \/ /\ m.type = "intent"
              /\ AnnounceOutcome(a) \/ WaitOutcome(a)
           \/ m.type = "withdraw" /\ StandDownOutcome(a)
<1>1. CASE QuietOutcome(a)
  BY <1>1 DEF QuietOutcome
<1>2. CASE AnnounceOutcome(a)
  <2>1. m \in SendIntent("intent", a, VacateHalf(Home[a], ctl'[a].declared_level),
                         now + Wait + Wait)
    BY <1>2 DEF AnnounceOutcome
  <2> QED
    BY <1>2, <2>1, IntentSent
<1>3. CASE ExecuteOutcome(a)
  <2>1. m \in SendInfo(a, BlockArc(Home[a], ctl[a].declared_level - 1))
    BY <1>3 DEF ExecuteOutcome
  <2> QED
    BY <1>3, <2>1, InfoSent
<1>4. CASE WaitOutcome(a)
  <2>1. m \in SendIntent("intent", a, ctl[a].pending.vacate,
                         ctl'[a].pending.expires_at)
    BY <1>4 DEF WaitOutcome
  <2> QED
    BY <1>4, <2>1, IntentSent
<1>5. CASE StandDownOutcome(a)
  <2>1. m \in SendIntent("withdraw", a, ctl[a].pending.vacate,
                         ctl[a].pending.expires_at)
    BY <1>5 DEF StandDownOutcome
  <2> QED
    BY <1>5, <2>1, IntentSent
<1> QED
  BY <1>1, <1>2, <1>3, <1>4, <1>5 DEF Outcome

----------------------------------------------------------------------------
(* Agent infos.                                                            *)

InfoInFlightOK(m) ==
    /\ m.arc \subseteq arc[m.from]
    /\ m.ver <= ver[m.from]
    /\ m.ver = ver[m.from] => m.arc = arc[m.from]
    /\ IsPending(m.from) => m.at + Wait <= ctl[m.from].pending.execute_at

ViewOK(a, b) ==
    /\ seen[a][b].ver <= ver[b]
    /\ seen[a][b].ver = ver[b] => seen[a][b].arc = arc[b]
    /\ seen[a][b].ver < ver[b] => \E m \in Infos(b, a) : m.ver = ver[b]

(* InfoOK is a condition on each info in flight and on each view. *)
LEMMA InfoParts ==
    ASSUME \A m \in posts : m.from \in Agents /\ m.to \in Agents
    PROVE  InfoOK <=> /\ \A m \in posts : m.type = "info" => InfoInFlightOK(m)
                      /\ \A a \in Alive : \A b \in Agents \ {a} : ViewOK(a, b)
  BY DEF InfoOK, InfoInFlightOK, ViewOK, Infos

(* A check keeps it: a shrink publishes the arc it leaves. *)
LEMMA InfoCheck ==
    ASSUME Safe, NEW c \in Agents, Framed(c), Outcome(c)
    PROVE  /\ \A m \in posts' : m.type = "info" => InfoInFlightOK(m)'
           /\ \A a \in Alive' : \A b \in Agents \ {a} : ViewOK(a, b)'
<1>0. /\ ShardingTypeOK /\ TimesOK /\ now \in Nat /\ Wait \in Nat
      /\ dead' = dead /\ seen' = seen /\ Alive' = Alive /\ Alive \subseteq Agents
      /\ \A m \in posts : m.from \in Agents /\ m.to \in Agents /\ m.at \in Nat
                         /\ m.at <= now /\ (m.type = "info" => m.ver \in Nat)
      /\ ver \in [Agents -> Nat]
  BY Parameters, InFlight DEF Safe, IInv, ShardingTypeOK, Framed, Alive
<1>1. /\ \A m \in posts : m.type = "info" => InfoInFlightOK(m)
      /\ \A a \in Alive : \A b \in Agents \ {a} : ViewOK(a, b)
  BY <1>0, InfoParts DEF Safe, IInv
<1>2. /\ ctl[c].pending.execute_at \in Nat
      /\ \A m \in posts' : m.from = c \/ m.from \in Agents
  BY <1>0, ControlFields, SentNow
<1>3. CASE arc' = arc /\ ver' = ver
  <2>1. ASSUME NEW m \in posts', m.type = "info" PROVE m \in posts
    BY <1>0, <1>3, <2>1, SentKinds DEF ExecuteOutcome
  <2>2. ASSUME NEW m \in posts', m.type = "info", m.from # c PROVE InfoInFlightOK(m)'
    <3>1. m \in posts /\ m.from \in Agents
      BY <1>0, <2>1, <2>2
    <3> QED
      BY <1>0, <1>1, <2>2, <3>1, OthersUntouched DEF InfoInFlightOK
  <2>3. ASSUME NEW m \in posts', m.type = "info", m.from = c PROVE InfoInFlightOK(m)'
    <3>1. m \in posts /\ InfoInFlightOK(m) /\ m.at \in Nat /\ m.at <= now
      BY <1>0, <1>1, <2>1, <2>3
    <3>2. ASSUME IsPending(c)' PROVE m.at + Wait <= ctl'[c].pending.execute_at
      BY <1>0, <1>2, <2>3, <3>1, <3>2
         DEF InfoInFlightOK, Outcome, QuietOutcome, AnnounceOutcome, ExecuteOutcome,
             WaitOutcome, StandDownOutcome
    <3> QED
      BY <1>3, <2>3, <3>1, <3>2 DEF InfoInFlightOK
  <2>4. ASSUME NEW a \in Alive, NEW b \in Agents \ {a} PROVE ViewOK(a, b)'
    <3>1. Infos(b, a) \subseteq Infos(b, a)'
      BY SentNow DEF Infos
    <3> QED
      BY <1>0, <1>1, <1>3, <3>1 DEF ViewOK
  <2> QED
    BY <1>0, <2>2, <2>3, <2>4
<1>4. CASE ExecuteOutcome(c)
  <2> DEFINE rest == BlockArc(Home[c], ctl[c].declared_level - 1)
  <2>1. /\ posts' = posts \cup SendInfo(c, rest) /\ arc' = [arc EXCEPT ![c] = rest]
        /\ ver' = [ver EXCEPT ![c] = @ + 1] /\ ~IsPending(c)'
        /\ IsPending(c) /\ now >= ctl[c].pending.execute_at
    BY <1>4 DEF ExecuteOutcome
  <2> HIDE DEF rest
  <2>2. arc'[c] = rest /\ ver'[c] = ver[c] + 1 /\ ver[c] \in Nat
    BY <1>0, <2>1 DEF ShardingTypeOK
  <2>3. ASSUME NEW m \in posts', m.type = "info" PROVE InfoInFlightOK(m)'
    <3>1. CASE m.from # c
      <4>1. m \in posts /\ m.from \in Agents
        BY <1>0, <2>1, <3>1, InfoSent
      <4> QED
        BY <1>0, <1>1, <2>3, <3>1, <4>1, OthersUntouched DEF InfoInFlightOK
    <3>2. CASE m.from = c
      <4>1. m \in SendInfo(c, rest)
        BY <2>1, <2>3, <3>2, NoInfoWhenDue
      <4>2. m.arc = rest /\ m.ver = ver[c] + 1
        BY <4>1, InfoSent
      <4> QED
        BY <2>1, <2>2, <3>2, <4>2 DEF InfoInFlightOK
    <3> QED
      BY <3>1, <3>2
  <2>4. ASSUME NEW a \in Alive, NEW b \in Agents \ {a} PROVE ViewOK(a, b)'
    <3>1. CASE b # c
      <4>1. Infos(b, a) \subseteq Infos(b, a)'
        BY SentNow DEF Infos
      <4> QED
        BY <1>0, <1>1, <3>1, <4>1, OthersUntouched DEF ViewOK
    <3>2. CASE b = c
      <4>1. seen[a][c].ver <= ver[c] /\ seen[a][c].ver \in Nat
        BY <1>0, <1>1, <3>2 DEF ViewOK, ShardingTypeOK
      <4>2. a \in Alive \ {c}
        BY <3>2
      <4>3. \E m \in SendInfo(c, rest) : m.type = "info" /\ m.from = c /\ m.to = a
                                         /\ m.ver = ver[c] + 1
        BY <4>2, InfoSent
      <4>4. \E m \in Infos(c, a)' : m.ver = ver'[c]
        BY <2>1, <2>2, <4>3 DEF Infos
      <4> QED
        BY <1>0, <2>2, <3>2, <4>1, <4>4 DEF ViewOK
    <3> QED
      BY <3>1, <3>2
  <2> QED
    BY <1>0, <2>3, <2>4
<1> QED
  BY <1>3, <1>4 DEF Outcome, QuietOutcome, AnnounceOutcome, WaitOutcome, StandDownOutcome

(* A Sync keeps it: the arc it publishes is the wider one. *)
LEMMA InfoSync ==
    ASSUME Safe, NEW c \in Agents, Sync(c)
    PROVE  /\ \A m \in posts' : m.type = "info" => InfoInFlightOK(m)'
           /\ \A a \in Alive' : \A b \in Agents \ {a} : ViewOK(a, b)'
<1>0. /\ ShardingTypeOK /\ TimesOK /\ Alive \subseteq Agents
      /\ \A m \in posts : m.from \in Agents /\ m.to \in Agents /\ m.at \in Nat
                         /\ (m.type = "info" => m.ver \in Nat)
      /\ ver \in [Agents -> Nat]
  BY InFlight DEF Safe, IInv, ShardingTypeOK, Alive
<1>1. /\ \A m \in posts : m.type = "info" => InfoInFlightOK(m)
      /\ \A a \in Alive : \A b \in Agents \ {a} : ViewOK(a, b)
  BY <1>0, InfoParts DEF Safe, IInv
<1>2. PICK newArc : SyncOutcome(c, newArc)
  BY SyncIs
<1>3. ~IsPending(c)
  BY SyncNotPending
<1>4. /\ arc[c] \subseteq newArc
      /\ ctl' = ctl /\ seen' = seen /\ Alive' = Alive
      /\ arc'[c] = newArc /\ ver'[c] = ver[c] + 1 /\ ver[c] \in Nat
      /\ \A b \in Agents : b # c => arc'[b] = arc[b] /\ ver'[b] = ver[b]
  BY <1>0, <1>2 DEF SyncOutcome, Alive, ShardingTypeOK
<1>5. /\ posts \subseteq posts'
      /\ \A m \in posts' \ posts : m.from = c /\ m.arc = newArc /\ m.ver = ver[c] + 1
      /\ \A a \in Alive \ {c} : \E m \in posts' :
            m.type = "info" /\ m.from = c /\ m.to = a /\ m.ver = ver[c] + 1
  BY <1>2, SyncSends
<1>6. ASSUME NEW m \in posts', m.type = "info" PROVE InfoInFlightOK(m)'
  <2>1. CASE m \in posts
    <3>1. InfoInFlightOK(m) /\ m.from \in Agents /\ m.ver \in Nat
      BY <1>0, <1>1, <1>6, <2>1
    <3> QED
      BY <1>3, <1>4, <3>1 DEF InfoInFlightOK, IsPending
  <2>2. CASE m \notin posts
    BY <1>3, <1>4, <1>5, <2>2 DEF InfoInFlightOK, IsPending
  <2> QED
    BY <2>1, <2>2
<1>7. ASSUME NEW a \in Alive, NEW b \in Agents \ {a} PROVE ViewOK(a, b)'
  <2>1. ViewOK(a, b) /\ seen[a][b].ver \in Nat /\ Infos(b, a) \subseteq Infos(b, a)'
    BY <1>0, <1>1, <1>5 DEF ShardingTypeOK, Infos
  <2>2. CASE b # c
    BY <1>4, <2>1, <2>2 DEF ViewOK
  <2>3. CASE b = c
    <3>1. \E m \in Infos(b, a)' : m.ver = ver'[b]
      BY <1>4, <1>5, <2>3 DEF Infos
    <3> QED
      BY <1>4, <2>1, <2>3, <3>1 DEF ViewOK
  <2> QED
    BY <2>2, <2>3
<1> QED
  BY <1>4, <1>6, <1>7

(* What a reception does to the receiver's view of the sender. *)
ReceiveOutcome(x) ==
    /\ posts' = posts \ {x}
    /\ UNCHANGED <<now, dead, diedAt, arc, ver, ctl, gone, lastGone, lastCheck>>
    /\ Alive' = Alive
    /\ \A b \in Agents : IsPending(b)' = IsPending(b)
    /\ \A a, b \in Agents : (a # x.to \/ b # x.from) =>
          seen'[a][b] = seen[a][b] /\ intents'[a][b] = intents[a][b]
    /\ x.type = "info" =>
          /\ intents' = intents
          /\ seen'[x.to][x.from] =
                IF x.ver > seen[x.to][x.from].ver
                THEN [arc |-> x.arc, ver |-> x.ver] ELSE seen[x.to][x.from]
    /\ x.type # "info" => seen' = seen
    /\ x.type = "intent" /\ x.expires_at > now =>
          intents'[x.to][x.from] = [vacate |-> x.vacate, expires_at |-> x.expires_at]

(* What a Receive does, by the type of the message. *)
LEMMA ReceiveIs ==
    ASSUME Safe, NEW x \in posts, Receive(x)
    PROVE  ReceiveOutcome(x)
<1>0. /\ x.to \in Agents /\ x.from \in Agents /\ ShardingTypeOK
      /\ x.type \in {"info", "intent", "withdraw"}
      /\ seen \in [Agents -> [Agents -> [arc : SUBSET Sectors, ver : Nat]]]
      /\ intents \in [Agents -> [Agents -> Intent]]
  BY InFlight DEF Safe, IInv, ShardingTypeOK
<1>1. /\ posts' = posts \ {x}
      /\ UNCHANGED <<now, dead, diedAt, arc, ver, ctl, gone, lastGone, lastCheck>>
  BY DEF Receive
<1>2. Alive' = Alive /\ \A b \in Agents : IsPending(b)' = IsPending(b)
  BY <1>1 DEF Alive, IsPending
<1>3. CASE ReceiveInfo(x)
  BY <1>0, <1>1, <1>2, <1>3 DEF ReceiveInfo, ReceiveOutcome
<1>4. CASE ReceiveIntent(x)
  BY <1>0, <1>1, <1>2, <1>4 DEF ReceiveIntent, ReceiveOutcome
<1>5. CASE ReceiveWithdraw(x)
  BY <1>0, <1>1, <1>2, <1>5 DEF ReceiveWithdraw, ReceiveOutcome
<1> QED
  BY <1>3, <1>4, <1>5 DEF Receive

(* Receiving keeps InfoOK: the newer info wins. *)
LEMMA InfoReceive ==
    ASSUME Safe, NEW x \in posts, Receive(x)
    PROVE  /\ \A m \in posts' : m.type = "info" => InfoInFlightOK(m)'
           /\ \A a \in Alive' : \A b \in Agents \ {a} : ViewOK(a, b)'
<1>0. /\ ShardingTypeOK /\ TimesOK /\ Alive \subseteq Agents
      /\ \A m \in posts : m.from \in Agents /\ m.to \in Agents /\ m.at \in Nat
                         /\ (m.type = "info" => m.ver \in Nat)
      /\ ver \in [Agents -> Nat]
  BY InFlight DEF Safe, IInv, ShardingTypeOK, Alive
<1>1. /\ \A m \in posts : m.type = "info" => InfoInFlightOK(m)
      /\ \A a \in Alive : \A b \in Agents \ {a} : ViewOK(a, b)
  BY <1>0, InfoParts DEF Safe, IInv
<1>a. ReceiveOutcome(x)
  BY ReceiveIs
<1>2. /\ posts' = posts \ {x} /\ arc' = arc /\ ver' = ver /\ ctl' = ctl
      /\ Alive' = Alive /\ \A b \in Agents : IsPending(b)' = IsPending(b)
  BY <1>a DEF ReceiveOutcome
<1>5. /\ \A a, b \in Agents : (a # x.to \/ b # x.from) => seen'[a][b] = seen[a][b]
      /\ x.type = "info" => seen'[x.to][x.from] =
            IF x.ver > seen[x.to][x.from].ver
            THEN [arc |-> x.arc, ver |-> x.ver] ELSE seen[x.to][x.from]
      /\ x.type # "info" => seen' = seen
  BY <1>a DEF ReceiveOutcome
<1>3. ASSUME NEW m \in posts', m.type = "info" PROVE InfoInFlightOK(m)'
  BY <1>0, <1>1, <1>2, <1>3 DEF InfoInFlightOK
<1>4. ASSUME NEW a \in Alive, NEW b \in Agents \ {a} PROVE ViewOK(a, b)'
  <2>1. /\ ViewOK(a, b) /\ seen[a][b].ver \in Nat /\ ver[b] \in Nat /\ a \in Agents
        /\ Infos(b, a)' = Infos(b, a) \ {x}
    BY <1>0, <1>1, <1>2 DEF ShardingTypeOK, Infos
  <2>2. CASE x.type = "info" /\ x.from = b /\ x.to = a
    <3>1. x.ver \in Nat /\ x.ver <= ver[b] /\ (x.ver = ver[b] => x.arc = arc[b])
      BY <1>0, <1>1, <2>2 DEF InfoInFlightOK
    <3>2. CASE x.ver > seen[a][b].ver
      <4>1. seen'[a][b].ver = x.ver /\ seen'[a][b].arc = x.arc
        BY <1>5, <2>2, <3>2
      <4>2. x.ver < ver[b] => \E m \in Infos(b, a) \ {x} : m.ver = ver[b]
        BY <2>1, <3>1, <3>2 DEF ViewOK
      <4> QED
        BY <1>2, <2>1, <3>1, <4>1, <4>2 DEF ViewOK
    <3>3. CASE x.ver <= seen[a][b].ver
      <4>1. seen'[a][b] = seen[a][b]
        BY <2>1, <2>2, <3>1, <3>3, <1>5
      <4>2. seen[a][b].ver < ver[b] => \E m \in Infos(b, a) \ {x} : m.ver = ver[b]
        BY <2>1, <3>1, <3>3 DEF ViewOK
      <4> QED
        BY <1>2, <2>1, <4>1, <4>2 DEF ViewOK
    <3> QED
      BY <2>1, <3>1, <3>2, <3>3
  <2>3. CASE ~(x.type = "info" /\ x.from = b /\ x.to = a)
    <3>1. seen'[a][b] = seen[a][b]
      BY <1>5, <2>1, <2>3
    <3>2. x \notin Infos(b, a)
      BY <2>3 DEF Infos
    <3> QED
      BY <1>2, <2>1, <3>1, <3>2 DEF ViewOK
  <2> QED
    BY <2>2, <2>3
<1> QED
  BY <1>2, <1>3, <1>4

(* Every step keeps InfoOK. *)
LEMMA InfoKept ==
    ASSUME Safe, [ShardingNext]_shardingVars, ShardingTypeOK', TimesOK'
    PROVE  InfoOK'
<1>0. /\ \A m \in posts : m.from \in Agents /\ m.to \in Agents /\ m.from # m.to
      /\ \A m \in posts' : m.from \in Agents /\ m.to \in Agents
      /\ Alive \subseteq Agents
  <2>1. \A m \in Message : m.from \in Agents /\ m.to \in Agents
    BY MessageFields
  <2> QED
    BY <2>1 DEF Safe, IInv, TimesOK, ShardingTypeOK, Alive
<1>1. /\ \A m \in posts : m.type = "info" => InfoInFlightOK(m)
      /\ \A a \in Alive : \A b \in Agents \ {a} : ViewOK(a, b)
  BY <1>0, InfoParts DEF Safe, IInv
<1> SUFFICES /\ \A m \in posts' : m.type = "info" => InfoInFlightOK(m)'
             /\ \A a \in Alive' : \A b \in Agents \ {a} : ViewOK(a, b)'
  BY <1>0 DEF InfoOK, InfoInFlightOK, ViewOK, Infos
<1>2. CASE \E a \in Agents : Check(a)
  BY <1>2, CheckOutcome, PendingTypes, InfoCheck DEF Safe
<1>3. CASE \E a \in Agents : Sync(a)
  BY <1>3, InfoSync
<1>4. CASE \E x \in posts : Receive(x)
  BY <1>4, InfoReceive
<1>5. CASE \E c \in Agents : Die(c)
  <2>1. PICK c \in Agents : Die(c)
    BY <1>5
  <2>2. /\ posts' = {m \in posts : m.to # c} /\ Alive' = Alive \ {c}
        /\ arc' = arc /\ ver' = ver /\ ctl' = ctl /\ seen' = seen
    BY <2>1 DEF Die, Alive
  <2>3. ASSUME NEW a \in Alive', NEW b \in Agents \ {a} PROVE ViewOK(a, b)'
    <3>1. a \in Alive /\ Infos(b, a) = Infos(b, a)'
      BY <2>2 DEF Infos
    <3> QED
      BY <1>1, <2>2, <3>1 DEF ViewOK
  <2> QED
    BY <1>1, <2>2, <2>3 DEF InfoInFlightOK, IsPending
<1>6. CASE UNCHANGED <<dead, arc, ver, ctl, seen, posts>>
  BY <1>1, <1>6 DEF InfoInFlightOK, ViewOK, Infos, IsPending, Alive
<1> QED
  BY <1>2, <1>3, <1>4, <1>5, <1>6 DEF ShardingNext, Finished, MarkUnresponsive, Tick, shardingVars

----------------------------------------------------------------------------
(* Announcements and withdrawals in flight.                                *)

ShrinkMsgOK(m) ==
    LET b == m.from
    IN  /\ m.at <= lastCheck[b]
        /\ ~IsPending(b) => ctl[b].shrink_acc + m.at <= lastCheck[b]
        /\ m.type = "intent" =>
              /\ m.at + Wait + Wait <= m.expires_at
              /\ IsPending(b) => /\ m.vacate = ctl[b].pending.vacate
                                 /\ m.expires_at = ctl[b].pending.expires_at
        /\ IsPending(b) => m.type = "intent"

(* IntentOK is a condition on each announcement and withdrawal in flight. *)
LEMMA IntentParts ==
    ASSUME \A m \in posts : /\ m.from \in Agents /\ m.to \in Agents
                           /\ m.type \in {"info", "intent", "withdraw"}
    PROVE  IntentOK <=> \A m \in posts : m.type # "info" => ShrinkMsgOK(m)
<1>1. ASSUME IntentOK, NEW m \in posts, m.type # "info" PROVE ShrinkMsgOK(m)
  <2>1. /\ m.from \in Agents /\ m.to \in Agents
        /\ m.type = "intent" => m \in IntentMsgs(m.from, m.to)
        /\ m.type # "intent" => m \in Withdrawals(m.from, m.to)
    BY <1>1 DEF IntentMsgs, Withdrawals
  <2> QED
    BY <1>1, <2>1 DEF IntentOK, ShrinkMsgOK
<1>2. ASSUME \A m \in posts : m.type # "info" => ShrinkMsgOK(m)
      PROVE  IntentOK
  BY <1>2 DEF IntentOK, ShrinkMsgOK, IntentMsgs, Withdrawals
<1> QED
  BY <1>1, <1>2

(* A check keeps it: it announces only when the old messages are in. *)
LEMMA IntentCheck ==
    ASSUME Safe, NEW c \in Agents, Framed(c), Outcome(c),
           NEW m \in posts', m.type # "info"
    PROVE  ShrinkMsgOK(m)'
<1>0. /\ ShardingTypeOK /\ TimesOK /\ now \in Nat /\ Wait \in Nat
      /\ lastCheck[c] \in Nat /\ lastCheck[c] < now /\ lastCheck'[c] = now
      /\ ctl[c].shrink_acc \in Nat /\ ctl'[c].shrink_acc \in Nat
      /\ ctl[c].pending.expires_at \in Nat
  BY Parameters, ControlFields DEF Safe, IInv, ShardingTypeOK, Framed, AgentControl
<1>1. \A x \in posts : x.type # "info" => ShrinkMsgOK(x)
  BY IntentParts, InFlight DEF Safe, IInv
<1>2. CASE m.from # c
  <2>1. m \in posts /\ m.from \in Agents
    BY <1>0, <1>2, SentNow, InFlight
  <2> QED
    BY <1>0, <1>1, <1>2, <2>1, OthersUntouched DEF ShrinkMsgOK
<1>3. CASE m.from = c /\ m \in posts
  <2>1. ShrinkMsgOK(m) /\ m.at \in Nat /\ m.at <= lastCheck[c]
    BY <1>0, <1>1, <1>3, InFlight DEF ShrinkMsgOK
  <2>2. CASE QuietOutcome(c)
    BY <1>0, <1>3, <2>1, <2>2 DEF QuietOutcome, ShrinkMsgOK, AccBound, IsPending
  <2>3. CASE AnnounceOutcome(c)
    BY <1>3, <2>3, FreshAnnounce
  <2>4. CASE ExecuteOutcome(c) \/ StandDownOutcome(c)
    BY <1>0, <1>3, <2>1, <2>4 DEF ExecuteOutcome, StandDownOutcome, ShrinkMsgOK
  <2>5. CASE WaitOutcome(c)
    <3>1. IsPending(c) /\ ctl'[c].pending.vacate = ctl[c].pending.vacate
      BY <2>5 DEF WaitOutcome
    <3>2. m.type = "intent"
      BY <1>3, <2>1, <3>1 DEF ShrinkMsgOK
    <3>3. ctl'[c].pending.expires_at = ctl[c].pending.expires_at
      BY <1>3, <2>5, <3>1, <3>2, FreshRefresh DEF WaitOutcome
    <3>4. IsPending(c)'
      <4>1. ctl'[c].pending.execute_at = now + 1
        BY <2>5 DEF WaitOutcome
      <4> QED
        BY <1>0, <4>1 DEF IsPending, NoPending
    <3> QED
      BY <1>0, <1>3, <2>1, <3>1, <3>2, <3>3, <3>4 DEF ShrinkMsgOK
  <2> QED
    BY <2>2, <2>3, <2>4, <2>5 DEF Outcome
<1>4. CASE m.from = c /\ m \notin posts
  <2>1. m.at = now
    BY <1>4, SentNow
  <2>2. CASE m.type = "intent" /\ AnnounceOutcome(c)
    <3> DEFINE range == VacateHalf(Home[c], ctl'[c].declared_level)
               expiry == now + Wait + Wait
    <3>1. m \in SendIntent("intent", c, range, expiry)
      BY <1>4, <2>2 DEF AnnounceOutcome
    <3>2. ctl'[c].pending = [execute_at |-> now + Wait, vacate |-> range,
                             expires_at |-> expiry]
      BY <2>2 DEF AnnounceOutcome
    <3> HIDE DEF range
    <3>3. m.vacate = range /\ m.expires_at = expiry
      BY <1>0, <3>1, IntentSent
    <3>4. IsPending(c)'
      <4>1. Wait > 0
        BY Parameters DEF Safe, WellTimed
      <4> QED
        BY <1>0, <3>2, <4>1 DEF IsPending, NoPending
    <3> QED
      BY <1>0, <1>4, <2>1, <2>2, <3>2, <3>3, <3>4 DEF ShrinkMsgOK
  <2>3. CASE m.type = "intent" /\ WaitOutcome(c)
    <3>1. /\ ctl'[c].pending.vacate = ctl[c].pending.vacate
          /\ ctl'[c].pending.execute_at = now + 1
          /\ ctl'[c].pending.expires_at = now + 1 + Wait + Wait
          /\ m \in SendIntent("intent", c, ctl[c].pending.vacate,
                              ctl'[c].pending.expires_at)
      BY <1>4, <2>3 DEF WaitOutcome
    <3>2. m.vacate = ctl[c].pending.vacate
          /\ m.expires_at = ctl'[c].pending.expires_at
      BY <1>0, <3>1, IntentSent
    <3>3. IsPending(c)'
      BY <1>0, <3>1 DEF IsPending, NoPending
    <3> QED
      BY <1>0, <1>4, <2>1, <2>3, <3>1, <3>2, <3>3 DEF ShrinkMsgOK
  <2>4. CASE m.type = "withdraw" /\ StandDownOutcome(c)
    BY <1>0, <1>4, <2>1, <2>4 DEF StandDownOutcome, ShrinkMsgOK
  <2> QED
    BY <1>0, <1>4, <2>2, <2>3, <2>4, SentKinds
<1> QED
  BY <1>2, <1>3, <1>4

(* Every step keeps IntentOK. *)
LEMMA IntentKept ==
    ASSUME Safe, [ShardingNext]_shardingVars, ShardingTypeOK'
    PROVE  IntentOK'
<1>0. \A m \in Message : /\ m.from \in Agents /\ m.to \in Agents
                         /\ m.type \in {"info", "intent", "withdraw"}
  BY MessageFields
<1>1. \A x \in posts : x.type # "info" => ShrinkMsgOK(x)
  BY IntentParts, InFlight DEF Safe, IInv
<1> SUFFICES \A m \in posts' : m.type # "info" => ShrinkMsgOK(m)'
  <2>1. \A m \in posts' : /\ m.from \in Agents /\ m.to \in Agents
                         /\ m.type \in {"info", "intent", "withdraw"}
    BY <1>0 DEF ShardingTypeOK
  <2> QED
    BY <2>1 DEF IntentOK, ShrinkMsgOK, IntentMsgs, Withdrawals
<1>2. CASE \E a \in Agents : Check(a)
  BY <1>2, CheckOutcome, PendingTypes, IntentCheck DEF Safe
<1>3. CASE \E a \in Agents : Sync(a)
  <2>1. ctl' = ctl /\ lastCheck' = lastCheck
        /\ \A m \in posts' : m.type # "info" => m \in posts
    BY <1>3, SyncIs, SyncSends DEF SyncOutcome
  <2> QED
    BY <1>1, <2>1 DEF ShrinkMsgOK, IsPending
<1>4. CASE UNCHANGED <<ctl, lastCheck>> /\ posts' \subseteq posts
  BY <1>1, <1>4 DEF ShrinkMsgOK, IsPending
<1> QED
  BY <1>2, <1>3, <1>4 DEF ShardingNext, Finished, Receive, Die, MarkUnresponsive, Tick, shardingVars

----------------------------------------------------------------------------
(* A pending shrink is known, or about to be known, to every peer.         *)

Visible(a, b) ==
    \/ intents[a][b] = [vacate |-> ctl[b].pending.vacate,
                        expires_at |-> ctl[b].pending.expires_at]
    \/ \E m \in IntentMsgs(b, a) :
          \/ m.at + Wait <= ctl[b].pending.execute_at
          \/ /\ intents[a][b].vacate = ctl[b].pending.vacate
             /\ intents[a][b].expires_at > m.at + Lag

(* VisibleOK, pair by pair. *)
LEMMA VisibleParts ==
    VisibleOK <=> \A a \in Alive : \A b \in Agents \ {a} :
                     IsPending(b) /\ b \in Alive => Visible(a, b)
  BY DEF VisibleOK, Visible

(* The table entry of a peer whose shrink is pending survives a purge. *)
LEMMA PurgeKeepsVisible ==
    ASSUME Safe, NEW a \in Alive, NEW b \in Alive \ {a}, IsPending(b),
           Visible(a, b), Framed(a), Outcome(a)
    PROVE  Visible(a, b)'
<1>0. /\ a \in Agents /\ b \in Agents /\ ShardingTypeOK /\ TimesOK /\ now \in Nat
      /\ Lag \in Nat
  BY Parameters DEF Alive, Safe, IInv, ShardingTypeOK
<1>1. /\ ctl'[b] = ctl[b]
      /\ IntentMsgs(b, a)' = IntentMsgs(b, a)
  <2>1. /\ ctl'[b] = ctl[b] /\ posts \subseteq posts'
        /\ \A m \in posts' : m.from = b => m \in posts
    BY <1>0, OthersUntouched
  <2> QED
    BY <2>1 DEF IntentMsgs
<1>2. intents[a][b].expires_at > now => intents'[a][b] = intents[a][b]
  BY <1>0 DEF Framed
<1>3. CASE intents[a][b] = [vacate |-> ctl[b].pending.vacate,
                            expires_at |-> ctl[b].pending.expires_at]
  <2>1. ctl[b].pending.expires_at > now + Lag /\ ctl[b].pending.expires_at \in Nat
    BY <1>0, IntentOutlasts, ControlFields
  <2>2. intents[a][b].expires_at > now
    BY <1>0, <1>3, <2>1
  <2> QED
    BY <1>1, <1>2, <1>3, <2>2 DEF Visible
<1>4. CASE \E m \in IntentMsgs(b, a) : m.at + Wait <= ctl[b].pending.execute_at
  BY <1>1, <1>4 DEF Visible
<1>5. CASE \E m \in IntentMsgs(b, a) :
             /\ intents[a][b].vacate = ctl[b].pending.vacate
             /\ intents[a][b].expires_at > m.at + Lag
  <2>1. PICK m \in IntentMsgs(b, a) :
             /\ intents[a][b].vacate = ctl[b].pending.vacate
             /\ intents[a][b].expires_at > m.at + Lag
    BY <1>5
  <2>2. m.at \in Nat /\ now <= m.at + Lag
    BY <1>0, InFlight DEF IntentMsgs
  <2>3. intents[a][b].expires_at \in Nat
    BY <1>0 DEF ShardingTypeOK, Intent
  <2>4. intents[a][b].expires_at > now
    BY <1>0, <2>1, <2>2, <2>3
  <2> QED
    BY <1>1, <1>2, <2>1, <2>4 DEF Visible
<1> QED
  BY <1>3, <1>4, <1>5 DEF Visible

(* An agent's own check keeps its pending shrink visible to the others. *)
LEMMA OwnCheckVisible ==
    ASSUME Safe, NEW b \in Alive, NEW a \in Alive \ {b}, Framed(b), Outcome(b),
           IsPending(b)', IsPending(b) => Visible(a, b)
    PROVE  Visible(a, b)'
<1>0. /\ a \in Agents /\ b \in Agents /\ ShardingTypeOK /\ TimesOK /\ now \in Nat
      /\ Lag \in Nat /\ Wait \in Nat /\ ctl[b].pending.execute_at \in Nat
  BY Parameters, ControlFields DEF Alive, Safe, IInv, ShardingTypeOK
<1>1. intents'[a] = intents[a]
  BY <1>0, OthersUntouched
<1>2. posts \subseteq posts' /\ IntentMsgs(b, a) \subseteq IntentMsgs(b, a)'
  BY <1>0, SentNow DEF IntentMsgs
<1>3. CASE QuietOutcome(b)
  BY <1>1, <1>2, <1>3 DEF QuietOutcome, Visible
<1>4. CASE AnnounceOutcome(b)
  <2> DEFINE range == VacateHalf(Home[b], ctl'[b].declared_level)
             expiry == now + Wait + Wait
  <2>1. /\ posts' = posts \cup SendIntent("intent", b, range, expiry)
        /\ ctl'[b].pending.execute_at = now + Wait
    BY <1>4 DEF AnnounceOutcome
  <2> HIDE DEF range, expiry
  <2>2. \E m \in SendIntent("intent", b, range, expiry) :
           m.type = "intent" /\ m.from = b /\ m.to = a /\ m.at = now
    BY <1>0, IntentSent
  <2>3. \E m \in IntentMsgs(b, a)' : m.at = now
    BY <2>1, <2>2 DEF IntentMsgs
  <2> QED
    BY <1>0, <2>1, <2>3 DEF Visible
<1>5. CASE WaitOutcome(b)
  <2>1. /\ IsPending(b) /\ Visible(a, b) /\ now >= ctl[b].pending.execute_at
        /\ ctl'[b].pending.vacate = ctl[b].pending.vacate
        /\ ctl'[b].pending.execute_at = now + 1
    BY <1>5 DEF WaitOutcome
  <2>2. CASE ctl'[b].pending.expires_at = ctl[b].pending.expires_at
    <3>1. \A m \in IntentMsgs(b, a) : m.at \in Nat
      BY <1>0, InFlight DEF IntentMsgs
    <3> QED
      BY <1>0, <1>1, <1>2, <2>1, <2>2, <3>1 DEF Visible
  <2>3. CASE /\ ctl[b].pending.expires_at < now + 1 + Wait
             /\ posts' = posts \cup SendIntent("intent", b, ctl[b].pending.vacate,
                                             ctl'[b].pending.expires_at)
    <3>1. IntentMsgs(b, a) = {}
      BY <2>1, <2>3, FreshRefresh, <1>0 DEF IntentMsgs
    <3>2. intents[a][b] = [vacate |-> ctl[b].pending.vacate,
                           expires_at |-> ctl[b].pending.expires_at]
      BY <2>1, <3>1 DEF Visible
    <3>3. ctl[b].pending.expires_at > now + Lag
      BY <2>1, IntentOutlasts
    <3>4. \E m \in SendIntent("intent", b, ctl[b].pending.vacate,
                              ctl'[b].pending.expires_at) :
             m.type = "intent" /\ m.from = b /\ m.to = a /\ m.at = now
      BY <1>0, IntentSent
    <3>5. \E m \in IntentMsgs(b, a)' : m.at = now
      BY <2>3, <3>4 DEF IntentMsgs
    <3> QED
      BY <1>1, <2>1, <3>2, <3>3, <3>5 DEF Visible
  <2> QED
    BY <1>5, <2>2, <2>3 DEF WaitOutcome
<1>6. CASE ExecuteOutcome(b) \/ StandDownOutcome(b)
  BY <1>6 DEF ExecuteOutcome, StandDownOutcome
<1> QED
  BY <1>3, <1>4, <1>5, <1>6 DEF Outcome

(* Every step keeps each pending shrink visible to every live peer. *)
LEMMA VisibleKept ==
    ASSUME Safe, [ShardingNext]_shardingVars
    PROVE  VisibleOK'
<1>0. /\ ShardingTypeOK /\ TimesOK /\ Alive \subseteq Agents /\ now \in Nat
      /\ Lag \in Nat /\ Wait \in Nat
      /\ \A m \in posts : m.from \in Agents /\ m.to \in Agents
  BY Parameters, InFlight DEF Safe, IInv, ShardingTypeOK, Alive
<1>1. \A a \in Alive : \A b \in Agents \ {a} :
         IsPending(b) /\ b \in Alive => Visible(a, b)
  BY VisibleParts DEF Safe, IInv
<1> SUFFICES ASSUME NEW a \in Alive', NEW b \in Agents \ {a}, IsPending(b)', b \in Alive'
             PROVE  Visible(a, b)'
  BY DEF VisibleOK, Visible
<1>2. CASE \E c \in Agents : Check(c)
  <2>1. PICK c \in Agents : Framed(c) /\ Outcome(c)
    BY <1>2, CheckOutcome, PendingTypes DEF Safe
  <2>2. Alive' = Alive /\ c \in Alive
    BY <2>1 DEF Framed, Alive
  <2>3. CASE c = b
    BY <1>0, <1>1, <2>1, <2>2, <2>3, OwnCheckVisible
  <2>4. CASE c = a
    <3>1. IsPending(b)
      BY <1>0, <2>1, <2>4, OthersUntouched
    <3> QED
      BY <1>1, <2>1, <2>2, <2>4, <3>1, PurgeKeepsVisible
  <2>5. CASE c # a /\ c # b
    <3>1. /\ IsPending(b) /\ ctl'[b] = ctl[b] /\ intents'[a] = intents[a]
          /\ posts \subseteq posts'
      BY <1>0, <2>1, <2>2, <2>5, OthersUntouched
    <3>2. IntentMsgs(b, a) \subseteq IntentMsgs(b, a)'
      BY <3>1 DEF IntentMsgs
    <3>3. Visible(a, b)
      BY <1>1, <2>2, <3>1
    <3> QED
      BY <3>1, <3>2, <3>3 DEF Visible
  <2> QED
    BY <2>3, <2>4, <2>5
<1>3. CASE \E x \in posts : Receive(x)
  <2>1. PICK x \in posts : ReceiveOutcome(x)
    BY <1>3, ReceiveIs
  <2>2. /\ posts' = posts \ {x} /\ ctl' = ctl /\ now' = now
        /\ IsPending(b) /\ a \in Alive /\ b \in Alive /\ a \in Agents
    BY <1>0, <2>1 DEF ReceiveOutcome
  <2>3. Visible(a, b)
    BY <1>1, <2>2
  <2>4. CASE x.from = b /\ x.to = a /\ x.type # "info"
    <3>1. ShrinkMsgOK(x) /\ x.at \in Nat /\ now <= x.at + Lag /\ x.expires_at \in Nat
      BY <2>4, IntentParts, InFlight DEF Safe, IInv
    <3>2. /\ x.type = "intent" /\ x.vacate = ctl[b].pending.vacate
          /\ x.expires_at = ctl[b].pending.expires_at
          /\ x.at + Wait + Wait <= x.expires_at
      BY <2>2, <2>4, <3>1 DEF ShrinkMsgOK
    <3>3. x.expires_at > now
      BY <1>0, <3>1, <3>2, Parameters DEF Safe, WellTimed
    <3>4. intents'[a][b] = [vacate |-> x.vacate, expires_at |-> x.expires_at]
      BY <2>1, <2>4, <3>2, <3>3 DEF ReceiveOutcome
    <3> QED
      BY <2>2, <3>2, <3>4 DEF Visible
  <2>5. CASE ~(x.from = b /\ x.to = a /\ x.type # "info")
    <3>1. intents'[a][b] = intents[a][b]
      BY <2>1, <2>2, <2>5 DEF ReceiveOutcome
    <3>2. IntentMsgs(b, a)' = IntentMsgs(b, a)
      BY <2>2, <2>5 DEF IntentMsgs
    <3> QED
      BY <2>2, <2>3, <3>1, <3>2 DEF Visible
  <2> QED
    BY <2>4, <2>5
<1>4. CASE /\ UNCHANGED <<ctl, intents>> /\ Alive' \subseteq Alive
           /\ \A m \in posts : m.to \in Alive' => m \in posts'
  <2>1. /\ IsPending(b) /\ Visible(a, b)
        /\ IntentMsgs(b, a) \subseteq IntentMsgs(b, a)'
    BY <1>1, <1>4 DEF IsPending, IntentMsgs
  <2> QED
    BY <1>4, <2>1 DEF Visible
<1>5. CASE \E c \in Agents : Sync(c)
  <2>1. /\ UNCHANGED <<ctl, intents>> /\ Alive' \subseteq Alive
        /\ posts \subseteq posts'
    BY <1>5, SyncIs, SyncSends DEF SyncOutcome, Alive
  <2> QED
    BY <1>4, <2>1
<1>6. CASE \E c \in Agents : Die(c)
  BY <1>4, <1>6 DEF Die, Alive
<1>7. CASE Tick \/ (\E c, d \in Agents : MarkUnresponsive(c, d)) \/ UNCHANGED shardingVars
  BY <1>4, <1>7 DEF Tick, MarkUnresponsive, shardingVars, Alive
<1> QED
  BY <1>2, <1>3, <1>5, <1>6, <1>7 DEF ShardingNext, Finished

----------------------------------------------------------------------------
(* What a peer has dropped and is still seen to declare is announced.      *)

Phantom(a, b) == seen[a][b].arc \ arc[b]

Announced(a, b, m) ==
    LET t == intents[a][b]
    IN  /\ m.ver > seen[a][b].ver
        /\ ~IsPending(b)
        /\ ctl[b].shrink_acc + m.at <= lastCheck[b]
        /\ t.vacate \subseteq seen[a][b].arc
        /\ Phantom(a, b) \subseteq t.vacate
        /\ \/ t.expires_at > m.at + Lag
           \/ \E i \in IntentMsgs(b, a) : t.expires_at > i.at + Lag
        /\ \A i \in IntentMsgs(b, a) :
              i.vacate = t.vacate /\ i.expires_at > m.at + Lag
        /\ Withdrawals(b, a) = {}

(* PhantomOK, pair by pair. *)
LEMMA PhantomParts ==
    PhantomOK <=> \A a \in Alive : \A b \in Agents \ {a} :
                     Phantom(a, b) # {} => \E m \in Infos(b, a) : Announced(a, b, m)
  BY DEF PhantomOK, Phantom, Announced

(* Such an announcement has not lapsed. *)
LEMMA AnnouncedLives ==
    ASSUME Safe, NEW a \in Alive, NEW b \in Agents \ {a}, NEW m \in Infos(b, a),
           Announced(a, b, m)
    PROVE  intents[a][b].expires_at > now
<1>1. /\ ShardingTypeOK /\ TimesOK /\ now \in Nat /\ Lag \in Nat /\ a \in Agents
  BY Parameters DEF Safe, IInv, ShardingTypeOK, Alive
<1>2. intents[a][b].expires_at \in Nat
  BY <1>1 DEF ShardingTypeOK, Intent
<1>3. \A i \in IntentMsgs(b, a) \cup {m} : i.at \in Nat /\ now <= i.at + Lag
  BY <1>1, InFlight DEF IntentMsgs, Infos
<1> QED
  BY <1>1, <1>2, <1>3 DEF Announced

(* The moment of the drop: everyone saw the agent hold exactly its block,  *)
(* and everyone has its intent.                                            *)
LEMMA DropAnnounced ==
    ASSUME Safe, NEW b \in Alive, NEW a \in Alive \ {b}, Framed(b),
           ExecuteOutcome(b), ShardingTypeOK'
    PROVE  \E m \in Infos(b, a)' : Announced(a, b, m)'
<1> DEFINE level == ctl[b].declared_level
           rest == BlockArc(Home[b], level - 1)
           p == ctl[b].pending
           t == intents[a][b]
<1>0. /\ a \in Agents /\ b \in Agents /\ ShardingTypeOK /\ TimesOK /\ now \in Nat
      /\ Lag \in Nat /\ Wait \in Nat /\ Stall \in Nat /\ p.execute_at \in Nat
      /\ p.expires_at \in Nat /\ level \in Levels
      /\ ver[b] \in Nat /\ Home[b] \in Sectors
  BY Parameters, ControlFields, HomeAssumption DEF Alive, Safe, IInv, ShardingTypeOK
<1>1. /\ IsPending(b) /\ now >= p.execute_at /\ ~IsPending(b)'
      /\ ctl'[b].shrink_acc = 0 /\ arc'[b] = rest
      /\ posts' = posts \cup SendInfo(b, rest)
      /\ seen' = seen /\ now' = now /\ lastCheck'[b] = now
      /\ intents'[a][b] = t
  <2>1. intents'[a] = intents[a]
    BY <1>0, OthersUntouched DEF Outcome
  <2> QED
    BY <1>0, <2>1 DEF ExecuteOutcome, Framed, ShardingTypeOK
<1>2. /\ arc[b] = BlockArc(Home[b], level) /\ level > 0
      /\ p.vacate = VacateHalf(Home[b], level)
  BY <1>0, <1>1 DEF Safe, IInv, PendingOK
<1>3. p.vacate \subseteq arc[b] /\ arc[b] \ rest = p.vacate
  BY <1>0, <1>2, VacateIsDropped
<1>4. seen[a][b].arc = arc[b] /\ seen[a][b].ver = ver[b]
  <2>1. Infos(b, a) = {}
    BY <1>0, <1>1, NoInfoWhenDue DEF Infos
  <2>2. ViewOK(a, b)
    BY <1>0, InfoParts, InFlight DEF Safe, IInv
  <2>3. seen[a][b].ver \in Nat
    BY <1>0 DEF ShardingTypeOK
  <2> QED
    BY <1>0, <2>1, <2>2, <2>3 DEF ViewOK
<1>5. p.expires_at > now + Lag
  BY <1>1, IntentOutlasts
<1>6. /\ t.vacate = p.vacate
      /\ t.expires_at > now + Lag \/ \E i \in IntentMsgs(b, a) : t.expires_at > i.at + Lag
  <2>1. Visible(a, b)
    BY <1>0, <1>1, VisibleParts DEF Safe, IInv
  <2>2. ASSUME NEW i \in IntentMsgs(b, a), i.at + Wait <= p.execute_at PROVE FALSE
    <3>1. i.at \in Nat /\ now <= i.at + Lag
      BY <1>0, InFlight DEF IntentMsgs
    <3> QED
      BY <1>0, <1>1, <2>2, <3>1 DEF Safe, WellTimed
  <2> QED
    BY <1>5, <2>1, <2>2 DEF Visible
<1>7. /\ \A i \in IntentMsgs(b, a) : i.vacate = p.vacate /\ i.expires_at = p.expires_at
      /\ Withdrawals(b, a) = {}
  BY <1>0, <1>1 DEF Safe, IInv, IntentOK
<1>8. PICK m \in SendInfo(b, rest) :
         /\ m.type = "info" /\ m.from = b /\ m.to = a
         /\ m.at = now /\ m.ver = ver[b] + 1
  BY <1>0, InfoSent
<1>9. m \in Infos(b, a)'
  BY <1>1, <1>8 DEF Infos
<1>10. IntentMsgs(b, a)' = IntentMsgs(b, a) /\ Withdrawals(b, a)' = Withdrawals(b, a)
  <2>1. \A x \in SendInfo(b, rest) : x.type = "info"
    BY <1>0, InfoSent
  <2> QED
    BY <1>1, <2>1 DEF IntentMsgs, Withdrawals
<1> HIDE DEF rest, level, p, t
<1>11. Phantom(a, b)' \subseteq p.vacate /\ p.vacate \subseteq seen[a][b].arc
  BY <1>1, <1>3, <1>4 DEF Phantom
<1>12. Announced(a, b, m)'
  BY <1>0, <1>1, <1>4, <1>5, <1>6, <1>7, <1>8, <1>10, <1>11 DEF Announced
<1> QED
  BY <1>9, <1>12

(* A check keeps it: a dropped half is one the peers know to be announced. *)
LEMMA PhantomCheck ==
    ASSUME Safe, NEW c \in Agents, Framed(c), Outcome(c), ShardingTypeOK',
           NEW a \in Alive, NEW b \in Agents \ {a}, Phantom(a, b)' # {}
    PROVE  \E m \in Infos(b, a)' : Announced(a, b, m)'
<1>0. /\ ShardingTypeOK /\ TimesOK /\ a \in Agents /\ now \in Nat /\ c \in Alive
      /\ lastCheck[b] \in Nat /\ ctl[b].shrink_acc \in Nat /\ seen' = seen
      /\ \A m \in posts : m.at \in Nat
  BY ControlFields, InFlight DEF Safe, IInv, ShardingTypeOK, Alive, Framed
<1>1. CASE c = b /\ ExecuteOutcome(b)
  BY <1>0, <1>1, DropAnnounced
<1>2. CASE ~(c = b /\ ExecuteOutcome(b))
  <2>1. arc'[b] = arc[b]
    BY <1>0, <1>2, OthersUntouched DEF Outcome, QuietOutcome, AnnounceOutcome,
       WaitOutcome, StandDownOutcome
  <2>2. Phantom(a, b)' = Phantom(a, b)
    BY <1>0, <2>1 DEF Phantom
  <2>3. PICK m \in Infos(b, a) : Announced(a, b, m)
    BY <2>2, PhantomParts DEF Safe, IInv
  <2>4. m \in Infos(b, a)' /\ m.at \in Nat
    BY <1>0, SentNow DEF Infos
  <2>5. CASE c = b
    <3>1. QuietOutcome(b) /\ ~IsPending(b) /\ ~IsPending(b)' /\ AccBound(b)
      <4>1. ~IsPending(b) /\ ctl[b].shrink_acc + m.at <= lastCheck[b]
        BY <2>3 DEF Announced
      <4>2. ~AnnounceOutcome(b)
        BY <1>0, <2>4, <2>5, <4>1, FreshAnnounce DEF Infos
      <4> QED
        BY <1>2, <2>5, <4>1, <4>2 DEF Outcome, WaitOutcome, StandDownOutcome,
           QuietOutcome
    <3>2. /\ lastCheck'[b] = now /\ now > lastCheck[b] /\ intents'[a] = intents[a]
          /\ ctl'[b].shrink_acc \in Nat
      BY <1>0, <2>5, OthersUntouched DEF Framed, ShardingTypeOK, AgentControl
    <3>3. ctl'[b].shrink_acc + m.at <= lastCheck'[b]
      BY <1>0, <2>3, <2>4, <3>1, <3>2 DEF Announced, AccBound
    <3>4. IntentMsgs(b, a)' = IntentMsgs(b, a) /\ Withdrawals(b, a)' = Withdrawals(b, a)
      BY <3>1 DEF QuietOutcome, IntentMsgs, Withdrawals
    <3> QED
      BY <1>0, <2>2, <2>3, <2>4, <3>1, <3>2, <3>3, <3>4 DEF Announced
  <2>6. CASE c # b
    <3>1. /\ ctl'[b] = ctl[b] /\ lastCheck'[b] = lastCheck[b]
          /\ IsPending(b)' = IsPending(b) /\ posts \subseteq posts'
          /\ \A x \in posts' : x.from = b => x \in posts
      BY <1>0, <2>6, OthersUntouched
    <3>2. IntentMsgs(b, a)' = IntentMsgs(b, a) /\ Withdrawals(b, a)' = Withdrawals(b, a)
      BY <3>1 DEF IntentMsgs, Withdrawals
    <3>3. intents'[a][b] = intents[a][b]
      <4>1. CASE c = a
        <5>1. intents[a][b].expires_at > now
          BY <2>3, AnnouncedLives
        <5> QED
          BY <4>1, <5>1 DEF Framed
      <4>2. CASE c # a
        BY <1>0, <4>2, OthersUntouched
      <4> QED
        BY <4>1, <4>2
    <3> QED
      BY <1>0, <2>2, <2>3, <2>4, <3>1, <3>2, <3>3 DEF Announced
  <2> QED
    BY <2>5, <2>6
<1> QED
  BY <1>1, <1>2

(* Receiving keeps it: what arrives cannot remove the intent too early. *)
LEMMA PhantomReceive ==
    ASSUME Safe, NEW x \in posts, Receive(x),
           NEW a \in Alive, NEW b \in Agents \ {a}, Phantom(a, b)' # {}
    PROVE  \E m \in Infos(b, a)' : Announced(a, b, m)'
<1>0. /\ ShardingTypeOK /\ TimesOK /\ a \in Agents /\ now \in Nat
      /\ Lag \in Nat /\ Wait \in Nat
      /\ x.at \in Nat /\ now <= x.at + Lag
      /\ seen[a][b].ver \in Nat
      /\ x.type \in {"info", "intent", "withdraw"}
      /\ x.type = "info" => x.ver \in Nat
      /\ x.type # "info" => x.expires_at \in Nat
  BY Parameters, InFlight DEF Safe, IInv, ShardingTypeOK, Alive
<1>1. ReceiveOutcome(x)
  BY ReceiveIs
<1>2. /\ posts' = posts \ {x} /\ ctl' = ctl /\ arc' = arc /\ now' = now
      /\ lastCheck' = lastCheck /\ IsPending(b)' = IsPending(b)
      /\ IntentMsgs(b, a)' = IntentMsgs(b, a) \ {x}
      /\ Withdrawals(b, a)' = Withdrawals(b, a) \ {x}
      /\ Infos(b, a)' = Infos(b, a) \ {x}
  BY <1>1 DEF ReceiveOutcome, IntentMsgs, Withdrawals, Infos
<1>3. seen'[a][b] = seen[a][b]
  <2>1. CASE x.type = "info" /\ x.from = b /\ x.to = a /\ x.ver > seen[a][b].ver
    <3>1. seen'[a][b].arc = x.arc
      BY <1>1, <2>1 DEF ReceiveOutcome
    <3>2. x.arc \subseteq arc[b]
      BY <1>0, <2>1, InfoParts, InFlight DEF Safe, IInv, InfoInFlightOK
    <3> QED
      BY <1>2, <3>1, <3>2 DEF Phantom
  <2>2. CASE ~(x.type = "info" /\ x.from = b /\ x.to = a /\ x.ver > seen[a][b].ver)
    BY <1>0, <1>1, <2>2 DEF ReceiveOutcome
  <2> QED
    BY <2>1, <2>2
<1>4. Phantom(a, b)' = Phantom(a, b)
  BY <1>2, <1>3 DEF Phantom
<1>5. PICK m \in Infos(b, a) : Announced(a, b, m)
  BY <1>4, PhantomParts DEF Safe, IInv
<1>6. CASE x = m
  <2>1. x.type = "info" /\ x.from = b /\ x.to = a /\ x.ver > seen[a][b].ver
    BY <1>5, <1>6 DEF Infos, Announced
  <2>2. seen'[a][b].ver = x.ver
    BY <1>1, <2>1 DEF ReceiveOutcome
  <2> QED
    BY <1>0, <1>3, <2>1, <2>2
<1>7. CASE x # m /\ x \in IntentMsgs(b, a)
  <2>1. /\ x.vacate = intents[a][b].vacate /\ x.expires_at > m.at + Lag
        /\ x.type = "intent" /\ x.from = b /\ x.to = a
    BY <1>5, <1>7 DEF Announced, IntentMsgs
  <2>2. m.at \in Nat /\ now <= m.at + Lag
    BY <1>0, InFlight DEF Infos
  <2>3. x.expires_at > now
    BY <1>0, <2>1, <2>2
  <2>4. intents'[a][b] = [vacate |-> x.vacate, expires_at |-> x.expires_at]
    BY <1>1, <2>1, <2>3 DEF ReceiveOutcome
  <2>5. Announced(a, b, m)'
    BY <1>2, <1>3, <1>4, <1>5, <2>1, <2>4 DEF Announced
  <2> QED
    BY <1>2, <1>5, <1>7, <2>5
<1>8. CASE x # m /\ x \notin IntentMsgs(b, a)
  <2>1. x \notin Withdrawals(b, a)
    BY <1>5 DEF Announced
  <2>2. intents'[a][b] = intents[a][b]
    BY <1>0, <1>1, <1>8, <2>1 DEF ReceiveOutcome, IntentMsgs, Withdrawals
  <2>3. Announced(a, b, m)'
    BY <1>2, <1>3, <1>4, <1>5, <1>8, <2>2 DEF Announced
  <2> QED
    BY <1>2, <1>5, <1>8, <2>3
<1> QED
  BY <1>6, <1>7, <1>8

(* Every step keeps PhantomOK. *)
LEMMA PhantomKept ==
    ASSUME Safe, [ShardingNext]_shardingVars, ShardingTypeOK'
    PROVE  PhantomOK'
<1> SUFFICES ASSUME NEW a \in Alive', NEW b \in Agents \ {a}, Phantom(a, b)' # {}
             PROVE  \E m \in Infos(b, a)' : Announced(a, b, m)'
  BY DEF PhantomOK, Phantom, Announced
<1>1. \A x \in Alive : \A y \in Agents \ {x} :
         Phantom(x, y) # {} => \E m \in Infos(y, x) : Announced(x, y, m)
  BY PhantomParts DEF Safe, IInv
<1>2. CASE \E c \in Agents : Check(c)
  <2>1. PICK c \in Agents : Framed(c) /\ Outcome(c)
    BY <1>2, CheckOutcome, PendingTypes DEF Safe
  <2>2. a \in Alive
    BY <2>1 DEF Framed, Alive
  <2> QED
    BY <2>1, <2>2, PhantomCheck
<1>3. CASE \E x \in posts : Receive(x)
  <2>1. a \in Alive
    BY <1>3 DEF Receive, Alive
  <2> QED
    BY <1>3, <2>1, PhantomReceive
<1>4. CASE /\ UNCHANGED <<ctl, intents, seen, lastCheck>> /\ Alive' \subseteq Alive
           /\ arc[b] \subseteq arc'[b]
           /\ \A m \in posts : m.to = a => m \in posts'
           /\ \A m \in posts' : m.type # "info" => m \in posts
  <2>1. Phantom(a, b)' \subseteq Phantom(a, b)
    BY <1>4 DEF Phantom
  <2>2. PICK m \in Infos(b, a) : Announced(a, b, m)
    BY <1>1, <1>4, <2>1
  <2>3. /\ m \in Infos(b, a)' /\ IntentMsgs(b, a)' = IntentMsgs(b, a)
        /\ Withdrawals(b, a)' = Withdrawals(b, a) /\ IsPending(b)' = IsPending(b)
    BY <1>4 DEF Infos, IntentMsgs, Withdrawals, IsPending
  <2>4. Announced(a, b, m)'
    BY <1>4, <2>1, <2>2, <2>3 DEF Announced
  <2> QED
    BY <2>3, <2>4
<1>5. CASE \E c \in Agents : Sync(c)
  <2>1. PICK c \in Agents : Sync(c)
    BY <1>5
  <2>2. PICK newArc : SyncOutcome(c, newArc)
    BY <2>1, SyncIs
  <2>3. arc[b] \subseteq arc'[b]
    BY <2>2 DEF SyncOutcome, Safe, IInv, ShardingTypeOK
  <2>4. posts \subseteq posts' /\ \A m \in posts' : m.type # "info" => m \in posts
    BY <2>2, SyncSends
  <2>5. UNCHANGED <<ctl, intents, seen, lastCheck>> /\ Alive' \subseteq Alive
    BY <2>2 DEF SyncOutcome, Alive
  <2> QED
    BY <1>4, <2>3, <2>4, <2>5
<1>6. CASE \E c \in Agents : Die(c)
  BY <1>4, <1>6 DEF Die, Alive
<1>7. CASE Tick \/ (\E c, d \in Agents : MarkUnresponsive(c, d)) \/ UNCHANGED shardingVars
  BY <1>4, <1>7 DEF Tick, MarkUnresponsive, shardingVars, Alive
<1> QED
  BY <1>2, <1>3, <1>5, <1>6, <1>7 DEF ShardingNext, Finished

----------------------------------------------------------------------------
(* The number of copies.                                                   *)

(* Sets of agents are finite. *)
LEMMA FiniteParts ==
    ASSUME NEW S \in SUBSET Agents
    PROVE  IsFiniteSet(S) /\ Cardinality(S) \in Nat
  BY AgentsAssumption, FS_Subset, FS_CardinalityType

(* A part of a set of agents is no larger. *)
LEMMA Smaller ==
    ASSUME NEW S \in SUBSET Agents, NEW T \in SUBSET S
    PROVE  Cardinality(T) <= Cardinality(S)
  BY FiniteParts, FS_Subset

(* Whatever is subtracted, the rest is at least what the controller counts. *)
LEMMA CountedRest ==
    ASSUME NEW S \in SUBSET Agents, NEW T \in SUBSET Agents,
           CoverageWithout(S, T) >= R
    PROVE  Cardinality(S \ T) >= R
<1>1. Cardinality(S) \in Nat /\ Cardinality(T) \in Nat /\ Cardinality(S \ T) \in Nat
  BY FiniteParts
<1>2. Cardinality(S \ T) = Cardinality(S) - Cardinality(S \cap T)
  BY FiniteParts, FS_Difference
<1>3. Cardinality(S \cap T) <= Cardinality(T) /\ Cardinality(S \cap T) \in Nat
  BY FiniteParts, Smaller
<1> QED
  BY <1>1, <1>2, <1>3, Parameters DEF CoverageWithout

(* A re-check that lets a patient agent proceed counted on none that had   *)
(* left, nor on one whose death it had the means to know of.               *)
LEMMA DropLeavesTarget ==
    ASSUME Safe, Patient, NEW c \in Agents, Framed(c), ExecuteOutcome(c),
           NEW s \in ctl[c].pending.vacate
    PROVE  Cardinality(ReliedOn(c, s)) >= R
<1> DEFINE p == ctl[c].pending
<1>0. ShardingTypeOK /\ c \in Alive /\ Alive \subseteq Agents
  BY DEF Safe, IInv, Framed, Alive
<1>1. PICK silent \in SilentPeers(c) :
         Recheck(c, gone[c] \cup silent, p.vacate) = "Proceed"
  BY DEF ExecuteOutcome
<1> DEFINE D == Declaring(c, gone[c] \cup silent, s)
           L == Leaving(c, Overlapping(c, p.vacate), s)
<1>2. CoveredBy(c, gone[c] \cup silent, Overlapping(c, p.vacate), p.vacate, R)
  BY <1>1 DEF Recheck, PatientRecheck
<1>3. CoverageWithout(D, L) >= R
  BY <1>2 DEF CoveredBy
<1>4. D \in SUBSET Agents /\ L \in SUBSET Agents
  BY DEF Declaring, Leaving, Overlapping, LiveIntenders
<1>5. Cardinality(D \ L) >= R
  <2> HIDE DEF D, L
  <2> QED
    BY <1>3, <1>4, CountedRest
<1>6. ASSUME NEW b \in D \ L PROVE b \in ReliedOn(c, s)
  <2>1. /\ b \in Agents \ {c} /\ b \notin gone[c] /\ b \notin silent
        /\ s \in seen[c][b].arc
    BY <1>6 DEF Declaring
  <2>2. s \in arc[b]
    <3> SUFFICES ASSUME s \notin arc[b] PROVE FALSE
      OBVIOUS
    <3>1. s \in Phantom(c, b)
      BY <2>1 DEF Phantom
    <3>2. PICK m \in Infos(b, c) : Announced(c, b, m)
      BY <1>0, <2>1, <3>1, PhantomParts DEF Safe, IInv
    <3>3. intents[c][b].expires_at > now
      BY <1>0, <2>1, <3>2, AnnouncedLives
    <3>4. s \in intents[c][b].vacate /\ intents[c][b].vacate \subseteq seen[c][b].arc
      BY <3>1, <3>2 DEF Announced
    <3>5. b \in Overlapping(c, p.vacate)
      BY <2>1, <3>3, <3>4 DEF Overlapping, LiveIntenders
    <3> QED
      BY <1>6, <3>4, <3>5 DEF Leaving
  <2>3. b \in dead => ~(now >= diedAt[b] + SilentAfter)
    BY <2>1 DEF SilentPeers
  <2>4. now \in Nat /\ diedAt[b] \in Nat /\ SilentAfter \in Nat
    BY <1>0, <2>1, Parameters DEF ShardingTypeOK, SilentAfter
  <2>5. b \notin Alive => now < diedAt[b] + SilentAfter
    BY <2>1, <2>3, <2>4 DEF Alive
  <2> QED
    BY <2>1, <2>2, <2>5 DEF ReliedOn
<1>7. Cardinality(D \ L) <= Cardinality(ReliedOn(c, s))
  <2>1. ReliedOn(c, s) \in SUBSET Agents /\ D \ L \in SUBSET ReliedOn(c, s)
    BY <1>6 DEF ReliedOn
  <2> HIDE DEF D, L
  <2> QED
    BY <2>1, Smaller
<1>8. /\ Cardinality(D \ L) \in Nat /\ Cardinality(ReliedOn(c, s)) \in Nat
      /\ R \in Nat
  <2>1. ReliedOn(c, s) \in SUBSET Agents /\ D \ L \in SUBSET Agents
    BY <1>4 DEF ReliedOn
  <2> HIDE DEF D, L
  <2> QED
    BY <2>1, FiniteParts, Parameters
<1> HIDE DEF D, L
<1> QED
  BY <1>5, <1>7, <1>8

(* A drop takes exactly the announced half. *)
LEMMA DropIsVacate ==
    ASSUME Safe, NEW c \in Agents, ExecuteOutcome(c)
    PROVE  arc[c] \ arc'[c] = ctl[c].pending.vacate /\ arc'[c] \subseteq arc[c]
<1>1. /\ arc[c] = BlockArc(Home[c], ctl[c].declared_level)
      /\ ctl[c].declared_level > 0 /\ ctl[c].declared_level \in Levels
      /\ ctl[c].pending.vacate = VacateHalf(Home[c], ctl[c].declared_level)
      /\ Home[c] \in Sectors
  BY ControlFields, HomeAssumption DEF ExecuteOutcome, Safe, IInv, PendingOK
<1>2. arc'[c] = BlockArc(Home[c], ctl[c].declared_level - 1)
  BY DEF ExecuteOutcome, Safe, IInv, ShardingTypeOK
<1> QED
  BY <1>1, <1>2, VacateIsDropped

(* Every step keeps each sector at its target, deaths aside. *)
LEMMA TargetKept ==
    ASSUME Safe, Patient, [ShardingNext]_shardingVars
    PROVE  AtTarget'
<1>0. /\ ShardingTypeOK /\ AtTarget /\ Alive \subseteq Agents /\ dead \in SUBSET Agents
      /\ R \in Nat
  BY Parameters DEF Safe, IInv, ShardingTypeOK, Alive
<1> SUFFICES ASSUME NEW s \in Sectors
             PROVE  Cardinality(Holders(s)') + Cardinality(dead') >= R
  BY DEF AtTarget, Holders
<1>1. /\ Cardinality(Holders(s)) + Cardinality(dead) >= R
      /\ Holders(s) \in SUBSET Agents /\ Cardinality(Holders(s)) \in Nat
      /\ Cardinality(dead) \in Nat
  <2>1. Holders(s) \in SUBSET Agents
    BY <1>0 DEF Holders
  <2> QED
    BY <1>0, <2>1, FiniteParts DEF AtTarget
<1>2. CASE dead' = dead /\ \A a \in Alive : s \in arc[a] => s \in arc'[a]
  <2>1. Holders(s) \in SUBSET Holders(s)' /\ Holders(s)' \in SUBSET Agents
    BY <1>2 DEF Holders, Alive
  <2>2. Cardinality(Holders(s)) <= Cardinality(Holders(s)')
        /\ Cardinality(Holders(s)') \in Nat
    BY <2>1, Smaller, FiniteParts
  <2> QED
    BY <1>0, <1>1, <1>2, <2>2
<1>3. CASE \E c \in Agents : Check(c)
  <2>1. PICK c \in Agents : Framed(c) /\ Outcome(c)
    BY <1>3, CheckOutcome, PendingTypes DEF Safe
  <2>2. dead' = dead /\ c \in Alive
    BY <2>1 DEF Framed
  <2>3. CASE ~ExecuteOutcome(c)
    <3>1. arc' = arc
      BY <2>1, <2>3 DEF Outcome, QuietOutcome, AnnounceOutcome, WaitOutcome,
         StandDownOutcome
    <3> QED
      BY <1>2, <2>2, <3>1
  <2>4. CASE ExecuteOutcome(c) /\ s \notin ctl[c].pending.vacate
    <3>1. s \in arc[c] => s \in arc'[c]
      BY <2>4, DropIsVacate
    <3>2. \A a \in Agents \ {c} : arc'[a] = arc[a]
      BY <1>0, <2>1, OthersUntouched
    <3> QED
      BY <1>0, <1>2, <2>2, <3>1, <3>2
  <2>5. CASE ExecuteOutcome(c) /\ s \in ctl[c].pending.vacate
    <3>1. Cardinality(ReliedOn(c, s)) >= R
      BY <2>1, <2>5, DropLeavesTarget
    <3>2. \A a \in Agents \ {c} : arc'[a] = arc[a]
      BY <1>0, <2>1, OthersUntouched
    <3>3. ReliedOn(c, s) \in SUBSET (Holders(s)' \cup dead)
      BY <2>2, <3>2 DEF ReliedOn, Holders, Alive
    <3>4. Holders(s)' \in SUBSET Agents
      BY DEF Holders, Alive
    <3>5. Cardinality(ReliedOn(c, s)) <= Cardinality(Holders(s)' \cup dead)
      BY <1>0, <3>3, <3>4, Smaller
    <3>6. Cardinality(Holders(s)' \cup dead) =
             Cardinality(Holders(s)') + Cardinality(dead)
             - Cardinality(Holders(s)' \cap dead)
      BY <1>0, <3>4, FiniteParts, FS_Union
    <3>7. /\ Cardinality(Holders(s)' \cap dead) \in Nat
          /\ Cardinality(Holders(s)') \in Nat
          /\ Cardinality(Holders(s)' \cup dead) \in Nat
          /\ Cardinality(ReliedOn(c, s)) \in Nat
      <4>1. /\ Holders(s)' \cap dead \in SUBSET Agents
            /\ Holders(s)' \cup dead \in SUBSET Agents
            /\ ReliedOn(c, s) \in SUBSET Agents
        BY <1>0, <3>4 DEF ReliedOn
      <4> QED
        BY <3>4, <4>1, FiniteParts
    <3> QED
      BY <1>0, <1>1, <2>2, <3>1, <3>5, <3>6, <3>7
  <2> QED
    BY <2>3, <2>4, <2>5
<1>4. CASE \E c \in Agents : Sync(c)
  <2>a. PICK c \in Agents : Sync(c)
    BY <1>4
  <2>1. PICK newArc : SyncOutcome(c, newArc)
    BY <2>a, SyncIs
  <2>2. dead' = dead /\ \A a \in Alive : arc[a] \subseteq arc'[a]
    BY <1>0, <2>1 DEF SyncOutcome, ShardingTypeOK
  <2> QED
    BY <1>2, <2>2
<1>5. CASE \E c \in Agents : Die(c)
  <2>1. PICK c \in Agents : Die(c)
    BY <1>5
  <2>2. dead' = dead \cup {c} /\ c \notin dead /\ arc' = arc
    BY <2>1 DEF Die, Alive
  <2>3. Holders(s)' = Holders(s) \ {c}
    BY <2>2 DEF Holders, Alive
  <2>4. Cardinality(dead') = Cardinality(dead) + 1
    BY <1>0, <2>2, FiniteParts, FS_AddElement
  <2>5. Cardinality(Holders(s)') >= Cardinality(Holders(s)) - 1
        /\ Cardinality(Holders(s)') \in Nat
    <3>1. Cardinality(Holders(s) \ {c}) = IF c \in Holders(s)
             THEN Cardinality(Holders(s)) - 1 ELSE Cardinality(Holders(s))
      BY <1>1, FiniteParts, FS_RemoveElement
    <3>2. Cardinality(Holders(s) \ {c}) \in Nat
      BY <1>1, FiniteParts
    <3> QED
      BY <1>1, <2>3, <3>1, <3>2
  <2> QED
    BY <1>0, <1>1, <2>4, <2>5
<1>6. CASE dead' = dead /\ arc' = arc
  BY <1>2, <1>6
<1> QED
  BY <1>3, <1>4, <1>5, <1>6 DEF ShardingNext, Finished, Receive, MarkUnresponsive, Tick, shardingVars

----------------------------------------------------------------------------
(* The invariant holds of every behaviour.                                 *)

(* The invariant holds at the start. *)
LEMMA InitSafe == ShardingInit => IInv
<1> SUFFICES ASSUME ShardingInit PROVE IInv
  OBVIOUS
<1>0. ShardingTypeOK /\ \A b \in Agents : ~IsPending(b)
  <2>1. ShardingTypeOK
    BY InitTypes DEF TypeInv
  <2>2. \A b \in Agents : ctl[b].pending = NoPending
    BY DEF ShardingInit
  <2> QED
    BY <2>1, <2>2 DEF IsPending
<1>1. posts = {} /\ Alive = Agents /\ dead = {}
  BY DEF ShardingInit, Alive
<1>2. \A b \in Agents : arc[b] = Sectors
  <2>1. \A b \in Agents : BlockArc(Home[b], MaxLevel) = Sectors
    BY MaxLevelAssumption DEF BlockArc, Span, block, Sectors
  <2> QED
    BY <2>1 DEF ShardingInit
<1>3. TimesOK
  BY <1>1, Parameters DEF ShardingInit, TimesOK
<1>4. PendingOK /\ IntentOK /\ VisibleOK
  BY <1>0, <1>1 DEF PendingOK, IntentOK, VisibleOK, IntentMsgs, Withdrawals
<1>5. \A a, b \in Agents : /\ seen[a][b].arc = arc[b] /\ seen[a][b].ver = 0
                           /\ ver[b] = 0
  BY DEF ShardingInit
<1>6. InfoOK
  BY <1>1, <1>5 DEF InfoOK, Infos
<1>7. PhantomOK
  BY <1>1, <1>5 DEF PhantomOK
<1>8. AtTarget
  <2>1. \A s \in Sectors : Holders(s) = Agents
    BY <1>1, <1>2 DEF Holders
  <2>2. Cardinality(dead) = 0
    BY <1>1, FS_EmptySet
  <2>3. Cardinality(Agents) \in Nat /\ R <= Cardinality(Agents) /\ R \in Nat
    BY FiniteParts, ParameterAssumption
  <2> QED
    BY <2>1, <2>2, <2>3 DEF AtTarget
<1> QED
  BY <1>0, <1>3, <1>4, <1>6, <1>7, <1>8 DEF IInv

(* Every step keeps the invariant, given the timing and the patient re-check. *)
LEMMA NextSafe ==
    ASSUME WellTimed, Patient
    PROVE  IInv /\ [ShardingNext]_shardingVars => IInv'
<1> SUFFICES ASSUME IInv, [ShardingNext]_shardingVars PROVE IInv'
  OBVIOUS
<1>1. Safe
  BY DEF Safe
<1>2. ShardingTypeOK'
  BY NextTypes, PendingTypes DEF TypeInv
<1>3. TimesOK'
  BY <1>1, TimesKept
<1>4. PendingOK'
  BY <1>1, PendingKept
<1>5. InfoOK'
  BY <1>1, <1>2, <1>3, InfoKept
<1>6. IntentOK'
  BY <1>1, <1>2, IntentKept
<1>7. VisibleOK'
  BY <1>1, VisibleKept
<1>8. PhantomOK'
  BY <1>1, <1>2, PhantomKept
<1>9. AtTarget'
  BY <1>1, TargetKept
<1> QED
  BY <1>2, <1>3, <1>4, <1>5, <1>6, <1>7, <1>8, <1>9 DEF IInv

(* For any number of agents, any homes, any target and any clock: a        *)
(* patient controller whose wait outlasts the staleness of its views plus  *)
(* a late check never takes a sector below its target, in any              *)
(* interleaving of checks, deaths, arrivals and arc growth (announce_shrink *)
(* to execute_intent).                                                     *)
THEOREM ShrinksKeepTarget ==
    ASSUME WellTimed, Patient
    PROVE  ShardingSpec => []AtTarget
<1>1. IInv /\ [ShardingNext]_shardingVars => IInv'
  BY NextSafe
<1>2. IInv => AtTarget
  BY DEF IInv
<1> QED
  BY <1>1, <1>2, InitSafe, PTL DEF ShardingSpec

(* Under the same timing no agent is ever counted as holding a sector it   *)
(* has left: the arc it is still seen to declare is qualified by an intent *)
(* still live in the viewer's table (IntentTable::live, retain_declared).  *)
THEOREM NoUnannouncedPhantom ==
    ASSUME WellTimed, Patient
    PROVE  ShardingSpec => []PhantomAnnounced
<1>1. IInv /\ [ShardingNext]_shardingVars => IInv'
  BY NextSafe
<1>2. IInv => PhantomAnnounced
  <2> SUFFICES ASSUME IInv, NEW a \in Alive, NEW b \in Agents \ {a},
                      NEW s \in seen[a][b].arc \ arc[b]
               PROVE  b \in LiveIntenders(a) /\ s \in intents[a][b].vacate
    BY DEF PhantomAnnounced
  <2>1. Safe
    BY DEF Safe
  <2>2. PICK m \in Infos(b, a) : Announced(a, b, m)
    BY PhantomParts DEF IInv, Phantom
  <2>3. intents[a][b].expires_at > now
    BY <2>1, <2>2, AnnouncedLives
  <2>4. s \in intents[a][b].vacate /\ intents[a][b].vacate \subseteq seen[a][b].arc
    BY <2>2 DEF Announced, Phantom
  <2> QED
    BY <2>3, <2>4 DEF LiveIntenders
<1> QED
  BY <1>1, <1>2, InitSafe, PTL DEF ShardingSpec

(* Under the same timing every drop leaves R copies with peers that store  *)
(* the sector and are alive or only just dead (patient_recheck with        *)
(* silent_peers).                                                          *)
THEOREM DropsAreCovered ==
    ASSUME WellTimed, Patient
    PROVE  ShardingSpec => ShrinkLeavesTarget
<1>1. IInv /\ [ShardingNext]_shardingVars => IInv'
  BY NextSafe
<1>2. IInv /\ [ShardingNext]_shardingVars =>
         [\A a \in Agents : \A s \in arc[a] \ arc'[a] :
             Cardinality(ReliedOn(a, s)) >= R]_shardingVars
  <2> SUFFICES ASSUME IInv, [ShardingNext]_shardingVars, NEW a \in Agents,
                      NEW s \in arc[a] \ arc'[a]
               PROVE  Cardinality(ReliedOn(a, s)) >= R
    OBVIOUS
  <2>0. Safe /\ ShardingTypeOK
    BY DEF Safe, IInv
  <2>1. CASE \E c \in Agents : Check(c)
    <3>1. PICK c \in Agents : Framed(c) /\ Outcome(c)
      BY <2>1, CheckOutcome, PendingTypes
    <3>2. c = a
      BY <2>0, <3>1, OthersUntouched
    <3>3. ExecuteOutcome(a)
      BY <3>1, <3>2 DEF Outcome, QuietOutcome, AnnounceOutcome, WaitOutcome,
         StandDownOutcome
    <3>4. s \in ctl[a].pending.vacate
      BY <2>0, <3>3, DropIsVacate
    <3> QED
      BY <2>0, <3>1, <3>2, <3>3, <3>4, DropLeavesTarget
  <2>2. CASE \E c \in Agents : Sync(c)
    <3>a. PICK c \in Agents : Sync(c)
      BY <2>2
    <3>1. PICK newArc : SyncOutcome(c, newArc)
      BY <3>a, SyncIs
    <3>2. arc[a] \subseteq arc'[a]
      BY <2>0, <3>1 DEF SyncOutcome, ShardingTypeOK
    <3> QED
      BY <3>2
  <2>3. CASE arc' = arc
    BY <2>3
  <2> QED
    BY <2>1, <2>2, <2>3 DEF ShardingNext, Finished, Receive, Die, MarkUnresponsive, Tick, shardingVars
<1> QED
  BY <1>1, <1>2, InitSafe, PTL DEF ShardingSpec, ShrinkLeavesTarget

----------------------------------------------------------------------------
(* Repair: what a check at the smallest arc does about a short sector.     *)

(* Another check that finds the grow condition adds to the accumulator.    *)
Persists(a) ==
    GrowCondition(a, 0) => ctl'[a].grow_acc = ctl[a].grow_acc + 1

(* What a check does to the target: a shrink to the smallest arc drops the *)
(* half next to it, and an agent already there and with nothing pending    *)
(* either widens its target or counts the check.                           *)
FloorOutcome(a) ==
    /\ ctl'[a].grow_acc <= GrowNeed
    /\ ctl'[a].target_level = 0 =>
          \/ /\ ExecuteOutcome(a)
             /\ ctl[a].declared_level = 1
          \/ /\ arc' = arc
             /\ ctl[a].target_level = 0
             /\ \/ IsPending(a)
                \/ arc[a] # BlockArc(Home[a], 0)
                \/ Persists(a)

(* What Checked records of the agent. *)
LEMMA CheckedRecord ==
    ASSUME ShardingTypeOK, NEW a \in Agents, NEW c, NEW table, Checked(a, c, table)
    PROVE  ctl'[a] = c
  BY DEF Checked, ShardingTypeOK

(* The brake touches neither the levels nor the grow accumulator. *)
LEMMA BrakedGrow ==
    ASSUME ShardingTypeOK, NEW a \in Agents
    PROVE  /\ Braked(a) \in AgentControl
           /\ Braked(a).grow_acc = ctl[a].grow_acc
           /\ Braked(a).declared_level = ctl[a].declared_level
           /\ Braked(a).target_level = ctl[a].target_level
<1>1. ctl[a] \in AgentControl
  BY DEF ShardingTypeOK
<1>2. Braked(a) \in AgentControl
  BY BrakedTyped
<1>3. Braked(a).grow_acc = ctl[a].grow_acc
  BY <1>1 DEF Braked, AgentControl
<1> QED
  BY <1>2, <1>3, BrakedShape

(* The decision branch of a check, for FloorOutcome. *)
LEMMA DecideFloor ==
    ASSUME ShardingTypeOK, NEW a \in Agents, NEW skip, ctl[a].grow_acc <= GrowNeed,
           Decide(a, Braked(a), skip)
    PROVE  FloorOutcome(a)
<1> DEFINE c0 == Braked(a)
           c == Accumulate(a, c0, skip)
           settled == [c0 EXCEPT !.declared_level = c0.target_level]
<1>1. /\ c0 \in AgentControl
      /\ c0.grow_acc = ctl[a].grow_acc
      /\ c0.target_level = ctl[a].target_level
  BY BrakedGrow
<1>2. /\ c0.grow_acc \in Nat /\ c0.target_level \in Levels
      /\ GrowNeed \in Nat /\ MaxLevel \in Nat \ {0}
  BY <1>1, ParameterAssumption, MaxLevelAssumption DEF AgentControl
<1> DEFINE grown == IF GrowCondition(a, c0.target_level)
                    THEN c0.grow_acc + 1 ELSE 0
<1>3. /\ c.declared_level = c0.target_level
      /\ c.target_level = c0.target_level
      /\ c.grow_acc = grown
      /\ settled.declared_level = c0.target_level
      /\ settled.target_level = c0.target_level
      /\ settled.grow_acc = c0.grow_acc
  BY <1>1 DEF Accumulate, AgentControl
<1>4. c \in AgentControl /\ settled \in AgentControl
  <2> DEFINE h == IF ShrinkCondition(a, skip, c0.target_level)
                  THEN c0.shrink_acc + 1 ELSE 0
  <2>1. grown \in Nat /\ h \in Nat
    BY <1>1, <1>2 DEF AgentControl
  <2>2. c = [c0 EXCEPT !.declared_level = c0.target_level,
                       !.grow_acc = grown, !.shrink_acc = h]
    BY DEF Accumulate
  <2> HIDE DEF c, h, grown
  <2> QED
    BY <1>1, <1>2, <2>1, <2>2 DEF AgentControl
<1> HIDE DEF c0, c, settled
<1>5. ASSUME NEW d, d \in AgentControl, StartGrow(a, d)
      PROVE  FloorOutcome(a)
  <2>1. ctl'[a] = [d EXCEPT !.target_level = d.declared_level + 1,
                            !.grow_acc = 0, !.shrink_acc = 0,
                            !.pending = NoPending]
    BY <1>5, CheckedRecord DEF StartGrow
  <2>2. ctl'[a].target_level = d.declared_level + 1 /\ ctl'[a].grow_acc = 0
        /\ d.declared_level \in Nat
    BY <1>5, <2>1 DEF AgentControl, Levels
  <2> QED
    BY <1>2, <2>2 DEF FloorOutcome
<1>6. CASE VisiblePeers(a) < ClampMinPeers
           /\ IF settled.declared_level < MaxLevel
              THEN StartGrow(a, settled) ELSE Hold(a, settled)
  <2>1. CASE settled.declared_level < MaxLevel
    BY <1>4, <1>5, <1>6, <2>1
  <2>2. CASE ~(settled.declared_level < MaxLevel)
    <3>1. ctl'[a] = settled
      BY <1>6, <2>2, CheckedRecord DEF Hold
    <3>2. c0.target_level # 0
      BY <1>2, <1>3, <2>2
    <3> QED
      BY <1>1, <1>3, <3>1, <3>2 DEF FloorOutcome
  <2> QED
    BY <2>1, <2>2
<1> DEFINE grows == GrowCondition(a, c.declared_level) /\ c.grow_acc >= GrowNeed
<1>7. CASE StartGrow(a, c)
  BY <1>4, <1>5, <1>7 DEF AgentControl
<1>8. CASE ~grows /\ Hold(a, c)
  <2>1. ctl'[a] = c
    BY <1>8, CheckedRecord DEF Hold
  <2>2. arc' = arc
    BY <1>8 DEF Hold, KeepCurStorageArc
  <2>3. c.grow_acc <= GrowNeed
    BY <1>2, <1>3, <1>8
  <2>4. c.target_level = 0 => Persists(a)
    BY <1>1, <1>3, <2>1 DEF Persists
  <2> QED
    BY <1>1, <1>3, <2>1, <2>2, <2>3, <2>4 DEF FloorOutcome
<1>9. CASE ~grows /\ ShrinkCondition(a, skip, c.declared_level)
           /\ AnnounceShrink(a, c)
  <2>1. PICK p : ctl'[a] = [c EXCEPT !.pending = p]
    BY <1>9, CheckedRecord DEF AnnounceShrink
  <2>2. ctl'[a].target_level = c.target_level /\ ctl'[a].grow_acc = c.grow_acc
    BY <1>4, <2>1
  <2>3. c.grow_acc <= GrowNeed
    BY <1>2, <1>3, <1>9
  <2>4. c.declared_level > 0
    BY <1>9 DEF ShrinkCondition
  <2> QED
    BY <1>1, <1>2, <1>3, <2>2, <2>3, <2>4 DEF FloorOutcome
<1> QED
  BY <1>6, <1>7, <1>8, <1>9 DEF Decide, c0, c, settled

(* Every check has one of these outcomes. *)
LEMMA CheckFloor ==
    ASSUME TypeInv, FloorOK, NEW a \in Agents, Check(a)
    PROVE  FloorOutcome(a)
<1> DEFINE c == Braked(a)
<1>0. ShardingTypeOK /\ ctl[a].grow_acc <= GrowNeed /\ ctl[a].grow_acc \in Nat /\ GrowNeed \in Nat
  BY ParameterAssumption DEF TypeInv, FloorOK, ShardingTypeOK, AgentControl
<1>1. /\ c \in AgentControl
      /\ c.grow_acc = ctl[a].grow_acc
      /\ c.declared_level = ctl[a].declared_level
      /\ c.target_level = ctl[a].target_level
      /\ c.declared_level \in Nat
  BY <1>0, BrakedGrow DEF AgentControl, Levels
<1>2. Framed(a) /\ Outcome(a)
  BY CheckOutcome
<1>3. PICK silent \in SilentPeers(a) : TickAgent(a, c, gone[a] \cup silent)
  BY DEF Check
<1> DEFINE skip == gone[a] \cup silent
<1>4. CASE Decide(a, c, skip)
  BY <1>0, <1>4, DecideFloor
<1>5. ASSUME Hold(a, c), c.pending # NoPending \/ arc[a] # BlockArc(Home[a], c.target_level)
      PROVE  FloorOutcome(a)
  <2>1. ctl'[a] = c
    BY <1>0, <1>5, CheckedRecord DEF Hold
  <2>2. arc' = arc
    BY <1>5 DEF Hold, KeepCurStorageArc
  <2>3. c.pending # NoPending => IsPending(a)
    BY <1>0, BrakedShape
  <2> QED
    BY <1>0, <1>1, <1>5, <2>1, <2>2, <2>3 DEF FloorOutcome
<1>6. CASE /\ c.pending # NoPending /\ now >= c.pending.execute_at
           /\ ExecuteIntent(a, c, skip)
  <2>0. c = ctl[a] /\ IsPending(a)
    BY <1>0, <1>6, BrakedShape
  <2>1. CASE Recheck(a, skip, c.pending.vacate) = "Proceed" /\ ExecuteShrink(a, c)
    <3>1. ctl'[a] = [c EXCEPT !.declared_level = c.declared_level - 1,
                              !.target_level = c.declared_level - 1,
                              !.grow_acc = 0, !.shrink_acc = 0,
                              !.pending = NoPending]
      BY <1>0, <2>1, CheckedRecord DEF ExecuteShrink
    <3>2. /\ ctl'[a].target_level = c.declared_level - 1
          /\ ctl'[a].grow_acc = 0 /\ ctl'[a].shrink_acc = 0
          /\ ctl'[a].pending = NoPending
      BY <1>1, <3>1 DEF AgentControl
    <3>3. SetCurStorageArc(a, BlockArc(Home[a], c.declared_level - 1), {})
      BY <2>1 DEF ExecuteShrink
    <3>4. ExecuteOutcome(a)
      <4> HIDE DEF c
      <4> QED
        BY <1>6, <2>0, <2>1, <3>2, <3>3 DEF ExecuteOutcome, SetCurStorageArc, IsPending
    <3> QED
      BY <1>0, <1>1, <3>2, <3>4 DEF FloorOutcome
  <2>2. ASSUME arc' = arc, ctl'[a].target_level = c.target_level,
               ctl'[a].grow_acc = c.grow_acc
        PROVE  FloorOutcome(a)
    BY <1>0, <1>1, <2>0, <2>2 DEF FloorOutcome
  <2>3. CASE StandDown(a, c)
    <3>1. ctl'[a] = [c EXCEPT !.shrink_acc = 0, !.pending = NoPending]
      BY <1>0, <2>3, CheckedRecord DEF StandDown
    <3> QED
      BY <1>1, <2>2, <2>3, <3>1 DEF StandDown, KeepCurStorageArc, AgentControl
  <2>4. CASE WaitLonger(a, c)
    <3> DEFINE next == now + 1
               due == c.pending.expires_at < next + Wait
               until == IF due THEN next + Wait + Wait
                        ELSE c.pending.expires_at
    <3>1. ctl'[a] = [c EXCEPT !.pending.execute_at = next,
                              !.pending.expires_at = until]
      BY <1>0, <2>4, CheckedRecord DEF WaitLonger
    <3> HIDE DEF until, next
    <3>2. ctl'[a].target_level = c.target_level /\ ctl'[a].grow_acc = c.grow_acc
      BY <1>1, <3>1 DEF AgentControl
    <3> QED
      BY <2>2, <2>4, <3>2 DEF WaitLonger, KeepCurStorageArc
  <2> QED
    BY <1>6, <2>1, <2>3, <2>4 DEF ExecuteIntent
<1> QED
  BY <1>3, <1>4, <1>5, <1>6 DEF TickAgent

(* An agent that has marked every death sees a short sector as short:      *)
(* whoever it counts as staying still holds the sector.                    *)
LEMMA ShortIsSeen ==
    ASSUME Safe, NEW a \in Alive, NEW s \in SiblingHalf(Home[a], 0),
           Cardinality(Holders(s)) < R, dead \subseteq gone[a]
    PROVE  GrowCondition(a, 0)
<1> DEFINE D == Declaring(a, gone[a], s)
           L == Leaving(a, LiveIntenders(a), s)
<1>1. a \in Agents /\ D \in SUBSET Agents /\ L \in SUBSET Agents
      /\ Holders(s) \in SUBSET Agents
  BY DEF Alive, Declaring, Leaving, LiveIntenders, Holders
<1>2. ASSUME NEW b \in D \ L PROVE b \in Holders(s)
  <2>1. /\ b \in Agents \ {a} /\ b \notin gone[a]
        /\ s \in seen[a][b].arc
    BY <1>2 DEF Declaring
  <2>2. b \in Alive
    BY <2>1 DEF Alive
  <2>3. s \in arc[b]
    <3> SUFFICES ASSUME s \notin arc[b] PROVE FALSE
      OBVIOUS
    <3>1. s \in Phantom(a, b)
      BY <2>1 DEF Phantom
    <3>2. PICK m \in Infos(b, a) : Announced(a, b, m)
      BY <2>1, <3>1, PhantomParts DEF Safe, IInv
    <3>3. intents[a][b].expires_at > now
      BY <2>1, <3>2, AnnouncedLives
    <3>4. s \in intents[a][b].vacate /\ intents[a][b].vacate \subseteq seen[a][b].arc
      BY <3>1, <3>2 DEF Announced
    <3> QED
      BY <1>2, <2>1, <3>3, <3>4 DEF Leaving, LiveIntenders
  <2> QED
    BY <2>2, <2>3 DEF Holders
<1> HIDE DEF D, L
<1>3. D \ L \in SUBSET Holders(s)
  BY <1>2
<1>4. Cardinality(D \ L) <= Cardinality(Holders(s))
  BY <1>1, <1>3, Smaller
<1>5. /\ Cardinality(D \ L) \in Nat /\ Cardinality(Holders(s)) \in Nat
      /\ R \in Nat
  BY <1>1, FiniteParts, Parameters
<1>6. ~(CoverageWithout(D, L) >= R)
  BY <1>1, <1>4, <1>5, CountedRest
<1> QED
  BY <1>6, MaxLevelAssumption DEF GrowCondition, CoveredBy, D, L

(* A drop that leaves a sector short relied on a death the agent had not   *)
(* yet marked.                                                             *)
LEMMA DropHidesDeath ==
    ASSUME Safe, Patient, NEW c \in Agents, Framed(c), Outcome(c),
           ExecuteOutcome(c), NEW s \in ctl[c].pending.vacate,
           Cardinality(Holders(s)') < R
    PROVE  \E b \in dead : b \notin gone[c]
<1> SUFFICES ASSUME dead \subseteq gone[c] PROVE FALSE
  OBVIOUS
<1>0. ShardingTypeOK /\ dead' = dead
  BY DEF Safe, IInv, Framed
<1>1. Cardinality(ReliedOn(c, s)) >= R
  BY DropLeavesTarget
<1>2. \A b \in Agents \ {c} : arc'[b] = arc[b]
  BY <1>0, OthersUntouched
<1>3. ReliedOn(c, s) \in SUBSET Holders(s)' /\ Holders(s)' \in SUBSET Agents
  BY <1>0, <1>2 DEF ReliedOn, Holders, Alive
<1>4. /\ Cardinality(ReliedOn(c, s)) <= Cardinality(Holders(s)')
      /\ Cardinality(Holders(s)') \in Nat
  BY <1>3, Smaller, FiniteParts
<1>5. Cardinality(ReliedOn(c, s)) \in Nat /\ R \in Nat
  BY <1>3, FiniteParts, Parameters
<1> QED
  BY <1>1, <1>4, <1>5

(* Deaths stay marked in time. *)
LEMMA MarksKept ==
    ASSUME IInv, MarksOK, [ShardingNext]_shardingVars
    PROVE  MarksOK'
<1>0. ShardingTypeOK /\ now \in Nat /\ Detect \in Nat /\ \A b \in Agents : diedAt[b] \in Nat
  BY ParameterAssumption DEF IInv, ShardingTypeOK
<1> SUFFICES ASSUME NEW a \in Alive', NEW b \in dead' \ gone'[a]
             PROVE  now' <= diedAt'[b] + Detect
  BY DEF MarksOK
<1>1. CASE \E c \in Agents : Check(c) \/ Sync(c)
  <2>1. UNCHANGED <<now, dead, diedAt, gone>>
    <3>1. ASSUME NEW c \in Agents, Check(c)
          PROVE  UNCHANGED <<now, dead, diedAt, gone>>
      BY <3>1, CheckOutcome, PendingTypes DEF Framed
    <3> QED
      BY <1>1, <3>1 DEF Sync
  <2> QED
    BY <2>1 DEF MarksOK, Alive
<1>2. CASE \E c \in Agents : Die(c)
  <2>1. PICK c \in Agents : Die(c)
    BY <1>2
  <2>2. /\ dead' = dead \cup {c} /\ diedAt'[c] = now
        /\ \A d \in Agents \ {c} : diedAt'[d] = diedAt[d]
        /\ now' = now /\ gone' = gone
    BY <1>0, <2>1 DEF Die, ShardingTypeOK
  <2>3. a \in Alive /\ b \in Agents
    BY <1>0, <2>2 DEF Alive, ShardingTypeOK
  <2>4. CASE b = c
    BY <1>0, <2>2, <2>4
  <2>5. CASE b # c
    <3>1. b \in dead \ gone[a]
      BY <2>2, <2>5
    <3>2. now <= diedAt[b] + Detect
      BY <2>3, <3>1 DEF MarksOK
    <3> QED
      BY <2>2, <2>3, <2>5, <3>2
  <2> QED
    BY <2>4, <2>5
<1>3. CASE \E c, d \in Agents : MarkUnresponsive(c, d)
  <2>1. PICK c \in Agents, d \in Agents : MarkUnresponsive(c, d)
    BY <1>3
  <2>2. /\ UNCHANGED <<now, dead, diedAt>>
        /\ \A e \in Agents : gone[e] \subseteq gone'[e]
    BY <1>0, <2>1 DEF MarkUnresponsive, ShardingTypeOK
  <2>3. a \in Alive /\ a \in Agents /\ b \in dead \ gone[a]
    BY <2>2 DEF Alive
  <2>4. now <= diedAt[b] + Detect
    BY <2>3 DEF MarksOK
  <2> QED
    BY <2>2, <2>4
<1>4. CASE Tick
  <2>1. a \in Alive /\ b \in dead \ gone[a] /\ b \in Agents
    BY <1>0, <1>4 DEF Tick, Alive, ShardingTypeOK
  <2>2. now < diedAt[b] + Detect /\ now' = now + 1 /\ diedAt' = diedAt
    BY <1>4, <2>1 DEF Tick
  <2> QED
    BY <1>0, <2>1, <2>2
<1>5. CASE UNCHANGED <<now, dead, diedAt, gone>>
  BY <1>5 DEF MarksOK, Alive
<1> QED
  BY <1>1, <1>2, <1>3, <1>4, <1>5 DEF ShardingNext, Finished, Receive, shardingVars

(* An agent at its smallest arc stays there until its target is widened. *)
LEMMA FloorKept ==
    ASSUME IInv, FloorOK, [ShardingNext]_shardingVars
    PROVE  FloorOK'
<1>0. ShardingTypeOK /\ TypeInv
  BY PendingTypes DEF IInv
<1> SUFFICES ASSUME NEW a \in Agents
             PROVE  /\ ctl'[a].target_level = 0 => arc'[a] = BlockArc(Home[a], 0)
                    /\ ctl'[a].grow_acc <= GrowNeed
  BY DEF FloorOK
<1>1. CASE \E c \in Agents : Check(c)
  <2>1. PICK c \in Agents : Check(c)
    BY <1>1
  <2>2. Framed(c) /\ Outcome(c) /\ FloorOutcome(c)
    BY <1>0, <2>1, CheckOutcome, CheckFloor
  <2>3. CASE a # c
    <3>1. ctl'[a] = ctl[a] /\ arc'[a] = arc[a]
      BY <1>0, <2>2, <2>3, OthersUntouched
    <3> QED
      BY <3>1 DEF FloorOK
  <2>4. CASE a = c /\ ctl'[a].target_level = 0
    <3>1. CASE ExecuteOutcome(a) /\ ctl[a].declared_level = 1
      BY <1>0, <2>2, <2>4, <3>1 DEF ExecuteOutcome, FloorOutcome, ShardingTypeOK
    <3>2. CASE arc' = arc /\ ctl[a].target_level = 0
      BY <2>2, <2>4, <3>2 DEF FloorOK, FloorOutcome
    <3> QED
      BY <2>2, <2>4, <3>1, <3>2 DEF FloorOutcome
  <2>5. CASE a = c /\ ctl'[a].target_level # 0
    BY <2>2, <2>5 DEF FloorOutcome
  <2> QED
    BY <2>3, <2>4, <2>5
<1>2. CASE \E c \in Agents : Sync(c)
  <2>1. PICK c \in Agents : Sync(c)
    BY <1>2
  <2>2. PICK newArc \in SUBSET BlockArc(Home[c], ctl[c].target_level) :
           arc[c] \subseteq newArc /\ arc' = [arc EXCEPT ![c] = newArc]
    BY <2>1 DEF Sync, SetCurStorageArc
  <2>3. ctl' = ctl
    BY <2>1 DEF Sync
  <2>4. \A d \in Agents : arc'[d] = IF d = c THEN newArc ELSE arc[d]
    BY <1>0, <2>2 DEF ShardingTypeOK
  <2>5. ctl[c].target_level = 0 => newArc = arc[c]
    BY <2>2 DEF FloorOK
  <2> QED
    BY <2>3, <2>4, <2>5 DEF FloorOK
<1>3. CASE UNCHANGED <<ctl, arc>>
  BY <1>3 DEF FloorOK
<1> QED
  BY <1>1, <1>2, <1>3
     DEF ShardingNext, Finished, Receive, Die, MarkUnresponsive, Tick, shardingVars

(* One more check, at most Stall late. *)
LEMMA OneMore ==
    ASSUME NEW g \in Nat, NEW S \in Nat
    PROVE  /\ (g + 1) * (S + 1) \in Nat
           /\ ((g + 1) + 1) * (S + 1) = (g + 1) * (S + 1) + S + 1
  BY Distribute

(* The recorded checks stay within what the accumulator accounts for. *)
LEMMA LapseKept ==
    ASSUME Safe, Patient, MarksOK, FloorOK, LapseOK, [ShardingNext]_shardingVars
    PROVE  LapseOK'
<1> DEFINE Span1(g) == (g + 1) * (Stall + 1)
<1>0. /\ IInv /\ ShardingTypeOK /\ TypeInv /\ now \in Nat
      /\ {Detect, Stall, R} \subseteq Nat
      /\ \A b \in Agents : /\ diedAt[b] \in Nat /\ lastCheck[b] \in Nat
                           /\ ctl[b].grow_acc \in Nat
      /\ dead \subseteq Agents
  BY PendingTypes, ParameterAssumption DEF Safe, IInv, ShardingTypeOK, AgentControl
<1>1. ShardingTypeOK'
  BY <1>0, NextTypes, PendingTypes DEF TypeInv
<1> SUFFICES ASSUME NEW a \in Alive', NEW s \in SiblingHalf(Home[a], 0),
                    ctl'[a].target_level = 0, Cardinality(Holders(s)') < R
             PROVE  \E b \in dead' :
                       lastCheck'[a] <= diedAt'[b] + Detect
                                        + (ctl'[a].grow_acc + 1) * (Stall + 1)
  BY DEF LapseOK
<1>2. a \in Agents /\ ctl'[a].grow_acc \in Nat /\ Span1(ctl'[a].grow_acc) \in Nat
  <2>1. a \in Agents /\ ctl'[a].grow_acc \in Nat
    BY <1>1 DEF Alive, ShardingTypeOK, AgentControl
  <2> QED
    BY <1>0, <2>1, OneMore
<1>3. ASSUME NEW b \in dead', lastCheck'[a] <= diedAt'[b] + Detect
      PROVE  \E d \in dead' : lastCheck'[a] <= diedAt'[d] + Detect
                                               + Span1(ctl'[a].grow_acc)
  <2>1. diedAt'[b] \in Nat /\ lastCheck'[a] \in Nat
    BY <1>1, <1>2 DEF ShardingTypeOK
  <2> QED
    BY <1>0, <1>2, <1>3, <2>1
<1>4. CASE \E c \in Agents : Check(c)
  <2>1. PICK c \in Agents : Check(c)
    BY <1>4
  <2>2. /\ Framed(c) /\ Outcome(c) /\ FloorOutcome(c)
        /\ UNCHANGED <<now, dead, diedAt, gone>>
        /\ c \in Alive /\ a \in Alive
    BY <1>0, <2>1, CheckOutcome, CheckFloor DEF Framed, Alive
  <2>3. \A d \in Agents \ {c} : arc'[d] = arc[d]
    BY <1>0, <2>2, OthersUntouched
  <2>4. ASSUME ~(Cardinality(Holders(s)) < R)
        PROVE  \E b \in dead : b \notin gone[c]
    <3>1. ExecuteOutcome(c)
      <4>1. ExecuteOutcome(c) \/ arc' = arc
        BY <2>2 DEF Outcome, QuietOutcome, AnnounceOutcome, WaitOutcome,
           StandDownOutcome
      <4>2. arc' = arc => Holders(s)' = Holders(s)
        BY <2>2 DEF Holders, Alive
      <4> QED
        BY <2>4, <4>1, <4>2
    <3>2. s \in ctl[c].pending.vacate
      <4> SUFFICES ASSUME s \notin ctl[c].pending.vacate PROVE FALSE
        OBVIOUS
      <4>1. s \in arc[c] => s \in arc'[c]
        BY <1>0, <3>1, DropIsVacate
      <4>2. Holders(s) \in SUBSET Holders(s)' /\ Holders(s)' \in SUBSET Agents
        BY <2>2, <2>3, <4>1 DEF Holders, Alive
      <4>3. Cardinality(Holders(s)) <= Cardinality(Holders(s)')
        BY <4>2, Smaller
      <4>4. Cardinality(Holders(s)) \in Nat /\ Cardinality(Holders(s)') \in Nat
        BY <4>2, FiniteParts
      <4> QED
        BY <1>0, <2>4, <4>3, <4>4
    <3> QED
      BY <2>2, <3>1, <3>2, DropHidesDeath
  <2>5. ASSUME NEW b \in dead, b \notin gone[c]
        PROVE  now <= diedAt[b] + Detect
    BY <2>2, <2>5 DEF MarksOK
  <2>6. CASE a # c
    <3>1. ctl'[a] = ctl[a] /\ lastCheck'[a] = lastCheck[a]
      BY <1>0, <1>2, <2>2, <2>6, OthersUntouched
    <3>2. CASE Cardinality(Holders(s)) < R
      BY <2>2, <3>1, <3>2 DEF LapseOK
    <3>3. CASE ~(Cardinality(Holders(s)) < R)
      <4>1. PICK b \in dead : b \notin gone[c]
        BY <2>4, <3>3
      <4>2. now <= diedAt[b] + Detect /\ lastCheck[a] <= now
        BY <1>0, <1>2, <2>5, <4>1 DEF IInv, TimesOK
      <4>3. lastCheck'[a] <= diedAt'[b] + Detect
        BY <1>0, <1>2, <2>2, <3>1, <4>1, <4>2
      <4> QED
        BY <1>3, <2>2, <4>1, <4>3
    <3> QED
      BY <3>2, <3>3
  <2>7. CASE a = c
    <3>0. lastCheck'[a] = now
      BY <1>0, <1>2, <2>2, <2>7 DEF Framed, ShardingTypeOK
    <3>1. CASE \E b \in dead : b \notin gone[a]
      <4>1. PICK b \in dead : b \notin gone[a]
        BY <3>1
      <4>2. lastCheck'[a] <= diedAt'[b] + Detect
        BY <2>2, <2>5, <2>7, <3>0, <4>1
      <4> QED
        BY <1>3, <2>2, <4>1, <4>2
    <3>2. CASE dead \subseteq gone[a]
      <4>1. Cardinality(Holders(s)) < R
        BY <2>4, <2>7, <3>2
      <4>2. ~(ExecuteOutcome(a) /\ ctl[a].declared_level = 1)
        <5> SUFFICES ASSUME ExecuteOutcome(a), ctl[a].declared_level = 1
                     PROVE  FALSE
          OBVIOUS
        <5>1. ctl[a].pending.vacate = VacateHalf(Home[a], 1)
          BY <1>0, <1>2 DEF IInv, PendingOK, ExecuteOutcome
        <5>2. s \in ctl[a].pending.vacate
          <6>1. 0 \in Levels /\ 0 < MaxLevel /\ 0 + 1 = 1 /\ Home[a] \in Sectors
            BY <1>2, MaxLevelAssumption, HomeAssumption DEF Levels
          <6> QED
            BY <5>1, <6>1, SiblingIsVacated
        <5> QED
          BY <2>2, <2>7, <3>2, <5>2, DropHidesDeath
      <4>3. arc' = arc /\ ctl[a].target_level = 0
            /\ (IsPending(a) \/ arc[a] # BlockArc(Home[a], 0) \/ Persists(a))
        BY <2>2, <2>7, <4>2 DEF FloorOutcome
      <4>4. ~IsPending(a) /\ arc[a] = BlockArc(Home[a], 0)
        BY <1>0, <1>2, <4>3 DEF IInv, PendingOK, FloorOK
      <4>5. ctl'[a].grow_acc = ctl[a].grow_acc + 1
        BY <2>2, <3>2, <4>1, <4>3, <4>4, ShortIsSeen DEF Persists
      <4>6. PICK b \in dead : lastCheck[a] <= diedAt[b] + Detect
                                              + Span1(ctl[a].grow_acc)
        BY <2>2, <4>1, <4>3 DEF LapseOK
      <4>7. now <= lastCheck[a] + Stall + 1
        BY <1>0, <2>2 DEF IInv, TimesOK
      <4>8. /\ Span1(ctl[a].grow_acc) \in Nat
            /\ Span1(ctl[a].grow_acc + 1) = Span1(ctl[a].grow_acc) + Stall + 1
        BY <1>0, <1>2, OneMore
      <4> HIDE DEF Span1
      <4>9. lastCheck'[a] <= diedAt'[b] + Detect + Span1(ctl'[a].grow_acc)
        BY <1>0, <1>2, <2>2, <3>0, <4>5, <4>6, <4>7, <4>8
      <4> QED
        BY <2>2, <4>9 DEF Span1
    <3> QED
      BY <3>1, <3>2
  <2> QED
    BY <2>6, <2>7
<1>5. CASE \E c \in Agents : Die(c)
  <2>1. PICK c \in Agents : Die(c)
    BY <1>5
  <2>2. c \in dead' /\ diedAt'[c] = now /\ lastCheck' = lastCheck
    BY <1>0, <2>1 DEF Die, ShardingTypeOK
  <2>3. lastCheck[a] <= now
    BY <1>0, <1>2 DEF IInv, TimesOK
  <2>4. lastCheck'[a] <= diedAt'[c] + Detect
    BY <1>0, <1>2, <2>2, <2>3
  <2> QED
    BY <1>3, <2>2, <2>4
<1>6. CASE /\ UNCHANGED <<ctl, lastCheck, dead, diedAt>>
           /\ \A c \in Agents : arc[c] \subseteq arc'[c]
  <2>1. Holders(s) \in SUBSET Holders(s)' /\ Holders(s)' \in SUBSET Agents
    BY <1>6 DEF Holders, Alive
  <2>2. Cardinality(Holders(s)) <= Cardinality(Holders(s)')
        /\ Cardinality(Holders(s)) \in Nat /\ Cardinality(Holders(s)') \in Nat
    BY <2>1, Smaller, FiniteParts
  <2>3. a \in Alive /\ Cardinality(Holders(s)) < R
    BY <1>0, <1>6, <2>2 DEF Alive
  <2> QED
    BY <1>6, <2>3 DEF LapseOK
<1>7. CASE \E c \in Agents : Sync(c)
  <2>a. PICK c \in Agents : Sync(c)
    BY <1>7
  <2>1. PICK newArc : SyncOutcome(c, newArc)
    BY <2>a, SyncIs
  <2>2. \A d \in Agents : arc[d] \subseteq arc'[d]
    BY <1>0, <2>1 DEF SyncOutcome, ShardingTypeOK
  <2> QED
    BY <1>6, <2>1, <2>2 DEF SyncOutcome
<1> QED
  BY <1>4, <1>5, <1>6, <1>7
     DEF ShardingNext, Finished, Receive, MarkUnresponsive, Tick, shardingVars

(* For any number of agents and levels, any target, any delays and any     *)
(* deaths: under the same timing no live agent stands by at its smallest   *)
(* arc next to a short sector for longer than it takes the deaths to be    *)
(* marked and the grow condition to persist (GrowNeed checks, each at most *)
(* Stall late), whatever announcements and withdrawals are on their way.   *)
THEOREM ShortagesAreTaken ==
    ASSUME WellTimed, Patient
    PROVE  ShardingSpec => []RepairStarts
<1>1. ShardingInit => RepairInv
  <2> SUFFICES ASSUME ShardingInit PROVE RepairInv
    OBVIOUS
  <2>1. IInv
    BY InitSafe
  <2>2. dead = {} /\ \A a \in Agents : /\ ctl[a].target_level = MaxLevel
                                       /\ ctl[a].grow_acc = 0
    <3>1. PICK early \in [Agents -> 0..HeadStart] :
             ctl = [a \in Agents |->
                      [declared_level |-> MaxLevel, target_level |-> MaxLevel,
                       grow_acc |-> 0, shrink_acc |-> early[a],
                       pending |-> NoPending]]
      BY DEF ShardingInit
    <3>2. dead = {}
      BY DEF ShardingInit
    <3> QED
      BY <3>1, <3>2
  <2> QED
    BY <2>1, <2>2, MaxLevelAssumption, ParameterAssumption
       DEF RepairInv, MarksOK, FloorOK, LapseOK, Alive
<1>2. RepairInv /\ [ShardingNext]_shardingVars => RepairInv'
  <2> SUFFICES ASSUME RepairInv, [ShardingNext]_shardingVars PROVE RepairInv'
    OBVIOUS
  <2>1. Safe /\ IInv /\ MarksOK /\ FloorOK /\ LapseOK
    BY DEF RepairInv, Safe
  <2> QED
    BY <2>1, NextSafe, MarksKept, FloorKept, LapseKept DEF RepairInv
<1>3. RepairInv => RepairStarts
  <2> SUFFICES ASSUME RepairInv, NEW a \in Alive,
                      NEW s \in SiblingHalf(Home[a], 0),
                      Cardinality(Holders(s)) < R,
                      \A b \in dead :
                         now > diedAt[b] + Detect + (GrowNeed + 2) * (Stall + 1),
                      ~(ctl[a].target_level > 0)
               PROVE  FALSE
    BY DEF RepairStarts
  <2> DEFINE g == ctl[a].grow_acc
  <2>0. ctl[a].target_level = 0
    <3>1. ctl[a].target_level \in 0..MaxLevel
      BY DEF RepairInv, IInv, ShardingTypeOK, AgentControl, Levels, Alive
    <3> QED
      BY <3>1, MaxLevelAssumption
  <2>1. /\ a \in Agents /\ g \in Nat /\ GrowNeed \in Nat /\ Stall \in Nat
        /\ Detect \in Nat /\ now \in Nat /\ lastCheck[a] \in Nat
        /\ dead \subseteq Agents
        /\ now <= lastCheck[a] + Stall + 1
        /\ g <= GrowNeed
    BY ParameterAssumption
       DEF RepairInv, IInv, ShardingTypeOK, TimesOK, FloorOK, Alive, AgentControl
  <2>2. PICK b \in dead :
           lastCheck[a] <= diedAt[b] + Detect + (g + 1) * (Stall + 1)
    BY <2>0 DEF RepairInv, LapseOK
  <2> HIDE DEF g
  <2>3. /\ (g + 1) * (Stall + 1) <= (GrowNeed + 1) * (Stall + 1)
        /\ (g + 1) * (Stall + 1) \in Nat /\ (GrowNeed + 1) * (Stall + 1) \in Nat
        /\ (GrowNeed + 2) * (Stall + 1) = (GrowNeed + 1) * (Stall + 1) + Stall + 1
    <3>1. (g + 1) * (Stall + 1) <= (GrowNeed + 1) * (Stall + 1)
      <4>1. ~((GrowNeed + 1) * (Stall + 1) < (g + 1) * (Stall + 1))
        BY <2>1, Cancel
      <4> QED
        BY <2>1, <4>1, OneMore
    <3> QED
      BY <2>1, <3>1, OneMore
  <2>4. diedAt[b] \in Nat
    BY <2>1, <2>2 DEF RepairInv, IInv, ShardingTypeOK
  <2>5. now > diedAt[b] + Detect + (GrowNeed + 2) * (Stall + 1)
    BY <2>2
  <2> QED
    BY <2>1, <2>2, <2>3, <2>4, <2>5
<1> QED
  BY <1>1, <1>2, <1>3, PTL DEF ShardingSpec
====
