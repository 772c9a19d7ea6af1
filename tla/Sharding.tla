---- MODULE Sharding ----
(***************************************************************************)
(* The sharding controller of the gossip crate                             *)
(* (crates/gossip/src/sharding/): each agent watches how many peers        *)
(* declare each sector and widens or narrows its own storage arc, one      *)
(* block level at a time.  A shrink is announced, re-checked after a wait  *)
(* and only then executed; everything an agent acts on is a view of the    *)
(* others that is up to Lag old.                                           *)
(*                                                                         *)
(* One agent per node.  The clock counts check intervals.  Agent infos     *)
(* (the declared arcs), shrink intents and withdrawals travel in posts and *)
(* arrive in any order, each at most Lag after it was sent; a check may    *)
(* run up to Stall late.                                                   *)
(***************************************************************************)
EXTENDS Blocks, FiniteSets

CONSTANTS
    Agents,       \* agent ids; AgentId is ordered, so ids are numbers
    Home,         \* [Agents -> Sectors]: home_sector of each agent
    R,            \* target_redundancy
    ClampMinPeers,\* clamp_min_peers
    Wait,         \* wait_for(lag): announce to re-check
    GrowNeed,     \* lag * grow_persistence
    ShrinkNeed,   \* lag * shrink_persistence
    Lag,          \* bound on the age of what an agent sees of another
    Stall,        \* how late a check may run
    Detect,       \* how soon a dead peer is marked unresponsive
    Patient,      \* patient_lowest (V6, the default) or the lower id (V3)
    Alongside,    \* announce_alongside
    Withdraw,     \* withdraw_on_stand_down
    Quiet,        \* agents that may go unheard for a wait while alive
    HeadStart,    \* bound: checks an agent may have made before the others
    MaxDeaths,    \* bound: how many agents may die
    Horizon       \* bound: where the clock stops

ASSUME AgentsAssumption == Agents \subseteq Nat /\ IsFiniteSet(Agents)
ASSUME HomeAssumption == Home \in [Agents -> Sectors]
ASSUME ParameterAssumption ==
    /\ {R, ClampMinPeers, Wait, GrowNeed, ShrinkNeed, Lag, Stall, Detect,
        HeadStart, MaxDeaths, Horizon} \subseteq Nat
    /\ {Patient, Alongside, Withdraw} \subseteq BOOLEAN
    /\ Quiet \subseteq Agents
    /\ R <= Cardinality(Agents)

VARIABLES
    now,       \* the clock
    dead,      \* the agents that have crashed
    diedAt,    \* when (0 for a live agent)
    arc,       \* cur_storage_arc of each agent, the arc it declares
    ver,       \* created_at of its latest agent info, as a version
    ctl,       \* AgentControl of each agent
    intents,   \* IntentTable of each agent; its own intent under its own id
    seen,      \* peer store: the agent info each agent holds of each other
    gone,      \* peers marked unresponsive at each agent
    lastGone,  \* last_gone of each agent
    lastCheck, \* when each agent's check task last ran
    posts      \* what is in flight

shardingVars == <<now, dead, diedAt, arc, ver, ctl, intents, seen, gone, lastGone,
                  lastCheck, posts>>

----------------------------------------------------------------------------
(* State shapes.  An absent intent expired at time 0; an absent pending    *)
(* shrink vacates nothing.                                                 *)

Intent  == [vacate : SUBSET Sectors, expires_at : Nat]
Pending == [execute_at : Nat, vacate : SUBSET Sectors, expires_at : Nat]
AgentControl == [declared_level : Levels, target_level : Levels,
                 grow_acc : Nat, shrink_acc : Nat, pending : Pending]
Message ==
    [type : {"info"}, from : Agents, to : Agents, at : Nat,
     arc : SUBSET Sectors, ver : Nat]
      \cup
    [type : {"intent", "withdraw"}, from : Agents, to : Agents, at : Nat,
     vacate : SUBSET Sectors, expires_at : Nat]

NoIntent  == [vacate |-> {}, expires_at |-> 0]
NoPending == [execute_at |-> 0, vacate |-> {}, expires_at |-> 0]

Alive == Agents \ dead

----------------------------------------------------------------------------
(* What an agent sees.                                                     *)

(* others_coverage and add_arc: the copies of s declared by peers outside  *)
(* skip.                                                                   *)
Declaring(a, skip, s) ==
    {b \in Agents \ ({a} \cup skip) : s \in seen[a][b].arc}

(* subtract_sectors, once per counted intent, saturates at zero. *)
CoverageWithout(holders, leavers) ==
    LET n == Cardinality(holders)
        k == Cardinality(leavers)
    IN  IF k <= n THEN n - k ELSE 0

(* IntentTable::live and retain_declared: the other agents whose           *)
(* unexpired intent lies inside the arc they are seen to declare.          *)
LiveIntenders(a) ==
    {b \in Agents \ {a} :
        /\ intents[a][b].expires_at > now
        /\ intents[a][b].vacate # {}
        /\ intents[a][b].vacate \subseteq seen[a][b].arc}

Overlapping(a, range) ==
    {b \in LiveIntenders(a) : intents[a][b].vacate \cap range # {}}

Leaving(a, who, s) == {b \in who : s \in intents[a][b].vacate}

(* min_over(eff, range) >= n, for the coverage eff left when the agents    *)
(* outside skip hold what they declare and those in who vacate.            *)
CoveredBy(a, skip, who, range, n) ==
    \A s \in range :
        CoverageWithout(Declaring(a, skip, s), Leaving(a, who, s)) >= n

(* lower_racer: a lower id is announcing a vacate of a sector of range. *)
LowerRacer(a, range) == \E b \in Overlapping(a, range) : b < a

(* room_alongside: range stays at target after every lower racer leaves. *)
RoomAlongside(a, skip, range) ==
    CoveredBy(a, skip, {b \in Overlapping(a, range) : b < a}, range, R)

(* shrink_recheck (V3): only lower ids count as gone. *)
ShrinkRecheck(a, skip, range) ==
    CoveredBy(a, skip, {b \in LiveIntenders(a) : b < a}, range, R)

(* Mutants of PatientRecheck: only lower racers count as gone; or a tie is *)
(* never waited out.                                                       *)
PatientRecheckLowerOnly(a, skip, range) ==
    IF CoveredBy(a, skip, {b \in Overlapping(a, range) : b < a}, range, R)
    THEN "Proceed" ELSE "StandDown"

PatientRecheckNoWait(a, skip, range) ==
    IF CoveredBy(a, skip, Overlapping(a, range), range, R)
    THEN "Proceed" ELSE "StandDown"

(* patient_recheck (V6): every overlapping intender counts as gone; the    *)
(* lowest of them waits instead of standing down.                          *)
PatientRecheck(a, skip, range) ==
    IF CoveredBy(a, skip, Overlapping(a, range), range, R)
    THEN "Proceed"
    ELSE IF /\ \E b \in Overlapping(a, range) : b > a
            /\ ~LowerRacer(a, range)
         THEN "Wait"
         ELSE "StandDown"

Recheck(a, skip, range) ==
    IF Patient
    THEN PatientRecheck(a, skip, range)
    ELSE IF ShrinkRecheck(a, skip, range) THEN "Proceed" ELSE "StandDown"

(* Mutant of GrowCondition: unresponsive peers still count as holders. *)
GrowConditionCountingGone(a, level) ==
    /\ level < MaxLevel
    /\ ~CoveredBy(a, {}, LiveIntenders(a), SiblingHalf(Home[a], level), R)

(* The grow view: every other announced vacate counts as gone. *)
GrowCondition(a, level) ==
    /\ level < MaxLevel
    /\ ~CoveredBy(a, gone[a], LiveIntenders(a), SiblingHalf(Home[a], level), R)

ShrinkCondition(a, skip, level) ==
    /\ level > 0
    /\ CoveredBy(a, skip, {}, VacateHalf(Home[a], level), R + 1)

(* Mutant of SilentPeers: recent contact is not required. *)
SilentPeersUnchecked(a) == SUBSET ((dead \cup Quiet) \ {a})

(* Contact is noted at the first check that finds completed_rounds gone    *)
(* up, and is fresh for a wait: what a dead agent sent is in within Lag,   *)
(* and the next check at most one interval and Stall later.                *)
SilentAfter == Lag + 1 + Stall + Wait

(* silent_peers: an agent not heard from for a wait.  A dead agent has     *)
(* certainly fallen silent SilentAfter its death; a live one does only if  *)
(* its gossip rounds are that sparse.                                      *)
SilentPeers(a) ==
    LET certain == {b \in dead : now >= diedAt[b] + SilentAfter}
    IN  {certain \cup q : q \in SUBSET ((dead \cup Quiet) \ {a})}

VisiblePeers(a) == Cardinality(Agents \ gone[a])

----------------------------------------------------------------------------
(* Messages.                                                               *)

(* broadcast: every peer not marked unresponsive; one that is dead is not  *)
(* reached.                                                                *)
Reachable(a) == Agents \ ({a} \cup gone[a] \cup dead)

SendIntent(type, a, range, expiry) ==
    {[type |-> type, from |-> a, to |-> b, at |-> now, vacate |-> range,
      expires_at |-> expiry] : b \in Reachable(a)}

(* invoke_cb: the agent info is signed again with the new arc and spread   *)
(* by publishing and gossip.                                               *)
SendInfo(a, newArc) ==
    {[type |-> "info", from |-> a, to |-> b, at |-> now, arc |-> newArc,
      ver |-> ver[a] + 1] : b \in Agents \ ({a} \cup dead)}

(* Declare a new current arc and publish it. *)
SetCurStorageArc(a, newArc, sent) ==
    /\ arc' = [arc EXCEPT ![a] = newArc]
    /\ ver' = [ver EXCEPT ![a] = @ + 1]
    /\ posts' = posts \cup sent \cup SendInfo(a, newArc)

KeepCurStorageArc(sent) ==
    /\ posts' = posts \cup sent
    /\ UNCHANGED <<arc, ver>>

----------------------------------------------------------------------------
(* The check task: one controller tick of agent a.                         *)

(* The storm brake: a peer marked unresponsive since the last check        *)
(* cancels the pending shrink before anything is decided.  The             *)
(* cancellation is not broadcast.                                          *)
Brake(a) == gone[a] \ lastGone[a] # {} /\ ctl[a].pending # NoPending

Braked(a) ==
    IF Brake(a)
    THEN [ctl[a] EXCEPT !.pending = NoPending, !.shrink_acc = 0]
    ELSE ctl[a]

(* The table after live() has purged it and, braked, our own intent went. *)
Purged(a) ==
    [b \in Agents |->
        IF intents[a][b].expires_at > now /\ ~(b = a /\ Brake(a))
        THEN intents[a][b] ELSE NoIntent]

(* Effects shared by every outcome of the check. *)
Checked(a, c, table) ==
    /\ ctl' = [ctl EXCEPT ![a] = c]
    /\ intents' = [intents EXCEPT ![a] = table]
    /\ lastGone' = [lastGone EXCEPT ![a] = gone[a]]
    /\ lastCheck' = [lastCheck EXCEPT ![a] = now]
    /\ UNCHANGED <<now, dead, diedAt, seen, gone>>

(* execute_intent, outcome Proceed: drop the vacated half. *)
ExecuteShrink(a, c) ==
    LET level == c.declared_level - 1
    IN  /\ Checked(a, [c EXCEPT !.declared_level = level,
                                !.target_level = level,
                                !.grow_acc = 0, !.shrink_acc = 0,
                                !.pending = NoPending],
                   [Purged(a) EXCEPT ![a] = NoIntent])
        /\ SetCurStorageArc(a, BlockArc(Home[a], level), {})

(* execute_intent, outcome Wait: look again at the next interval and keep  *)
(* the intent live at peers until then (refreshed_expiry).                 *)
WaitLonger(a, c) ==
    LET next  == now + 1
        due   == c.pending.expires_at < next + Wait
        until == IF due THEN next + Wait + Wait ELSE c.pending.expires_at
    IN  /\ Checked(a, [c EXCEPT !.pending.execute_at = next,
                                !.pending.expires_at = until],
                   IF due
                   THEN [Purged(a) EXCEPT ![a] =
                            [vacate |-> c.pending.vacate, expires_at |-> until]]
                   ELSE Purged(a))
        /\ KeepCurStorageArc(IF due
                             THEN SendIntent("intent", a, c.pending.vacate, until)
                             ELSE {})

(* execute_intent, outcome StandDown: keep the half and withdraw. *)
StandDown(a, c) ==
    /\ Checked(a, [c EXCEPT !.shrink_acc = 0, !.pending = NoPending],
               [Purged(a) EXCEPT ![a] = NoIntent])
    /\ KeepCurStorageArc(IF Withdraw
                         THEN SendIntent("withdraw", a, c.pending.vacate,
                                         c.pending.expires_at)
                         ELSE {})

ExecuteIntent(a, c, skip) ==
    LET outcome == Recheck(a, skip, c.pending.vacate)
    IN  \/ outcome = "Proceed"   /\ ExecuteShrink(a, c)
        \/ outcome = "Wait"      /\ WaitLonger(a, c)
        \/ outcome = "StandDown" /\ StandDown(a, c)

(* start_grow: widen the target; the arc follows as sectors sync. *)
StartGrow(a, c) ==
    /\ Checked(a, [c EXCEPT !.target_level = c.declared_level + 1,
                            !.grow_acc = 0, !.shrink_acc = 0,
                            !.pending = NoPending],
               [Purged(a) EXCEPT ![a] = NoIntent])
    /\ KeepCurStorageArc({})

(* Mutant of AnnounceShrink: the intent lapses at the re-check. *)
AnnounceShrinkNoGrace(a, c) ==
    LET range  == VacateHalf(Home[a], c.declared_level)
        expiry == now + Wait
    IN  /\ Checked(a, [c EXCEPT !.pending = [execute_at |-> now + Wait,
                                             vacate |-> range,
                                             expires_at |-> expiry]],
                   [Purged(a) EXCEPT ![a] = [vacate |-> range,
                                             expires_at |-> expiry]])
        /\ KeepCurStorageArc(SendIntent("intent", a, range, expiry))

(* announce_shrink: start the clock, record the intent and broadcast it. *)
AnnounceShrink(a, c) ==
    LET range  == VacateHalf(Home[a], c.declared_level)
        expiry == now + Wait + Wait
    IN  /\ Checked(a, [c EXCEPT !.pending = [execute_at |-> now + Wait,
                                             vacate |-> range,
                                             expires_at |-> expiry]],
                   [Purged(a) EXCEPT ![a] = [vacate |-> range,
                                             expires_at |-> expiry]])
        /\ KeepCurStorageArc(SendIntent("intent", a, range, expiry))

Hold(a, c) == Checked(a, c, Purged(a)) /\ KeepCurStorageArc({})

(* The accumulators count check intervals for which a condition held. *)
Accumulate(a, c, skip) ==
    [c EXCEPT !.declared_level = c.target_level,
              !.grow_acc   = IF GrowCondition(a, c.target_level)
                             THEN @ + 1 ELSE 0,
              !.shrink_acc = IF ShrinkCondition(a, skip, c.target_level)
                             THEN @ + 1 ELSE 0]

(* Patient lowest yields to a lower racer at announcement, unless there is *)
(* room for both.                                                          *)
Yields(a, c, skip) ==
    LET range == VacateHalf(Home[a], c.declared_level)
    IN  /\ Patient
        /\ LowerRacer(a, range)
        /\ ~(Alongside /\ RoomAlongside(a, skip, range))

(* tick_agent once nothing is pending and the arc matches the target. *)
Decide(a, c0, skip) ==
    LET c       == Accumulate(a, c0, skip)
        settled == [c0 EXCEPT !.declared_level = c0.target_level]
        grows   == GrowCondition(a, c.declared_level) /\ c.grow_acc >= GrowNeed
        shrinks == /\ ShrinkCondition(a, skip, c.declared_level)
                   /\ c.shrink_acc >= ShrinkNeed
    IN  \/ /\ VisiblePeers(a) < ClampMinPeers
           /\ IF settled.declared_level < MaxLevel
              THEN StartGrow(a, settled) ELSE Hold(a, settled)
        \/ /\ VisiblePeers(a) >= ClampMinPeers
           /\ \/ grows /\ StartGrow(a, c)
              \/ ~grows /\ shrinks /\ ~Yields(a, c, skip) /\ AnnounceShrink(a, c)
              \/ ~grows /\ (shrinks => Yields(a, c, skip)) /\ Hold(a, c)

(* tick_agent: a pending shrink first, then nothing until the arc has      *)
(* caught up with the target.                                              *)
TickAgent(a, c, skip) ==
    \/ /\ c.pending # NoPending
       /\ now >= c.pending.execute_at
       /\ ExecuteIntent(a, c, skip)
    \/ /\ c.pending # NoPending
       /\ now < c.pending.execute_at
       /\ Hold(a, c)
    \/ /\ c.pending = NoPending
       /\ arc[a] # BlockArc(Home[a], c.target_level)
       /\ Hold(a, c)
    \/ /\ c.pending = NoPending
       /\ arc[a] = BlockArc(Home[a], c.target_level)
       /\ Decide(a, c, skip)

(* check: the storm brake, then a tick on what is neither gone nor silent. *)
Check(a) ==
    /\ a \in Alive
    /\ now > lastCheck[a]
    /\ \E silent \in SilentPeers(a) : TickAgent(a, Braked(a), gone[a] \cup silent)

----------------------------------------------------------------------------
(* The other actors.                                                       *)

(* update_storage_arcs: verified sectors extend the current arc towards    *)
(* the target.                                                             *)
Sync(a) ==
    /\ a \in Alive
    /\ \E newArc \in SUBSET BlockArc(Home[a], ctl[a].target_level) :
          /\ arc[a] \subseteq newArc
          /\ arc[a] # newArc
          /\ SetCurStorageArc(a, newArc, {})
    /\ UNCHANGED <<now, dead, diedAt, ctl, intents, seen, gone, lastGone,
                   lastCheck>>

(* PeerStore::insert keeps the newer of two infos of an agent. *)
ReceiveInfo(m) ==
    /\ m.type = "info"
    /\ seen' = IF m.ver > seen[m.to][m.from].ver
               THEN [seen EXCEPT ![m.to][m.from] =
                        [arc |-> m.arc, ver |-> m.ver]]
               ELSE seen
    /\ UNCHANGED intents

(* receive_intent: file an announcement that has not lapsed. *)
ReceiveIntent(m) ==
    /\ m.type = "intent"
    /\ intents' = IF m.expires_at > now
                  THEN [intents EXCEPT ![m.to][m.from] =
                           [vacate |-> m.vacate, expires_at |-> m.expires_at]]
                  ELSE intents
    /\ UNCHANGED seen

(* IntentTable::withdraw: only the announcement with that expiry goes. *)
ReceiveWithdraw(m) ==
    /\ m.type = "withdraw"
    /\ intents' = IF intents[m.to][m.from].expires_at = m.expires_at
                  THEN [intents EXCEPT ![m.to][m.from] = NoIntent]
                  ELSE intents
    /\ UNCHANGED seen

Receive(m) ==
    /\ m \in posts
    /\ posts' = posts \ {m}
    /\ ReceiveInfo(m) \/ ReceiveIntent(m) \/ ReceiveWithdraw(m)
    /\ UNCHANGED <<now, dead, diedAt, arc, ver, ctl, gone, lastGone, lastCheck>>

(* A node crashes; nothing of it is recovered and nothing reaches it. *)
Die(a) ==
    /\ a \in Alive
    /\ Cardinality(dead) < MaxDeaths
    /\ dead' = dead \cup {a}
    /\ diedAt' = [diedAt EXCEPT ![a] = now]
    /\ posts' = {m \in posts : m.to # a}
    /\ UNCHANGED <<now, arc, ver, ctl, intents, seen, gone, lastGone, lastCheck>>

(* A failed send marks the dead peer unresponsive. *)
MarkUnresponsive(a, b) ==
    /\ a \in Alive
    /\ b \in dead \ gone[a]
    /\ gone' = [gone EXCEPT ![a] = @ \cup {b}]
    /\ UNCHANGED <<now, dead, diedAt, arc, ver, ctl, intents, seen, lastGone,
                   lastCheck, posts>>

(* Time passes only when no message, no check and no mark is overdue. *)
Tick ==
    /\ now < Horizon
    /\ \A m \in posts : now < m.at + Lag
    /\ \A a \in Alive : now <= lastCheck[a] + Stall
    /\ \A a \in Alive : \A b \in dead \ gone[a] : now < diedAt[b] + Detect
    /\ now' = now + 1
    /\ UNCHANGED <<dead, diedAt, arc, ver, ctl, intents, seen, gone, lastGone,
                   lastCheck, posts>>

(* A network at full arcs whose views have settled.  Agents that started   *)
(* earlier have already seen the shrink condition hold for a few checks.   *)
ShardingInit ==
    /\ now = 0
    /\ dead = {}
    /\ diedAt = [a \in Agents |-> 0]
    /\ arc = [a \in Agents |-> BlockArc(Home[a], MaxLevel)]
    /\ ver = [a \in Agents |-> 0]
    /\ \E early \in [Agents -> 0..HeadStart] :
          ctl = [a \in Agents |->
                   [declared_level |-> MaxLevel, target_level |-> MaxLevel,
                    grow_acc |-> 0, shrink_acc |-> early[a],
                    pending |-> NoPending]]
    /\ intents = [a \in Agents |-> [b \in Agents |-> NoIntent]]
    /\ seen = [a \in Agents |->
                 [b \in Agents |-> [arc |-> BlockArc(Home[b], MaxLevel),
                                    ver |-> 0]]]
    /\ gone = [a \in Agents |-> {}]
    /\ lastGone = [a \in Agents |-> {}]
    /\ lastCheck = [a \in Agents |-> 0]
    /\ posts = {}

(* The clock has stopped and nothing is left to do. *)
Finished ==
    /\ now = Horizon
    /\ UNCHANGED shardingVars

ShardingNext ==
    \/ \E a \in Agents : Check(a) \/ Sync(a) \/ Die(a)
    \/ \E a, b \in Agents : MarkUnresponsive(a, b)
    \/ \E m \in posts : Receive(m)
    \/ Tick
    \/ Finished

ShardingSpec == ShardingInit /\ [][ShardingNext]_shardingVars

----------------------------------------------------------------------------
(* Properties.                                                             *)

(* Levels stay within 0..MAX_LEVEL and arcs on the ring, through every     *)
(* start_grow and execute_intent.                                          *)
ShardingTypeOK ==
    /\ now \in Nat
    /\ dead \subseteq Agents
    /\ diedAt \in [Agents -> Nat]
    /\ arc \in [Agents -> SUBSET Sectors]
    /\ ver \in [Agents -> Nat]
    /\ ctl \in [Agents -> AgentControl]
    /\ intents \in [Agents -> [Agents -> Intent]]
    /\ seen \in [Agents -> [Agents -> [arc : SUBSET Sectors, ver : Nat]]]
    /\ gone \in [Agents -> SUBSET Agents]
    /\ lastGone \in [Agents -> SUBSET Agents]
    /\ lastCheck \in [Agents -> Nat]
    /\ posts \subseteq Message

Holders(s) == {a \in Alive : s \in arc[a]}

(* No sequence of shrinks takes a sector below the target: what is missing *)
(* from R copies was taken by crashes (patient_recheck and the intent      *)
(* wait of announce_shrink).                                               *)
AtTarget ==
    \A s \in Sectors : Cardinality(Holders(s)) + Cardinality(dead) >= R

(* The agents a may still rely on for sector s: those that store it and    *)
(* are alive, or died so recently that a can have neither a mark nor a     *)
(* wait's silence to tell by.                                              *)
ReliedOn(a, s) ==
    {b \in Agents \ {a} :
        /\ s \in arc[b]
        /\ b \in Alive \/ (b \notin gone[a] /\ now < diedAt[b] + SilentAfter)}

(* Whoever drops a sector (execute_intent) leaves R copies of it behind:   *)
(* neither a peer that has itself left nor one whose death it had the      *)
(* means to know of makes up the number.                                   *)
ShrinkLeavesTarget ==
    [][\A a \in Agents : \A s \in arc[a] \ arc'[a] :
          Cardinality(ReliedOn(a, s)) >= R]_shardingVars

(* A sector a peer is still seen to declare but no longer stores is one    *)
(* that peer announced, and the announcement is still in force in the      *)
(* intent table: nobody is counted as a holder after leaving.              *)
PhantomAnnounced ==
    \A a \in Alive : \A b \in Agents \ {a} :
        \A s \in seen[a][b].arc \ arc[b] :
            b \in LiveIntenders(a) /\ s \in intents[a][b].vacate

(* Identical intenders do not cancel each other forever: when every agent  *)
(* sees a copy to spare, the lowest racer has left once it has announced,  *)
(* waited, and the others' withdrawals have reached it                     *)
(* (patient_recheck's Wait outcome).                                       *)
RaceResolves ==
    (/\ dead = {}
     /\ Cardinality(Agents) > R + 1
     /\ now > ShrinkNeed + Wait + Lag + 1)
    => \E a \in Agents : ver[a] > 0

(* No live agent stands by at its smallest arc while a sector of the half  *)
(* next to it is short of the target: once the deaths have been marked and *)
(* the grow condition has persisted, each check at most Stall late, its    *)
(* target has been widened over that half (start_grow by way of grow_cond  *)
(* or of the small-network clamp).                                         *)
RepairStarts ==
    \A a \in Alive : \A s \in SiblingHalf(Home[a], 0) :
        (/\ Cardinality(Holders(s)) < R
         /\ \A b \in dead :
               now > diedAt[b] + Detect + (GrowNeed + 2) * (Stall + 1))
        => ctl[a].target_level > 0
====
