---- MODULE PeerMeta ----
(***************************************************************************)
(* What a node remembers of its peers by url, and what the sharding        *)
(* controller concludes from it: the peer meta store of gossip             *)
(* (crates/gossip/src/peer_meta_store.rs over the host's PeerMetaStore),   *)
(* its round counters and unresponsive marks, and the parts of the check   *)
(* in sharding/controller.rs that read them: silent_peers, lag_estimate    *)
(* and probe_holders.                                                      *)
(*                                                                         *)
(* The store outlives a restart of the node and drops what has expired, as *)
(* PeerMetaStore asks of the host; contact and last_probe are in memory.   *)
(* The peers here all hold sectors of the half the agent would grow into.  *)
(* A mark lapses with the agent info it was made for; an info the peer     *)
(* signed before it died may still arrive later.                           *)
(***************************************************************************)
EXTENDS Integers, FiniteSets

CONSTANTS
    Contacts,     \* urls of the peers
    Rounds,       \* handlers of gossip messages that may end at once
    Every,        \* check_interval
    LagFloor, LagCeiling,
    IntentWait,   \* intent_wait, a factor
    MinWait,      \* intent_min_wait
    ProbeEvery,   \* probe_interval
    SendTime,     \* how long a send to a dead peer takes to fail
    InfoLife,     \* how long an agent info is valid
    CountLife,    \* expiry of a counter
    ResignAt,     \* what is left of an info when it is signed again
    MaxRestarts,  \* bound: how often the node restarts
    MaxCount,     \* bound: how far a counter goes
    LastTick      \* bound: where the clock stops

ASSUME PeerMetaAssumption ==
    /\ {LagFloor, ResignAt, IntentWait, MinWait, SendTime, MaxRestarts, MaxCount,
        LastTick} \subseteq Nat
    /\ {Every, ProbeEvery, InfoLife, CountLife} \subseteq Nat \ {0}
    /\ LagCeiling \in Nat /\ LagFloor <= LagCeiling

Never == -1

VARIABLES
    clock,
    death,     \* when each peer died, or Never
    signed,    \* when the latest agent info of each peer expires
    info,      \* when the one in the peer store does
    arrived,   \* history: when an info of a dead peer last arrived
    completed, \* gossip:completed_rounds of each url
    mark,      \* root:unresponsive
    ending,    \* the rounds that are being counted: what was read
    contact,   \* K2Sharding::contact: the count last seen, when it went up
    lastProbe, \* K2Sharding::last_probe
    probing,   \* since when a probe is on its way, or Never
    checked,   \* when the check last ran
    growers,   \* peers the last check counted as holders, for growing
    stayers,   \* and those it counted for shrinking
    restarts

peerMetaVars == <<clock, death, signed, info, arrived, completed, mark,
                  ending, contact, lastProbe, probing, checked, growers, stayers, restarts>>

infos   == <<signed, info, arrived>>
stored  == <<completed, mark>>
learned == <<contact, lastProbe, checked, growers, stayers>>

----------------------------------------------------------------------------
(* The store.  An entry is a value and when it expires.                    *)

Absent == [value |-> 0, until |-> 0]

Put(value, life) == [value |-> value, until |-> clock + life]

Present(entry) == clock < entry.until

Get(entry) == IF Present(entry) THEN entry.value ELSE 0

(* Urls with an unresponsive mark (get_unresponsive, get_all_by_key). *)
Marked == {p \in Contacts : Present(mark[p])}

----------------------------------------------------------------------------
(* Gossip with a peer.                                                     *)

(* A peer signs its info again, and the peer store gets it, now or later.  *)
SignInfo(p) ==
    /\ death[p] = Never
    /\ signed[p] <= clock + ResignAt
    /\ signed' = [signed EXCEPT ![p] = clock + InfoLife]
    /\ UNCHANGED <<clock, death, info, arrived, stored, ending, learned, probing,
                   restarts>>

ReceiveInfo(p) ==
    /\ info[p] < signed[p]
    /\ clock < signed[p]
    /\ info' = [info EXCEPT ![p] = signed[p]]
    /\ arrived' = IF death[p] = Never THEN arrived
                  ELSE [arrived EXCEPT ![p] = clock]
    /\ UNCHANGED <<clock, death, signed, stored, ending, learned, probing,
                   restarts>>

(* incr_completed_rounds, like every counter, reads first ...              *)
RoundEnds(t, p) ==
    /\ death[p] = Never
    /\ ending[t] = Absent
    /\ Get(completed[p]) < MaxCount
    /\ ending' = [ending EXCEPT ![t] = [peer |-> p, read |-> Get(completed[p])]]
    /\ UNCHANGED <<clock, death, infos, stored, learned, probing, restarts>>

(* ... and writes what it read plus one, whoever wrote in between. *)
CountRound(t) ==
    /\ ending[t] # Absent
    /\ completed' = [completed EXCEPT ![ending[t].peer] =
                        Put(ending[t].read + 1, CountLife)]
    /\ ending' = [ending EXCEPT ![t] = Absent]
    /\ UNCHANGED <<clock, death, infos, mark, learned, probing, restarts>>

----------------------------------------------------------------------------
(* The check.                                                              *)

(* lag_estimate: how long ago the less recent peers gossiped, within its   *)
(* bounds; with no gossip yet, the upper one.                              *)
LagEstimate == LagFloor..LagCeiling

WaitFor(lag) == IF lag * IntentWait > MinWait THEN lag * IntentWait ELSE MinWait

Unseen == [count |-> Never, heard |-> Never]

(* Mutant of Observed: a url seen for the first time starts from zero. *)
ObservedFromZero(p) ==
    LET n   == Get(completed[p])
        old == IF contact[p] = Unseen THEN [count |-> 0, heard |-> Never]
                                      ELSE contact[p]
    IN  IF n > old.count THEN [count |-> n, heard |-> clock] ELSE old

(* The record of a peer after its counter was read: contact is a counter   *)
(* that went up.                                                           *)
Observed(p) ==
    LET n   == Get(completed[p])
        old == IF contact[p] = Unseen THEN [count |-> n, heard |-> Never]
                                      ELSE contact[p]
    IN  IF n > old.count THEN [count |-> n, heard |-> clock] ELSE old

(* silent_peers *)
Silent(peers, lag) ==
    {p \in peers : \/ Observed(p).heard = Never
                   \/ clock - Observed(p).heard >= WaitFor(lag)}

ProbeDue(p) == lastProbe[p] = Never \/ clock - lastProbe[p] >= ProbeEvery

Check ==
    \E lag \in LagEstimate :
    LET present == {p \in Contacts : clock < info[p]} \ Marked
        due     == {p \in present : ProbeDue(p)}
    IN  /\ clock >= checked + Every
        /\ checked' = clock
        /\ growers' = present
        /\ stayers' = present \ Silent(present, lag)
        /\ contact' = [p \in Contacts |->
                          IF p \in present THEN Observed(p) ELSE contact[p]]
        /\ lastProbe' = [p \in Contacts |->
                            IF p \in due THEN clock ELSE lastProbe[p]]
        /\ probing' = [p \in Contacts |->
                          IF p \in due /\ probing[p] = Never THEN clock
                          ELSE probing[p]]
        /\ UNCHANGED <<clock, death, infos, stored, ending, restarts>>

(* set_unresponsive: a mark for as long as the info of the url is valid. *)
SetUnresponsive(p) ==
    mark' = IF clock < info[p]
            THEN [mark EXCEPT ![p] = Put(clock, info[p] - clock)] ELSE mark

(* The send of a probe ends; if the peer is dead it fails, which marks the *)
(* url unresponsive.                                                       *)
ProbeEnds(p) ==
    /\ probing[p] # Never
    /\ probing' = [probing EXCEPT ![p] = Never]
    /\ IF death[p] = Never THEN UNCHANGED mark ELSE SetUnresponsive(p)
    /\ UNCHANGED <<clock, death, infos, completed, ending, learned, restarts>>

----------------------------------------------------------------------------
(* What happens to the nodes.                                              *)

PeerDies(p) ==
    /\ death[p] = Never
    /\ \A t \in Rounds : ending[t] # Absent => ending[t].peer # p
    /\ death' = [death EXCEPT ![p] = clock]
    /\ UNCHANGED <<clock, infos, stored, ending, learned, probing, restarts>>

Forgetful ==
    /\ ending' = [t \in Rounds |-> Absent]
    /\ contact' = [p \in Contacts |-> Unseen]
    /\ lastProbe' = [p \in Contacts |-> Never]
    /\ probing' = [p \in Contacts |-> Never]
    /\ checked' = clock
    /\ growers' = {}
    /\ stayers' = {}

Restart ==
    /\ restarts < MaxRestarts
    /\ restarts' = restarts + 1
    /\ Forgetful
    /\ UNCHANGED <<clock, death, infos, stored>>

(* Time passes once counters are written, the check has run, and no send   *)
(* is overdue.                                                             *)
PassTime ==
    /\ clock < LastTick
    /\ \A t \in Rounds : ending[t] = Absent
    /\ clock < checked + Every
    /\ \A p \in Contacts : probing[p] # Never => clock < probing[p] + SendTime
    /\ clock' = clock + 1
    /\ UNCHANGED <<death, infos, stored, ending, learned, probing, restarts>>

PeerMetaInit ==
    /\ clock = 0
    /\ death = [p \in Contacts |-> Never]
    /\ signed = [p \in Contacts |-> InfoLife]
    /\ info = [p \in Contacts |-> InfoLife]
    /\ arrived = [p \in Contacts |-> 0]
    /\ completed = [p \in Contacts |-> Absent]
    /\ mark = [p \in Contacts |-> Absent]
    /\ ending = [t \in Rounds |-> Absent]
    /\ contact = [p \in Contacts |-> Unseen]
    /\ lastProbe = [p \in Contacts |-> Never]
    /\ probing = [p \in Contacts |-> Never]
    /\ checked = 0
    /\ growers = {}
    /\ stayers = {}
    /\ restarts = 0

PeerMetaNext ==
    \/ \E p \in Contacts : SignInfo(p)
    \/ \E p \in Contacts : ReceiveInfo(p)
    \/ \E t \in Rounds, p \in Contacts : RoundEnds(t, p)
    \/ \E t \in Rounds : CountRound(t)
    \/ Check
    \/ \E p \in Contacts : ProbeEnds(p)
    \/ \E p \in Contacts : PeerDies(p)
    \/ Restart
    \/ PassTime

PeerMetaSpec == PeerMetaInit /\ [][PeerMetaNext]_peerMetaVars

----------------------------------------------------------------------------
(* Properties.                                                             *)

MaxWait == IF LagCeiling * IntentWait > MinWait THEN LagCeiling * IntentWait
                                                ELSE MinWait

Later(a, b) == IF a > b THEN a ELSE b

\* Since when nothing new may speak for a dead peer: its death, the lapse of
\* the last mark on it, or the late arrival of an info it had signed.
Since(p) == Later(arrived[p], Later(death[p], mark[p].until))

(* No ghost is counted for long.  A dead peer keeps no shrink covered      *)
(* after a wait and two checks (silent_peers), and hides no shortage after *)
(* a probe interval, a failed send and two checks (probe_holders) -        *)
(* through lapsed counters, and updates of a counter that overwrite each   *)
(* other.  A restart forgets the probe that is on its way and costs        *)
(* another check and another send.                                         *)
NoGhostCounted ==
    \A p \in Contacts : death[p] # Never =>
        /\ p \in stayers => clock <= Since(p) + MaxWait + 2 * Every
        /\ p \in growers => clock <= Since(p) + ProbeEvery + SendTime + 2 * Every
                                        + restarts * (Every + SendTime)
====
