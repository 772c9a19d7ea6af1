---------------------------- MODULE Initiation ----------------------------
(***************************************************************************)
(* The initiate task of one node's gossip in one space: how often it wakes *)
(* up, whom it picks, and how the rounds it starts and the rounds peers    *)
(* start with it (with their burst limit) feed back into the next pick.    *)
(* What is said inside a round is the subject of GossipRound.              *)
(***************************************************************************)
EXTENDS Integers, FiniteSets

CONSTANTS
    Peers,        \* remote agents, one per peer url
    Near,         \* those whose storage arc overlaps a target arc of ours
    Polite,       \* those that initiate at most once per initiate interval
    Rude,         \* those that initiate whenever they like
    Silent,       \* those that take our messages and never answer
    Banned,       \* those access control refuses: a send fails, no mark is set
    Second,       \* a second local agent, published under our own url
    None,
    BurstFactor,  \* initiate_burst_factor
    BurstWindow,  \* initiate_burst_window_count
    MaxAccepted,  \* max_concurrent_accepted_rounds
    MaxEvents     \* changes of the surroundings

ASSUME InitiationAssumption ==
    /\ IsFiniteSet(Peers)
    /\ Near \cup Polite \cup Rude \cup Silent \cup Banned \subseteq Peers
    /\ Polite \cap Rude = {}
    /\ Second \notin Peers /\ None \notin Peers \cup {Second}
    /\ {BurstFactor, BurstWindow, MaxAccepted} \subseteq Nat \ {0}
    /\ MaxEvents \in Nat

VARIABLES
    task,      \* the initiate task: top, wait, check, select, send
    ours,      \* is Second in the list of local agents the task read
    growing,   \* did that list have an agent below its target arc
    target,    \* the url it picked
    rivals,    \* the other urls it could have picked
    force,     \* the force_initiate channel, of capacity one
    synced,    \* all local agents are at their target arc
    joined,    \* Second has joined
    listed,    \* peers with a current info in the peer store
    down,      \* peers that cannot be reached
    marked,    \* urls marked unresponsive in the peer meta store
    recent,    \* the order of the last gossip timestamps
    initiated, \* initiated_round_state: the peer and whether it accepted
    accepted,  \* accepted_round_states, by peer
    bursts,    \* AcceptBurstTracker: how many timestamps up to an age in intervals
    sent,      \* polite peers that used their turn of this interval
    underway,  \* initiates of polite peers still on their way
    refused,   \* peers turned away for initiating too soon
    passed,    \* per peer, attempts with others since its last turn while eligible
    events

gossipVars == <<task, ours, growing, target, rivals, force, synced, joined, listed,
          down, marked, recent, initiated, accepted, bursts, sent, underway, refused,
          passed, events>>
loop   == <<task, ours, growing, target, rivals>>
world  == <<synced, joined, listed, down>>
meta   == <<marked, recent>>
remote == <<bursts, sent, underway, refused>>

Urls == Peers \cup {Second}
Ages == 0 .. BurstWindow - 1
MaxBurst == BurstFactor * BurstWindow
NoRound == [peer |-> None, stage |-> "none"]

(* Of two urls with a timestamp, recent has them in the order of their      *)
(* timestamps, and each with itself.                                       *)
HasStamp(u) == <<u, u>> \in recent

(* set_last_gossip_timestamp: now is later than any other.                 *)
Stamped(u) ==
    {r \in recent : u \notin {r[1], r[2]}} \cup {<<v, u>> : v \in {x \in Urls : HasStamp(x)} \cup {u}}

(* Number of timestamps kept for p, all younger than the window. *)
InWindow(p) == bursts[p][BurstWindow - 1]

-----------------------------------------------------------------------------
(* The initiate task *)

ReadLocalAgents ==
    /\ task = "top"
    /\ task' = "wait" /\ ours' = joined /\ growing' = ~synced
    /\ UNCHANGED <<target, rivals, force, world, meta, initiated, accepted, remote, passed, events>>

(* The delay ran out. *)
Wake ==
    /\ task = "wait"
    /\ task' = "check"
    /\ UNCHANGED <<ours, growing, target, rivals, force, world, meta, initiated, accepted,
                   remote, passed, events>>

(* Only the wait of a node at its target listens to the channel. *)
WakeByForce ==
    /\ task = "wait" /\ ~growing /\ force
    /\ task' = "check" /\ force' = FALSE
    /\ UNCHANGED <<ours, growing, target, rivals, world, meta, initiated, accepted, remote,
                   passed, events>>

CheckRound ==
    /\ task = "check"
    /\ task' = IF initiated # NoRound THEN "top" ELSE "select"
    /\ UNCHANGED <<ours, growing, target, rivals, force, world, meta, initiated, accepted,
                   remote, passed, events>>

(* The local agents the task read before its wait are left out. Ours is the *)
(* only url that is always reachable for the peer store: infos of our own   *)
(* agents are inserted when they join.                                     *)
remove_local_agents(found) == IF ours THEN found \ {Second} ELSE found

Known == listed \cup (IF joined THEN {Second} ELSE {})

Responsive(found) == found \ marked

(* The maximum of the time since the last gossip; a url without a timestamp *)
(* counts from the epoch. Equal maxima are left to the order of a hash set. *)
select_responsive_and_least_recently_gossiped(found) ==
    LET able   == Responsive(found)
        never  == {u \in able : ~HasStamp(u)}
        oldest == {u \in able : \A v \in able : <<u, v>> \in recent}
    IN  IF never # {} THEN never ELSE oldest

(* The agents overlapping our target arcs or, when there are none or none  *)
(* of them responds, all agents. Second shares our target arcs.            *)
Pool ==
    LET near == remove_local_agents(Known \cap (Near \cup {Second}))
    IN  IF Responsive(near) # {} THEN near ELSE remove_local_agents(Known)

select_next_target ==
    /\ task = "select"
    /\ LET targets == select_responsive_and_least_recently_gossiped(Pool)
       IN  \/ /\ targets = {}
              /\ task' = "top"
              /\ UNCHANGED <<target, rivals>>
           \/ \E u \in targets :
                /\ task' = "send" /\ target' = u
                /\ rivals' = Responsive(Pool) \ {u}
    /\ UNCHANGED <<ours, growing, force, world, meta, initiated, accepted, remote, passed,
                   events>>

(* A send fails to a peer that is down, to one that is banned and to our   *)
(* own endpoint; the transport marks a url it cannot connect to.           *)
SendFails(u) == u \in down \cup Banned \cup {Second}

(* The space marks a url the transport cannot connect to, if an agent in   *)
(* its peer store has it.                                                  *)
set_unresponsive(u) == IF u \in Known THEN marked \cup {u} ELSE marked

(* The timestamp is set before the send and stays when the send fails.     *)
StampOnSuccess(u) == IF SendFails(u) THEN recent ELSE Stamped(u)
AfterSend(u) == Stamped(u)

(* false: a round was initiated or accepted in the meantime; else the send *)
(* fails or the round is there.                                            *)
initiate_gossip(outcome) ==
    \/ /\ outcome = "not now"
       /\ initiated # NoRound \/ target \in accepted
       /\ UNCHANGED <<meta, initiated, passed>>
    \/ /\ outcome \in {"sent", "failed"}
       /\ initiated = NoRound /\ target \notin accepted
       /\ recent' = AfterSend(target)
       /\ passed' = [p \in Peers |-> IF p \in rivals THEN passed[p] + 1 ELSE 0]
       /\ \/ /\ outcome = "failed" /\ SendFails(target)
             /\ marked' = IF target \in Banned THEN marked ELSE set_unresponsive(target)
             /\ UNCHANGED initiated
          \/ /\ outcome = "sent" /\ ~SendFails(target)
             /\ initiated' = [peer |-> target, stage |-> "initiated"]
             /\ UNCHANGED marked

(* After an error the task asks itself to initiate again without a wait;   *)
(* the channel holds one such request.                                     *)
InitiateRound ==
    /\ task = "send" /\ task' = "top"
    /\ \E outcome \in {"not now", "sent", "failed"} :
         /\ initiate_gossip(outcome)
         /\ force' = (force \/ outcome = "failed")
    /\ target' = None /\ rivals' = {}
    /\ UNCHANGED <<ours, growing, world, accepted, remote, events>>

-----------------------------------------------------------------------------
(* Rounds *)

(* The peer accepts our initiate and the round goes through its stages. *)
Accepted ==
    /\ initiated.stage = "initiated" /\ initiated.peer \notin down \cup Silent
    /\ initiated' = [initiated EXCEPT !.stage = "running"]
    /\ UNCHANGED <<loop, force, world, meta, accepted, remote, passed, events>>

RoundEnds ==
    /\ initiated.stage = "running"
    /\ initiated' = NoRound
    /\ UNCHANGED <<loop, force, world, meta, accepted, remote, passed, events>>

(* The peer has no room: the round is dropped and the peer stamped again. *)
respond_to_busy ==
    /\ initiated.stage = "initiated" /\ initiated.peer \notin down \cup Silent
    /\ initiated' = NoRound
    /\ recent' = Stamped(initiated.peer)
    /\ UNCHANGED <<loop, force, world, marked, accepted, remote, passed, events>>

(* A round nobody answered asks for another initiation at once. *)
remove_timed_out_rounds ==
    \/ /\ initiated # NoRound
       /\ initiated' = NoRound
       /\ force' = (force \/ initiated.stage = "initiated")
       /\ UNCHANGED <<loop, world, meta, accepted, remote, passed, events>>
    \/ \E p \in accepted :
         /\ accepted' = accepted \ {p}
         /\ UNCHANGED <<loop, force, world, meta, initiated, remote, passed, events>>

(* AcceptBurstTracker::check_accept: old timestamps have been dropped.     *)
check_accept(p) == InWindow(p) < MaxBurst

Push(p) == [bursts EXCEPT ![p] = [a \in Ages |-> @[a] + 1]]

(* The rest of respond_to_initiate once the initiate may go ahead: busy    *)
(* leaves no timestamp, an accepted round does.                            *)
Admit(p) ==
    IF Cardinality(accepted) >= MaxAccepted
    THEN UNCHANGED <<accepted, recent, passed>>
    ELSE /\ accepted' = accepted \cup {p} /\ recent' = Stamped(p)
         /\ passed' = [passed EXCEPT ![p] = 0]

(* An initiate of p arrives. If it crosses one of ours, the tie breaker    *)
(* decides and the burst limit is not consulted.                           *)
respond_to_initiate(p) ==
    /\ p \notin down
    /\ p \in underway \cup Rude
    /\ underway' = underway \ {p}
    /\ \/ /\ initiated = [peer |-> p, stage |-> "initiated"]
          /\ UNCHANGED <<bursts, refused>>
          /\ \/ UNCHANGED <<initiated, accepted, recent, passed>>
             \/ initiated' = NoRound /\ Admit(p)
       \/ /\ initiated = [peer |-> p, stage |-> "running"]
          /\ UNCHANGED <<bursts, refused, initiated, accepted, recent, passed>>
       \/ /\ initiated.peer # p
          /\ UNCHANGED initiated
          /\ \/ /\ check_accept(p)
                /\ bursts' = Push(p) /\ Admit(p)
                /\ UNCHANGED refused
             \/ /\ ~check_accept(p)
                /\ refused' = refused \cup {p}
                /\ UNCHANGED <<bursts, accepted, recent, passed>>
    /\ UNCHANGED <<loop, force, world, marked, sent, events>>

-----------------------------------------------------------------------------
(* The surroundings *)

(* A polite peer sends its initiate of this interval; it is not longer on  *)
(* its way than an interval.                                               *)
SendInitiate(p) ==
    /\ p \in Polite \ (sent \cup underway \cup down)
    /\ sent' = sent \cup {p} /\ underway' = underway \cup {p}
    /\ UNCHANGED <<loop, force, world, meta, initiated, accepted, bursts, refused,
                   passed, events>>

(* threshold and retain: a timestamp as old as the window is dropped.      *)
AgedInclusive(p) ==
    [a \in Ages |-> IF a = BurstWindow - 1 THEN bursts[p][a]
                   ELSE IF a = 0 THEN 0 ELSE bursts[p][a - 1]]
Aged(p) == [a \in Ages |-> IF a = 0 THEN 0 ELSE bursts[p][a - 1]]

Interval ==
    /\ events < MaxEvents /\ events' = events + 1
    /\ \A p \in underway : p \in sent
    /\ bursts' = [p \in Peers |-> Aged(p)]
    /\ sent' = {}
    /\ UNCHANGED <<loop, force, world, meta, initiated, accepted, underway, refused, passed>>

Change ==
    /\ events < MaxEvents /\ events' = events + 1
    /\ \/ synced' = ~synced /\ UNCHANGED <<joined, listed, down, meta, passed>>
       \/ joined' = ~joined /\ UNCHANGED <<synced, listed, down, meta, passed>>
       \/ \E p \in Peers :
            /\ listed' = IF p \in listed THEN listed \ {p} ELSE listed \cup {p}
            /\ UNCHANGED <<synced, joined, down, meta, passed>>
       \/ \E p \in Peers :
            /\ down' = IF p \in down THEN down \ {p} ELSE down \cup {p}
            /\ UNCHANGED <<synced, joined, listed, meta, passed>>
       \/ \E u \in marked :
            /\ marked' = marked \ {u}
            /\ UNCHANGED <<world, recent, passed>>
       \/ (* A timestamp is kept for ten minutes. The order of picks starts *)
          (* over for the urls it forgets.                                  *)
          /\ \E u \in Urls :
               /\ HasStamp(u) /\ \A v \in Urls : HasStamp(v) => <<u, v>> \in recent
               /\ recent' = {r \in recent : r[1] # u}
          /\ passed' = [p \in Peers |-> 0]
          /\ UNCHANGED <<world, marked>>
    /\ UNCHANGED <<loop, force, initiated, accepted, remote>>

GossipInit ==
    /\ task = "top" /\ ours = FALSE /\ growing = FALSE /\ target = None /\ rivals = {}
    /\ force = FALSE /\ synced \in BOOLEAN /\ joined = FALSE
    /\ listed = Peers /\ down \in {{}, Peers}
    /\ marked = {} /\ recent = {}
    /\ initiated = NoRound /\ accepted = {}
    /\ bursts = [p \in Peers |-> [a \in Ages |-> 0]]
    /\ sent = {} /\ underway = {} /\ refused = {}
    /\ passed = [p \in Peers |-> 0]
    /\ events = 0

GossipNext ==
    \/ ReadLocalAgents \/ Wake \/ WakeByForce \/ CheckRound
    \/ select_next_target \/ InitiateRound
    \/ Accepted \/ RoundEnds \/ respond_to_busy \/ remove_timed_out_rounds
    \/ \E p \in Peers : respond_to_initiate(p) \/ SendInitiate(p)
    \/ Interval \/ Change

GossipSpec == GossipInit /\ [][GossipNext]_gossipVars

-----------------------------------------------------------------------------
GossipTypeOK ==
    /\ task \in {"top", "wait", "check", "select", "send"}
    /\ {ours, growing, force, synced, joined} \subseteq BOOLEAN
    /\ target \in Urls \cup {None} /\ rivals \subseteq Urls
    /\ listed \cup down \cup accepted \cup sent \cup underway \cup refused \subseteq Peers
    /\ marked \subseteq Urls /\ recent \subseteq Urls \X Urls
    /\ initiated \in [peer : Peers \cup {None}, stage : {"none", "initiated", "running"}]
    /\ \A p \in Peers : InWindow(p) \in 0 .. MaxBurst

(* A peer that could be gossiped with is passed over at most once for each  *)
(* other url before it has its turn (initiate_gossip stamps whom it tries   *)
(* before the send, select_next_target takes the oldest stamp), whatever    *)
(* fails, times out, is busy, initiates with us or joins in the meantime.   *)
TurnsAreFair == \A p \in Peers : passed[p] <= Cardinality(Urls) - 1

(* A peer that initiates no more than once per interval is never refused as *)
(* initiating too soon (AcceptBurstTracker), though an initiate that was    *)
(* under way for an interval may arrive together with the next one.         *)
PoliteIsHeard == refused \cap Polite = {}
====
