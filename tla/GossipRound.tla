---- MODULE GossipRound ----
(***************************************************************************)
(* Gossip rounds between nodes (crates/gossip/src/gossip.rs, respond.rs,   *)
(* respond/, state.rs, timeout.rs, storage_arc.rs) over the part of the    *)
(* DHT model they compare (crates/dht/src/dht.rs, dht/snapshot.rs).        *)
(*                                                                         *)
(* A node initiates at most one round at a time and accepts at most one    *)
(* from each peer.  The two compare snapshots in more and more detail      *)
(* until each can list the ops of the places where they differ; what is    *)
(* listed goes to the fetch queue.  Every message is answered by a task of *)
(* its own, so messages are handled in any order.                          *)
(*                                                                         *)
(* An op lies in a sector of the ring and a slice of time.  A node's       *)
(* boundary cuts time: slices below it form the disc, the next Rings ones  *)
(* the rings, and anything later is not compared at all.  A hash is the    *)
(* set of ops it is made of.  All nodes aim for the full arc.              *)
(***************************************************************************)
EXTENDS Integers, FiniteSets, Sequences, SequencesExt

CONSTANTS
    Nodes,        \* peers, one space each
    Ops,          \* op ids, numbers
    Sector,       \* [Ops -> Nat]: where on the ring
    Slice,        \* [Ops -> Nat]: when
    Rings,        \* how many slices are in rings
    FirstBoundary,\* the disc boundary to begin with
    LastBoundary, \* bound: where update_dht stops moving it
    Sids,         \* session ids; drawn at random in the code, here unused ones
    Ties,         \* tie breakers
    MaxAccepted,  \* max_concurrent_accepted_rounds, 0 for no limit
    MaxOpBytes,   \* max_gossip_op_bytes = max_request_gossip_op_bytes; an op is 1
    Pasts,        \* what was held at the start is "recent" or "old" to a peer
    MaxFaults     \* bound: losses, hasty timeouts and restarts

ASSUME OpsAssumption == Sector \in [Ops -> Nat] /\ Slice \in [Ops -> Nat]
ASSUME LimitsAssumption ==
    /\ {Rings, FirstBoundary, LastBoundary, MaxAccepted, MaxOpBytes,
         MaxFaults} \subseteq Nat
    /\ Ties \subseteq Nat
    /\ Pasts \subseteq {"recent", "old"}
    /\ Ops \subseteq Nat /\ IsFiniteSet(Ops)

VARIABLES
    stored,    \* op store: when each op was stored, 0 if it is not held
    requests,  \* fetch queue: <<op, source>> pairs
    bookmark,  \* new_ops_bookmark kept about each peer
    lacks,     \* peers some of whose agent infos are not in the peer store
    boundary,  \* the end of the last full time slice
    claims,    \* sectors of the current storage arc
    initiated, \* initiated_round_state
    accepted,  \* accepted_round_states, by peer
    checking,  \* initiates that passed the checks and are not yet recorded
    msgs,      \* messages in flight
    faults     \* how many faults have happened

data   == <<stored, requests, bookmark, lacks, boundary, claims>>
rounds == <<initiated, accepted, checking>>
vars   == <<stored, requests, bookmark, lacks, boundary, claims, initiated,
            accepted, checking, msgs, faults>>

OpSectors == {Sector[o] : o \in Ops}

----------------------------------------------------------------------------
(* The DHT model of a node and what a snapshot shows of it.                *)

Held(n) == {o \in Ops : stored[n][o] > 0}

(* Places in the disc are sectors and slices; places in the rings are      *)
(* sectors and ring indices, and indices count from the boundary.          *)
DiscOps(n) == {o \in Held(n) : Slice[o] < boundary[n]}
RingOps(n) == {o \in Held(n) : /\ boundary[n] <= Slice[o]
                               /\ Slice[o] < boundary[n] + Rings}
Ring(o, b) == Slice[o] - b

(* The ops of one set in the places where two sets differ. *)
Differ(mine, theirs) == (mine \ theirs) \cup (theirs \ mine)

Minimal(n) ==
    [kind |-> "Minimal", boundary |-> boundary[n], disc |-> DiscOps(n),
     ring |-> RingOps(n)]

DiscSectors(n) ==
    [kind |-> "DiscSectors", boundary |-> boundary[n], disc |-> DiscOps(n)]

DiscSectorDetails(n, sectors) ==
    [kind |-> "DiscSectorDetails", boundary |-> boundary[n],
     sectors |-> sectors, disc |-> {o \in DiscOps(n) : Sector[o] \in sectors}]

RingSectorDetails(n, rings) ==
    [kind |-> "RingSectorDetails", boundary |-> boundary[n], rings |-> rings,
     ring |-> {o \in RingOps(n) : Ring(o, boundary[n]) \in rings}]

(* DhtSnapshot::compare of two snapshots of the same kind. *)
Comparable(mine, theirs) == mine.boundary = theirs.boundary

DiscMismatch(mine, theirs) ==
    {Sector[o] : o \in Differ(mine.disc, theirs.disc)}

RingMismatch(mine, theirs) ==
    {Ring(o, mine.boundary) : o \in Differ(mine.ring, theirs.ring)}

(* The hash lists of handle_snapshot: what we hold where the two differ.   *)
(* The places come from the snapshots, the ops from the store as it is.    *)
(* Places are visited in order and one that does not fit in what is left   *)
(* of the peer's budget is passed over.                                    *)
WithinBudget(contents, budget) ==
    LET take(out, place) ==
            IF Cardinality(out) + Cardinality(contents[place]) <= budget
            THEN out \cup contents[place] ELSE out
        before(x, y) == x[1] < y[1] \/ (x[1] = y[1] /\ x[2] <= y[2])
    IN  FoldLeft(take, {}, SetToSortSeq(DOMAIN contents, before))

(* Mutant: the budget is not looked at. *)
DiscHashesUnbounded(n, mine, theirs, budget) ==
    {o \in Held(n) : \E d \in Differ(mine.disc, theirs.disc) :
        Sector[o] = Sector[d] /\ Slice[o] = Slice[d]}

DiscHashes(n, mine, theirs, budget) ==
    LET places == {<<Sector[o], Slice[o]>> : o \in Differ(mine.disc, theirs.disc)}
    IN  WithinBudget([place \in places |->
                        {o \in Held(n) : <<Sector[o], Slice[o]>> = place}],
                     budget)

RingHashes(n, mine, theirs, budget) ==
    LET places == {<<Ring(o, mine.boundary), Sector[o]>> :
                      o \in Differ(mine.ring, theirs.ring)}
    IN  WithinBudget([place \in places |->
                        {o \in Held(n) : <<Ring(o, boundary[n]), Sector[o]>> = place}],
                     budget)

(* update_storage_arcs: every sector in which their details, if any, show  *)
(* no op joins the current arc.                                            *)
SyncedEverywhere(theirs) == OpSectors

Synced(theirs) ==
    IF theirs.kind = "RingSectorDetails"
    THEN OpSectors \ {Sector[o] : o \in theirs.ring}
    ELSE OpSectors

(* Unless the snapshots could not be compared. *)
UpdateStorageArcs(n, compared, theirs) ==
    IF compared THEN [claims EXCEPT ![n] = @ \cup Synced(theirs)] ELSE claims

----------------------------------------------------------------------------
(* Rounds and messages.                                                    *)

NoSnapshot == [kind |-> "None"]
NoRound    == [stage |-> "None"]

(* The budget is peer_max_op_data_bytes: what the peer may still be sent. *)
NewRound(p, s, t) ==
    [stage |-> "Initiated", peer |-> p, sid |-> s, tie |-> t, budget |-> 0]
NewAccepted(p, s, budget) ==
    [stage |-> "Accepted", peer |-> p, sid |-> s, budget |-> budget,
     snapshot |-> NoSnapshot]

AtStage(round, stage, budget, snapshot) ==
    [stage |-> stage, peer |-> round.peer, sid |-> round.sid,
     budget |-> budget, snapshot |-> snapshot]

Reply(m, type, body) ==
    {[type |-> type, from |-> m.to, to |-> m.from, sid |-> m.sid, body |-> body]}

Nothing == [none |-> TRUE]

AcceptedCount(n) == Cardinality({p \in Nodes : accepted[n][p] # NoRound})

(* retrieve_new_op_ids: what n stored since the bookmark it is shown, the  *)
(* oldest first and no more than fit, and where to start next time: at the *)
(* first op left out, or now.                                              *)
Now(n) == Cardinality(Held(n)) + 1
Since(n, since) == {o \in Held(n) : stored[n][o] >= since}
NewOps(n, since) == {o \in Since(n, since) : stored[n][o] < since + MaxOpBytes}
NewBookmarkAlwaysNow(n, since) == Now(n)

NewBookmark(n, since) ==
    IF NewOps(n, since) = Since(n, since) THEN Now(n) ELSE since + MaxOpBytes

(* update_new_ops_bookmark: never backwards. *)
Forward(n, p, upto) ==
    [bookmark EXCEPT ![n][p] = IF @ <= upto THEN upto ELSE @]

(* Fetch::request_ops: ops already stored are left out. *)
RequestOps(n, p, ops) ==
    [requests EXCEPT ![n] = @ \cup {<<o, p>> : o \in ops \ Held(n)}]

(* The acceptor's validation of a message of its round at a stage. *)
AcceptedAt(m, stage) ==
    LET r == accepted[m.to][m.from]
    IN  r # NoRound /\ r.sid = m.sid /\ r.stage = stage

(* The initiator's. *)
InitiatedAt(m, stage) ==
    LET r == initiated[m.to]
    IN  r # NoRound /\ r.peer = m.from /\ r.sid = m.sid /\ r.stage = stage

(* A message is consumed and replies are sent. *)
Answer(m, replies) == msgs' = (msgs \ {m}) \cup replies

SetInitiated(n, round)   == initiated' = [initiated EXCEPT ![n] = round]
SetAccepted(n, p, round) == accepted' = [accepted EXCEPT ![n][p] = round]

----------------------------------------------------------------------------
(* Starting a round.                                                       *)

(* A random session id is one that nothing refers to any more. *)
InUse ==
    {m.sid : m \in msgs}
      \cup {m.sid : m \in UNION {checking[n] : n \in Nodes}}
      \cup {initiated[n].sid : n \in {k \in Nodes : initiated[k] # NoRound}}
      \cup {accepted[np[1]][np[2]].sid :
              np \in {kq \in Nodes \X Nodes : accepted[kq[1]][kq[2]] # NoRound}}

(* Two rounds that cross draw different tie breakers (they are 32 bits). *)
TiesInUse ==
    {m.body.tie : m \in {k \in msgs : k.type = "Initiate"}}
      \cup {initiated[n].tie : n \in {k \in Nodes : initiated[k].stage = "Initiated"}}

(* initiate_gossip. *)
Initiate(n, p) ==
    /\ n # p
    /\ initiated[n] = NoRound
    /\ accepted[n][p] = NoRound
    /\ Sids \ InUse # {}
    /\ \E t \in Ties \ TiesInUse : LET s == CHOOSE s \in Sids : s \notin InUse IN
          /\ SetInitiated(n, NewRound(p, s, t))
          /\ msgs' = msgs \cup
                {[type |-> "Initiate", from |-> n, to |-> p, sid |-> s,
                  body |-> [tie |-> t, since |-> bookmark[n][p]]]}
    /\ UNCHANGED <<data, accepted, checking, faults>>

(* check_peer_initiate_rate: the initiate meets our own round with them. *)
Crossing(m) ==
    /\ initiated[m.to] # NoRound
    /\ initiated[m.to].peer = m.from

(* We win and drop theirs; or the peer initiates in the middle of a round. *)
RefuseInitiate(m) ==
    /\ m.type = "Initiate"
    /\ Crossing(m)
    /\ initiated[m.to].stage = "Initiated" => initiated[m.to].tie > m.body.tie
    /\ Answer(m, {})
    /\ UNCHANGED <<data, rounds, faults>>

(* Mutant: the loser of the tie forgets to drop its own round. *)
AdmitInitiateKeepOwn(m) ==
    /\ m.type = "Initiate"
    /\ Crossing(m) => /\ initiated[m.to].stage = "Initiated"
                      /\ initiated[m.to].tie <= m.body.tie
    /\ Answer(m, {})
    /\ checking' = [checking EXCEPT ![m.to] = @ \cup {m}]
    /\ UNCHANGED <<data, accepted, initiated, faults>>

(* We lose and drop our own, or there was no conflict; then the limit on   *)
(* accepted rounds is consulted.                                           *)
AdmitInitiate(m) ==
    /\ m.type = "Initiate"
    /\ Crossing(m) => /\ initiated[m.to].stage = "Initiated"
                      /\ initiated[m.to].tie <= m.body.tie
    /\ IF Crossing(m) THEN SetInitiated(m.to, NoRound) ELSE UNCHANGED initiated
    /\ IF MaxAccepted # 0 /\ AcceptedCount(m.to) >= MaxAccepted
       THEN Answer(m, Reply(m, "Busy", Nothing)) /\ UNCHANGED checking
       ELSE /\ Answer(m, {})
            /\ checking' = [checking EXCEPT ![m.to] = @ \cup {m}]
    /\ UNCHANGED <<data, accepted, faults>>

(* create_accept_state and the Accept message, some awaits later.  A peer  *)
(* that already has a round with us gets an error instead.                 *)
AcceptRound(n, m) ==
    /\ m \in checking[n]
    /\ checking' = [checking EXCEPT ![n] = @ \ {m}]
    /\ IF accepted[n][m.from] # NoRound
       THEN UNCHANGED <<accepted, msgs>>
       ELSE LET new == NewOps(n, m.body.since)
            IN  /\ SetAccepted(n, m.from, NewAccepted(m.from, m.sid,
                                   MaxOpBytes - Cardinality(new)))
                /\ msgs' = msgs \cup
                     Reply(m, "Accept", [missing |-> m.from \in lacks[n],
                                         since |-> bookmark[n][m.from],
                                         new |-> new,
                                         upto |-> NewBookmark(n, m.body.since),
                                         snapshot |-> Minimal(n)])
    /\ UNCHANGED <<data, initiated, faults>>

----------------------------------------------------------------------------
(* The initiator's handlers.                                               *)

(* respond_to_accept: compare minimal snapshots and go into the detail of  *)
(* the disc first, of the rings next.                                      *)
RespondToAccept(m) ==
    LET n      == m.to
        p      == m.from
        mine   == Minimal(n)
        theirs == m.body.snapshot
        new    == NewOps(n, m.body.since)
        enter(stage, kept) ==
            SetInitiated(n, AtStage(initiated[n], stage,
                                    MaxOpBytes - Cardinality(new), kept))
        respond(type, snapshot) ==
            Answer(m, Reply(m, type, [missing |-> p \in lacks[n],
                                      provided |-> m.body.missing,
                                      new |-> new,
                                      upto |-> NewBookmark(n, m.body.since),
                                      snapshot |-> snapshot]))
    IN  /\ m.type = "Accept"
        /\ InitiatedAt(m, "Initiated")
        /\ bookmark' = Forward(n, p, m.body.upto)
        /\ requests' = RequestOps(n, p, m.body.new)
        /\ \/ /\ mine = theirs \/ ~Comparable(mine, theirs)
              /\ enter("NoDiff", NoSnapshot)
              /\ claims' = UpdateStorageArcs(n, mine = theirs, theirs)
              /\ respond("NoDiff", NoSnapshot)
           \/ /\ Comparable(mine, theirs)
              /\ mine.disc # theirs.disc
              /\ enter("DiscSectorsDiff", NoSnapshot)
              /\ respond("DiscSectorsDiff", DiscSectors(n))
              /\ UNCHANGED claims
           \/ /\ Comparable(mine, theirs)
              /\ mine.disc = theirs.disc
              /\ mine.ring # theirs.ring
              /\ LET details == RingSectorDetails(n, RingMismatch(mine, theirs))
                 IN  /\ enter("RingSectorDetailsDiff", details)
                     /\ respond("RingSectorDetailsDiff", details)
              /\ UNCHANGED claims
        /\ UNCHANGED <<stored, lacks, boundary, accepted, checking, faults>>

(* respond_to_disc_sector_details_diff.  The agent infos that come with    *)
(* the message are not looked at.                                          *)
RespondToDiscSectorDetailsDiff(m) ==
    LET n      == m.to
        theirs == m.body.snapshot
        mine   == DiscSectorDetails(n, theirs.sectors)
    IN  /\ m.type = "DiscSectorDetailsDiff"
        /\ InitiatedAt(m, "DiscSectorsDiff")
        /\ \/ /\ mine = theirs \/ ~Comparable(mine, theirs)
              /\ SetInitiated(n, NoRound)
              /\ Answer(m, Reply(m, "Terminate", Nothing))
           \/ /\ Comparable(mine, theirs)
              /\ mine # theirs
              /\ LET left == initiated[n].budget
                     ids  == DiscHashes(n, mine, theirs, left)
                 IN  /\ SetInitiated(n, AtStage(initiated[n],
                           "DiscSectorDetailsDiff", left - Cardinality(ids), mine))
                     /\ Answer(m, Reply(m, "DiscSectorDetailsDiffResponse",
                                        [ids |-> ids, snapshot |-> mine]))
        /\ UNCHANGED <<data, accepted, checking, faults>>

(* respond_to_ring_sector_details_diff_response, against the snapshot sent *)
(* before.                                                                 *)
RespondToRingSectorDetailsDiffResponse(m) ==
    LET n      == m.to
        p      == m.from
        theirs == m.body.snapshot
        mine   == initiated[n].snapshot
    IN  /\ m.type = "RingSectorDetailsDiffResponse"
        /\ InitiatedAt(m, "RingSectorDetailsDiff")
        /\ SetInitiated(n, NoRound)
        /\ requests' = RequestOps(n, p, m.body.ids)
        /\ claims' = UpdateStorageArcs(n, Comparable(mine, theirs), theirs)
        /\ IF mine = theirs \/ ~Comparable(mine, theirs)
           THEN Answer(m, Reply(m, "Terminate", Nothing))
           ELSE Answer(m, Reply(m, "Hashes",
                                [ids |-> RingHashes(n, mine, theirs,
                                                    initiated[n].budget)]))
        /\ UNCHANGED <<stored, bookmark, lacks, boundary, accepted, checking,
                       faults>>

(* respond_to_agents: only at stage NoDiff. *)
RespondToAgents(m) ==
    /\ m.type = "Agents"
    /\ InitiatedAt(m, "NoDiff")
    /\ SetInitiated(m.to, NoRound)
    /\ lacks' = [lacks EXCEPT ![m.to] = @ \ {m.from}]
    /\ Answer(m, {})
    /\ UNCHANGED <<stored, requests, bookmark, boundary, claims, accepted,
                   checking, faults>>

(* respond_to_busy: at any stage. *)
RespondToBusy(m) ==
    /\ m.type = "Busy"
    /\ InitiatedAt(m, initiated[m.to].stage)
    /\ SetInitiated(m.to, NoRound)
    /\ Answer(m, {})
    /\ UNCHANGED <<data, accepted, checking, faults>>

----------------------------------------------------------------------------
(* The acceptor's handlers.                                                *)

(* handle_accept_response: the part every answer to an Accept carries. *)
HandleAcceptResponse(m) ==
    /\ lacks' = IF m.body.provided
                THEN [lacks EXCEPT ![m.to] = @ \ {m.from}] ELSE lacks
    /\ bookmark' = Forward(m.to, m.from, m.body.upto)
    /\ requests' = RequestOps(m.to, m.from, m.body.new)

(* respond_to_no_diff. *)
RespondToNoDiff(m) ==
    /\ m.type = "NoDiff"
    /\ AcceptedAt(m, "Accepted")
    /\ SetAccepted(m.to, m.from, NoRound)
    /\ HandleAcceptResponse(m)
    /\ Answer(m, Reply(m, IF m.body.missing THEN "Agents" ELSE "Terminate",
                       Nothing))
    /\ UNCHANGED <<stored, boundary, claims, initiated, checking, faults>>

(* respond_to_disc_sectors_diff.  With nothing to compare and no agent     *)
(* infos to send the round ends here without a word.                       *)
RespondToDiscSectorsDiff(m) ==
    LET n      == m.to
        p      == m.from
        theirs == m.body.snapshot
        mine   == DiscSectors(n)
    IN  /\ m.type = "DiscSectorsDiff"
        /\ AcceptedAt(m, "Accepted")
        /\ HandleAcceptResponse(m)
        /\ \/ /\ mine = theirs \/ ~Comparable(mine, theirs)
              /\ SetAccepted(n, p, NoRound)
              /\ Answer(m, IF m.body.missing
                           THEN Reply(m, "Agents", Nothing) ELSE {})
           \/ /\ Comparable(mine, theirs)
              /\ mine # theirs
              /\ LET details == DiscSectorDetails(n, DiscMismatch(mine, theirs))
                 IN  /\ SetAccepted(n, p, AtStage(accepted[n][p],
                           "DiscSectorDetailsDiff", accepted[n][p].budget, details))
                     /\ Answer(m, Reply(m, "DiscSectorDetailsDiff",
                                        [provided |-> m.body.missing,
                                         snapshot |-> details]))
        /\ UNCHANGED <<stored, boundary, claims, initiated, checking, faults>>

(* respond_to_disc_sector_details_diff_response, against the snapshot sent *)
(* before.                                                                 *)
RespondToDiscSectorDetailsDiffResponse(m) ==
    LET n      == m.to
        p      == m.from
        theirs == m.body.snapshot
        mine   == accepted[n][p].snapshot
    IN  /\ m.type = "DiscSectorDetailsDiffResponse"
        /\ AcceptedAt(m, "DiscSectorDetailsDiff")
        /\ SetAccepted(n, p, NoRound)
        /\ requests' = RequestOps(n, p, m.body.ids)
        /\ IF mine = theirs \/ ~Comparable(mine, theirs)
           THEN Answer(m, Reply(m, "Terminate", Nothing))
           ELSE Answer(m, Reply(m, "Hashes",
                                [ids |-> DiscHashes(n, mine, theirs,
                                                    accepted[n][p].budget)]))
        /\ UNCHANGED <<stored, bookmark, lacks, boundary, claims, initiated,
                       checking, faults>>

(* respond_to_ring_sector_details_diff. *)
RespondToRingSectorDetailsDiff(m) ==
    LET n      == m.to
        p      == m.from
        theirs == m.body.snapshot
        mine   == RingSectorDetails(n, theirs.rings)
    IN  /\ m.type = "RingSectorDetailsDiff"
        /\ AcceptedAt(m, "Accepted")
        /\ HandleAcceptResponse(m)
        /\ claims' = UpdateStorageArcs(n, Comparable(mine, theirs), theirs)
        /\ \/ /\ mine = theirs \/ ~Comparable(mine, theirs)
              /\ SetAccepted(n, p, NoRound)
              /\ Answer(m, Reply(m, IF m.body.missing THEN "Agents"
                                    ELSE "Terminate", Nothing))
           \/ /\ Comparable(mine, theirs)
              /\ mine # theirs
              /\ LET left == accepted[n][p].budget
                     ids  == RingHashes(n, mine, theirs, left)
                 IN  /\ SetAccepted(n, p, AtStage(accepted[n][p],
                           "RingSectorDetailsDiff", left - Cardinality(ids), mine))
                     /\ Answer(m, Reply(m, "RingSectorDetailsDiffResponse",
                                        [ids |-> ids, snapshot |-> mine]))
        /\ UNCHANGED <<stored, boundary, initiated, checking, faults>>

----------------------------------------------------------------------------
(* Messages that end a round on either side.                               *)

(* respond_to_hashes: the last message of a diff. *)
RespondToHashes(m) ==
    /\ m.type = "Hashes"
    /\ requests' = RequestOps(m.to, m.from, m.body.ids)
    /\ \/ /\ InitiatedAt(m, initiated[m.to].stage)
          /\ SetInitiated(m.to, NoRound)
          /\ UNCHANGED accepted
       \/ /\ ~InitiatedAt(m, initiated[m.to].stage)
          /\ AcceptedAt(m, accepted[m.to][m.from].stage)
          /\ SetAccepted(m.to, m.from, NoRound)
          /\ UNCHANGED initiated
    /\ Answer(m, {})
    /\ UNCHANGED <<stored, bookmark, lacks, boundary, claims, checking, faults>>

(* respond_to_terminate ends whatever round there is with the peer, the    *)
(* session id only decides whether an error is recorded.                   *)
RespondToTerminate(m) ==
    /\ m.type = "Terminate"
    /\ \/ /\ Crossing(m)
          /\ SetInitiated(m.to, NoRound)
          /\ UNCHANGED accepted
       \/ /\ ~Crossing(m)
          /\ accepted[m.to][m.from] # NoRound
          /\ SetAccepted(m.to, m.from, NoRound)
          /\ UNCHANGED initiated
    /\ Answer(m, {})
    /\ UNCHANGED <<data, checking, faults>>

(* What the validation at the head of each handler lets through. *)
Solicited(m) ==
    CASE m.type = "Initiate" -> TRUE
      [] m.type = "Accept" -> InitiatedAt(m, "Initiated")
      [] m.type = "DiscSectorDetailsDiff" -> InitiatedAt(m, "DiscSectorsDiff")
      [] m.type = "RingSectorDetailsDiffResponse" ->
            InitiatedAt(m, "RingSectorDetailsDiff")
      [] m.type = "Agents" -> InitiatedAt(m, "NoDiff")
      [] m.type = "Busy" -> InitiatedAt(m, initiated[m.to].stage)
      [] m.type \in {"NoDiff", "DiscSectorsDiff", "RingSectorDetailsDiff"} ->
            AcceptedAt(m, "Accepted")
      [] m.type = "DiscSectorDetailsDiffResponse" ->
            AcceptedAt(m, "DiscSectorDetailsDiff")
      [] m.type = "Hashes" ->
            \/ InitiatedAt(m, initiated[m.to].stage)
            \/ AcceptedAt(m, accepted[m.to][m.from].stage)
      [] m.type = "Terminate" ->
            Crossing(m) \/ accepted[m.to][m.from] # NoRound

(* Anything else is a peer behaviour error: counted, and no state changes. *)
Reject(m) ==
    /\ ~Solicited(m)
    /\ Answer(m, {})
    /\ UNCHANGED <<data, rounds, faults>>

(* respond_to_msg. *)
RespondToMsg(m) ==
    \/ RefuseInitiate(m)
    \/ AdmitInitiate(m)
    \/ RespondToAccept(m)
    \/ RespondToNoDiff(m)
    \/ RespondToDiscSectorsDiff(m)
    \/ RespondToDiscSectorDetailsDiff(m)
    \/ RespondToDiscSectorDetailsDiffResponse(m)
    \/ RespondToRingSectorDetailsDiff(m)
    \/ RespondToRingSectorDetailsDiffResponse(m)
    \/ RespondToHashes(m)
    \/ RespondToAgents(m)
    \/ RespondToBusy(m)
    \/ RespondToTerminate(m)
    \/ Reject(m)

----------------------------------------------------------------------------
(* Timeouts, fetching, time and failures.                                  *)

(* A round is forgotten once round_timeout (15 s) has passed.  Usually     *)
(* nothing of it is under way by then; if something is, that is a fault.   *)
UnderWay(sid) ==
    \/ \E m \in msgs : m.sid = sid
    \/ \E n \in Nodes : \E m \in checking[n] : m.sid = sid

Overdue(sid) ==
    IF UnderWay(sid) THEN faults < MaxFaults /\ faults' = faults + 1
                     ELSE UNCHANGED faults

(* Mutant: only a round that was never accepted is dropped. *)
TimeoutInitiatedOnlyUnanswered(n) ==
    /\ initiated[n] # NoRound
    /\ initiated[n].stage = "Initiated"
    /\ Overdue(initiated[n].sid)
    /\ SetInitiated(n, NoRound)
    /\ UNCHANGED <<data, accepted, checking, msgs>>

(* remove_timed_out_rounds. *)
TimeoutInitiated(n) ==
    /\ initiated[n] # NoRound
    /\ Overdue(initiated[n].sid)
    /\ SetInitiated(n, NoRound)
    /\ UNCHANGED <<data, accepted, checking, msgs>>

TimeoutAccepted(n, p) ==
    /\ accepted[n][p] # NoRound
    /\ Overdue(accepted[n][p].sid)
    /\ SetAccepted(n, p, NoRound)
    /\ UNCHANGED <<data, initiated, checking, msgs>>

(* A fetch is answered: the op is stored and no longer asked for. *)
Fetch(n, o) ==
    /\ \E p \in Nodes : <<o, p>> \in requests[n]
    /\ stored' = [stored EXCEPT ![n][o] = Now(n)]
    /\ requests' = [requests EXCEPT ![n] = {r \in @ : r[1] # o}]
    /\ UNCHANGED <<bookmark, lacks, boundary, claims, rounds, msgs, faults>>

(* The DHT update task: a slice of the rings moves to the disc. *)
UpdateDht(n) ==
    /\ boundary[n] < LastBoundary
    /\ boundary' = [boundary EXCEPT ![n] = @ + 1]
    /\ UNCHANGED <<stored, requests, bookmark, lacks, claims, rounds, msgs, faults>>

(* A message is lost, or an initiate comes too soon for burst.rs. *)
Lose(m) ==
    /\ faults < MaxFaults
    /\ faults' = faults + 1
    /\ Answer(m, {})
    /\ UNCHANGED <<data, rounds>>

(* A fetch is never answered; nothing asks for it again. *)
LoseFetch(n) ==
    /\ faults < MaxFaults
    /\ faults' = faults + 1
    /\ \E r \in requests[n] : requests' = [requests EXCEPT ![n] = @ \ {r}]
    /\ UNCHANGED <<stored, bookmark, lacks, boundary, claims, rounds, msgs>>

(* The process restarts: the op store and the peer meta store survive. *)
Restart(n) ==
    /\ faults < MaxFaults
    /\ faults' = faults + 1
    /\ requests' = [requests EXCEPT ![n] = {}]
    /\ claims' = [claims EXCEPT ![n] = {}]
    /\ lacks' = [lacks EXCEPT ![n] = Nodes \ {n}]
    /\ SetInitiated(n, NoRound)
    /\ accepted' = [accepted EXCEPT ![n] = [p \in Nodes |-> NoRound]]
    /\ checking' = [checking EXCEPT ![n] = {}]
    /\ UNCHANGED <<stored, bookmark, boundary, msgs>>

----------------------------------------------------------------------------
(* The specification.                                                      *)

(* Every op is somewhere.  A node held some ops when it came up; they were *)
(* stored either too long ago for the default bookmark of its peers        *)
(* (get_request_new_since) or recently.                                    *)
Init ==
    /\ \E holds \in [Nodes -> SUBSET Ops] :
          /\ UNION {holds[n] : n \in Nodes} = Ops
          /\ stored = [n \in Nodes |-> [o \in Ops |->
                IF o \in holds[n]
                THEN Cardinality({x \in holds[n] : x <= o}) ELSE 0]]
    /\ bookmark \in [Nodes -> [Nodes -> 1..Cardinality(Ops) + 1]]
    /\ \A n, p \in Nodes :
          bookmark[n][p] \in {IF n = p \/ t = "recent" THEN 1 ELSE Now(p) :
                                t \in Pasts}
    /\ requests = [n \in Nodes |-> {}]
    /\ lacks = [n \in Nodes |-> Nodes \ {n}]
    /\ boundary = [n \in Nodes |-> FirstBoundary]
    /\ claims = [n \in Nodes |-> {}]
    /\ initiated = [n \in Nodes |-> NoRound]
    /\ accepted = [n \in Nodes |-> [p \in Nodes |-> NoRound]]
    /\ checking = [n \in Nodes |-> {}]
    /\ msgs = {}
    /\ faults = 0

Next ==
    \/ \E n, p \in Nodes : Initiate(n, p)
    \/ \E m \in msgs : RespondToMsg(m)
    \/ \E n \in Nodes : \E m \in checking[n] : AcceptRound(n, m)
    \/ \E n \in Nodes : TimeoutInitiated(n)
    \/ \E n, p \in Nodes : TimeoutAccepted(n, p)
    \/ \E n \in Nodes, o \in Ops : Fetch(n, o)
    \/ \E n \in Nodes : UpdateDht(n)
    \/ \E m \in msgs : Lose(m)
    \/ \E n \in Nodes : LoseFetch(n)
    \/ \E n \in Nodes : Restart(n)

Spec == Init /\ [][Next]_vars

(* The initiate task keeps asking for rounds, every message is handled by  *)
(* a task of its own, fetches are answered unless they are lost, and the   *)
(* update and timeout tasks run on timers.  Losing things is never forced. *)
Fairness ==
    /\ \A n \in Nodes :
          /\ WF_vars(\E p \in Nodes : Initiate(n, p))
          /\ WF_vars(\E m \in checking[n] : AcceptRound(n, m))
          /\ WF_vars(UpdateDht(n))
          /\ WF_vars(initiated[n] # NoRound /\ ~UnderWay(initiated[n].sid)
                        /\ TimeoutInitiated(n))
    /\ \A n \in Nodes, s \in Sids :
          WF_vars(\E m \in msgs : m.to = n /\ m.sid = s /\ RespondToMsg(m))
    /\ \A n, p \in Nodes :
          WF_vars(accepted[n][p] # NoRound /\ ~UnderWay(accepted[n][p].sid)
                    /\ TimeoutAccepted(n, p))
    /\ \A n \in Nodes, o \in Ops : WF_vars(Fetch(n, o))

FairSpec == Spec /\ Fairness

----------------------------------------------------------------------------
(* Properties.                                                             *)

Stages == {"Initiated", "Accepted", "NoDiff", "DiscSectorsDiff",
           "DiscSectorDetailsDiff", "RingSectorDetailsDiff"}

(* The state has the shape of the K2Gossip struct: rounds are with other   *)
(* peers, an accepted round is filed under the peer it is with, and no     *)
(* round has overspent the op budget of its peer (a u32 in the code).      *)
TypeOK ==
    /\ stored \in [Nodes -> [Ops -> 0..Cardinality(Ops)]]
    /\ \A n \in Nodes : requests[n] \subseteq Ops \X (Nodes \ {n})
    /\ bookmark \in [Nodes -> [Nodes -> 1..Cardinality(Ops) + 1]]
    /\ lacks \in [Nodes -> SUBSET Nodes]
    /\ boundary \in [Nodes -> FirstBoundary..LastBoundary]
    /\ claims \in [Nodes -> SUBSET OpSectors]
    /\ \A n \in Nodes : initiated[n] # NoRound =>
          /\ initiated[n].stage \in Stages \ {"Accepted"}
          /\ initiated[n].peer \in Nodes \ {n}
          /\ initiated[n].budget \in 0..MaxOpBytes
    /\ \A n, p \in Nodes : accepted[n][p] # NoRound =>
          /\ accepted[n][p].stage \in Stages \ {"Initiated"}
          /\ accepted[n][p].peer = p /\ p # n
          /\ accepted[n][p].budget \in 0..MaxOpBytes
    /\ faults \in 0..MaxFaults

(* Whatever crosses on the wire, two peers never both get anywhere with a  *)
(* round they initiated with each other: the tie breaker of respond_to_    *)
(* initiate leaves one of them.                                            *)
Advanced(n, p) ==
    /\ initiated[n] # NoRound
    /\ initiated[n].peer = p
    /\ initiated[n].stage # "Initiated"

OneRoundPerPair == \A n, p \in Nodes : ~(Advanced(n, p) /\ Advanced(p, n))

(* When the bookmark kept about a peer moves, every op the peer stored in  *)
(* the interval it moves over is held or asked for: paging by budget, late *)
(* answers and crossing rounds never make retrieve_new_op_ids skip one.    *)
BookmarkSkipsNothing ==
    [][\A n, p \in Nodes : \A o \in Ops :
          /\ bookmark[n][p] <= stored[p][o]
          /\ stored[p][o] < bookmark'[n][p]
          => stored[n][o] > 0 \/ \E q \in Nodes : <<o, q>> \in requests'[n]]_vars

(* A sector joins the storage arc (update_storage_arcs) only when every op *)
(* in it that was old enough to be compared is held, for two nodes that    *)
(* hold every op between them.                                             *)
ClaimsHold ==
    \A n \in Nodes : \A o \in Ops :
        /\ Sector[o] \in claims[n]
        /\ Slice[o] < FirstBoundary + Rings
        => stored[n][o] > 0

(* Whatever was lost, timed out or forgotten at a restart, gossip ends up  *)
(* with every node holding every op that rings reach, knowing every peer's *)
(* agents, and some node claiming its whole target arc: only the initiator *)
(* of a round that finds nothing to sync grows its arc (respond/accept.rs),*)
(* and nothing makes both nodes the initiator in turn.                     *)
Converged ==
    /\ \A n \in Nodes :
          /\ \A o \in Ops : Slice[o] < LastBoundary + Rings => stored[n][o] > 0
          /\ lacks[n] = {}
    /\ \E n \in Nodes : claims[n] = OpSectors

Converges == <>[]Converged
====
