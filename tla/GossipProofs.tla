---- MODULE GossipProofs ----
(***************************************************************************)
(* Theorems about gossip rounds, for any number of nodes and ops, any      *)
(* budget and any faults: the bookmark about a peer never passes over an   *)
(* op that was neither stored nor asked for, of two rounds that two peers  *)
(* initiate with each other at most one gets anywhere, and a storage arc   *)
(* takes in only sectors whose ops are held.                               *)
(***************************************************************************)
EXTENDS GossipRound, FiniteSetTheorems, TLAPS

----------------------------------------------------------------------------
(* Bookmarks.                                                              *)

(* Messages that ask for what was stored since a bookmark, and messages    *)
(* that carry a page of it.                                                *)
Asking   == {"Initiate", "Accept"}
Carrying == {"Accept", "NoDiff", "DiscSectorsDiff", "RingSectorDetailsDiff"}

(* Ops are stored one after the other, and only ops that are not held are  *)
(* asked for.                                                              *)
StoreInv ==
    /\ stored \in [Nodes -> [Ops -> Nat]]
    /\ bookmark \in [Nodes -> [Nodes -> Nat \ {0}]]
    /\ DOMAIN requests = Nodes
    /\ \A n \in Nodes, o \in Ops : stored[n][o] < Now(n)
    /\ \A n \in Nodes, o \in Ops, p \in Nodes : <<o, p>> \in requests[n] => stored[n][o] = 0

(* A page that p made for n has every op from n's bookmark up to its end. *)
Pages(p, n, new, upto) ==
    /\ upto \in Nat /\ upto <= Now(p)
    /\ \A o \in Ops : bookmark[n][p] <= stored[p][o] /\ stored[p][o] < upto => o \in new

(* What a message says of a bookmark is not ahead of it. *)
Sound(m) ==
    /\ m.from \in Nodes /\ m.to \in Nodes /\ m.from # m.to
    /\ m.type \in Asking => /\ m.body.since \in Nat
                            /\ m.body.since <= bookmark[m.from][m.to]
    /\ m.type \in Carrying => Pages(m.from, m.to, m.body.new, m.body.upto)

WireInv     == \A m \in msgs : Sound(m)
CheckingInv ==
    /\ DOMAIN checking = Nodes
    /\ \A n \in Nodes : \A m \in checking[n] : m.type = "Initiate" /\ m.to = n /\ Sound(m)

GossipInv == StoreInv /\ WireInv /\ CheckingInv

(* Bookmarks and the count of stored ops only grow. *)
Grows ==
    /\ \A n, p \in Nodes : bookmark[n][p] <= bookmark'[n][p]
    /\ \A n \in Nodes : Now(n) <= Now(n)'
    /\ \A n \in Nodes, o \in Ops : stored'[n][o] = stored[n][o] \/ Now(n) <= stored'[n][o]

(* The count of stored ops is a number. *)
LEMMA NowIsNat == ASSUME NEW n \in Nodes PROVE Now(n) \in Nat /\ IsFiniteSet(Held(n))
<1>1. IsFiniteSet(Held(n))
  BY LimitsAssumption, FS_Subset DEF Held
<1> QED
  BY <1>1, FS_CardinalityType DEF Now

LEMMA NextNowIsNat == ASSUME NEW n \in Nodes PROVE Now(n)' \in Nat
<1>1. IsFiniteSet(Held(n)')
  BY LimitsAssumption, FS_Subset DEF Held
<1> QED
  BY <1>1, FS_CardinalityType DEF Now

(* What was sound stays sound. *)
LEMMA SoundStays ==
    ASSUME StoreInv, StoreInv', Grows, NEW m, Sound(m)
    PROVE  Sound(m)'
<1>1. m.from \in Nodes /\ m.to \in Nodes
  BY DEF Sound
<1>2. Now(m.from) \in Nat
  BY <1>1, NowIsNat
<1>3. Now(m.from)' \in Nat
  BY <1>1, NextNowIsNat
<1>4. /\ bookmark[m.from][m.to] \in Nat /\ bookmark'[m.from][m.to] \in Nat
      /\ bookmark[m.from][m.to] <= bookmark'[m.from][m.to]
      /\ bookmark[m.to][m.from] \in Nat /\ bookmark'[m.to][m.from] \in Nat
      /\ bookmark[m.to][m.from] <= bookmark'[m.to][m.from]
  BY <1>1 DEF StoreInv, Grows
<1>5. m.type \in Asking => m.body.since \in Nat /\ m.body.since <= bookmark'[m.from][m.to]
  BY <1>4 DEF Sound
<1>6. ASSUME m.type \in Carrying PROVE Pages(m.from, m.to, m.body.new, m.body.upto)'
  <2>1. Pages(m.from, m.to, m.body.new, m.body.upto)
    BY <1>6 DEF Sound
  <2>2. m.body.upto \in Nat /\ m.body.upto <= Now(m.from)'
    BY <1>1, <1>2, <1>3, <2>1 DEF Pages, Grows
  <2>3. ASSUME NEW o \in Ops, bookmark'[m.to][m.from] <= stored'[m.from][o],
               stored'[m.from][o] < m.body.upto
        PROVE  o \in m.body.new
    <3>1. stored[m.from][o] \in Nat /\ stored'[m.from][o] \in Nat
      BY <1>1 DEF StoreInv
    <3>2. m.body.upto <= Now(m.from)
      BY <2>1 DEF Pages
    <3>3. stored'[m.from][o] = stored[m.from][o]
      BY <1>1, <1>2, <2>2, <2>3, <3>1, <3>2 DEF Grows
    <3>4. bookmark[m.to][m.from] <= stored[m.from][o]
      BY <1>4, <2>3, <3>1, <3>3
    <3> QED
      BY <2>1, <2>3, <3>3, <3>4 DEF Pages
  <2> QED
    BY <2>2, <2>3 DEF Pages
<1> QED
  BY <1>1, <1>5, <1>6 DEF Sound

(* retrieve_new_op_ids leaves nothing out below the new bookmark. *)
LEMMA PageIsWhole ==
    ASSUME StoreInv, NEW p \in Nodes, NEW n \in Nodes, NEW since \in Nat,
           since <= bookmark[n][p]
    PROVE  Pages(p, n, NewOps(p, since), NewBookmark(p, since))
<1>1. Now(p) \in Nat /\ MaxOpBytes \in Nat /\ bookmark[n][p] \in Nat
  BY NowIsNat, LimitsAssumption DEF StoreInv
<1>2. \A o \in Ops : stored[p][o] \in Nat /\ stored[p][o] < Now(p)
  BY DEF StoreInv
<1>3. \A o \in Ops : bookmark[n][p] <= stored[p][o] => since <= stored[p][o]
  BY <1>1, <1>2
<1>4. \A o \in Ops : bookmark[n][p] <= stored[p][o] => o \in Since(p, since)
  BY <1>1, <1>2, <1>3 DEF StoreInv, Since, Held
<1>5. CASE NewOps(p, since) = Since(p, since)
  BY <1>1, <1>4, <1>5 DEF NewBookmark, Pages
<1>6. CASE NewOps(p, since) # Since(p, since)
  <2>1. PICK o \in Ops : o \in Since(p, since) /\ ~(stored[p][o] < since + MaxOpBytes)
    BY <1>6 DEF NewOps, Since, Held
  <2>2. since + MaxOpBytes \in Nat /\ since + MaxOpBytes <= Now(p)
    BY <1>1, <1>2, <2>1
  <2>3. NewBookmark(p, since) = since + MaxOpBytes
    BY <1>6 DEF NewBookmark
  <2> QED
    BY <1>4, <2>2, <2>3 DEF Pages, NewOps
<1> QED
  BY <1>5, <1>6

(* A step that stores nothing and moves no bookmark back. *)
LEMMA MovesOn ==
    ASSUME StoreInv, UNCHANGED stored,
           \A n, p \in Nodes : bookmark'[n][p] \in Nat \ {0} /\ bookmark[n][p] <= bookmark'[n][p],
           bookmark' \in [Nodes -> [Nodes -> Nat \ {0}]], DOMAIN requests' = Nodes,
           \A n \in Nodes, o \in Ops, p \in Nodes :
               <<o, p>> \in requests'[n] => <<o, p>> \in requests[n] \/ o \notin Held(n)
    PROVE  StoreInv' /\ Grows
<1>1. \A n \in Nodes : Now(n)' = Now(n) /\ Now(n) \in Nat
  BY NowIsNat DEF Now, Held
<1>2. Grows
  BY <1>1 DEF Grows, StoreInv
<1>3. ASSUME NEW n \in Nodes, NEW o \in Ops, NEW p \in Nodes, <<o, p>> \in requests'[n]
      PROVE  stored'[n][o] = 0
  <2>1. CASE <<o, p>> \in requests[n]
    BY <2>1 DEF StoreInv
  <2>2. CASE o \notin Held(n)
    BY <2>2 DEF StoreInv, Held
  <2> QED
    BY <1>3, <2>1, <2>2
<1>4. StoreInv'
  BY <1>1, <1>3 DEF StoreInv
<1> QED
  BY <1>2, <1>4

(* update_new_ops_bookmark. *)
LEMMA ForwardIs ==
    ASSUME StoreInv, NEW n \in Nodes, NEW p \in Nodes, NEW upto \in Nat
    PROVE  /\ Forward(n, p, upto) \in [Nodes -> [Nodes -> Nat \ {0}]]
           /\ \A k, q \in Nodes :
                 Forward(n, p, upto)[k][q] =
                     IF k = n /\ q = p /\ bookmark[n][p] <= upto
                     THEN upto ELSE bookmark[k][q]
<1>1. bookmark \in [Nodes -> [Nodes -> Nat \ {0}]]
  BY DEF StoreInv
<1>2. bookmark[n][p] <= upto => upto \in Nat \ {0}
  BY <1>1
<1>3. bookmark[n] \in [Nodes -> Nat \ {0}]
  BY <1>1
<1> DEFINE row == [bookmark[n] EXCEPT ![p] = IF @ <= upto THEN upto ELSE @]
<1>4. row \in [Nodes -> Nat \ {0}]
  BY <1>2, <1>3
<1>5. Forward(n, p, upto) = [bookmark EXCEPT ![n] = row]
  BY DEF Forward
<1>6. \A q \in Nodes : row[q] = IF q = p /\ bookmark[n][p] <= upto
                               THEN upto ELSE bookmark[n][q]
  BY <1>3
<1> HIDE DEF row
<1>7. Forward(n, p, upto) \in [Nodes -> [Nodes -> Nat \ {0}]]
  BY <1>1, <1>4, <1>5
<1>8. \A k, q \in Nodes :
          Forward(n, p, upto)[k][q] = IF k = n THEN row[q] ELSE bookmark[k][q]
  BY <1>1, <1>5
<1> QED
  BY <1>6, <1>7, <1>8

(* request_ops. *)
LEMMA RequestOpsIs ==
    ASSUME StoreInv, NEW n \in Nodes, NEW p \in Nodes, NEW ops
    PROVE  /\ DOMAIN RequestOps(n, p, ops) = Nodes
           /\ \A k \in Nodes :
                 RequestOps(n, p, ops)[k] =
                     IF k = n THEN requests[n] \cup {<<o, p>> : o \in ops \ Held(n)}
                              ELSE requests[k]
  BY DEF RequestOps, StoreInv

(* Together. *)
LEMMA HandsOn ==
    ASSUME StoreInv, UNCHANGED stored, NEW n \in Nodes, NEW p \in Nodes, NEW ops,
           \/ UNCHANGED bookmark
           \/ \E upto \in Nat : bookmark' = Forward(n, p, upto),
           requests' = RequestOps(n, p, ops) \/ UNCHANGED requests
    PROVE  StoreInv' /\ Grows
<1>1. /\ bookmark' \in [Nodes -> [Nodes -> Nat \ {0}]]
      /\ \A k, q \in Nodes : bookmark'[k][q] \in Nat \ {0} /\ bookmark[k][q] <= bookmark'[k][q]
  <2>1. CASE UNCHANGED bookmark
    BY <2>1 DEF StoreInv
  <2>2. ASSUME NEW upto \in Nat, bookmark' = Forward(n, p, upto)
        PROVE  /\ bookmark' \in [Nodes -> [Nodes -> Nat \ {0}]]
               /\ \A k, q \in Nodes : /\ bookmark'[k][q] \in Nat \ {0}
                                      /\ bookmark[k][q] <= bookmark'[k][q]
    <3>1. bookmark \in [Nodes -> [Nodes -> Nat \ {0}]]
      BY DEF StoreInv
    <3>2. bookmark' \in [Nodes -> [Nodes -> Nat \ {0}]]
      BY <2>2, ForwardIs
    <3>3. ASSUME NEW k \in Nodes, NEW q \in Nodes
          PROVE  bookmark'[k][q] = IF k = n /\ q = p /\ bookmark[n][p] <= upto
                                   THEN upto ELSE bookmark[k][q]
      BY <2>2, ForwardIs
    <3>4. ASSUME NEW k \in Nodes, NEW q \in Nodes
          PROVE  bookmark'[k][q] \in Nat \ {0} /\ bookmark[k][q] <= bookmark'[k][q]
      <4>1. bookmark'[k][q] \in Nat \ {0} /\ bookmark[k][q] \in Nat
        BY <3>1, <3>2
      <4> QED
        BY <3>3, <4>1
    <3> QED
      BY <3>2, <3>4
  <2> QED
    BY <2>1, <2>2
<1>2. /\ DOMAIN requests' = Nodes
      /\ \A k \in Nodes, o \in Ops, q \in Nodes :
            <<o, q>> \in requests'[k] => <<o, q>> \in requests[k] \/ o \notin Held(k)
  <2>1. CASE UNCHANGED requests
    BY <2>1 DEF StoreInv
  <2>2. CASE requests' = RequestOps(n, p, ops)
    <3>0. \A j \in Nodes :
              RequestOps(n, p, ops)[j] =
                  IF j = n THEN requests[n] \cup {<<o, p>> : o \in ops \ Held(n)}
                           ELSE requests[j]
      BY DEF RequestOps, StoreInv
    <3>1. DOMAIN requests' = Nodes
      BY <2>2, RequestOpsIs
    <3>2. ASSUME NEW k \in Nodes, NEW o \in Ops, NEW q \in Nodes, <<o, q>> \in requests'[k]
          PROVE  <<o, q>> \in requests[k] \/ o \notin Held(k)
      <4>1. requests'[k] = IF k = n
                           THEN requests[n] \cup {<<y, p>> : y \in ops \ Held(n)}
                           ELSE requests[k]
        BY <2>2, <3>0
      <4> QED
        BY <3>2, <4>1
    <3> QED
      BY <3>1, <3>2
  <2> QED
    BY <2>1, <2>2
<1> QED
  BY <1>1, <1>2, MovesOn

(* A step that touches no data. *)
LEMMA DataStays == ASSUME StoreInv, UNCHANGED data PROVE StoreInv' /\ Grows
<1>1. UNCHANGED <<stored, bookmark, requests>>
  BY DEF data
<1> QED
  BY <1>1, MovesOn DEF StoreInv

(* The messages that are still in flight, and the new ones. *)
LEMMA WireStays ==
    ASSUME StoreInv, StoreInv', Grows, WireInv,
           \A m \in msgs' : m \in msgs \/ Sound(m)'
    PROVE  WireInv'
<1>1. ASSUME NEW m \in msgs' PROVE Sound(m)'
  <2>1. CASE m \in msgs
    <3>1. Sound(m)
      BY <2>1 DEF WireInv
    <3> QED
      BY <3>1, SoundStays
  <2> QED
    BY <1>1, <2>1
<1> QED
  BY <1>1 DEF WireInv

(* The initiates that are still being checked. *)
LEMMA CheckingStays ==
    ASSUME StoreInv, StoreInv', Grows, CheckingInv,
           DOMAIN checking' = Nodes,
           \A n \in Nodes : \A m \in checking'[n] :
               m \in checking[n] \/ (m.type = "Initiate" /\ m.to = n /\ Sound(m))
    PROVE  CheckingInv'
<1>1. ASSUME NEW n \in Nodes, NEW m \in checking'[n]
      PROVE  m.type = "Initiate" /\ m.to = n /\ Sound(m)'
  <2>1. m.type = "Initiate" /\ m.to = n /\ Sound(m)
    BY DEF CheckingInv
  <2> QED
    BY <2>1, SoundStays
<1> QED
  BY <1>1 DEF CheckingInv

----------------------------------------------------------------------------
(* The steps.                                                              *)

(* What a step may do to the bookmarks. *)
SkipsNothing ==
    \A n, p \in Nodes : \A o \in Ops :
        /\ bookmark[n][p] <= stored[p][o]
        /\ stored[p][o] < bookmark'[n][p]
        => stored[n][o] > 0 \/ \E q \in Nodes : <<o, q>> \in requests'[n]

LEMMA UnmovedSkipsNothing ==
    ASSUME StoreInv, UNCHANGED bookmark PROVE SkipsNothing
<1>1. \A n, p \in Nodes : bookmark[n][p] \in Nat
  BY DEF StoreInv
<1>2. \A p \in Nodes, o \in Ops : stored[p][o] \in Nat
  BY DEF StoreInv
<1> QED
  BY <1>1, <1>2 DEF SkipsNothing

(* A bookmark that moves to the end of a page whose ops are asked for. *)
LEMMA PageSkipsNothing ==
    ASSUME StoreInv, NEW n \in Nodes, NEW p \in Nodes, NEW new, NEW upto,
           Pages(p, n, new, upto),
           bookmark' = Forward(n, p, upto), requests' = RequestOps(n, p, new)
    PROVE  SkipsNothing
<1> SUFFICES ASSUME NEW k \in Nodes, NEW q \in Nodes, NEW o \in Ops,
                    bookmark[k][q] <= stored[q][o], stored[q][o] < bookmark'[k][q]
             PROVE  stored[k][o] > 0 \/ \E r \in Nodes : <<o, r>> \in requests'[k]
  BY DEF SkipsNothing
<1>1. bookmark[k][q] \in Nat /\ stored[q][o] \in Nat /\ stored[k][o] \in Nat /\ upto \in Nat
  BY DEF StoreInv, Pages
<1>2. bookmark'[k][q] = IF k = n /\ q = p /\ bookmark[n][p] <= upto
                        THEN upto ELSE bookmark[k][q]
  <2>1. upto \in Nat
    BY <1>1
  <2>2. \A a, b \in Nodes :
            Forward(n, p, upto)[a][b] =
                IF a = n /\ b = p /\ bookmark[n][p] <= upto
                THEN upto ELSE bookmark[a][b]
    BY <2>1, ForwardIs
  <2> QED
    BY <2>2
<1>3. k = n /\ q = p /\ stored[p][o] < upto
  BY <1>1, <1>2
<1>4. o \in new
  BY <1>3 DEF Pages
<1>5. CASE o \in Held(n)
  BY <1>3, <1>5 DEF Held
<1>6. CASE o \notin Held(n)
  <2>1. requests'[n] = requests[n] \cup {<<x, p>> : x \in new \ Held(n)}
    BY RequestOpsIs
  <2>2. <<o, p>> \in requests'[n]
    BY <1>4, <1>6, <2>1
  <2> QED
    BY <1>3, <2>2
<1> QED
  BY <1>5, <1>6

(* What every step has to keep. *)
Kept == GossipInv' /\ SkipsNothing

(* A message that says nothing of a bookmark. *)
Quiet(k) == k.from \in Nodes /\ k.to \in Nodes /\ k.from # k.to
            /\ k.type \notin Asking \cup Carrying

LEMMA QuietIsSound == ASSUME NEW k, Quiet(k) PROVE Sound(k)'
  BY DEF Quiet, Sound

(* A handler that takes nothing from a page and sends none. *)
LEMMA QuietStep ==
    ASSUME GossipInv, UNCHANGED <<stored, bookmark>>,
           NEW n \in Nodes, NEW p \in Nodes, NEW ops,
           requests' = RequestOps(n, p, ops) \/ UNCHANGED requests,
           \A k \in msgs' : k \in msgs \/ Quiet(k),
           DOMAIN checking' = Nodes,
           \A x \in Nodes : \A k \in checking'[x] :
               k \in checking[x] \/ (k.type = "Initiate" /\ k.to = x /\ Sound(k))
    PROVE  Kept
<1>1. StoreInv' /\ Grows
  BY HandsOn DEF GossipInv
<1>2. WireInv'
  BY <1>1, QuietIsSound, WireStays DEF GossipInv
<1>3. CheckingInv'
  BY <1>1, CheckingStays DEF GossipInv
<1>4. SkipsNothing
  BY UnmovedSkipsNothing DEF GossipInv
<1> QED
  BY <1>1, <1>2, <1>3, <1>4 DEF Kept, GossipInv

(* A handler that takes a page. *)
LEMMA PageStep ==
    ASSUME GossipInv, UNCHANGED <<stored, checking>>, NEW m \in msgs, m.type \in Carrying,
           bookmark' = Forward(m.to, m.from, m.body.upto),
           requests' = RequestOps(m.to, m.from, m.body.new),
           StoreInv' /\ Grows => \A k \in msgs' : k \in msgs \/ Sound(k)'
    PROVE  Kept
<1>1. /\ m.from \in Nodes /\ m.to \in Nodes
      /\ Pages(m.from, m.to, m.body.new, m.body.upto)
  BY DEF GossipInv, WireInv, Sound
<1>2. m.body.upto \in Nat
  BY <1>1 DEF Pages
<1>3. StoreInv' /\ Grows
  BY <1>1, <1>2, HandsOn DEF GossipInv
<1>4. WireInv'
  BY <1>3, WireStays DEF GossipInv
<1>5. CheckingInv'
  BY <1>3, CheckingStays DEF GossipInv, CheckingInv
<1>6. SkipsNothing
  BY <1>1, PageSkipsNothing DEF GossipInv
<1> QED
  BY <1>3, <1>4, <1>5, <1>6 DEF Kept, GossipInv

(* Where messages come from and go to. *)
LEMMA Ends ==
    ASSUME GossipInv, NEW m \in msgs
    PROVE  /\ m.from \in Nodes /\ m.to \in Nodes /\ m.from # m.to
           /\ DOMAIN checking = Nodes
  BY DEF GossipInv, WireInv, CheckingInv, Sound

LEMMA ReplyIs ==
    ASSUME NEW m, NEW type, NEW body, NEW k \in Reply(m, type, body)
    PROVE  /\ k.type = type /\ k.from = m.to /\ k.to = m.from
           /\ k.sid = m.sid /\ k.body = body
  BY DEF Reply

LEMMA QuietReply ==
    ASSUME GossipInv, NEW m \in msgs, NEW type, type \notin Asking \cup Carrying,
           NEW body, NEW k \in Reply(m, type, body)
    PROVE  Quiet(k)
<1>1. k.type = type /\ k.from = m.to /\ k.to = m.from
  BY ReplyIs
<1> QED
  BY <1>1, Ends DEF Quiet

(* A message that is consumed and answered with messages that say nothing  *)
(* of a bookmark, with or without a request for ops.                       *)
LEMMA QuietAnswer ==
    ASSUME GossipInv, UNCHANGED <<stored, bookmark, checking>>,
           NEW m \in msgs, NEW replies, Answer(m, replies),
           \A k \in replies : Quiet(k), NEW ops,
           requests' = RequestOps(m.to, m.from, ops) \/ UNCHANGED requests
    PROVE  Kept
<1>1. \A k \in msgs' : k \in msgs \/ Quiet(k)
  BY DEF Answer
<1>2. /\ DOMAIN checking' = Nodes
      /\ \A x \in Nodes : \A k \in checking'[x] : k \in checking[x]
  BY DEF GossipInv, CheckingInv
<1>3. m.from \in Nodes /\ m.to \in Nodes
  BY Ends
<1> QED
  BY <1>1, <1>2, <1>3, QuietStep

LEMMA InitiateKeeps ==
    ASSUME GossipInv, NEW n \in Nodes, NEW p \in Nodes, Initiate(n, p)
    PROVE  Kept
<1>1. PICK k : /\ msgs' = msgs \cup {k}
               /\ k.type = "Initiate" /\ k.from = n /\ k.to = p
               /\ k.body.since = bookmark[n][p]
  <2> DEFINE s == CHOOSE s \in Sids : s \notin InUse
             sent(t) == [type |-> "Initiate", from |-> n, to |-> p, sid |-> s,
                         body |-> [tie |-> t, since |-> bookmark[n][p]]]
  <2>1. PICK t \in Ties \ TiesInUse : msgs' = msgs \cup {sent(t)}
    BY DEF Initiate
  <2>2. /\ sent(t).type = "Initiate" /\ sent(t).from = n /\ sent(t).to = p
        /\ sent(t).body.since = bookmark[n][p]
    OBVIOUS
  <2> QED
    BY <2>1, <2>2
<1>2. n # p /\ UNCHANGED data /\ UNCHANGED checking
  BY DEF Initiate
<1>3. StoreInv' /\ Grows
  BY <1>2, DataStays DEF GossipInv
<1>4. bookmark[n][p] \in Nat
  BY DEF GossipInv, StoreInv
<1>5. Sound(k)
  BY <1>1, <1>2, <1>4 DEF Sound, Asking, Carrying
<1>6. Sound(k)'
  BY <1>3, <1>5, SoundStays DEF GossipInv
<1>7. WireInv'
  BY <1>1, <1>3, <1>6, WireStays DEF GossipInv
<1>8. CheckingInv'
  BY <1>2, <1>3, CheckingStays DEF GossipInv, CheckingInv
<1>9. SkipsNothing
  BY <1>2, UnmovedSkipsNothing DEF GossipInv, data
<1> QED
  BY <1>3, <1>7, <1>8, <1>9 DEF Kept, GossipInv

LEMMA AcceptRoundKeeps ==
    ASSUME GossipInv, NEW n \in Nodes, NEW m \in checking[n], AcceptRound(n, m)
    PROVE  Kept
<1>1. m.type = "Initiate" /\ m.to = n /\ Sound(m)
  BY DEF GossipInv, CheckingInv
<1>2. /\ m.from \in Nodes /\ m.from # n /\ m.body.since \in Nat
      /\ m.body.since <= bookmark[m.from][n]
  BY <1>1 DEF Sound, Asking
<1>3. UNCHANGED data /\ checking' = [checking EXCEPT ![n] = @ \ {m}]
  BY DEF AcceptRound
<1>4. StoreInv' /\ Grows
  BY <1>3, DataStays DEF GossipInv
<1>5. Pages(n, m.from, NewOps(n, m.body.since), NewBookmark(n, m.body.since))
  BY <1>2, PageIsWhole DEF GossipInv
<1>6. \A k \in msgs' : k \in msgs \/ Sound(k)'
  <2>1. CASE msgs' = msgs
    BY <2>1
  <2>2. ASSUME NEW k \in msgs', k \notin msgs PROVE Sound(k)'
    <3>1. /\ k.type = "Accept" /\ k.from = m.to /\ k.to = m.from
          /\ k.body.since = bookmark[n][m.from]
          /\ k.body.new = NewOps(n, m.body.since)
          /\ k.body.upto = NewBookmark(n, m.body.since)
      BY <2>2 DEF AcceptRound, Reply
    <3>2. bookmark[n][m.from] \in Nat
      BY <1>2 DEF GossipInv, StoreInv
    <3>3. Sound(k)
      BY <1>1, <1>2, <1>5, <3>1, <3>2 DEF Sound
    <3> QED
      BY <1>4, <3>3, SoundStays DEF GossipInv
  <2> QED
    BY <2>2
<1>7. WireInv'
  BY <1>4, <1>6, WireStays DEF GossipInv
<1>8. /\ DOMAIN checking' = Nodes
      /\ \A x \in Nodes : \A k \in checking'[x] : k \in checking[x]
  BY <1>3 DEF GossipInv, CheckingInv
<1>9. CheckingInv'
  BY <1>4, <1>8, CheckingStays DEF GossipInv
<1>10. SkipsNothing
  BY <1>3, UnmovedSkipsNothing DEF GossipInv, data
<1> QED
  BY <1>4, <1>7, <1>9, <1>10 DEF Kept, GossipInv

LEMMA RefuseInitiateKeeps ==
    ASSUME GossipInv, NEW m \in msgs, RefuseInitiate(m) PROVE Kept
<1>1. Answer(m, {}) /\ UNCHANGED data /\ UNCHANGED rounds
  BY DEF RefuseInitiate
<1> QED
  BY <1>1, QuietAnswer DEF data, rounds

LEMMA AdmitInitiateKeeps ==
    ASSUME GossipInv, NEW m \in msgs, AdmitInitiate(m) PROVE Kept
<1>1. UNCHANGED data /\ m.type = "Initiate"
  BY DEF AdmitInitiate
<1>2. Sound(m) /\ m.from \in Nodes /\ m.to \in Nodes
  BY DEF GossipInv, WireInv, Sound
<1>3. \A k \in msgs' : k \in msgs \/ k \in Reply(m, "Busy", Nothing)
  BY DEF AdmitInitiate, Answer
<1>4. \A k \in msgs' : k \in msgs \/ Quiet(k)
  BY <1>3, QuietReply DEF Asking, Carrying
<1>5. checking' = checking \/ checking' = [checking EXCEPT ![m.to] = @ \cup {m}]
  BY DEF AdmitInitiate
<1>6. /\ DOMAIN checking' = Nodes
      /\ \A x \in Nodes : \A k \in checking'[x] :
            k \in checking[x] \/ (k.type = "Initiate" /\ k.to = x /\ Sound(k))
  BY <1>1, <1>2, <1>5 DEF GossipInv, CheckingInv
<1>7. UNCHANGED <<stored, bookmark>> /\ UNCHANGED requests
  BY <1>1 DEF data
<1> QED
  BY <1>2, <1>4, <1>6, <1>7, QuietStep

(* A handler that sends a page back for the page it takes. *)
LEMMA RespondToAcceptKeeps ==
    ASSUME GossipInv, NEW m \in msgs, RespondToAccept(m) PROVE Kept
<1>1. /\ m.type = "Accept"
      /\ bookmark' = Forward(m.to, m.from, m.body.upto)
      /\ requests' = RequestOps(m.to, m.from, m.body.new)
      /\ UNCHANGED <<stored, checking>>
  BY DEF RespondToAccept
<1>2. /\ m.from \in Nodes /\ m.to \in Nodes /\ m.from # m.to
      /\ m.body.since \in Nat /\ m.body.since <= bookmark[m.from][m.to]
  BY <1>1 DEF GossipInv, WireInv, Sound, Asking
<1>3. Pages(m.to, m.from, NewOps(m.to, m.body.since), NewBookmark(m.to, m.body.since))
  BY <1>2, PageIsWhole DEF GossipInv
<1>4. ASSUME StoreInv', Grows PROVE \A k \in msgs' : k \in msgs \/ Sound(k)'
  <2>1. ASSUME NEW k \in msgs', k \notin msgs PROVE Sound(k)'
    <3>1. /\ k.type \in Carrying \ Asking /\ k.from = m.to /\ k.to = m.from
          /\ k.body.new = NewOps(m.to, m.body.since)
          /\ k.body.upto = NewBookmark(m.to, m.body.since)
      BY <2>1 DEF RespondToAccept, Answer, Reply, Carrying, Asking
    <3>2. Sound(k)
      BY <1>2, <1>3, <3>1 DEF Sound
    <3> QED
      BY <1>4, <3>2, SoundStays DEF GossipInv
  <2> QED
    BY <2>1
<1> QED
  BY <1>1, <1>4, PageStep DEF Carrying

(* Handlers that take a page and send none. *)
LEMMA PageAnswer ==
    ASSUME GossipInv, UNCHANGED <<stored, checking>>, NEW m \in msgs, m.type \in Carrying,
           HandleAcceptResponse(m), NEW replies, Answer(m, replies),
           \A k \in replies : Quiet(k)
    PROVE  Kept
<1>1. \A k \in msgs' : k \in msgs \/ Sound(k)'
  BY QuietIsSound DEF Answer
<1> QED
  BY <1>1, PageStep DEF HandleAcceptResponse

LEMMA RespondToNoDiffKeeps ==
    ASSUME GossipInv, NEW m \in msgs, RespondToNoDiff(m) PROVE Kept
<1> DEFINE type == IF m.body.missing THEN "Agents" ELSE "Terminate"
<1>1. type \notin Asking \cup Carrying
  BY DEF Asking, Carrying
<1>2. /\ m.type \in Carrying /\ HandleAcceptResponse(m) /\ UNCHANGED <<stored, checking>>
      /\ Answer(m, Reply(m, type, Nothing))
  BY DEF RespondToNoDiff, Carrying
<1> HIDE DEF type
<1>3. \A k \in Reply(m, type, Nothing) : Quiet(k)
  BY <1>1, QuietReply
<1> QED
  BY <1>2, <1>3, PageAnswer

LEMMA RespondToDiscSectorsDiffKeeps ==
    ASSUME GossipInv, NEW m \in msgs, RespondToDiscSectorsDiff(m) PROVE Kept
<1>1. m.type \in Carrying /\ HandleAcceptResponse(m) /\ UNCHANGED <<stored, checking>>
  BY DEF RespondToDiscSectorsDiff, Carrying
<1>2. CASE Answer(m, IF m.body.missing THEN Reply(m, "Agents", Nothing) ELSE {})
  <2>1. \A k \in Reply(m, "Agents", Nothing) : Quiet(k)
    BY QuietReply DEF Asking, Carrying
  <2> DEFINE replies == IF m.body.missing THEN Reply(m, "Agents", Nothing) ELSE {}
  <2>2. \A k \in replies : Quiet(k)
    BY <2>1
  <2>3. Answer(m, replies)
    BY <1>2
  <2> HIDE DEF replies
  <2> QED
    BY <1>1, <2>2, <2>3, PageAnswer
<1>3. ASSUME NEW body, Answer(m, Reply(m, "DiscSectorDetailsDiff", body)) PROVE Kept
  <2>1. \A k \in Reply(m, "DiscSectorDetailsDiff", body) : Quiet(k)
    BY QuietReply DEF Asking, Carrying
  <2> QED
    BY <1>1, <1>3, <2>1, PageAnswer
<1> QED
  BY <1>2, <1>3 DEF RespondToDiscSectorsDiff

LEMMA RespondToRingSectorDetailsDiffKeeps ==
    ASSUME GossipInv, NEW m \in msgs, RespondToRingSectorDetailsDiff(m) PROVE Kept
<1>1. m.type \in Carrying /\ HandleAcceptResponse(m) /\ UNCHANGED <<stored, checking>>
  BY DEF RespondToRingSectorDetailsDiff, Carrying
<1>2. ASSUME NEW type, NEW body, type \notin Asking \cup Carrying,
             Answer(m, Reply(m, type, body))
      PROVE  Kept
  <2>1. \A k \in Reply(m, type, body) : Quiet(k)
    BY <1>2, QuietReply
  <2> QED
    BY <1>1, <1>2, <2>1, PageAnswer
<1>3. CASE Answer(m, Reply(m, IF m.body.missing THEN "Agents" ELSE "Terminate", Nothing))
  BY <1>2, <1>3 DEF Asking, Carrying
<1>4. ASSUME NEW body, Answer(m, Reply(m, "RingSectorDetailsDiffResponse", body)) PROVE Kept
  BY <1>2, <1>4 DEF Asking, Carrying
<1> QED
  BY <1>3, <1>4 DEF RespondToRingSectorDetailsDiff

(* Handlers that neither take a page nor send one. *)
LEMMA QuietHandlerKeeps ==
    ASSUME GossipInv, NEW m \in msgs,
           \/ RespondToDiscSectorDetailsDiff(m)
           \/ RespondToDiscSectorDetailsDiffResponse(m)
           \/ RespondToRingSectorDetailsDiffResponse(m)
           \/ RespondToHashes(m)
           \/ RespondToAgents(m)
           \/ RespondToBusy(m)
           \/ RespondToTerminate(m)
           \/ Reject(m)
    PROVE  Kept
<1>1. UNCHANGED <<stored, bookmark, checking>>
  BY DEF RespondToDiscSectorDetailsDiff, RespondToDiscSectorDetailsDiffResponse,
         RespondToRingSectorDetailsDiffResponse, RespondToHashes, RespondToAgents,
         RespondToBusy, RespondToTerminate, Reject, data, rounds
<1>2. \/ UNCHANGED requests
      \/ requests' = RequestOps(m.to, m.from, m.body.ids)
  BY DEF RespondToDiscSectorDetailsDiff, RespondToDiscSectorDetailsDiffResponse,
         RespondToRingSectorDetailsDiffResponse, RespondToHashes, RespondToAgents,
         RespondToBusy, RespondToTerminate, Reject, data, rounds
<1>3. ASSUME NEW type, NEW body, type \notin Asking \cup Carrying,
             Answer(m, Reply(m, type, body))
      PROVE  Kept
  <2>1. \A k \in Reply(m, type, body) : Quiet(k)
    BY <1>3, QuietReply
  <2> QED
    BY <1>1, <1>2, <1>3, <2>1, QuietAnswer
<1>4. CASE Answer(m, {})
  BY <1>1, <1>2, <1>4, QuietAnswer
<1>5. \/ Answer(m, {})
      \/ \E type \in {"Terminate", "Hashes", "DiscSectorDetailsDiffResponse"} :
            \E body : Answer(m, Reply(m, type, body))
  <2>1. CASE RespondToDiscSectorDetailsDiff(m)
    BY <2>1 DEF RespondToDiscSectorDetailsDiff
  <2>2. CASE RespondToDiscSectorDetailsDiffResponse(m)
    BY <2>2 DEF RespondToDiscSectorDetailsDiffResponse
  <2>3. CASE RespondToRingSectorDetailsDiffResponse(m)
    BY <2>3 DEF RespondToRingSectorDetailsDiffResponse
  <2> QED
    BY <2>1, <2>2, <2>3 DEF RespondToHashes, RespondToAgents, RespondToBusy,
                            RespondToTerminate, Reject
<1> QED
  BY <1>3, <1>4, <1>5 DEF Asking, Carrying

(* Timers and losses that leave the stores and the requests alone. *)
LEMMA OutsideKeeps ==
    ASSUME GossipInv,
           \/ \E n \in Nodes : TimeoutInitiated(n)
           \/ \E n, p \in Nodes : TimeoutAccepted(n, p)
           \/ \E n \in Nodes : UpdateDht(n)
           \/ \E m \in msgs : Lose(m)
           \/ UNCHANGED vars
    PROVE  Kept
<1>1. UNCHANGED <<stored, bookmark, requests, checking>>
  BY DEF TimeoutInitiated, TimeoutAccepted, UpdateDht, Lose, data, rounds, vars
<1>2. msgs' \subseteq msgs
  BY DEF TimeoutInitiated, TimeoutAccepted, UpdateDht, Lose, Answer, vars
<1>3. StoreInv' /\ Grows
  BY <1>1, MovesOn DEF GossipInv, StoreInv
<1>4. WireInv'
  BY <1>2, <1>3, WireStays DEF GossipInv
<1>5. CheckingInv'
  BY <1>1, <1>3, CheckingStays DEF GossipInv, CheckingInv
<1>6. SkipsNothing
  BY <1>1, UnmovedSkipsNothing DEF GossipInv
<1> QED
  BY <1>3, <1>4, <1>5, <1>6 DEF Kept, GossipInv

(* A restart and a lost fetch forget requests and initiates. *)
LEMMA ForgetKeeps ==
    ASSUME GossipInv, NEW n \in Nodes, Restart(n) \/ LoseFetch(n)
    PROVE  Kept
<1>1. UNCHANGED <<stored, bookmark, msgs>>
  BY DEF Restart, LoseFetch
<1>2. DOMAIN requests' = Nodes /\ \A k \in Nodes : requests'[k] \subseteq requests[k]
  BY DEF Restart, LoseFetch, GossipInv, StoreInv
<1>3. DOMAIN checking' = Nodes /\ \A k \in Nodes : checking'[k] \subseteq checking[k]
  BY DEF Restart, LoseFetch, rounds, GossipInv, CheckingInv
<1>4. StoreInv' /\ Grows
  BY <1>1, <1>2, MovesOn DEF GossipInv, StoreInv
<1>5. WireInv'
  BY <1>1, <1>4, WireStays DEF GossipInv
<1>6. CheckingInv'
  BY <1>3, <1>4, CheckingStays DEF GossipInv
<1>7. SkipsNothing
  BY <1>1, UnmovedSkipsNothing DEF GossipInv
<1> QED
  BY <1>4, <1>5, <1>6, <1>7 DEF Kept, GossipInv

(* An op that arrives is stored now, after all the others. *)
LEMMA FetchKeeps ==
    ASSUME GossipInv, NEW n \in Nodes, NEW o \in Ops, Fetch(n, o)
    PROVE  Kept
<1>1. /\ stored' = [stored EXCEPT ![n][o] = Now(n)]
      /\ requests' = [requests EXCEPT ![n] = {r \in @ : r[1] # o}]
      /\ UNCHANGED <<bookmark, checking, msgs>>
  BY DEF Fetch, rounds
<1>2. stored[n][o] = 0
  BY DEF Fetch, GossipInv, StoreInv
<1>3. /\ stored \in [Nodes -> [Ops -> Nat]]
      /\ \A k \in Nodes, x \in Ops : stored[k][x] \in Nat /\ stored[k][x] < Now(k)
  BY DEF GossipInv, StoreInv
<1>4. Now(n) \in Nat /\ Now(n) > 0
  BY <1>2, <1>3, NowIsNat
<1>5. /\ stored' \in [Nodes -> [Ops -> Nat]]
      /\ \A k \in Nodes, x \in Ops :
            stored'[k][x] = IF k = n /\ x = o THEN Now(n) ELSE stored[k][x]
  BY <1>1, <1>3, <1>4
<1>6. \A k \in Nodes : k # n => Now(k)' = Now(k)
  BY <1>5 DEF Now, Held
<1>7. Now(n)' = Now(n) + 1
  <2>1. Held(n)' = Held(n) \cup {o} /\ o \notin Held(n)
    BY <1>2, <1>3, <1>4, <1>5 DEF Held
  <2>2. IsFiniteSet(Held(n)) /\ Cardinality(Held(n)) \in Nat
    BY NowIsNat, FS_CardinalityType
  <2>3. Cardinality(Held(n) \cup {o}) = Cardinality(Held(n)) + 1
    BY <2>1, <2>2, FS_AddElement
  <2> QED
    BY <2>1, <2>2, <2>3 DEF Now
<1>8. \A k \in Nodes : Now(k) \in Nat
  BY NowIsNat
<1>9. Grows
  BY <1>1, <1>3, <1>4, <1>5, <1>6, <1>7, <1>8 DEF Grows, GossipInv, StoreInv
<1>10. ASSUME NEW k \in Nodes, NEW x \in Ops PROVE stored'[k][x] < Now(k)'
  BY <1>3, <1>4, <1>5, <1>6, <1>7
<1>11. DOMAIN requests' = Nodes
  BY <1>1 DEF GossipInv, StoreInv
<1>12. ASSUME NEW k \in Nodes, NEW x \in Ops, NEW p \in Nodes, <<x, p>> \in requests'[k]
       PROVE  stored'[k][x] = 0
  <2>1. <<x, p>> \in requests[k] /\ ~(k = n /\ x = o)
    BY <1>1, <1>12 DEF GossipInv, StoreInv
  <2>2. stored[k][x] = 0
    BY <2>1 DEF GossipInv, StoreInv
  <2> QED
    BY <1>5, <2>1, <2>2
<1>13. StoreInv'
  BY <1>1, <1>5, <1>10, <1>11, <1>12 DEF GossipInv, StoreInv
<1>14. WireInv'
  BY <1>1, <1>9, <1>13, WireStays DEF GossipInv
<1>15. CheckingInv'
  BY <1>1, <1>9, <1>13, CheckingStays DEF GossipInv, CheckingInv
<1>16. SkipsNothing
  BY <1>1, UnmovedSkipsNothing DEF GossipInv
<1> QED
  BY <1>13, <1>14, <1>15, <1>16 DEF Kept, GossipInv

(* Every step. *)
LEMMA NextKeeps == ASSUME GossipInv, [Next]_vars PROVE Kept
<1>1. ASSUME NEW n \in Nodes, NEW p \in Nodes, Initiate(n, p) PROVE Kept
  BY <1>1, InitiateKeeps
<1>2. ASSUME NEW m \in msgs, RespondToMsg(m) PROVE Kept
  BY <1>2, RefuseInitiateKeeps, AdmitInitiateKeeps, RespondToAcceptKeeps,
     RespondToNoDiffKeeps, RespondToDiscSectorsDiffKeeps,
     RespondToRingSectorDetailsDiffKeeps, QuietHandlerKeeps DEF RespondToMsg
<1>3. ASSUME NEW n \in Nodes, NEW m \in checking[n], AcceptRound(n, m) PROVE Kept
  BY <1>3, AcceptRoundKeeps
<1>4. ASSUME NEW n \in Nodes, NEW o \in Ops, Fetch(n, o) PROVE Kept
  BY <1>4, FetchKeeps
<1>5. ASSUME NEW n \in Nodes, Restart(n) \/ LoseFetch(n) PROVE Kept
  BY <1>5, ForgetKeeps
<1>6. CASE \/ \E n \in Nodes : TimeoutInitiated(n)
           \/ \E n, p \in Nodes : TimeoutAccepted(n, p)
           \/ \E n \in Nodes : UpdateDht(n)
           \/ \E m \in msgs : Lose(m)
           \/ UNCHANGED vars
  BY <1>6, OutsideKeeps
<1> QED
  BY <1>1, <1>2, <1>3, <1>4, <1>5, <1>6 DEF Next

(* What was held at the start was stored in the order of the ops. *)
LEMMA InitKeeps == ASSUME Init PROVE GossipInv
<1>1. PICK holds \in [Nodes -> SUBSET Ops] :
          stored = [n \in Nodes |-> [o \in Ops |->
             IF o \in holds[n] THEN Cardinality({x \in holds[n] : x <= o}) ELSE 0]]
  BY DEF Init
<1>2. ASSUME NEW n \in Nodes, NEW o \in Ops
      PROVE  stored[n][o] \in Nat /\ stored[n][o] < Now(n)
  <2> DEFINE below(y) == {x \in holds[n] : x <= y}
  <2>1. /\ IsFiniteSet(holds[n])
        /\ \A y \in Ops : IsFiniteSet(below(y)) /\ Cardinality(below(y)) \in Nat
    BY LimitsAssumption, FS_Subset, FS_CardinalityType
  <2>2. \A y \in holds[n] : Cardinality(below(y)) > 0
    <3>1. ASSUME NEW y \in holds[n] PROVE Cardinality(below(y)) > 0
      <4>1. y \in Nat /\ y \in Ops
        BY LimitsAssumption
      <4>2. y \in below(y)
        BY <4>1
      <4>3. Cardinality(below(y)) # 0
        BY <2>1, <4>1, <4>2, FS_EmptySet
      <4> QED
        BY <2>1, <4>1, <4>3
    <3> QED
      BY <3>1
  <2>3. \A y \in Ops : stored[n][y] = IF y \in holds[n] THEN Cardinality(below(y)) ELSE 0
    BY <1>1
  <2>4. Held(n) = holds[n]
    <3>1. holds[n] \subseteq Ops /\ 0 \in Nat /\ ~(0 > 0)
      OBVIOUS
    <3>2. \A y \in Ops : stored[n][y] > 0 <=> y \in holds[n]
      <4> HIDE DEF below
      <4> QED
        BY <2>2, <2>3, <3>1
    <3> HIDE DEF below
    <3> QED
      BY <3>1, <3>2 DEF Held
  <2>5. Cardinality(below(o)) <= Cardinality(holds[n]) /\ Cardinality(holds[n]) \in Nat
    BY <2>1, FS_Subset, FS_CardinalityType
  <2> HIDE DEF below
  <2> QED
    BY <2>1, <2>3, <2>4, <2>5 DEF Now
<1>3. stored \in [Nodes -> [Ops -> Nat]]
  <2>1. stored = [n \in Nodes |-> [o \in Ops |-> stored[n][o]]]
    BY <1>1
  <2> QED
    BY <1>2, <2>1
<1>4. bookmark \in [Nodes -> [Nodes -> Nat \ {0}]]
  BY DEF Init
<1>5. StoreInv
  BY <1>2, <1>3, <1>4 DEF StoreInv, Init
<1>6. WireInv /\ CheckingInv
  BY DEF WireInv, CheckingInv, Init
<1> QED
  BY <1>5, <1>6 DEF GossipInv

(* The bookmark about a peer moves to the end of a page that the peer made *)
(* of everything stored since a bookmark no later than the one it moves    *)
(* from, so it passes over nothing that is not held or asked for: whatever *)
(* the budget, and however messages are lost, delayed and crossed.         *)
THEOREM NoOpIsPassedOver == Spec => BookmarkSkipsNothing
<1>1. Init => GossipInv
  BY InitKeeps
<1>2. GossipInv /\ [Next]_vars => GossipInv'
  BY NextKeeps DEF Kept
<1>3. GossipInv /\ [Next]_vars =>
      [\A n, p \in Nodes : \A o \in Ops :
          /\ bookmark[n][p] <= stored[p][o]
          /\ stored[p][o] < bookmark'[n][p]
          => stored[n][o] > 0 \/ \E q \in Nodes : <<o, q>> \in requests'[n]]_vars
  BY NextKeeps DEF Kept, SkipsNothing
<1> QED
  BY <1>1, <1>2, <1>3, PTL DEF Spec, BookmarkSkipsNothing

----------------------------------------------------------------------------
(* Rounds that two peers initiate with each other.                         *)

(* A round has met its peer from the moment the peer admits the initiate,  *)
(* long before the initiator hears of it.                                  *)
Checked(n, p, s)  == \E m \in checking[p] : m.from = n /\ m.sid = s
Answered(n, p, s) == \E m \in msgs : m.type = "Accept" /\ m.from = p /\ m.to = n /\ m.sid = s

Met(n, p) ==
    /\ initiated[n] # NoRound
    /\ initiated[n].peer = p
    /\ \/ initiated[n].stage # "Initiated"
       \/ Checked(n, p, initiated[n].sid)
       \/ Answered(n, p, initiated[n].sid)

PairInv ==
    /\ DOMAIN initiated = Nodes
    /\ \A n, p \in Nodes : ~(Met(n, p) /\ Met(p, n))

(* No round meets its peer in this step. *)
LEMMA NoneMeets ==
    ASSUME PairInv, DOMAIN initiated' = Nodes,
           \A n, p \in Nodes : Met(n, p)' => Met(n, p)
    PROVE  PairInv'
  BY DEF PairInv

(* Rounds end, initiates are forgotten and messages are consumed. *)
LEMMA EndingMeetsNone ==
    ASSUME PairInv, DOMAIN initiated' = Nodes,
           \A n \in Nodes : initiated'[n] = initiated[n] \/ initiated'[n] = NoRound,
           \A n \in Nodes : checking'[n] \subseteq checking[n],
           \A m \in msgs' : m \in msgs \/ m.type # "Accept"
    PROVE  PairInv'
<1>1. ASSUME NEW n \in Nodes, NEW p \in Nodes, Met(n, p)' PROVE Met(n, p)
  <2>1. initiated'[n] = initiated[n] /\ initiated'[n] # NoRound
    BY <1>1 DEF Met
  <2>2. Checked(n, p, initiated[n].sid)' => Checked(n, p, initiated[n].sid)
    BY <2>1 DEF Checked
  <2>3. Answered(n, p, initiated[n].sid)' => Answered(n, p, initiated[n].sid)
    BY <2>1 DEF Answered
  <2> QED
    BY <1>1, <2>1, <2>2, <2>3 DEF Met
<1> QED
  BY <1>1, NoneMeets

(* A round moves on within the stages that follow an Accept. *)
LEMMA AdvanceMeetsNone ==
    ASSUME PairInv, NEW n \in Nodes, Met(n, initiated[n].peer), NEW round,
           round.peer = initiated[n].peer, SetInitiated(n, round),
           UNCHANGED checking,
           \A m \in msgs' : m \in msgs \/ m.type # "Accept"
    PROVE  PairInv'
<1>1. DOMAIN initiated' = Nodes /\ initiated'[n] = round
  BY DEF SetInitiated, PairInv
<1>2. \A k \in Nodes : k # n => initiated'[k] = initiated[k]
  BY DEF SetInitiated, PairInv
<1>3. ASSUME NEW k \in Nodes, NEW p \in Nodes, Met(k, p)' PROVE Met(k, p)
  <2>1. CASE k = n
    BY <1>1, <1>3, <2>1 DEF Met
  <2>2. CASE k # n
    <3>1. initiated'[k] = initiated[k]
      BY <1>2, <2>2
    <3>2. Checked(k, p, initiated[k].sid)' => Checked(k, p, initiated[k].sid)
      BY <3>1 DEF Checked
    <3>3. Answered(k, p, initiated[k].sid)' => Answered(k, p, initiated[k].sid)
      BY <3>1 DEF Answered
    <3> QED
      BY <1>3, <3>1, <3>2, <3>3 DEF Met
  <2> QED
    BY <2>1, <2>2
<1> QED
  BY <1>1, <1>3, NoneMeets

(* A new round has a session id that nothing refers to. *)
LEMMA InitiateMeetsNone ==
    ASSUME GossipInv, PairInv, NEW n \in Nodes, NEW p \in Nodes, Initiate(n, p)
    PROVE  PairInv'
<1> DEFINE sent(s, t) == [type |-> "Initiate", from |-> n, to |-> p, sid |-> s,
                          body |-> [tie |-> t, since |-> bookmark[n][p]]]
<1>1. PICK s, t : /\ s \notin InUse
                  /\ msgs' = msgs \cup {sent(s, t)}
                  /\ SetInitiated(n, NewRound(p, s, t))
  <2>1. (CHOOSE s \in Sids : s \notin InUse) \notin InUse
    BY DEF Initiate
  <2> QED
    BY <2>1 DEF Initiate
<1>2. /\ \A m \in msgs : m.sid # s
      /\ \A k \in Nodes : \A m \in checking[k] : m.sid # s
  BY <1>1 DEF InUse
<1>3. UNCHANGED checking
  BY DEF Initiate
<1>4. sent(s, t).type # "Accept"
  OBVIOUS
<1>5. \A m \in msgs' : m \in msgs \/ m.type # "Accept"
  BY <1>1, <1>4
<1>6. /\ NewRound(p, s, t).peer = p /\ NewRound(p, s, t).sid = s
      /\ NewRound(p, s, t).stage = "Initiated"
  BY DEF NewRound
<1> HIDE DEF sent
<1>7. /\ DOMAIN initiated' = Nodes /\ initiated'[n] = NewRound(p, s, t)
      /\ \A k \in Nodes : k # n => initiated'[k] = initiated[k]
  BY <1>1 DEF SetInitiated, PairInv
<1>8. ASSUME NEW k \in Nodes, NEW q \in Nodes, Met(k, q)' PROVE Met(k, q)
  <2>1. CASE k = n
    <3>1. ~Checked(n, q, s)'
      BY <1>2, <1>3 DEF Checked
    <3>2. ~Answered(n, q, s)'
      BY <1>2, <1>5 DEF Answered
    <3> QED
      BY <1>6, <1>7, <1>8, <2>1, <3>1, <3>2 DEF Met
  <2>2. CASE k # n
    <3>1. initiated'[k] = initiated[k]
      BY <1>7, <2>2
    <3>2. Checked(k, q, initiated[k].sid)' => Checked(k, q, initiated[k].sid)
      BY <1>3, <3>1 DEF Checked
    <3>3. Answered(k, q, initiated[k].sid)' => Answered(k, q, initiated[k].sid)
      BY <1>5, <3>1 DEF Answered
    <3> QED
      BY <1>8, <3>1, <3>2, <3>3 DEF Met
  <2> QED
    BY <2>1, <2>2
<1> QED
  BY <1>7, <1>8, NoneMeets

(* An accept takes the place of the initiate that was checked. *)
LEMMA AcceptRoundMeetsNone ==
    ASSUME GossipInv, PairInv, NEW x \in Nodes, NEW m \in checking[x], AcceptRound(x, m)
    PROVE  PairInv'
<1>1. m.to = x
  BY DEF GossipInv, CheckingInv
<1>2. UNCHANGED initiated
  BY DEF AcceptRound
<1>3. \A k \in Nodes : checking'[k] \subseteq checking[k]
  BY DEF AcceptRound, GossipInv, CheckingInv
<1>4. \A k \in msgs' : k \in msgs \/ (k.from = x /\ k.to = m.from /\ k.sid = m.sid)
  BY <1>1 DEF AcceptRound, Reply
<1>5. ASSUME NEW n \in Nodes, NEW p \in Nodes, Met(n, p)' PROVE Met(n, p)
  <2>1. Checked(n, p, initiated[n].sid)' => Checked(n, p, initiated[n].sid)
    BY <1>2, <1>3 DEF Checked
  <2>2. Answered(n, p, initiated[n].sid)' =>
            Answered(n, p, initiated[n].sid) \/ Checked(n, p, initiated[n].sid)
    BY <1>2, <1>4 DEF Answered, Checked
  <2> QED
    BY <1>2, <1>5, <2>1, <2>2 DEF Met
<1> QED
  BY <1>2, <1>5, NoneMeets DEF PairInv

(* Whoever admits an initiate has no round of its own with that peer. *)
LEMMA AdmitInitiateKeepsPair ==
    ASSUME GossipInv, PairInv, NEW m \in msgs, AdmitInitiate(m)
    PROVE  PairInv'
<1>1. m.from \in Nodes /\ m.to \in Nodes /\ m.from # m.to /\ DOMAIN checking = Nodes
  BY Ends
<1>2. /\ DOMAIN initiated' = Nodes
      /\ \A k \in Nodes : initiated'[k] = initiated[k] \/ initiated'[k] = NoRound
      /\ initiated'[m.to] = NoRound \/ initiated'[m.to].peer # m.from
  BY <1>1 DEF AdmitInitiate, Crossing, SetInitiated, PairInv
<1>3. \A k \in msgs' : k \in msgs \/ k.type # "Accept"
  BY DEF AdmitInitiate, Answer, Reply
<1>4. checking' = checking \/ checking' = [checking EXCEPT ![m.to] = @ \cup {m}]
  BY DEF AdmitInitiate
<1>5. \A x \in Nodes : \A k \in checking'[x] : k \in checking[x] \/ (k = m /\ x = m.to)
  BY <1>1, <1>4
<1>6. ASSUME NEW n \in Nodes, NEW p \in Nodes, Met(n, p)', ~Met(n, p)
      PROVE  n = m.from /\ p = m.to
  <2>1. initiated'[n] = initiated[n]
    BY <1>2, <1>6 DEF Met
  <2>2. Answered(n, p, initiated[n].sid)' => Answered(n, p, initiated[n].sid)
    BY <1>3, <2>1 DEF Answered
  <2>3. Checked(n, p, initiated[n].sid)' =>
            Checked(n, p, initiated[n].sid) \/ (n = m.from /\ p = m.to)
    BY <1>5, <2>1 DEF Checked
  <2> QED
    BY <1>6, <2>1, <2>2, <2>3 DEF Met
<1>7. ~Met(m.to, m.from)'
  BY <1>2 DEF Met
<1>8. ASSUME NEW n \in Nodes, NEW p \in Nodes, Met(n, p)', Met(p, n)' PROVE FALSE
  BY <1>6, <1>7, <1>8 DEF PairInv
<1> QED
  BY <1>2, <1>8 DEF PairInv

(* The initiator's handlers that go on with a round. *)
LEMMA RespondToAcceptKeepsPair ==
    ASSUME GossipInv, PairInv, NEW m \in msgs, RespondToAccept(m)
    PROVE  PairInv'
<1>1. m.from \in Nodes /\ m.to \in Nodes
  BY Ends
<1>2. Met(m.to, initiated[m.to].peer)
  BY <1>1 DEF RespondToAccept, InitiatedAt, Met, Answered
<1>3. UNCHANGED checking
  BY DEF RespondToAccept
<1>4. \A k \in msgs' : k \in msgs \/ k.type # "Accept"
  BY DEF RespondToAccept, Answer, Reply
<1>5. \E stage, kept :
          SetInitiated(m.to, AtStage(initiated[m.to], stage,
              MaxOpBytes - Cardinality(NewOps(m.to, m.body.since)), kept))
  BY DEF RespondToAccept
<1>6. PICK round : SetInitiated(m.to, round) /\ round.peer = initiated[m.to].peer
  BY <1>5 DEF AtStage
<1> QED
  BY <1>1, <1>2, <1>3, <1>4, <1>6, AdvanceMeetsNone

LEMMA RespondToDiscSectorDetailsDiffKeepsPair ==
    ASSUME GossipInv, PairInv, NEW m \in msgs, RespondToDiscSectorDetailsDiff(m)
    PROVE  PairInv'
<1>1. m.from \in Nodes /\ m.to \in Nodes
  BY Ends
<1>2. UNCHANGED checking
  BY DEF RespondToDiscSectorDetailsDiff
<1>3. \A k \in msgs' : k \in msgs \/ k.type # "Accept"
  BY DEF RespondToDiscSectorDetailsDiff, Answer, Reply
<1>4. CASE SetInitiated(m.to, NoRound)
  <2>1. /\ DOMAIN initiated' = Nodes
        /\ \A n \in Nodes : initiated'[n] = initiated[n] \/ initiated'[n] = NoRound
    BY <1>1, <1>4 DEF SetInitiated, PairInv
  <2> QED
    BY <1>2, <1>3, <2>1, EndingMeetsNone
<1>5. ASSUME NEW left, NEW kept,
             SetInitiated(m.to, AtStage(initiated[m.to], "DiscSectorDetailsDiff", left, kept))
      PROVE  PairInv'
  <2>1. Met(m.to, initiated[m.to].peer)
    BY DEF RespondToDiscSectorDetailsDiff, InitiatedAt, Met
  <2>2. PICK round : SetInitiated(m.to, round) /\ round.peer = initiated[m.to].peer
    BY <1>5 DEF AtStage
  <2> QED
    BY <1>1, <1>2, <1>3, <2>1, <2>2, AdvanceMeetsNone
<1> QED
  BY <1>4, <1>5 DEF RespondToDiscSectorDetailsDiff

(* Every other step ends rounds, or does not touch those we initiated. *)
LEMMA OtherHandlersKeepPair ==
    ASSUME GossipInv, PairInv, NEW m \in msgs,
           \/ RefuseInitiate(m)
           \/ RespondToNoDiff(m)
           \/ RespondToDiscSectorsDiff(m)
           \/ RespondToDiscSectorDetailsDiffResponse(m)
           \/ RespondToRingSectorDetailsDiff(m)
           \/ RespondToRingSectorDetailsDiffResponse(m)
           \/ RespondToHashes(m)
           \/ RespondToAgents(m)
           \/ RespondToBusy(m)
           \/ RespondToTerminate(m)
           \/ Reject(m)
    PROVE  PairInv'
<1>1. UNCHANGED checking
  BY DEF RefuseInitiate, RespondToNoDiff, RespondToDiscSectorsDiff,
         RespondToDiscSectorDetailsDiffResponse, RespondToRingSectorDetailsDiff,
         RespondToRingSectorDetailsDiffResponse, RespondToHashes, RespondToAgents,
         RespondToBusy, RespondToTerminate, Reject, rounds
<1>2. UNCHANGED initiated \/ SetInitiated(m.to, NoRound)
  BY DEF RefuseInitiate, RespondToNoDiff, RespondToDiscSectorsDiff,
         RespondToDiscSectorDetailsDiffResponse, RespondToRingSectorDetailsDiff,
         RespondToRingSectorDetailsDiffResponse, RespondToHashes, RespondToAgents,
         RespondToBusy, RespondToTerminate, Reject, rounds
<1>3. /\ DOMAIN initiated' = Nodes
      /\ \A n \in Nodes : initiated'[n] = initiated[n] \/ initiated'[n] = NoRound
  BY <1>2, Ends DEF SetInitiated, PairInv
<1>4. \E replies : Answer(m, replies) /\ \A k \in replies : k.type # "Accept"
  <2>1. CASE \/ RefuseInitiate(m)
             \/ RespondToHashes(m)
             \/ RespondToAgents(m)
             \/ RespondToBusy(m)
             \/ RespondToTerminate(m)
             \/ Reject(m)
    <3>1. Answer(m, {})
      BY <2>1 DEF RefuseInitiate, RespondToHashes, RespondToAgents, RespondToBusy,
                  RespondToTerminate, Reject
    <3> QED
      BY <3>1
  <2>2. CASE RespondToNoDiff(m)
    BY <2>2 DEF RespondToNoDiff, Reply
  <2>3. CASE RespondToDiscSectorsDiff(m)
    BY <2>3 DEF RespondToDiscSectorsDiff, Reply
  <2>4. CASE RespondToDiscSectorDetailsDiffResponse(m)
    BY <2>4 DEF RespondToDiscSectorDetailsDiffResponse, Reply
  <2>5. CASE RespondToRingSectorDetailsDiff(m)
    BY <2>5 DEF RespondToRingSectorDetailsDiff, Reply
  <2>6. CASE RespondToRingSectorDetailsDiffResponse(m)
    BY <2>6 DEF RespondToRingSectorDetailsDiffResponse, Reply
  <2> QED
    BY <2>1, <2>2, <2>3, <2>4, <2>5, <2>6
<1>5. \A k \in msgs' : k \in msgs \/ k.type # "Accept"
  BY <1>4 DEF Answer
<1> QED
  BY <1>1, <1>3, <1>5, EndingMeetsNone

LEMMA TimersKeepPair ==
    ASSUME GossipInv, PairInv,
           \/ \E n \in Nodes : TimeoutInitiated(n)
           \/ \E n, p \in Nodes : TimeoutAccepted(n, p)
           \/ \E n \in Nodes, o \in Ops : Fetch(n, o)
           \/ \E n \in Nodes : UpdateDht(n)
           \/ \E m \in msgs : Lose(m)
           \/ \E n \in Nodes : LoseFetch(n)
           \/ \E n \in Nodes : Restart(n)
           \/ UNCHANGED vars
    PROVE  PairInv'
<1>1. \A n \in Nodes : checking'[n] \subseteq checking[n]
  BY DEF TimeoutInitiated, TimeoutAccepted, Fetch, UpdateDht, Lose, LoseFetch, Restart,
         rounds, vars, GossipInv, CheckingInv
<1>2. msgs' \subseteq msgs
  BY DEF TimeoutInitiated, TimeoutAccepted, Fetch, UpdateDht, Lose, LoseFetch, Restart,
         Answer, vars
<1>3. UNCHANGED initiated \/ \E n \in Nodes : SetInitiated(n, NoRound)
  BY DEF TimeoutInitiated, TimeoutAccepted, Fetch, UpdateDht, Lose, LoseFetch, Restart,
         rounds, vars
<1>4. /\ DOMAIN initiated' = Nodes
      /\ \A n \in Nodes : initiated'[n] = initiated[n] \/ initiated'[n] = NoRound
  BY <1>3 DEF SetInitiated, PairInv
<1> QED
  BY <1>1, <1>2, <1>4, EndingMeetsNone

(* Of two rounds that two peers initiate with each other at most one ever  *)
(* gets past its initiate: respond_to_initiate either refuses the peer's   *)
(* round or drops its own, and from then on until the accept arrives the   *)
(* peer's round is in the initiates being checked or in the accept.        *)
THEOREM OneRoundAdvances == Spec => []OneRoundPerPair
<1>1. Init => GossipInv /\ PairInv
  <2>1. ASSUME Init PROVE PairInv
    BY <2>1 DEF Init, PairInv, Met
  <2> QED
    BY <2>1, InitKeeps
<1>2. GossipInv /\ PairInv /\ [Next]_vars => GossipInv' /\ PairInv'
  <2> SUFFICES ASSUME GossipInv, PairInv, [Next]_vars PROVE PairInv'
    BY NextKeeps DEF Kept
  <2>1. ASSUME NEW n \in Nodes, NEW p \in Nodes, Initiate(n, p) PROVE PairInv'
    BY <2>1, InitiateMeetsNone
  <2>2. ASSUME NEW m \in msgs, RespondToMsg(m) PROVE PairInv'
    BY <2>2, AdmitInitiateKeepsPair, RespondToAcceptKeepsPair,
       RespondToDiscSectorDetailsDiffKeepsPair, OtherHandlersKeepPair DEF RespondToMsg
  <2>3. ASSUME NEW n \in Nodes, NEW m \in checking[n], AcceptRound(n, m) PROVE PairInv'
    BY <2>3, AcceptRoundMeetsNone
  <2> QED
    BY <2>1, <2>2, <2>3, TimersKeepPair DEF Next
<1>3. PairInv => OneRoundPerPair
  BY DEF PairInv, OneRoundPerPair, Advanced, Met
<1> QED
  BY <1>1, <1>2, <1>3, PTL DEF Spec

----------------------------------------------------------------------------
(* Storage arcs.                                                           *)

(* Old enough to be in the disc or the rings of every node. *)
Reached(o) == Slice[o] < FirstBoundary + Rings

(* An op that one node lacks is held by all others.  Two nodes that hold   *)
(* every op between them are like that.                                    *)
OnlyOneLacks ==
    \A o \in Ops : \A n, p \in Nodes : n # p => o \in Held(n) \/ o \in Held(p)

Paired == \A n, p, q \in Nodes : n # p /\ n # q => p = q

(* What a snapshot leaves out, its receiver holds: the sender does not     *)
(* have it.  The details of some rings leave out more, but only where both *)
(* agreed.  What the initiator itself lacks lies in those rings.           *)
Shown(m) ==
    LET s == m.body.snapshot IN
    /\ m.type = "Accept" =>
          /\ s.kind = "Minimal"
          /\ s.disc \subseteq Held(m.from) /\ s.ring \subseteq Held(m.from)
          /\ \A o \in s.ring : s.boundary <= Slice[o]
          /\ \A o \in Ops : Reached(o) /\ o \notin s.disc \cup s.ring => o \in Held(m.to)
    /\ m.type = "RingSectorDetailsDiff" =>
          /\ s.kind = "RingSectorDetails"
          /\ \A o \in Ops : Reached(o) /\ o \notin s.ring => o \in Held(m.to)
          /\ \A o \in Ops : Reached(o) /\ o \notin Held(m.from) =>
                               s.boundary <= Slice[o] /\ Ring(o, s.boundary) \in s.rings
    /\ m.type = "RingSectorDetailsDiffResponse" =>
          /\ s.kind = "RingSectorDetails"
          /\ \A o \in Ops : Reached(o) /\ o \notin s.ring => o \in Held(m.to)

BoundaryInv == /\ DOMAIN boundary = Nodes
               /\ \A n \in Nodes : boundary[n] \in Nat /\ FirstBoundary <= boundary[n]

ClaimsInv == /\ BoundaryInv
             /\ OnlyOneLacks
             /\ \A m \in msgs : Shown(m)
             /\ DOMAIN claims = Nodes
             /\ ClaimsHold

(* The constants as numbers. *)
LEMMA SliceIsNat ==
    /\ \A o \in Ops : Slice[o] \in Nat
    /\ FirstBoundary \in Nat /\ Rings \in Nat
    BY OpsAssumption, LimitsAssumption

(* No handler of a message touches the op store or the boundary. *)
LEMMA MessagesStoreNothing ==
    ASSUME NEW m \in msgs, RespondToMsg(m)
    PROVE  UNCHANGED <<stored, boundary>>
<1>1. CASE RefuseInitiate(m) \/ AdmitInitiate(m)
    BY <1>1 DEF RefuseInitiate, AdmitInitiate, data
<1>2. CASE RespondToAccept(m) \/ RespondToNoDiff(m)
    BY <1>2 DEF RespondToAccept, RespondToNoDiff
<1>3. CASE RespondToDiscSectorsDiff(m) \/ RespondToDiscSectorDetailsDiff(m)
    BY <1>3 DEF RespondToDiscSectorsDiff, RespondToDiscSectorDetailsDiff, data
<1>4. CASE RespondToDiscSectorDetailsDiffResponse(m)
    BY <1>4 DEF RespondToDiscSectorDetailsDiffResponse
<1>5. CASE RespondToRingSectorDetailsDiff(m)
    BY <1>5 DEF RespondToRingSectorDetailsDiff
<1>6. CASE RespondToRingSectorDetailsDiffResponse(m)
    BY <1>6 DEF RespondToRingSectorDetailsDiffResponse
<1>7. CASE RespondToHashes(m) \/ RespondToAgents(m) \/ RespondToBusy(m)
    BY <1>7 DEF RespondToHashes, RespondToAgents, RespondToBusy, data
<1>8. CASE RespondToTerminate(m) \/ Reject(m)
    BY <1>8 DEF RespondToTerminate, Reject, data
<1>9. QED
    BY <1>1, <1>2, <1>3, <1>4, <1>5, <1>6, <1>7, <1>8 DEF RespondToMsg

(* What is held stays held. *)
LEMMA HeldStays ==
    ASSUME GossipInv, [Next]_vars, NEW n \in Nodes
    PROVE  Held(n) \subseteq Held(n)'
<1>1. ASSUME NEW k \in Nodes, NEW o \in Ops, Fetch(k, o)
      PROVE  Held(n) \subseteq Held(n)'
    <2>1. stored' = [stored EXCEPT ![k][o] = Now(k)]
        BY <1>1 DEF Fetch
    <2>2. Now(k) \in Nat /\ Now(k) > 0
        BY NowIsNat, FS_CardinalityType DEF Now
    <2>3. \A x \in Ops : stored'[n][x] = stored[n][x] \/ stored'[n][x] = Now(k)
        BY <2>1 DEF GossipInv, StoreInv
    <2>4. QED
        BY <2>2, <2>3 DEF Held
<1>2. ASSUME UNCHANGED stored
      PROVE  Held(n) \subseteq Held(n)'
    BY <1>2 DEF Held
<1>3. \/ \E k \in Nodes, o \in Ops : Fetch(k, o)
      \/ UNCHANGED stored
    BY MessagesStoreNothing DEF Next, vars, data, Initiate, AcceptRound, TimeoutInitiated,
           TimeoutAccepted, UpdateDht, Lose, LoseFetch, Restart
<1>4. QED
    BY <1>1, <1>2, <1>3

(* What a node's snapshot shows of the ops that are old enough. *)
LEMMA HeldIsShown ==
    ASSUME BoundaryInv, NEW n \in Nodes, NEW o \in Held(n), Reached(o)
    PROVE  o \in DiscOps(n) \/ o \in RingOps(n)
<1>1. o \in Ops /\ Slice[o] \in Nat /\ boundary[n] \in Nat /\ FirstBoundary <= boundary[n]
    BY SliceIsNat DEF BoundaryInv, Held
<1>2. QED
    BY <1>1, SliceIsNat DEF DiscOps, RingOps, Reached

(* What was shown stays shown. *)
LEMMA ShownStays ==
    ASSUME NEW m, m.from \in Nodes, m.to \in Nodes, Shown(m),
           \A n \in Nodes : Held(n) \subseteq Held(n)'
    PROVE  Shown(m)'
<1>1. Held(m.from) \subseteq Held(m.from)' /\ Held(m.to) \subseteq Held(m.to)'
    OBVIOUS
<1>2. QED
    BY <1>1 DEF Shown, Reached

(* A handler that sends no snapshot but of the disc. *)
Plain(k) == k.type \notin {"Accept", "RingSectorDetailsDiff", "RingSectorDetailsDiffResponse"}

LEMMA PlainIsShown == ASSUME NEW k, Plain(k) PROVE Shown(k)
    BY DEF Plain, Shown

(* The message is from and to a node. *)
LEMMA MessageEnds == ASSUME GossipInv, NEW m \in msgs
    PROVE m.from \in Nodes /\ m.to \in Nodes /\ m.from # m.to
    BY DEF GossipInv, WireInv, Sound

(* A step that claims nothing new. *)
LEMMA ClaimsStay ==
    ASSUME GossipInv, [Next]_vars, ClaimsInv, BoundaryInv',
           DOMAIN claims' = Nodes,
           \A n \in Nodes : \A o \in Ops :
               Sector[o] \in claims'[n] /\ Reached(o) => Sector[o] \in claims[n] \/ o \in Held(n),
           \A k \in msgs' : k \in msgs \/ (Shown(k) /\ k.from \in Nodes /\ k.to \in Nodes)
    PROVE  ClaimsInv'
<1>1. \A n \in Nodes : Held(n) \subseteq Held(n)'
    BY HeldStays
<1>2. OnlyOneLacks'
    BY <1>1 DEF OnlyOneLacks, ClaimsInv
<1>3. ASSUME NEW k \in msgs' PROVE Shown(k)'
    <2>1. Shown(k) /\ k.from \in Nodes /\ k.to \in Nodes
        BY MessageEnds DEF ClaimsInv
    <2>2. QED
        BY <1>1, <2>1, ShownStays
<1>4. ASSUME NEW n \in Nodes, NEW o \in Ops, Sector[o] \in claims'[n], Reached(o)
      PROVE  stored'[n][o] > 0
    <2>1. o \in Held(n)
        BY <1>4 DEF ClaimsInv, ClaimsHold, Reached, Held
    <2>2. QED
        BY <1>1, <2>1 DEF Held
<1>5. ClaimsHold'
    BY <1>4 DEF ClaimsHold, Reached
<1>6. QED
    BY <1>2, <1>3, <1>5 DEF ClaimsInv

(* The boundaries only move on. *)
LEMMA BoundaryStep ==
    ASSUME BoundaryInv, [Next]_vars
    PROVE  BoundaryInv'
<1>1. ASSUME NEW n \in Nodes, UpdateDht(n)
      PROVE  BoundaryInv'
    BY <1>1, SliceIsNat DEF UpdateDht, BoundaryInv
<1>2. ASSUME UNCHANGED boundary
      PROVE  BoundaryInv'
    BY <1>2 DEF BoundaryInv
<1>3. \/ \E n \in Nodes : UpdateDht(n)
      \/ UNCHANGED boundary
    BY MessagesStoreNothing DEF Next, vars, data, Initiate, AcceptRound, TimeoutInitiated,
           TimeoutAccepted, Fetch, Lose, LoseFetch, Restart
<1>4. QED
    BY <1>1, <1>2, <1>3

(* create_accept_state: a minimal snapshot shows all that is held. *)
LEMMA AcceptRoundShows ==
    ASSUME GossipInv, [Next]_vars, ClaimsInv, NEW n \in Nodes, NEW m \in checking[n],
           AcceptRound(n, m)
    PROVE  ClaimsInv'
<1>1. m.to = n /\ m.from \in Nodes /\ m.from # n
    BY DEF GossipInv, CheckingInv, Sound
<1>2. ASSUME NEW k \in msgs', k \notin msgs
      PROVE  Shown(k) /\ k.from \in Nodes /\ k.to \in Nodes
    <2>1. k.type = "Accept" /\ k.from = n /\ k.to = m.from /\ k.body.snapshot = Minimal(n)
        BY <1>1, <1>2 DEF AcceptRound, Reply
    <2> DEFINE s == k.body.snapshot
    <2>2. /\ s.kind = "Minimal" /\ s.boundary = boundary[n]
          /\ s.disc = DiscOps(n) /\ s.ring = RingOps(n)
        BY <2>1 DEF Minimal
    <2>3. ASSUME NEW o \in Ops, Reached(o), o \notin s.disc \cup s.ring
          PROVE  o \in Held(m.from)
        <3>1. o \notin Held(n)
            BY <2>2, <2>3, HeldIsShown DEF ClaimsInv
        <3>2. QED
            BY <1>1, <3>1 DEF ClaimsInv, OnlyOneLacks
    <2>4. DiscOps(n) \subseteq Held(n) /\ RingOps(n) \subseteq Held(n)
          /\ \A o \in RingOps(n) : boundary[n] <= Slice[o]
        BY DEF DiscOps, RingOps
    <2> HIDE DEF s
    <2>5. /\ s.kind = "Minimal"
          /\ s.disc \subseteq Held(k.from) /\ s.ring \subseteq Held(k.from)
          /\ \A o \in s.ring : s.boundary <= Slice[o]
          /\ \A o \in Ops : Reached(o) /\ o \notin s.disc \cup s.ring => o \in Held(k.to)
        BY <2>1, <2>2, <2>3, <2>4
    <2>6. Shown(k)
        BY <2>1, <2>5 DEF Shown, s
    <2>7. QED
        BY <1>1, <2>1, <2>6
<1>3. UNCHANGED claims
    BY DEF AcceptRound, data
<1>4. DOMAIN claims' = Nodes
    BY <1>3 DEF ClaimsInv
<1>5. BoundaryInv'
    BY BoundaryStep DEF ClaimsInv
<1>6. \A x \in Nodes : \A o \in Ops :
          Sector[o] \in claims'[x] /\ Reached(o) => Sector[o] \in claims[x] \/ o \in Held(x)
    BY <1>3
<1>7. \A k \in msgs' : k \in msgs \/ (Shown(k) /\ k.from \in Nodes /\ k.to \in Nodes)
    BY <1>2
<1>8. QED
    BY <1>4, <1>5, <1>6, <1>7, ClaimsStay

(* The details that the initiator sends after it compared what it was      *)
(* shown in an Accept: the discs agree, and so do the rings left out.      *)
LEMMA DetailsShow ==
    ASSUME GossipInv, ClaimsInv, NEW m \in msgs, m.type = "Accept",
           Comparable(Minimal(m.to), m.body.snapshot),
           Minimal(m.to).disc = m.body.snapshot.disc,
           NEW k, k.type = "RingSectorDetailsDiff", k.from = m.to, k.to = m.from,
           k.body.snapshot =
               RingSectorDetails(m.to, RingMismatch(Minimal(m.to), m.body.snapshot))
    PROVE  Shown(k)
<1> DEFINE n == m.to
           p == m.from
           theirs == m.body.snapshot
           rings == RingMismatch(Minimal(n), theirs)
           s == k.body.snapshot
<1>1. n \in Nodes /\ p \in Nodes /\ n # p
    BY MessageEnds
<1>2. /\ theirs.disc \subseteq Held(p) /\ theirs.ring \subseteq Held(p)
      /\ \A o \in theirs.ring : theirs.boundary <= Slice[o]
      /\ \A o \in Ops : Reached(o) /\ o \notin theirs.disc \cup theirs.ring => o \in Held(n)
    BY DEF ClaimsInv, Shown
<1>3. theirs.boundary = boundary[n] /\ theirs.disc = DiscOps(n)
    BY DEF Comparable, Minimal
<1>4. rings = {Ring(o, boundary[n]) : o \in Differ(RingOps(n), theirs.ring)}
    BY DEF RingMismatch, Minimal
<1>5. /\ s.kind = "RingSectorDetails" /\ s.boundary = boundary[n] /\ s.rings = rings
      /\ s.ring = {o \in RingOps(n) : Ring(o, boundary[n]) \in rings}
    BY DEF RingSectorDetails
<1> HIDE DEF n, p, theirs, rings, s
<1>6. ASSUME NEW o \in Ops, Reached(o), o \notin s.ring
      PROVE  o \in Held(p)
    <2> SUFFICES ASSUME o \notin Held(p)
                 PROVE  FALSE
        OBVIOUS
    <2>1. o \in Held(n)
        BY <1>1, <1>6 DEF ClaimsInv, OnlyOneLacks
    <2>2. o \in DiscOps(n) \/ o \in RingOps(n)
        BY <1>1, <1>6, <2>1, HeldIsShown DEF ClaimsInv
    <2>3. o \notin theirs.disc /\ o \notin theirs.ring
        BY <1>2
    <2>4. o \in RingOps(n)
        BY <1>3, <2>2, <2>3
    <2>5. o \in Differ(RingOps(n), theirs.ring)
        BY <2>3, <2>4 DEF Differ
    <2>6. Ring(o, boundary[n]) \in rings
        BY <1>4, <2>5
    <2>7. QED
        BY <1>5, <1>6, <2>4, <2>6
<1>7. ASSUME NEW o \in Ops, Reached(o), o \notin Held(n)
      PROVE  s.boundary <= Slice[o] /\ Ring(o, s.boundary) \in s.rings
    <2>1. o \in theirs.disc \cup theirs.ring
        BY <1>2, <1>7
    <2>2. o \notin DiscOps(n) /\ o \notin RingOps(n)
        BY <1>7 DEF DiscOps, RingOps
    <2>3. o \in theirs.ring
        BY <1>3, <2>1, <2>2
    <2>4. o \in Differ(RingOps(n), theirs.ring)
        BY <2>2, <2>3 DEF Differ
    <2>5. QED
        BY <1>2, <1>3, <1>4, <1>5, <2>3, <2>4
<1>8. k.from = n /\ k.to = p
    BY DEF n, p
<1>9. QED
    BY <1>5, <1>6, <1>7, <1>8 DEF Shown, s

(* The arc grows by what the details leave out, and those are held. *)
LEMMA ArcGrows ==
    ASSUME ClaimsInv, NEW n \in Nodes, NEW theirs,
           \/ claims' = claims
           \/ /\ claims' = [claims EXCEPT ![n] = @ \cup Synced(theirs)]
              /\ \A o \in Ops : Reached(o) /\ Sector[o] \in Synced(theirs) => o \in Held(n)
    PROVE  /\ DOMAIN claims' = Nodes
           /\ \A x \in Nodes : \A o \in Ops :
                 Sector[o] \in claims'[x] /\ Reached(o) => Sector[o] \in claims[x] \/ o \in Held(x)
<1>1. DOMAIN claims = Nodes
    BY DEF ClaimsInv
<1>2. CASE claims' = claims
    BY <1>1, <1>2
<1>3. CASE /\ claims' = [claims EXCEPT ![n] = @ \cup Synced(theirs)]
           /\ \A o \in Ops : Reached(o) /\ Sector[o] \in Synced(theirs) => o \in Held(n)
    <2>1. \A x \in Nodes : claims'[x] = IF x = n THEN claims[x] \cup Synced(theirs) ELSE claims[x]
        BY <1>1, <1>3
    <2>2. QED
        BY <1>1, <1>3, <2>1
<1>4. QED
    BY <1>2, <1>3

(* OpSectors in which the details show nothing. *)
LEMMA SyncedIsHeld ==
    ASSUME ClaimsInv, NEW m \in msgs,
           m.type \in {"RingSectorDetailsDiff", "RingSectorDetailsDiffResponse"},
           NEW o \in Ops, Reached(o), Sector[o] \in Synced(m.body.snapshot)
    PROVE  o \in Held(m.to)
<1>1. /\ m.body.snapshot.kind = "RingSectorDetails"
      /\ o \notin m.body.snapshot.ring => o \in Held(m.to)
    BY DEF ClaimsInv, Shown
<1>2. o \notin m.body.snapshot.ring
    BY <1>1 DEF Synced
<1>3. QED
    BY <1>1, <1>2

(* respond_to_accept: equal snapshots show that nothing is missing. *)
LEMMA RespondToAcceptShows ==
    ASSUME GossipInv, [Next]_vars, ClaimsInv, NEW m \in msgs, RespondToAccept(m)
    PROVE  ClaimsInv'
<1> DEFINE n      == m.to
           mine   == Minimal(n)
           theirs == m.body.snapshot
<1>1. n \in Nodes /\ m.from \in Nodes
    BY MessageEnds
<1>2. m.type = "Accept" /\ BoundaryInv'
    BY BoundaryStep DEF RespondToAccept, ClaimsInv
<1>3. CASE claims' = UpdateStorageArcs(n, mine = theirs, theirs)
           /\ \A k \in msgs' : k \in msgs \/ (k.type = "NoDiff" /\ k.from = n /\ k.to = m.from)
    <2>1. ASSUME mine = theirs, NEW o \in Ops, Reached(o) PROVE o \in Held(n)
        <3>1. o \notin theirs.disc \cup theirs.ring => o \in Held(n)
            BY <1>2, <2>1 DEF ClaimsInv, Shown
        <3>2. mine.disc \cup mine.ring \subseteq Held(n)
            BY DEF Minimal, DiscOps, RingOps
        <3>3. QED
            BY <2>1, <3>1, <3>2
    <2> HIDE DEF mine, theirs, n
    <2>2. /\ DOMAIN claims' = Nodes
          /\ \A x \in Nodes : \A o \in Ops :
                 Sector[o] \in claims'[x] /\ Reached(o) => Sector[o] \in claims[x] \/ o \in Held(x)
        <3>1. \/ claims' = claims
              \/ mine = theirs /\ claims' = [claims EXCEPT ![n] = @ \cup Synced(theirs)]
            BY <1>3 DEF UpdateStorageArcs
        <3>2. QED
            BY <1>1, <2>1, <3>1, ArcGrows
    <2>3. ASSUME NEW k \in msgs', k \notin msgs
          PROVE  Shown(k) /\ k.from \in Nodes /\ k.to \in Nodes
        <3>1. k.type = "NoDiff" /\ k.from = n /\ k.to = m.from
            BY <1>3, <2>3
        <3>2. Plain(k)
            BY <3>1 DEF Plain
        <3>3. QED
            BY <1>1, <3>1, <3>2, PlainIsShown
    <2>4. \A k \in msgs' : k \in msgs \/ (Shown(k) /\ k.from \in Nodes /\ k.to \in Nodes)
        BY <2>3
    <2>5. QED
        BY <1>2, <2>2, <2>4, ClaimsStay
<1>4. CASE claims' = claims
           /\ \A k \in msgs' :
                 \/ k \in msgs
                 \/ k.type = "DiscSectorsDiff" /\ k.from = n /\ k.to = m.from
                 \/ /\ Comparable(mine, theirs) /\ mine.disc = theirs.disc
                    /\ k.type = "RingSectorDetailsDiff" /\ k.from = n /\ k.to = m.from
                    /\ k.body.snapshot = RingSectorDetails(n, RingMismatch(mine, theirs))
    <2>1. ASSUME NEW k \in msgs', k \notin msgs
          PROVE  Shown(k) /\ k.from \in Nodes /\ k.to \in Nodes
        <3>1. CASE k.type = "DiscSectorsDiff" /\ k.from = n /\ k.to = m.from
            <4>1. Plain(k)
                BY <3>1 DEF Plain
            <4>2. QED
                BY <1>1, <3>1, <4>1, PlainIsShown
        <3>2. CASE /\ Comparable(mine, theirs) /\ mine.disc = theirs.disc
                   /\ k.type = "RingSectorDetailsDiff" /\ k.from = n /\ k.to = m.from
                   /\ k.body.snapshot = RingSectorDetails(n, RingMismatch(mine, theirs))
            <4>1. Shown(k)
                BY <1>2, <3>2, DetailsShow
            <4>2. QED
                BY <1>1, <3>2, <4>1
        <3>3. QED
            BY <1>4, <2>1, <3>1, <3>2
    <2>2. DOMAIN claims' = Nodes
        BY <1>4 DEF ClaimsInv
    <2>3. \A x \in Nodes : \A o \in Ops :
              Sector[o] \in claims'[x] /\ Reached(o) => Sector[o] \in claims[x] \/ o \in Held(x)
        BY <1>4
    <2>4. \A k \in msgs' : k \in msgs \/ (Shown(k) /\ k.from \in Nodes /\ k.to \in Nodes)
        BY <2>1
    <2>5. QED
        BY <1>2, <2>2, <2>3, <2>4, ClaimsStay
<1>5. \/ claims' = UpdateStorageArcs(n, mine = theirs, theirs)
         /\ \A k \in msgs' : k \in msgs \/ (k.type = "NoDiff" /\ k.from = n /\ k.to = m.from)
      \/ claims' = claims
         /\ \A k \in msgs' :
               \/ k \in msgs
               \/ k.type = "DiscSectorsDiff" /\ k.from = n /\ k.to = m.from
               \/ /\ Comparable(mine, theirs) /\ mine.disc = theirs.disc
                  /\ k.type = "RingSectorDetailsDiff" /\ k.from = n /\ k.to = m.from
                  /\ k.body.snapshot = RingSectorDetails(n, RingMismatch(mine, theirs))
    <2> DEFINE sent(type, snapshot) ==
                   \A k \in msgs' : \/ k \in msgs
                                    \/ /\ k.type = type /\ k.from = n /\ k.to = m.from
                                       /\ k.body.snapshot = snapshot
    <2>1. ASSUME NEW type, NEW snapshot, NEW missing, NEW provided, NEW new, NEW upto,
                 Answer(m, Reply(m, type, [missing |-> missing, provided |-> provided,
                                           new |-> new, upto |-> upto, snapshot |-> snapshot]))
          PROVE  sent(type, snapshot)
        BY <2>1 DEF Answer, Reply
    <2>2. \/ /\ claims' = UpdateStorageArcs(n, mine = theirs, theirs)
             /\ sent("NoDiff", NoSnapshot)
          \/ claims' = claims /\ sent("DiscSectorsDiff", DiscSectors(n))
          \/ /\ Comparable(mine, theirs) /\ mine.disc = theirs.disc /\ claims' = claims
             /\ sent("RingSectorDetailsDiff", RingSectorDetails(n, RingMismatch(mine, theirs)))
        <3> HIDE DEF sent
        <3>1. QED
            BY <2>1, Zenon DEF RespondToAccept
    <2>3. QED
        BY <2>2
<1>6. QED
    BY <1>3, <1>4, <1>5

(* respond_to_ring_sector_details_diff: what the initiator lacks lies in   *)
(* the rings it asks about, so the reply shows it.                         *)
LEMMA RespondToRingSectorDetailsDiffShows ==
    ASSUME GossipInv, [Next]_vars, ClaimsInv, NEW m \in msgs,
           RespondToRingSectorDetailsDiff(m)
    PROVE  ClaimsInv'
<1> DEFINE n      == m.to
           p      == m.from
           theirs == m.body.snapshot
           mine   == RingSectorDetails(n, theirs.rings)
<1>1. n \in Nodes /\ p \in Nodes /\ n # p
    BY MessageEnds
<1>2. m.type = "RingSectorDetailsDiff" /\ BoundaryInv'
    BY BoundaryStep DEF RespondToRingSectorDetailsDiff, ClaimsInv
<1>3. claims' = UpdateStorageArcs(n, Comparable(mine, theirs), theirs)
    BY DEF RespondToRingSectorDetailsDiff
<1>4. \A o \in Ops : Reached(o) /\ Sector[o] \in Synced(theirs) => o \in Held(n)
    BY <1>2, SyncedIsHeld
<1>5. claims' = claims \/ claims' = [claims EXCEPT ![n] = @ \cup Synced(theirs)]
    BY <1>3 DEF UpdateStorageArcs
<1>6. ASSUME NEW k \in msgs', k \notin msgs
      PROVE  \/ k.type \in {"Agents", "Terminate"} /\ k.from = n /\ k.to = p
             \/ /\ Comparable(mine, theirs)
                /\ k.type = "RingSectorDetailsDiffResponse" /\ k.from = n /\ k.to = p
                /\ k.body.snapshot = mine
    BY <1>6 DEF RespondToRingSectorDetailsDiff, Answer, Reply
<1>7. /\ mine.kind = "RingSectorDetails" /\ mine.boundary = boundary[n]
      /\ mine.ring = {o \in RingOps(n) : Ring(o, boundary[n]) \in theirs.rings}
    BY DEF RingSectorDetails
<1>8. \A o \in Ops : Reached(o) /\ o \notin Held(p) =>
          theirs.boundary <= Slice[o] /\ Ring(o, theirs.boundary) \in theirs.rings
    BY <1>2 DEF ClaimsInv, Shown
<1>9. Comparable(mine, theirs) => theirs.boundary = boundary[n]
    BY <1>7 DEF Comparable
<1> HIDE DEF n, p, theirs, mine
<1>10. ASSUME Comparable(mine, theirs), NEW o \in Ops, Reached(o), o \notin mine.ring,
              o \notin Held(p)
       PROVE  FALSE
    <2>1. o \in Held(n)
        BY <1>1, <1>10 DEF ClaimsInv, OnlyOneLacks
    <2>2. boundary[n] <= Slice[o] /\ Ring(o, boundary[n]) \in theirs.rings
        BY <1>8, <1>9, <1>10
    <2>3. o \in DiscOps(n) \/ o \in RingOps(n)
        BY <1>1, <1>10, <2>1, HeldIsShown DEF ClaimsInv
    <2>4. o \notin DiscOps(n)
        BY <1>1, <2>2, SliceIsNat DEF DiscOps, ClaimsInv, BoundaryInv
    <2>5. QED
        BY <1>7, <1>10, <2>2, <2>3, <2>4
<1>11. ASSUME NEW k \in msgs', k \notin msgs
       PROVE  Shown(k) /\ k.from \in Nodes /\ k.to \in Nodes
    <2>1. CASE k.type \in {"Agents", "Terminate"} /\ k.from = n /\ k.to = p
        <3>1. Plain(k)
            BY <2>1 DEF Plain
        <3>2. QED
            BY <1>1, <2>1, <3>1, PlainIsShown
    <2>2. CASE /\ Comparable(mine, theirs)
               /\ k.type = "RingSectorDetailsDiffResponse" /\ k.from = n /\ k.to = p
               /\ k.body.snapshot = mine
        <3>1. \A o \in Ops : Reached(o) /\ o \notin k.body.snapshot.ring => o \in Held(k.to)
            BY <1>10, <2>2
        <3>2. Shown(k)
            BY <1>7, <2>2, <3>1 DEF Shown
        <3>3. QED
            BY <1>1, <2>2, <3>2
    <2>3. QED
        BY <1>6, <1>11, <2>1, <2>2
<1>12. /\ DOMAIN claims' = Nodes
       /\ \A x \in Nodes : \A o \in Ops :
             Sector[o] \in claims'[x] /\ Reached(o) => Sector[o] \in claims[x] \/ o \in Held(x)
    BY <1>1, <1>4, <1>5, ArcGrows
<1>13. \A k \in msgs' : k \in msgs \/ (Shown(k) /\ k.from \in Nodes /\ k.to \in Nodes)
    BY <1>11
<1>14. QED
    BY <1>2, <1>12, <1>13, ClaimsStay

LEMMA RespondToRingSectorDetailsDiffResponseShows ==
    ASSUME GossipInv, [Next]_vars, ClaimsInv, NEW m \in msgs,
           RespondToRingSectorDetailsDiffResponse(m)
    PROVE  ClaimsInv'
<1> DEFINE n      == m.to
           theirs == m.body.snapshot
           mine   == initiated[n].snapshot
<1>1. n \in Nodes /\ m.from \in Nodes
    BY MessageEnds
<1>2. m.type = "RingSectorDetailsDiffResponse" /\ BoundaryInv'
    BY BoundaryStep DEF RespondToRingSectorDetailsDiffResponse, ClaimsInv
<1>3. claims' = UpdateStorageArcs(n, Comparable(mine, theirs), theirs)
    BY DEF RespondToRingSectorDetailsDiffResponse
<1>4. \A o \in Ops : Reached(o) /\ Sector[o] \in Synced(theirs) => o \in Held(n)
    BY <1>2, SyncedIsHeld
<1>5. claims' = claims \/ claims' = [claims EXCEPT ![n] = @ \cup Synced(theirs)]
    BY <1>3 DEF UpdateStorageArcs
<1>6. /\ DOMAIN claims' = Nodes
      /\ \A x \in Nodes : \A o \in Ops :
            Sector[o] \in claims'[x] /\ Reached(o) => Sector[o] \in claims[x] \/ o \in Held(x)
    BY <1>1, <1>4, <1>5, ArcGrows
<1>7. ASSUME NEW k \in msgs', k \notin msgs
      PROVE  Shown(k) /\ k.from \in Nodes /\ k.to \in Nodes
    <2>1. k.type \in {"Terminate", "Hashes"} /\ k.from = n /\ k.to = m.from
        BY <1>7 DEF RespondToRingSectorDetailsDiffResponse, Answer, Reply
    <2>2. Plain(k)
        BY <2>1 DEF Plain
    <2>3. QED
        BY <1>1, <2>1, <2>2, PlainIsShown
<1>8. \A k \in msgs' : k \in msgs \/ (Shown(k) /\ k.from \in Nodes /\ k.to \in Nodes)
    BY <1>7
<1>9. QED
    BY <1>2, <1>6, <1>8, ClaimsStay

(* Every other step claims nothing new and shows nothing of the rings. *)
LEMMA RestClaimsNothing ==
    ASSUME GossipInv, [Next]_vars, ClaimsInv,
           DOMAIN claims' = Nodes,
           \A n \in Nodes : claims'[n] \subseteq claims[n],
           \A k \in msgs' : k \in msgs \/ (Plain(k) /\ k.from \in Nodes /\ k.to \in Nodes)
    PROVE  ClaimsInv'
<1>1. BoundaryInv'
    BY BoundaryStep DEF ClaimsInv
<1>2. \A x \in Nodes : \A o \in Ops :
          Sector[o] \in claims'[x] /\ Reached(o) => Sector[o] \in claims[x] \/ o \in Held(x)
    OBVIOUS
<1>3. \A k \in msgs' : k \in msgs \/ (Shown(k) /\ k.from \in Nodes /\ k.to \in Nodes)
    BY PlainIsShown
<1>4. QED
    BY <1>1, <1>2, <1>3, ClaimsStay

LEMMA OtherHandlersShowNothing ==
    ASSUME GossipInv, [Next]_vars, ClaimsInv, NEW m \in msgs,
           \/ RefuseInitiate(m)
           \/ AdmitInitiate(m)
           \/ RespondToNoDiff(m)
           \/ RespondToDiscSectorsDiff(m)
           \/ RespondToDiscSectorDetailsDiff(m)
           \/ RespondToDiscSectorDetailsDiffResponse(m)
           \/ RespondToHashes(m)
           \/ RespondToAgents(m)
           \/ RespondToBusy(m)
           \/ RespondToTerminate(m)
           \/ Reject(m)
    PROVE  ClaimsInv'
<1>1. UNCHANGED claims
    BY DEF RefuseInitiate, AdmitInitiate, RespondToNoDiff, RespondToDiscSectorsDiff,
           RespondToDiscSectorDetailsDiff, RespondToDiscSectorDetailsDiffResponse,
           RespondToHashes, RespondToAgents, RespondToBusy, RespondToTerminate, Reject, data
<1>2. m.from \in Nodes /\ m.to \in Nodes
    BY MessageEnds
<1>3. ASSUME NEW k \in msgs', k \notin msgs
      PROVE  /\ k.type \in {"Busy", "Agents", "Terminate", "DiscSectorDetailsDiff",
                             "DiscSectorDetailsDiffResponse", "Hashes"}
             /\ k.from = m.to /\ k.to = m.from
    <2>1. CASE RefuseInitiate(m)
        BY <1>3, <2>1 DEF RefuseInitiate, Answer
    <2>2. CASE AdmitInitiate(m)
        BY <1>3, <2>2 DEF AdmitInitiate, Answer, Reply
    <2>3. CASE RespondToNoDiff(m)
        BY <1>3, <2>3 DEF RespondToNoDiff, Answer, Reply
    <2>4. CASE RespondToDiscSectorsDiff(m)
        BY <1>3, <2>4 DEF RespondToDiscSectorsDiff, Answer, Reply
    <2>5. CASE RespondToDiscSectorDetailsDiff(m)
        BY <1>3, <2>5 DEF RespondToDiscSectorDetailsDiff, Answer, Reply
    <2>6. CASE RespondToDiscSectorDetailsDiffResponse(m)
        BY <1>3, <2>6 DEF RespondToDiscSectorDetailsDiffResponse, Answer, Reply
    <2>7. CASE \/ RespondToHashes(m) \/ RespondToAgents(m) \/ RespondToBusy(m)
               \/ RespondToTerminate(m) \/ Reject(m)
        BY <1>3, <2>7 DEF RespondToHashes, RespondToAgents, RespondToBusy,
                          RespondToTerminate, Reject, Answer
    <2>8. QED
        BY <2>1, <2>2, <2>3, <2>4, <2>5, <2>6, <2>7
<1>4. \A k \in msgs' : k \in msgs \/ (Plain(k) /\ k.from \in Nodes /\ k.to \in Nodes)
    BY <1>2, <1>3 DEF Plain
<1>5. QED
    BY <1>1, <1>4, RestClaimsNothing DEF ClaimsInv

LEMMA OutsideShowsNothing ==
    ASSUME GossipInv, [Next]_vars, ClaimsInv,
           \/ \E n, p \in Nodes : Initiate(n, p)
           \/ \E n \in Nodes : TimeoutInitiated(n)
           \/ \E n, p \in Nodes : TimeoutAccepted(n, p)
           \/ \E n \in Nodes, o \in Ops : Fetch(n, o)
           \/ \E n \in Nodes : UpdateDht(n)
           \/ \E m \in msgs : Lose(m)
           \/ \E n \in Nodes : LoseFetch(n)
           \/ \E n \in Nodes : Restart(n)
           \/ UNCHANGED vars
    PROVE  ClaimsInv'
<1>1. /\ DOMAIN claims' = Nodes
      /\ \A n \in Nodes : claims'[n] \subseteq claims[n]
    <2>1. UNCHANGED claims \/ \E n \in Nodes : claims' = [claims EXCEPT ![n] = {}]
        BY DEF Initiate, TimeoutInitiated, TimeoutAccepted, Fetch, UpdateDht, Lose, LoseFetch,
               Restart, data, vars
    <2>2. QED
        BY <2>1 DEF ClaimsInv
<1>2. ASSUME NEW k \in msgs', k \notin msgs
      PROVE  Plain(k) /\ k.from \in Nodes /\ k.to \in Nodes
    <2>1. CASE \E n, p \in Nodes : Initiate(n, p)
        <3>1. PICK n \in Nodes, p \in Nodes : Initiate(n, p)
            BY <2>1
        <3>2. k.type = "Initiate" /\ k.from = n /\ k.to = p
            BY <1>2, <3>1 DEF Initiate
        <3>3. QED
            BY <3>2 DEF Plain
    <2>2. CASE msgs' \subseteq msgs
        BY <1>2, <2>2
    <2>3. QED
        BY <2>1, <2>2 DEF TimeoutInitiated, TimeoutAccepted, Fetch, UpdateDht, Lose, LoseFetch,
                          Restart, Answer, vars
<1>3. \A k \in msgs' : k \in msgs \/ (Plain(k) /\ k.from \in Nodes /\ k.to \in Nodes)
    BY <1>2
<1>4. QED
    BY <1>1, <1>3, RestClaimsNothing

LEMMA ClaimsStep == ASSUME GossipInv, ClaimsInv, [Next]_vars PROVE ClaimsInv'
<1>1. ASSUME NEW m \in msgs, RespondToMsg(m) PROVE ClaimsInv'
    BY <1>1, RespondToAcceptShows, RespondToRingSectorDetailsDiffShows,
       RespondToRingSectorDetailsDiffResponseShows, OtherHandlersShowNothing DEF RespondToMsg
<1>2. ASSUME NEW n \in Nodes, NEW m \in checking[n], AcceptRound(n, m) PROVE ClaimsInv'
    BY <1>2, AcceptRoundShows
<1>3. QED
    BY <1>1, <1>2, OutsideShowsNothing DEF Next

LEMMA ClaimsStart == ASSUME Init, OnlyOneLacks PROVE ClaimsInv
<1>1. BoundaryInv
    BY SliceIsNat DEF Init, BoundaryInv
<1>2. DOMAIN claims = Nodes /\ ClaimsHold
    BY DEF Init, ClaimsHold
<1>3. QED
    BY <1>1, <1>2 DEF Init, ClaimsInv

(* Nodes that start up such that no op is lacking at two of them claim     *)
(* nothing they do not hold, whatever is lost, delayed, crossed and        *)
(* forgotten: what a snapshot in flight leaves out its receiver holds, and *)
(* update_storage_arcs takes in only sectors in which the details left out *)
(* everything.                                                             *)
THEOREM ClaimsAreHeld == OnlyOneLacks /\ Spec => []ClaimsHold
<1>1. Init /\ OnlyOneLacks => GossipInv /\ ClaimsInv
    BY InitKeeps, ClaimsStart
<1>2. GossipInv /\ ClaimsInv /\ [Next]_vars => GossipInv' /\ ClaimsInv'
    BY NextKeeps, ClaimsStep DEF Kept
<1>3. ClaimsInv => ClaimsHold
    BY DEF ClaimsInv
<1>4. QED
    BY <1>1, <1>2, <1>3, PTL DEF Spec

(* Two nodes always start like that: every op is at one of them. *)
THEOREM PairsHoldTheirClaims == Paired /\ Spec => []ClaimsHold
<1>1. Init /\ Paired => OnlyOneLacks
    <2> SUFFICES ASSUME Init, Paired, NEW o \in Ops, NEW n \in Nodes, NEW p \in Nodes, n # p
                 PROVE  o \in Held(n) \/ o \in Held(p)
        BY DEF OnlyOneLacks
    <2>1. PICK holds \in [Nodes -> SUBSET Ops] :
              /\ UNION {holds[k] : k \in Nodes} = Ops
              /\ stored = [k \in Nodes |-> [x \in Ops |->
                     IF x \in holds[k] THEN Cardinality({y \in holds[k] : y <= x}) ELSE 0]]
        BY Zenon DEF Init
    <2>2. PICK k \in Nodes : o \in holds[k]
        BY <2>1
    <2>3. k = n \/ k = p
        BY DEF Paired
    <2>4. stored[k][o] = Cardinality({y \in holds[k] : y <= o})
        BY <2>1, <2>2
    <2>5. Cardinality({y \in holds[k] : y <= o}) \in Nat \ {0}
        <3>1. IsFiniteSet({y \in holds[k] : y <= o})
            BY LimitsAssumption, FS_Subset
        <3>2. o \in {y \in holds[k] : y <= o}
            BY <2>2, LimitsAssumption
        <3>3. QED
            BY <3>1, <3>2, FS_CardinalityType, FS_EmptySet
    <2>6. o \in Held(k)
        BY <2>4, <2>5 DEF Held
    <2>7. QED
        BY <2>3, <2>6
<1>2. CASE Paired
    BY <1>1, <1>2, ClaimsAreHeld, PTL DEF Spec
<1>3. QED
    BY <1>2
====
