---- MODULE IrohProofs ----
(***************************************************************************)
(* Theorems about the iroh transport, for any number of nodes, connections *)
(* and calls of send: it keeps the registry's promises, both ends of a     *)
(* pair settle on one connection, and nobody is blamed for a lost race.    *)
(***************************************************************************)
EXTENDS IrohTransport, TLAPS

----------------------------------------------------------------------------
(* Who a connection joins.                                                 *)

Joins(c, n, m) ==
    \/ conn[c].from = n /\ conn[c].to = m
    \/ conn[c].from = m /\ conn[c].to = n
EndAt(c, n) == c \in Made /\ (conn[c].from = n \/ conn[c].to = n)

Holding == SendStages \ {"idle", "dial", "returned"}  \* with a connection
Dialing == {"register", "preflight"}                  \* and not yet heard of
Early   == {"none", "accept", "register", "reply", "activate"}

(* Whatever mentions a connection is about one that was made, at one of    *)
(* its two ends.                                                           *)
EndsInv ==
    /\ \A c \in Made : conn[c].from # conn[c].to
    /\ \A c \in Conns, n \in Nodes :
         /\ EndAt(c, n) => reader[c][n] # "none" /\ life[c][n] # "none"
         /\ ~EndAt(c, n) => /\ reader[c][n] = "none" /\ life[c][n] = "none"
                            /\ ended[c][n] = "open"
EntriesInv ==
    \A n, m \in Nodes :
        slot[n][m] # 0 => slot[n][m] \in Made /\ Joins(slot[n][m], n, m)
HoldersInv ==
    \A s \in Senders :
        /\ snd[s].at \in Holding => snd[s].c \in Made /\ Joins(snd[s].c, Home[s], Target[s])
        /\ snd[s].at \in Dialing => conn[snd[s].c].from = Home[s]
WireInv ==
    \A c \in Conns, n \in Nodes :
        \/ \E k \in Codes : <<c, n, k>> \in closes
        \/ <<c, n>> \in preflights
        \/ \E s \in Senders : <<c, n, s>> \in inbox
        \/ <<c, n>> \in leaving
        \/ <<c, n>> \in owed
        => EndAt(c, n)
ShapeInv == EndsInv /\ EntriesInv /\ HoldersInv /\ WireInv

----------------------------------------------------------------------------
(* The handshake: where the two readers and the dialing send of a          *)
(* connection can stand at the same time.                                  *)

(* Until its dial has sent a preflight a connection is unknown to either   *)
(* reader, and a connection has one dial.                                  *)
DialInv ==
    /\ \A s \in Senders : snd[s].at \in Dialing =>
         LET c == snd[s].c IN
         /\ <<c, Home[s]>> \notin preflights /\ <<c, Target[s]>> \notin preflights
         /\ reader[c][Home[s]] \notin {"register", "reply", "activate", "read"}
         /\ reader[c][Target[s]] \notin {"register", "reply", "activate", "read"}
    /\ \A s, t \in Senders :
         snd[s].at \in Dialing /\ snd[t].at \in Dialing /\ snd[s].c = snd[t].c => s = t

(* The acceptor answers with a preflight before it reads, and the dialer   *)
(* hears nothing before.                                                   *)
AnswerInv ==
    \A c \in Made :
        LET n == conn[c].from
            m == conn[c].to IN
        /\ reader[c][n] # "reply"
        /\ reader[c][n] = "accept" /\ reader[c][m] \in {"activate", "read"}
             => <<c, n>> \in preflights
        /\ <<c, n>> \in preflights \/ reader[c][n] \in {"register", "activate", "read"}
             => reader[c][m] \notin {"accept", "exitNoUrl", "register", "reply"}

(* What a reader's stage, the connection's life and the close say about    *)
(* each other.                                                             *)
EndInv ==
    \A c \in Conns, n \in Nodes :
        /\ reader[c][n] = "done" => life[c][n] \notin Live /\ ended[c][n] # "open"
        /\ reader[c][n] = "read" => life[c][n] # "Pending"
        /\ life[c][n] = "Active" => reader[c][n] \notin Early
        /\ life[c][n] = "Superseded" => ended[c][n] # "open" \/ reader[c][n] = "inactive"

(* A connection that is read from holds the slot until it is closed. *)
ReadInv ==
    \A c \in Conns, n \in Nodes :
        reader[c][n] = "read" /\ ended[c][n] = "open" =>
            slot[n][Peer(c, n)] = c \/ <<c, n>> \in leaving

(* A send looks for another connection only if its own lost or is not the  *)
(* registered one, which it will not become again.                         *)
ReplaceInv ==
    \A s \in Senders :
        LET c == snd[s].c
            n == Home[s] IN
        /\ At(s, "check") => reader[c][n] \notin Early
        /\ At(s, "replace") => \/ IsSuperseded(c, n)
                               \/ /\ reader[c][n] \notin Early
                                  /\ reader[c][n] = "read" => slot[n][Target[s]] # c

(* A close frame comes from an end that has closed. *)
FramesInv ==
    \A c \in Conns, n \in Nodes, k \in Codes :
        <<c, n, k>> \in closes => ended[c][Peer(c, n)] # "open"

----------------------------------------------------------------------------
(* A connection that was in use is registered until its end is reported or *)
(* it lost the slot to another.                                            *)
OwedInv ==
    \A c \in Conns, n \in Nodes : <<c, n>> \in owed =>
        /\ reader[c][n] \in {"read", "gone", "done"}
        /\ reader[c][n] = "read" =>
             /\ life[c][n] \in {"Active", "Superseded"}
             /\ slot[n][Peer(c, n)] = c \/ <<c, n>> \in leaving \/ IsSuperseded(c, n)
        /\ reader[c][n] = "done" => <<c, n>> \in leaving \/ IsSuperseded(c, n)

----------------------------------------------------------------------------
(* While nothing went wrong.                                               *)

(* Nobody is disconnected or blamed, and only lost races are closed. *)
Quiet ==
    /\ leaving = {}
    /\ \A c \in Conns, n \in Nodes, k \in Codes : <<c, n, k>> \in closes => k = "Superseded"
    /\ \A n \in Nodes : unresponsive[n] = {}

(* An end that is closed or given up is known to have lost. *)
CalmEnds ==
    \A c \in Conns, n \in Nodes :
        /\ ended[c][n] # "open" => IsSuperseded(c, n)
        /\ reader[c][n] \notin {"exitQuiet", "exitNoUrl", "goneQuiet"}
        /\ reader[c][n] = "exit" => ended[c][n] # "open"
        /\ reader[c][n] \in {"inactive", "gone"} => IsSuperseded(c, n)
        /\ life[c][n] = "Closed" => reader[c][n] = "done"

(* The slot is held by a connection in use or on its way there, and by an  *)
(* acceptor's end only after its preflight.                                *)
CalmSlots ==
    \A c \in Conns, n \in Nodes :
        EndAt(c, n) /\ slot[n][Peer(c, n)] = c =>
            /\ life[c][n] \in Live
            /\ reader[c][n] \notin {"inactive", "gone", "done"}
            /\ n = conn[c].to => reader[c][n] \notin {"accept", "register"}

(* A reader on its way to use holds the slot, or lost it to another. *)
CalmAnswers ==
    \A c \in Conns, n \in Nodes :
        EndAt(c, n) /\ reader[c][n] \in {"reply", "activate"} =>
            slot[n][Peer(c, n)] = c \/ IsSuperseded(c, n)

(* The other end hears of a close. *)
CalmFrames ==
    \A c \in Conns, n \in Nodes :
        EndAt(c, n) /\ ended[c][n] # "open" /\ ended[c][Peer(c, n)] = "open" =>
            <<c, Peer(c, n), "Superseded">> \in closes

(* An acceptor that waits for a preflight has one coming, or a close. *)
CalmWaits ==
    \A c \in Conns, n \in Nodes :
        /\ EndAt(c, n) /\ n = conn[c].to
        /\ reader[c][n] = "accept" /\ ended[c][n] = "open"
        => \/ <<c, n>> \in preflights
           \/ <<c, n, "Superseded">> \in closes
           \/ \E s \in Senders : snd[s].at \in Dialing /\ snd[s].c = c

(* Nothing happens to a connection before its dial is registered. *)
CalmDials ==
    \A s \in Senders : At(s, "register") =>
        LET c == snd[s].c IN
        /\ slot[Home[s]][Target[s]] # c
        /\ \A n \in {Home[s], Target[s]} :
             reader[c][n] = "accept" /\ ended[c][n] = "open" /\ life[c][n] = "Pending"

(* The connection of a pair that is to be kept: the one the larger id      *)
(* dialed, or the only one there is.                                       *)
Preferred(c) == c \in Made /\ conn[c].from > conn[c].to
Champion(c) ==
    /\ c \in Made
    /\ Preferred(c) \/ \A d \in Conns : Preferred(d) => ~Joins(d, conn[c].from, conn[c].to)

(* The lock of a peer lets one call dial at a time. *)
LockInv ==
    \A s, t \in Senders :
        /\ snd[s].at \in {"dial", "register", "preflight"}
        /\ snd[t].at \in {"dial", "register", "preflight"}
        /\ Home[s] = Home[t] /\ Target[s] = Target[t]
        => s = t

(* A pair has one champion ... *)
OneChampion ==
    /\ \A s \in Senders, c \in Conns :
         At(s, "dial") /\ Champion(c) => ~(conn[c].from = Home[s] /\ conn[c].to = Target[s])
    /\ \A c, d \in Conns :
         Champion(c) /\ Champion(d) /\ conn[c] = conn[d] => c = d

(* ... which is never given up. *)
Kept(c) ==
    LET n == conn[c].from
        m == conn[c].to IN
    /\ slot[n][m] = c \/ \E s \in Senders : At(s, "register") /\ snd[s].c = c
    /\ reader[c][m] \in {"reply", "activate", "read"} => slot[m][n] = c
    /\ \A e \in {n, m} :
         /\ ended[c][e] = "open" /\ life[c][e] \in Live
         /\ reader[c][e] \in {"accept", "register", "reply", "activate", "read"}
ChampionLives == \A c \in Conns : Champion(c) => Kept(c)

CalmInv == /\ Quiet /\ CalmEnds /\ CalmSlots /\ CalmAnswers /\ CalmFrames /\ CalmWaits
           /\ CalmDials /\ OneChampion /\ ChampionLives
CalmIsCalm == troubles = 0 => CalmInv

IrohInv == /\ IrohTypeOK /\ ShapeInv /\ LockInv /\ DialInv /\ AnswerInv /\ EndInv
           /\ ReadInv /\ ReplaceInv /\ FramesInv /\ OwedInv /\ CalmIsCalm

----------------------------------------------------------------------------
(* What the parts of a step do, end by end.                                *)

SameEnds ==
    /\ Made' = Made /\ Made \subseteq Conns
    /\ \A c \in Conns : /\ conn'[c] = conn[c]
                        /\ Champion(c)' <=> Champion(c)
    /\ \A c \in Conns, n \in Nodes : /\ EndAt(c, n)' <=> EndAt(c, n)
                                     /\ Peer(c, n)' = Peer(c, n)
    /\ \A c \in Conns, n, m \in Nodes : Joins(c, n, m)' <=> Joins(c, n, m)

Moves(c, n, stage) ==
    \A d \in Conns, e \in Nodes :
        reader'[d][e] = IF d = c /\ e = n THEN stage ELSE reader[d][e]
Marks(c, n, t) ==
    \A d \in Conns, e \in Nodes :
        life'[d][e] = IF d = c /\ e = n /\ life[c][n] \in Live THEN t ELSE life[d][e]
Drops(c, n) ==
    \A k, l \in Nodes :
        slot'[k][l] = IF k = n /\ l = Peer(c, n) /\ slot[k][l] = c THEN 0 ELSE slot[k][l]
Takes(c, n) ==
    \A k, l \in Nodes :
        slot'[k][l] = IF k = n /\ l = Peer(c, n) THEN c ELSE slot[k][l]
Shuts(c, n, code) ==
    /\ \A d \in Conns, e \in Nodes :
         ended'[d][e] = IF d = c /\ e = n
                        THEN IF ended[c][n] = "Superseded" THEN "Superseded" ELSE "local"
                        ELSE ended[d][e]
    /\ \A d \in Conns, e \in Nodes, k \in Codes :
         <<d, e, k>> \in closes' <=>
           \/ <<d, e, k>> \in closes /\ ~(d = c /\ e = n)
           \/ /\ d = c /\ e = Peer(c, n) /\ k = code
              /\ ended[c][n] = "open" /\ ended[c][Peer(c, n)] = "open"
Goes(s, stage, c) ==
    \A t \in Senders :
        /\ snd'[t].at = IF t = s THEN stage ELSE snd[t].at
        /\ snd'[t].c = IF t = s THEN c ELSE snd[t].c

(* Lives only end, and an end that is closed tells the other.              *)
LivesEnd ==
    \A d \in Conns, e \in Nodes :
        \/ life'[d][e] = life[d][e]
        \/ life[d][e] \in Live /\ life'[d][e] = "Superseded"
EndsShut ==
    /\ \A d \in Conns, e \in Nodes :
         \/ ended'[d][e] = ended[d][e]
         \/ EndAt(d, e) /\ ended[d][e] # "Superseded" /\ ended'[d][e] = "local"
    /\ \A d \in Conns, e \in Nodes, k \in Codes :
         /\ <<d, e, k>> \in closes' =>
              \/ <<d, e, k>> \in closes
              \/ k = "Superseded" /\ EndAt(d, e) /\ ended'[d][Peer(d, e)] # "open"
         /\ <<d, e, k>> \in closes /\ ended'[d][e] = "open" => <<d, e, k>> \in closes'
    /\ \A d \in Conns, e \in Nodes :
         /\ EndAt(d, e) /\ ended[d][e] = "open" /\ ended'[d][e] # "open"
         /\ ended'[d][Peer(d, e)] = "open"
         => <<d, Peer(d, e), "Superseded">> \in closes'

(* A registration changes one entry; the end that loses is the candidate's *)
(* or that of the holder, which is closed.                                 *)
SlotSettles(c, n) ==
    /\ \A k, l \in Nodes :
         \/ slot'[k][l] = slot[k][l]
         \/ k = n /\ l = Peer(c, n) /\ slot'[k][l] = c
    /\ Wins(c, n) => slot'[n][Peer(c, n)] = c /\ life'[c][n] = life[c][n] /\ ended'[c][n] = ended[c][n]
    /\ ~Wins(c, n) => UNCHANGED slot /\ life'[c][n] \notin Live
    /\ \A d \in Conns \ {c} : slot[n][Peer(c, n)] = d /\ Wins(c, n) =>
                         ended'[d][n] # "open" /\ life'[d][n] \notin Live
    /\ \A d \in Conns, e \in Nodes :
         life'[d][e] # life[d][e] \/ ended'[d][e] # ended[d][e] =>
           /\ e = n
           /\ \/ d = c /\ ~Wins(c, n)
              \/ d = slot[n][Peer(c, n)] /\ d # c /\ Wins(c, n)
Settles(c, n) == LivesEnd /\ EndsShut /\ SlotSettles(c, n)

(* The other end of a connection. *)
LEMMA PeerIsNode ==
    ASSUME IrohTypeOK, ShapeInv, NEW c \in Conns, NEW n \in Nodes, EndAt(c, n)
    PROVE  /\ Peer(c, n) \in Nodes /\ Peer(c, n) # n
           /\ EndAt(c, Peer(c, n)) /\ Peer(c, Peer(c, n)) = n /\ Joins(c, n, Peer(c, n))
BY DEF IrohTypeOK, ShapeInv, EndsInv, EndAt, Made, Joins, Peer, NoConn

(* The two ends of a connection. *)
LEMMA MadeEnds ==
    ASSUME IrohTypeOK, ShapeInv, NEW c \in Made
    PROVE  /\ c \in Conns /\ c # 0
           /\ conn[c].from \in Nodes /\ conn[c].to \in Nodes /\ conn[c].from # conn[c].to
           /\ EndAt(c, conn[c].from) /\ Peer(c, conn[c].from) = conn[c].to
           /\ EndAt(c, conn[c].to) /\ Peer(c, conn[c].to) = conn[c].from
BY ConnsAssumption DEF IrohTypeOK, ShapeInv, EndsInv, EndAt, Made, Peer, NoConn

(* A reader reads an end of a connection. *)
LEMMA ReaderHasEnd ==
    ASSUME ShapeInv, NEW c \in Conns, NEW n \in Nodes, reader[c][n] # "none"
    PROVE  EndAt(c, n)
BY DEF ShapeInv, EndsInv

(* Most steps make no connection. *)
LEMMA NoneMade == ASSUME UNCHANGED conn PROVE SameEnds
BY DEF SameEnds, Made, Champion, Preferred, EndAt, Peer, Joins

(* A send holds an end of a connection to its target. *)
LEMMA SenderHasEnd ==
    ASSUME IrohTypeOK, ShapeInv, NEW s \in Senders, snd[s].at \in Holding
    PROVE  /\ snd[s].c \in Conns /\ snd[s].c # 0
           /\ EndAt(snd[s].c, Home[s]) /\ Peer(snd[s].c, Home[s]) = Target[s]
           /\ Home[s] \in Nodes /\ Target[s] \in Nodes /\ Home[s] # Target[s]
           /\ EndAt(snd[s].c, Target[s]) /\ Peer(snd[s].c, Target[s]) = Home[s]
BY SendersAssumption, ConnsAssumption DEF ShapeInv, HoldersInv, Made, EndAt, Joins, Peer

(* A slot holds an end of a connection to the peer. *)
LEMMA SlotHasEnd ==
    ASSUME IrohTypeOK, ShapeInv, NEW n \in Nodes, NEW m \in Nodes, slot[n][m] # 0
    PROVE  /\ slot[n][m] \in Conns /\ n # m
           /\ EndAt(slot[n][m], n) /\ Peer(slot[n][m], n) = m
           /\ EndAt(slot[n][m], m) /\ Peer(slot[n][m], m) = n
BY DEF IrohTypeOK, ShapeInv, EntriesInv, EndsInv, EndAt, Made, Joins, Peer

(* A dial that has not sent its preflight is unheard of. *)
LEMMA DialIsUnheard ==
    ASSUME IrohTypeOK, ShapeInv, DialInv, NEW c \in Conns, NEW n \in Nodes, EndAt(c, n),
           \/ reader[c][n] \in {"register", "reply", "activate", "read"}
           \/ <<c, n>> \in preflights
    PROVE  \A t \in Senders : snd[t].at \in Dialing =>
               /\ snd[t].c # c /\ snd[t].c \in Conns
               /\ Home[t] \in Nodes /\ Target[t] \in Nodes
<1>1. ASSUME NEW t \in Senders, snd[t].at \in Dialing
      PROVE  /\ snd[t].c # c /\ snd[t].c \in Conns
             /\ Home[t] \in Nodes /\ Target[t] \in Nodes
    <2>1. /\ snd[t].c \in Conns /\ Home[t] \in Nodes /\ Target[t] \in Nodes
          /\ Home[t] # Target[t]
          /\ EndAt(snd[t].c, Home[t]) /\ Peer(snd[t].c, Home[t]) = Target[t]
        BY <1>1, SenderHasEnd DEF Dialing, Holding, SendStages
    <2>2. snd[t].c = c => n = Home[t] \/ n = Target[t]
        BY <2>1 DEF EndAt, Peer
    <2>3. QED
        BY <1>1, <2>1, <2>2 DEF DialInv
<1>2. QED
    BY <1>1

(* A reader moves. *)
LEMMA ReaderMoves ==
    ASSUME IrohTypeOK, NEW c \in Conns, NEW n \in Nodes, NEW stage \in ReaderStages,
           ReaderGoes(c, n, stage)
    PROVE  reader' \in [Conns -> [Nodes -> ReaderStages]] /\ Moves(c, n, stage)
BY DEF IrohTypeOK, ReaderGoes, Moves

(* A call of send moves. *)
LEMMA SenderMoves ==
    ASSUME IrohTypeOK, NEW s \in Senders, NEW stage \in SendStages, NEW c \in Conns \cup {0},
           Go(s, stage, c)
    PROVE  /\ snd' \in [Senders -> [at : SendStages, c : Conns \cup {0}]]
           /\ Goes(s, stage, c)
BY DEF IrohTypeOK, Go, Goes

(* A life ends, unless it has. *)
LEMMA MarkEnds ==
    ASSUME IrohTypeOK, NEW c \in Conns, NEW n \in Nodes, NEW t \in Terminal,
           life' = Mark(life, c, n, t)
    PROVE  /\ life' \in [Conns -> [Nodes -> {"none"} \cup Live \cup Terminal]]
           /\ Marks(c, n, t)
BY DEF IrohTypeOK, Mark, Marks

(* An entry goes. *)
LEMMA EntryDrops ==
    ASSUME IrohTypeOK, ShapeInv, NEW c \in Conns, NEW n \in Nodes, EndAt(c, n),
           RemoveIfCurrent(c, n)
    PROVE  slot' \in [Nodes -> [Nodes -> Conns \cup {0}]] /\ Drops(c, n)
BY PeerIsNode DEF IrohTypeOK, RemoveIfCurrent, Drops

(* An end is closed. *)
LEMMA EndShuts ==
    ASSUME IrohTypeOK, ShapeInv, NEW c \in Conns, NEW n \in Nodes, EndAt(c, n),
           NEW code \in Codes, CloseConn(c, n, code)
    PROVE  /\ ended' \in [Conns -> [Nodes -> {"open", "local", "lost"} \cup Codes]]
           /\ closes' \subseteq Conns \X Nodes \X Codes
           /\ Shuts(c, n, code)
<1>1. Peer(c, n) \in Nodes
    BY PeerIsNode
<1>2. ended' = Closed(ended, c, n) /\ closes' = NotTo(closes, c, n) \cup CloseFrame(c, n, code)
    BY DEF CloseConn
<1>3. ended' \in [Conns -> [Nodes -> {"open", "local", "lost"} \cup Codes]]
    BY <1>2 DEF IrohTypeOK, Closed
<1>4. NotTo(closes, c, n) \subseteq Conns \X Nodes \X Codes
    BY DEF IrohTypeOK, NotTo
<1>5. CloseFrame(c, n, code) \subseteq Conns \X Nodes \X Codes
    BY <1>1 DEF CloseFrame
<1>6. \A d \in Conns, e \in Nodes :
         ended'[d][e] = IF d = c /\ e = n
                        THEN IF ended[c][n] = "Superseded" THEN "Superseded" ELSE "local"
                        ELSE ended[d][e]
    BY <1>2 DEF IrohTypeOK, Closed
<1>7. ASSUME NEW d \in Conns, NEW e \in Nodes, NEW k \in Codes
      PROVE  /\ <<d, e, k>> \in NotTo(closes, c, n) <=> <<d, e, k>> \in closes /\ ~(d = c /\ e = n)
             /\ <<d, e, k>> \in CloseFrame(c, n, code) <=>
                  /\ d = c /\ e = Peer(c, n) /\ k = code
                  /\ ended[c][n] = "open" /\ ended[c][Peer(c, n)] = "open"
    BY DEF NotTo, CloseFrame
<1>8. QED
    BY <1>2, <1>3, <1>4, <1>5, <1>6, <1>7 DEF Shuts

(* A connection wins or loses the slot. *)
LEMMA SlotIsSettled ==
    ASSUME IrohTypeOK, ShapeInv, NEW c \in Conns, NEW n \in Nodes, EndAt(c, n), Register(c, n)
    PROVE  /\ slot' \in [Nodes -> [Nodes -> Conns \cup {0}]]
           /\ life' \in [Conns -> [Nodes -> {"none"} \cup Live \cup Terminal]]
           /\ ended' \in [Conns -> [Nodes -> {"open", "local", "lost"} \cup Codes]]
           /\ closes' \subseteq Conns \X Nodes \X Codes
           /\ LET d == slot[n][Peer(c, n)] IN
              \/ /\ Wins(c, n) /\ Takes(c, n) /\ d \in {0, c} /\ UNCHANGED <<life, ended, closes>>
              \/ /\ Wins(c, n) /\ Takes(c, n)
                 /\ d \in Conns \ {0, c} /\ EndAt(d, n) /\ Peer(d, n) = Peer(c, n)
                 /\ Marks(d, n, "Superseded") /\ Shuts(d, n, "Superseded")
              \/ /\ ~Wins(c, n) /\ Marks(c, n, "Superseded") /\ UNCHANGED <<slot, ended, closes>>
<1> DEFINE m == Peer(c, n)
           d == slot[n][m]
<1>1. m \in Nodes /\ m # n /\ Joins(c, n, m)
    BY PeerIsNode
<1>2. "Superseded" \in Terminal /\ "Superseded" \in Codes
    BY DEF Terminal, Codes
<1>3. CASE Wins(c, n) /\ d \in {0, c}
    <2>1. slot' = [slot EXCEPT ![n][m] = c] /\ UNCHANGED <<life, ended, closes>>
        BY <1>3 DEF Register
    <2>2. slot' \in [Nodes -> [Nodes -> Conns \cup {0}]] /\ Takes(c, n)
        BY <1>1, <2>1 DEF IrohTypeOK, Takes
    <2>3. QED
        BY <1>3, <2>1, <2>2 DEF IrohTypeOK
<1>4. CASE Wins(c, n) /\ d \notin {0, c}
    <2>1. /\ slot' = [slot EXCEPT ![n][m] = c]
          /\ life' = Mark(life, d, n, "Superseded") /\ CloseConn(d, n, "Superseded")
        BY <1>4 DEF Register
    <2>2. slot' \in [Nodes -> [Nodes -> Conns \cup {0}]] /\ Takes(c, n)
        BY <1>1, <2>1 DEF IrohTypeOK, Takes
    <2>3. d \in Conns /\ d # 0 /\ d # c /\ d \in Made /\ Joins(d, n, m)
        BY <1>1, <1>4 DEF IrohTypeOK, ShapeInv, EntriesInv
    <2>4. EndAt(d, n) /\ Peer(d, n) = m
        BY <1>1, <2>3 DEF EndAt, Joins, Peer
    <2>5. Marks(d, n, "Superseded") /\ life' \in [Conns -> [Nodes -> {"none"} \cup Live \cup Terminal]]
        BY <1>2, <2>1, <2>3, MarkEnds
    <2>6. /\ Shuts(d, n, "Superseded")
          /\ ended' \in [Conns -> [Nodes -> {"open", "local", "lost"} \cup Codes]]
          /\ closes' \subseteq Conns \X Nodes \X Codes
        BY <1>2, <2>1, <2>3, <2>4, EndShuts
    <2>7. QED
        BY <1>4, <2>2, <2>3, <2>4, <2>5, <2>6
<1>5. CASE ~Wins(c, n)
    <2>1. life' = Mark(life, c, n, "Superseded") /\ UNCHANGED <<slot, ended, closes>>
        BY <1>5 DEF Register
    <2>2. Marks(c, n, "Superseded") /\ life' \in [Conns -> [Nodes -> {"none"} \cup Live \cup Terminal]]
        BY <1>2, <2>1, MarkEnds
    <2>3. QED
        BY <1>5, <2>1, <2>2 DEF IrohTypeOK
<1>6. QED
    BY <1>3, <1>4, <1>5

(* One end that is shut and ends. *)
LEMMA ShutEnds ==
    ASSUME IrohTypeOK, ShapeInv, FramesInv, NEW x \in Conns, NEW n \in Nodes, EndAt(x, n),
           Marks(x, n, "Superseded"), Shuts(x, n, "Superseded")
    PROVE  LivesEnd /\ EndsShut
<1>1. Peer(x, n) \in Nodes /\ Peer(x, n) # n /\ Peer(x, Peer(x, n)) = n /\ EndAt(x, Peer(x, n))
    BY PeerIsNode
<1>2. "Superseded" \in Codes
    BY DEF Codes
<1>3. LivesEnd
    BY DEF LivesEnd, Marks
<1>4. \A d \in Conns, e \in Nodes :
         \/ ended'[d][e] = ended[d][e]
         \/ EndAt(d, e) /\ ended[d][e] # "Superseded" /\ ended'[d][e] = "local"
    BY DEF Shuts
<1>5. ASSUME NEW d \in Conns, NEW e \in Nodes, NEW k \in Codes
      PROVE  /\ <<d, e, k>> \in closes' =>
                  \/ <<d, e, k>> \in closes
                  \/ k = "Superseded" /\ EndAt(d, e) /\ ended'[d][Peer(d, e)] # "open"
             /\ <<d, e, k>> \in closes /\ ended'[d][e] = "open" => <<d, e, k>> \in closes'
    BY <1>1 DEF Shuts
<1>6. ASSUME NEW d \in Conns, NEW e \in Nodes, EndAt(d, e), ended[d][e] = "open",
             ended'[d][e] # "open", ended'[d][Peer(d, e)] = "open"
      PROVE  <<d, Peer(d, e), "Superseded">> \in closes'
    BY <1>1, <1>2, <1>6 DEF Shuts
<1>7. QED
    BY <1>3, <1>4, <1>5, <1>6 DEF EndsShut

(* Nothing that ends, nothing that shuts. *)
LEMMA NothingEnds ==
    ASSUME UNCHANGED <<life, ended, closes>>
    PROVE  LivesEnd /\ EndsShut
BY DEF LivesEnd, EndsShut

(* register_candidate settles a slot. *)
LEMMA RegisterSettles ==
    ASSUME IrohTypeOK, ShapeInv, FramesInv, NEW c \in Conns, NEW n \in Nodes, EndAt(c, n),
           Register(c, n)
    PROVE  Settles(c, n)
<1> DEFINE d == slot[n][Peer(c, n)]
<1>1. Peer(c, n) \in Nodes
    BY PeerIsNode
<1>2. CASE Wins(c, n) /\ Takes(c, n) /\ d \in {0, c} /\ UNCHANGED <<life, ended, closes>>
    <2>1. SlotSettles(c, n)
        BY <1>1, <1>2, ConnsAssumption DEF SlotSettles, Takes
    <2>2. QED
        BY <1>2, <2>1, NothingEnds DEF Settles
<1>3. CASE /\ Wins(c, n) /\ Takes(c, n) /\ d \in Conns \ {0, c} /\ EndAt(d, n)
           /\ Marks(d, n, "Superseded") /\ Shuts(d, n, "Superseded")
    <2>1. SlotSettles(c, n)
        BY <1>1, <1>3 DEF SlotSettles, Takes, Marks, Shuts, Live
    <2>2. QED
        BY <1>3, <2>1, ShutEnds DEF Settles
<1>4. CASE ~Wins(c, n) /\ Marks(c, n, "Superseded") /\ UNCHANGED <<slot, ended, closes>>
    <2>1. SlotSettles(c, n)
        BY <1>1, <1>4 DEF SlotSettles, Marks, Live
    <2>2. LivesEnd
        BY <1>4 DEF LivesEnd, Marks
    <2>3. EndsShut
        BY <1>4 DEF EndsShut
    <2>4. QED
        BY <2>1, <2>2, <2>3 DEF Settles
<1>5. QED
    BY <1>2, <1>3, <1>4, SlotIsSettled

(* A dial that loses is closed at once. *)
LEMMA LoserSettles ==
    ASSUME IrohTypeOK, ShapeInv, FramesInv, NEW c \in Conns, NEW n \in Nodes, EndAt(c, n),
           ~Wins(c, n), UNCHANGED slot, Marks(c, n, "Superseded"), Shuts(c, n, "Superseded")
    PROVE  Settles(c, n) /\ ended'[c][n] # "open"
<1>1. SlotSettles(c, n)
    BY PeerIsNode DEF SlotSettles, Marks, Shuts, Live
<1>2. ended'[c][n] # "open"
    BY DEF Shuts
<1>3. QED
    BY <1>1, <1>2, ShutEnds DEF Settles

(* What is_preferred_connection compares is who dialed. *)
LEMMA PreferredMeans ==
    ASSUME IrohTypeOK, ShapeInv, NEW c \in Conns, NEW n \in Nodes, EndAt(c, n)
    PROVE  IsPreferred(c, n) <=> Preferred(c)
<1>1. /\ c \in Made /\ conn[c].from \in Nodes /\ conn[c].to \in Nodes
      /\ conn[c].from # conn[c].to
    BY MadeEnds DEF EndAt
<1>2. CASE conn[c].from = n
    BY <1>1, <1>2, NodesAssumption DEF IsPreferred, Preferred, Peer
<1>3. CASE conn[c].from # n
    <2>1. conn[c].to = n
        BY <1>3 DEF EndAt
    <2>2. IsPreferred(c, n) <=> ~(n > conn[c].from)
        BY <1>3 DEF IsPreferred, Peer
    <2>3. conn[c].from \in Nat /\ n \in Nat
        BY <1>1, NodesAssumption
    <2>4. ~(n > conn[c].from) <=> conn[c].from > n
        BY <1>3, <2>3
    <2>5. QED
        BY <1>1, <2>1, <2>2, <2>4 DEF Preferred
<1>4. QED
    BY <1>2, <1>3

(* The champion takes the slot wherever it registers. *)
LEMMA ChampionWins ==
    ASSUME IrohTypeOK, ShapeInv, NEW c \in Conns, NEW n \in Nodes, EndAt(c, n),
           Champion(c), life[c][n] \in Live
    PROVE  Wins(c, n)
<1> DEFINE d == slot[n][Peer(c, n)]
<1>1. SUFFICES ASSUME d \notin {0, c}, IsPreferred(d, n) PROVE IsPreferred(c, n)
    BY DEF Wins
<1>2. Peer(c, n) \in Nodes /\ Joins(c, n, Peer(c, n))
    BY PeerIsNode
<1>3. d \in Made /\ d \in Conns /\ Joins(d, n, Peer(c, n))
    BY <1>1, <1>2 DEF ShapeInv, EntriesInv, Made
<1>4. Preferred(d)
    BY <1>1, <1>3, PreferredMeans DEF EndAt, Joins
<1>5. Joins(d, conn[c].from, conn[c].to)
    BY <1>2, <1>3 DEF Joins
<1>6. Preferred(c)
    BY <1>3, <1>4, <1>5 DEF Champion
<1>7. QED
    BY <1>6, PreferredMeans

(* No other connection takes the slot from the champion. *)
LEMMA ChampionStays ==
    ASSUME IrohTypeOK, ShapeInv, OneChampion, NEW c \in Conns, NEW n \in Nodes, EndAt(c, n),
           Wins(c, n), NEW x \in Conns, x = slot[n][Peer(c, n)], x # 0,
           Champion(x), life[x][n] \in Live
    PROVE  x = c
<1>1. Peer(c, n) \in Nodes /\ Joins(c, n, Peer(c, n))
    BY PeerIsNode
<1>2. x \in Made /\ Joins(x, n, Peer(c, n)) /\ c \in Made
    BY <1>1 DEF ShapeInv, EntriesInv, EndAt
<1>3. EndAt(x, n)
    BY <1>2 DEF EndAt, Joins
<1>4. (IsPreferred(x, n) <=> Preferred(x)) /\ (IsPreferred(c, n) <=> Preferred(c))
    BY <1>3, PreferredMeans
<1>5. x = c \/ Preferred(c) \/ ~Preferred(x)
    BY <1>4 DEF Wins
<1>6. Joins(c, conn[x].from, conn[x].to) /\ Joins(x, conn[c].from, conn[c].to)
    BY <1>1, <1>2 DEF Joins
<1>7. /\ conn[x].from \in Nodes /\ conn[x].to \in Nodes /\ conn[x].from # conn[x].to
      /\ conn[c].from \in Nodes /\ conn[c].to \in Nodes /\ conn[c].from # conn[c].to
      /\ conn[x] \in [from : Nodes, to : Nodes] /\ conn[c] \in [from : Nodes, to : Nodes]
    BY <1>2, MadeEnds DEF IrohTypeOK, Made
<1>8. CASE x # c
    <2>1. Preferred(c) <=> Preferred(x)
        BY <1>2, <1>5, <1>6, <1>8 DEF Champion
    <2>2. conn[c].from > conn[c].to <=> conn[x].from > conn[x].to
        BY <1>2, <2>1 DEF Preferred
    <2>3. conn[c].from = conn[x].from /\ conn[c].to = conn[x].to
        BY <1>6, <1>7, <2>2, NodesAssumption DEF Joins
    <2>4. conn[c] = conn[x]
        BY <1>7, <2>3
    <2>5. \A d \in Conns : Joins(d, conn[c].from, conn[c].to) <=> Joins(d, conn[x].from, conn[x].to)
        BY <2>3
    <2>6. Champion(c)
        BY <1>2, <2>1, <2>5 DEF Champion
    <2>7. QED
        BY <2>4, <2>6 DEF OneChampion
<1>9. QED
    BY <1>8

(* An invariant holds on if nothing it is about changes. *)
LEMMA Untouched ==
    /\ EndsInv /\ UNCHANGED <<conn, reader, life, ended>> => EndsInv'
    /\ EntriesInv /\ UNCHANGED <<conn, slot>> => EntriesInv'
    /\ HoldersInv /\ UNCHANGED <<conn, snd>> => HoldersInv'
    /\ WireInv /\ UNCHANGED <<conn, closes, preflights, inbox, leaving, owed>> => WireInv'
    /\ LockInv /\ UNCHANGED <<conn, snd>> => LockInv'
    /\ DialInv /\ UNCHANGED <<conn, snd, preflights, reader>> => DialInv'
    /\ AnswerInv /\ UNCHANGED <<conn, reader, preflights>> => AnswerInv'
    /\ EndInv /\ UNCHANGED <<conn, reader, life, ended>> => EndInv'
    /\ ReadInv /\ UNCHANGED <<conn, reader, ended, slot, leaving>> => ReadInv'
    /\ ReplaceInv /\ UNCHANGED <<conn, snd, reader, life, ended, slot>> => ReplaceInv'
    /\ FramesInv /\ UNCHANGED <<conn, closes, ended>> => FramesInv'
    /\ OwedInv /\ UNCHANGED <<conn, owed, reader, life, slot, leaving, ended>> => OwedInv'
    /\ Quiet /\ UNCHANGED <<conn, leaving, closes, unresponsive>> => Quiet'
    /\ CalmEnds /\ UNCHANGED <<conn, ended, reader, life>> => CalmEnds'
    /\ CalmSlots /\ UNCHANGED <<conn, slot, life, reader>> => CalmSlots'
    /\ CalmAnswers /\ UNCHANGED <<conn, slot, life, reader, ended>> => CalmAnswers'
    /\ CalmFrames /\ UNCHANGED <<conn, ended, closes>> => CalmFrames'
    /\ CalmWaits /\ UNCHANGED <<conn, reader, ended, preflights, closes, snd>> => CalmWaits'
    /\ CalmDials /\ UNCHANGED <<conn, snd, slot, reader, ended, life>> => CalmDials'
    /\ OneChampion /\ UNCHANGED <<conn, snd>> => OneChampion'
    /\ ChampionLives /\ UNCHANGED <<conn, slot, snd, reader, ended, life>> => ChampionLives'
<1> USE DEF EndAt, Made, Joins, Peer, Champion, Preferred, IsSuperseded
<1>1. EndsInv /\ UNCHANGED <<conn, reader, life, ended>> => EndsInv'
    BY DEF EndsInv
<1>2. EntriesInv /\ UNCHANGED <<conn, slot>> => EntriesInv'
    BY DEF EntriesInv
<1>3. HoldersInv /\ UNCHANGED <<conn, snd>> => HoldersInv'
    BY DEF HoldersInv, Holding, Dialing, SendStages
<1>4. WireInv /\ UNCHANGED <<conn, closes, preflights, inbox, leaving, owed>> => WireInv'
    BY DEF WireInv
<1>5. LockInv /\ UNCHANGED <<conn, snd>> => LockInv'
    BY DEF LockInv
<1>6. DialInv /\ UNCHANGED <<conn, snd, preflights, reader>> => DialInv'
    BY DEF DialInv, Dialing
<1>7. AnswerInv /\ UNCHANGED <<conn, reader, preflights>> => AnswerInv'
    BY DEF AnswerInv
<1>8. EndInv /\ UNCHANGED <<conn, reader, life, ended>> => EndInv'
    BY DEF EndInv
<1>9. ReadInv /\ UNCHANGED <<conn, reader, ended, slot, leaving>> => ReadInv'
    BY DEF ReadInv
<1>10. ReplaceInv /\ UNCHANGED <<conn, snd, reader, life, ended, slot>> => ReplaceInv'
    BY DEF ReplaceInv, IsSuperseded, At
<1>11. FramesInv /\ UNCHANGED <<conn, closes, ended>> => FramesInv'
    BY DEF FramesInv
<1>12. OwedInv /\ UNCHANGED <<conn, owed, reader, life, slot, leaving, ended>> => OwedInv'
    BY DEF OwedInv, IsSuperseded
<1>13. Quiet /\ UNCHANGED <<conn, leaving, closes, unresponsive>> => Quiet'
    BY DEF Quiet
<1>14. CalmEnds /\ UNCHANGED <<conn, ended, reader, life>> => CalmEnds'
    BY DEF CalmEnds, IsSuperseded
<1>15. CalmSlots /\ UNCHANGED <<conn, slot, life, reader>> => CalmSlots'
    BY DEF CalmSlots
<1>16. CalmAnswers /\ UNCHANGED <<conn, slot, life, reader, ended>> => CalmAnswers'
    BY DEF CalmAnswers, IsSuperseded
<1>17. CalmFrames /\ UNCHANGED <<conn, ended, closes>> => CalmFrames'
    BY DEF CalmFrames
<1>18. CalmWaits /\ UNCHANGED <<conn, reader, ended, preflights, closes, snd>> => CalmWaits'
    BY DEF CalmWaits, Dialing
<1>19. CalmDials /\ UNCHANGED <<conn, snd, slot, reader, ended, life>> => CalmDials'
    BY DEF CalmDials, At
<1>20. OneChampion /\ UNCHANGED <<conn, snd>> => OneChampion'
    BY DEF OneChampion, At
<1>21. ChampionLives /\ UNCHANGED <<conn, slot, snd, reader, ended, life>> => ChampionLives'
    BY DEF ChampionLives, Kept, At
<1>22. QED
    BY <1>1, <1>2, <1>3, <1>4, <1>5, <1>6, <1>7, <1>8, <1>9, <1>10, <1>11, <1>12, <1>13,
       <1>14, <1>15, <1>16, <1>17, <1>18, <1>19, <1>20, <1>21

(* A dial that is refused changes nothing but the call and the count. *)
LEMMA DialRefusedKeeps ==
    ASSUME IrohInv, NEW s \in Senders, DialRefused(s)
    PROVE  IrohInv'
<1> USE DEF IrohInv, ShapeInv
<1>1. UNCHANGED <<conn, life, slot, reader, ended, closes, preflights, inbox, leaving,
   unresponsive, owed>>
    BY DEF DialRefused, registry, wire, seen
<1>2. SameEnds
    BY <1>1, NoneMade
<1>3. At(s, "dial") /\ Go(s, "returned", 0) /\ troubles < MaxTroubles /\ troubles' =
   troubles + 1
    BY DEF DialRefused, Trouble
<1>4. snd' \in [Senders -> [at : SendStages, c : Conns \cup {0}]] /\ Goes(s, "returned", 0)
    BY <1>3, SenderMoves DEF SendStages
<1>5. IrohTypeOK'
    BY <1>1, <1>2, <1>3, <1>4, LimitsAssumption DEF IrohTypeOK
<1>6. EndsInv' /\ EntriesInv' /\ WireInv' /\ AnswerInv' /\ EndInv' /\ ReadInv' /\ FramesInv'
   /\ OwedInv'
    BY <1>1, Untouched
<1>7. HoldersInv'
    BY <1>1, <1>2, <1>3, <1>4, SendersAssumption DEF HoldersInv, SameEnds, Holding, Dialing,
       SendStages, Goes
<1>8. LockInv'
    BY <1>1, <1>2, <1>3, <1>4 DEF LockInv, Goes
<1>9. DialInv'
    BY <1>1, <1>2, <1>3, <1>4 DEF DialInv, Dialing, Goes
<1>10. ReplaceInv'
    BY <1>1, <1>2, <1>3, <1>4 DEF ReplaceInv, IsSuperseded, At, Goes
<1>11. CalmIsCalm'
    BY <1>1, <1>2, <1>3, <1>4 DEF CalmIsCalm, IrohTypeOK
<1>12. QED
    BY <1>5, <1>6, <1>7, <1>8, <1>9, <1>10, <1>11

(* A call takes the entry there is, or dials. *)
LEMMA SendKeeps ==
    ASSUME IrohInv, NEW s \in Senders, Send(s)
    PROVE  IrohInv'
<1> USE DEF IrohInv, ShapeInv
<1>1. UNCHANGED <<conn, life, slot, reader, ended, closes, preflights, inbox, leaving,
   unresponsive, owed, troubles>>
    BY DEF Send, registry, wire, seen
<1>2. SameEnds
    BY <1>1, NoneMade
<1>3. At(s, "idle") /\ ~Locked(Home[s], Target[s])
    BY DEF Send
<1>4. Home[s] \in Nodes /\ Target[s] \in Nodes
    BY SendersAssumption
<1>5. \/ slot[Home[s]][Target[s]] # 0 /\ Goes(s, "resolve", slot[Home[s]][Target[s]])
      \/ slot[Home[s]][Target[s]] = 0 /\ Goes(s, "dial", 0)
    BY <1>4, SenderMoves DEF Send, SendStages, IrohTypeOK
<1>6. snd' \in [Senders -> [at : SendStages, c : Conns \cup {0}]]
    BY <1>4, SenderMoves DEF Send, SendStages, IrohTypeOK
<1>7. IrohTypeOK'
    BY <1>1, <1>2, <1>3, <1>4, <1>5, <1>6 DEF IrohTypeOK
<1>8. EndsInv' /\ EntriesInv' /\ WireInv' /\ AnswerInv' /\ EndInv' /\ ReadInv' /\ FramesInv'
   /\ OwedInv'
    BY <1>1, Untouched
<1>9. HoldersInv'
    BY <1>1, <1>2, <1>3, <1>4, <1>5, <1>6, SendersAssumption DEF HoldersInv, SameEnds,
       Holding, Dialing, SendStages, Goes, EntriesInv
<1>10. LockInv'
    BY <1>1, <1>2, <1>3, <1>4, <1>5, <1>6 DEF LockInv, Goes, Locked
<1>11. DialInv'
    BY <1>1, <1>2, <1>3, <1>4, <1>5, <1>6 DEF DialInv, Dialing, Goes
<1>12. ReplaceInv'
    BY <1>1, <1>2, <1>3, <1>4, <1>5, <1>6 DEF ReplaceInv, IsSuperseded, At, Goes
<1>13. ASSUME troubles' = 0 PROVE Quiet' /\ CalmEnds' /\ CalmSlots' /\ CalmAnswers' /\
   CalmFrames'
    BY <1>13, <1>1, Untouched DEF CalmIsCalm, CalmInv
<1>14. ASSUME troubles' = 0 PROVE CalmWaits'
    <2>1. \A t \in Senders : snd[t].at \in Dialing => snd'[t].at \in Dialing /\ snd'[t].c = snd[t].c
        BY <1>1, <1>2, <1>3, <1>4, <1>5, <1>6 DEF Goes, Dialing, At
    <2>2. QED
        BY <1>14, <1>1, <1>2, <2>1 DEF CalmWaits, SameEnds, CalmIsCalm, CalmInv
<1>15. ASSUME troubles' = 0 PROVE CalmDials'
    BY <1>15, <1>1, <1>2, <1>3, <1>4, <1>5, <1>6 DEF CalmDials, At, CalmIsCalm, CalmInv,
       Goes
<1>16. ASSUME troubles' = 0 PROVE OneChampion'
    <2>1. CalmInv
        BY <1>16, <1>1 DEF CalmIsCalm
    <2>2. \A c \in Conns : Champion(c)' <=> Champion(c)
        BY <1>2 DEF SameEnds
    <2>3. ASSUME NEW t \in Senders, NEW c \in Conns, At(t, "dial")', Champion(c),
                 conn[c].from = Home[t], conn[c].to = Target[t]
          PROVE  FALSE
        <3>1. CASE t = s
            <4>1. slot[Home[s]][Target[s]] = 0
                BY <2>3, <3>1, <1>5 DEF At, Goes
            <4>2. c # 0 /\ Kept(c)
                BY <2>1, <2>3, ConnsAssumption DEF CalmInv, ChampionLives
            <4>3. PICK r \in Senders : At(r, "register") /\ snd[r].c = c
                BY <4>1, <4>2, <3>1, <2>3 DEF Kept
            <4>4. Home[r] = Home[s] /\ Target[r] = Target[s]
                BY <4>3, <3>1, <2>3, SenderHasEnd DEF HoldersInv, Holding, Dialing, SendStages, Joins, At
            <4>5. QED
                BY <4>3, <4>4, <1>3 DEF Locked, At
        <3>2. CASE t # s
            BY <3>2, <2>1, <2>3, <1>5 DEF CalmInv, OneChampion, At, Goes
        <3>3. QED
            BY <3>1, <3>2
    <2>4. QED
        BY <1>1, <2>1, <2>2, <2>3 DEF CalmInv, OneChampion
<1>17. ASSUME troubles' = 0 PROVE ChampionLives'
    BY <1>17, <1>1, <1>2, <1>3, <1>4, <1>5, <1>6 DEF ChampionLives, Kept, SameEnds, At,
       CalmIsCalm, CalmInv, Goes
<1>18. CalmIsCalm'
    BY <1>13, <1>14, <1>15, <1>16, <1>17 DEF CalmIsCalm, CalmInv
<1>19. QED
    BY <1>7, <1>8, <1>9, <1>10, <1>11, <1>12, <1>18

(* A dial that fails blames the peer: something went wrong. *)
LEMMA DialFailsKeeps ==
    ASSUME IrohInv, NEW s \in Senders, DialFails(s)
    PROVE  IrohInv'
<1> USE DEF IrohInv, ShapeInv
<1>1. UNCHANGED <<conn, life, slot, reader, ended, closes, preflights, inbox, leaving,
   owed>>
    BY DEF DialFails, registry, wire, seen
<1>2. SameEnds
    BY <1>1, NoneMade
<1>3. At(s, "dial") /\ Go(s, "returned", 0) /\ troubles < MaxTroubles /\ troubles' =
   troubles + 1
    BY DEF DialFails, Trouble
<1>4. snd' \in [Senders -> [at : SendStages, c : Conns \cup {0}]] /\ Goes(s, "returned", 0)
    BY <1>3, SenderMoves DEF SendStages
<1>5. unresponsive' \in [Nodes -> SUBSET Nodes]
    BY SendersAssumption DEF DialFails, IrohTypeOK
<1>6. IrohTypeOK'
    BY <1>1, <1>2, <1>3, <1>4, <1>5, LimitsAssumption DEF IrohTypeOK
<1>7. EndsInv' /\ EntriesInv' /\ WireInv' /\ AnswerInv' /\ EndInv' /\ ReadInv' /\ FramesInv'
   /\ OwedInv'
    BY <1>1, Untouched
<1>8. HoldersInv'
    BY <1>1, <1>2, <1>3, <1>4, <1>5, SendersAssumption DEF HoldersInv, SameEnds, Holding,
       Dialing, SendStages, Goes
<1>9. LockInv'
    BY <1>1, <1>2, <1>3, <1>4, <1>5 DEF LockInv, Goes
<1>10. DialInv'
    BY <1>1, <1>2, <1>3, <1>4, <1>5 DEF DialInv, Dialing, Goes
<1>11. ReplaceInv'
    BY <1>1, <1>2, <1>3, <1>4, <1>5 DEF ReplaceInv, IsSuperseded, At, Goes
<1>12. CalmIsCalm'
    BY <1>1, <1>2, <1>3, <1>4, <1>5 DEF CalmIsCalm, IrohTypeOK
<1>13. QED
    BY <1>6, <1>7, <1>8, <1>9, <1>10, <1>11, <1>12

(* The connection of a call is resolved. *)
LEMMA WaitForResolutionKeeps ==
    ASSUME IrohInv, NEW s \in Senders, WaitForResolution(s)
    PROVE  IrohInv'
<1> USE DEF IrohInv, ShapeInv
<1>1. UNCHANGED <<conn, life, slot, reader, ended, closes, preflights, inbox, leaving,
   unresponsive, owed, troubles>>
    BY DEF WaitForResolution, registry, wire, seen
<1>2. SameEnds
    BY <1>1, NoneMade
<1>3. At(s, "resolve")
    BY DEF WaitForResolution
<1>4. /\ snd[s].c \in Conns /\ snd[s].c # 0 /\ EndAt(snd[s].c, Home[s])
      /\ Peer(snd[s].c, Home[s]) = Target[s] /\ Home[s] \in Nodes /\ Target[s] \in Nodes
      /\ snd[s].c \in Made /\ Joins(snd[s].c, Home[s], Target[s])
    BY <1>3, SenderHasEnd DEF At, Holding, SendStages, HoldersInv
<1>5. \/ life[snd[s].c][Home[s]] = "Active" /\ Goes(s, "check", snd[s].c)
      \/ life[snd[s].c][Home[s]] = "Superseded" /\ Goes(s, "replace", snd[s].c)
      \/ Goes(s, "returned", 0)
    BY <1>4, SenderMoves DEF WaitForResolution, SendStages
<1>6. snd' \in [Senders -> [at : SendStages, c : Conns \cup {0}]]
    BY <1>4, SenderMoves DEF WaitForResolution, SendStages
<1>7. IrohTypeOK'
    BY <1>1, <1>2, <1>3, <1>4, <1>5, <1>6 DEF IrohTypeOK
<1>8. EndsInv' /\ EntriesInv' /\ WireInv' /\ AnswerInv' /\ EndInv' /\ ReadInv' /\ FramesInv'
   /\ OwedInv'
    BY <1>1, Untouched
<1>9. HoldersInv'
    BY <1>1, <1>2, <1>3, <1>4, <1>5, <1>6, SendersAssumption DEF HoldersInv, SameEnds,
       Holding, Dialing, SendStages, Goes
<1>10. LockInv'
    BY <1>1, <1>2, <1>3, <1>4, <1>5, <1>6 DEF LockInv, Goes
<1>11. DialInv'
    BY <1>1, <1>2, <1>3, <1>4, <1>5, <1>6 DEF DialInv, Dialing, Goes
<1>12. ReplaceInv'
    BY <1>1, <1>2, <1>3, <1>4, <1>5, <1>6 DEF ReplaceInv, IsSuperseded, At, Goes, EndInv
<1>13. ASSUME troubles' = 0 PROVE Quiet' /\ CalmEnds' /\ CalmSlots' /\ CalmAnswers' /\
   CalmFrames'
    BY <1>13, <1>1, Untouched DEF CalmIsCalm, CalmInv
<1>14. ASSUME troubles' = 0 PROVE CalmWaits'
    <2>1. \A t \in Senders : snd[t].at \in Dialing => snd'[t].at \in Dialing /\ snd'[t].c = snd[t].c
        BY <1>1, <1>2, <1>3, <1>4, <1>5, <1>6 DEF Goes, Dialing, At
    <2>2. QED
        BY <1>14, <1>1, <1>2, <2>1 DEF CalmWaits, SameEnds, CalmIsCalm, CalmInv
<1>15. ASSUME troubles' = 0 PROVE CalmDials'
    BY <1>15, <1>1, <1>2, <1>3, <1>4, <1>5, <1>6 DEF CalmDials, At, CalmIsCalm, CalmInv,
       Goes
<1>16. ASSUME troubles' = 0 PROVE OneChampion'
    BY <1>16, <1>1, <1>2, <1>3, <1>4, <1>5, <1>6 DEF OneChampion, SameEnds, At, CalmIsCalm,
       CalmInv, Goes
<1>17. ASSUME troubles' = 0 PROVE ChampionLives'
    BY <1>17, <1>1, <1>2, <1>3, <1>4, <1>5, <1>6 DEF ChampionLives, Kept, SameEnds, At,
       CalmIsCalm, CalmInv, Goes
<1>18. CalmIsCalm'
    BY <1>13, <1>14, <1>15, <1>16, <1>17 DEF CalmIsCalm, CalmInv
<1>19. QED
    BY <1>7, <1>8, <1>9, <1>10, <1>11, <1>12, <1>18

(* A call looks whether its connection holds the slot. *)
LEMMA CheckCurrentKeeps ==
    ASSUME IrohInv, NEW s \in Senders, CheckCurrent(s)
    PROVE  IrohInv'
<1> USE DEF IrohInv, ShapeInv
<1>1. UNCHANGED <<conn, life, slot, reader, ended, closes, preflights, inbox, leaving,
   unresponsive, owed, troubles>>
    BY DEF CheckCurrent, registry, wire, seen
<1>2. SameEnds
    BY <1>1, NoneMade
<1>3. At(s, "check")
    BY DEF CheckCurrent
<1>4. /\ snd[s].c \in Conns /\ snd[s].c # 0 /\ EndAt(snd[s].c, Home[s])
      /\ Peer(snd[s].c, Home[s]) = Target[s] /\ Home[s] \in Nodes /\ Target[s] \in Nodes
      /\ snd[s].c \in Made /\ Joins(snd[s].c, Home[s], Target[s])
    BY <1>3, SenderHasEnd DEF At, Holding, SendStages, HoldersInv
<1>5. \/ Goes(s, "write", snd[s].c)
      \/ slot[Home[s]][Target[s]] # snd[s].c /\ Goes(s, "replace", snd[s].c)
    BY <1>4, SenderMoves DEF CheckCurrent, SendStages
<1>6. snd' \in [Senders -> [at : SendStages, c : Conns \cup {0}]]
    BY <1>4, SenderMoves DEF CheckCurrent, SendStages
<1>7. IrohTypeOK'
    BY <1>1, <1>2, <1>3, <1>4, <1>5, <1>6 DEF IrohTypeOK
<1>8. EndsInv' /\ EntriesInv' /\ WireInv' /\ AnswerInv' /\ EndInv' /\ ReadInv' /\ FramesInv'
   /\ OwedInv'
    BY <1>1, Untouched
<1>9. HoldersInv'
    BY <1>1, <1>2, <1>3, <1>4, <1>5, <1>6, SendersAssumption DEF HoldersInv, SameEnds,
       Holding, Dialing, SendStages, Goes
<1>10. LockInv'
    BY <1>1, <1>2, <1>3, <1>4, <1>5, <1>6 DEF LockInv, Goes
<1>11. DialInv'
    BY <1>1, <1>2, <1>3, <1>4, <1>5, <1>6 DEF DialInv, Dialing, Goes
<1>12. ReplaceInv'
    BY <1>1, <1>2, <1>3, <1>4, <1>5, <1>6 DEF ReplaceInv, IsSuperseded, At, Goes
<1>13. ASSUME troubles' = 0 PROVE Quiet' /\ CalmEnds' /\ CalmSlots' /\ CalmAnswers' /\
   CalmFrames'
    BY <1>13, <1>1, Untouched DEF CalmIsCalm, CalmInv
<1>14. ASSUME troubles' = 0 PROVE CalmWaits'
    <2>1. \A t \in Senders : snd[t].at \in Dialing => snd'[t].at \in Dialing /\ snd'[t].c = snd[t].c
        BY <1>1, <1>2, <1>3, <1>4, <1>5, <1>6 DEF Goes, Dialing, At
    <2>2. QED
        BY <1>14, <1>1, <1>2, <2>1 DEF CalmWaits, SameEnds, CalmIsCalm, CalmInv
<1>15. ASSUME troubles' = 0 PROVE CalmDials'
    BY <1>15, <1>1, <1>2, <1>3, <1>4, <1>5, <1>6 DEF CalmDials, At, CalmIsCalm, CalmInv,
       Goes
<1>16. ASSUME troubles' = 0 PROVE OneChampion'
    BY <1>16, <1>1, <1>2, <1>3, <1>4, <1>5, <1>6 DEF OneChampion, SameEnds, At, CalmIsCalm,
       CalmInv, Goes
<1>17. ASSUME troubles' = 0 PROVE ChampionLives'
    BY <1>17, <1>1, <1>2, <1>3, <1>4, <1>5, <1>6 DEF ChampionLives, Kept, SameEnds, At,
       CalmIsCalm, CalmInv, Goes
<1>18. CalmIsCalm'
    BY <1>13, <1>14, <1>15, <1>16, <1>17 DEF CalmIsCalm, CalmInv
<1>19. QED
    BY <1>7, <1>8, <1>9, <1>10, <1>11, <1>12, <1>18

(* A call writes its data, or finds that its connection ended. *)
LEMMA SendDataFrameKeeps ==
    ASSUME IrohInv, NEW s \in Senders, SendDataFrame(s)
    PROVE  IrohInv'
<1> USE DEF IrohInv, ShapeInv
<1>1. UNCHANGED <<conn, life, slot, reader, ended, closes, preflights, leaving,
   unresponsive, owed, troubles>>
    BY DEF SendDataFrame, registry, wire, seen
<1>2. SameEnds
    BY <1>1, NoneMade
<1>3. At(s, "write")
    BY DEF SendDataFrame
<1>4. /\ snd[s].c \in Conns /\ snd[s].c # 0 /\ EndAt(snd[s].c, Home[s])
      /\ Peer(snd[s].c, Home[s]) = Target[s] /\ Home[s] \in Nodes /\ Target[s] \in Nodes
      /\ snd[s].c \in Made /\ Joins(snd[s].c, Home[s], Target[s])
    BY <1>3, SenderHasEnd DEF At, Holding, SendStages, HoldersInv
<1>5. \/ Goes(s, "returned", 0)
      \/ IsSuperseded(snd[s].c, Home[s]) /\ Goes(s, "replace", snd[s].c)
    BY <1>4, SenderMoves DEF SendDataFrame, SendStages
<1>6. snd' \in [Senders -> [at : SendStages, c : Conns \cup {0}]]
    BY <1>4, SenderMoves DEF SendDataFrame, SendStages
<1>7. UNCHANGED inbox \/ inbox' = inbox \cup {<<snd[s].c, Target[s], s>>}
    BY DEF SendDataFrame
<1>8. inbox' \subseteq Conns \X Nodes \X Senders
    BY <1>4, <1>7 DEF IrohTypeOK
<1>9. EndAt(snd[s].c, Target[s])
    BY <1>3, SenderHasEnd DEF At, Holding, SendStages
<1>10. IrohTypeOK'
    BY <1>1, <1>2, <1>3, <1>4, <1>5, <1>6, <1>7, <1>8, <1>9 DEF IrohTypeOK
<1>11. EndsInv' /\ EntriesInv' /\ AnswerInv' /\ EndInv' /\ ReadInv' /\ FramesInv' /\
   OwedInv'
    BY <1>1, Untouched
<1>12. HoldersInv'
    BY <1>1, <1>2, <1>3, <1>4, <1>5, <1>6, <1>7, <1>8, <1>9, SendersAssumption DEF
       HoldersInv, SameEnds, Holding, Dialing, SendStages, Goes
<1>13. WireInv'
    <2>1. \A c \in Conns, n \in Nodes, t \in Senders :
             <<c, n, t>> \in inbox' => <<c, n, t>> \in inbox \/ (c = snd[s].c /\ n = Target[s])
        BY <1>7
    <2>2. QED
        BY <1>1, <1>2, <1>9, <2>1 DEF WireInv, SameEnds
<1>14. LockInv'
    BY <1>1, <1>2, <1>3, <1>4, <1>5, <1>6, <1>7, <1>8, <1>9 DEF LockInv, Goes
<1>15. DialInv'
    BY <1>1, <1>2, <1>3, <1>4, <1>5, <1>6, <1>7, <1>8, <1>9 DEF DialInv, Dialing, Goes
<1>16. ReplaceInv'
    BY <1>1, <1>2, <1>3, <1>4, <1>5, <1>6, <1>7, <1>8, <1>9 DEF ReplaceInv, IsSuperseded,
       At, Goes
<1>17. ASSUME troubles' = 0 PROVE Quiet' /\ CalmEnds' /\ CalmSlots' /\ CalmAnswers' /\
   CalmFrames'
    BY <1>17, <1>1, Untouched DEF CalmIsCalm, CalmInv
<1>18. ASSUME troubles' = 0 PROVE CalmWaits'
    <2>1. \A t \in Senders : snd[t].at \in Dialing => snd'[t].at \in Dialing /\ snd'[t].c = snd[t].c
        BY <1>1, <1>2, <1>3, <1>4, <1>5, <1>6, <1>7, <1>8, <1>9 DEF Goes, Dialing, At
    <2>2. QED
        BY <1>18, <1>1, <1>2, <2>1 DEF CalmWaits, SameEnds, CalmIsCalm, CalmInv
<1>19. ASSUME troubles' = 0 PROVE CalmDials'
    BY <1>19, <1>1, <1>2, <1>3, <1>4, <1>5, <1>6, <1>7, <1>8, <1>9 DEF CalmDials, At,
       CalmIsCalm, CalmInv, Goes
<1>20. ASSUME troubles' = 0 PROVE OneChampion'
    BY <1>20, <1>1, <1>2, <1>3, <1>4, <1>5, <1>6, <1>7, <1>8, <1>9 DEF OneChampion,
       SameEnds, At, CalmIsCalm, CalmInv, Goes
<1>21. ASSUME troubles' = 0 PROVE ChampionLives'
    BY <1>21, <1>1, <1>2, <1>3, <1>4, <1>5, <1>6, <1>7, <1>8, <1>9 DEF ChampionLives, Kept,
       SameEnds, At, CalmIsCalm, CalmInv, Goes
<1>22. CalmIsCalm'
    BY <1>17, <1>18, <1>19, <1>20, <1>21 DEF CalmIsCalm, CalmInv
<1>23. QED
    BY <1>10, <1>11, <1>12, <1>13, <1>14, <1>15, <1>16, <1>22

(* A call goes on with the connection that won. *)
LEMMA WaitForReplacementKeeps ==
    ASSUME IrohInv, NEW s \in Senders, WaitForReplacement(s)
    PROVE  IrohInv'
<1> USE DEF IrohInv, ShapeInv
<1>1. UNCHANGED <<conn, life, slot, reader, ended, closes, preflights, inbox, leaving,
   unresponsive, owed, troubles>>
    BY DEF WaitForReplacement, registry, wire, seen
<1>2. SameEnds
    BY <1>1, NoneMade
<1>3. At(s, "replace")
    BY DEF WaitForReplacement
<1>4. /\ snd[s].c \in Conns /\ snd[s].c # 0 /\ EndAt(snd[s].c, Home[s])
      /\ Peer(snd[s].c, Home[s]) = Target[s] /\ Home[s] \in Nodes /\ Target[s] \in Nodes
      /\ snd[s].c \in Made /\ Joins(snd[s].c, Home[s], Target[s])
    BY <1>3, SenderHasEnd DEF At, Holding, SendStages, HoldersInv
<1>5. slot[Home[s]][Target[s]] \in Conns /\ slot[Home[s]][Target[s]] # 0
    BY <1>4 DEF WaitForReplacement, Replacement, IrohTypeOK
<1>6. snd' \in [Senders -> [at : SendStages, c : Conns \cup {0}]] /\ Goes(s, "resolve",
   slot[Home[s]][Target[s]])
    BY <1>5, SenderMoves DEF WaitForReplacement, SendStages
<1>7. IrohTypeOK'
    BY <1>1, <1>2, <1>3, <1>4, <1>5, <1>6 DEF IrohTypeOK
<1>8. EndsInv' /\ EntriesInv' /\ WireInv' /\ AnswerInv' /\ EndInv' /\ ReadInv' /\ FramesInv'
   /\ OwedInv'
    BY <1>1, Untouched
<1>9. HoldersInv'
    BY <1>1, <1>2, <1>3, <1>4, <1>5, <1>6, SendersAssumption DEF HoldersInv, SameEnds,
       Holding, Dialing, SendStages, Goes, EntriesInv
<1>10. LockInv'
    BY <1>1, <1>2, <1>3, <1>4, <1>5, <1>6 DEF LockInv, Goes
<1>11. DialInv'
    BY <1>1, <1>2, <1>3, <1>4, <1>5, <1>6 DEF DialInv, Dialing, Goes
<1>12. ReplaceInv'
    BY <1>1, <1>2, <1>3, <1>4, <1>5, <1>6 DEF ReplaceInv, IsSuperseded, At, Goes
<1>13. ASSUME troubles' = 0 PROVE Quiet' /\ CalmEnds' /\ CalmSlots' /\ CalmAnswers' /\
   CalmFrames'
    BY <1>13, <1>1, Untouched DEF CalmIsCalm, CalmInv
<1>14. ASSUME troubles' = 0 PROVE CalmWaits'
    <2>1. \A t \in Senders : snd[t].at \in Dialing => snd'[t].at \in Dialing /\ snd'[t].c = snd[t].c
        BY <1>1, <1>2, <1>3, <1>4, <1>5, <1>6 DEF Goes, Dialing, At
    <2>2. QED
        BY <1>14, <1>1, <1>2, <2>1 DEF CalmWaits, SameEnds, CalmIsCalm, CalmInv
<1>15. ASSUME troubles' = 0 PROVE CalmDials'
    BY <1>15, <1>1, <1>2, <1>3, <1>4, <1>5, <1>6 DEF CalmDials, At, CalmIsCalm, CalmInv,
       Goes
<1>16. ASSUME troubles' = 0 PROVE OneChampion'
    BY <1>16, <1>1, <1>2, <1>3, <1>4, <1>5, <1>6 DEF OneChampion, SameEnds, At, CalmIsCalm,
       CalmInv, Goes
<1>17. ASSUME troubles' = 0 PROVE ChampionLives'
    BY <1>17, <1>1, <1>2, <1>3, <1>4, <1>5, <1>6 DEF ChampionLives, Kept, SameEnds, At,
       CalmIsCalm, CalmInv, Goes
<1>18. CalmIsCalm'
    BY <1>13, <1>14, <1>15, <1>16, <1>17 DEF CalmIsCalm, CalmInv
<1>19. QED
    BY <1>7, <1>8, <1>9, <1>10, <1>11, <1>12, <1>18

(* A call gives up waiting; the entry it drops is of a connection that lost. *)
LEMMA ReplacementTimeoutKeeps ==
    ASSUME IrohInv, NEW s \in Senders, ReplacementTimeout(s)
    PROVE  IrohInv'
<1> USE DEF IrohInv, ShapeInv
<1>1. UNCHANGED <<conn, life, reader, ended, closes, preflights, inbox, leaving,
   unresponsive, owed>>
    BY DEF ReplacementTimeout, registry, wire, seen
<1>2. SameEnds
    BY <1>1, NoneMade
<1>3. At(s, "replace")
    BY DEF ReplacementTimeout
<1>4. /\ snd[s].c \in Conns /\ snd[s].c # 0 /\ EndAt(snd[s].c, Home[s])
      /\ Peer(snd[s].c, Home[s]) = Target[s] /\ Home[s] \in Nodes /\ Target[s] \in Nodes
      /\ snd[s].c \in Made /\ Joins(snd[s].c, Home[s], Target[s])
    BY <1>3, SenderHasEnd DEF At, Holding, SendStages, HoldersInv
<1>5. snd' \in [Senders -> [at : SendStages, c : Conns \cup {0}]] /\ Goes(s, "returned", 0)
    BY SenderMoves DEF ReplacementTimeout, SendStages
<1>6. slot' \in [Nodes -> [Nodes -> Conns \cup {0}]] /\ Drops(snd[s].c, Home[s])
    BY <1>4, EntryDrops DEF ReplacementTimeout
<1>7. \/ Idle /\ UNCHANGED troubles
      \/ troubles < MaxTroubles /\ troubles' = troubles + 1
    BY DEF ReplacementTimeout, Due, Trouble
<1>8. troubles' = 0 => Idle /\ troubles = 0
    BY <1>7 DEF IrohTypeOK
<1>9. \A e \in Conns, n \in Nodes :
         EndAt(e, n) /\ slot[n][Peer(e, n)] = e /\ slot'[n][Peer(e, n)] # e =>
           IsSuperseded(e, n) \/ reader[e][n] \notin Early \cup {"read"}
    <2>1. ASSUME NEW e \in Conns, NEW n \in Nodes, EndAt(e, n),
                 slot[n][Peer(e, n)] = e, slot'[n][Peer(e, n)] # e
          PROVE  e = snd[s].c /\ n = Home[s]
        BY <2>1, <1>6, PeerIsNode DEF Drops
    <2>2. QED
        BY <1>3, <1>4, <2>1 DEF ReplaceInv
<1>10. \A k, l \in Nodes : slot'[k][l] \in {0, slot[k][l]}
    BY <1>6 DEF Drops
<1>11. \A t \in Senders : snd[t].at \in Holding => snd[t].c \in Conns /\ snd[t].c # 0
    BY SenderHasEnd
<1>12. IrohTypeOK'
    BY <1>1, <1>2, <1>3, <1>4, <1>5, <1>6, <1>7, <1>8, <1>9, <1>10, <1>11, LimitsAssumption
       DEF IrohTypeOK
<1>13. EndsInv' /\ WireInv' /\ AnswerInv' /\ EndInv' /\ FramesInv'
    BY <1>1, Untouched
<1>14. EntriesInv'
    BY <1>1, <1>2, <1>3, <1>4, <1>5, <1>6, <1>7, <1>8, <1>9, <1>10, <1>11 DEF EntriesInv,
       SameEnds, IrohTypeOK, Goes
<1>15. HoldersInv'
    BY <1>1, <1>2, <1>3, <1>4, <1>5, <1>6, <1>7, <1>8, <1>9, <1>10, <1>11, SendersAssumption
       DEF HoldersInv, SameEnds, Holding, Dialing, SendStages, Goes
<1>16. LockInv'
    BY <1>1, <1>2, <1>3, <1>4, <1>5, <1>6, <1>7, <1>8, <1>9, <1>10, <1>11 DEF LockInv, Goes
<1>17. DialInv'
    BY <1>1, <1>2, <1>3, <1>4, <1>5, <1>6, <1>7, <1>8, <1>9, <1>10, <1>11 DEF DialInv,
       Dialing, Goes
<1>18. ReadInv'
    BY <1>1, <1>2, <1>9, PeerIsNode, ReaderHasEnd DEF ReadInv, SameEnds, EndInv,
       IsSuperseded, Early
<1>19. ReplaceInv'
    BY <1>1, <1>3, <1>5, <1>10, <1>11, SendersAssumption DEF ReplaceInv, IsSuperseded, At,
       Goes, Holding, SendStages
<1>20. OwedInv'
    BY <1>1, <1>2, <1>9, PeerIsNode, ReaderHasEnd DEF OwedInv, IsSuperseded, SameEnds
<1>21. ASSUME troubles' = 0 PROVE Quiet' /\ CalmEnds' /\ CalmFrames'
    BY <1>21, <1>1, <1>2, <1>3, <1>4, <1>5, <1>6, <1>7, <1>8, <1>9, <1>10, <1>11, Untouched
       DEF CalmIsCalm, CalmInv
<1>22. ASSUME troubles' = 0 PROVE CalmSlots'
    <2>1. \A c \in Conns, n \in Nodes :
             EndAt(c, n) /\ slot'[n][Peer(c, n)] = c => slot[n][Peer(c, n)] = c
        BY <1>10, PeerIsNode, ConnsAssumption
    <2>2. \A c \in Conns, n \in Nodes :
             (EndAt(c, n) /\ slot[n][Peer(c, n)] = c)' => EndAt(c, n) /\ slot[n][Peer(c, n)] = c
        BY <1>2, <2>1 DEF SameEnds
    <2>3. QED
        BY <1>22, <1>1, <1>2, <1>8, <2>2 DEF CalmSlots, SameEnds, CalmIsCalm, CalmInv
<1>23. ASSUME troubles' = 0 PROVE CalmAnswers'
    BY <1>23, <1>1, <1>2, <1>8, <1>9, PeerIsNode DEF CalmAnswers, IsSuperseded, SameEnds,
       CalmIsCalm, CalmInv, Early
<1>24. ASSUME troubles' = 0 PROVE CalmWaits'
    <2>1. \A t \in Senders : snd[t].at \in Dialing => snd'[t].at \in Dialing /\ snd'[t].c = snd[t].c
        BY <1>1, <1>2, <1>3, <1>4, <1>5, <1>6, <1>7, <1>8, <1>9, <1>10, <1>11 DEF Goes, Dialing, At
    <2>2. QED
        BY <1>24, <1>1, <1>2, <1>8, <2>1 DEF CalmWaits, SameEnds, CalmIsCalm, CalmInv
<1>25. ASSUME troubles' = 0 PROVE CalmDials'
    BY <1>25, <1>1, <1>3, <1>5, <1>8, <1>10, <1>11, SendersAssumption DEF CalmDials, At,
       CalmIsCalm, CalmInv, Goes, Holding, SendStages
<1>26. ASSUME troubles' = 0 PROVE OneChampion'
    BY <1>26, <1>1, <1>2, <1>3, <1>4, <1>5, <1>6, <1>7, <1>8, <1>9, <1>10, <1>11 DEF
       OneChampion, SameEnds, At, CalmIsCalm, CalmInv, Goes
<1>27. ASSUME troubles' = 0 PROVE ChampionLives'
    <2>1. CalmInv
        BY <1>27, <1>8 DEF CalmIsCalm
    <2>2. ASSUME NEW c \in Conns, Champion(c) PROVE Kept(c)'
        <3>1. c \in Made /\ Kept(c)
            BY <2>1, <2>2 DEF CalmInv, ChampionLives, Champion
        <3>2. \A n \in {conn[c].from, conn[c].to} :
                 EndAt(c, n) /\ ~(slot[n][Peer(c, n)] = c /\ slot'[n][Peer(c, n)] # c)
            BY <3>1, <1>9, MadeEnds DEF Kept, IsSuperseded, Early, Live
        <3>3. slot[conn[c].from][conn[c].to] = c => slot'[conn[c].from][conn[c].to] = c
            BY <3>1, <3>2, MadeEnds
        <3>4. slot[conn[c].to][conn[c].from] = c => slot'[conn[c].to][conn[c].from] = c
            BY <3>1, <3>2, MadeEnds
        <3>5. \A t \in Senders : At(t, "register") => At(t, "register")' /\ snd'[t].c = snd[t].c
            BY <1>3, <1>5 DEF At, Goes
        <3>6. QED
            BY <1>1, <1>2, <3>1, <3>3, <3>4, <3>5 DEF Kept, SameEnds
    <2>3. QED
        BY <1>2, <2>2 DEF ChampionLives, SameEnds
<1>28. CalmIsCalm'
    BY <1>21, <1>22, <1>23, <1>24, <1>25, <1>26, <1>27 DEF CalmIsCalm, CalmInv
<1>29. QED
    BY <1>12, <1>13, <1>14, <1>15, <1>16, <1>17, <1>18, <1>19, <1>20, <1>28

(* A dial takes the slot, displacing its holder, or is closed at once. *)
LEMMA RegisterDialKeeps ==
    ASSUME IrohInv, NEW s \in Senders, NEW c \in Conns, c = snd[s].c,
           NEW n \in Nodes, n = Home[s], NEW m \in Nodes, m = Target[s], RegisterDial(s)
    PROVE  IrohInv'
<1> USE DEF IrohInv, ShapeInv
<1>1. UNCHANGED <<conn, reader, preflights, inbox, leaving, unresponsive, owed, troubles>>
    BY DEF RegisterDial, registry, wire, seen
<1>2. SameEnds
    BY <1>1, NoneMade
<1>3. At(s, "register")
    BY DEF RegisterDial
<1>4. /\ c # 0 /\ n # m /\ EndAt(c, n) /\ Peer(c, n) = m /\ EndAt(c, m) /\ Peer(c, m) = n
      /\ c \in Made /\ conn[c].from = n /\ conn[c].to = m /\ Joins(c, n, m)
    BY <1>3, SenderHasEnd, MadeEnds DEF At, Holding, Dialing, SendStages, HoldersInv, Peer,
       EndAt, Joins
<1>5. \/ Wins(c, n) /\ Register(c, n) /\ Go(s, "preflight", c)
      \/ /\ ~Wins(c, n) /\ life' = Mark(life, c, n, "Superseded") /\ CloseConn(c, n, "Superseded")
         /\ UNCHANGED slot /\ Go(s, "resolve", c)
    BY DEF RegisterDial
<1>6. life' \in [Conns -> [Nodes -> {"none"} \cup Live \cup Terminal]] /\ slot' \in [Nodes
   -> [Nodes -> Conns \cup {0}]]
    BY <1>4, <1>5, SlotIsSettled, MarkEnds DEF IrohTypeOK, Terminal
<1>7. ended' \in [Conns -> [Nodes -> {"open", "local", "lost"} \cup Codes]] /\ closes'
   \subseteq Conns \X Nodes \X Codes
    BY <1>4, <1>5, SlotIsSettled, EndShuts DEF Codes
<1>8. snd' \in [Senders -> [at : SendStages, c : Conns \cup {0}]]
    BY <1>5, SenderMoves DEF SendStages
<1>9. /\ Settles(c, n)
      /\ ~Wins(c, n) => ended'[c][n] # "open"
      /\ \/ Wins(c, n) /\ Goes(s, "preflight", c)
         \/ ~Wins(c, n) /\ Goes(s, "resolve", c)
    <2>1. CASE Wins(c, n)
        BY <1>4, <1>5, <2>1, RegisterSettles, SenderMoves DEF SendStages
    <2>2. CASE ~Wins(c, n)
        BY <1>4, <1>5, <2>2, EndShuts, MarkEnds, LoserSettles, SenderMoves DEF SendStages, Terminal, Codes
    <2>3. QED
        BY <2>1, <2>2
<1>10. \A d \in Conns, e \in Nodes : IsSuperseded(d, e) => IsSuperseded(d, e)'
    BY <1>9 DEF IsSuperseded, Settles, LivesEnd, EndsShut, Live
<1>11. \A t \in Senders : t # s =>
         /\ snd'[t] = snd[t]
         /\ snd[t].at \in Dialing => snd[t].c # c
    <2>1. \A t \in Senders : t # s => snd'[t] = snd[t]
        BY <1>5 DEF IrohTypeOK, Go
    <2>2. \A t \in Senders : t # s => (snd[t].at \in Dialing => snd[t].c # c)
        BY <1>3 DEF DialInv, Dialing, At
    <2>3. QED
        BY <2>1, <2>2
<1>12. IrohTypeOK'
    BY <1>1, <1>2, <1>3, <1>4, <1>5, <1>6, <1>7, <1>8, <1>9, <1>10, <1>11 DEF IrohTypeOK
<1>13. AnswerInv'
    BY <1>1, Untouched
<1>14. EndsInv'
    BY <1>1, <1>2, <1>9 DEF EndsInv, SameEnds, Settles, LivesEnd, EndsShut, Live
<1>15. EntriesInv'
    <2>1. \A k, l \in Nodes :
             \/ slot'[k][l] = slot[k][l]
             \/ k = n /\ l = m /\ slot'[k][l] = c
        BY <1>4, <1>9 DEF Settles, SlotSettles
    <2>2. QED
        BY <1>2, <1>4, <2>1 DEF EntriesInv, SameEnds, IrohTypeOK
<1>16. HoldersInv'
    BY <1>2, <1>3, <1>4, <1>8, <1>9, <1>11, SendersAssumption DEF HoldersInv, SameEnds,
       Holding, Dialing, SendStages, Goes, At
<1>17. WireInv'
    BY <1>1, <1>2, <1>9 DEF WireInv, SameEnds, Settles, EndsShut
<1>18. LockInv'
    BY <1>3, <1>9 DEF LockInv, Goes, At
<1>19. DialInv'
    BY <1>1, <1>3, <1>9 DEF DialInv, Dialing, Goes, At
<1>20. EndInv'
    <2>1. /\ \A d \in Conns, e \in Nodes : life'[d][e] # life[d][e] => ended'[d][e] # "open"
          /\ \A d \in Conns, e \in Nodes : ended[d][e] # "open" => ended'[d][e] # "open"
        BY <1>4, <1>9 DEF Settles, SlotSettles, EndsShut
    <2>2. QED
        BY <1>1, <1>9, <2>1 DEF EndInv, Settles, LivesEnd, Live
<1>21. ReadInv'
    BY <1>1, <1>2, <1>4, <1>9, PeerIsNode, ReaderHasEnd DEF ReadInv, SameEnds, Settles,
       SlotSettles, EndsShut
<1>22. ReplaceInv'
    <2>1. reader[c][n] # "read" /\ c # 0
        BY <1>3, <1>4 DEF DialInv, Dialing, At
    <2>2. \A t \in Senders : snd'[t].at \in {"check", "replace"} =>
             snd'[t] = snd[t] /\ Home[t] \in Nodes /\ Target[t] \in Nodes /\ snd[t].c \in Conns
        <3>1. snd'[s].at \notin {"check", "replace"}
            BY <1>9 DEF Goes
        <3>2. QED
            BY <1>11, <3>1, SenderHasEnd DEF Holding, SendStages
    <2>3. \A t \in Senders : snd'[t].at \in {"check", "replace"} /\ reader[snd[t].c][Home[t]] = "read" =>
             \/ slot'[Home[t]][Target[t]] = slot[Home[t]][Target[t]]
             \/ slot'[Home[t]][Target[t]] # snd[t].c
        BY <1>9, <2>1, <2>2 DEF Settles, SlotSettles
    <2>4. QED
        BY <1>1, <1>10, <2>2, <2>3 DEF ReplaceInv, At
<1>23. FramesInv'
    <2>1. ASSUME NEW d \in Conns, NEW e \in Nodes, NEW k \in Codes, <<d, e, k>> \in closes'
          PROVE  ended'[d][Peer(d, e)] # "open"
        <3>1. EndAt(d, e)
            BY <2>1, <1>9 DEF WireInv, Settles, EndsShut
        <3>2. Peer(d, e) \in Nodes
            BY <3>1, PeerIsNode
        <3>3. QED
            BY <2>1, <3>2, <1>9 DEF FramesInv, Settles, EndsShut
    <2>2. QED
        BY <1>2, <2>1 DEF FramesInv, SameEnds
<1>24. OwedInv'
    BY <1>1, <1>2, <1>4, <1>9, <1>10, PeerIsNode DEF OwedInv, IsSuperseded, SameEnds,
       WireInv, Settles, SlotSettles, LivesEnd, Live
<1>25. ASSUME troubles' = 0 PROVE Quiet'
    BY <1>25, <1>1, <1>9 DEF Quiet, CalmIsCalm, CalmInv, Settles, EndsShut
<1>26. ASSUME troubles' = 0 PROVE CalmEnds'
    <2>1. CalmInv
        BY <1>26, <1>1 DEF CalmIsCalm
    <2>2. life[c][n] \in Live
        BY <2>1, <1>3, <1>4 DEF CalmInv, CalmDials, Live
    <2>3. ASSUME NEW d \in Conns, NEW e \in Nodes, ended'[d][e] # ended[d][e]
          PROVE  life'[d][e] = "Superseded"
        <3>1. life'[d][e] \notin Live
            BY <1>4, <1>9, <2>3 DEF Settles, SlotSettles
        <3>2. life[d][e] \in Live
            <4>1. CASE d = c /\ e = n
                BY <2>2, <4>1
            <4>2. CASE d # c /\ d = slot[n][m] /\ e = n
                BY <2>1, <4>2, SlotHasEnd, ConnsAssumption DEF CalmInv, CalmSlots
            <4>3. QED
                BY <1>4, <1>9, <2>3, <4>1, <4>2 DEF Settles, SlotSettles
        <3>3. QED
            BY <1>9, <3>1, <3>2 DEF Settles, LivesEnd
    <2>4. \A d \in Conns, e \in Nodes : life'[d][e] = "Closed" => life[d][e] = "Closed"
        BY <1>9 DEF Settles, LivesEnd
    <2>5. CalmEnds
        BY <2>1 DEF CalmInv
    <2>6. \A d \in Conns, e \in Nodes : ended[d][e] # "open" => ended'[d][e] # "open"
        BY <1>9 DEF Settles, EndsShut
    <2>7. \A d \in Conns, e \in Nodes : ended'[d][e] # "open" => IsSuperseded(d, e)'
        BY <1>10, <2>3, <2>5 DEF CalmEnds, IsSuperseded
    <2>8. QED
        BY <1>1, <1>10, <2>4, <2>5, <2>6, <2>7 DEF CalmEnds
<1>27. ASSUME troubles' = 0 PROVE CalmSlots'
    <2>1. reader[c][n] = "accept" /\ life[c][n] \in Live /\ slot[n][m] # c
        BY <1>27, <1>1, <1>3, <1>4 DEF CalmIsCalm, CalmInv, CalmDials, Live
    <2>2. ASSUME NEW d \in Conns, NEW e \in Nodes, EndAt(d, e), slot'[e][Peer(d, e)] = d
          PROVE  \/ d = c /\ e = n /\ life'[d][e] = life[d][e]
                 \/ slot[e][Peer(d, e)] = d /\ life'[d][e] = life[d][e]
        <3>1. Peer(d, e) \in Nodes
            BY <2>2, PeerIsNode
        <3>2. CASE slot[e][Peer(d, e)] = d
            <4>1. d # c \/ e # n
                BY <2>1, <1>4, <3>2
            <4>2. CASE e # n
                BY <1>9, <3>2, <4>2 DEF Settles, SlotSettles
            <4>3. CASE e = n
                <5>1. CASE Peer(d, e) = m /\ Wins(c, n)
                    BY <1>4, <1>9, <2>2, <4>1, <4>3, <5>1 DEF Settles, SlotSettles
                <5>2. CASE Peer(d, e) # m \/ ~Wins(c, n)
                    <6>1. d # slot[n][m] \/ ~Wins(c, n)
                        BY <1>4, <2>2, <4>3, <5>2, SlotHasEnd, ConnsAssumption
                    <6>2. QED
                        BY <1>4, <1>9, <3>2, <4>1, <4>3, <6>1 DEF Settles, SlotSettles
                <5>3. QED
                    BY <5>1, <5>2
            <4>4. QED
                BY <4>2, <4>3
        <3>3. CASE slot[e][Peer(d, e)] # d
            <4>1. d = c /\ e = n /\ Wins(c, n)
                BY <1>4, <1>9, <2>2, <3>1, <3>3 DEF Settles, SlotSettles
            <4>2. QED
                BY <1>9, <4>1 DEF Settles, SlotSettles
        <3>4. QED
            BY <3>2, <3>3
    <2>3. QED
        BY <1>27, <1>1, <1>2, <1>4, <2>1, <2>2 DEF CalmIsCalm, CalmInv, CalmSlots, SameEnds
<1>28. ASSUME troubles' = 0 PROVE CalmAnswers'
    <2>1. \A d \in Conns, e \in Nodes :
             EndAt(d, e) /\ slot[e][Peer(d, e)] = d /\ slot'[e][Peer(d, e)] # d => IsSuperseded(d, e)'
        BY <1>28, <1>1, <1>4, <1>9, PeerIsNode DEF CalmIsCalm, CalmInv, CalmSlots, Settles, SlotSettles, LivesEnd, IsSuperseded
    <2>2. QED
        BY <1>28, <1>1, <1>2, <1>10, <2>1 DEF CalmIsCalm, CalmInv, CalmAnswers, SameEnds
<1>29. ASSUME troubles' = 0 PROVE CalmFrames'
    <2>1. CalmFrames
        BY <1>29, <1>1 DEF CalmIsCalm, CalmInv
    <2>2. ASSUME NEW d \in Conns, NEW e \in Nodes, EndAt(d, e), ended'[d][e] # "open",
                 ended'[d][Peer(d, e)] = "open"
          PROVE  <<d, Peer(d, e), "Superseded">> \in closes'
        <3>1. Peer(d, e) \in Nodes /\ "Superseded" \in Codes
            BY <2>2, PeerIsNode DEF Codes
        <3>2. CASE ended[d][e] = "open"
            BY <1>9, <2>2, <3>2 DEF Settles, EndsShut
        <3>3. CASE ended[d][e] # "open"
            <4>1. ended[d][Peer(d, e)] = "open"
                BY <1>9, <2>2, <3>1 DEF Settles, EndsShut
            <4>2. QED
                BY <1>9, <2>1, <2>2, <3>1, <3>3, <4>1 DEF Settles, EndsShut, CalmFrames
        <3>4. QED
            BY <3>2, <3>3
    <2>3. QED
        BY <1>2, <2>2 DEF CalmFrames, SameEnds
<1>30. ASSUME troubles' = 0 PROVE CalmWaits'
    <2>1. ended[c][n] = "open" /\ "Superseded" \in Codes
        BY <1>30, <1>1, <1>3, <1>4 DEF CalmIsCalm, CalmInv, CalmDials, Codes
    <2>2. \/ <<c, m, "Superseded">> \in closes' \/ ended'[c][m] # "open"
          \/ snd'[s].at \in Dialing /\ snd'[s].c = c
        BY <1>3, <1>4, <1>9, <2>1 DEF Settles, SlotSettles, EndsShut, Goes, Dialing
    <2>3. \A t \in Senders : snd[t].at \in Dialing /\ t # s => snd'[t].at \in Dialing /\ snd'[t].c = snd[t].c
        BY <1>11
    <2>4. ASSUME NEW d \in Conns, NEW e \in Nodes, EndAt(d, e), e = conn[d].to,
                 reader[d][e] = "accept", ended'[d][e] = "open"
          PROVE  \/ <<d, e>> \in preflights
                 \/ <<d, e, "Superseded">> \in closes'
                 \/ \E t \in Senders : snd'[t].at \in Dialing /\ snd'[t].c = d
        <3>1. ended[d][e] = "open"
            BY <1>9, <2>4 DEF Settles, EndsShut
        <3>2. CASE <<d, e>> \in preflights
            BY <3>2
        <3>3. CASE <<d, e, "Superseded">> \in closes
            BY <1>9, <2>1, <2>4, <3>3 DEF Settles, EndsShut
        <3>4. ASSUME NEW t \in Senders, snd[t].at \in Dialing, snd[t].c = d
              PROVE  \/ <<d, e, "Superseded">> \in closes'
                     \/ \E r \in Senders : snd'[r].at \in Dialing /\ snd'[r].c = d
            <4>1. CASE t # s
                BY <2>3, <3>4, <4>1
            <4>2. CASE t = s
                BY <1>4, <2>2, <2>4, <3>4, <4>2
            <4>3. QED
                BY <4>1, <4>2
        <3>5. QED
            BY <1>30, <1>1, <2>4, <3>1, <3>2, <3>3, <3>4 DEF CalmIsCalm, CalmInv, CalmWaits
    <2>5. QED
        BY <1>1, <1>2, <2>4 DEF CalmWaits, SameEnds
<1>31. ASSUME troubles' = 0 PROVE CalmDials'
    <2>1. CalmInv
        BY <1>31, <1>1 DEF CalmIsCalm
    <2>2. ASSUME NEW t \in Senders, snd'[t].at = "register"
          PROVE  LET d == snd'[t].c IN
                 /\ slot'[Home[t]][Target[t]] # d
                 /\ \A e \in {Home[t], Target[t]} :
                      reader[d][e] = "accept" /\ ended'[d][e] = "open" /\ life'[d][e] = "Pending"
        <3>1. t # s /\ snd[t].at = "register" /\ snd'[t] = snd[t] /\ snd[t].c # c
            BY <1>9, <1>11, <2>2 DEF Goes, Dialing
        <3>2. /\ snd[t].c \in Conns /\ Home[t] \in Nodes /\ Target[t] \in Nodes
              /\ EndAt(snd[t].c, Home[t]) /\ EndAt(snd[t].c, Target[t])
              /\ Peer(snd[t].c, Home[t]) = Target[t] /\ Peer(snd[t].c, Target[t]) = Home[t]
            BY <3>1, SenderHasEnd DEF Holding, SendStages
        <3>3. /\ slot[Home[t]][Target[t]] # snd[t].c
              /\ \A e \in {Home[t], Target[t]} :
                   /\ reader[snd[t].c][e] = "accept" /\ ended[snd[t].c][e] = "open"
                   /\ life[snd[t].c][e] = "Pending"
            BY <2>1, <3>1 DEF CalmInv, CalmDials, At
        <3>4. conn[snd[t].c].to = Target[t]
            BY <3>1, <3>2 DEF HoldersInv, Dialing, Peer
        <3>5. slot[Target[t]][Home[t]] # snd[t].c
            BY <2>1, <3>2, <3>3, <3>4 DEF CalmInv, CalmSlots
        <3>6. \A e \in {Home[t], Target[t]} :
                 life'[snd[t].c][e] = life[snd[t].c][e] /\ ended'[snd[t].c][e] = ended[snd[t].c][e]
            <4>1. slot[n][m] # snd[t].c
                <5>1. SUFFICES ASSUME slot[n][m] = snd[t].c PROVE FALSE
                    OBVIOUS
                <5>2. EndAt(snd[t].c, n) /\ Peer(snd[t].c, n) = m
                    BY <5>1, <3>2, ConnsAssumption, SlotHasEnd
                <5>3. n = Home[t] \/ n = Target[t]
                    BY <3>2, <5>2 DEF EndAt, Peer
                <5>4. QED
                    BY <3>2, <3>3, <3>5, <5>1, <5>2, <5>3
            <4>2. QED
                BY <1>4, <1>9, <3>1, <3>2, <4>1 DEF Settles, SlotSettles
        <3>7. slot'[Home[t]][Target[t]] # snd[t].c
            BY <1>9, <3>1, <3>2, <3>3 DEF Settles, SlotSettles
        <3>8. QED
            BY <3>1, <3>3, <3>6, <3>7
    <2>3. QED
        BY <1>1, <2>2 DEF CalmDials, At
<1>32. ASSUME troubles' = 0 PROVE OneChampion'
    BY <1>32, <1>1, <1>2, <1>9 DEF OneChampion, SameEnds, At, CalmIsCalm, CalmInv, Goes
<1>33. ASSUME troubles' = 0 PROVE ChampionLives'
    <2>1. CalmInv
        BY <1>33, <1>1 DEF CalmIsCalm
    <2>2. ASSUME NEW d \in Conns, Champion(d) PROVE Kept(d)'
        <3>1. Kept(d) /\ d \in Made
            BY <2>1, <2>2 DEF CalmInv, ChampionLives, Champion
        <3>2. d = c => Wins(c, n)
            BY <1>4, <2>2, <3>1, ChampionWins DEF Kept
        <3>3. d # c /\ slot[n][m] = d => ~Wins(c, n)
            BY <1>4, <2>1, <2>2, <3>1, ChampionStays, MadeEnds, PeerIsNode DEF CalmInv, Kept, EntriesInv, ShapeInv, Joins
        <3>4. \A e \in Nodes : life'[d][e] = life[d][e] /\ ended'[d][e] = ended[d][e]
            BY <1>4, <1>9, <3>2, <3>3 DEF Settles, SlotSettles
        <3>5. \A k, l \in Nodes : slot[k][l] = d => slot'[k][l] = d
            BY <1>4, <1>9, <3>2, <3>3 DEF Settles, SlotSettles
        <3>6. d = c => slot'[conn[d].from][conn[d].to] = d
            BY <1>4, <1>9, <3>2 DEF Settles, SlotSettles
        <3>7. \A t \in Senders : At(t, "register") /\ snd[t].c = d /\ d # c => At(t, "register")' /\ snd'[t].c = d
            BY <1>11 DEF At, Dialing
        <3>8. conn[d].from \in Nodes /\ conn[d].to \in Nodes
            BY <3>1, MadeEnds
        <3>9. slot'[conn[d].from][conn[d].to] = d \/ \E t \in Senders : At(t, "register")' /\ snd'[t].c = d
            BY <3>1, <3>5, <3>6, <3>7, <3>8 DEF Kept
        <3>10. QED
            BY <1>1, <1>2, <3>1, <3>4, <3>5, <3>8, <3>9 DEF Kept, SameEnds
    <2>3. QED
        BY <1>2, <2>2 DEF ChampionLives, SameEnds
<1>34. CalmIsCalm'
    BY <1>25, <1>26, <1>27, <1>28, <1>29, <1>30, <1>31, <1>32, <1>33 DEF CalmIsCalm, CalmInv
<1>35. QED
    BY <1>12, <1>13, <1>14, <1>15, <1>16, <1>17, <1>18, <1>19, <1>20, <1>21, <1>22, <1>23,
       <1>24, <1>34

(* A reader claims the slot, displacing its holder, or is told it lost. *)
LEMMA RegisterReaderKeeps ==
    ASSUME IrohInv, NEW c \in Conns, NEW n \in Nodes, RegisterReader(c, n)
    PROVE  IrohInv'
<1> USE DEF IrohInv, ShapeInv
<1>1. UNCHANGED <<conn, preflights, inbox, snd, leaving, unresponsive, owed, troubles>>
    BY DEF RegisterReader, registry, wire, seen
<1>2. SameEnds
    BY <1>1, NoneMade
<1>3. reader[c][n] = "register" /\ Register(c, n)
    BY DEF RegisterReader
<1>4. /\ EndAt(c, n) /\ Peer(c, n) \in Nodes /\ Peer(c, n) # n
      /\ EndAt(c, Peer(c, n)) /\ Peer(c, Peer(c, n)) = n /\ c \in Made /\ c # 0
    BY <1>3, ReaderHasEnd, PeerIsNode, ConnsAssumption DEF EndAt
<1>5. \/ Wins(c, n) /\ conn[c].from = n /\ ReaderGoes(c, n, "activate")
      \/ Wins(c, n) /\ conn[c].from # n /\ ReaderGoes(c, n, "reply")
      \/ ~Wins(c, n) /\ ReaderGoes(c, n, "inactive")
    BY DEF RegisterReader
<1>6. life' \in [Conns -> [Nodes -> {"none"} \cup Live \cup Terminal]] /\ slot' \in [Nodes
   -> [Nodes -> Conns \cup {0}]]
    BY <1>3, <1>4, SlotIsSettled
<1>7. ended' \in [Conns -> [Nodes -> {"open", "local", "lost"} \cup Codes]] /\ closes'
   \subseteq Conns \X Nodes \X Codes
    BY <1>3, <1>4, SlotIsSettled
<1>8. reader' \in [Conns -> [Nodes -> ReaderStages]]
      /\ \/ Wins(c, n) /\ conn[c].from = n /\ Moves(c, n, "activate")
         \/ Wins(c, n) /\ conn[c].from # n /\ Moves(c, n, "reply")
         \/ ~Wins(c, n) /\ Moves(c, n, "inactive")
    BY <1>5, ReaderMoves DEF ReaderStages
<1>9. Settles(c, n)
    BY <1>3, <1>4, RegisterSettles
<1>10. \A d \in Conns, e \in Nodes : IsSuperseded(d, e) => IsSuperseded(d, e)'
    BY <1>9 DEF IsSuperseded, Settles, LivesEnd, EndsShut, Live
<1>11. \A t \in Senders : snd[t].at \in Dialing =>
         snd[t].c # c /\ snd[t].c \in Conns /\ Home[t] \in Nodes /\ Target[t] \in Nodes
    BY <1>3, <1>4, DialIsUnheard
<1>12. ended'[c][n] = ended[c][n]
    BY <1>3, <1>9 DEF Register, Settles, SlotSettles
<1>13. IrohTypeOK'
    BY <1>1, <1>2, <1>3, <1>4, <1>5, <1>6, <1>7, <1>8, <1>9, <1>10, <1>11, <1>12 DEF
       IrohTypeOK
<1>14. HoldersInv' /\ LockInv'
    BY <1>1, Untouched
<1>15. EndsInv'
    BY <1>1, <1>2, <1>4, <1>8, <1>9 DEF EndsInv, SameEnds, Moves, Settles, LivesEnd,
       EndsShut, Live
<1>16. EntriesInv'
    <2>1. \A k, l \in Nodes :
             \/ slot'[k][l] = slot[k][l]
             \/ k = n /\ l = Peer(c, n) /\ slot'[k][l] = c
        BY <1>9 DEF Settles, SlotSettles
    <2>2. Joins(c, n, Peer(c, n))
        BY <1>4, PeerIsNode
    <2>3. QED
        BY <1>2, <1>4, <2>1, <2>2 DEF EntriesInv, SameEnds, IrohTypeOK
<1>17. WireInv'
    BY <1>1, <1>2, <1>9 DEF WireInv, SameEnds, Settles, EndsShut
<1>18. DialInv'
    <2>1. \A t \in Senders : snd[t].at \in Dialing =>
             /\ reader'[snd[t].c][Home[t]] = reader[snd[t].c][Home[t]]
             /\ reader'[snd[t].c][Target[t]] = reader[snd[t].c][Target[t]]
        BY <1>8, <1>11 DEF Moves
    <2>2. QED
        BY <1>1, <2>1 DEF DialInv
<1>19. AnswerInv'
    BY <1>1, <1>2, <1>3, <1>4, <1>8, MadeEnds DEF AnswerInv, SameEnds, Moves, EndAt
<1>20. EndInv'
    <2>1. /\ \A d \in Conns, e \in Nodes : life'[d][e] # life[d][e] =>
                  ended'[d][e] # "open" \/ (d = c /\ e = n /\ ~Wins(c, n))
          /\ \A d \in Conns, e \in Nodes : ended[d][e] # "open" => ended'[d][e] # "open"
        BY <1>4, <1>9 DEF Settles, SlotSettles, EndsShut
    <2>2. \A d \in Conns, e \in Nodes : life'[d][e] \in {life[d][e], "Superseded"}
        BY <1>9 DEF Settles, LivesEnd
    <2>3. QED
        BY <1>3, <1>8, <2>1, <2>2, <1>9 DEF EndInv, Moves, Early, Settles, LivesEnd, Live
<1>21. ReadInv'
    BY <1>1, <1>2, <1>4, <1>8, <1>9, PeerIsNode, ReaderHasEnd DEF ReadInv, SameEnds, Moves,
       Settles, SlotSettles, EndsShut
<1>22. ReplaceInv'
    <2>1. \A t \in Senders : snd[t].at \in {"check", "replace"} =>
             /\ Home[t] \in Nodes /\ Target[t] \in Nodes /\ snd[t].c \in Conns
             /\ reader[snd[t].c][Home[t]] \notin Early => reader'[snd[t].c][Home[t]] \notin Early
             /\ reader'[snd[t].c][Home[t]] = "read" => reader[snd[t].c][Home[t]] = "read"
        BY <1>3, <1>8, SenderHasEnd DEF Holding, SendStages, Moves, Early
    <2>2. \A t \in Senders : snd[t].at \in {"check", "replace"} /\ reader'[snd[t].c][Home[t]] = "read" =>
             \/ slot'[Home[t]][Target[t]] = slot[Home[t]][Target[t]]
             \/ slot'[Home[t]][Target[t]] # snd[t].c
        <3>1. reader'[c][n] # "read"
            BY <1>8 DEF Moves
        <3>2. QED
            BY <1>4, <1>9, <2>1, <3>1 DEF Settles, SlotSettles
    <2>3. QED
        BY <1>1, <1>10, <2>1, <2>2 DEF ReplaceInv, At
<1>23. FramesInv'
    <2>1. ASSUME NEW d \in Conns, NEW e \in Nodes, NEW k \in Codes, <<d, e, k>> \in closes'
          PROVE  ended'[d][Peer(d, e)] # "open"
        <3>1. EndAt(d, e)
            BY <2>1, <1>9 DEF WireInv, Settles, EndsShut
        <3>2. Peer(d, e) \in Nodes
            BY <3>1, PeerIsNode
        <3>3. QED
            BY <2>1, <3>2, <1>9 DEF FramesInv, Settles, EndsShut
    <2>2. QED
        BY <1>2, <2>1 DEF FramesInv, SameEnds
<1>24. OwedInv'
    <2>1. \A d \in Conns, e \in Nodes : <<d, e>> \in owed => reader'[d][e] = reader[d][e]
        BY <1>3, <1>8 DEF OwedInv, Moves
    <2>2. ASSUME NEW d \in Conns, NEW e \in Nodes, <<d, e>> \in owed, reader[d][e] = "read"
          PROVE  /\ life'[d][e] \in {"Active", "Superseded"}
                 /\ \/ slot'[e][Peer(d, e)] = d
                    \/ <<d, e>> \in leaving
                    \/ IsSuperseded(d, e)'
        <3>1. EndAt(d, e) /\ Peer(d, e) \in Nodes
            BY <2>2, PeerIsNode DEF WireInv
        <3>2. life[d][e] \in {"Active", "Superseded"} /\ life'[d][e] \in {life[d][e], "Superseded"}
            BY <1>9, <2>2 DEF OwedInv, Settles, LivesEnd
        <3>3. slot[e][Peer(d, e)] = d /\ slot'[e][Peer(d, e)] # d => life'[d][e] \notin Live
            BY <1>4, <1>9, <3>1 DEF Settles, SlotSettles
        <3>4. QED
            BY <1>10, <2>2, <3>2, <3>3 DEF OwedInv, IsSuperseded, Live
    <2>3. QED
        BY <1>1, <1>2, <1>10, <2>1, <2>2 DEF OwedInv, SameEnds
<1>25. ASSUME troubles' = 0 PROVE OneChampion'
    BY <1>25, <1>1, Untouched DEF CalmIsCalm, CalmInv
<1>26. ASSUME troubles' = 0 PROVE Quiet'
    BY <1>26, <1>1, <1>9 DEF Quiet, CalmIsCalm, CalmInv, Settles, EndsShut
<1>27. ASSUME troubles' = 0 PROVE CalmEnds'
    <2>1. CalmInv
        BY <1>27, <1>1 DEF CalmIsCalm
    <2>2. ASSUME NEW d \in Conns, NEW e \in Nodes, ended'[d][e] # ended[d][e]
          PROVE  life'[d][e] = "Superseded"
        <3>1. d # c /\ d = slot[n][Peer(c, n)] /\ e = n
            BY <1>4, <1>9, <1>12, <2>2 DEF Settles, SlotSettles
        <3>2. life'[d][e] \notin Live
            BY <1>4, <1>9, <2>2, <3>1 DEF Settles, SlotSettles
        <3>3. life[d][e] \in Live
            BY <1>4, <2>1, <3>1, SlotHasEnd, ConnsAssumption DEF CalmInv, CalmSlots
        <3>4. QED
            BY <1>9, <3>2, <3>3 DEF Settles, LivesEnd
    <2>3. \A d \in Conns, e \in Nodes : life'[d][e] = "Closed" => life[d][e] = "Closed"
        BY <1>9 DEF Settles, LivesEnd
    <2>4. CalmEnds
        BY <2>1 DEF CalmInv
    <2>5. \A d \in Conns, e \in Nodes : ended[d][e] # "open" => ended'[d][e] # "open"
        BY <1>9 DEF Settles, EndsShut
    <2>6. \A d \in Conns, e \in Nodes : ended'[d][e] # "open" => IsSuperseded(d, e)'
        BY <1>10, <2>2, <2>4 DEF CalmEnds, IsSuperseded
    <2>7. ~Wins(c, n) => life'[c][n] = "Superseded"
        <3>1. life[c][n] # "Closed" /\ life[c][n] # "none"
            BY <1>3, <1>4, <2>4 DEF CalmEnds, EndsInv
        <3>2. life'[c][n] # "Closed" /\ life'[c][n] # "none"
            BY <1>9, <3>1 DEF Settles, LivesEnd
        <3>3. ~Wins(c, n) => life'[c][n] \notin Live
            BY <1>4, <1>9 DEF Settles, SlotSettles
        <3>4. QED
            BY <1>6, <3>2, <3>3 DEF Terminal, Live
    <2>8. \A d \in Conns, e \in Nodes :
             \/ reader'[d][e] = reader[d][e] /\ ~(d = c /\ e = n)
             \/ d = c /\ e = n /\ (reader'[d][e] \in {"activate", "reply"} \/ life'[d][e] = "Superseded")
                /\ reader'[d][e] \in {"activate", "reply", "inactive"}
        BY <1>8, <2>7 DEF Moves
    <2>9. ASSUME NEW d \in Conns, NEW e \in Nodes
          PROVE  /\ reader'[d][e] \notin {"exitQuiet", "exitNoUrl", "goneQuiet"}
                 /\ reader'[d][e] = "exit" => ended'[d][e] # "open"
                 /\ reader'[d][e] \in {"inactive", "gone"} => IsSuperseded(d, e)'
                 /\ life'[d][e] = "Closed" => reader'[d][e] = "done"
        <3>1. CASE ~(d = c /\ e = n)
            BY <1>10, <2>3, <2>4, <2>5, <2>8, <3>1 DEF CalmEnds
        <3>2. CASE d = c /\ e = n
            BY <1>3, <2>3, <2>4, <2>8, <3>2 DEF CalmEnds, IsSuperseded
        <3>3. QED
            BY <3>1, <3>2
    <2>10. QED
        BY <2>6, <2>9 DEF CalmEnds
<1>28. ASSUME troubles' = 0 PROVE CalmSlots'
    <2>1. ASSUME NEW d \in Conns, NEW e \in Nodes, EndAt(d, e), slot'[e][Peer(d, e)] = d
          PROVE  \/ d = c /\ e = n /\ Wins(c, n) /\ life'[d][e] = life[d][e]
                 \/ slot[e][Peer(d, e)] = d /\ life'[d][e] = life[d][e] /\ ~(d = c /\ e = n)
                 \/ d = c /\ e = n /\ ~Wins(c, n) /\ slot[e][Peer(d, e)] = d
        <3>1. Peer(d, e) \in Nodes
            BY <2>1, PeerIsNode
        <3>2. CASE d = c /\ e = n
            BY <1>4, <1>9, <2>1, <3>2 DEF Settles, SlotSettles
        <3>3. CASE ~(d = c /\ e = n) /\ slot[e][Peer(d, e)] = d
            <4>2. CASE e # n
                BY <1>9, <3>3, <4>2 DEF Settles, SlotSettles
            <4>3. CASE e = n
                <5>1. CASE Peer(d, e) = Peer(c, n) /\ Wins(c, n)
                    BY <1>4, <1>9, <2>1, <3>3, <4>3, <5>1 DEF Settles, SlotSettles
                <5>2. CASE Peer(d, e) # Peer(c, n) \/ ~Wins(c, n)
                    <6>1. d # slot[n][Peer(c, n)] \/ ~Wins(c, n)
                        BY <1>4, <2>1, <4>3, <5>2, SlotHasEnd, ConnsAssumption
                    <6>2. QED
                        BY <1>4, <1>9, <3>3, <4>3, <6>1 DEF Settles, SlotSettles
                <5>3. QED
                    BY <5>1, <5>2
            <4>4. QED
                BY <4>2, <4>3
        <3>4. CASE ~(d = c /\ e = n) /\ slot[e][Peer(d, e)] # d
            BY <1>4, <1>9, <2>1, <3>1, <3>4 DEF Settles, SlotSettles
        <3>5. QED
            BY <3>2, <3>3, <3>4
    <2>2. CalmSlots
        BY <1>28, <1>1 DEF CalmIsCalm, CalmInv
    <2>3. slot[n][Peer(c, n)] = c => Wins(c, n)
        BY <1>3, <1>4, <2>2 DEF CalmSlots, Wins
    <2>4. Wins(c, n) => life[c][n] \in Live /\ reader'[c][n] \in {"activate", "reply"}
        BY <1>8 DEF Wins, Moves
    <2>5. \A d \in Conns, e \in Nodes : ~(d = c /\ e = n) => reader'[d][e] = reader[d][e]
        BY <1>8 DEF Moves
    <2>6. ASSUME NEW d \in Conns, NEW e \in Nodes, EndAt(d, e), slot'[e][Peer(d, e)] = d
          PROVE  /\ life'[d][e] \in Live
                 /\ reader'[d][e] \notin {"inactive", "gone", "done"}
                 /\ e = conn[d].to => reader'[d][e] \notin {"accept", "register"}
        <3>1. CASE d = c /\ e = n
            BY <2>1, <2>3, <2>4, <2>6, <3>1
        <3>2. CASE ~(d = c /\ e = n)
            BY <2>1, <2>2, <2>5, <2>6, <3>2 DEF CalmSlots
        <3>3. QED
            BY <3>1, <3>2
    <2>7. QED
        BY <1>1, <1>2, <2>6 DEF CalmSlots, SameEnds
<1>29. ASSUME troubles' = 0 PROVE CalmAnswers'
    <2>1. \A d \in Conns, e \in Nodes :
             EndAt(d, e) /\ slot[e][Peer(d, e)] = d /\ slot'[e][Peer(d, e)] # d => IsSuperseded(d, e)'
        BY <1>29, <1>1, <1>4, <1>9, PeerIsNode DEF CalmIsCalm, CalmInv, CalmSlots, Settles, SlotSettles, LivesEnd, IsSuperseded
    <2>2. CalmAnswers
        BY <1>29, <1>1 DEF CalmIsCalm, CalmInv
    <2>3. \A d \in Conns, e \in Nodes : reader'[d][e] \in {"reply", "activate"} =>
             \/ reader[d][e] = reader'[d][e]
             \/ d = c /\ e = n /\ slot'[n][Peer(c, n)] = c
        BY <1>4, <1>8, <1>9 DEF Moves, Settles, SlotSettles
    <2>4. QED
        BY <1>2, <1>10, <2>1, <2>2, <2>3 DEF CalmAnswers, SameEnds
<1>30. ASSUME troubles' = 0 PROVE CalmFrames'
    <2>1. CalmFrames
        BY <1>30, <1>1 DEF CalmIsCalm, CalmInv
    <2>2. ASSUME NEW d \in Conns, NEW e \in Nodes, EndAt(d, e), ended'[d][e] # "open",
                 ended'[d][Peer(d, e)] = "open"
          PROVE  <<d, Peer(d, e), "Superseded">> \in closes'
        <3>1. Peer(d, e) \in Nodes /\ "Superseded" \in Codes
            BY <2>2, PeerIsNode DEF Codes
        <3>2. CASE ended[d][e] = "open"
            BY <1>9, <2>2, <3>2 DEF Settles, EndsShut
        <3>3. CASE ended[d][e] # "open"
            <4>1. ended[d][Peer(d, e)] = "open"
                BY <1>9, <2>2, <3>1 DEF Settles, EndsShut
            <4>2. QED
                BY <1>9, <2>1, <2>2, <3>1, <3>3, <4>1 DEF Settles, EndsShut, CalmFrames
        <3>4. QED
            BY <3>2, <3>3
    <2>3. QED
        BY <1>2, <2>2 DEF CalmFrames, SameEnds
<1>31. ASSUME troubles' = 0 PROVE CalmWaits'
    <2>1. CalmWaits /\ "Superseded" \in Codes
        BY <1>31, <1>1 DEF CalmIsCalm, CalmInv, Codes
    <2>2. ASSUME NEW d \in Conns, NEW e \in Nodes, EndAt(d, e), e = conn[d].to,
                 reader'[d][e] = "accept", ended'[d][e] = "open"
          PROVE  \/ <<d, e>> \in preflights
                 \/ <<d, e, "Superseded">> \in closes'
                 \/ \E t \in Senders : snd[t].at \in Dialing /\ snd[t].c = d
        <3>1. ended[d][e] = "open" /\ reader[d][e] = "accept"
            BY <1>8, <1>9, <2>2 DEF Settles, EndsShut, Moves
        <3>2. CASE <<d, e, "Superseded">> \in closes
            BY <1>9, <2>1, <2>2, <3>2 DEF Settles, EndsShut
        <3>3. QED
            BY <2>1, <2>2, <3>1, <3>2 DEF CalmWaits
    <2>3. QED
        BY <1>1, <1>2, <2>2 DEF CalmWaits, SameEnds
<1>32. ASSUME troubles' = 0 PROVE CalmDials'
    <2>1. CalmInv
        BY <1>32, <1>1 DEF CalmIsCalm
    <2>2. ASSUME NEW t \in Senders, snd[t].at = "register"
          PROVE  LET d == snd[t].c IN
                 /\ slot'[Home[t]][Target[t]] # d
                 /\ \A e \in {Home[t], Target[t]} :
                      reader'[d][e] = "accept" /\ ended'[d][e] = "open" /\ life'[d][e] = "Pending"
        <3>1. snd[t].c # c
            BY <1>11, <2>2 DEF Dialing
        <3>2. /\ snd[t].c \in Conns /\ Home[t] \in Nodes /\ Target[t] \in Nodes
              /\ EndAt(snd[t].c, Home[t]) /\ EndAt(snd[t].c, Target[t])
              /\ Peer(snd[t].c, Home[t]) = Target[t] /\ Peer(snd[t].c, Target[t]) = Home[t]
            BY <2>2, SenderHasEnd DEF Holding, SendStages
        <3>3. /\ slot[Home[t]][Target[t]] # snd[t].c
              /\ \A e \in {Home[t], Target[t]} :
                   /\ reader[snd[t].c][e] = "accept" /\ ended[snd[t].c][e] = "open"
                   /\ life[snd[t].c][e] = "Pending"
            BY <2>1, <2>2 DEF CalmInv, CalmDials, At
        <3>4. conn[snd[t].c].to = Target[t]
            BY <2>2, <3>2 DEF HoldersInv, Dialing, Peer
        <3>5. slot[Target[t]][Home[t]] # snd[t].c
            BY <2>1, <3>2, <3>3, <3>4 DEF CalmInv, CalmSlots
        <3>6. \A e \in {Home[t], Target[t]} :
                 life'[snd[t].c][e] = life[snd[t].c][e] /\ ended'[snd[t].c][e] = ended[snd[t].c][e]
            <4>1. slot[n][Peer(c, n)] # snd[t].c
                <5>1. SUFFICES ASSUME slot[n][Peer(c, n)] = snd[t].c PROVE FALSE
                    OBVIOUS
                <5>2. EndAt(snd[t].c, n) /\ Peer(snd[t].c, n) = Peer(c, n)
                    BY <1>4, <5>1, <3>2, ConnsAssumption, SlotHasEnd
                <5>3. n = Home[t] \/ n = Target[t]
                    BY <3>2, <5>2 DEF EndAt, Peer
                <5>4. QED
                    BY <3>2, <3>3, <3>5, <5>1, <5>2, <5>3
            <4>2. QED
                BY <1>4, <1>9, <3>1, <3>2, <4>1 DEF Settles, SlotSettles
        <3>7. slot'[Home[t]][Target[t]] # snd[t].c
            BY <1>9, <3>1, <3>2, <3>3 DEF Settles, SlotSettles
        <3>8. \A e \in {Home[t], Target[t]} : reader'[snd[t].c][e] = reader[snd[t].c][e]
            BY <1>8, <3>1, <3>2 DEF Moves
        <3>9. QED
            BY <3>3, <3>6, <3>7, <3>8
    <2>3. QED
        BY <1>1, <2>2 DEF CalmDials, At
<1>33. ASSUME troubles' = 0 PROVE ChampionLives'
    <2>1. CalmInv
        BY <1>33, <1>1 DEF CalmIsCalm
    <2>2. ASSUME NEW d \in Conns, Champion(d) PROVE Kept(d)'
        <3>1. Kept(d) /\ d \in Made
            BY <2>1, <2>2 DEF CalmInv, ChampionLives, Champion
        <3>2. d = c => Wins(c, n)
            <4>1. d = c => life[c][n] \in Live
                BY <1>4, <3>1 DEF Kept, EndAt
            <4>2. QED
                BY <1>4, <2>2, <4>1, ChampionWins
        <3>3. d # c /\ slot[n][Peer(c, n)] = d => ~Wins(c, n)
            <4>1. SUFFICES ASSUME d # c, slot[n][Peer(c, n)] = d, Wins(c, n) PROVE FALSE
                OBVIOUS
            <4>2. d # 0 /\ EndAt(d, n)
                BY <1>4, <4>1, SlotHasEnd, ConnsAssumption
            <4>3. life[d][n] \in Live
                BY <3>1, <4>2 DEF Kept, EndAt
            <4>4. QED
                BY <1>4, <2>1, <2>2, <4>1, <4>2, <4>3, ChampionStays DEF CalmInv
        <3>4. \A e \in Nodes : life'[d][e] = life[d][e] /\ ended'[d][e] = ended[d][e]
            BY <1>4, <1>9, <3>2, <3>3 DEF Settles, SlotSettles
        <3>5. \A k, l \in Nodes : slot[k][l] = d => slot'[k][l] = d
            BY <1>4, <1>9, <3>2, <3>3 DEF Settles, SlotSettles
        <3>6. d = c => slot'[n][Peer(c, n)] = d
            BY <1>4, <1>9, <3>2 DEF Settles, SlotSettles
        <3>7. \A e \in Nodes :
                \/ reader'[d][e] = reader[d][e]
                \/ d = c /\ e = n /\ reader'[d][e] \in {"reply", "activate"}
            BY <1>8, <3>2 DEF Moves
        <3>8. /\ conn[d].from \in Nodes /\ conn[d].to \in Nodes
              /\ Peer(d, conn[d].from) = conn[d].to /\ Peer(d, conn[d].to) = conn[d].from
            BY <3>1, MadeEnds
        <3>9. reader'[d][conn[d].to] \in {"reply", "activate", "read"} => slot'[conn[d].to][conn[d].from] = d
            BY <3>1, <3>5, <3>6, <3>7, <3>8 DEF Kept
        <3>10. \A e \in {conn[d].from, conn[d].to} :
                  /\ ended'[d][e] = "open" /\ life'[d][e] \in Live
                  /\ reader'[d][e] \in {"accept", "register", "reply", "activate", "read"}
            BY <3>1, <3>4, <3>7, <3>8 DEF Kept
        <3>11. slot'[conn[d].from][conn[d].to] = d \/ \E t \in Senders : At(t, "register") /\ snd[t].c = d
            BY <3>1, <3>5, <3>8 DEF Kept
        <3>12. QED
            BY <1>1, <1>2, <3>1, <3>9, <3>10, <3>11 DEF Kept, SameEnds, At
    <2>3. QED
        BY <1>2, <2>2 DEF ChampionLives, SameEnds
<1>34. CalmIsCalm'
    BY <1>25, <1>26, <1>27, <1>28, <1>29, <1>30, <1>31, <1>32, <1>33 DEF CalmIsCalm, CalmInv
<1>35. QED
    BY <1>13, <1>14, <1>15, <1>16, <1>17, <1>18, <1>19, <1>20, <1>21, <1>22, <1>23, <1>24,
       <1>34

(* A preflight is read. *)
LEMMA ReadPreflightKeeps ==
    ASSUME IrohInv, NEW c \in Conns, NEW n \in Nodes, ReadPreflight(c, n)
    PROVE  IrohInv'
<1> USE DEF IrohInv, ShapeInv
<1>1. UNCHANGED <<conn, life, slot, ended, closes, inbox, snd, leaving, unresponsive, owed,
   troubles>>
    BY DEF ReadPreflight, registry, wire, seen
<1>2. SameEnds
    BY <1>1, NoneMade
<1>3. reader[c][n] = "accept" /\ ended[c][n] = "open" /\ <<c, n>> \in preflights
    BY DEF ReadPreflight
<1>4. /\ EndAt(c, n) /\ Peer(c, n) \in Nodes /\ Peer(c, n) # n
      /\ EndAt(c, Peer(c, n)) /\ Peer(c, Peer(c, n)) = n /\ c \in Made /\ c # 0
    BY <1>3, ReaderHasEnd, PeerIsNode, ConnsAssumption DEF EndAt
<1>5. reader' \in [Conns -> [Nodes -> ReaderStages]] /\ Moves(c, n, "register")
    BY ReaderMoves DEF ReadPreflight, ReaderStages
<1>6. preflights' = preflights \ {<<c, n>>}
    BY DEF ReadPreflight
<1>7. \A t \in Senders : snd[t].at \in Dialing =>
         snd[t].c # c /\ snd[t].c \in Conns /\ Home[t] \in Nodes /\ Target[t] \in Nodes
    BY <1>3, <1>4, DialIsUnheard
<1>8. IrohTypeOK'
    BY <1>1, <1>2, <1>3, <1>4, <1>5, <1>6, <1>7 DEF IrohTypeOK
<1>9. EntriesInv' /\ HoldersInv' /\ LockInv' /\ FramesInv'
    BY <1>1, Untouched
<1>10. EndsInv'
    BY <1>1, <1>2, <1>3, <1>4, <1>5, <1>6, <1>7 DEF EndsInv, SameEnds, Moves
<1>11. WireInv'
    BY <1>1, <1>2, <1>3, <1>4, <1>5, <1>6, <1>7 DEF WireInv, SameEnds, Moves
<1>12. DialInv'
    <2>1. \A t \in Senders : snd[t].at \in Dialing =>
             /\ reader'[snd[t].c][Home[t]] = reader[snd[t].c][Home[t]]
             /\ reader'[snd[t].c][Target[t]] = reader[snd[t].c][Target[t]]
        BY <1>5, <1>7 DEF Moves
    <2>2. QED
        BY <1>1, <1>6, <2>1 DEF DialInv
<1>13. AnswerInv'
    BY <1>2, <1>3, <1>4, <1>5, <1>6, MadeEnds DEF AnswerInv, SameEnds, Moves, EndAt
<1>14. EndInv'
    BY <1>1, <1>2, <1>3, <1>4, <1>5, <1>6, <1>7 DEF EndInv, Moves, Early
<1>15. ReadInv'
    BY <1>1, <1>2, <1>3, <1>4, <1>5, <1>6, <1>7 DEF ReadInv, SameEnds, Moves
<1>16. ReplaceInv'
    <2>1. \A t \in Senders : snd[t].at \in {"check", "replace"} =>
             Home[t] \in Nodes /\ snd[t].c \in Conns
        BY SenderHasEnd DEF Holding, SendStages
    <2>2. \A d \in Conns, e \in Nodes :
             /\ reader[d][e] \notin Early => reader'[d][e] \notin Early
             /\ reader'[d][e] = "read" => reader[d][e] = "read"
        BY <1>3, <1>5 DEF Moves, Early
    <2>3. QED
        BY <1>1, <2>1, <2>2 DEF ReplaceInv, IsSuperseded, At
<1>17. OwedInv'
    BY <1>1, <1>2, <1>3, <1>4, <1>5, <1>6, <1>7 DEF OwedInv, IsSuperseded, SameEnds, Moves
<1>18. ASSUME troubles' = 0 PROVE Quiet' /\ CalmFrames' /\ OneChampion'
    BY <1>18, <1>1, Untouched DEF CalmIsCalm, CalmInv
<1>19. ASSUME troubles' = 0 PROVE CalmEnds'
    BY <1>19, <1>1, <1>2, <1>3, <1>4, <1>5, <1>6, <1>7 DEF CalmEnds, IsSuperseded,
       CalmIsCalm, CalmInv, Moves
<1>20. ASSUME troubles' = 0 PROVE CalmSlots'
    BY <1>20, <1>1, <1>2, <1>3, <1>4, <1>5, <1>6, <1>7 DEF CalmSlots, SameEnds, CalmIsCalm,
       CalmInv, Moves
<1>21. ASSUME troubles' = 0 PROVE CalmAnswers'
    BY <1>21, <1>1, <1>2, <1>3, <1>4, <1>5, <1>6, <1>7 DEF CalmAnswers, IsSuperseded,
       SameEnds, CalmIsCalm, CalmInv, Moves
<1>22. ASSUME troubles' = 0 PROVE CalmWaits'
    BY <1>22, <1>1, <1>2, <1>3, <1>4, <1>5, <1>6, <1>7 DEF CalmWaits, SameEnds, Dialing,
       CalmIsCalm, CalmInv, Moves
<1>23. ASSUME troubles' = 0 PROVE CalmDials'
    <2>1. \A t \in Senders : At(t, "register") =>
             /\ reader'[snd[t].c][Home[t]] = reader[snd[t].c][Home[t]]
             /\ reader'[snd[t].c][Target[t]] = reader[snd[t].c][Target[t]]
        BY <1>5, <1>7 DEF Moves, At, Dialing
    <2>2. QED
        BY <1>23, <1>1, <2>1 DEF CalmDials, CalmIsCalm, CalmInv, At
<1>24. ASSUME troubles' = 0 PROVE ChampionLives'
    <2>1. ASSUME NEW d \in Conns, Champion(d) PROVE Kept(d)'
        <3>1. Kept(d) /\ d \in Made
            BY <1>24, <1>1, <2>1 DEF CalmIsCalm, CalmInv, ChampionLives, Champion
        <3>2. conn[d].from \in Nodes /\ conn[d].to \in Nodes
            BY <3>1, MadeEnds
        <3>3. \A e \in Nodes :
                 \/ reader'[d][e] = reader[d][e]
                 \/ reader[d][e] = "accept" /\ reader'[d][e] = "register"
            BY <1>3, <1>5 DEF Moves
        <3>4. QED
            BY <1>1, <1>2, <3>1, <3>2, <3>3 DEF Kept, SameEnds, At
    <2>2. QED
        BY <1>2, <2>1 DEF ChampionLives, SameEnds
<1>25. CalmIsCalm'
    BY <1>18, <1>19, <1>20, <1>21, <1>22, <1>23, <1>24 DEF CalmIsCalm, CalmInv
<1>26. QED
    BY <1>8, <1>9, <1>10, <1>11, <1>12, <1>13, <1>14, <1>15, <1>16, <1>17, <1>25

(* A preflight is rejected. *)
LEMMA RejectPreflightKeeps ==
    ASSUME IrohInv, NEW c \in Conns, NEW n \in Nodes, RejectPreflight(c, n)
    PROVE  IrohInv'
<1> USE DEF IrohInv, ShapeInv
<1>1. UNCHANGED <<conn, life, slot, ended, closes, inbox, snd, leaving, unresponsive, owed>>
    BY DEF RejectPreflight, registry, wire, seen
<1>2. SameEnds
    BY <1>1, NoneMade
<1>3. reader[c][n] = "accept" /\ ended[c][n] = "open" /\ <<c, n>> \in preflights
    BY DEF RejectPreflight
<1>4. /\ EndAt(c, n) /\ Peer(c, n) \in Nodes /\ Peer(c, n) # n
      /\ EndAt(c, Peer(c, n)) /\ Peer(c, Peer(c, n)) = n /\ c \in Made /\ c # 0
    BY <1>3, ReaderHasEnd, PeerIsNode, ConnsAssumption DEF EndAt
<1>5. reader' \in [Conns -> [Nodes -> ReaderStages]] /\ (Moves(c, n, "exit") \/ Moves(c, n,
   "exitQuiet"))
    BY ReaderMoves DEF RejectPreflight, ReaderStages
<1>6. preflights' = preflights \ {<<c, n>>}
    BY DEF RejectPreflight
<1>7. \A t \in Senders : snd[t].at \in Dialing =>
         snd[t].c # c /\ snd[t].c \in Conns /\ Home[t] \in Nodes /\ Target[t] \in Nodes
    BY <1>3, <1>4, DialIsUnheard
<1>8. troubles < MaxTroubles /\ troubles' = troubles + 1
    BY DEF RejectPreflight, Trouble
<1>9. IrohTypeOK'
    BY <1>1, <1>2, <1>3, <1>4, <1>5, <1>6, <1>7, <1>8, LimitsAssumption DEF IrohTypeOK
<1>10. EntriesInv' /\ HoldersInv' /\ LockInv' /\ FramesInv'
    BY <1>1, Untouched
<1>11. EndsInv'
    BY <1>1, <1>2, <1>3, <1>4, <1>5, <1>6, <1>7, <1>8 DEF EndsInv, SameEnds, Moves
<1>12. WireInv'
    BY <1>1, <1>2, <1>3, <1>4, <1>5, <1>6, <1>7, <1>8 DEF WireInv, SameEnds, Moves
<1>13. DialInv'
    <2>1. \A t \in Senders : snd[t].at \in Dialing =>
             /\ reader'[snd[t].c][Home[t]] = reader[snd[t].c][Home[t]]
             /\ reader'[snd[t].c][Target[t]] = reader[snd[t].c][Target[t]]
        BY <1>5, <1>7 DEF Moves
    <2>2. QED
        BY <1>1, <1>6, <2>1 DEF DialInv
<1>14. AnswerInv'
    BY <1>2, <1>3, <1>4, <1>5, <1>6, MadeEnds DEF AnswerInv, SameEnds, Moves, EndAt
<1>15. EndInv'
    BY <1>1, <1>2, <1>3, <1>4, <1>5, <1>6, <1>7, <1>8 DEF EndInv, Moves, Early
<1>16. ReadInv'
    BY <1>1, <1>2, <1>3, <1>4, <1>5, <1>6, <1>7, <1>8 DEF ReadInv, SameEnds, Moves
<1>17. ReplaceInv'
    BY <1>1, <1>2, <1>3, <1>4, <1>5, <1>6, <1>7, <1>8, SenderHasEnd DEF ReplaceInv,
       IsSuperseded, At, Moves, Early, Holding, SendStages
<1>18. OwedInv'
    BY <1>1, <1>2, <1>3, <1>4, <1>5, <1>6, <1>7, <1>8 DEF OwedInv, IsSuperseded, SameEnds,
       Moves
<1>19. CalmIsCalm'
    BY <1>1, <1>2, <1>3, <1>4, <1>5, <1>6, <1>7, <1>8 DEF CalmIsCalm, IrohTypeOK
<1>20. QED
    BY <1>9, <1>10, <1>11, <1>12, <1>13, <1>14, <1>15, <1>16, <1>17, <1>18, <1>19

(* The return preflight cannot be sent. *)
LEMMA ReplyFailsKeeps ==
    ASSUME IrohInv, NEW c \in Conns, NEW n \in Nodes, ReplyFails(c, n)
    PROVE  IrohInv'
<1> USE DEF IrohInv, ShapeInv
<1>1. UNCHANGED <<conn, life, slot, ended, closes, preflights, inbox, snd, leaving,
   unresponsive, owed>>
    BY DEF ReplyFails, registry, wire, seen
<1>2. SameEnds
    BY <1>1, NoneMade
<1>3. reader[c][n] = "reply"
    BY DEF ReplyFails
<1>4. /\ EndAt(c, n) /\ Peer(c, n) \in Nodes /\ Peer(c, n) # n
      /\ EndAt(c, Peer(c, n)) /\ Peer(c, Peer(c, n)) = n /\ c \in Made /\ c # 0
    BY <1>3, ReaderHasEnd, PeerIsNode, ConnsAssumption DEF EndAt
<1>5. reader' \in [Conns -> [Nodes -> ReaderStages]] /\ (Moves(c, n, "exit") \/ Moves(c, n,
   "exitQuiet"))
    BY ReaderMoves DEF ReplyFails, ReaderStages
<1>6. \A t \in Senders : snd[t].at \in Dialing =>
         snd[t].c # c /\ snd[t].c \in Conns /\ Home[t] \in Nodes /\ Target[t] \in Nodes
    BY <1>3, <1>4, DialIsUnheard
<1>7. troubles < MaxTroubles /\ troubles' = troubles + 1
    BY DEF ReplyFails, Trouble
<1>8. IrohTypeOK'
    BY <1>1, <1>2, <1>3, <1>4, <1>5, <1>6, <1>7, LimitsAssumption DEF IrohTypeOK
<1>9. EntriesInv' /\ HoldersInv' /\ WireInv' /\ LockInv' /\ FramesInv'
    BY <1>1, Untouched
<1>10. EndsInv'
    BY <1>1, <1>2, <1>3, <1>4, <1>5, <1>6, <1>7 DEF EndsInv, SameEnds, Moves
<1>11. DialInv'
    <2>1. \A t \in Senders : snd[t].at \in Dialing =>
             /\ reader'[snd[t].c][Home[t]] = reader[snd[t].c][Home[t]]
             /\ reader'[snd[t].c][Target[t]] = reader[snd[t].c][Target[t]]
        BY <1>5, <1>6 DEF Moves
    <2>2. QED
        BY <1>1, <2>1 DEF DialInv
<1>12. AnswerInv'
    BY <1>1, <1>2, <1>3, <1>4, <1>5, MadeEnds DEF AnswerInv, SameEnds, Moves, EndAt
<1>13. EndInv'
    BY <1>1, <1>2, <1>3, <1>4, <1>5, <1>6, <1>7 DEF EndInv, Moves, Early
<1>14. ReadInv'
    BY <1>1, <1>2, <1>3, <1>4, <1>5, <1>6, <1>7 DEF ReadInv, SameEnds, Moves
<1>15. ReplaceInv'
    BY <1>1, <1>2, <1>3, <1>4, <1>5, <1>6, <1>7, SenderHasEnd DEF ReplaceInv, IsSuperseded,
       At, Moves, Early, Holding, SendStages
<1>16. OwedInv'
    BY <1>1, <1>2, <1>3, <1>4, <1>5, <1>6, <1>7 DEF OwedInv, IsSuperseded, SameEnds, Moves
<1>17. CalmIsCalm'
    BY <1>1, <1>2, <1>3, <1>4, <1>5, <1>6, <1>7 DEF CalmIsCalm, IrohTypeOK
<1>18. QED
    BY <1>8, <1>9, <1>10, <1>11, <1>12, <1>13, <1>14, <1>15, <1>16, <1>17

(* The acceptor answers, or cannot. *)
LEMMA ReturnPreflightKeeps ==
    ASSUME IrohInv, NEW c \in Conns, NEW n \in Nodes, ReturnPreflight(c, n)
    PROVE  IrohInv'
<1> USE DEF IrohInv, ShapeInv
<1>1. UNCHANGED <<conn, life, slot, ended, closes, inbox, snd, leaving, unresponsive, owed,
   troubles>>
    BY DEF ReturnPreflight, registry, wire, seen
<1>2. SameEnds
    BY <1>1, NoneMade
<1>3. reader[c][n] = "reply"
    BY DEF ReturnPreflight
<1>4. /\ EndAt(c, n) /\ Peer(c, n) \in Nodes /\ Peer(c, n) # n
      /\ EndAt(c, Peer(c, n)) /\ Peer(c, Peer(c, n)) = n /\ c \in Made /\ c # 0
    BY <1>3, ReaderHasEnd, PeerIsNode, ConnsAssumption DEF EndAt
<1>5. \/ /\ ended[c][n] = "open" /\ preflights' = preflights \cup {<<c, Peer(c, n)>>}
         /\ ReaderGoes(c, n, "activate")
      \/ ended[c][n] # "open" /\ UNCHANGED preflights /\ ReaderGoes(c, n, "exit")
    BY DEF ReturnPreflight, SendPreflightFrame, CanWrite
<1>6. reader' \in [Conns -> [Nodes -> ReaderStages]]
      /\ \/ /\ ended[c][n] = "open" /\ preflights' = preflights \cup {<<c, Peer(c, n)>>}
            /\ Moves(c, n, "activate")
         \/ ended[c][n] # "open" /\ UNCHANGED preflights /\ Moves(c, n, "exit")
    BY <1>5, ReaderMoves DEF ReaderStages
<1>7. \A t \in Senders : snd[t].at \in Dialing =>
         snd[t].c # c /\ snd[t].c \in Conns /\ Home[t] \in Nodes /\ Target[t] \in Nodes
    BY <1>3, <1>4, DialIsUnheard
<1>8. IrohTypeOK'
    BY <1>1, <1>4, <1>6 DEF IrohTypeOK
<1>9. EntriesInv' /\ HoldersInv' /\ LockInv' /\ FramesInv'
    BY <1>1, Untouched
<1>10. EndsInv'
    BY <1>1, <1>2, <1>4, <1>6 DEF EndsInv, SameEnds, Moves
<1>11. WireInv'
    <2>1. \A d \in Conns, e \in Nodes :
             <<d, e>> \in preflights' => <<d, e>> \in preflights \/ (d = c /\ e = Peer(c, n))
        BY <1>6
    <2>2. QED
        BY <1>1, <1>2, <1>4, <2>1 DEF WireInv, SameEnds
<1>12. DialInv'
    <2>1. \A t \in Senders : snd[t].at \in Dialing =>
             /\ reader'[snd[t].c][Home[t]] = reader[snd[t].c][Home[t]]
             /\ reader'[snd[t].c][Target[t]] = reader[snd[t].c][Target[t]]
        BY <1>6, <1>7 DEF Moves
    <2>2. \A t \in Senders : snd[t].at \in Dialing =>
             \A e \in Nodes : <<snd[t].c, e>> \in preflights' => <<snd[t].c, e>> \in preflights
        BY <1>6, <1>7
    <2>3. QED
        BY <1>1, <1>7, <2>1, <2>2 DEF DialInv
<1>13. AnswerInv'
    <2>1. n # conn[c].from
        BY <1>3, <1>4 DEF AnswerInv
    <2>2. Peer(c, n) = conn[c].from /\ n = conn[c].to
        BY <1>4, <2>1 DEF Peer, EndAt
    <2>3. QED
        BY <1>1, <1>2, <1>3, <1>4, <1>6, <2>1, <2>2, MadeEnds DEF AnswerInv, SameEnds, Moves
<1>14. EndInv'
    BY <1>1, <1>3, <1>6 DEF EndInv, Moves, Early
<1>15. ReadInv'
    BY <1>1, <1>2, <1>3, <1>6 DEF ReadInv, SameEnds, Moves
<1>16. ReplaceInv'
    <2>1. \A t \in Senders : snd[t].at \in {"check", "replace"} =>
             Home[t] \in Nodes /\ snd[t].c \in Conns
        BY SenderHasEnd DEF Holding, SendStages
    <2>2. \A d \in Conns, e \in Nodes :
             /\ reader[d][e] \notin Early => reader'[d][e] \notin Early
             /\ reader'[d][e] = "read" => reader[d][e] = "read"
        BY <1>3, <1>6 DEF Moves, Early
    <2>3. QED
        BY <1>1, <2>1, <2>2 DEF ReplaceInv, IsSuperseded, At
<1>17. OwedInv'
    BY <1>1, <1>2, <1>3, <1>6 DEF OwedInv, IsSuperseded, SameEnds, Moves
<1>18. ASSUME troubles' = 0 PROVE Quiet' /\ CalmFrames' /\ OneChampion'
    BY <1>18, <1>1, Untouched DEF CalmIsCalm, CalmInv
<1>19. ASSUME troubles' = 0 PROVE CalmEnds'
    BY <1>19, <1>1, <1>3, <1>6 DEF CalmEnds, IsSuperseded, CalmIsCalm, CalmInv, Moves
<1>20. ASSUME troubles' = 0 PROVE CalmSlots'
    BY <1>20, <1>1, <1>2, <1>3, <1>6 DEF CalmSlots, SameEnds, CalmIsCalm, CalmInv, Moves
<1>21. ASSUME troubles' = 0 PROVE CalmAnswers'
    BY <1>21, <1>1, <1>2, <1>3, <1>6 DEF CalmAnswers, IsSuperseded, SameEnds, CalmIsCalm,
       CalmInv, Moves
<1>22. ASSUME troubles' = 0 PROVE CalmWaits'
    BY <1>22, <1>1, <1>2, <1>3, <1>6 DEF CalmWaits, SameEnds, Dialing, CalmIsCalm, CalmInv,
       Moves
<1>23. ASSUME troubles' = 0 PROVE CalmDials'
    <2>1. \A t \in Senders : At(t, "register") =>
             /\ reader'[snd[t].c][Home[t]] = reader[snd[t].c][Home[t]]
             /\ reader'[snd[t].c][Target[t]] = reader[snd[t].c][Target[t]]
        BY <1>6, <1>7 DEF Moves, At, Dialing
    <2>2. QED
        BY <1>23, <1>1, <2>1 DEF CalmDials, CalmIsCalm, CalmInv, At
<1>24. ASSUME troubles' = 0 PROVE ChampionLives'
    <2>1. ASSUME NEW d \in Conns, Champion(d) PROVE Kept(d)'
        <3>1. Kept(d) /\ d \in Made
            BY <1>24, <1>1, <2>1 DEF CalmIsCalm, CalmInv, ChampionLives, Champion
        <3>2. conn[d].from \in Nodes /\ conn[d].to \in Nodes
            BY <3>1, MadeEnds
        <3>3. d = c => ended[c][n] = "open"
            BY <1>4, <3>1 DEF Kept, EndAt
        <3>4. \A e \in Nodes :
                 \/ reader'[d][e] = reader[d][e]
                 \/ d = c /\ e = n /\ reader'[d][e] = "activate"
            BY <1>6, <3>3 DEF Moves
        <3>5. \A e \in Nodes : reader'[d][e] # reader[d][e] => reader[d][e] = "reply"
            BY <1>3, <3>4
        <3>6. QED
            BY <1>1, <1>2, <3>1, <3>2, <3>4, <3>5 DEF Kept, SameEnds, At
    <2>2. QED
        BY <1>2, <2>1 DEF ChampionLives, SameEnds
<1>25. CalmIsCalm'
    BY <1>18, <1>19, <1>20, <1>21, <1>22, <1>23, <1>24 DEF CalmIsCalm, CalmInv
<1>26. QED
    BY <1>8, <1>9, <1>10, <1>11, <1>12, <1>13, <1>14, <1>15, <1>16, <1>17, <1>25

(* A data frame is read. *)
LEMMA ReadDataFrameKeeps ==
    ASSUME IrohInv, NEW c \in Conns, NEW n \in Nodes, NEW s \in Senders, ReadDataFrame(c, n, s)
    PROVE  IrohInv'
<1> USE DEF IrohInv, ShapeInv
<1>1. UNCHANGED <<conn, life, slot, reader, ended, closes, preflights, snd, leaving,
   unresponsive, owed, troubles>>
    BY DEF ReadDataFrame, registry, wire, seen
<1>2. SameEnds
    BY <1>1, NoneMade
<1>3. inbox' \subseteq inbox
    BY DEF ReadDataFrame
<1>4. IrohTypeOK'
    BY <1>1, <1>2, <1>3 DEF IrohTypeOK
<1>5. EndsInv' /\ EntriesInv' /\ HoldersInv' /\ LockInv' /\ DialInv' /\ AnswerInv' /\
   EndInv' /\ ReadInv' /\ ReplaceInv' /\ FramesInv' /\ OwedInv'
    BY <1>1, Untouched
<1>6. WireInv'
    BY <1>1, <1>2, <1>3 DEF WireInv, SameEnds
<1>7. ASSUME troubles' = 0 PROVE Quiet' /\ CalmEnds' /\ CalmSlots' /\ CalmAnswers' /\
   CalmFrames' /\ CalmWaits' /\ CalmDials' /\ OneChampion' /\ ChampionLives'
    BY <1>7, <1>1, Untouched DEF CalmIsCalm, CalmInv
<1>8. CalmIsCalm'
    BY <1>7 DEF CalmIsCalm, CalmInv
<1>9. QED
    BY <1>4, <1>5, <1>6, <1>8

(* A close frame arrives. *)
LEMMA DeliverCloseKeeps ==
    ASSUME IrohInv, NEW c \in Conns, NEW n \in Nodes, NEW k \in Codes, DeliverClose(c, n, k)
    PROVE  IrohInv'
<1> USE DEF IrohInv, ShapeInv
<1>1. UNCHANGED <<conn, life, slot, reader, preflights, inbox, snd, leaving, unresponsive,
   owed, troubles>>
    BY DEF DeliverClose, registry, wire, seen
<1>2. SameEnds
    BY <1>1, NoneMade
<1>3. <<c, n, k>> \in closes
    BY DEF DeliverClose
<1>4. /\ EndAt(c, n) /\ Peer(c, n) \in Nodes /\ Peer(c, n) # n
      /\ EndAt(c, Peer(c, n)) /\ Peer(c, Peer(c, n)) = n /\ c \in Made /\ c # 0
    BY <1>3, PeerIsNode, ConnsAssumption DEF WireInv, EndAt
<1>5. closes' = closes \ {<<c, n, k>>}
    BY DEF DeliverClose
<1>6. ended' \in [Conns -> [Nodes -> {"open", "local", "lost"} \cup Codes]]
      /\ \A d \in Conns, e \in Nodes :
           ended'[d][e] = IF d = c /\ e = n /\ ended[c][n] = "open" THEN k ELSE ended[d][e]
    BY DEF DeliverClose, IrohTypeOK
<1>7. k # "open" /\ ended[c][Peer(c, n)] # "open"
    BY <1>3 DEF FramesInv, Codes
<1>8. \A d \in Conns, e \in Nodes : IsSuperseded(d, e) => IsSuperseded(d, e)'
    BY <1>1, <1>6 DEF IsSuperseded
<1>9. IrohTypeOK'
    BY <1>1, <1>2, <1>3, <1>4, <1>5, <1>6, <1>7, <1>8 DEF IrohTypeOK
<1>10. EntriesInv' /\ HoldersInv' /\ LockInv' /\ DialInv' /\ AnswerInv'
    BY <1>1, Untouched
<1>11. EndsInv'
    BY <1>1, <1>2, <1>4, <1>6 DEF EndsInv, SameEnds
<1>12. WireInv'
    BY <1>1, <1>2, <1>5 DEF WireInv, SameEnds
<1>13. EndInv'
    BY <1>1, <1>6, <1>7 DEF EndInv
<1>14. ReadInv'
    BY <1>1, <1>2, <1>6, <1>7 DEF ReadInv, SameEnds
<1>15. ReplaceInv'
    BY <1>1, <1>8, SenderHasEnd DEF ReplaceInv, At, Holding, SendStages
<1>16. FramesInv'
    <2>1. \A d \in Conns, e \in Nodes, l \in Codes : <<d, e, l>> \in closes => Peer(d, e) \in Nodes
        BY PeerIsNode DEF WireInv
    <2>2. QED
        BY <1>2, <1>5, <1>6, <1>7, <2>1 DEF FramesInv, SameEnds
<1>17. OwedInv'
    BY <1>1, <1>2, <1>8 DEF OwedInv, IsSuperseded, SameEnds
<1>18. ASSUME troubles' = 0 PROVE CalmSlots' /\ OneChampion'
    BY <1>18, <1>1, Untouched DEF CalmIsCalm, CalmInv
<1>19. ASSUME troubles' = 0 PROVE Quiet'
    BY <1>19, <1>1, <1>5 DEF Quiet, CalmIsCalm, CalmInv
<1>20. ASSUME troubles' = 0 PROVE CalmEnds'
    <2>1. k = "Superseded" /\ CalmEnds
        BY <1>20, <1>1, <1>3 DEF CalmIsCalm, CalmInv, Quiet
    <2>2. QED
        BY <1>1, <1>6, <1>8, <2>1 DEF CalmEnds, IsSuperseded
<1>21. ASSUME troubles' = 0 PROVE CalmAnswers'
    BY <1>21, <1>1, <1>2, <1>8 DEF CalmAnswers, IsSuperseded, SameEnds, CalmIsCalm, CalmInv
<1>22. ASSUME troubles' = 0 PROVE CalmFrames'
    <2>1. CalmFrames
        BY <1>22, <1>1 DEF CalmIsCalm, CalmInv
    <2>2. \A d \in Conns, e \in Nodes : EndAt(d, e) => Peer(d, e) \in Nodes
        BY PeerIsNode
    <2>3. QED
        BY <1>2, <1>4, <1>5, <1>6, <1>7, <2>1, <2>2 DEF CalmFrames, SameEnds
<1>23. ASSUME troubles' = 0 PROVE CalmWaits'
    <2>1. CalmWaits
        BY <1>23, <1>1 DEF CalmIsCalm, CalmInv
    <2>2. QED
        BY <1>1, <1>2, <1>5, <1>6, <1>7, <2>1 DEF CalmWaits, SameEnds
<1>24. ASSUME troubles' = 0 PROVE CalmDials'
    <2>1. CalmDials
        BY <1>24, <1>1 DEF CalmIsCalm, CalmInv
    <2>2. \A t \in Senders : At(t, "register") =>
             /\ snd[t].c \in Conns /\ Home[t] \in Nodes /\ Target[t] \in Nodes
             /\ Peer(snd[t].c, Home[t]) = Target[t] /\ Peer(snd[t].c, Target[t]) = Home[t]
             /\ (EndAt(snd[t].c, n) => n \in {Home[t], Target[t]})
        <3>1. ASSUME NEW t \in Senders, At(t, "register")
              PROVE  /\ snd[t].c \in Conns /\ Home[t] \in Nodes /\ Target[t] \in Nodes
                     /\ Peer(snd[t].c, Home[t]) = Target[t] /\ Peer(snd[t].c, Target[t]) = Home[t]
                     /\ EndAt(snd[t].c, Home[t]) /\ Home[t] # Target[t]
            BY <3>1, SenderHasEnd DEF At, Holding, SendStages
        <3>2. QED
            BY <3>1 DEF EndAt, Peer
    <2>3. \A t \in Senders : At(t, "register") => snd[t].c # c
        BY <1>4, <1>7, <2>1, <2>2 DEF CalmDials
    <2>4. QED
        BY <1>1, <1>6, <2>1, <2>2, <2>3 DEF CalmDials, At
<1>25. ASSUME troubles' = 0 PROVE ChampionLives'
    <2>1. ChampionLives
        BY <1>25, <1>1 DEF CalmIsCalm, CalmInv
    <2>2. ~Champion(c)
        BY <1>4, <1>7, <2>1 DEF ChampionLives, Kept, EndAt, Peer
    <2>3. ASSUME NEW d \in Conns, Champion(d) PROVE Kept(d)'
        <3>1. Kept(d) /\ d \in Made /\ d # c
            BY <2>1, <2>2, <2>3 DEF ChampionLives, Champion
        <3>2. conn[d].from \in Nodes /\ conn[d].to \in Nodes
            BY <3>1, MadeEnds
        <3>3. QED
            BY <1>1, <1>2, <1>6, <3>1, <3>2 DEF Kept, SameEnds, At
    <2>4. QED
        BY <1>2, <2>3 DEF ChampionLives, SameEnds
<1>26. CalmIsCalm'
    BY <1>18, <1>19, <1>20, <1>21, <1>22, <1>23, <1>24, <1>25 DEF CalmIsCalm, CalmInv
<1>27. QED
    BY <1>9, <1>10, <1>11, <1>12, <1>13, <1>14, <1>15, <1>16, <1>17, <1>26

(* A node closes the connection it takes leave of. *)
LEMMA DisconnectCloseKeeps ==
    ASSUME IrohInv, NEW c \in Conns, NEW n \in Nodes, DisconnectClose(c, n)
    PROVE  IrohInv'
<1> USE DEF IrohInv, ShapeInv
<1>1. UNCHANGED <<conn, slot, reader, preflights, inbox, snd, unresponsive, troubles>>
    BY DEF DisconnectClose, registry, wire, seen
<1>2. SameEnds
    BY <1>1, NoneMade
<1>3. <<c, n>> \in leaving
    BY DEF DisconnectClose
<1>4. /\ EndAt(c, n) /\ Peer(c, n) \in Nodes /\ Peer(c, n) # n
      /\ EndAt(c, Peer(c, n)) /\ Peer(c, Peer(c, n)) = n /\ c \in Made /\ c # 0
    BY <1>3, PeerIsNode, ConnsAssumption DEF WireInv, EndAt
<1>5. life' \in [Conns -> [Nodes -> {"none"} \cup Live \cup Terminal]] /\ Marks(c, n,
   "Closed")
    BY <1>4, MarkEnds DEF DisconnectClose, Terminal
<1>6. ended' \in [Conns -> [Nodes -> {"open", "local", "lost"} \cup Codes]] /\ closes'
   \subseteq Conns \X Nodes \X Codes /\ Shuts(c, n, "Graceful")
    BY <1>4, EndShuts DEF DisconnectClose, Codes
<1>7. leaving' = leaving \ {<<c, n>>} /\ owed' = owed \ {<<c, n>>}
    BY DEF DisconnectClose
<1>8. \A d \in Conns, e \in Nodes : IsSuperseded(d, e) => IsSuperseded(d, e)'
    BY <1>5, <1>6 DEF IsSuperseded, Marks, Shuts, Live
<1>9. IrohTypeOK'
    BY <1>1, <1>2, <1>3, <1>4, <1>5, <1>6, <1>7, <1>8 DEF IrohTypeOK
<1>10. EntriesInv' /\ HoldersInv' /\ LockInv' /\ DialInv' /\ AnswerInv'
    BY <1>1, Untouched
<1>11. EndsInv'
    <2>1. \A d \in Conns, e \in Nodes :
             /\ life'[d][e] = "none" <=> life[d][e] = "none"
             /\ ended'[d][e] = ended[d][e] \/ EndAt(d, e)
        BY <1>4, <1>5, <1>6 DEF Marks, Shuts, Live
    <2>2. QED
        BY <1>1, <1>2, <2>1 DEF EndsInv, SameEnds
<1>12. WireInv'
    <2>1. \A d \in Conns, e \in Nodes, l \in Codes : <<d, e, l>> \in closes' =>
             <<d, e, l>> \in closes \/ EndAt(d, e)
        BY <1>4, <1>6 DEF Shuts
    <2>2. QED
        BY <1>1, <1>2, <1>7, <2>1 DEF WireInv, SameEnds
<1>13. EndInv'
    BY <1>1, <1>5, <1>6 DEF EndInv, Marks, Shuts, Live
<1>14. ReadInv'
    BY <1>1, <1>2, <1>6, <1>7 DEF ReadInv, SameEnds, Shuts
<1>15. ReplaceInv'
    BY <1>1, <1>8, SenderHasEnd DEF ReplaceInv, At, Holding, SendStages
<1>16. FramesInv'
    <2>1. \A d \in Conns, e \in Nodes, l \in Codes : <<d, e, l>> \in closes => Peer(d, e) \in Nodes
        BY PeerIsNode DEF WireInv
    <2>2. QED
        BY <1>2, <1>4, <1>6, <2>1 DEF FramesInv, SameEnds, Shuts
<1>17. OwedInv'
    <2>1. \A d \in Conns, e \in Nodes :
             <<d, e>> \in owed' => <<d, e>> \in owed /\ life'[d][e] = life[d][e]
        BY <1>5, <1>7 DEF Marks
    <2>2. \A d \in Conns, e \in Nodes :
             <<d, e>> \in owed' /\ <<d, e>> \in leaving => <<d, e>> \in leaving'
        BY <1>7
    <2>3. QED
        BY <1>1, <1>2, <1>8, <2>1, <2>2 DEF OwedInv, SameEnds
<1>18. CalmIsCalm'
    BY <1>1, <1>3 DEF CalmIsCalm, CalmInv, Quiet
<1>19. QED
    BY <1>9, <1>10, <1>11, <1>12, <1>13, <1>14, <1>15, <1>16, <1>17, <1>18

(* A node is asked to disconnect, and takes the entry. *)
LEMMA DisconnectTakeKeeps ==
    ASSUME IrohInv, NEW n \in Nodes, NEW m \in Nodes, DisconnectTake(n, m)
    PROVE  IrohInv'
<1> USE DEF IrohInv, ShapeInv
<1>1. UNCHANGED <<conn, life, reader, ended, closes, preflights, inbox, snd, unresponsive,
   owed>>
    BY DEF DisconnectTake, registry, wire, seen
<1>2. SameEnds
    BY <1>1, NoneMade
<1>3. slot[n][m] \in Conns /\ slot[n][m] # 0
    BY ConnsAssumption, LimitsAssumption DEF DisconnectTake, Exposed
<1>4. /\ EndAt(slot[n][m], n) /\ Peer(slot[n][m], n) = m
    BY <1>3, SlotHasEnd
<1>5. slot' \in [Nodes -> [Nodes -> Conns \cup {0}]]
      /\ \A k, l \in Nodes : slot'[k][l] = IF k = n /\ l = m THEN 0 ELSE slot[k][l]
    BY DEF DisconnectTake, IrohTypeOK
<1>6. leaving' = leaving \cup {<<slot[n][m], n>>}
    BY DEF DisconnectTake
<1>7. troubles < MaxTroubles /\ troubles' = troubles + 1
    BY DEF DisconnectTake, Trouble
<1>8. IrohTypeOK'
    BY <1>1, <1>2, <1>3, <1>4, <1>5, <1>6, <1>7, LimitsAssumption DEF IrohTypeOK
<1>9. EndsInv' /\ HoldersInv' /\ LockInv' /\ DialInv' /\ AnswerInv' /\ EndInv' /\ FramesInv'
    BY <1>1, Untouched
<1>10. EntriesInv'
    BY <1>2, <1>5 DEF EntriesInv, SameEnds, IrohTypeOK
<1>11. WireInv'
    BY <1>1, <1>2, <1>4, <1>6 DEF WireInv, SameEnds
<1>12. ReadInv'
    <2>1. \A d \in Conns, e \in Nodes : reader[d][e] = "read" => Peer(d, e) \in Nodes
        BY ReaderHasEnd, PeerIsNode
    <2>2. QED
        BY <1>1, <1>2, <1>5, <1>6, <2>1 DEF ReadInv, SameEnds
<1>13. ReplaceInv'
    <2>1. \A t \in Senders : snd[t].at = "replace" =>
             Home[t] \in Nodes /\ Target[t] \in Nodes /\ snd[t].c # 0
        BY SenderHasEnd DEF Holding, SendStages
    <2>2. QED
        BY <1>1, <1>5, <2>1 DEF ReplaceInv, At, IsSuperseded
<1>14. OwedInv'
    <2>1. \A d \in Conns, e \in Nodes : <<d, e>> \in owed => Peer(d, e) \in Nodes
        BY PeerIsNode DEF WireInv
    <2>2. QED
        BY <1>1, <1>2, <1>5, <1>6, <2>1 DEF OwedInv, SameEnds, IsSuperseded
<1>15. CalmIsCalm'
    BY <1>1, <1>2, <1>3, <1>4, <1>5, <1>6, <1>7 DEF CalmIsCalm, IrohTypeOK
<1>16. QED
    BY <1>8, <1>9, <1>10, <1>11, <1>12, <1>13, <1>14, <1>15

(* A connection is lost to one of its ends. *)
LEMMA LoseKeeps ==
    ASSUME IrohInv, NEW c \in Conns, NEW n \in Nodes, Lose(c, n)
    PROVE  IrohInv'
<1> USE DEF IrohInv, ShapeInv
<1>1. UNCHANGED <<conn, life, slot, reader, closes, preflights, inbox, snd, leaving,
   unresponsive, owed>>
    BY DEF Lose, registry, wire, seen
<1>2. SameEnds
    BY <1>1, NoneMade
<1>3. reader[c][n] # "none" /\ ended[c][n] = "open"
    BY DEF Lose
<1>4. /\ EndAt(c, n) /\ Peer(c, n) \in Nodes /\ Peer(c, n) # n
      /\ EndAt(c, Peer(c, n)) /\ Peer(c, Peer(c, n)) = n /\ c \in Made /\ c # 0
    BY <1>3, ReaderHasEnd, PeerIsNode, ConnsAssumption DEF EndAt
<1>5. ended' \in [Conns -> [Nodes -> {"open", "local", "lost"} \cup Codes]]
      /\ \A d \in Conns, e \in Nodes :
           ended'[d][e] = IF d = c /\ e = n THEN "lost" ELSE ended[d][e]
    BY DEF Lose, IrohTypeOK
<1>6. \A d \in Conns, e \in Nodes : IsSuperseded(d, e) => IsSuperseded(d, e)'
    BY <1>1, <1>3, <1>5 DEF IsSuperseded
<1>7. troubles' \in 0 .. MaxTroubles
    BY LimitsAssumption DEF Lose, Trouble, IrohTypeOK
<1>8. troubles' # 0
    <2>1. CASE troubles' = troubles + 1
        BY <2>1 DEF IrohTypeOK
    <2>2. CASE UNCHANGED troubles /\ LostByPeer(c, n)
        <3>1. SUFFICES ASSUME troubles = 0 PROVE FALSE
            BY <2>2
        <3>2. <<c, n, "Superseded">> \in closes
            BY <1>3, <1>4, <2>2, <3>1 DEF CalmIsCalm, CalmInv, CalmFrames, LostByPeer
        <3>3. QED
            BY <2>2, <3>2 DEF LostByPeer, FramesTo
    <2>3. QED
        BY <2>1, <2>2 DEF Lose, Trouble
<1>9. IrohTypeOK'
    BY <1>1, <1>2, <1>3, <1>4, <1>5, <1>6, <1>7, <1>8 DEF IrohTypeOK
<1>10. EntriesInv' /\ HoldersInv' /\ WireInv' /\ LockInv' /\ DialInv' /\ AnswerInv'
    BY <1>1, Untouched
<1>11. EndsInv'
    BY <1>1, <1>2, <1>4, <1>5 DEF EndsInv, SameEnds
<1>12. EndInv'
    BY <1>1, <1>5 DEF EndInv
<1>13. ReadInv'
    BY <1>1, <1>2, <1>5 DEF ReadInv, SameEnds
<1>14. ReplaceInv'
    BY <1>1, <1>6, SenderHasEnd DEF ReplaceInv, At, Holding, SendStages
<1>15. FramesInv'
    <2>1. \A d \in Conns, e \in Nodes, l \in Codes : <<d, e, l>> \in closes => Peer(d, e) \in Nodes
        BY PeerIsNode DEF WireInv
    <2>2. QED
        BY <1>1, <1>2, <1>5, <2>1 DEF FramesInv, SameEnds
<1>16. OwedInv'
    BY <1>1, <1>2, <1>6 DEF OwedInv, IsSuperseded, SameEnds
<1>17. CalmIsCalm'
    BY <1>8 DEF CalmIsCalm
<1>18. QED
    BY <1>9, <1>10, <1>11, <1>12, <1>13, <1>14, <1>15, <1>16, <1>17

(* While nothing went wrong, no reader waits for a preflight that does not *)
(* come.                                                                   *)
LEMMA NoLateAccept ==
    ASSUME IrohInv, troubles = 0, Idle, NEW c \in Conns, NEW n \in Nodes, EndAt(c, n),
           reader[c][n] = "accept"
    PROVE  FALSE
<1> USE DEF IrohInv, ShapeInv
<1>1. CalmInv
    BY DEF CalmIsCalm
<1>2. /\ c \in Made /\ conn[c].from \in Nodes /\ conn[c].to \in Nodes
      /\ EndAt(c, conn[c].from) /\ Peer(c, conn[c].from) = conn[c].to
      /\ EndAt(c, conn[c].to) /\ Peer(c, conn[c].to) = conn[c].from
    BY MadeEnds DEF EndAt
<1>3. /\ closes = {}
      /\ \A s \in Senders : snd[s].at \notin Dialing
    BY DEF Idle, Dialing, At
<1>4. ASSUME NEW e \in {conn[c].from, conn[c].to}
      PROVE  /\ reader[c][e] \in {"done", "accept", "read"}
             /\ reader[c][e] = "accept" => ended[c][e] = "open" /\ <<c, e>> \notin preflights
    BY <1>2 DEF Idle, EndsOf
<1>5. reader[c][conn[c].to] # "accept"
    BY <1>1, <1>2, <1>3, <1>4 DEF CalmInv, CalmWaits
<1>6. n = conn[c].from
    BY <1>5 DEF EndAt
<1>7. CASE reader[c][conn[c].to] = "read"
    BY <1>2, <1>4, <1>6, <1>7 DEF AnswerInv
<1>8. CASE reader[c][conn[c].to] = "done"
    <2>1. ended[c][conn[c].to] # "open" /\ ended[c][n] = "open"
        BY <1>2, <1>4, <1>6, <1>8 DEF EndInv
    <2>2. QED
        BY <1>1, <1>2, <1>3, <1>6, <2>1 DEF CalmInv, CalmFrames
<1>9. QED
    BY <1>4, <1>5, <1>7, <1>8

(* The preflight comes too late. *)
LEMMA PreflightTimeoutKeeps ==
    ASSUME IrohInv, NEW c \in Conns, NEW n \in Nodes, PreflightTimeout(c, n)
    PROVE  IrohInv'
<1> USE DEF IrohInv, ShapeInv
<1>1. UNCHANGED <<conn, life, slot, ended, closes, preflights, inbox, snd, leaving,
   unresponsive, owed>>
    BY DEF PreflightTimeout, registry, wire, seen
<1>2. SameEnds
    BY <1>1, NoneMade
<1>3. reader[c][n] = "accept"
    BY DEF PreflightTimeout
<1>4. /\ EndAt(c, n) /\ Peer(c, n) \in Nodes /\ Peer(c, n) # n
      /\ EndAt(c, Peer(c, n)) /\ Peer(c, Peer(c, n)) = n /\ c \in Made /\ c # 0
    BY <1>3, ReaderHasEnd, PeerIsNode, ConnsAssumption DEF EndAt
<1>5. reader' \in [Conns -> [Nodes -> ReaderStages]] /\ (Moves(c, n, "exit") \/ (Moves(c, n,
   "exitNoUrl") /\ conn[c].from # n))
    BY ReaderMoves DEF PreflightTimeout, HasUrl, ReaderStages
<1>6. troubles' \in 0 .. MaxTroubles
    BY LimitsAssumption DEF PreflightTimeout, Due, Trouble, IrohTypeOK
<1>7. troubles' # 0
    <2>1. CASE Idle
        <3>1. troubles' = troubles
            BY <2>1 DEF PreflightTimeout, Due
        <3>2. troubles # 0
            BY <1>3, <1>4, <2>1, NoLateAccept
        <3>3. QED
            BY <3>1, <3>2
    <2>2. CASE ~Idle
        BY <2>2 DEF PreflightTimeout, Due, Trouble, IrohTypeOK
    <2>3. QED
        BY <2>1, <2>2
<1>8. IrohTypeOK'
    BY <1>1, <1>2, <1>3, <1>4, <1>5, <1>6, <1>7 DEF IrohTypeOK
<1>9. EntriesInv' /\ HoldersInv' /\ WireInv' /\ LockInv' /\ FramesInv'
    BY <1>1, Untouched
<1>10. EndsInv'
    BY <1>1, <1>2, <1>4, <1>5 DEF EndsInv, SameEnds, Moves
<1>11. DialInv'
    <2>1. \A d \in Conns, e \in Nodes :
             \/ reader'[d][e] = reader[d][e]
             \/ reader'[d][e] \in {"exit", "exitNoUrl"}
        BY <1>5 DEF Moves
    <2>2. \A t \in Senders : snd[t].at \in Dialing =>
             snd[t].c \in Conns /\ Home[t] \in Nodes /\ Target[t] \in Nodes
        BY SenderHasEnd DEF Dialing, Holding, SendStages
    <2>3. QED
        BY <1>1, <2>1, <2>2 DEF DialInv
<1>12. AnswerInv'
    BY <1>1, <1>2, <1>3, <1>4, <1>5, MadeEnds DEF AnswerInv, SameEnds, Moves, EndAt
<1>13. EndInv'
    BY <1>1, <1>3, <1>5 DEF EndInv, Moves, Early
<1>14. ReadInv'
    BY <1>1, <1>2, <1>5 DEF ReadInv, SameEnds, Moves
<1>15. ReplaceInv'
    <2>1. \A t \in Senders : snd[t].at \in {"check", "replace"} =>
             Home[t] \in Nodes /\ snd[t].c \in Conns
        BY SenderHasEnd DEF Holding, SendStages
    <2>2. \A d \in Conns, e \in Nodes :
             /\ reader[d][e] \notin Early => reader'[d][e] \notin Early
             /\ reader'[d][e] = "read" => reader[d][e] = "read"
        BY <1>3, <1>5 DEF Moves, Early
    <2>3. QED
        BY <1>1, <2>1, <2>2 DEF ReplaceInv, IsSuperseded, At
<1>16. OwedInv'
    BY <1>1, <1>2, <1>3, <1>5 DEF OwedInv, IsSuperseded, SameEnds, Moves
<1>17. CalmIsCalm'
    BY <1>7 DEF CalmIsCalm
<1>18. QED
    BY <1>8, <1>9, <1>10, <1>11, <1>12, <1>13, <1>14, <1>15, <1>16, <1>17

(* A reader that never learned who it reads from cleans up. *)
LEMMA CleanupNoUrlKeeps ==
    ASSUME IrohInv, NEW c \in Conns, NEW n \in Nodes, CleanupNoUrl(c, n)
    PROVE  IrohInv'
<1> USE DEF IrohInv, ShapeInv
<1>1. UNCHANGED <<conn, slot, inbox, snd, leaving, unresponsive, owed, troubles>>
    BY DEF CleanupNoUrl, registry, wire, seen
<1>2. SameEnds
    BY <1>1, NoneMade
<1>3. /\ reader[c][n] \in {"accept", "exitNoUrl"} /\ conn[c].from # n
      /\ ended[c][n] # "open" \/ reader[c][n] = "exitNoUrl"
    BY DEF CleanupNoUrl, HasUrl, Exits
<1>4. /\ EndAt(c, n) /\ Peer(c, n) \in Nodes /\ Peer(c, n) # n
      /\ EndAt(c, Peer(c, n)) /\ Peer(c, Peer(c, n)) = n /\ c \in Made /\ c # 0
    BY <1>3, ReaderHasEnd, PeerIsNode, ConnsAssumption DEF EndAt
<1>5. life' \in [Conns -> [Nodes -> {"none"} \cup Live \cup Terminal]] /\ Marks(c, n,
   "Closed")
    BY <1>4, MarkEnds DEF CleanupNoUrl, Terminal
<1>6. ended' \in [Conns -> [Nodes -> {"open", "local", "lost"} \cup Codes]] /\ closes'
   \subseteq Conns \X Nodes \X Codes /\ Shuts(c, n, "Unspecified")
    BY <1>4, EndShuts DEF CleanupNoUrl, Codes
<1>7. reader' \in [Conns -> [Nodes -> ReaderStages]] /\ Moves(c, n, "done")
    BY ReaderMoves DEF CleanupNoUrl, ReaderStages
<1>8. /\ preflights' \subseteq preflights
      /\ \A d \in Conns, e \in Nodes : <<d, e>> \in preflights /\ ~(d = c /\ e = n) => <<d, e>> \in preflights' 
    BY DEF CleanupNoUrl, NotTo
<1>9. \A d \in Conns, e \in Nodes : IsSuperseded(d, e) => IsSuperseded(d, e)'
    BY <1>5, <1>6 DEF IsSuperseded, Marks, Shuts, Live
<1>10. IrohTypeOK'
    BY <1>1, <1>2, <1>3, <1>4, <1>5, <1>6, <1>7, <1>8, <1>9 DEF IrohTypeOK
<1>11. EntriesInv' /\ HoldersInv' /\ LockInv'
    BY <1>1, Untouched
<1>12. EndsInv'
    <2>1. \A d \in Conns, e \in Nodes :
             /\ life'[d][e] = "none" <=> life[d][e] = "none"
             /\ ended'[d][e] = ended[d][e] \/ EndAt(d, e)
        BY <1>4, <1>5, <1>6 DEF Marks, Shuts, Live
    <2>2. QED
        BY <1>1, <1>2, <1>4, <1>7, <2>1 DEF EndsInv, SameEnds, Moves
<1>13. WireInv'
    <2>1. \A d \in Conns, e \in Nodes, l \in Codes : <<d, e, l>> \in closes' =>
             <<d, e, l>> \in closes \/ EndAt(d, e)
        BY <1>4, <1>6 DEF Shuts
    <2>2. QED
        BY <1>1, <1>2, <1>8, <2>1 DEF WireInv, SameEnds
<1>14. DialInv'
    <2>1. \A d \in Conns, e \in Nodes :
             reader'[d][e] = reader[d][e] \/ reader'[d][e] = "done"
        BY <1>7 DEF Moves
    <2>2. \A t \in Senders : snd[t].at \in Dialing =>
             snd[t].c \in Conns /\ Home[t] \in Nodes /\ Target[t] \in Nodes
        BY SenderHasEnd DEF Dialing, Holding, SendStages
    <2>3. QED
        BY <1>1, <1>8, <2>1, <2>2 DEF DialInv
<1>15. AnswerInv'
    BY <1>1, <1>2, <1>3, <1>4, <1>7, <1>8, MadeEnds DEF AnswerInv, SameEnds, Moves, EndAt
<1>16. EndInv'
    <2>1. \A d \in Conns, e \in Nodes : ended[d][e] # "open" => ended'[d][e] # "open"
        BY <1>6 DEF Shuts
    <2>2. life'[c][n] \notin Live /\ ended'[c][n] # "open"
        BY <1>5, <1>6 DEF Marks, Shuts, Live
    <2>3. ASSUME NEW d \in Conns, NEW e \in Nodes, ~(d = c /\ e = n)
          PROVE  life'[d][e] = life[d][e] /\ reader'[d][e] = reader[d][e]
        BY <1>5, <1>7, <2>3 DEF Marks, Moves
    <2>4. reader'[c][n] = "done" /\ "Active" \in Live /\ "Pending" \in Live /\ "done" \notin Early
        BY <1>7 DEF Moves, Live, Early
    <2>5. QED
        BY <2>1, <2>2, <2>3, <2>4 DEF EndInv
<1>17. ReadInv'
    BY <1>1, <1>2, <1>6, <1>7 DEF ReadInv, SameEnds, Moves, Shuts
<1>18. ReplaceInv'
    <2>1. \A t \in Senders : snd[t].at \in {"check", "replace"} =>
             Home[t] \in Nodes /\ snd[t].c \in Conns
        BY SenderHasEnd DEF Holding, SendStages
    <2>2. \A d \in Conns, e \in Nodes :
             /\ reader[d][e] \notin Early => reader'[d][e] \notin Early
             /\ reader'[d][e] = "read" => reader[d][e] = "read"
        BY <1>7 DEF Moves, Early
    <2>3. QED
        BY <1>1, <1>9, <2>1, <2>2 DEF ReplaceInv, At
<1>19. FramesInv'
    <2>1. \A d \in Conns, e \in Nodes, l \in Codes : <<d, e, l>> \in closes => Peer(d, e) \in Nodes
        BY PeerIsNode DEF WireInv
    <2>2. QED
        BY <1>2, <1>4, <1>6, <2>1 DEF FramesInv, SameEnds, Shuts
<1>20. OwedInv'
    <2>1. <<c, n>> \notin owed
        BY <1>3 DEF OwedInv
    <2>2. \A d \in Conns, e \in Nodes :
             <<d, e>> \in owed => life'[d][e] = life[d][e] /\ reader'[d][e] = reader[d][e]
        BY <1>5, <1>7, <2>1 DEF Marks, Moves
    <2>3. QED
        BY <1>1, <1>2, <1>9, <2>2 DEF OwedInv, SameEnds
<1>21. ASSUME troubles' = 0 PROVE OneChampion'
    BY <1>21, <1>1, Untouched DEF CalmIsCalm, CalmInv
<1>22. ASSUME troubles' = 0 PROVE Quiet'
    <2>1. ended[c][n] # "open" /\ Quiet
        BY <1>22, <1>1, <1>3 DEF CalmIsCalm, CalmInv, CalmEnds
    <2>2. QED
        BY <1>1, <1>6, <2>1 DEF Quiet, Shuts
<1>23. ASSUME troubles' = 0 PROVE CalmEnds'
    <2>1. ended[c][n] # "open" /\ CalmEnds
        BY <1>23, <1>1, <1>3 DEF CalmIsCalm, CalmInv, CalmEnds
    <2>2. ASSUME NEW d \in Conns, NEW e \in Nodes, ~(d = c /\ e = n)
          PROVE  life'[d][e] = life[d][e] /\ reader'[d][e] = reader[d][e] /\ ended'[d][e] = ended[d][e]
        BY <1>5, <1>6, <1>7, <2>2 DEF Marks, Moves, Shuts
    <2>3. reader'[c][n] = "done"
        BY <1>7 DEF Moves
    <2>4. IsSuperseded(c, n)'
        BY <1>9, <2>1 DEF CalmEnds
    <2>5. QED
        BY <1>9, <2>1, <2>2, <2>3, <2>4 DEF CalmEnds
<1>24. ASSUME troubles' = 0 PROVE CalmSlots'
    <2>1. CalmSlots
        BY <1>24, <1>1 DEF CalmIsCalm, CalmInv
    <2>2. n = conn[c].to
        BY <1>3, <1>4 DEF EndAt
    <2>3. slot[n][Peer(c, n)] # c
        BY <1>24, <1>1, <1>3, <1>4, <2>1, <2>2 DEF CalmIsCalm, CalmInv, CalmEnds, CalmSlots
    <2>4. QED
        BY <1>1, <1>2, <1>5, <1>7, <2>1, <2>3 DEF CalmSlots, SameEnds, Marks, Moves
<1>25. ASSUME troubles' = 0 PROVE CalmAnswers'
    BY <1>25, <1>1, <1>2, <1>7, <1>9 DEF CalmAnswers, IsSuperseded, SameEnds, CalmIsCalm,
       CalmInv, Moves
<1>26. ASSUME troubles' = 0 PROVE CalmFrames'
    <2>1. CalmFrames /\ ended[c][n] # "open"
        BY <1>26, <1>1, <1>3 DEF CalmIsCalm, CalmInv, CalmEnds
    <2>2. \A d \in Conns, e \in Nodes : EndAt(d, e) => Peer(d, e) \in Nodes
        BY PeerIsNode
    <2>3. \A d \in Conns, e \in Nodes :
             /\ ended'[d][e] = "open" <=> ended[d][e] = "open"
             /\ <<d, e, "Superseded">> \in closes /\ ended[d][e] = "open" => <<d, e, "Superseded">> \in closes'
        BY <1>6, <2>1 DEF Shuts, Codes
    <2>4. ASSUME NEW d \in Conns, NEW e \in Nodes, EndAt(d, e), ended'[d][e] # "open",
                 ended'[d][Peer(d, e)] = "open"
          PROVE  <<d, Peer(d, e), "Superseded">> \in closes'
        <3>1. Peer(d, e) \in Nodes
            BY <2>2, <2>4
        <3>2. ended[d][e] # "open" /\ ended[d][Peer(d, e)] = "open"
            BY <2>3, <2>4, <3>1
        <3>3. <<d, Peer(d, e), "Superseded">> \in closes
            BY <2>1, <2>4, <3>2 DEF CalmFrames
        <3>4. QED
            BY <2>3, <3>1, <3>2, <3>3
    <2>5. QED
        BY <1>2, <2>4 DEF CalmFrames, SameEnds
<1>27. ASSUME troubles' = 0 PROVE CalmWaits'
    <2>1. CalmWaits
        BY <1>27, <1>1 DEF CalmIsCalm, CalmInv
    <2>2. \A d \in Conns, e \in Nodes : ~(d = c /\ e = n) =>
             /\ reader'[d][e] = reader[d][e] /\ ended'[d][e] = ended[d][e]
             /\ <<d, e>> \in preflights => <<d, e>> \in preflights'
             /\ <<d, e, "Superseded">> \in closes => <<d, e, "Superseded">> \in closes'
        BY <1>6, <1>7, <1>8 DEF Moves, Shuts, Codes
    <2>3. reader'[c][n] # "accept"
        BY <1>7 DEF Moves
    <2>4. QED
        BY <1>1, <1>2, <2>1, <2>2, <2>3 DEF CalmWaits, SameEnds
<1>28. ASSUME troubles' = 0 PROVE CalmDials'
    <2>1. CalmDials /\ ended[c][n] # "open"
        BY <1>28, <1>1, <1>3 DEF CalmIsCalm, CalmInv, CalmEnds
    <2>2. \A t \in Senders : At(t, "register") =>
             /\ snd[t].c \in Conns /\ Home[t] \in Nodes /\ Target[t] \in Nodes
        BY SenderHasEnd DEF At, Holding, SendStages
    <2>3. ASSUME NEW t \in Senders, At(t, "register"), NEW e \in {Home[t], Target[t]}
          PROVE  ~(snd[t].c = c /\ e = n)
        BY <2>1, <2>3 DEF CalmDials
    <2>4. ASSUME NEW d \in Conns, NEW e \in Nodes, ~(d = c /\ e = n)
          PROVE  life'[d][e] = life[d][e] /\ reader'[d][e] = reader[d][e] /\ ended'[d][e] = ended[d][e]
        BY <1>5, <1>6, <1>7, <2>4 DEF Marks, Moves, Shuts
    <2>5. QED
        BY <1>1, <2>1, <2>2, <2>3, <2>4 DEF CalmDials, At
<1>29. ASSUME troubles' = 0 PROVE ChampionLives'
    <2>1. ChampionLives /\ ended[c][n] # "open"
        BY <1>29, <1>1, <1>3 DEF CalmIsCalm, CalmInv, CalmEnds
    <2>2. ~Champion(c)
        BY <1>4, <2>1 DEF ChampionLives, Kept, EndAt
    <2>3. ASSUME NEW d \in Conns, Champion(d) PROVE Kept(d)'
        <3>1. Kept(d) /\ d \in Made /\ d # c
            BY <2>1, <2>2, <2>3 DEF ChampionLives, Champion
        <3>2. conn[d].from \in Nodes /\ conn[d].to \in Nodes
            BY <3>1, MadeEnds
        <3>3. \A e \in Nodes :
                 life'[d][e] = life[d][e] /\ reader'[d][e] = reader[d][e] /\ ended'[d][e] = ended[d][e]
            BY <1>5, <1>6, <1>7, <3>1 DEF Marks, Moves, Shuts
        <3>4. QED
            BY <1>1, <1>2, <3>1, <3>2, <3>3 DEF Kept, SameEnds, At
    <2>4. QED
        BY <1>2, <2>3 DEF ChampionLives, SameEnds
<1>30. CalmIsCalm'
    BY <1>21, <1>22, <1>23, <1>24, <1>25, <1>26, <1>27, <1>28, <1>29 DEF CalmIsCalm, CalmInv
<1>31. QED
    BY <1>10, <1>11, <1>12, <1>13, <1>14, <1>15, <1>16, <1>17, <1>18, <1>19, <1>20, <1>30

(* A reader that leaves its loop gives up the slot. *)
LEMMA CleanupSlotKeeps ==
    ASSUME IrohInv, NEW c \in Conns, NEW n \in Nodes, CleanupSlot(c, n)
    PROVE  IrohInv'
<1> USE DEF IrohInv, ShapeInv
<1>1. UNCHANGED <<conn, life, ended, closes, preflights, inbox, snd, leaving, unresponsive,
   owed, troubles>>
    BY DEF CleanupSlot, registry, wire, seen
<1>2. SameEnds
    BY <1>1, NoneMade
<1>3. \/ reader[c][n] \in {"accept", "read"} /\ ended[c][n] # "open"
      \/ reader[c][n] \in {"exit", "exitQuiet", "exitNoUrl"}
    BY DEF CleanupSlot, Exits
<1>4. /\ EndAt(c, n) /\ Peer(c, n) \in Nodes /\ Peer(c, n) # n
      /\ EndAt(c, Peer(c, n)) /\ Peer(c, Peer(c, n)) = n /\ c \in Made /\ c # 0
    BY <1>3, ReaderHasEnd, PeerIsNode, ConnsAssumption DEF EndAt
<1>5. slot' \in [Nodes -> [Nodes -> Conns \cup {0}]] /\ Drops(c, n)
    BY <1>4, EntryDrops DEF CleanupSlot
<1>6. \/ slot[n][Peer(c, n)] # c /\ Unregistered(c, n) /\ ReaderGoes(c, n, "inactive")
      \/ slot[n][Peer(c, n)] = c /\ reader[c][n] = "exitQuiet" /\ ReaderGoes(c, n, "goneQuiet")
      \/ slot[n][Peer(c, n)] = c /\ reader[c][n] # "exitQuiet" /\ ReaderGoes(c, n, "gone")
    BY DEF CleanupSlot
<1>7. reader' \in [Conns -> [Nodes -> ReaderStages]]
      /\ \/ slot[n][Peer(c, n)] # c /\ Unregistered(c, n) /\ Moves(c, n, "inactive")
         \/ slot[n][Peer(c, n)] = c /\ reader[c][n] = "exitQuiet" /\ Moves(c, n, "goneQuiet")
         \/ slot[n][Peer(c, n)] = c /\ reader[c][n] # "exitQuiet" /\ Moves(c, n, "gone")
    BY <1>6, ReaderMoves DEF ReaderStages
<1>8. \A d \in Conns, e \in Nodes :
         \/ reader'[d][e] = reader[d][e] /\ ~(d = c /\ e = n)
         \/ d = c /\ e = n /\ reader'[d][e] \in {"inactive", "gone", "goneQuiet"}
    BY <1>7 DEF Moves
<1>9. \A d \in Conns, e \in Nodes : EndAt(d, e) =>
         \/ slot'[e][Peer(d, e)] = slot[e][Peer(d, e)]
         \/ /\ slot[e][Peer(d, e)] = c /\ slot'[e][Peer(d, e)] = 0
            /\ e = n /\ Peer(d, e) = Peer(c, n)
    BY <1>5, PeerIsNode DEF Drops
<1>10. \A t \in Senders : snd[t].at \in Holding =>
         /\ snd[t].c \in Conns /\ snd[t].c # 0
         /\ Home[t] \in Nodes /\ Target[t] \in Nodes /\ Home[t] # Target[t]
         /\ EndAt(snd[t].c, Home[t]) /\ EndAt(snd[t].c, Target[t])
         /\ Peer(snd[t].c, Home[t]) = Target[t]
    BY SenderHasEnd
<1>11. IrohTypeOK'
    BY <1>1, <1>2, <1>3, <1>4, <1>5, <1>6, <1>7, <1>8, <1>9, <1>10 DEF IrohTypeOK
<1>12. HoldersInv' /\ WireInv' /\ LockInv' /\ FramesInv'
    BY <1>1, Untouched
<1>13. EndsInv'
    BY <1>1, <1>2, <1>4, <1>8 DEF EndsInv, SameEnds
<1>14. EntriesInv'
    BY <1>2, <1>5 DEF EntriesInv, SameEnds, IrohTypeOK, Drops
<1>15. DialInv'
    <2>1. \A t \in Senders : snd[t].at \in Dialing =>
             snd[t].c \in Conns /\ Home[t] \in Nodes /\ Target[t] \in Nodes
        BY <1>10 DEF Dialing, Holding, SendStages
    <2>2. QED
        BY <1>1, <1>8, <2>1 DEF DialInv
<1>16. AnswerInv'
    BY <1>1, <1>2, <1>3, <1>4, <1>8, MadeEnds DEF AnswerInv, SameEnds, EndAt
<1>17. EndInv'
    BY <1>1, <1>3, <1>8 DEF EndInv, Early
<1>18. ReadInv'
    BY <1>1, <1>2, <1>8, <1>9, ReaderHasEnd DEF ReadInv, SameEnds
<1>19. ReplaceInv'
    <2>1. \A t \in Senders : snd[t].at \in {"check", "replace"} =>
             Home[t] \in Nodes /\ Target[t] \in Nodes /\ snd[t].c \in Conns /\ snd[t].c # 0
        BY <1>10 DEF Holding, SendStages
    <2>2. \A d \in Conns, e \in Nodes :
             /\ reader[d][e] \notin Early => reader'[d][e] \notin Early
             /\ reader'[d][e] = "read" => reader[d][e] = "read"
        BY <1>8 DEF Early
    <2>3. \A k, l \in Nodes : slot'[k][l] \in {slot[k][l], 0}
        BY <1>5 DEF Drops
    <2>4. QED
        BY <1>1, <2>1, <2>2, <2>3 DEF ReplaceInv, IsSuperseded, At
<1>20. OwedInv'
    <2>1. <<c, n>> \in owed => reader'[c][n] = "gone"
        <3>1. <<c, n>> \in owed => reader[c][n] = "read"
            BY <1>3 DEF OwedInv
        <3>2. Unregistered(c, n) => reader[c][n] # "read"
            BY DEF Unregistered, At, DialInv, Dialing
        <3>3. QED
            BY <1>7, <3>1, <3>2 DEF Moves
    <2>2. QED
        BY <1>1, <1>2, <1>8, <1>9, <2>1 DEF OwedInv, WireInv, SameEnds, IsSuperseded
<1>21. ASSUME troubles' = 0 PROVE Quiet' /\ CalmFrames' /\ OneChampion'
    BY <1>21, <1>1, Untouched DEF CalmIsCalm, CalmInv
<1>22. ASSUME troubles' = 0 PROVE CalmEnds'
    <2>1. CalmEnds
        BY <1>22, <1>1 DEF CalmIsCalm, CalmInv
    <2>2. IsSuperseded(c, n) /\ reader[c][n] # "exitQuiet" /\ life[c][n] # "Closed"
        BY <1>3, <2>1 DEF CalmEnds
    <2>3. reader'[c][n] \in {"inactive", "gone"}
        BY <1>7, <2>2 DEF Moves
    <2>4. QED
        BY <1>1, <1>8, <2>1, <2>2, <2>3 DEF CalmEnds, IsSuperseded
<1>23. ASSUME troubles' = 0 PROVE CalmSlots'
    <2>1. CalmSlots
        BY <1>23, <1>1 DEF CalmIsCalm, CalmInv
    <2>2. slot'[n][Peer(c, n)] # c
        BY <1>4, <1>5 DEF Drops
    <2>3. \A d \in Conns : d # 0
        BY ConnsAssumption
    <2>4. QED
        BY <1>1, <1>2, <1>8, <1>9, <2>1, <2>2, <2>3 DEF CalmSlots, SameEnds
<1>24. ASSUME troubles' = 0 PROVE CalmAnswers'
    <2>1. CalmAnswers
        BY <1>24, <1>1 DEF CalmIsCalm, CalmInv
    <2>2. ASSUME NEW d \in Conns, NEW e \in Nodes, EndAt(d, e), reader'[d][e] \in {"reply", "activate"}
          PROVE  slot'[e][Peer(d, e)] = d \/ IsSuperseded(d, e)
        BY <1>3, <1>8, <1>9, <2>1, <2>2 DEF CalmAnswers
    <2>3. QED
        BY <1>1, <1>2, <2>2 DEF CalmAnswers, SameEnds, IsSuperseded
<1>25. ASSUME troubles' = 0 PROVE CalmWaits'
    <2>1. CalmWaits
        BY <1>25, <1>1 DEF CalmIsCalm, CalmInv
    <2>2. QED
        BY <1>1, <1>2, <1>8, <2>1 DEF CalmWaits, SameEnds
<1>26. ASSUME troubles' = 0 PROVE CalmDials'
    <2>1. CalmDials
        BY <1>26, <1>1 DEF CalmIsCalm, CalmInv
    <2>2. \A t \in Senders : At(t, "register") =>
             snd[t].c \in Conns /\ snd[t].c # 0 /\ Home[t] \in Nodes /\ Target[t] \in Nodes
        BY <1>10 DEF At, Holding, SendStages
    <2>3. \A k, l \in Nodes : slot'[k][l] \in {slot[k][l], 0}
        BY <1>5 DEF Drops
    <2>4. ASSUME NEW t \in Senders, At(t, "register"), NEW e \in {Home[t], Target[t]}
          PROVE  ~(snd[t].c = c /\ e = n)
        BY <1>3, <2>1, <2>4 DEF CalmDials
    <2>5. QED
        BY <1>1, <1>8, <2>1, <2>2, <2>3, <2>4 DEF CalmDials, At
<1>27. ASSUME troubles' = 0 PROVE ChampionLives'
    <2>1. ChampionLives
        BY <1>27, <1>1 DEF CalmIsCalm, CalmInv
    <2>2. ~Champion(c)
        BY <1>3, <1>4, <2>1 DEF ChampionLives, Kept, EndAt
    <2>3. ASSUME NEW d \in Conns, Champion(d) PROVE Kept(d)'
        <3>1. Kept(d) /\ d \in Made /\ d # c
            BY <2>1, <2>2, <2>3 DEF ChampionLives, Champion
        <3>2. conn[d].from \in Nodes /\ conn[d].to \in Nodes
            BY <3>1, MadeEnds
        <3>3. \A e \in Nodes : reader'[d][e] = reader[d][e]
            BY <1>8, <3>1
        <3>4. \A k, l \in Nodes : slot[k][l] = d => slot'[k][l] = d
            BY <1>5, <3>1 DEF Drops
        <3>5. QED
            BY <1>1, <1>2, <3>1, <3>2, <3>3, <3>4 DEF Kept, SameEnds, At
    <2>4. QED
        BY <1>2, <2>3 DEF ChampionLives, SameEnds
<1>28. CalmIsCalm'
    BY <1>21, <1>22, <1>23, <1>24, <1>25, <1>26, <1>27 DEF CalmIsCalm, CalmInv
<1>29. QED
    BY <1>11, <1>12, <1>13, <1>14, <1>15, <1>16, <1>17, <1>18, <1>19, <1>20, <1>28

(* A reader that holds the slot goes into use. *)
LEMMA ActivateReaderKeeps ==
    ASSUME IrohInv, NEW c \in Conns, NEW n \in Nodes, ActivateReader(c, n)
    PROVE  IrohInv'
<1> USE DEF IrohInv, ShapeInv
<1>1. UNCHANGED <<conn, slot, ended, closes, preflights, inbox, snd, leaving, unresponsive,
   troubles>>
    BY DEF ActivateReader, registry, wire, seen
<1>2. SameEnds
    BY <1>1, NoneMade
<1>3. reader[c][n] = "activate"
    BY DEF ActivateReader
<1>4. /\ EndAt(c, n) /\ Peer(c, n) \in Nodes /\ Peer(c, n) # n
      /\ EndAt(c, Peer(c, n)) /\ Peer(c, Peer(c, n)) = n /\ c \in Made /\ c # 0
    BY <1>3, ReaderHasEnd, PeerIsNode, ConnsAssumption DEF EndAt
<1>5. \/ /\ slot[n][Peer(c, n)] = c /\ life[c][n] \in Live
         /\ life' = [life EXCEPT ![c][n] = "Active"] /\ owed' = owed \cup {<<c, n>>}
         /\ ReaderGoes(c, n, "read")
      \/ /\ slot[n][Peer(c, n)] = c /\ life[c][n] \notin Live
         /\ UNCHANGED <<life, owed>> /\ ReaderGoes(c, n, "exit")
      \/ /\ slot[n][Peer(c, n)] # c
         /\ UNCHANGED <<life, owed>> /\ ReaderGoes(c, n, "inactive")
    BY DEF ActivateReader, CanActivate
<1>6. life' \in [Conns -> [Nodes -> {"none"} \cup Live \cup Terminal]]
    BY <1>5 DEF IrohTypeOK, Live
<1>7. \A d \in Conns, e \in Nodes : ~(d = c /\ e = n) => reader'[d][e] = reader[d][e]
    BY <1>5, ReaderMoves DEF ReaderStages, Moves
<1>8. \A d \in Conns, e \in Nodes : ~(d = c /\ e = n) => life'[d][e] = life[d][e]
    BY <1>5 DEF IrohTypeOK
<1>9. \/ /\ slot[n][Peer(c, n)] = c /\ life[c][n] \in Live
         /\ reader'[c][n] = "read" /\ life'[c][n] = "Active"
      \/ /\ slot[n][Peer(c, n)] = c /\ life[c][n] \notin Live
         /\ reader'[c][n] = "exit" /\ UNCHANGED <<life, owed>>
      \/ /\ slot[n][Peer(c, n)] # c
         /\ reader'[c][n] = "inactive" /\ UNCHANGED <<life, owed>>
    BY <1>5 DEF IrohTypeOK, ReaderGoes
<1>10. \A t \in Senders : snd[t].at \in Dialing =>
         snd[t].c # c /\ snd[t].c \in Conns /\ Home[t] \in Nodes /\ Target[t] \in Nodes
    BY <1>3, <1>4, DialIsUnheard
<1>11. \A d \in Conns, e \in Nodes : IsSuperseded(d, e) => IsSuperseded(d, e)'
    <2>1. ASSUME NEW d \in Conns, NEW e \in Nodes, life[d][e] = "Superseded"
          PROVE  life'[d][e] = "Superseded"
        BY <1>8, <1>9, <2>1 DEF Live
    <2>2. QED
        BY <1>1, <2>1 DEF IsSuperseded
<1>12. reader' \in [Conns -> [Nodes -> ReaderStages]]
    BY <1>5, ReaderMoves DEF ReaderStages
<1>13. \A d \in Conns, e \in Nodes : <<d, e>> \in owed' => <<d, e>> \in owed \/ (d = c /\ e
   = n)
    BY <1>5
<1>14. IrohTypeOK'
    <2>1. owed' \subseteq Conns \X Nodes
        BY <1>5 DEF IrohTypeOK
    <2>2. QED
        BY <1>1, <1>6, <1>12, <2>1 DEF IrohTypeOK
<1>15. EntriesInv' /\ HoldersInv' /\ LockInv' /\ FramesInv'
    BY <1>1, Untouched
<1>16. EndsInv'
    BY <1>1, <1>2, <1>4, <1>7, <1>8, <1>9 DEF EndsInv, SameEnds, Live
<1>17. WireInv'
    <2>1. \A d \in Conns, e \in Nodes : <<d, e>> \in owed' => EndAt(d, e)
        BY <1>4, <1>13 DEF WireInv
    <2>2. QED
        BY <1>1, <1>2, <2>1 DEF WireInv, SameEnds
<1>18. DialInv'
    <2>1. \A t \in Senders : snd[t].at \in Dialing =>
             /\ reader'[snd[t].c][Home[t]] = reader[snd[t].c][Home[t]]
             /\ reader'[snd[t].c][Target[t]] = reader[snd[t].c][Target[t]]
        BY <1>7, <1>10 DEF Moves
    <2>2. QED
        BY <1>1, <2>1 DEF DialInv
<1>19. AnswerInv'
    <2>1. reader'[c][n] \in {"read", "exit", "inactive"}
        BY <1>9
    <2>2. QED
        BY <1>1, <1>2, <1>3, <1>4, <1>7, <2>1, MadeEnds DEF AnswerInv, SameEnds, EndAt
<1>20. EndInv'
    <2>1. /\ reader'[c][n] = "read" => life'[c][n] = "Active"
          /\ reader'[c][n] # "read" => life'[c][n] = life[c][n]
          /\ reader'[c][n] \in {"read", "exit", "inactive"}
        BY <1>9
    <2>2. life[c][n] # "Active" /\ (life[c][n] = "Superseded" => ended[c][n] # "open")
        BY <1>3 DEF EndInv, Early
    <2>3. QED
        BY <1>1, <1>7, <1>8, <2>1, <2>2 DEF EndInv, Early
<1>21. ReadInv'
    BY <1>1, <1>2, <1>7, <1>9 DEF ReadInv, SameEnds
<1>22. ReplaceInv'
    <2>1. \A t \in Senders : snd[t].at \in {"check", "replace"} =>
             Home[t] \in Nodes /\ Target[t] \in Nodes /\ snd[t].c \in Conns
             /\ Peer(snd[t].c, Home[t]) = Target[t]
        BY SenderHasEnd DEF Holding, SendStages
    <2>2. \A t \in Senders : At(t, "check") => ~(snd[t].c = c /\ Home[t] = n)
        BY <1>3 DEF ReplaceInv, Early
    <2>3. \A t \in Senders : At(t, "replace") /\ snd[t].c = c /\ Home[t] = n => IsSuperseded(c, n)
        BY <1>3 DEF ReplaceInv, Early
    <2>4. ASSUME NEW t \in Senders, At(t, "check") PROVE reader'[snd[t].c][Home[t]] \notin Early
        BY <1>7, <2>1, <2>2, <2>4 DEF ReplaceInv, At
    <2>5. ASSUME NEW t \in Senders, At(t, "replace")
          PROVE  \/ IsSuperseded(snd[t].c, Home[t])'
                 \/ /\ reader'[snd[t].c][Home[t]] \notin Early
                    /\ reader'[snd[t].c][Home[t]] = "read" => slot[Home[t]][Target[t]] # snd[t].c
        <3>1. snd[t].c \in Conns /\ Home[t] \in Nodes
            BY <2>1, <2>5 DEF At
        <3>2. CASE IsSuperseded(snd[t].c, Home[t])
            BY <1>1, <1>11, <3>1, <3>2 DEF IsSuperseded
        <3>3. CASE ~IsSuperseded(snd[t].c, Home[t])
            <4>1. reader'[snd[t].c][Home[t]] = reader[snd[t].c][Home[t]]
                BY <1>7, <2>3, <2>5, <3>1, <3>3
            <4>2. QED
                BY <2>5, <3>3, <4>1 DEF ReplaceInv
        <3>4. QED
            BY <3>2, <3>3
    <2>6. QED
        BY <1>1, <2>4, <2>5 DEF ReplaceInv, At
<1>23. OwedInv'
    <2>1. <<c, n>> \notin owed
        BY <1>3 DEF OwedInv
    <2>2. <<c, n>> \in owed' => slot[n][Peer(c, n)] = c /\ reader'[c][n] = "read" /\ life'[c][n] = "Active"
        BY <1>9, <2>1
    <2>3. QED
        BY <1>1, <1>2, <1>7, <1>8, <1>11, <1>13, <2>1, <2>2 DEF OwedInv, SameEnds
<1>24. ASSUME troubles' = 0 PROVE Quiet' /\ CalmFrames' /\ OneChampion'
    BY <1>24, <1>1, Untouched DEF CalmIsCalm, CalmInv
<1>25. ASSUME troubles' = 0 PROVE CalmEnds'
    <2>1. CalmEnds /\ CalmSlots /\ CalmAnswers
        BY <1>25, <1>1 DEF CalmIsCalm, CalmInv
    <2>2. slot[n][Peer(c, n)] = c => life[c][n] \in Live
        BY <1>3, <1>4, <2>1 DEF CalmSlots
    <2>3. slot[n][Peer(c, n)] # c => IsSuperseded(c, n)
        BY <1>3, <1>4, <2>1 DEF CalmAnswers
    <2>4. /\ reader'[c][n] \in {"read", "inactive"} /\ life'[c][n] # "Closed"
          /\ reader'[c][n] = "inactive" => IsSuperseded(c, n)'
        BY <1>3, <1>9, <1>11, <2>1, <2>2, <2>3 DEF CalmEnds
    <2>5. QED
        BY <1>1, <1>7, <1>8, <1>11, <2>1, <2>4 DEF CalmEnds
<1>26. ASSUME troubles' = 0 PROVE CalmSlots'
    <2>1. CalmSlots
        BY <1>26, <1>1 DEF CalmIsCalm, CalmInv
    <2>2. slot[n][Peer(c, n)] = c => life'[c][n] \in Live /\ reader'[c][n] = "read"
        BY <1>4, <1>9, <2>1 DEF CalmSlots, Live
    <2>3. QED
        BY <1>1, <1>2, <1>7, <1>8, <2>1, <2>2 DEF CalmSlots, SameEnds
<1>27. ASSUME troubles' = 0 PROVE CalmAnswers'
    <2>1. CalmAnswers
        BY <1>27, <1>1 DEF CalmIsCalm, CalmInv
    <2>2. reader'[c][n] \notin {"reply", "activate"}
        BY <1>9
    <2>3. QED
        BY <1>1, <1>2, <1>7, <1>11, <2>1, <2>2 DEF CalmAnswers, SameEnds
<1>28. ASSUME troubles' = 0 PROVE CalmWaits'
    <2>1. CalmWaits
        BY <1>28, <1>1 DEF CalmIsCalm, CalmInv
    <2>2. reader'[c][n] # "accept"
        BY <1>9
    <2>3. QED
        BY <1>1, <1>2, <1>7, <2>1, <2>2 DEF CalmWaits, SameEnds
<1>29. ASSUME troubles' = 0 PROVE CalmDials'
    <2>1. CalmDials
        BY <1>29, <1>1 DEF CalmIsCalm, CalmInv
    <2>2. \A t \in Senders : At(t, "register") =>
             snd[t].c # c /\ snd[t].c \in Conns /\ Home[t] \in Nodes /\ Target[t] \in Nodes
        BY <1>10 DEF At, Dialing
    <2>3. QED
        BY <1>1, <1>7, <1>8, <2>1, <2>2 DEF CalmDials, At
<1>30. ASSUME troubles' = 0 PROVE ChampionLives'
    <2>1. CalmInv
        BY <1>30, <1>1 DEF CalmIsCalm
    <2>2. ASSUME NEW d \in Conns, Champion(d) PROVE Kept(d)'
        <3>1. Kept(d) /\ d \in Made
            BY <2>1, <2>2 DEF CalmInv, ChampionLives, Champion
        <3>2. conn[d].from \in Nodes /\ conn[d].to \in Nodes
            BY <3>1, MadeEnds
        <3>3. d = c => slot[n][Peer(c, n)] = c /\ life[c][n] \in Live
            BY <1>3, <1>4, <1>10, <3>1 DEF Kept, EndAt, Peer, At, Dialing
        <3>4. d = c => reader'[c][n] = "read" /\ life'[c][n] \in Live
            BY <1>9, <3>3 DEF Live
        <3>5. \A e \in Nodes :
                 /\ life[d][e] \in Live => life'[d][e] \in Live
                 /\ \/ reader'[d][e] = reader[d][e]
                    \/ reader[d][e] = "activate" /\ reader'[d][e] = "read"
            BY <1>3, <1>7, <1>8, <3>4
        <3>6. QED
            BY <1>1, <1>2, <3>1, <3>2, <3>5 DEF Kept, SameEnds, At
    <2>3. QED
        BY <1>2, <2>2 DEF ChampionLives, SameEnds
<1>31. CalmIsCalm'
    BY <1>24, <1>25, <1>26, <1>27, <1>28, <1>29, <1>30 DEF CalmIsCalm, CalmInv
<1>32. QED
    BY <1>14, <1>15, <1>16, <1>17, <1>18, <1>19, <1>20, <1>21, <1>22, <1>23, <1>31

(* A reader that is through tells the handler and the remote. *)
LEMMA CleanupVerdictKeeps ==
    ASSUME IrohInv, NEW c \in Conns, NEW n \in Nodes, CleanupVerdict(c, n)
    PROVE  IrohInv'
<1> USE DEF IrohInv, ShapeInv
<1>1. UNCHANGED <<conn, slot, snd, leaving, troubles>>
    BY DEF CleanupVerdict, registry, wire, seen
<1>2. SameEnds
    BY <1>1, NoneMade
<1>3. \/ reader[c][n] \in {"inactive", "gone", "goneQuiet"}
      \/ /\ reader[c][n] \in {"accept", "read"} /\ ended[c][n] # "open"
         /\ slot[n][Peer(c, n)] # c
      \/ /\ reader[c][n] \in {"exit", "exitQuiet", "exitNoUrl"}
         /\ slot[n][Peer(c, n)] # c
    BY DEF CleanupVerdict, Exits
<1>4. /\ EndAt(c, n) /\ Peer(c, n) \in Nodes /\ Peer(c, n) # n
      /\ EndAt(c, Peer(c, n)) /\ Peer(c, Peer(c, n)) = n /\ c \in Made /\ c # 0
    BY <1>3, ReaderHasEnd, PeerIsNode, ConnsAssumption DEF EndAt
<1>5. life' \in [Conns -> [Nodes -> {"none"} \cup Live \cup Terminal]]
      /\ \/ ended[c][n] = "Superseded" /\ Marks(c, n, "Superseded")
         \/ ended[c][n] # "Superseded" /\ Marks(c, n, "Closed")
    <2>1. \/ ended[c][n] = "Superseded" /\ life' = Mark(life, c, n, "Superseded")
          \/ ended[c][n] # "Superseded" /\ life' = Mark(life, c, n, "Closed")
        BY DEF CleanupVerdict
    <2>2. QED
        BY <2>1, MarkEnds DEF Terminal
<1>6. ended' \in [Conns -> [Nodes -> {"open", "local", "lost"} \cup Codes]] /\ closes' \subseteq Conns \X Nodes \X Codes
      /\ \/ Shuts(c, n, "Superseded")
         \/ ~IsSuperseded(c, n) /\ Shuts(c, n, "Graceful")
         \/ ~IsSuperseded(c, n) /\ Shuts(c, n, "Unspecified")
    <2>1. \/ CloseConn(c, n, "Superseded")
          \/ ~IsSuperseded(c, n) /\ CloseConn(c, n, "Graceful")
          \/ ~IsSuperseded(c, n) /\ CloseConn(c, n, "Unspecified")
        BY DEF CleanupVerdict, ClassifyExit
    <2>2. QED
        BY <1>4, <2>1, EndShuts DEF Codes
<1>7. reader' \in [Conns -> [Nodes -> ReaderStages]] /\ Moves(c, n, "done")
    BY ReaderMoves DEF CleanupVerdict, ReaderStages
<1>8. /\ preflights' \subseteq preflights /\ inbox' \subseteq inbox /\ owed' \subseteq owed
      /\ \A d \in Conns, e \in Nodes : <<d, e>> \in preflights /\ ~(d = c /\ e = n) => <<d, e>> \in preflights' 
    BY DEF CleanupVerdict, NotTo
<1>9. \A d \in Conns, e \in Nodes : IsSuperseded(d, e) => IsSuperseded(d, e)'
    <2>1. \A d \in Conns, e \in Nodes : life[d][e] = "Superseded" => life'[d][e] = "Superseded"
        BY <1>5 DEF Marks, Live
    <2>2. \A d \in Conns, e \in Nodes : ended[d][e] = "Superseded" => ended'[d][e] = "Superseded"
        BY <1>6 DEF Shuts
    <2>3. QED
        BY <2>1, <2>2 DEF IsSuperseded
<1>10. /\ unresponsive' \in [Nodes -> SUBSET Nodes]
       /\ IsSuperseded(c, n) => UNCHANGED unresponsive
    BY <1>4 DEF CleanupVerdict, ClassifyExit, IrohTypeOK
<1>11. ASSUME <<c, n>> \in owed' PROVE <<c, n>> \in leaving \/ IsSuperseded(c, n)
    <2>1. IsSuperseded(c, n) \/ reader[c][n] \notin {"gone", "goneQuiet"}
        BY <1>11 DEF CleanupVerdict, ClassifyExit
    <2>2. reader[c][n] \in {"read", "gone", "done"}
        BY <1>8, <1>11 DEF OwedInv
    <2>3. CASE reader[c][n] = "read"
        BY <1>3, <1>8, <1>11, <2>3 DEF OwedInv
    <2>4. QED
        BY <1>3, <2>1, <2>2, <2>3
<1>12. ASSUME NEW d \in Conns, NEW e \in Nodes, ~(d = c /\ e = n)
      PROVE  life'[d][e] = life[d][e] /\ reader'[d][e] = reader[d][e] /\ ended'[d][e] = ended[d][e]
    BY <1>5, <1>6, <1>7, <1>12 DEF Marks, Moves, Shuts
<1>13. reader'[c][n] = "done" /\ life'[c][n] \notin Live /\ ended'[c][n] # "open"
    BY <1>5, <1>6, <1>7 DEF Marks, Moves, Shuts, Live
<1>14. ASSUME troubles = 0 PROVE CalmInv /\ IsSuperseded(c, n) /\ reader[c][n] # "goneQuiet"

    <2>1. CalmInv
        BY <1>14 DEF CalmIsCalm
    <2>2. QED
        BY <1>3, <2>1 DEF CalmInv, CalmEnds
<1>15. IrohTypeOK'
    <2>1. preflights' \subseteq Conns \X Nodes /\ inbox' \subseteq Conns \X Nodes \X Senders /\ owed' \subseteq Conns \X Nodes
        BY <1>8 DEF IrohTypeOK
    <2>2. life' \in [Conns -> [Nodes -> {"none"} \cup Live \cup Terminal]] /\ reader' \in [Conns -> [Nodes -> ReaderStages]]
        BY <1>5, <1>7
    <2>3. ended' \in [Conns -> [Nodes -> {"open", "local", "lost"} \cup Codes]] /\ closes' \subseteq Conns \X Nodes \X Codes
        BY <1>6
    <2>4. unresponsive' \in [Nodes -> SUBSET Nodes]
        BY <1>10
    <2>5. QED
        BY <1>1, <2>1, <2>2, <2>3, <2>4 DEF IrohTypeOK
<1>16. EntriesInv' /\ HoldersInv' /\ LockInv'
    BY <1>1, Untouched
<1>17. EndsInv'
    <2>1. \A d \in Conns, e \in Nodes :
             /\ life'[d][e] = "none" <=> life[d][e] = "none"
             /\ ended'[d][e] = ended[d][e] \/ EndAt(d, e)
        BY <1>4, <1>5, <1>6 DEF Marks, Shuts, Live
    <2>2. QED
        BY <1>1, <1>2, <1>4, <1>12, <1>13, <2>1 DEF EndsInv, SameEnds
<1>18. WireInv'
    <2>1. \A d \in Conns, e \in Nodes, l \in Codes : <<d, e, l>> \in closes' =>
             <<d, e, l>> \in closes \/ EndAt(d, e)
        BY <1>4, <1>6 DEF Shuts
    <2>2. QED
        BY <1>1, <1>2, <1>8, <2>1 DEF WireInv, SameEnds
<1>19. DialInv'
    <2>1. \A d \in Conns, e \in Nodes :
             reader'[d][e] = reader[d][e] \/ reader'[d][e] = "done"
        BY <1>7 DEF Moves
    <2>2. \A t \in Senders : snd[t].at \in Dialing =>
             snd[t].c \in Conns /\ Home[t] \in Nodes /\ Target[t] \in Nodes
        BY SenderHasEnd DEF Dialing, Holding, SendStages
    <2>3. QED
        BY <1>1, <1>8, <2>1, <2>2 DEF DialInv
<1>20. AnswerInv'
    <2>1. \A d \in Conns, e \in Nodes :
             reader'[d][e] = reader[d][e] \/ reader'[d][e] = "done"
        BY <1>7 DEF Moves
    <2>2. \A d \in Conns, e \in Nodes : reader'[d][e] = "accept" /\ <<d, e>> \in preflights => <<d, e>> \in preflights'
        BY <1>8, <1>13
    <2>3. QED
        BY <1>1, <1>2, <1>8, <2>1, <2>2, MadeEnds DEF AnswerInv, SameEnds
<1>21. EndInv'
    <2>1. "Active" \in Live /\ "Pending" \in Live /\ "done" \notin Early
        BY DEF Live, Early
    <2>2. QED
        BY <1>12, <1>13, <2>1 DEF EndInv
<1>22. ReadInv'
    BY <1>1, <1>2, <1>12, <1>13 DEF ReadInv, SameEnds
<1>23. ReplaceInv'
    <2>1. \A t \in Senders : snd[t].at \in {"check", "replace"} =>
             Home[t] \in Nodes /\ snd[t].c \in Conns
        BY SenderHasEnd DEF Holding, SendStages
    <2>2. \A d \in Conns, e \in Nodes :
             /\ reader[d][e] \notin Early => reader'[d][e] \notin Early
             /\ reader'[d][e] = "read" => reader[d][e] = "read"
        BY <1>7 DEF Moves, Early
    <2>3. QED
        BY <1>1, <1>9, <2>1, <2>2 DEF ReplaceInv, At
<1>24. FramesInv'
    <2>1. \A d \in Conns, e \in Nodes, l \in Codes : <<d, e, l>> \in closes => Peer(d, e) \in Nodes
        BY PeerIsNode DEF WireInv
    <2>2. ASSUME NEW d \in Conns, NEW e \in Nodes, NEW l \in Codes, <<d, e, l>> \in closes'
          PROVE  (<<d, e, l>> \in closes) \/ (d = c /\ e = Peer(c, n))
        BY <1>6, <2>2 DEF Shuts
    <2>3. QED
        BY <1>2, <1>4, <1>12, <1>13, <2>1, <2>2 DEF FramesInv, SameEnds
<1>25. OwedInv'
    <2>1. <<c, n>> \in owed' => <<c, n>> \in leaving \/ IsSuperseded(c, n)'
        BY <1>9, <1>11
    <2>2. QED
        BY <1>1, <1>2, <1>8, <1>9, <1>12, <1>13, <2>1 DEF OwedInv, SameEnds
<1>26. ASSUME troubles' = 0 PROVE OneChampion'
    BY <1>26, <1>1, Untouched DEF CalmIsCalm, CalmInv
<1>27. ASSUME troubles' = 0 PROVE Quiet'
    <2>1. Quiet /\ IsSuperseded(c, n)
        BY <1>27, <1>1, <1>14 DEF CalmInv
    <2>2. Shuts(c, n, "Superseded")
        BY <1>6, <2>1
    <2>3. unresponsive' = unresponsive
        BY <1>10, <2>1
    <2>4. QED
        BY <1>1, <2>1, <2>2, <2>3 DEF Quiet, Shuts
<1>28. ASSUME troubles' = 0 PROVE CalmEnds'
    <2>1. CalmEnds /\ IsSuperseded(c, n)'
        BY <1>28, <1>1, <1>9, <1>14 DEF CalmInv
    <2>2. QED
        BY <1>1, <1>9, <1>12, <1>13, <2>1 DEF CalmEnds
<1>29. ASSUME troubles' = 0 PROVE CalmSlots'
    <2>1. CalmSlots /\ reader[c][n] # "goneQuiet"
        BY <1>29, <1>1, <1>14 DEF CalmInv
    <2>2. slot[n][Peer(c, n)] # c
        BY <1>3, <1>4, <2>1 DEF CalmSlots
    <2>3. QED
        BY <1>1, <1>2, <1>12, <2>1, <2>2 DEF CalmSlots, SameEnds
<1>30. ASSUME troubles' = 0 PROVE CalmAnswers'
    BY <1>30, <1>1, <1>2, <1>9, <1>12, <1>13 DEF CalmAnswers, IsSuperseded, SameEnds,
       CalmIsCalm, CalmInv
<1>31. ASSUME troubles' = 0 PROVE CalmFrames'
    <2>1. CalmFrames /\ IsSuperseded(c, n)
        BY <1>31, <1>1, <1>14 DEF CalmInv
    <2>2. Shuts(c, n, "Superseded") /\ "Superseded" \in Codes
        BY <1>6, <2>1 DEF Codes
    <2>3. ASSUME NEW d \in Conns, NEW e \in Nodes, EndAt(d, e), ended'[d][e] # "open",
                 ended'[d][Peer(d, e)] = "open"
          PROVE  <<d, Peer(d, e), "Superseded">> \in closes'
        <3>1. Peer(d, e) \in Nodes
            BY <2>3, PeerIsNode
        <3>2. ended[d][Peer(d, e)] = "open" /\ ~(d = c /\ Peer(d, e) = n)
            BY <1>12, <1>13, <2>3, <3>1
        <3>3. CASE ended[d][e] = "open"
            <4>1. d = c /\ e = n
                BY <1>12, <2>3, <3>3
            <4>2. QED
                BY <2>2, <3>1, <3>2, <3>3, <4>1 DEF Shuts
        <3>4. CASE ended[d][e] # "open"
            BY <2>1, <2>2, <2>3, <3>1, <3>2, <3>4 DEF Shuts, CalmFrames
        <3>5. QED
            BY <3>3, <3>4
    <2>4. QED
        BY <1>2, <2>3 DEF CalmFrames, SameEnds
<1>32. ASSUME troubles' = 0 PROVE CalmWaits'
    <2>1. CalmWaits
        BY <1>32, <1>1, <1>14 DEF CalmInv
    <2>2. \A d \in Conns, e \in Nodes : ~(d = c /\ e = n) =>
             /\ <<d, e>> \in preflights => <<d, e>> \in preflights'
             /\ <<d, e, "Superseded">> \in closes => <<d, e, "Superseded">> \in closes'
        BY <1>6, <1>8 DEF Shuts, Codes
    <2>3. QED
        BY <1>1, <1>2, <1>12, <1>13, <2>1, <2>2 DEF CalmWaits, SameEnds
<1>33. ASSUME troubles' = 0 PROVE CalmDials'
    <2>1. CalmDials /\ IsSuperseded(c, n)
        BY <1>33, <1>1, <1>14 DEF CalmInv
    <2>2. \A t \in Senders : At(t, "register") =>
             /\ snd[t].c \in Conns /\ Home[t] \in Nodes /\ Target[t] \in Nodes
        BY SenderHasEnd DEF At, Holding, SendStages
    <2>3. ASSUME NEW t \in Senders, At(t, "register"), NEW e \in {Home[t], Target[t]}
          PROVE  ~(snd[t].c = c /\ e = n)
        BY <2>1, <2>3 DEF CalmDials, IsSuperseded
    <2>4. QED
        BY <1>1, <1>12, <2>1, <2>2, <2>3 DEF CalmDials, At
<1>34. ASSUME troubles' = 0 PROVE ChampionLives'
    <2>1. ChampionLives /\ IsSuperseded(c, n)
        BY <1>34, <1>1, <1>14 DEF CalmInv
    <2>2. ~Champion(c)
        BY <1>4, <2>1 DEF ChampionLives, Kept, EndAt, IsSuperseded, Live
    <2>3. ASSUME NEW d \in Conns, Champion(d) PROVE Kept(d)'
        <3>1. Kept(d) /\ d \in Made /\ d # c
            BY <2>1, <2>2, <2>3 DEF ChampionLives, Champion
        <3>2. conn[d].from \in Nodes /\ conn[d].to \in Nodes
            BY <3>1, MadeEnds
        <3>3. \A e \in Nodes :
                 life'[d][e] = life[d][e] /\ reader'[d][e] = reader[d][e] /\ ended'[d][e] = ended[d][e]
            BY <1>12, <3>1
        <3>4. QED
            BY <1>1, <1>2, <3>1, <3>2, <3>3 DEF Kept, SameEnds, At
    <2>4. QED
        BY <1>2, <2>3 DEF ChampionLives, SameEnds
<1>35. CalmIsCalm'
    BY <1>26, <1>27, <1>28, <1>29, <1>30, <1>31, <1>32, <1>33, <1>34 DEF CalmIsCalm, CalmInv
<1>36. QED
    BY <1>15, <1>16, <1>17, <1>18, <1>19, <1>20, <1>21, <1>22, <1>23, <1>24, <1>25, <1>35

(* Sending the preflight: it is sent, or the connection has ended, lost or *)
(* not.                                                                    *)
PreflightSent(s) ==
    /\ At(s, "preflight")
    /\ SendPreflightFrame(snd[s].c, Home[s])
    /\ Go(s, "resolve", snd[s].c)
    /\ UNCHANGED <<conn, registry, reader, ended, closes, inbox, leaving, seen, troubles>>
PreflightLost(s) ==
    /\ At(s, "preflight")
    /\ ~CanWrite(snd[s].c, Home[s])
    /\ IsSuperseded(snd[s].c, Home[s])
    /\ Go(s, "resolve", snd[s].c)
    /\ UNCHANGED <<conn, registry, reader, ended, wire, leaving, seen, troubles>>
PreflightFails(s) ==
    /\ At(s, "preflight")
    /\ ~CanWrite(snd[s].c, Home[s])
    /\ ~IsSuperseded(snd[s].c, Home[s])
    /\ unresponsive' = [unresponsive EXCEPT ![Home[s]] = @ \cup {Target[s]}]
    /\ life' = Mark(life, snd[s].c, Home[s], "Closed")
    /\ RemoveIfCurrent(snd[s].c, Home[s])
    /\ Go(s, "returned", 0)
    /\ UNCHANGED <<conn, reader, ended, wire, leaving, owed, troubles>>

(* The preflight of a dial is sent. *)
LEMMA PreflightSentKeeps ==
    ASSUME IrohInv, NEW s \in Senders, NEW c \in Conns, c = snd[s].c,
           NEW n \in Nodes, n = Home[s], NEW m \in Nodes, m = Target[s], PreflightSent(s)
    PROVE  IrohInv'
<1> USE DEF IrohInv, ShapeInv
<1>1. UNCHANGED <<conn, life, slot, reader, ended, closes, inbox, leaving, unresponsive,
   owed, troubles>>
    BY DEF PreflightSent, registry, wire, seen
<1>2. SameEnds
    BY <1>1, NoneMade
<1>3. At(s, "preflight")
    BY DEF PreflightSent
<1>4. /\ c # 0 /\ n # m /\ EndAt(c, n) /\ Peer(c, n) = m /\ EndAt(c, m) /\ Peer(c, m) = n
      /\ c \in Made /\ conn[c].from = n /\ conn[c].to = m /\ Joins(c, n, m)
    BY <1>3, SenderHasEnd, MadeEnds DEF At, Holding, Dialing, SendStages, HoldersInv, Peer,
       EndAt, Joins
<1>5. preflights' = preflights \cup {<<c, m>>}
    BY <1>4 DEF PreflightSent, SendPreflightFrame
<1>6. snd' \in [Senders -> [at : SendStages, c : Conns \cup {0}]] /\ Goes(s, "resolve", c)
    BY SenderMoves DEF PreflightSent, SendStages
<1>7. \A t \in Senders : t # s =>
         /\ snd'[t] = snd[t]
         /\ snd[t].at \in Dialing => snd[t].c # c
    <2>1. \A t \in Senders : t # s => snd'[t] = snd[t]
        BY DEF IrohTypeOK, PreflightSent, Go
    <2>2. \A t \in Senders : t # s => (snd[t].at \in Dialing => snd[t].c # c)
        BY <1>3 DEF DialInv, Dialing, At
    <2>3. QED
        BY <2>1, <2>2
<1>8. IrohTypeOK'
    BY <1>1, <1>2, <1>3, <1>4, <1>5, <1>6, <1>7 DEF IrohTypeOK
<1>9. EndsInv' /\ EntriesInv' /\ EndInv' /\ ReadInv' /\ FramesInv' /\ OwedInv'
    BY <1>1, Untouched
<1>10. HoldersInv'
    BY <1>1, <1>2, <1>3, <1>4, <1>6, SendersAssumption DEF HoldersInv, SameEnds, Holding,
       Dialing, SendStages, Goes, At
<1>11. WireInv'
    <2>1. \A d \in Conns, e \in Nodes : <<d, e>> \in preflights' => EndAt(d, e)
        BY <1>4, <1>5 DEF WireInv
    <2>2. QED
        BY <1>1, <1>2, <2>1 DEF WireInv, SameEnds
<1>12. LockInv'
    BY <1>3, <1>6 DEF LockInv, Goes, At
<1>13. DialInv'
    <2>1. \A t \in Senders : snd'[t].at \in Dialing => t # s /\ snd[t].at \in Dialing /\ snd'[t] = snd[t] /\ snd[t].c # c
        BY <1>6, <1>7 DEF Goes, Dialing
    <2>2. \A d, e : <<d, e>> \in preflights' /\ d # c => <<d, e>> \in preflights
        BY <1>5
    <2>3. QED
        BY <1>1, <2>1, <2>2 DEF DialInv
<1>14. AnswerInv'
    BY <1>1, <1>2, <1>4, <1>5 DEF AnswerInv, SameEnds
<1>15. ReplaceInv'
    BY <1>1, <1>6, <1>7 DEF ReplaceInv, At, IsSuperseded, Goes
<1>16. ASSUME troubles' = 0 PROVE Quiet' /\ CalmEnds' /\ CalmSlots' /\ CalmAnswers' /\
   CalmFrames'
    BY <1>16, <1>1, Untouched DEF CalmIsCalm, CalmInv
<1>17. ASSUME troubles' = 0 PROVE CalmWaits'
    <2>1. CalmWaits
        BY <1>17, <1>1 DEF CalmIsCalm, CalmInv
    <2>2. \A t \in Senders : snd[t].at \in Dialing /\ snd[t].c # c => snd'[t].at \in Dialing /\ snd'[t].c = snd[t].c
        BY <1>4, <1>7
    <2>3. \A d \in Conns, e \in Nodes : <<d, e>> \in preflights => <<d, e>> \in preflights'
        BY <1>5
    <2>4. <<c, m>> \in preflights'
        BY <1>5
    <2>5. QED
        BY <1>1, <1>2, <1>4, <2>1, <2>2, <2>3, <2>4 DEF CalmWaits, SameEnds
<1>18. ASSUME troubles' = 0 PROVE CalmDials'
    <2>1. \A t \in Senders : snd'[t].at = "register" => snd[t].at = "register" /\ snd'[t].c = snd[t].c
        BY <1>6, <1>7 DEF Goes
    <2>2. QED
        BY <1>18, <1>1, <2>1 DEF CalmDials, CalmIsCalm, CalmInv, At
<1>19. ASSUME troubles' = 0 PROVE OneChampion'
    BY <1>19, <1>1, <1>2, <1>6 DEF OneChampion, SameEnds, At, CalmIsCalm, CalmInv, Goes
<1>20. ASSUME troubles' = 0 PROVE ChampionLives'
    <2>1. \A t \in Senders : At(t, "register") => snd'[t].at = "register" /\ snd'[t].c = snd[t].c
        BY <1>3, <1>7 DEF At
    <2>2. ASSUME NEW d \in Conns, Champion(d) PROVE Kept(d)'
        BY <1>20, <1>1, <1>2, <2>1, <2>2 DEF CalmIsCalm, CalmInv, ChampionLives, Kept, SameEnds, At
    <2>3. QED
        BY <1>2, <2>2 DEF ChampionLives, SameEnds
<1>21. CalmIsCalm'
    BY <1>16, <1>17, <1>18, <1>19, <1>20 DEF CalmIsCalm, CalmInv
<1>22. QED
    BY <1>8, <1>9, <1>10, <1>11, <1>12, <1>13, <1>14, <1>15, <1>21

(* A dial finds that its connection lost. *)
LEMMA PreflightLostKeeps ==
    ASSUME IrohInv, NEW s \in Senders, NEW c \in Conns, c = snd[s].c,
           NEW n \in Nodes, n = Home[s], NEW m \in Nodes, m = Target[s], PreflightLost(s)
    PROVE  IrohInv'
<1> USE DEF IrohInv, ShapeInv
<1>1. UNCHANGED <<conn, life, slot, reader, ended, closes, preflights, inbox, leaving,
   unresponsive, owed, troubles>>
    BY DEF PreflightLost, registry, wire, seen
<1>2. SameEnds
    BY <1>1, NoneMade
<1>3. At(s, "preflight")
    BY DEF PreflightLost
<1>4. /\ c # 0 /\ n # m /\ EndAt(c, n) /\ Peer(c, n) = m /\ EndAt(c, m) /\ Peer(c, m) = n
      /\ c \in Made /\ conn[c].from = n /\ conn[c].to = m /\ Joins(c, n, m)
    BY <1>3, SenderHasEnd, MadeEnds DEF At, Holding, Dialing, SendStages, HoldersInv, Peer,
       EndAt, Joins
<1>5. ended[c][n] # "open"
    BY DEF PreflightLost, CanWrite
<1>6. snd' \in [Senders -> [at : SendStages, c : Conns \cup {0}]] /\ Goes(s, "resolve", c)
    BY SenderMoves DEF PreflightLost, SendStages
<1>7. \A t \in Senders : t # s => snd'[t] = snd[t]
    BY DEF IrohTypeOK, PreflightLost, Go
<1>8. IrohTypeOK'
    BY <1>1, <1>2, <1>3, <1>4, <1>5, <1>6, <1>7 DEF IrohTypeOK
<1>9. EndsInv' /\ EntriesInv' /\ WireInv' /\ AnswerInv' /\ EndInv' /\ ReadInv' /\ FramesInv'
   /\ OwedInv'
    BY <1>1, Untouched
<1>10. HoldersInv'
    BY <1>1, <1>2, <1>3, <1>4, <1>6, SendersAssumption DEF HoldersInv, SameEnds, Holding,
       Dialing, SendStages, Goes, At
<1>11. LockInv'
    BY <1>3, <1>6 DEF LockInv, Goes, At
<1>12. DialInv'
    <2>1. \A t \in Senders : snd'[t].at \in Dialing => t # s /\ snd[t].at \in Dialing /\ snd'[t] = snd[t]
        BY <1>6, <1>7 DEF Goes, Dialing
    <2>2. QED
        BY <1>1, <2>1 DEF DialInv
<1>13. ReplaceInv'
    BY <1>1, <1>6, <1>7 DEF ReplaceInv, At, IsSuperseded, Goes
<1>14. ASSUME troubles' = 0 PROVE Quiet' /\ CalmEnds' /\ CalmSlots' /\ CalmAnswers' /\
   CalmFrames'
    BY <1>14, <1>1, Untouched DEF CalmIsCalm, CalmInv
<1>15. ASSUME troubles' = 0 PROVE CalmWaits'
    <2>1. CalmWaits /\ CalmFrames
        BY <1>15, <1>1 DEF CalmIsCalm, CalmInv
    <2>2. \A t \in Senders : snd[t].at \in Dialing /\ snd[t].c # c => snd'[t].at \in Dialing /\ snd'[t].c = snd[t].c
        BY <1>4, <1>7
    <2>3. ended[c][m] = "open" => <<c, m, "Superseded">> \in closes
        BY <1>4, <1>5, <2>1 DEF CalmFrames
    <2>4. QED
        BY <1>1, <1>2, <1>4, <2>1, <2>2, <2>3 DEF CalmWaits, SameEnds
<1>16. ASSUME troubles' = 0 PROVE CalmDials'
    <2>1. \A t \in Senders : snd'[t].at = "register" => snd[t].at = "register" /\ snd'[t].c = snd[t].c
        BY <1>6, <1>7 DEF Goes
    <2>2. QED
        BY <1>16, <1>1, <2>1 DEF CalmDials, CalmIsCalm, CalmInv, At
<1>17. ASSUME troubles' = 0 PROVE OneChampion'
    BY <1>17, <1>1, <1>2, <1>6 DEF OneChampion, SameEnds, At, CalmIsCalm, CalmInv, Goes
<1>18. ASSUME troubles' = 0 PROVE ChampionLives'
    <2>1. \A t \in Senders : At(t, "register") => snd'[t].at = "register" /\ snd'[t].c = snd[t].c
        BY <1>3, <1>7 DEF At
    <2>2. ASSUME NEW d \in Conns, Champion(d) PROVE Kept(d)'
        BY <1>18, <1>1, <1>2, <2>1, <2>2 DEF CalmIsCalm, CalmInv, ChampionLives, Kept, SameEnds, At
    <2>3. QED
        BY <1>2, <2>2 DEF ChampionLives, SameEnds
<1>19. CalmIsCalm'
    BY <1>14, <1>15, <1>16, <1>17, <1>18 DEF CalmIsCalm, CalmInv
<1>20. QED
    BY <1>8, <1>9, <1>10, <1>11, <1>12, <1>13, <1>19

(* A dial finds that its connection has ended. *)
LEMMA PreflightFailsKeeps ==
    ASSUME IrohInv, NEW s \in Senders, NEW c \in Conns, c = snd[s].c,
           NEW n \in Nodes, n = Home[s], NEW m \in Nodes, m = Target[s], PreflightFails(s)
    PROVE  IrohInv'
<1> USE DEF IrohInv, ShapeInv
<1>1. UNCHANGED <<conn, reader, ended, closes, preflights, inbox, leaving, owed, troubles>>
    BY DEF PreflightFails, registry, wire, seen
<1>2. SameEnds
    BY <1>1, NoneMade
<1>3. At(s, "preflight")
    BY DEF PreflightFails
<1>4. /\ c # 0 /\ n # m /\ EndAt(c, n) /\ Peer(c, n) = m /\ EndAt(c, m) /\ Peer(c, m) = n
      /\ c \in Made /\ conn[c].from = n /\ conn[c].to = m /\ Joins(c, n, m)
    BY <1>3, SenderHasEnd, MadeEnds DEF At, Holding, Dialing, SendStages, HoldersInv, Peer,
       EndAt, Joins
<1>5. ended[c][n] # "open" /\ ~IsSuperseded(c, n)
    BY DEF PreflightFails, CanWrite
<1>6. snd' \in [Senders -> [at : SendStages, c : Conns \cup {0}]] /\ Goes(s, "returned", 0)
    BY SenderMoves DEF PreflightFails, SendStages
<1>7. \A t \in Senders : t # s => snd'[t] = snd[t]
    BY DEF IrohTypeOK, PreflightFails, Go
<1>8. life' \in [Conns -> [Nodes -> {"none"} \cup Live \cup Terminal]] /\ Marks(c, n,
   "Closed")
    BY <1>4, MarkEnds DEF PreflightFails, Terminal
<1>9. slot' \in [Nodes -> [Nodes -> Conns \cup {0}]] /\ Drops(c, n)
    BY <1>4, EntryDrops DEF PreflightFails
<1>10. unresponsive' \in [Nodes -> SUBSET Nodes]
    BY DEF PreflightFails, IrohTypeOK
<1>11. \A d \in Conns, e \in Nodes : EndAt(d, e) =>
          \/ slot'[e][Peer(d, e)] = slot[e][Peer(d, e)]
          \/ slot[e][Peer(d, e)] = c /\ e = n
    BY <1>9, PeerIsNode DEF Drops
<1>12. \A d \in Conns, e \in Nodes : IsSuperseded(d, e) => IsSuperseded(d, e)'
    BY <1>1, <1>8 DEF IsSuperseded, Marks, Live
<1>13. IrohTypeOK'
    BY <1>1, <1>6, <1>8, <1>9, <1>10 DEF IrohTypeOK
<1>14. WireInv' /\ AnswerInv' /\ FramesInv'
    BY <1>1, Untouched
<1>15. EndsInv'
    BY <1>1, <1>2, <1>8 DEF EndsInv, SameEnds, Marks, Live
<1>16. EntriesInv'
    BY <1>2, <1>9 DEF EntriesInv, SameEnds, IrohTypeOK, Drops
<1>17. HoldersInv'
    BY <1>1, <1>2, <1>3, <1>4, <1>6, SendersAssumption DEF HoldersInv, SameEnds, Holding,
       Dialing, SendStages, Goes, At
<1>18. LockInv'
    BY <1>3, <1>6 DEF LockInv, Goes, At
<1>19. DialInv'
    <2>1. \A t \in Senders : snd'[t].at \in Dialing => t # s /\ snd[t].at \in Dialing /\ snd'[t] = snd[t]
        BY <1>6, <1>7 DEF Goes, Dialing
    <2>2. QED
        BY <1>1, <2>1 DEF DialInv
<1>20. EndInv'
    BY <1>1, <1>8 DEF EndInv, Marks, Live
<1>21. ReadInv'
    <2>1. ASSUME NEW d \in Conns, NEW e \in Nodes, reader[d][e] = "read", ended[d][e] = "open"
          PROVE  slot'[e][Peer(d, e)] = d \/ <<d, e>> \in leaving
        <3>1. EndAt(d, e) /\ ~(d = c /\ e = n)
            BY <1>5, <2>1, ReaderHasEnd
        <3>2. QED
            BY <1>11, <2>1, <3>1 DEF ReadInv
    <2>2. QED
        BY <1>1, <1>2, <2>1 DEF ReadInv, SameEnds
<1>22. ReplaceInv'
    <2>1. \A t \in Senders : snd'[t].at \in {"check", "replace"} =>
             /\ snd[t].at = snd'[t].at /\ snd'[t].c = snd[t].c
        BY <1>6, <1>7 DEF Goes
    <2>2. \A t \in Senders : snd[t].at \in {"check", "replace"} =>
             /\ Home[t] \in Nodes /\ Target[t] \in Nodes /\ snd[t].c \in Conns /\ snd[t].c # 0
        BY SenderHasEnd DEF Holding, SendStages
    <2>3. \A k, l \in Nodes : slot'[k][l] \in {slot[k][l], 0}
        BY <1>9 DEF Drops
    <2>4. QED
        BY <1>1, <1>12, <2>1, <2>2, <2>3 DEF ReplaceInv, At
<1>23. OwedInv'
    <2>1. <<c, n>> \in owed => reader[c][n] # "read"
        BY <1>3, <1>4 DEF DialInv, Dialing, At
    <2>2. ASSUME NEW d \in Conns, NEW e \in Nodes, <<d, e>> \in owed, reader[d][e] = "read"
          PROVE  /\ life'[d][e] = life[d][e]
                 /\ \/ slot'[e][Peer(d, e)] = slot[e][Peer(d, e)]
                    \/ slot[e][Peer(d, e)] # d
        <3>1. EndAt(d, e) /\ ~(d = c /\ e = n)
            BY <2>1, <2>2 DEF WireInv
        <3>2. life'[d][e] = life[d][e]
            BY <1>8, <3>1 DEF Marks
        <3>3. QED
            BY <1>11, <3>1, <3>2
    <2>3. QED
        BY <1>1, <1>2, <1>12, <2>2 DEF OwedInv, SameEnds
<1>24. CalmIsCalm'
    BY <1>1, <1>5 DEF CalmIsCalm, CalmInv, CalmEnds
<1>25. QED
    BY <1>13, <1>14, <1>15, <1>16, <1>17, <1>18, <1>19, <1>20, <1>21, <1>22, <1>23, <1>24

(* A connection is made, with a context and a reader at either end. *)
LEMMA DialKeeps ==
    ASSUME IrohInv, NEW s \in Senders, NEW n \in Nodes, n = Home[s],
           NEW m \in Nodes, m = Target[s], Dial(s)
    PROVE  IrohInv'
<1> USE DEF IrohInv, ShapeInv
<1>1. UNCHANGED <<slot, ended, closes, preflights, inbox, leaving, unresponsive, owed,
   troubles>>
    BY DEF Dial, registry, wire, seen
<1>2. PICK c \in Conns \ Made :
         /\ conn' = [conn EXCEPT ![c] = [from |-> n, to |-> m]]
         /\ life' = [[life EXCEPT ![c][n] = "Pending"] EXCEPT ![c][m] = "Pending"]
         /\ reader' = [[reader EXCEPT ![c][n] = "accept"] EXCEPT ![c][m] = "accept"]
         /\ Go(s, "register", c)
    BY DEF Dial, Accepted, NewContext
<1>3. At(s, "dial") /\ n # m /\ c # 0
    BY SendersAssumption, ConnsAssumption DEF Dial
<1>4. \A e \in Nodes : ~EndAt(c, e)
    BY DEF EndAt
<1>5. /\ \A e \in Nodes :
                         /\ reader[c][e] = "none" /\ life[c][e] = "none" /\ ended[c][e] = "open"
                         /\ <<c, e>> \notin preflights /\ <<c, e>> \notin leaving
                         /\ <<c, e>> \notin owed
                         /\ \A t \in Senders : <<c, e, t>> \notin inbox
                         /\ \A k \in Codes : <<c, e, k>> \notin closes
      /\ \A k, l \in Nodes : slot[k][l] # c
      /\ \A t \in Senders : snd[t].at \in Holding => snd[t].c # c
    <2>1. \A e \in Nodes : reader[c][e] = "none" /\ life[c][e] = "none" /\ ended[c][e] = "open"
        BY <1>4 DEF EndsInv
    <2>2. \A k, l \in Nodes : slot[k][l] # c
        BY <1>3 DEF EntriesInv
    <2>3. \A t \in Senders : snd[t].at \in Holding => snd[t].c # c
        BY DEF HoldersInv
    <2>4. \A e \in Nodes : /\ <<c, e>> \notin preflights /\ <<c, e>> \notin leaving
                           /\ <<c, e>> \notin owed
                           /\ \A t \in Senders : <<c, e, t>> \notin inbox
                           /\ \A k \in Codes : <<c, e, k>> \notin closes
        BY <1>4 DEF WireInv
    <2>5. QED
        BY <2>1, <2>2, <2>3, <2>4
<1>6. conn' \in [Conns -> [from : Nodes, to : Nodes] \cup {NoConn}]
    BY <1>2 DEF IrohTypeOK
<1>7. /\ \A d \in Conns \ {c} : conn'[d] = conn[d]
      /\ conn'[c] = [from |-> n, to |-> m]
    BY <1>2 DEF IrohTypeOK
<1>8. /\ Made' = Made \cup {c}
      /\ Made \subseteq Conns
    BY <1>7, NodesAssumption DEF Made, NoConn
<1>9. \A d \in Conns \ {c} :
         /\ \A e \in Nodes : (EndAt(d, e)' <=> EndAt(d, e)) /\ Peer(d, e)' = Peer(d, e)
         /\ \A k, l \in Nodes : Joins(d, k, l)' <=> Joins(d, k, l)
         /\ Preferred(d)' <=> Preferred(d)
    BY <1>7, <1>8 DEF EndAt, Peer, Joins, Preferred
<1>10. /\ \A e \in Nodes : EndAt(c, e)' <=> e = n \/ e = m
       /\ Peer(c, n)' = m /\ Peer(c, m)' = n /\ Joins(c, n, m)' 
    BY <1>3, <1>7, <1>8 DEF EndAt, Peer, Joins
<1>11. \A d \in Conns \ {c} : Champion(d)' => Champion(d)
    <2>1. ~Preferred(c)
        BY DEF Preferred
    <2>2. ASSUME NEW d \in Conns \ {c}, Champion(d)' PROVE Champion(d)
        <3>1. \A x \in Conns \ {c} : Joins(x, conn[d].from, conn[d].to)' <=> Joins(x, conn[d].from, conn[d].to)
            BY <1>7 DEF Joins
        <3>2. QED
            BY <1>8, <1>9, <2>1, <2>2, <3>1 DEF Champion
    <2>3. QED
        BY <2>2
<1>12. life' \in [Conns -> [Nodes -> {"none"} \cup Live \cup Terminal]]
    BY <1>2 DEF IrohTypeOK, Live
<1>13. \A d \in Conns, e \in Nodes :
         life'[d][e] = IF d = c /\ (e = n \/ e = m) THEN "Pending" ELSE life[d][e]
    BY <1>2, <1>3 DEF IrohTypeOK
<1>14. reader' \in [Conns -> [Nodes -> ReaderStages]]
    BY <1>2 DEF IrohTypeOK, ReaderStages
<1>15. \A d \in Conns, e \in Nodes :
         reader'[d][e] = IF d = c /\ (e = n \/ e = m) THEN "accept" ELSE reader[d][e]
    BY <1>2, <1>3 DEF IrohTypeOK
<1>16. snd' \in [Senders -> [at : SendStages, c : Conns \cup {0}]] /\ Goes(s, "register", c)
    BY <1>2, SenderMoves DEF SendStages
<1>17. \A t \in Senders : t # s => snd'[t] = snd[t]
    BY <1>2 DEF IrohTypeOK, Go
<1>18. \A e \in Nodes : reader[c][e] = "none" /\ ended[c][e] = "open"
    BY <1>5
<1>19. IrohTypeOK'
    BY <1>1, <1>6, <1>12, <1>14, <1>16 DEF IrohTypeOK
<1>20. EndsInv'
    <2>1. \A d \in Made' : conn'[d].from # conn'[d].to
        BY <1>3, <1>7, <1>8 DEF EndsInv
    <2>2. ASSUME NEW d \in Conns, NEW e \in Nodes
          PROVE  /\ EndAt(d, e)' => reader'[d][e] # "none" /\ life'[d][e] # "none"
                 /\ ~EndAt(d, e)' => reader'[d][e] = "none" /\ life'[d][e] = "none" /\ ended[d][e] = "open"
        <3>1. CASE d = c
            BY <1>5, <1>10, <1>13, <1>15, <3>1
        <3>2. CASE d # c
            BY <1>9, <1>13, <1>15, <3>2 DEF EndsInv
        <3>3. QED
            BY <3>1, <3>2
    <2>3. QED
        BY <1>1, <2>1, <2>2 DEF EndsInv
<1>21. EntriesInv'
    BY <1>1, <1>5, <1>8, <1>9 DEF EntriesInv, SameEnds, IrohTypeOK
<1>22. HoldersInv'
    <2>1. ASSUME NEW t \in Senders, t # s
          PROVE  /\ snd'[t].at \in Holding => snd'[t].c \in Made' /\ Joins(snd[t].c, Home[t], Target[t])'
                 /\ snd'[t].at \in Dialing => conn'[snd'[t].c].from = Home[t]
        <3>1. snd'[t] = snd[t] /\ Home[t] \in Nodes /\ Target[t] \in Nodes
            BY <1>17, <2>1, SendersAssumption
        <3>2. snd[t].at \in Holding => snd[t].c \in Conns \ {c} /\ snd[t].c \in Made /\ Joins(snd[t].c, Home[t], Target[t])
            BY <1>5, <1>8 DEF HoldersInv
        <3>3. snd[t].at \in Holding => Joins(snd[t].c, Home[t], Target[t])'
            BY <1>7, <3>1, <3>2 DEF Joins
        <3>4. snd[t].at \in Dialing => conn'[snd[t].c].from = Home[t]
            BY <1>7, <3>2 DEF HoldersInv, Holding, Dialing, SendStages
        <3>5. QED
            BY <1>8, <3>1, <3>2, <3>3, <3>4
    <2>2. snd'[s].c \in Made' /\ Joins(c, n, m)' /\ snd'[s].c = c /\ conn'[c].from = n
        BY <1>7, <1>8, <1>10, <1>16 DEF Goes
    <2>3. QED
        BY <1>7, <1>17, <2>1, <2>2 DEF HoldersInv, Joins
<1>23. WireInv'
    <2>1. \A d \in Conns, e \in Nodes : EndAt(d, e) => EndAt(d, e)'
        BY <1>4, <1>9
    <2>2. QED
        BY <1>1, <2>1 DEF WireInv
<1>24. LockInv'
    BY <1>3, <1>16 DEF LockInv, Goes, At
<1>25. DialInv'
    <2>1. \A t \in Senders : snd[t].at \in Dialing =>
             snd[t].c \in Conns \ {c} /\ Home[t] \in Nodes /\ Target[t] \in Nodes
        BY <1>5, SenderHasEnd DEF Dialing, Holding, SendStages
    <2>2. /\ <<c, n>> \notin preflights /\ <<c, m>> \notin preflights
          /\ reader'[c][n] = "accept" /\ reader'[c][m] = "accept" /\ snd'[s].c = c
        BY <1>5, <1>15, <1>16 DEF Goes
    <2>3. \A t \in Senders : snd[t].at \in Dialing =>
             /\ reader'[snd[t].c][Home[t]] = reader[snd[t].c][Home[t]]
             /\ reader'[snd[t].c][Target[t]] = reader[snd[t].c][Target[t]]
        BY <1>15, <2>1
    <2>4. QED
        BY <1>1, <1>17, <2>1, <2>2, <2>3 DEF DialInv
<1>26. AnswerInv'
    <2>1. ASSUME NEW d \in Made
          PROVE  /\ d \in Conns \ {c} /\ conn'[d] = conn[d]
                 /\ conn[d].from \in Nodes /\ conn[d].to \in Nodes
                 /\ \A e \in Nodes : reader'[d][e] = reader[d][e]
        BY <1>7, <1>8, <1>15, MadeEnds
    <2>2. /\ reader'[c][n] = "accept" /\ reader'[c][m] = "accept" /\ <<c, n>> \notin preflights
          /\ conn'[c].from = n /\ conn'[c].to = m
        BY <1>5, <1>7, <1>15
    <2>3. QED
        BY <1>1, <1>8, <2>1, <2>2 DEF AnswerInv
<1>27. EndInv'
    <2>1. \A d \in Conns, e \in Nodes :
             \/ reader'[d][e] = reader[d][e] /\ life'[d][e] = life[d][e]
             \/ reader'[d][e] = "accept" /\ life'[d][e] = "Pending"
        BY <1>13, <1>15
    <2>2. QED
        BY <1>1, <2>1 DEF EndInv
<1>28. ReadInv'
    <2>1. ASSUME NEW d \in Conns, NEW e \in Nodes, reader'[d][e] = "read"
          PROVE  reader[d][e] = "read" /\ Peer(d, e)' = Peer(d, e)
        <3>1. d # c
            BY <1>15, <1>18, <2>1
        <3>2. QED
            BY <1>9, <1>15, <2>1, <3>1
    <2>2. QED
        BY <1>1, <2>1 DEF ReadInv
<1>29. ReplaceInv'
    <2>1. ASSUME NEW t \in Senders, snd'[t].at \in {"check", "replace"}
          PROVE  /\ snd[t].at = snd'[t].at /\ snd'[t].c = snd[t].c
                 /\ reader'[snd[t].c][Home[t]] = reader[snd[t].c][Home[t]]
                 /\ life'[snd[t].c][Home[t]] = life[snd[t].c][Home[t]]
        <3>1. snd'[t] = snd[t]
            BY <1>16, <1>17, <2>1 DEF Goes
        <3>2. snd[t].c \in Conns \ {c} /\ Home[t] \in Nodes
            BY <1>5, <2>1, <3>1, SenderHasEnd DEF Holding, SendStages
        <3>3. QED
            BY <1>13, <1>15, <3>1, <3>2
    <2>2. QED
        BY <1>1, <2>1 DEF ReplaceInv, At, IsSuperseded
<1>30. FramesInv'
    <2>1. \A d \in Conns, e \in Nodes, k \in Codes : <<d, e, k>> \in closes => Peer(d, e)' = Peer(d, e)
        BY <1>5, <1>9
    <2>2. QED
        BY <1>1, <2>1 DEF FramesInv
<1>31. OwedInv'
    <2>1. ASSUME NEW d \in Conns, NEW e \in Nodes, <<d, e>> \in owed
          PROVE  /\ reader'[d][e] = reader[d][e] /\ life'[d][e] = life[d][e]
                 /\ Peer(d, e)' = Peer(d, e)
        BY <1>5, <1>9, <1>13, <1>15, <2>1
    <2>2. QED
        BY <1>1, <2>1 DEF OwedInv, IsSuperseded
<1>32. ASSUME troubles' = 0 PROVE Quiet'
    BY <1>32, <1>1 DEF Quiet, CalmIsCalm, CalmInv
<1>33. ASSUME troubles' = 0 PROVE CalmEnds'
    <2>1. CalmEnds
        BY <1>33, <1>1 DEF CalmIsCalm, CalmInv
    <2>2. \A d \in Conns, e \in Nodes :
             \/ reader'[d][e] = reader[d][e] /\ life'[d][e] = life[d][e]
             \/ reader'[d][e] = "accept" /\ life'[d][e] = "Pending" /\ ended[d][e] = "open"
        BY <1>13, <1>15, <1>18
    <2>3. QED
        BY <1>1, <2>1, <2>2 DEF CalmEnds, IsSuperseded
<1>34. ASSUME troubles' = 0 PROVE CalmSlots'
    <2>1. CalmSlots
        BY <1>34, <1>1 DEF CalmIsCalm, CalmInv
    <2>2. ASSUME NEW d \in Conns, NEW e \in Nodes, EndAt(d, e)', slot[e][Peer(d, e)'] = d
          PROVE  /\ EndAt(d, e) /\ slot[e][Peer(d, e)] = d /\ conn'[d] = conn[d]
                 /\ reader'[d][e] = reader[d][e] /\ life'[d][e] = life[d][e]
        <3>1. d # c
            BY <1>5, <1>10, <2>2
        <3>2. QED
            BY <1>7, <1>9, <1>13, <1>15, <2>2, <3>1
    <2>3. QED
        BY <1>1, <2>1, <2>2 DEF CalmSlots
<1>35. ASSUME troubles' = 0 PROVE CalmAnswers'
    <2>1. CalmAnswers
        BY <1>35, <1>1 DEF CalmIsCalm, CalmInv
    <2>2. ASSUME NEW d \in Conns, NEW e \in Nodes, EndAt(d, e)', reader'[d][e] \in {"reply", "activate"}
          PROVE  /\ EndAt(d, e) /\ Peer(d, e)' = Peer(d, e)
                 /\ reader'[d][e] = reader[d][e] /\ life'[d][e] = life[d][e]
        <3>1. d # c
            BY <1>5, <1>10, <1>15, <2>2
        <3>2. QED
            BY <1>9, <1>13, <1>15, <2>2, <3>1
    <2>3. QED
        BY <1>1, <2>1, <2>2 DEF CalmAnswers, IsSuperseded
<1>36. ASSUME troubles' = 0 PROVE CalmFrames'
    <2>1. CalmFrames
        BY <1>36, <1>1 DEF CalmIsCalm, CalmInv
    <2>2. ASSUME NEW d \in Conns, NEW e \in Nodes, EndAt(d, e)', ended[d][e] # "open"
          PROVE  EndAt(d, e) /\ Peer(d, e)' = Peer(d, e)
        BY <1>5, <1>9, <2>2
    <2>3. QED
        BY <1>1, <2>1, <2>2 DEF CalmFrames
<1>37. ASSUME troubles' = 0 PROVE CalmWaits'
    <2>1. CalmWaits
        BY <1>37, <1>1 DEF CalmIsCalm, CalmInv
    <2>2. \A t \in Senders : snd[t].at \in Dialing => snd'[t] = snd[t]
        BY <1>3, <1>17 DEF At, Dialing
    <2>3. snd'[s].at \in Dialing /\ snd'[s].c = c
        BY <1>16 DEF Goes, Dialing
    <2>4. ASSUME NEW d \in Conns, NEW e \in Nodes, EndAt(d, e)', e = conn'[d].to,
                 reader'[d][e] = "accept", ended[d][e] = "open"
          PROVE  \/ <<d, e>> \in preflights
                 \/ <<d, e, "Superseded">> \in closes
                 \/ \E t \in Senders : snd'[t].at \in Dialing /\ snd'[t].c = d
        <3>1. CASE d = c
            BY <2>3, <3>1
        <3>2. CASE d # c
            <4>1. EndAt(d, e) /\ e = conn[d].to /\ reader[d][e] = "accept"
                BY <1>7, <1>9, <1>15, <2>4, <3>2
            <4>2. QED
                BY <2>1, <2>2, <2>4, <4>1 DEF CalmWaits
        <3>3. QED
            BY <3>1, <3>2
    <2>5. QED
        BY <1>1, <2>4 DEF CalmWaits
<1>38. ASSUME troubles' = 0 PROVE CalmDials'
    <2>1. CalmDials
        BY <1>38, <1>1 DEF CalmIsCalm, CalmInv
    <2>2. ASSUME NEW t \in Senders, snd'[t].at = "register", t # s
          PROVE  LET d == snd'[t].c IN
                 /\ slot[Home[t]][Target[t]] # d
                 /\ \A e \in {Home[t], Target[t]} :
                      reader'[d][e] = "accept" /\ ended[d][e] = "open" /\ life'[d][e] = "Pending"
        <3>1. snd'[t] = snd[t] /\ snd[t].at = "register"
            BY <1>17, <2>2
        <3>2. snd[t].c \in Conns \ {c} /\ Home[t] \in Nodes /\ Target[t] \in Nodes
            BY <1>5, <3>1, SenderHasEnd DEF Holding, SendStages
        <3>3. QED
            BY <1>13, <1>15, <2>1, <3>1, <3>2 DEF CalmDials, At
    <2>3. LET d == snd'[s].c IN
          /\ slot[Home[s]][Target[s]] # d
          /\ \A e \in {Home[s], Target[s]} :
               reader'[d][e] = "accept" /\ ended[d][e] = "open" /\ life'[d][e] = "Pending"
        <3>1. snd'[s].c = c
            BY <1>16 DEF Goes
        <3>2. slot[Home[s]][Target[s]] # c
            BY <1>5
        <3>3. \A e \in {n, m} : reader'[c][e] = "accept" /\ ended[c][e] = "open" /\ life'[c][e] = "Pending"
            BY <1>13, <1>15, <1>18
        <3>4. QED
            BY <3>1, <3>2, <3>3
    <2>4. QED
        BY <1>1, <2>2, <2>3 DEF CalmDials, At
<1>39. ASSUME troubles' = 0 PROVE OneChampion'
    <2>1. OneChampion
        BY <1>39, <1>1 DEF CalmIsCalm, CalmInv
    <2>2. \A d \in Conns \ {c} : Champion(d) => ~(conn[d].from = n /\ conn[d].to = m)
        BY <1>3, <2>1 DEF OneChampion
    <2>3. ASSUME NEW t \in Senders, snd'[t].at = "dial", NEW d \in Conns, Champion(d)'
          PROVE  ~(conn'[d].from = Home[t] /\ conn'[d].to = Target[t])
        <3>1. t # s /\ snd[t].at = "dial"
            BY <1>16, <2>3 DEF Goes
        <3>2. CASE d = c
            BY <1>3, <1>7, <3>1, <3>2 DEF LockInv, At
        <3>3. CASE d # c
            BY <1>7, <1>11, <2>1, <2>3, <3>1, <3>3 DEF OneChampion, At
        <3>4. QED
            BY <3>2, <3>3
    <2>4. ASSUME NEW d \in Conns, NEW x \in Conns, Champion(d)', Champion(x)', conn'[d] = conn'[x]
          PROVE  d = x
        <3>1. CASE d # c /\ x # c
            BY <1>7, <1>11, <2>1, <2>4, <3>1 DEF OneChampion
        <3>2. CASE d = c /\ x # c
            <4>1. conn[x] = [from |-> n, to |-> m]
                BY <1>7, <2>4, <3>2
            <4>2. QED
                BY <1>11, <2>2, <2>4, <3>2, <4>1
        <3>3. CASE d # c /\ x = c
            <4>1. conn[d] = [from |-> n, to |-> m]
                BY <1>7, <2>4, <3>3
            <4>2. QED
                BY <1>11, <2>2, <2>4, <3>3, <4>1
        <3>4. QED
            BY <3>1, <3>2, <3>3
    <2>5. QED
        BY <2>3, <2>4 DEF OneChampion, At
<1>40. ASSUME troubles' = 0 PROVE ChampionLives'
    <2>1. ChampionLives
        BY <1>40, <1>1 DEF CalmIsCalm, CalmInv
    <2>2. ASSUME NEW d \in Conns, Champion(d)' PROVE Kept(d)'
        <3>1. CASE d = c
            <4>1. /\ conn'[d].from = n /\ conn'[d].to = m
                  /\ snd'[s].at = "register" /\ snd'[s].c = c
                  /\ \A e \in {n, m} :
                       ended[c][e] = "open" /\ life'[c][e] \in Live /\ reader'[c][e] = "accept"
                <5>1. conn'[d].from = n /\ conn'[d].to = m
                    BY <1>7, <3>1
                <5>2. snd'[s].at = "register" /\ snd'[s].c = c
                    BY <1>16 DEF Goes
                <5>3. QED
                    BY <1>13, <1>15, <1>18, <5>1, <5>2 DEF Live
            <4>2. QED
                BY <1>1, <3>1, <4>1 DEF Kept, At
        <3>2. CASE d # c
            <4>1. Kept(d) /\ d \in Made
                BY <1>11, <2>1, <2>2, <3>2 DEF ChampionLives, Champion
            <4>2. conn[d].from \in Nodes /\ conn[d].to \in Nodes
                BY <4>1, MadeEnds
            <4>3. conn'[d] = conn[d]
                BY <1>7, <3>2
            <4>4. \A e \in Nodes : reader'[d][e] = reader[d][e] /\ life'[d][e] = life[d][e]
                BY <1>13, <1>15, <3>2
            <4>5. \A t \in Senders : At(t, "register") => snd'[t] = snd[t]
                BY <1>3, <1>17 DEF At
            <4>6. QED
                BY <1>1, <4>1, <4>2, <4>3, <4>4, <4>5 DEF Kept, At
        <3>3. QED
            BY <3>1, <3>2
    <2>3. QED
        BY <2>2 DEF ChampionLives
<1>41. CalmIsCalm'
    BY <1>32, <1>33, <1>34, <1>35, <1>36, <1>37, <1>38, <1>39, <1>40 DEF CalmIsCalm, CalmInv
<1>42. QED
    BY <1>19, <1>20, <1>21, <1>22, <1>23, <1>24, <1>25, <1>26, <1>27, <1>28, <1>29, <1>30,
       <1>31, <1>41

(* Nothing happens. *)
LEMMA NothingKeeps == ASSUME IrohInv, UNCHANGED irohVars PROVE IrohInv'
<1>1. UNCHANGED <<conn, life, slot, reader, ended, closes, preflights, inbox, snd, leaving,
                  unresponsive, owed, troubles>>
    BY DEF irohVars
<1>2. IrohTypeOK'
    BY <1>1 DEF IrohInv, IrohTypeOK
<1>3. (ShapeInv /\ LockInv /\ DialInv /\ AnswerInv)'
    BY <1>1, Untouched DEF IrohInv, ShapeInv
<1>4. (EndInv /\ ReadInv /\ ReplaceInv /\ FramesInv /\ OwedInv)'
    BY <1>1, Untouched DEF IrohInv
<1>5. CalmInv => CalmInv'
    BY <1>1, Untouched DEF CalmInv
<1>6. CalmIsCalm'
    BY <1>1, <1>5 DEF IrohInv, CalmIsCalm
<1>7. QED
    BY <1>2, <1>3, <1>4, <1>6 DEF IrohInv

----------------------------------------------------------------------------
(* In the beginning no connection is made. *)
LEMMA IrohStart == IrohInit => IrohInv
<1> SUFFICES ASSUME IrohInit PROVE IrohInv
    OBVIOUS
<1>1. IrohTypeOK
    BY LimitsAssumption, SendersAssumption DEF IrohInit, IrohTypeOK, ReaderStages, SendStages
<1>2. Made = {} /\ \A c \in Conns, n \in Nodes : ~EndAt(c, n)
    BY DEF IrohInit, Made, EndAt
<1>3. ShapeInv
    <2>1. EndsInv
        BY <1>2 DEF IrohInit, EndsInv
    <2>2. EntriesInv
        BY DEF IrohInit, EntriesInv
    <2>3. HoldersInv
        BY DEF IrohInit, HoldersInv, Holding, Dialing
    <2>4. WireInv
        BY DEF IrohInit, WireInv
    <2>5. QED
        BY <2>1, <2>2, <2>3, <2>4 DEF ShapeInv
<1>4. LockInv /\ DialInv
    BY DEF IrohInit, LockInv, DialInv, Dialing
<1>5. AnswerInv
    BY <1>2 DEF AnswerInv
<1>6. EndInv /\ ReadInv /\ FramesInv
    BY DEF IrohInit, EndInv, ReadInv, FramesInv, Live
<1>7. ReplaceInv
    BY DEF IrohInit, ReplaceInv, At
<1>8. OwedInv
    BY DEF IrohInit, OwedInv
<1>9. Quiet /\ CalmEnds
    BY DEF IrohInit, Quiet, CalmEnds
<1>10. CalmSlots /\ CalmAnswers /\ CalmFrames /\ CalmWaits
    BY <1>2 DEF CalmSlots, CalmAnswers, CalmFrames, CalmWaits
<1>11. CalmDials
    BY DEF IrohInit, CalmDials, At
<1>12. OneChampion /\ ChampionLives
    BY <1>2 DEF OneChampion, ChampionLives, Champion
<1>13. QED
    BY <1>1, <1>3, <1>4, <1>5, <1>6, <1>7, <1>8, <1>9, <1>10, <1>11, <1>12
       DEF IrohInv, CalmIsCalm, CalmInv

(* What a call of send does keeps the invariant. *)
LEMMA SendKeepsInv ==
    ASSUME IrohInv, NEW s \in Senders, Send(s) \/ SendStep(s) \/ DialFails(s)
    PROVE  IrohInv'
<1>1. Home[s] \in Nodes /\ Target[s] \in Nodes
    BY SendersAssumption
<1>2. snd[s].at \in Dialing => snd[s].c \in Conns
    BY SenderHasEnd DEF IrohInv, Dialing, Holding, SendStages
<1>3. CASE Send(s) \/ Dial(s) \/ DialRefused(s) \/ DialFails(s)
    BY <1>1, <1>3, SendKeeps, DialKeeps, DialRefusedKeeps, DialFailsKeeps
<1>4. CASE RegisterDial(s)
    <2>1. snd[s].c \in Conns
        BY <1>2, <1>4 DEF RegisterDial, At, Dialing
    <2>2. QED
        BY <1>1, <1>4, <2>1, RegisterDialKeeps
<1>5. CASE SendPreflight(s)
    <2>1. snd[s].c \in Conns
        BY <1>2, <1>5 DEF SendPreflight, At, Dialing
    <2>2. PreflightSent(s) \/ PreflightLost(s) \/ PreflightFails(s)
        BY <1>5 DEF SendPreflight, PreflightSent, PreflightLost, PreflightFails, registry, wire, seen
    <2>3. QED
        BY <1>1, <2>1, <2>2, PreflightSentKeeps, PreflightLostKeeps, PreflightFailsKeeps
<1>6. CASE WaitForResolution(s) \/ CheckCurrent(s) \/ SendDataFrame(s)
    BY <1>6, WaitForResolutionKeeps, CheckCurrentKeeps, SendDataFrameKeeps
<1>7. CASE WaitForReplacement(s) \/ ReplacementTimeout(s)
    BY <1>7, WaitForReplacementKeeps, ReplacementTimeoutKeeps
<1>8. QED
    BY <1>3, <1>4, <1>5, <1>6, <1>7 DEF SendStep

(* What a reader does keeps the invariant. *)
LEMMA ReaderKeepsInv ==
    ASSUME IrohInv, NEW c \in Conns, NEW n \in Nodes, ReaderStep(c, n)
    PROVE  IrohInv'
<1>1. CASE ReadPreflight(c, n) \/ RegisterReader(c, n) \/ ReturnPreflight(c, n) \/ ActivateReader(c, n)
    BY <1>1, ReadPreflightKeeps, RegisterReaderKeeps, ReturnPreflightKeeps, ActivateReaderKeeps
<1>2. CASE CleanupNoUrl(c, n) \/ CleanupSlot(c, n) \/ CleanupVerdict(c, n)
    BY <1>2, CleanupNoUrlKeeps, CleanupSlotKeeps, CleanupVerdictKeeps
<1>3. CASE PreflightTimeout(c, n) \/ \E s \in Senders : ReadDataFrame(c, n, s)
    BY <1>3, PreflightTimeoutKeeps, ReadDataFrameKeeps
<1>4. QED
    BY <1>1, <1>2, <1>3 DEF ReaderStep

(* Every step keeps the invariant. *)
LEMMA IrohStep == IrohInv /\ [IrohNext]_irohVars => IrohInv'
<1> SUFFICES ASSUME IrohInv, [IrohNext]_irohVars PROVE IrohInv'
    OBVIOUS
<1>1. ASSUME NEW s \in Senders, Send(s) \/ SendStep(s) \/ DialFails(s) PROVE IrohInv'
    BY <1>1, SendKeepsInv
<1>2. ASSUME NEW c \in Conns, NEW n \in Nodes,
             \/ ReaderStep(c, n) \/ RejectPreflight(c, n) \/ ReplyFails(c, n)
             \/ DisconnectClose(c, n) \/ Lose(c, n)
      PROVE  IrohInv'
    BY <1>2, ReaderKeepsInv, RejectPreflightKeeps, ReplyFailsKeeps, DisconnectCloseKeeps, LoseKeeps
<1>3. ASSUME NEW c \in Conns, NEW n \in Nodes, NEW f \in FramesTo(c, n), DeliverClose(c, n, f[3])
      PROVE  IrohInv'
    <2>1. f[3] \in Codes
        BY DEF IrohInv, IrohTypeOK, FramesTo
    <2>2. QED
        BY <1>3, <2>1, DeliverCloseKeeps
<1>4. ASSUME NEW n \in Nodes, NEW m \in Nodes, DisconnectTake(n, m) PROVE IrohInv'
    BY <1>4, DisconnectTakeKeeps
<1>5. CASE UNCHANGED irohVars
    BY <1>5, NothingKeeps
<1>6. QED
    BY <1>1, <1>2, <1>3, <1>4, <1>5 DEF IrohNext

----------------------------------------------------------------------------
(* An end that is read from while nothing is under way is in use, and so   *)
(* is the other.                                                           *)
LEMMA ReadIsUse ==
    ASSUME IrohInv, Idle, NEW c \in Made, NEW n \in EndsOf(c), reader[c][n] = "read"
    PROVE  InUse(c)
<1> USE DEF IrohInv
<1> DEFINE m == Peer(c, n)
<1>1. /\ c \in Conns /\ n \in Nodes /\ EndAt(c, n)
      /\ conn[c].from \in Nodes /\ conn[c].to \in Nodes /\ conn[c].from # conn[c].to
    BY MadeEnds DEF EndsOf
<1>2. m \in Nodes /\ m \in EndsOf(c) /\ EndAt(c, m) /\ Peer(c, m) = n /\ EndsOf(c) = {n, m}
    BY <1>1, PeerIsNode DEF EndsOf, EndAt, Peer
<1>3. closes = {} /\ leaving = {} /\ FramesTo(c, n) = {}
    BY DEF Idle, FramesTo
<1>4. ended[c][n] = "open" /\ ended[c][m] = "open"
    BY <1>3 DEF Idle, LostByPeer
<1>5. reader[c][m] \in {"done", "accept", "read"} /\ (reader[c][m] = "accept" => <<c, m>> \notin preflights)
    BY <1>2 DEF Idle
<1>6. reader[c][m] # "done"
    BY <1>1, <1>2, <1>4 DEF EndInv
<1>7. reader[c][m] # "accept"
    BY <1>1, <1>2, <1>5 DEF AnswerInv, EndsOf
<1>8. reader[c][m] = "read"
    BY <1>5, <1>6, <1>7
<1>9. slot[n][m] = c /\ slot[m][n] = c
    BY <1>1, <1>2, <1>3, <1>4, <1>8 DEF ReadInv
<1>10. QED
    BY <1>2, <1>8, <1>9 DEF InUse

(* Every pair that has a connection has a champion. *)
LEMMA SomeChampion == ASSUME IrohInv, Made # {} PROVE \E c \in Conns : Champion(c)
<1>1. PICK x \in Made : TRUE
    OBVIOUS
<1>2. x \in Conns
    BY DEF Made
<1>3. CASE \E d \in Conns : Preferred(d)
    BY <1>3 DEF Champion, Preferred
<1>4. CASE \A d \in Conns : ~Preferred(d)
    BY <1>1, <1>2, <1>4 DEF Champion
<1>5. QED
    BY <1>3, <1>4

(* The invariant implies the properties of the transport. *)
LEMMA IrohMeans ==
    ASSUME IrohInv
    PROVE  /\ EndsAgree /\ NoFalseUnresponsive /\ EndsAreReported
           /\ WrittenArrives /\ NoStuckSend
<1> USE DEF IrohInv
<1>1. NoFalseUnresponsive
    BY DEF CalmIsCalm, CalmInv, Quiet, NoFalseUnresponsive
<1>2. EndsAreReported
    <2>1. ASSUME NEW c \in Made, NEW n \in EndsOf(c), reader[c][n] = "done", <<c, n>> \in owed
          PROVE  <<c, n>> \in leaving \/ IsSuperseded(c, n)
        <3>1. c \in Conns /\ n \in Nodes
            BY MadeEnds DEF EndsOf
        <3>2. QED
            BY <2>1, <3>1 DEF OwedInv
    <2>2. QED
        BY <2>1 DEF EndsAreReported
<1>3. NoStuckSend
    <2>1. ASSUME Idle, NEW s \in Senders, At(s, "resolve")
          PROVE  reader[snd[s].c][Home[s]] = "accept"
        <3>1. /\ snd[s].c \in Conns /\ Home[s] \in Nodes /\ EndAt(snd[s].c, Home[s])
            BY <2>1, SenderHasEnd DEF At, Holding, SendStages
        <3>2. life[snd[s].c][Home[s]] = "Pending"
            BY <2>1 DEF Idle, At
        <3>3. snd[s].c \in Made /\ Home[s] \in EndsOf(snd[s].c)
            BY <3>1 DEF EndAt, EndsOf
        <3>4. reader[snd[s].c][Home[s]] \in {"done", "accept", "read"}
            BY <2>1, <3>3 DEF Idle
        <3>5. QED
            BY <3>1, <3>2, <3>4 DEF EndInv, Live
    <2>2. QED
        BY <2>1 DEF NoStuckSend
<1>4. WrittenArrives
    <2>1. ASSUME Idle, troubles = 0, NEW f \in inbox PROVE IsSuperseded(f[1], f[2])
        <3>1. PICK c \in Conns, n \in Nodes, s \in Senders : f = <<c, n, s>>
            BY DEF IrohTypeOK
        <3>2. EndAt(c, n)
            BY <3>1 DEF ShapeInv, WireInv
        <3>3. c \in Made /\ n \in EndsOf(c)
            BY <3>2 DEF EndAt, EndsOf
        <3>4. reader[c][n] # "accept"
            BY <2>1, <3>2, NoLateAccept
        <3>5. reader[c][n] = "done"
            BY <2>1, <3>1, <3>3, <3>4 DEF Idle
        <3>6. ended[c][n] # "open"
            BY <3>5 DEF EndInv
        <3>7. IsSuperseded(c, n)
            BY <2>1, <3>6 DEF CalmIsCalm, CalmInv, CalmEnds
        <3>8. QED
            BY <3>1, <3>7
    <2>2. QED
        BY <2>1 DEF WrittenArrives
<1>5. EndsAgree
    <2>1. ASSUME Idle, NEW c \in Made, NEW n \in EndsOf(c), reader[c][n] = "read"
          PROVE  InUse(c)
        BY <2>1, ReadIsUse
    <2>2. ASSUME Idle, troubles = 0, Made # {} PROVE \E c \in Made : InUse(c)
        <3>1. PICK c \in Conns : Champion(c)
            BY <2>2, SomeChampion
        <3>2. c \in Made /\ Kept(c)
            BY <2>2, <3>1 DEF Champion, CalmIsCalm, CalmInv, ChampionLives
        <3>3. conn[c].to \in EndsOf(c) /\ conn[c].to \in Nodes /\ EndAt(c, conn[c].to)
            BY <3>2, MadeEnds DEF EndsOf
        <3>4. reader[c][conn[c].to] # "accept"
            BY <2>2, <3>3, NoLateAccept
        <3>5. reader[c][conn[c].to] = "read"
            BY <2>2, <3>2, <3>3, <3>4 DEF Kept, Idle
        <3>6. QED
            BY <2>2, <3>2, <3>3, <3>5, ReadIsUse
    <2>3. QED
        BY <2>1, <2>2 DEF EndsAgree
<1>6. QED
    BY <1>1, <1>2, <1>3, <1>4, <1>5

(* However the dials, preflights, closes, losses and disconnects of any    *)
(* number of nodes interleave: once nothing is under way a connection in   *)
(* use holds the slot at both of its ends, and if nothing went wrong one   *)
(* is in use (is_preferred_connection, register_candidate, activate).      *)
THEOREM BothEndsAgree == IrohSpec => []EndsAgree
<1>1. IrohInv => EndsAgree
    BY IrohMeans
<1>2. QED
    BY <1>1, IrohStart, IrohStep, PTL DEF IrohSpec

(* Losing a race for the slot never marks a peer unresponsive              *)
(* (create_connection_and_context, classify_exit).                         *)
THEOREM NobodyIsBlamed == IrohSpec => []NoFalseUnresponsive
<1>1. IrohInv => NoFalseUnresponsive
    BY IrohMeans
<1>2. QED
    BY <1>1, IrohStart, IrohStep, PTL DEF IrohSpec

(* The end of a connection that was in use is reported, unless another     *)
(* took its place (cleanup_after_exit, classify_exit).                     *)
THEOREM EndsAreTold == IrohSpec => []EndsAreReported
<1>1. IrohInv => EndsAreReported
    BY IrohMeans
<1>2. QED
    BY <1>1, IrohStart, IrohStep, PTL DEF IrohSpec

(* Data that was written is read, unless its connection lost or something  *)
(* failed (handle_incoming_stream).                                        *)
THEOREM DataArrives == IrohSpec => []WrittenArrives
<1>1. IrohInv => WrittenArrives
    BY IrohMeans
<1>2. QED
    BY <1>1, IrohStart, IrohStep, PTL DEF IrohSpec

(* A call of send that waits has a deadline (wait_for_resolution).         *)
THEOREM WaitsEnd == IrohSpec => []NoStuckSend
<1>1. IrohInv => NoStuckSend
    BY IrohMeans
<1>2. QED
    BY <1>1, IrohStart, IrohStep, PTL DEF IrohSpec

----------------------------------------------------------------------------
(* The transport keeps the registry's promises.                            *)

SlotsStep == [Slots!SlotsNext]_<<life, slot>>

(* A verdict on an end is an end of its connection, or comes too late. *)
LEMMA MarkRefines ==
    ASSUME IrohTypeOK, NEW c \in Conns, NEW n \in Nodes, NEW t \in Terminal,
           life' = Mark(life, c, n, t), UNCHANGED slot
    PROVE  SlotsStep
<1>1. life \in [Conns -> [Nodes -> {"none"} \cup Live \cup Terminal]]
    BY DEF IrohTypeOK
<1>2. CASE life[c][n] \in Live
    <2>1. life' = [life EXCEPT ![c][n] = t]
        BY <1>1, <1>2 DEF Mark
    <2>2. Slots!End(c, n, n)
        BY <1>2, <2>1 DEF Slots!End, Slots!Live, Slots!Terminal, Live, Terminal
    <2>3. QED
        BY <2>2 DEF SlotsStep, Slots!SlotsNext
<1>3. CASE life[c][n] \notin Live
    <2>1. life' = life
        BY <1>1, <1>3 DEF Mark
    <2>2. QED
        BY <2>1 DEF SlotsStep
<1>4. QED
    BY <1>2, <1>3

(* Giving up the slot is a release, or nothing. *)
LEMMA DropRefines ==
    ASSUME IrohTypeOK, NEW c \in Conns, NEW n \in Nodes, Peer(c, n) \in Nodes,
           RemoveIfCurrent(c, n), UNCHANGED life
    PROVE  SlotsStep
<1>1. slot \in [Nodes -> [Nodes -> Conns \cup {0}]]
    BY DEF IrohTypeOK
<1>2. CASE slot[n][Peer(c, n)] = c
    <2>1. slot' = [slot EXCEPT ![n][Peer(c, n)] = 0]
        BY <1>1, <1>2 DEF RemoveIfCurrent
    <2>2. Slots!Release(n, Peer(c, n))
        BY <2>1 DEF Slots!Release
    <2>3. QED
        BY <2>2 DEF SlotsStep, Slots!SlotsNext
<1>3. CASE slot[n][Peer(c, n)] # c
    <2>1. slot' = slot
        BY <1>1, <1>3 DEF RemoveIfCurrent
    <2>2. QED
        BY <2>1 DEF SlotsStep
<1>4. QED
    BY <1>2, <1>3

(* Both at once: the connection ends and its entry goes with it. *)
LEMMA FailRefines ==
    ASSUME IrohTypeOK, NEW c \in Conns, NEW n \in Nodes, Peer(c, n) \in Nodes,
           NEW t \in Terminal, life' = Mark(life, c, n, t), RemoveIfCurrent(c, n)
    PROVE  SlotsStep
<1>1. /\ life \in [Conns -> [Nodes -> {"none"} \cup Live \cup Terminal]]
      /\ slot \in [Nodes -> [Nodes -> Conns \cup {0}]]
    BY DEF IrohTypeOK
<1>2. CASE life[c][n] \notin Live
    <2>1. life' = life
        BY <1>1, <1>2 DEF Mark
    <2>2. QED
        BY <2>1, DropRefines
<1>3. CASE slot[n][Peer(c, n)] # c
    <2>1. slot' = slot
        BY <1>1, <1>3 DEF RemoveIfCurrent
    <2>2. QED
        BY <2>1, MarkRefines
<1>4. CASE life[c][n] \in Live /\ slot[n][Peer(c, n)] = c
    <2>1. life' = [life EXCEPT ![c][n] = t]
        BY <1>1, <1>4 DEF Mark
    <2>2. slot' = [slot EXCEPT ![n][Peer(c, n)] = 0]
        BY <1>1, <1>4 DEF RemoveIfCurrent
    <2>3. Slots!End(c, n, Peer(c, n))
        BY <1>4, <2>1, <2>2 DEF Slots!End, Slots!Live, Slots!Terminal, Live, Terminal
    <2>4. QED
        BY <2>3 DEF SlotsStep, Slots!SlotsNext
<1>5. QED
    BY <1>2, <1>3, <1>4

(* A candidate claims the slot from whoever holds it, or it ends. *)
LEMMA RegisterRefines ==
    ASSUME IrohTypeOK, NEW c \in Conns, NEW n \in Nodes, Peer(c, n) \in Nodes,
           \/ Wins(c, n) /\ Register(c, n)
           \/ ~Wins(c, n) /\ life' = Mark(life, c, n, "Superseded") /\ UNCHANGED slot
    PROVE  SlotsStep
<1> DEFINE m == Peer(c, n)
           d == slot[n][m]
<1>1. life \in [Conns -> [Nodes -> {"none"} \cup Live \cup Terminal]]
    BY DEF IrohTypeOK
<1>2. d \in Conns \cup {0} /\ 0 \notin Conns
    BY ConnsAssumption DEF IrohTypeOK
<1>3. CASE ~Wins(c, n)
    BY <1>3, MarkRefines DEF Terminal
<1>4. CASE Wins(c, n)
    <2>1. life[c][n] \in Live /\ slot' = [slot EXCEPT ![n][m] = c]
        BY <1>4 DEF Wins, Register
    <2>2. life' = [e \in Conns |->
                     IF e = d /\ e # c /\ life[e][n] \in Live
                     THEN [life[e] EXCEPT ![n] = "Superseded"] ELSE life[e]]
        <3>1. CASE d \in {0, c}
            <4>1. life' = life
                BY <1>4, <3>1 DEF Register
            <4>2. QED
                BY <1>1, <1>2, <3>1, <4>1
        <3>2. CASE d \notin {0, c}
            <4>1. life' = Mark(life, d, n, "Superseded") /\ d \in Conns
                BY <1>2, <1>4, <3>2 DEF Register
            <4>2. CASE life[d][n] \in Live
                <5>1. life' = [life EXCEPT ![d] = [life[d] EXCEPT ![n] = "Superseded"]]
                    BY <1>1, <4>1, <4>2 DEF Mark
                <5>2. QED
                    BY <1>1, <3>2, <4>1, <4>2, <5>1
            <4>3. CASE life[d][n] \notin Live
                <5>1. life' = life
                    BY <1>1, <4>1, <4>3 DEF Mark
                <5>2. QED
                    BY <1>1, <4>3, <5>1
            <4>4. QED
                BY <4>2, <4>3
        <3>3. QED
            BY <3>1, <3>2
    <2>3. Slots!Claim(c, n, m)
        BY <2>1, <2>2 DEF Slots!Claim, Slots!Live, Live
    <2>4. QED
        BY <2>3 DEF SlotsStep, Slots!SlotsNext
<1>5. QED
    BY <1>3, <1>4

(* What a call of send does to the registry. *)
LEMMA SendRefines ==
    ASSUME IrohInv, NEW s \in Senders, Send(s) \/ SendStep(s) \/ DialFails(s)
    PROVE  SlotsStep
<1> DEFINE c == snd[s].c
           n == Home[s]
<1>1. n \in Nodes /\ Target[s] \in Nodes /\ n # Target[s]
    BY SendersAssumption
<1>2. IrohTypeOK
    BY DEF IrohInv
<1>3. ASSUME snd[s].at \in Holding PROVE c \in Conns /\ Peer(c, n) \in Nodes
    BY <1>1, <1>3, SenderHasEnd DEF IrohInv
<1>4. CASE \/ Send(s) \/ DialRefused(s) \/ DialFails(s) \/ WaitForResolution(s)
           \/ CheckCurrent(s) \/ SendDataFrame(s) \/ WaitForReplacement(s)
    <2>1. UNCHANGED <<life, slot>>
        BY <1>4 DEF Send, DialRefused, DialFails, WaitForResolution, CheckCurrent,
                    SendDataFrame, WaitForReplacement, registry
    <2>2. QED
        BY <2>1 DEF SlotsStep
<1>5. CASE Dial(s)
    <2>1. PICK d \in Conns \ Made :
              /\ life' = Accepted(NewContext(life, d, n, "Pending"), d, Target[s], "Pending")
              /\ UNCHANGED slot
        BY <1>5 DEF Dial
    <2>2. ~EndAt(d, n) /\ ~EndAt(d, Target[s])
        BY <2>1 DEF EndAt
    <2>3. life[d][n] = "none" /\ life[d][Target[s]] = "none"
        BY <1>1, <2>1, <2>2 DEF IrohInv, ShapeInv, EndsInv
    <2>4. life' = [life EXCEPT ![d][n] = "Pending", ![d][Target[s]] = "Pending"]
        BY <2>1 DEF Accepted, NewContext
    <2>5. Slots!Open(d, n, Target[s])
        BY <2>1, <2>3, <2>4 DEF Slots!Open
    <2>6. QED
        BY <1>1, <2>1, <2>5 DEF SlotsStep, Slots!SlotsNext
<1>6. CASE RegisterDial(s)
    <2>1. c \in Conns /\ Peer(c, n) \in Nodes
        BY <1>3, <1>6 DEF RegisterDial, At, Holding, SendStages
    <2>2. \/ Wins(c, n) /\ Register(c, n)
          \/ ~Wins(c, n) /\ life' = Mark(life, c, n, "Superseded") /\ UNCHANGED slot
        BY <1>6 DEF RegisterDial
    <2>3. QED
        BY <1>1, <1>2, <2>1, <2>2, RegisterRefines
<1>7. CASE SendPreflight(s)
    <2>1. c \in Conns /\ Peer(c, n) \in Nodes
        BY <1>3, <1>7 DEF SendPreflight, At, Holding, SendStages
    <2>2. \/ UNCHANGED <<life, slot>>
          \/ life' = Mark(life, c, n, "Closed") /\ RemoveIfCurrent(c, n)
        BY <1>7 DEF SendPreflight, registry
    <2>3. QED
        BY <1>1, <1>2, <2>1, <2>2, FailRefines DEF SlotsStep, Terminal
<1>8. CASE ReplacementTimeout(s)
    <2>1. c \in Conns /\ Peer(c, n) \in Nodes
        BY <1>3, <1>8 DEF ReplacementTimeout, At, Holding, SendStages
    <2>2. RemoveIfCurrent(c, n) /\ UNCHANGED life
        BY <1>8 DEF ReplacementTimeout
    <2>3. QED
        BY <1>1, <1>2, <2>1, <2>2, DropRefines
<1>9. QED
    BY <1>4, <1>5, <1>6, <1>7, <1>8 DEF SendStep

(* What a reader does to the registry. *)
LEMMA ReaderRefines ==
    ASSUME IrohInv, NEW c \in Conns, NEW n \in Nodes, ReaderStep(c, n)
    PROVE  SlotsStep
<1>1. IrohTypeOK
    BY DEF IrohInv
<1>2. ASSUME reader[c][n] # "none" PROVE EndAt(c, n) /\ Peer(c, n) \in Nodes
    <2>1. EndAt(c, n)
        BY <1>2 DEF IrohInv, ShapeInv, EndsInv
    <2>2. QED
        BY <1>1, <2>1, PeerIsNode DEF IrohInv
<1>3. CASE \/ ReadPreflight(c, n) \/ ReturnPreflight(c, n) \/ PreflightTimeout(c, n)
           \/ \E s \in Senders : ReadDataFrame(c, n, s)
    <2>1. UNCHANGED <<life, slot>>
        BY <1>3 DEF ReadPreflight, ReturnPreflight, PreflightTimeout, ReadDataFrame, registry
    <2>2. QED
        BY <2>1 DEF SlotsStep
<1>4. CASE RegisterReader(c, n)
    <2>1. Peer(c, n) \in Nodes
        BY <1>2, <1>4 DEF RegisterReader
    <2>2. \/ Wins(c, n) /\ Register(c, n)
          \/ ~Wins(c, n) /\ life' = Mark(life, c, n, "Superseded") /\ UNCHANGED slot
        BY <1>4 DEF RegisterReader, Register
    <2>3. QED
        BY <1>1, <2>1, <2>2, RegisterRefines
<1>5. CASE ActivateReader(c, n)
    <2>1. Peer(c, n) \in Nodes
        BY <1>2, <1>5 DEF ActivateReader
    <2>2. CASE CanActivate(c, n) /\ life[c][n] = "Pending"
        <3>1. Slots!Activate(c, n, Peer(c, n))
            BY <1>5, <2>2 DEF ActivateReader, CanActivate, Slots!Activate
        <3>2. QED
            BY <2>1, <3>1 DEF SlotsStep, Slots!SlotsNext
    <2>3. CASE ~(CanActivate(c, n) /\ life[c][n] = "Pending")
        <3>1. UNCHANGED slot
            BY <1>5 DEF ActivateReader
        <3>2. UNCHANGED life
            BY <1>1, <1>5, <2>3 DEF ActivateReader, CanActivate, Live, IrohTypeOK
        <3>3. QED
            BY <3>1, <3>2 DEF SlotsStep
    <2>4. QED
        BY <2>2, <2>3
<1>6. CASE CleanupNoUrl(c, n)
    BY <1>1, <1>6, MarkRefines DEF CleanupNoUrl, Terminal
<1>7. CASE CleanupSlot(c, n)
    <2>1. Peer(c, n) \in Nodes
        BY <1>2, <1>7 DEF CleanupSlot, Exits
    <2>2. RemoveIfCurrent(c, n) /\ UNCHANGED life
        BY <1>7 DEF CleanupSlot
    <2>3. QED
        BY <1>1, <2>1, <2>2, DropRefines
<1>8. CASE CleanupVerdict(c, n)
    <2>1. PICK t \in Terminal : life' = Mark(life, c, n, t)
        BY <1>8 DEF CleanupVerdict, Terminal
    <2>2. QED
        BY <1>1, <1>8, <2>1, MarkRefines DEF CleanupVerdict
<1>9. QED
    BY <1>3, <1>4, <1>5, <1>6, <1>7, <1>8 DEF ReaderStep

(* What else happens to it. *)
LEMMA RestRefines ==
    ASSUME IrohInv, NEW c \in Conns, NEW n \in Nodes,
           \/ RejectPreflight(c, n) \/ ReplyFails(c, n) \/ DisconnectClose(c, n) \/ Lose(c, n)
           \/ \E f \in FramesTo(c, n) : DeliverClose(c, n, f[3])
    PROVE  SlotsStep
<1>1. CASE \/ RejectPreflight(c, n) \/ ReplyFails(c, n) \/ Lose(c, n)
           \/ \E f \in FramesTo(c, n) : DeliverClose(c, n, f[3])
    <2>1. UNCHANGED <<life, slot>>
        BY <1>1 DEF RejectPreflight, ReplyFails, Lose, DeliverClose, registry
    <2>2. QED
        BY <2>1 DEF SlotsStep
<1>2. CASE DisconnectClose(c, n)
    <2>1. IrohTypeOK
        BY DEF IrohInv
    <2>2. life' = Mark(life, c, n, "Closed") /\ UNCHANGED slot /\ "Closed" \in Terminal
        BY <1>2 DEF DisconnectClose, Terminal
    <2>3. QED
        BY <2>1, <2>2, MarkRefines
<1>3. QED
    BY <1>1, <1>2

(* Every step is a step of the registry, or none. *)
LEMMA SlotsFollow == IrohInv /\ [IrohNext]_irohVars => SlotsStep
<1> SUFFICES ASSUME IrohInv, [IrohNext]_irohVars PROVE SlotsStep
    OBVIOUS
<1>1. ASSUME NEW n \in Nodes, NEW m \in Nodes, DisconnectTake(n, m) PROVE SlotsStep
    <2>1. slot' = [slot EXCEPT ![n][m] = 0] /\ UNCHANGED life
        BY <1>1 DEF DisconnectTake
    <2>2. Slots!Release(n, m)
        BY <2>1 DEF Slots!Release
    <2>3. slot[n][m] \in Conns
        BY <1>1, LimitsAssumption DEF DisconnectTake, Exposed
    <2>4. QED
        BY <2>2, <2>3 DEF SlotsStep, Slots!SlotsNext
<1>2. CASE UNCHANGED irohVars
    BY <1>2 DEF irohVars, SlotsStep
<1>3. ASSUME NEW s \in Senders, Send(s) \/ SendStep(s) \/ DialFails(s) PROVE SlotsStep
    BY <1>3, SendRefines
<1>4. ASSUME NEW c \in Conns, NEW n \in Nodes, ReaderStep(c, n) PROVE SlotsStep
    BY <1>4, ReaderRefines
<1>5. QED
    BY <1>1, <1>2, <1>3, <1>4, RestRefines DEF IrohNext

(* The transport implements the registry it is built around: a connection  *)
(* ends for good, only the holder of a slot becomes active, and a live     *)
(* holder learns of its displacement in the same step                      *)
(* (ConnectionRegistry, ConnectionLifecycle).                              *)
THEOREM SlotsAreKept == IrohSpec => ImplementsSlots
<1>1. IrohInit => Slots!SlotsInit
    BY DEF IrohInit, Slots!SlotsInit
<1>2. IrohInv /\ [IrohNext]_irohVars => [Slots!SlotsNext]_<<life, slot>>
    BY SlotsFollow DEF SlotsStep
<1>3. QED
    BY <1>1, <1>2, IrohStart, IrohStep, PTL DEF IrohSpec, ImplementsSlots, Slots!SlotsSpec
====
