---- MODULE ServerProofs ----
(***************************************************************************)
(* Theorems about the bootstrap server: its sockets and threads, for any   *)
(* number of sockets, threads, listeners and requests and any rate limit,  *)
(* its tokens, for any number of clients and any idle timeout of at least  *)
(* three prune intervals, and, in the last part, its store of infos, for   *)
(* any number of authors, workers and entries; and about the memory        *)
(* transport, for any number of connections, calls of send and faults.     *)
(***************************************************************************)
EXTENDS BootstrapStore, HttpServer, RelayAuth, MemTransport, SequenceTheorems,
        FiniteSetTheorems, TLAPS

----------------------------------------------------------------------------
(* The establish deadline.                                                 *)

(* A socket that has been answered once is no longer under the deadline,   *)
(* and one that is not accepted yet has asked nothing.                     *)
Disarmed(r) ==
    /\ r.stage \in {"answered", "upgraded", "relay"} => r.deadline = "off"
    /\ r.stage = "head" /\ r.asks > 0 => r.deadline = "off"
    /\ r.asks > 1 => r.deadline = "off"
    /\ r.stage \in {"none", "handshake"} => r.asks = 0

SocketsOK == sock \in [Sockets -> [stage : Stages, deadline : {"off", "armed", "over"},
                                  asks : Nat]]

EstablishInv ==
    /\ SocketsOK
    /\ \A s \in Sockets : Disarmed(sock[s])
    /\ cut = {}

(* No connection has been made. *)
LEMMA EstablishStart == HttpInit => EstablishInv
  BY DEF HttpInit, EstablishInv, SocketsOK, Disarmed, NoSocket, Stages, Gone

(* A worker thread touches no socket but one that waits for its answer. *)
LEMMA WorkOnSockets ==
    ASSUME SocketsOK, NEW t \in Threads, Work(t)
    PROVE  /\ cut' = cut
           /\ \/ sock' = sock
              \/ \E s \in Sockets : sock[s].stage = "wait" /\ Write(s, "answered")
<1>1. cut' = cut
  BY DEF Work
<1>2. CASE thread[t].pc = "handle"
  <2> DEFINE s == thread[t].job[1]
  <2>1. CASE sock' = sock
    BY <1>1, <2>1
  <2>2. CASE sock[s].stage = "wait" /\ Write(s, "answered") /\ s \in Sockets
    BY <1>1, <2>2
  <2>3. CASE Write(s, "answered") /\ s \notin Sockets
    <3>1. sock' = sock
      BY <2>3 DEF Write, SocketsOK
    <3> QED
      BY <1>1, <3>1
  <2>4. sock' = sock \/ (sock[s].stage = "wait" /\ Write(s, "answered"))
    BY <1>2 DEF Work, worker
  <2> QED
    BY <2>1, <2>2, <2>3, <2>4
<1>3. CASE thread[t].pc # "handle"
  BY <1>1, <1>3 DEF Work, worker
<1> QED
  BY <1>2, <1>3

(* The deadline fires only on a socket that was never answered. *)
LEMMA EstablishStep == EstablishInv /\ [HttpNext]_httpVars => EstablishInv'
<1> SUFFICES ASSUME EstablishInv, [HttpNext]_httpVars
             PROVE  EstablishInv'
  OBVIOUS
<1> USE DEF EstablishInv, SocketsOK, Disarmed, Stages, Gone, pool
<1>1. ASSUME NEW s \in Sockets,
             accept(s) \/ Handshake(s) \/ Elapse(s) \/ KeepAlive(s) \/ Hangup(s)
      PROVE  EstablishInv'
  BY <1>1 DEF accept, Handshake, Elapse, KeepAlive, Hangup, To
<1>2. ASSUME NEW s \in Sockets, poll_read(s)
      PROVE  EstablishInv'
  BY <1>2 DEF poll_read
<1>3. ASSUME NEW s \in Sockets, TimedOut(s)
      PROVE  EstablishInv'
  BY <1>3 DEF TimedOut, To
<1>4. ASSUME NEW s \in Sockets, Routes(s)
      PROVE  EstablishInv'
  <2> USE DEF Write, To, established
  <2>1. CASE handle_auth(s)
    BY <2>1 DEF handle_auth
  <2>2. CASE handle_dispatch(s)
    BY <2>2 DEF handle_dispatch, handle_health_get, handle_boot_get, handle_boot_put
  <2>3. CASE Refuse(s) \/ handle_relay_keepalive(s) \/ relay_probe_handler(s)
    BY <2>3 DEF Refuse, handle_relay_keepalive, relay_probe_handler
  <2>4. CASE relay_handler(s)
    BY <2>4 DEF relay_handler
  <2> QED
    BY <1>4, <2>1, <2>2, <2>3, <2>4 DEF Routes
<1>5. ASSUME NEW s \in Sockets, Enqueue(s) \/ DispatchTimeout(s)
      PROVE  EstablishInv'
  <2>1. /\ sock[s].stage \in {"send", "wait"} /\ cut' = cut
        /\ Write(s, "answered") \/ To(s, "wait")
    BY <1>5 DEF Enqueue, DispatchTimeout
  <2> QED
    BY <2>1 DEF Write, To, established
<1>6. ASSUME NEW s \in Sockets, handle_relay_websocket(s)
      PROVE  EstablishInv'
  <2>1. PICK x \in {"relay", "closed"} : sock' = [sock EXCEPT ![s].stage = x]
    BY <1>6 DEF handle_relay_websocket
  <2>2. sock[s].stage = "upgraded" /\ cut' = cut
    BY <1>6 DEF handle_relay_websocket
  <2> QED
    BY <2>1, <2>2
<1>7. ASSUME NEW s \in Sockets,
             Refill(s) \/ \E bytes \in 1 .. MaxFrame : poll_next(s, bytes)
      PROVE  EstablishInv'
  BY <1>7 DEF Refill, poll_next
<1>8. ASSUME NEW t \in Threads, SpawnWorker(t) \/ Work(t)
      PROVE  EstablishInv'
  <2>1. CASE sock' = sock /\ cut' = cut
    BY <2>1
  <2>2. ASSUME NEW s \in Sockets, sock[s].stage = "wait", Write(s, "answered"), cut' = cut
        PROVE  EstablishInv'
    BY <2>2 DEF Write, established
  <2> QED
    BY <1>8, <2>1, <2>2, WorkOnSockets DEF SpawnWorker, Starting
<1>9. CASE Bind \/ StartFails \/ SendReady \/ SpawnPruner \/ prune_worker
  BY <1>9 DEF Bind, StartFails, SendReady, SpawnPruner, prune_worker, Starting
<1>10. CASE shutdown \/ DropServer \/ Joined
  BY <1>10 DEF shutdown, DropServer, Joined
<1>11. CASE EndConnections
  BY <1>11 DEF EndConnections
<1>12. CASE UNCHANGED httpVars
  BY <1>12 DEF httpVars
<1> QED
  BY <1>1, <1>2, <1>3, <1>4, <1>5, <1>6, <1>7, <1>8, <1>9, <1>10, <1>11, <1>12
     DEF HttpNext

(* Once the server has answered on a connection, or turned it into a relay *)
(* connection, the establish deadline never closes it.                     *)
THEOREM EstablishedIsSafe == HttpSpec => []EstablishedStays
<1>1. EstablishInv => EstablishedStays
  BY DEF EstablishInv, EstablishedStays
<1> QED
  BY <1>1, EstablishStart, EstablishStep, PTL DEF HttpSpec

----------------------------------------------------------------------------
(* The shutdown.                                                           *)

(* From the drop of the server on the channel is closed, and once its      *)
(* connections are ended every socket is.                                  *)
ShutdownInv ==
    /\ SocketsOK
    /\ stop \in {"closing", "join", "done"} => closed
    /\ stop \in {"join", "done"} => \A s \in Sockets : sock[s].stage = "closed"

(* The server has not begun to stop. *)
LEMMA ShutdownStart == HttpInit => ShutdownInv
  BY DEF HttpInit, ShutdownInv, SocketsOK, NoSocket, Stages, Gone

(* No step opens a socket or the channel again: a socket is accepted only  *)
(* while the server serves, and the others move only while they are open.  *)
LEMMA ShutdownStep == ShutdownInv /\ [HttpNext]_httpVars => ShutdownInv'
<1> SUFFICES ASSUME ShutdownInv, [HttpNext]_httpVars
             PROVE  ShutdownInv'
  OBVIOUS
<1> USE DEF ShutdownInv, SocketsOK, Stages, Gone, pool
<1>1. ASSUME NEW s \in Sockets,
             accept(s) \/ Handshake(s) \/ Elapse(s) \/ KeepAlive(s) \/ Hangup(s)
      PROVE  ShutdownInv'
  BY <1>1 DEF accept, Handshake, Elapse, KeepAlive, Hangup, To
<1>2. ASSUME NEW s \in Sockets, poll_read(s) \/ TimedOut(s)
      PROVE  ShutdownInv'
  BY <1>2, HttpAssumption DEF poll_read, TimedOut, To
<1>3. ASSUME NEW s \in Sockets, Routes(s)
      PROVE  ShutdownInv'
  <2> USE DEF Write, To, established
  <2>1. CASE handle_auth(s)
    BY <2>1 DEF handle_auth
  <2>2. CASE handle_dispatch(s)
    BY <2>2 DEF handle_dispatch, handle_health_get, handle_boot_get, handle_boot_put
  <2>3. CASE Refuse(s) \/ handle_relay_keepalive(s) \/ relay_probe_handler(s)
    BY <2>3 DEF Refuse, handle_relay_keepalive, relay_probe_handler
  <2>4. CASE relay_handler(s)
    BY <2>4 DEF relay_handler
  <2> QED
    BY <1>3, <2>1, <2>2, <2>3, <2>4 DEF Routes
<1>4. ASSUME NEW s \in Sockets, Enqueue(s) \/ DispatchTimeout(s)
      PROVE  ShutdownInv'
  BY <1>4 DEF Enqueue, DispatchTimeout, Write, To, established
<1>5. ASSUME NEW s \in Sockets, handle_relay_websocket(s)
      PROVE  ShutdownInv'
  <2>1. PICK x \in {"relay", "closed"} : sock' = [sock EXCEPT ![s].stage = x]
    BY <1>5 DEF handle_relay_websocket
  <2>2. sock[s].stage = "upgraded" /\ stop' = stop /\ closed' = closed
    BY <1>5 DEF handle_relay_websocket
  <2> QED
    BY <2>1, <2>2
<1>6. ASSUME NEW s \in Sockets,
             Refill(s) \/ \E bytes \in 1 .. MaxFrame : poll_next(s, bytes)
      PROVE  ShutdownInv'
  BY <1>6 DEF Refill, poll_next
<1>7. ASSUME NEW t \in Threads, SpawnWorker(t) \/ Work(t)
      PROVE  ShutdownInv'
  <2>1. stop' = stop /\ closed' = closed
    BY <1>7 DEF SpawnWorker, Work
  <2>2. CASE sock' = sock
    BY <2>1, <2>2
  <2>3. ASSUME NEW s \in Sockets, sock[s].stage = "wait", Write(s, "answered")
        PROVE  ShutdownInv'
    BY <2>1, <2>3 DEF Write, established
  <2> QED
    BY <1>7, <2>2, <2>3, WorkOnSockets DEF SpawnWorker, Starting
<1>8. CASE Bind \/ StartFails \/ SendReady \/ SpawnPruner \/ prune_worker
  BY <1>8 DEF Bind, StartFails, SendReady, SpawnPruner, prune_worker, Starting
<1>9. CASE shutdown \/ DropServer \/ Joined
  BY <1>9 DEF shutdown, DropServer, Close, Joined
<1>10. CASE EndConnections
  BY <1>10 DEF EndConnections
<1>11. CASE UNCHANGED httpVars
  BY <1>11 DEF httpVars
<1> QED
  BY <1>1, <1>2, <1>3, <1>4, <1>5, <1>6, <1>7, <1>8, <1>9, <1>10, <1>11 DEF HttpNext

(* BootstrapSrv::shutdown never waits for a thread that waits for ever,    *)
(* and leaves no connection open.                                          *)
THEOREM ShutdownIsSafe == HttpSpec => []ShutdownEnds
<1>1. ShutdownInv => ShutdownEnds
  BY DEF ShutdownInv, ShutdownEnds
<1> QED
  BY <1>1, ShutdownStart, ShutdownStep, PTL DEF HttpSpec

----------------------------------------------------------------------------
(* The byte rate limit.                                                    *)

(* What was read and what is left in the bucket is no more than what was   *)
(* ever put into it, and a debt is less than one frame.                    *)
Paced(b) ==
    /\ b.fill <= Burst
    /\ b.fill > -MaxFrame
    /\ b.got + b.fill <= Burst + Rate * b.age

PaceInv ==
    /\ bucket \in [Sockets -> [fill : Int, got : Nat, age : Nat]]
    /\ \A s \in Sockets : Paced(bucket[s])

(* A bucket that starts full is paced. *)
LEMMA FullIsPaced == Full \in [fill : Int, got : Nat, age : Nat] /\ Paced(Full)
<1>1. Rate * 0 = 0
  BY HttpAssumption
<1> QED
  BY <1>1, HttpAssumption DEF Full, Paced

(* A frame that is read while there is something in the bucket. *)
LEMMA ChargeIsPaced ==
    ASSUME NEW b \in [fill : Int, got : Nat, age : Nat], Paced(b),
           NEW bytes \in 1 .. MaxFrame, ~poll_throttle(b)
    PROVE  charge(b, bytes) \in [fill : Int, got : Nat, age : Nat] /\ Paced(charge(b, bytes))
<1>1. Rate \in Nat /\ Burst \in Nat /\ MaxFrame \in Nat
  BY HttpAssumption
<1>2. Rate * b.age \in Nat
  BY <1>1
<1>3. PICK f, g, a : f = b.fill - bytes /\ g = b.got + bytes /\ a = b.age
  OBVIOUS
<1>4. f \in Int /\ g \in Nat /\ a \in Nat
  BY <1>1, <1>3
<1>5. charge(b, bytes) = [fill |-> f, got |-> g, age |-> a]
  BY <1>3 DEF charge
<1>6. f <= Burst /\ f > -MaxFrame /\ g + f <= Burst + Rate * a
  <2>1. PICK r \in Nat : r = Rate * b.age
    BY <1>2
  <2>2. Rate * a = r
    BY <1>3, <2>1
  <2>3. b.fill \in Int /\ b.got \in Nat /\ b.fill <= Burst /\ b.fill > 0
        /\ b.got + b.fill <= Burst + r
    BY <2>1 DEF Paced, poll_throttle
  <2> QED
    BY <1>1, <1>3, <2>2, <2>3
<1> QED
  BY <1>4, <1>5, <1>6 DEF Paced

(* A refill, capped at the burst. *)
LEMMA RefillIsPaced ==
    ASSUME NEW b \in [fill : Int, got : Nat, age : Nat], Paced(b)
    PROVE  refilled(b) \in [fill : Int, got : Nat, age : Nat] /\ Paced(refilled(b))
<1>1. Rate \in Nat /\ Burst \in Nat /\ MaxFrame \in Nat
  BY HttpAssumption
<1>2. Rate * (b.age + 1) = Rate * b.age + Rate /\ Rate * b.age \in Nat
  BY <1>1
<1>3. PICK f, g, a : /\ f = (IF b.fill + Rate > Burst THEN Burst ELSE b.fill + Rate)
                     /\ g = b.got /\ a = b.age + 1
  OBVIOUS
<1>4. f \in Int /\ g \in Nat /\ a \in Nat
  BY <1>1, <1>3
<1>5. refilled(b) = [fill |-> f, got |-> g, age |-> a]
  BY <1>3 DEF refilled
<1>6. f <= Burst /\ f > -MaxFrame /\ g + f <= Burst + Rate * a
  <2>1. PICK r \in Nat : r = Rate * b.age
    BY <1>2
  <2>2. Rate * a = r + Rate
    BY <1>2, <1>3, <2>1
  <2>3. b.fill \in Int /\ b.got \in Nat /\ b.fill <= Burst /\ b.fill > -MaxFrame
        /\ b.got + b.fill <= Burst + r
    BY <2>1 DEF Paced
  <2> QED
    BY <1>1, <1>3, <2>2, <2>3
<1> QED
  BY <1>4, <1>5, <1>6 DEF Paced

(* Every bucket starts full. *)
LEMMA PaceStart == HttpInit => PaceInv
  BY FullIsPaced DEF HttpInit, PaceInv

(* Only a read, a refill and a new connection touch a bucket. *)
LEMMA PaceStep == PaceInv /\ [HttpNext]_httpVars => PaceInv'
<1> SUFFICES ASSUME PaceInv, [HttpNext]_httpVars
             PROVE  PaceInv'
  OBVIOUS
<1>1. ASSUME NEW s \in Sockets, NEW b \in [fill : Int, got : Nat, age : Nat], Paced(b),
             bucket' = [bucket EXCEPT ![s] = b]
      PROVE  PaceInv'
  BY <1>1 DEF PaceInv
<1>2. ASSUME NEW s \in Sockets, NEW bytes \in 1 .. MaxFrame, poll_next(s, bytes)
      PROVE  PaceInv'
  BY <1>1, <1>2, ChargeIsPaced DEF poll_next, PaceInv
<1>3. ASSUME NEW s \in Sockets, Refill(s)
      PROVE  PaceInv'
  BY <1>1, <1>3, RefillIsPaced DEF Refill, PaceInv
<1>4. ASSUME NEW s \in Sockets, handle_relay_websocket(s)
      PROVE  PaceInv'
  BY <1>1, <1>4, FullIsPaced DEF handle_relay_websocket
<1>5. CASE UNCHANGED bucket
  BY <1>5 DEF PaceInv
<1>6. UNCHANGED bucket \/ \E s \in Sockets : \/ handle_relay_websocket(s) \/ Refill(s)
                                           \/ \E bytes \in 1 .. MaxFrame : poll_next(s, bytes)
  <2>1. ASSUME NEW s \in Sockets, Routes(s)
        PROVE  UNCHANGED bucket
    BY <2>1 DEF Routes, handle_auth, handle_dispatch, Refuse, handle_relay_keepalive,
                relay_handler, relay_probe_handler
  <2>2. ASSUME NEW s \in Sockets,
               \/ accept(s) \/ Handshake(s) \/ Elapse(s) \/ poll_read(s) \/ TimedOut(s)
               \/ Enqueue(s) \/ DispatchTimeout(s) \/ KeepAlive(s) \/ Hangup(s)
        PROVE  UNCHANGED bucket
    BY <2>2 DEF accept, Handshake, Elapse, poll_read, TimedOut, Enqueue, DispatchTimeout,
                KeepAlive, Hangup
  <2>3. ASSUME NEW t \in Threads, SpawnWorker(t) \/ Work(t)
        PROVE  UNCHANGED bucket
    BY <2>3 DEF SpawnWorker, Work, Starting
  <2>4. CASE \/ Bind \/ StartFails \/ SendReady \/ SpawnPruner \/ prune_worker
             \/ shutdown \/ DropServer \/ EndConnections \/ Joined
    BY <2>4 DEF Bind, StartFails, SendReady, SpawnPruner, prune_worker, Starting, shutdown,
                DropServer, EndConnections, Joined
  <2>5. CASE UNCHANGED httpVars
    BY <2>5 DEF httpVars
  <2> QED
    BY <2>1, <2>2, <2>3, <2>4, <2>5 DEF HttpNext
<1> QED
  BY <1>2, <1>3, <1>4, <1>5, <1>6

(* A relay connection is read no faster than its rate limit, but for one   *)
(* frame, whatever the sizes of the frames and the times of the refills.   *)
THEOREM ReadsAreLimited == HttpSpec => []ReadsArePaced
<1>1. PaceInv => ReadsArePaced
  <2> SUFFICES ASSUME PaceInv, NEW s \in Sockets
               PROVE  bucket[s].got < Burst + Rate * bucket[s].age + MaxFrame
    BY DEF ReadsArePaced
  <2>1. bucket[s] \in [fill : Int, got : Nat, age : Nat] /\ Paced(bucket[s])
    BY DEF PaceInv
  <2>2. Rate * bucket[s].age \in Nat
    BY <2>1, HttpAssumption
  <2> QED
    BY <2>1, <2>2, HttpAssumption DEF Paced
<1> QED
  BY <1>1, PaceStart, PaceStep, PTL DEF HttpSpec

----------------------------------------------------------------------------
(* Tokens of open relay connections.                                       *)

(* A client without a transport has no token, a transport that was created *)
(* has handed one to iroh, and a request of one being created has too.     *)
RelayShape ==
    /\ RelayTypeOK
    /\ \A c \in Clients :
         /\ call[c] = "down" => cached[c] = NoToken
         /\ call[c] = "idle" => conn[c] # "none"
         /\ call[c] \in {"send", "resend", "force"} => actor[c] \in Tokens

(* How long the token of an open connection can have been idle: there is   *)
(* one tick between two prunes, and a token that the running prune has not *)
(* listed belongs to a connection opened since.                            *)
IdleAtMost(t) ==
    LET ticked == IF overdue THEN 1 ELSE 0 IN
    IF pruner.pc = "idle" \/ (pruner.pc = "refresh" /\ t \in pruner.tokens)
    THEN 1 + ticked ELSE ticked

TokensFresh ==
    \A c \in Clients :
        conn[c] = "token" => tokens[actor[c]] \in 0 .. IdleAtMost(actor[c])

(* Nobody holds a token. *)
LEMMA NoneType == None \in [Clients -> Tokens \union {NoToken}]
  BY DEF None

(* In the beginning no relay connection is open. *)
LEMMA RelayStart == RelayInit => RelayShape /\ TokensFresh
<1> SUFFICES ASSUME RelayInit
             PROVE  RelayShape /\ TokensFresh
  OBVIOUS
<1>1. tokens \in [Tokens -> Forgotten .. IdleLimit] /\ quiet \in [Clients -> 0 .. KeepEvery]
  BY AuthAssumption DEF RelayInit, Forgotten
<1>2. \A c \in Clients : conn[c] = "none" /\ call[c] = "down" /\ cached[c] = NoToken
  BY DEF RelayInit, None
<1> QED
  BY <1>1, <1>2, NoneType DEF RelayInit, RelayShape, RelayTypeOK, TokensFresh

(* The token that a client is given is a token. *)
LEMMA NewTokenType ==
    ASSUME NEW c \in Clients, Authenticate(c)
    PROVE  NewToken \in Tokens
  BY DEF Authenticate, NewToken

(* The end of a call keeps the shape. *)
LEMMA DoneShape ==
    ASSUME RelayShape, NEW c \in Clients, NEW ok \in BOOLEAN, Done(c, ok),
           call[c] \in {"auth", "force", "send", "resend"},
           ok => call[c] \in {"send", "resend"},
           tokens' \in [Tokens -> Forgotten .. IdleLimit],
           allowlist' \in [Clients -> Tokens \union {NoToken}],
           UNCHANGED <<pruner, overdue, calm, quiet>>
    PROVE  RelayShape'
<1> USE DEF RelayShape, RelayTypeOK, Done, Creating
<1>1. cached' \in [Clients -> Tokens \union {NoToken}]
      /\ actor' \in [Clients -> Tokens \union {NoToken}]
  OBVIOUS
<1>2. conn' \in [Clients -> {"none", "closed", "token", "key"}]
      /\ call' \in [Clients -> {"down", "idle", "auth", "force", "send", "resend"}]
  OBVIOUS
<1>3. ASSUME NEW d \in Clients
      PROVE  /\ call'[d] \in {"send", "resend", "force"} => cached'[d] \in Tokens
             /\ conn'[d] # "none" => actor'[d] \in Tokens
             /\ call'[d] = "down" => cached'[d] = NoToken
             /\ call'[d] = "idle" => conn'[d] # "none"
             /\ call'[d] \in {"send", "resend", "force"} => actor'[d] \in Tokens
  BY <1>1, <1>2
<1> QED
  BY <1>1, <1>2, <1>3

(* Clients and calls keep their shape. *)
LEMMA ShapeStep == RelayShape /\ [RelayNext]_relayVars => RelayShape'
<1> SUFFICES ASSUME RelayShape, [RelayNext]_relayVars
             PROVE  RelayShape'
  OBVIOUS
<1> USE AuthAssumption DEF authState, clientState
<1>1. ASSUME NEW c \in Clients, Create(c) \/ Start(c)
      PROVE  RelayShape'
  BY <1>1 DEF RelayShape, RelayTypeOK, Create, Start, Request
<1>2. ASSUME NEW c \in Clients, Authenticate(c)
      PROVE  RelayShape'
  <2>1. NewToken \in Tokens
    BY <1>2, NewTokenType
  <2> QED
    BY <1>2, <2>1 DEF RelayShape, RelayTypeOK, Authenticate, Creating, Forgotten
<1>3. ASSUME NEW c \in Clients, Fail(c)
      PROVE  RelayShape'
  <2>1. /\ tokens' \in [Tokens -> Forgotten .. IdleLimit]
        /\ allowlist' \in [Clients -> Tokens \union {NoToken}]
    BY <1>3 DEF RelayShape, RelayTypeOK, Fail
  <2> QED
    BY <1>3, <2>1, DoneShape DEF Fail
<1>4. ASSUME NEW c \in Clients, Send(c)
      PROVE  RelayShape'
  <2>1. /\ tokens' \in [Tokens -> Forgotten .. IdleLimit]
        /\ allowlist' \in [Clients -> Tokens \union {NoToken}]
        /\ UNCHANGED <<pruner, overdue, calm, quiet>>
    BY <1>4 DEF RelayShape, RelayTypeOK, Send, Checked, Registered, Forgotten
  <2>2. ASSUME NEW heard \in BOOLEAN, Done(c, IsValid(cached[c]) /\ heard)
        PROVE  RelayShape'
    <3>1. PICK ok \in BOOLEAN : ok = (IsValid(cached[c]) /\ heard)
      BY DEF IsValid
    <3> QED
      BY <1>4, <2>1, <2>2, <3>1, DoneShape DEF Send
  <2>3. CASE call' = [call EXCEPT ![c] = "force"] /\ UNCHANGED <<conn, cached, actor>>
    BY <1>4, <2>1, <2>3 DEF RelayShape, RelayTypeOK, Send
  <2> QED
    BY <1>4, <2>2, <2>3 DEF Send, Heard
<1>5. ASSUME NEW c \in Clients, Connect(c) \/ Disconnect(c) \/ Stop(c)
      PROVE  RelayShape'
  BY <1>5 DEF RelayShape, RelayTypeOK, Connect, Disconnect, Stop, Checked, Forgotten
<1>6. CASE PruneLive
  BY <1>6 DEF RelayShape, RelayTypeOK, PruneLive, LiveTokens
<1>7. CASE PruneRefresh
  BY <1>7 DEF RelayShape, RelayTypeOK, PruneRefresh, Forgotten
<1>8. CASE PruneExpired
  BY <1>8 DEF RelayShape, RelayTypeOK, PruneExpired, Forgotten
<1>9. CASE PruneAllowlist
  BY <1>9 DEF RelayShape, RelayTypeOK, PruneAllowlist
<1>10. CASE Tick
  <2>1. tokens' \in [Tokens -> Forgotten .. IdleLimit]
    BY <1>10 DEF RelayShape, RelayTypeOK, Tick, Forgotten
  <2>2. quiet' \in [Clients -> 0 .. KeepEvery]
    BY <1>10 DEF RelayShape, RelayTypeOK, Tick
  <2> QED
    BY <1>10, <2>1, <2>2 DEF RelayShape, RelayTypeOK, Tick
<1>11. CASE Restart
  <2>1. tokens' \in [Tokens -> Forgotten .. IdleLimit]
        /\ allowlist' \in [Clients -> Tokens \union {NoToken}]
    BY <1>11, NoneType DEF Restart, Forgotten
  <2> QED
    BY <1>11, <2>1 DEF RelayShape, RelayTypeOK, Restart
<1>12. CASE Calm \/ UNCHANGED relayVars
  BY <1>12 DEF RelayShape, RelayTypeOK, Calm, relayVars
<1> QED
  BY <1>1, <1>2, <1>3, <1>4, <1>5, <1>6, <1>7, <1>8, <1>9, <1>10, <1>11, <1>12
     DEF RelayNext, Step, Prune

(* The token of an open connection is refreshed before it is too old: a    *)
(* prune refreshes the open ones before it drops what is idle.             *)
LEMMA FreshStep ==
    RelayShape /\ TokensFresh /\ [RelayNext]_relayVars => TokensFresh'
<1> SUFFICES ASSUME RelayShape, TokensFresh, [RelayNext]_relayVars
             PROVE  TokensFresh'
  OBVIOUS
<1> USE AuthAssumption DEF authState, clientState
<1> USE DEF RelayShape, RelayTypeOK, TokensFresh, IdleAtMost
<1>1. ASSUME NEW c \in Clients, Create(c) \/ Start(c) \/ Disconnect(c) \/ Stop(c)
      PROVE  TokensFresh'
  BY <1>1 DEF Create, Start, Request, Disconnect, Stop
<1>2. ASSUME NEW c \in Clients, Authenticate(c)
      PROVE  TokensFresh'
  <2>1. NewToken \in Tokens
    BY <1>2, NewTokenType
  <2> QED
    BY <1>2, <2>1 DEF Authenticate, Creating
<1>3. ASSUME NEW c \in Clients, Fail(c)
      PROVE  TokensFresh'
  BY <1>3 DEF Fail, Done, Creating
<1>4. ASSUME NEW c \in Clients, Send(c)
      PROVE  TokensFresh'
  BY <1>4 DEF Send, Done, Creating, Checked, IsValid
<1>5. ASSUME NEW c \in Clients, Connect(c)
      PROVE  TokensFresh'
  BY <1>5 DEF Connect, Checked, IsValid
<1>6. CASE PruneLive
  BY <1>6 DEF PruneLive, LiveTokens
<1>7. CASE PruneRefresh
  BY <1>7 DEF PruneRefresh
<1>8. CASE PruneExpired
  BY <1>8 DEF PruneExpired
<1>9. CASE PruneAllowlist
  BY <1>9 DEF PruneAllowlist
<1>10. CASE Tick
  BY <1>10 DEF Tick, InUse
<1>11. CASE Restart
  BY <1>11 DEF Restart
<1>12. CASE Calm \/ UNCHANGED relayVars
  BY <1>12 DEF Calm, relayVars
<1> QED
  BY <1>1, <1>2, <1>3, <1>4, <1>5, <1>6, <1>7, <1>8, <1>9, <1>10, <1>11, <1>12
     DEF RelayNext, Step, Prune

(* The token of an open relay connection stays valid, for any number of    *)
(* clients, although the prune thread refreshes tokens from a list it read *)
(* a step earlier; one tick between two prunes is what this rests on.      *)
THEOREM OpenTokensStayValid == RelaySpec => []OpenConnectionKeepsToken
<1>1. RelayShape /\ TokensFresh => OpenConnectionKeepsToken
  <2> SUFFICES ASSUME RelayShape, TokensFresh, NEW c \in Clients, conn[c] = "token"
               PROVE  IsValid(actor[c])
    BY DEF OpenConnectionKeepsToken
  <2>1. IdleAtMost(actor[c]) \in 0 .. 2
    BY DEF IdleAtMost
  <2>2. tokens[actor[c]] \in 0 .. IdleAtMost(actor[c])
    BY DEF TokensFresh
  <2> QED
    BY <2>1, <2>2, AuthAssumption DEF IsValid
<1> QED
  BY <1>1, RelayStart, ShapeStep, FreshStep, PTL DEF RelaySpec

----------------------------------------------------------------------------
(* The memory transport: shapes.                                           *)

Item    == [k : {"preflight", "bye"}] \cup [k : {"data"}, of : MemSends]
Command == [k : {"send"}, of : MemSends] \cup [k : {"disconnect"}, bye : BOOLEAN]
             \cup [k : {"register"}, on : Nat] \cup [k : {"recv"}, item : Item]
End     == [task : {"none", "first", "open", "ended", "dropped"}, ready : BOOLEAN,
            chan : Seq(Item)]
Call    == [at : {"new", "queued", "wait", "sent", "ok", "err"}, from : MemNodes, on : Nat]

MemTypes ==
    /\ alive \subseteq MemNodes
    /\ cmds \in [MemNodes -> Seq(Command)]
    /\ calls \in [MemNodes -> Seq(Nat)]
    /\ link \in Seq([MemNodes -> End])
    /\ con_pool \in [MemNodes -> Nat] /\ \A n \in MemNodes : con_pool[n] <= Len(link)
    /\ send \in [MemSends -> Call]
    /\ faults \in Nat
    /\ unmet \in BOOLEAN

Links == 1 .. Len(link)

(* There are two nodes. *)
LEMMA OtherIs ==
    ASSUME NEW n \in MemNodes
    PROVE  /\ Other(n) \in MemNodes /\ Other(n) # n /\ Other(Other(n)) = n
           /\ \A m \in MemNodes : m = n \/ m = Other(n)
<1>1. PICK a \in MemNodes, b \in MemNodes : a # b /\ MemNodes = {a, b}
  BY MemAssumption
<1>2. \E m \in MemNodes : m # n
  BY <1>1
<1>3. Other(n) \in MemNodes /\ Other(n) # n
  BY <1>2 DEF Other
<1>4. \E m \in MemNodes : m # Other(n)
  BY <1>1
<1>5. Other(Other(n)) \in MemNodes /\ Other(Other(n)) # Other(n)
  BY <1>4 DEF Other
<1> QED
  BY <1>1, <1>3, <1>5

(* What is in a queue, and what happens to it. *)
In(x, q) == \E i \in 1 .. Len(q) : q[i] = x

LEMMA InAppend ==
    ASSUME NEW S, NEW q \in Seq(S), NEW x \in S
    PROVE  /\ Append(q, x) \in Seq(S)
           /\ \A y : In(y, Append(q, x)) <=> In(y, q) \/ y = x
<1>1. /\ Append(q, x) \in Seq(S) /\ Len(Append(q, x)) = Len(q) + 1 /\ Len(q) \in Nat
      /\ \A i \in 1 .. Len(q) : Append(q, x)[i] = q[i]
      /\ Append(q, x)[Len(q) + 1] = x
  BY AppendProperties
<1>2. ASSUME NEW y, In(y, Append(q, x)) PROVE In(y, q) \/ y = x
  BY <1>1, <1>2 DEF In
<1>3. ASSUME NEW y, In(y, q) PROVE In(y, Append(q, x))
  BY <1>1, <1>3 DEF In
<1>4. In(x, Append(q, x))
  BY <1>1 DEF In
<1> QED
  BY <1>1, <1>2, <1>3, <1>4

LEMMA InTail ==
    ASSUME NEW S, NEW q \in Seq(S), q # <<>>
    PROVE  /\ Tail(q) \in Seq(S) /\ Head(q) \in S /\ In(Head(q), q)
           /\ \A y : In(y, q) => y = Head(q) \/ In(y, Tail(q))
           /\ \A y : In(y, Tail(q)) => In(y, q)
<1>1. /\ Tail(q) \in Seq(S) /\ Head(q) \in S /\ Len(Tail(q)) = Len(q) - 1
      /\ Len(q) \in Nat \ {0} /\ \A i \in 1 .. Len(Tail(q)) : Tail(q)[i] = q[i + 1]
      /\ Head(q) = q[1]
  BY HeadTailProperties, EmptySeq
<1>2. In(Head(q), q)
  BY <1>1 DEF In
<1>3. ASSUME NEW y, In(y, q) PROVE y = Head(q) \/ In(y, Tail(q))
  <2>1. PICK i \in 1 .. Len(q) : q[i] = y
    BY <1>3 DEF In
  <2>2. CASE i = 1
    BY <1>1, <2>1, <2>2
  <2>3. CASE i # 1
    <3>1. i - 1 \in 1 .. Len(Tail(q))
      BY <1>1, <2>3
    <3>2. Tail(q)[i - 1] = y
      BY <1>1, <2>1, <3>1
    <3> QED
      BY <3>1, <3>2 DEF In
  <2> QED
    BY <2>2, <2>3
<1>4. ASSUME NEW y, In(y, Tail(q)) PROVE In(y, q)
  <2>1. PICK i \in 1 .. Len(Tail(q)) : Tail(q)[i] = y
    BY <1>4 DEF In
  <2>2. i + 1 \in 1 .. Len(q) /\ q[i + 1] = y
    BY <1>1, <2>1
  <2> QED
    BY <2>2 DEF In
<1> QED
  BY <1>1, <1>2, <1>3, <1>4

LEMMA NothingIn == \A x : ~In(x, <<>>)
  BY DEF In

(* No entry of a kind is in a queue twice. *)
Once(kind, q) ==
    \A i, j \in 1 .. Len(q) : q[i] = q[j] /\ q[i] \in kind => i = j

LEMMA OnceAppend ==
    ASSUME NEW S, NEW q \in Seq(S), NEW x \in S, NEW kind, Once(kind, q),
           x \in kind => ~In(x, q)
    PROVE  Once(kind, Append(q, x))
<1>1. /\ Len(Append(q, x)) = Len(q) + 1 /\ Len(q) \in Nat
      /\ \A i \in 1 .. Len(q) : Append(q, x)[i] = q[i]
      /\ Append(q, x)[Len(q) + 1] = x
  BY AppendProperties
<1> SUFFICES ASSUME NEW i \in 1 .. Len(q) + 1, NEW j \in 1 .. Len(q) + 1,
                    Append(q, x)[i] = Append(q, x)[j], Append(q, x)[i] \in kind
             PROVE  i = j
  BY <1>1 DEF Once
<1>2. CASE i \in 1 .. Len(q) /\ j \in 1 .. Len(q)
  BY <1>1, <1>2 DEF Once
<1>3. CASE i = Len(q) + 1 /\ j \in 1 .. Len(q)
  BY <1>1, <1>3 DEF In
<1>4. CASE j = Len(q) + 1 /\ i \in 1 .. Len(q)
  BY <1>1, <1>4 DEF In
<1>5. CASE i = Len(q) + 1 /\ j = Len(q) + 1
  BY <1>5
<1> QED
  BY <1>1, <1>2, <1>3, <1>4, <1>5

LEMMA OnceTail ==
    ASSUME NEW S, NEW q \in Seq(S), q # <<>>, NEW kind, Once(kind, q)
    PROVE  /\ Once(kind, Tail(q))
           /\ Head(q) \in kind => ~In(Head(q), Tail(q))
<1>1. /\ Len(Tail(q)) = Len(q) - 1 /\ Len(q) \in Nat \ {0}
      /\ \A i \in 1 .. Len(Tail(q)) : Tail(q)[i] = q[i + 1]
      /\ Head(q) = q[1]
  BY HeadTailProperties, EmptySeq
<1>2. ASSUME NEW i \in 1 .. Len(Tail(q)), NEW j \in 1 .. Len(Tail(q)),
             Tail(q)[i] = Tail(q)[j], Tail(q)[i] \in kind
      PROVE  i = j
  <2>1. /\ i + 1 \in 1 .. Len(q) /\ j + 1 \in 1 .. Len(q)
        /\ q[i + 1] = q[j + 1] /\ q[i + 1] \in kind
    BY <1>1, <1>2
  <2> QED
    BY <2>1 DEF Once
<1>3. ASSUME Head(q) \in kind, NEW i \in 1 .. Len(Tail(q)), Tail(q)[i] = Head(q)
      PROVE  FALSE
  <2>1. i + 1 \in 1 .. Len(q) /\ 1 \in 1 .. Len(q) /\ i + 1 # 1 /\ q[i + 1] = q[1]
    BY <1>1, <1>3
  <2> QED
    BY <1>1, <1>3, <2>1 DEF Once
<1> QED
  BY <1>2, <1>3 DEF Once, In

(* One end of a connection is replaced. *)
LEMMA EndUpdate ==
    ASSUME MemTypes, NEW c \in Links, NEW n \in MemNodes, NEW e \in End
    PROVE  /\ [link EXCEPT ![c][n] = e] \in Seq([MemNodes -> End])
           /\ Len([link EXCEPT ![c][n] = e]) = Len(link)
           /\ \A d \in Links, m \in MemNodes :
                 [link EXCEPT ![c][n] = e][d][m] = IF d = c /\ m = n THEN e ELSE link[d][m]
<1> DEFINE row == [link[c] EXCEPT ![n] = e]
<1>1. link \in Seq([MemNodes -> End]) /\ link[c] \in [MemNodes -> End]
  BY ElementOfSeq DEF MemTypes, Links
<1>2. row \in [MemNodes -> End]
  BY <1>1
<1>3. [link EXCEPT ![c][n] = e] = [link EXCEPT ![c] = row]
  BY Zenon
<1>4. \A m \in MemNodes : row[m] = IF m = n THEN e ELSE link[c][m]
  BY <1>1
<1> HIDE DEF row
<1>5. /\ [link EXCEPT ![c] = row] \in Seq([MemNodes -> End])
      /\ Len([link EXCEPT ![c] = row]) = Len(link)
      /\ \A d \in Links : [link EXCEPT ![c] = row][d] = IF d = c THEN row ELSE link[d]
  BY <1>1, <1>2, ExceptSeq DEF Links
<1> QED
  BY <1>3, <1>4, <1>5

LEMMA ChanUpdate ==
    ASSUME MemTypes, NEW c \in Links, NEW n \in MemNodes, NEW q \in Seq(Item)
    PROVE  /\ [link EXCEPT ![c][n].chan = q] = [link EXCEPT ![c][n] = [link[c][n] EXCEPT !.chan = q]]
           /\ [link[c][n] EXCEPT !.chan = q] \in End
           /\ [link[c][n] EXCEPT !.chan = q].chan = q
           /\ [link[c][n] EXCEPT !.chan = q].task = link[c][n].task
           /\ [link[c][n] EXCEPT !.chan = q].ready = link[c][n].ready
<1>1. link[c][n] \in End
  BY ElementOfSeq DEF MemTypes, Links
<1>2. [link EXCEPT ![c][n].chan = q] = [link EXCEPT ![c][n] = [link[c][n] EXCEPT !.chan = q]]
  BY Zenon
<1> QED
  BY <1>1, <1>2 DEF End

(* A connection that was made. *)
LEMMA LinkIs ==
    ASSUME MemTypes, NEW c \in Links, NEW n \in MemNodes
    PROVE  link[c][n] \in End /\ link[c][n].chan \in Seq(Item)
<1>1. link[c] \in [MemNodes -> End]
  BY ElementOfSeq DEF MemTypes, Links
<1> QED
  BY <1>1 DEF End

(* Calls of send that fail together. *)
LEMMA FailingIs ==
    ASSUME MemTypes, NEW ss
    PROVE  /\ Failing(ss) \in [MemSends -> Call]
           /\ \A s \in MemSends :
                /\ s \in ss => Failing(ss)[s].at = "err"
                /\ s \notin ss => Failing(ss)[s] = send[s]
<1>1. send \in [MemSends -> Call]
  BY DEF MemTypes
<1>2. \A s \in MemSends : [send[s] EXCEPT !.at = "err"] \in Call
  BY <1>1 DEF Call
<1>3. \A s \in MemSends : [send[s] EXCEPT !.at = "err"].at = "err"
  BY <1>1 DEF Call
<1> QED
  BY <1>1, <1>2, <1>3 DEF Failing

LEMMA MovedIs ==
    ASSUME MemTypes, NEW s \in MemSends, NEW at \in {"new", "queued", "wait", "sent", "ok", "err"},
           Moved(s, at)
    PROVE  /\ send' \in [MemSends -> Call]
           /\ send'[s].at = at /\ send'[s].on = send[s].on
           /\ \A r \in MemSends : r # s => send'[r] = send[r]
<1>1. send \in [MemSends -> Call]
  BY DEF MemTypes
<1>2. [send[s] EXCEPT !.at = at] \in Call /\ [send[s] EXCEPT !.at = at].at = at
      /\ [send[s] EXCEPT !.at = at].on = send[s].on
  BY <1>1 DEF Call
<1>3. send' = [send EXCEPT ![s] = [send[s] EXCEPT !.at = at]]
  BY DEF Moved
<1> QED
  BY <1>1, <1>2, <1>3

(* Queues of commands. *)
LEMMA CommandIs ==
    /\ \A s \in MemSends : [k |-> "send", of |-> s] \in Command
    /\ \A b \in BOOLEAN : [k |-> "disconnect", bye |-> b] \in Command
    /\ \A c \in Nat : [k |-> "register", on |-> c] \in Command
    /\ \A i \in Item : [k |-> "recv", item |-> i] \in Command
    /\ \A s \in MemSends : [k |-> "data", of |-> s] \in Item
    /\ [k |-> "preflight"] \in Item /\ [k |-> "bye"] \in Item
  BY DEF Command, Item

LEMMA CommandFields ==
    ASSUME NEW x \in Command
    PROVE  /\ x.k = "send" => x.of \in MemSends /\ x = [k |-> "send", of |-> x.of]
           /\ x.k = "register" => x.on \in Nat /\ x = [k |-> "register", on |-> x.on]
           /\ x.k = "recv" => x.item \in Item /\ x = [k |-> "recv", item |-> x.item]
           /\ x.k \in {"send", "disconnect", "register", "recv"}
  BY DEF Command

LEMMA ItemFields ==
    ASSUME NEW x \in Item
    PROVE  /\ x.k = "data" => x.of \in MemSends /\ x = [k |-> "data", of |-> x.of]
           /\ x.k \in {"preflight", "bye", "data"}
  BY DEF Item

(* The data in a queue. *)
LEMMA CarriedIs ==
    ASSUME NEW q \in Seq(Item), NEW s, In([k |-> "data", of |-> s], q)
    PROVE  s \in Carried(q)
  BY DEF Carried, In

----------------------------------------------------------------------------
(* The memory transport: the invariant.                                    *)

Registers  == [k : {"register"}, on : Nat]
Reg(n, c)    == In([k |-> "register", on |-> c], cmds[n])
Called(n, c) == In(c, calls[n])

(* A channel that is not read any more is empty; an open end is ready; an  *)
(* end whose peer was introduced has something to read until it is ready.  *)
EndInv ==
    \A c \in Links, n \in MemNodes :
        /\ link[c][n].task \in {"ended", "dropped"} => link[c][n].chan = <<>>
        /\ link[c][n].task = "open" => link[c][n].ready
        /\ /\ link[c][n].task \in {"none", "first"} /\ ~link[c][n].ready
           /\ link[c][Other(n)].task \in {"first", "open"}
           => link[c][n].chan # <<>>

(* An end without a task is on its way to be registered, *)
PendInv ==
    \A c \in Links, n \in MemNodes :
        link[c][n].task = "none" => Reg(n, c) \/ Called(n, c)

(* once.                                                                   *)
RegInv ==
    \A n \in MemNodes :
        /\ Once(Registers, cmds[n]) /\ Once(Nat, calls[n])
        /\ \A c \in Nat : Reg(n, c) \/ Called(n, c) => c \in Links /\ link[c][n].task = "none"
        /\ \A c \in Nat : ~(Reg(n, c) /\ Called(n, c))

(* A call that was made is a command, waits, or is data somewhere.         *)
Data(s)   == [k |-> "data", of |-> s]
InChan(s) == \E c \in Links, n \in MemNodes : In(Data(s), link[c][n].chan)
InRecv(s) == \E n \in MemNodes : In([k |-> "recv", item |-> Data(s)], cmds[n])

SendInv ==
    \A s \in MemSends :
        /\ send[s].at = "queued" => \E n \in MemNodes : In([k |-> "send", of |-> s], cmds[n])
        /\ send[s].at = "sent" => InChan(s) \/ InRecv(s)
        /\ send[s].at = "wait" => send[s].on \in Links

(* While nothing goes wrong, nothing ends and nothing fails.               *)
Fine == faults = 0 /\ ~unmet

CalmEnd(c, n) ==
    /\ link[c][n].task \in {"none", "first", "open"}
    /\ link[c][n].task # "open" => ~link[c][n].ready
    /\ link[c][n].task # "open" /\ link[c][n].chan # <<>>
       => Head(link[c][n].chan).k = "preflight"

CalmInv ==
    Fine => /\ alive = MemNodes
            /\ \A c \in Links, n \in MemNodes : CalmEnd(c, n)
            /\ \A n \in MemNodes : \A x : In(x, cmds[n]) => x.k # "disconnect"
            /\ \A s \in MemSends : send[s].at # "err"

MemInv == MemTypes /\ EndInv /\ PendInv /\ RegInv /\ SendInv /\ CalmInv

(* A command is added. *)
LEMMA CmdAdded ==
    ASSUME MemTypes, RegInv, NEW n \in MemNodes, NEW x \in Command,
           cmds' = [cmds EXCEPT ![n] = Append(@, x)],
           x \in Registers => ~In(x, cmds[n])
    PROVE  /\ cmds' \in [MemNodes -> Seq(Command)]
           /\ \A m \in MemNodes : \A y : In(y, cmds'[m]) <=> In(y, cmds[m]) \/ (m = n /\ y = x)
           /\ \A m \in MemNodes : Once(Registers, cmds'[m])
<1>1. cmds \in [MemNodes -> Seq(Command)]
  BY DEF MemTypes
<1>2. /\ Append(cmds[n], x) \in Seq(Command)
      /\ \A y : In(y, Append(cmds[n], x)) <=> In(y, cmds[n]) \/ y = x
  BY <1>1, InAppend
<1>3. Once(Registers, cmds[n])
  BY DEF RegInv
<1>4. Once(Registers, Append(cmds[n], x))
  <2>1. cmds[n] \in Seq(Command)
    BY <1>1
  <2> QED
    BY <1>3, <2>1, OnceAppend
<1>5. \A m \in MemNodes : cmds'[m] = IF m = n THEN Append(cmds[n], x) ELSE cmds[m]
  BY <1>1
<1>6. cmds' \in [MemNodes -> Seq(Command)]
  BY <1>1, <1>2
<1>7. \A m \in MemNodes : Once(Registers, cmds'[m])
  BY <1>4, <1>5 DEF RegInv
<1>8. \A m \in MemNodes : \A y : In(y, cmds'[m]) <=> In(y, cmds[m]) \/ (m = n /\ y = x)
  BY <1>2, <1>5
<1> QED
  BY <1>6, <1>7, <1>8

(* The first command is taken. *)
LEMMA CmdTaken ==
    ASSUME MemTypes, RegInv, NEW n \in MemNodes, cmds[n] # <<>>,
           cmds' = [cmds EXCEPT ![n] = Tail(cmds[n])]
    PROVE  /\ cmds' \in [MemNodes -> Seq(Command)]
           /\ Head(cmds[n]) \in Command /\ In(Head(cmds[n]), cmds[n])
           /\ \A m \in MemNodes : \A y : In(y, cmds'[m]) => In(y, cmds[m])
           /\ \A m \in MemNodes : \A y : In(y, cmds[m]) => In(y, cmds'[m]) \/ (m = n /\ y = Head(cmds[n]))
           /\ \A m \in MemNodes : Once(Registers, cmds'[m])
           /\ Head(cmds[n]) \in Registers => ~In(Head(cmds[n]), cmds'[n])
<1>1. cmds \in [MemNodes -> Seq(Command)] /\ cmds[n] \in Seq(Command)
  BY DEF MemTypes
<1>2. /\ Tail(cmds[n]) \in Seq(Command) /\ Head(cmds[n]) \in Command
      /\ In(Head(cmds[n]), cmds[n])
      /\ \A y : In(y, cmds[n]) => y = Head(cmds[n]) \/ In(y, Tail(cmds[n]))
      /\ \A y : In(y, Tail(cmds[n])) => In(y, cmds[n])
  BY <1>1, InTail
<1>3. Once(Registers, cmds[n])
  BY DEF RegInv
<1>4. /\ Once(Registers, Tail(cmds[n]))
      /\ Head(cmds[n]) \in Registers => ~In(Head(cmds[n]), Tail(cmds[n]))
  BY <1>1, <1>3, OnceTail
<1>5. \A m \in MemNodes : cmds'[m] = IF m = n THEN Tail(cmds[n]) ELSE cmds[m]
  BY <1>1
<1>6. cmds' \in [MemNodes -> Seq(Command)]
  BY <1>1, <1>2
<1>7. \A m \in MemNodes : Once(Registers, cmds'[m])
  BY <1>4, <1>5 DEF RegInv
<1>8. /\ \A m \in MemNodes : \A y : In(y, cmds'[m]) => In(y, cmds[m])
      /\ \A m \in MemNodes : \A y : In(y, cmds[m]) => In(y, cmds'[m]) \/ (m = n /\ y = Head(cmds[n]))
  BY <1>2, <1>5
<1> QED
  BY <1>2, <1>4, <1>5, <1>6, <1>7, <1>8

(* Registrations that are not added to and keep their ends. *)
LEMMA RegKept ==
    ASSUME MemTypes, RegInv, Len(link) <= Len(link'), Len(link') \in Nat,
           \A n \in MemNodes : Once(Registers, cmds'[n]) /\ Once(Nat, calls'[n]),
           \A n \in MemNodes, c \in Nat :
               /\ Reg(n, c)' => Reg(n, c)
               /\ Called(n, c)' => Called(n, c)
               /\ (Reg(n, c)' \/ Called(n, c)') /\ c \in Links /\ link[c][n].task = "none"
                  => link'[c][n].task = "none"
    PROVE  RegInv'
<1>1. \A c \in Links : c \in Links'
  <2>1. Len(link) \in Nat
    BY LenProperties DEF MemTypes
  <2> QED
    BY <2>1 DEF Links
<1>2. ASSUME NEW n \in MemNodes, NEW c \in Nat, Reg(n, c)' \/ Called(n, c)'
      PROVE  c \in Links' /\ link'[c][n].task = "none"
  BY <1>1, <1>2 DEF RegInv
<1>3. ASSUME NEW n \in MemNodes, NEW c \in Nat, Reg(n, c)', Called(n, c)'
      PROVE  FALSE
  BY <1>3 DEF RegInv
<1> QED
  BY <1>2, <1>3 DEF RegInv

(* A step that leaves the connections alone. *)
LEMMA LinksStay ==
    ASSUME MemInv, UNCHANGED link
    PROVE  EndInv' /\ Links' = Links
  BY DEF MemInv, EndInv, Links

(* Data is where it was, or in a queue of commands. *)
LEMMA SentStays ==
    ASSUME MemInv, NEW s \in MemSends, send'[s] = send[s], Len(link) <= Len(link'),
           Len(link') \in Nat,
           \A m \in MemNodes :
               In([k |-> "send", of |-> s], cmds[m]) => In([k |-> "send", of |-> s], cmds'[m]),
           send[s].at = "sent" => (InChan(s) \/ InRecv(s))'
    PROVE  /\ send'[s].at = "queued" => \E n \in MemNodes : In([k |-> "send", of |-> s], cmds'[n])
           /\ send'[s].at = "sent" => (InChan(s) \/ InRecv(s))'
           /\ send'[s].at = "wait" => send'[s].on \in Links'
<1>1. Len(link) \in Nat
  BY LenProperties DEF MemInv, MemTypes
<1>2. send[s].at = "wait" => send[s].on \in 1 .. Len(link)
  BY DEF MemInv, SendInv, Links
<1>3. send[s].at = "queued" => \E n \in MemNodes : In([k |-> "send", of |-> s], cmds[n])
  BY DEF MemInv, SendInv
<1> QED
  BY <1>1, <1>2, <1>3 DEF Links

LEMMA SendCallKeeps ==
    ASSUME MemInv, NEW s \in MemSends, NEW n \in MemNodes, SendCall(s, n)
    PROVE  MemInv'
<1>1. /\ send[s].at = "new"
      /\ UNCHANGED <<alive, calls, link, con_pool, faults, unmet>>
  BY DEF SendCall
<1>2. EndInv' /\ Links' = Links
  BY <1>1, LinksStay
<1>3. send \in [MemSends -> Call]
  BY DEF MemInv, MemTypes
<1>4. CASE n \in alive
  <2> DEFINE x == [k |-> "send", of |-> s]
  <2>1. /\ cmds' = [cmds EXCEPT ![n] = Append(@, x)]
        /\ send' = [send EXCEPT ![s].at = "queued", ![s].from = n]
    BY <1>4 DEF SendCall
  <2>2. x \in Command /\ x \notin Registers /\ x.k = "send"
    BY CommandIs DEF Registers
  <2>x. x = [k |-> "send", of |-> s]
    OBVIOUS
  <2> HIDE DEF x
  <2>3. /\ cmds' \in [MemNodes -> Seq(Command)]
        /\ \A m \in MemNodes : \A y : In(y, cmds'[m]) <=> In(y, cmds[m]) \/ (m = n /\ y = x)
        /\ \A m \in MemNodes : Once(Registers, cmds'[m])
    BY <2>1, <2>2, CmdAdded DEF MemInv
  <2>4. /\ send' \in [MemSends -> Call] /\ send'[s].at = "queued"
        /\ \A r \in MemSends : r # s => send'[r] = send[r]
    BY <1>3, <2>1 DEF Call
  <2>5. MemTypes'
    BY <1>1, <2>3, <2>4 DEF MemInv, MemTypes
  <2>6. PendInv'
    BY <1>1, <1>2, <2>3 DEF MemInv, PendInv, Reg, Called
  <2>7. RegInv'
    <3>1. \A m \in MemNodes, c \in Nat : Reg(m, c)' => Reg(m, c)
      BY <2>2, <2>3 DEF Reg, Registers
    <3> QED
      BY <1>1, <1>2, <2>3, <3>1 DEF MemInv, RegInv, Called
  <2>8. SendInv'
    <3>1. In(x, cmds'[n])
      BY <2>3
    <3>2. \A r \in MemSends : InChan(r) \/ InRecv(r) => (InChan(r) \/ InRecv(r))'
      BY <1>1, <1>2, <2>3 DEF InChan, InRecv
    <3> QED
      BY <1>2, <2>x, <2>3, <2>4, <3>1, <3>2 DEF MemInv, SendInv
  <2>9. CalmInv'
    <3>1. Fine' => Fine
      BY <1>1 DEF Fine
    <3>2. \A c, m : CalmEnd(c, m)' <=> CalmEnd(c, m)
      BY <1>1 DEF CalmEnd
    <3>3. Fine => \A m \in MemNodes : \A y : In(y, cmds'[m]) => y.k # "disconnect"
      BY <2>2, <2>3 DEF MemInv, CalmInv
    <3>4. Fine => \A r \in MemSends : send'[r].at # "err"
      BY <2>4 DEF MemInv, CalmInv
    <3> QED
      BY <1>1, <1>2, <3>1, <3>2, <3>3, <3>4 DEF MemInv, CalmInv
  <2> QED
    BY <1>2, <2>5, <2>6, <2>7, <2>8, <2>9 DEF MemInv
<1>5. CASE n \notin alive
  <2>1. /\ UNCHANGED cmds
        /\ send' = [send EXCEPT ![s].at = "err", ![s].from = n]
    BY <1>5 DEF SendCall
  <2>2. /\ send' \in [MemSends -> Call] /\ send'[s].at = "err"
        /\ \A r \in MemSends : r # s => send'[r] = send[r]
    BY <1>3, <2>1 DEF Call
  <2>3. MemTypes' /\ PendInv' /\ RegInv'
    BY <1>1, <1>2, <2>1, <2>2 DEF MemInv, MemTypes, PendInv, RegInv, Reg, Called
  <2>4. SendInv'
    <3>1. \A r \in MemSends : InChan(r) \/ InRecv(r) => (InChan(r) \/ InRecv(r))'
      BY <1>1, <1>2, <2>1 DEF InChan, InRecv
    <3> QED
      BY <1>2, <2>1, <2>2, <3>1 DEF MemInv, SendInv
  <2>5. ~Fine'
    BY <1>1, <1>5 DEF Fine, MemInv, CalmInv
  <2> QED
    BY <1>2, <2>3, <2>4, <2>5 DEF MemInv, CalmInv
<1> QED
  BY <1>4, <1>5

LEMMA DisconnectCallKeeps ==
    ASSUME MemInv, NEW n \in MemNodes, NEW goodbye \in BOOLEAN, DisconnectCall(n, goodbye)
    PROVE  MemInv'
<1> DEFINE x == [k |-> "disconnect", bye |-> goodbye]
<1>1. /\ cmds' = [cmds EXCEPT ![n] = Append(@, x)] /\ faults' = faults + 1
      /\ UNCHANGED <<alive, calls, link, con_pool, send, unmet>>
  BY DEF DisconnectCall, Fault
<1>2. EndInv' /\ Links' = Links
  BY <1>1, LinksStay
<1>3. x \in Command /\ x.k = "disconnect"
  BY CommandIs
<1> HIDE DEF x
<1>4. /\ cmds' \in [MemNodes -> Seq(Command)]
      /\ \A m \in MemNodes : \A y : In(y, cmds'[m]) <=> In(y, cmds[m]) \/ (m = n /\ y = x)
      /\ \A m \in MemNodes : Once(Registers, cmds'[m])
  BY <1>1, <1>3, CmdAdded DEF MemInv, Registers
<1>5. faults \in Nat /\ faults' \in Nat /\ faults' # 0
  BY <1>1 DEF MemInv, MemTypes
<1>6. MemTypes'
  BY <1>1, <1>4, <1>5 DEF MemInv, MemTypes
<1>7. PendInv'
  BY <1>1, <1>2, <1>4 DEF MemInv, PendInv, Reg, Called
<1>8. RegInv'
  <2>1. \A m \in MemNodes, c \in Nat : Reg(m, c)' => Reg(m, c)
    BY <1>3, <1>4 DEF Reg
  <2> QED
    BY <1>1, <1>2, <1>4, <2>1 DEF MemInv, RegInv, Called
<1>9. SendInv'
  <2>1. \A r \in MemSends : InChan(r) \/ InRecv(r) => (InChan(r) \/ InRecv(r))'
    BY <1>1, <1>2, <1>4 DEF InChan, InRecv
  <2> QED
    BY <1>1, <1>2, <1>4, <2>1 DEF MemInv, SendInv
<1> QED
  BY <1>2, <1>5, <1>6, <1>7, <1>8, <1>9 DEF MemInv, CalmInv, Fine

(* The listener hands a call on as a registration. *)
LEMMA ListenKeeps ==
    ASSUME MemInv, NEW n \in MemNodes, Listen(n)
    PROVE  MemInv'
<1> DEFINE c == Head(calls[n])
           x == [k |-> "register", on |-> c]
<1>1. /\ calls[n] # <<>> /\ cmds' = [cmds EXCEPT ![n] = Append(@, x)]
      /\ calls' = [calls EXCEPT ![n] = Tail(@)]
      /\ UNCHANGED <<alive, link, con_pool, send, faults, unmet>>
  BY DEF Listen
<1>2. EndInv' /\ Links' = Links
  BY <1>1, LinksStay
<1>3. calls \in [MemNodes -> Seq(Nat)] /\ calls[n] \in Seq(Nat)
  BY DEF MemInv, MemTypes
<1>4. /\ Tail(calls[n]) \in Seq(Nat) /\ c \in Nat /\ In(c, calls[n])
      /\ \A y : In(y, calls[n]) => y = c \/ In(y, Tail(calls[n]))
      /\ \A y : In(y, Tail(calls[n])) => In(y, calls[n])
  BY <1>1, <1>3, InTail
<1>5. Once(Nat, Tail(calls[n])) /\ ~In(c, Tail(calls[n]))
  <2>1. Once(Nat, calls[n])
    BY DEF MemInv, RegInv
  <2> QED
    BY <1>1, <1>3, <1>4, <2>1, OnceTail
<1>6. x \in Command /\ x.k = "register" /\ x.on = c
  BY <1>4, CommandIs
<1>7. Called(n, c) /\ ~Reg(n, c) /\ c \in Links /\ link[c][n].task = "none"
  BY <1>4 DEF MemInv, RegInv, Called
<1>8. ~In(x, cmds[n])
  BY <1>7 DEF Reg
<1>a. \A d : [k |-> "register", on |-> d] = x <=> d = c
  OBVIOUS
<1> HIDE DEF x, c
<1>9. /\ cmds' \in [MemNodes -> Seq(Command)]
      /\ \A m \in MemNodes : \A y : In(y, cmds'[m]) <=> In(y, cmds[m]) \/ (m = n /\ y = x)
      /\ \A m \in MemNodes : Once(Registers, cmds'[m])
  BY <1>1, <1>6, <1>8, CmdAdded DEF MemInv
<1>10. \A m \in MemNodes : calls'[m] = IF m = n THEN Tail(calls[n]) ELSE calls[m]
  BY <1>1, <1>3
<1>11. MemTypes'
  <2>1. calls' \in [MemNodes -> Seq(Nat)]
    BY <1>1, <1>3, <1>4
  <2> QED
    BY <1>1, <1>9, <2>1 DEF MemInv, MemTypes
<1>12. \A m \in MemNodes : \A d : Reg(m, d)' <=> Reg(m, d) \/ (m = n /\ d = c)
  BY <1>9, <1>a DEF Reg
<1>13. \A m \in MemNodes : \A d : Called(m, d) => Called(m, d)' \/ (m = n /\ d = c)
  BY <1>4, <1>10 DEF Called
<1>14. \A m \in MemNodes : \A d : Called(m, d)' => Called(m, d) /\ ~(m = n /\ d = c)
  BY <1>4, <1>5, <1>10 DEF Called
<1>15. PendInv'
  BY <1>1, <1>2, <1>12, <1>13 DEF MemInv, PendInv
<1>16. RegInv'
  <2>1. \A m \in MemNodes : Once(Nat, calls'[m])
    BY <1>5, <1>10 DEF MemInv, RegInv
  <2>2. ASSUME NEW m \in MemNodes, NEW d \in Nat, Reg(m, d)' \/ Called(m, d)'
        PROVE  d \in Links' /\ link'[d][m].task = "none"
    BY <1>1, <1>2, <1>7, <1>12, <1>14, <2>2 DEF MemInv, RegInv
  <2>3. ASSUME NEW m \in MemNodes, NEW d \in Nat PROVE ~(Reg(m, d)' /\ Called(m, d)')
    BY <1>12, <1>14 DEF MemInv, RegInv
  <2> QED
    BY <1>9, <2>1, <2>2, <2>3 DEF RegInv
<1>17. SendInv'
  <2>1. \A r \in MemSends : InChan(r) \/ InRecv(r) => (InChan(r) \/ InRecv(r))'
    BY <1>1, <1>2, <1>9 DEF InChan, InRecv
  <2> QED
    BY <1>1, <1>2, <1>9, <2>1 DEF MemInv, SendInv
<1>18. CalmInv'
  <2>1. \A d, m : CalmEnd(d, m)' <=> CalmEnd(d, m)
    BY <1>1 DEF CalmEnd
  <2>2. Fine => \A m \in MemNodes : \A y : In(y, cmds'[m]) => y.k # "disconnect"
    BY <1>6, <1>9 DEF MemInv, CalmInv
  <2> QED
    BY <1>1, <1>2, <2>1, <2>2 DEF MemInv, CalmInv, Fine
<1> QED
  BY <1>2, <1>11, <1>15, <1>16, <1>17, <1>18 DEF MemInv

LEMMA JoinKeeps ==
    ASSUME MemInv, (\E n \in MemNodes : Join(n)) \/ UNCHANGED memVars
    PROVE  MemInv'
<1>1. UNCHANGED <<alive, cmds, calls, link, con_pool, send, faults, unmet>>
  BY DEF Join, memVars
<1>2. MemTypes' /\ EndInv' /\ PendInv' /\ RegInv'
  BY <1>1 DEF MemInv, MemTypes, EndInv, PendInv, RegInv, Reg, Called, Links
<1>3. SendInv'
  BY <1>1 DEF MemInv, SendInv, InChan, InRecv, Links
<1>4. CalmInv'
  BY <1>1 DEF MemInv, CalmInv, Fine, CalmEnd, Links
<1> QED
  BY <1>2, <1>3, <1>4 DEF MemInv

(* A send gives up on a connection that ended before it was ready. *)
LEMMA NotReadyKeeps ==
    ASSUME MemInv, NEW s \in MemSends, NotReady(s)
    PROVE  MemInv'
<1>1. /\ send[s].at = "wait" /\ Moved(s, "err")
      /\ link[send[s].on][send[s].from].task \in {"ended", "dropped"}
      /\ UNCHANGED <<alive, cmds, calls, link, con_pool, faults, unmet>>
  BY DEF NotReady
<1>2. /\ send' \in [MemSends -> Call] /\ send'[s].at = "err"
      /\ \A r \in MemSends : r # s => send'[r] = send[r]
  BY <1>1, MovedIs DEF MemInv
<1>3. EndInv' /\ Links' = Links
  BY <1>1, LinksStay
<1>4. MemTypes' /\ PendInv' /\ RegInv'
  BY <1>1, <1>2, <1>3 DEF MemInv, MemTypes, PendInv, RegInv, Reg, Called
<1>5. SendInv'
  <2>1. \A r \in MemSends : InChan(r) \/ InRecv(r) => (InChan(r) \/ InRecv(r))'
    BY <1>1, <1>3 DEF InChan, InRecv
  <2> QED
    BY <1>1, <1>2, <1>3, <2>1 DEF MemInv, SendInv
<1>6. ~Fine'
  <2>1. send[s].on \in Links /\ send[s].from \in MemNodes
    BY <1>1 DEF MemInv, SendInv, MemTypes, Call
  <2> QED
    BY <1>1, <2>1 DEF Fine, MemInv, CalmInv, CalmEnd
<1> QED
  BY <1>3, <1>4, <1>5, <1>6 DEF MemInv, CalmInv

(* A message goes into the channel of an end that is read. *)
LEMMA PushKeeps ==
    ASSUME MemInv, NEW c \in Links, NEW n \in MemNodes, NEW x \in Item,
           link[c][n].task \notin {"ended", "dropped"},
           link' = [link EXCEPT ![c][n].chan = Append(@, x)]
    PROVE  /\ link' \in Seq([MemNodes -> End]) /\ Len(link') = Len(link) /\ Links' = Links
           /\ EndInv'
           /\ \A d \in Links, m \in MemNodes :
                /\ link'[d][m].task = link[d][m].task /\ link'[d][m].ready = link[d][m].ready
                /\ \A y : In(y, link[d][m].chan) => In(y, link'[d][m].chan)
                /\ x.k = "preflight" \/ link[c][n].task = "open" \/ link[c][n].chan # <<>>
                   => (CalmEnd(d, m) => CalmEnd(d, m)')
           /\ In(x, link'[c][n].chan)
<1> DEFINE q == Append(link[c][n].chan, x)
           e == [link[c][n] EXCEPT !.chan = q]
<1>1. link[c][n] \in End /\ link[c][n].chan \in Seq(Item)
  BY LinkIs DEF MemInv
<1>2. q \in Seq(Item) /\ \A y : In(y, q) <=> In(y, link[c][n].chan) \/ y = x
  BY <1>1, InAppend
<1>3. /\ q # <<>>
      /\ link[c][n].chan # <<>> => Head(q) = Head(link[c][n].chan)
      /\ link[c][n].chan = <<>> => Head(q) = x
  BY <1>1, AppendProperties, HeadTailProperties, EmptySeq, <1>2
<1>4. link' = [link EXCEPT ![c][n].chan = q]
  BY Zenon
<1> HIDE DEF q
<1>5. /\ link' = [link EXCEPT ![c][n] = e] /\ e \in End
      /\ e.chan = q /\ e.task = link[c][n].task /\ e.ready = link[c][n].ready
  <2>1. MemTypes /\ q \in Seq(Item)
    BY <1>2 DEF MemInv
  <2>2. /\ [link EXCEPT ![c][n].chan = q] = [link EXCEPT ![c][n] = e]
        /\ e \in End /\ e.chan = q
        /\ e.task = link[c][n].task /\ e.ready = link[c][n].ready
    BY <2>1, ChanUpdate
  <2> QED
    BY <1>4, <2>2
<1> HIDE DEF e
<1>6. /\ link' \in Seq([MemNodes -> End]) /\ Len(link') = Len(link)
      /\ \A d \in Links, m \in MemNodes : link'[d][m] = IF d = c /\ m = n THEN e ELSE link[d][m]
  <2>1. MemTypes
    BY DEF MemInv
  <2>2. /\ [link EXCEPT ![c][n] = e] \in Seq([MemNodes -> End])
        /\ Len([link EXCEPT ![c][n] = e]) = Len(link)
        /\ \A d \in Links, m \in MemNodes :
              [link EXCEPT ![c][n] = e][d][m] = IF d = c /\ m = n THEN e ELSE link[d][m]
    BY <1>5, <2>1, EndUpdate
  <2>3. link' = [link EXCEPT ![c][n] = e]
    BY <1>5
  <2> QED
    BY <2>2, <2>3, Zenon
<1>7. Links' = Links
  BY <1>6 DEF Links
<1>8. \A d \in Links, m \in MemNodes :
         /\ link'[d][m].task = link[d][m].task /\ link'[d][m].ready = link[d][m].ready
         /\ link'[d][m].chan = IF d = c /\ m = n THEN q ELSE link[d][m].chan
  BY <1>5, <1>6
<1>9. EndInv'
  <2> SUFFICES ASSUME NEW d \in Links, NEW m \in MemNodes
               PROVE  /\ link'[d][m].task \in {"ended", "dropped"} => link'[d][m].chan = <<>>
                      /\ link'[d][m].task = "open" => link'[d][m].ready
                      /\ /\ link'[d][m].task \in {"none", "first"} /\ ~link'[d][m].ready
                         /\ link'[d][Other(m)].task \in {"first", "open"}
                         => link'[d][m].chan # <<>>
    BY <1>7 DEF EndInv
  <2>1. Other(m) \in MemNodes
    BY OtherIs
  <2>2. /\ link[d][m].task \in {"ended", "dropped"} => link[d][m].chan = <<>>
        /\ link[d][m].task = "open" => link[d][m].ready
        /\ /\ link[d][m].task \in {"none", "first"} /\ ~link[d][m].ready
           /\ link[d][Other(m)].task \in {"first", "open"}
           => link[d][m].chan # <<>>
    BY DEF MemInv, EndInv
  <2> QED
    BY <1>3, <1>8, <2>1, <2>2
<1>10. \A d \in Links, m \in MemNodes : \A y : In(y, link[d][m].chan) => In(y, link'[d][m].chan)
  BY <1>2, <1>8
<1>11. In(x, link'[c][n].chan)
  BY <1>2, <1>8
<1>12. ASSUME x.k = "preflight" \/ link[c][n].task = "open" \/ link[c][n].chan # <<>>,
              NEW d \in Links, NEW m \in MemNodes, CalmEnd(d, m)
       PROVE  CalmEnd(d, m)'
  <2>1. CASE d = c /\ m = n
    BY <1>3, <1>8, <1>12, <2>1 DEF CalmEnd
  <2>2. CASE ~(d = c /\ m = n)
    BY <1>8, <1>12, <2>2 DEF CalmEnd
  <2> QED
    BY <2>1, <2>2
<1> QED
  BY <1>6, <1>7, <1>8, <1>9, <1>10, <1>11, <1>12

(* A call puts its data into the channel of the peer. *)
LEMMA SendDataKeeps ==
    ASSUME MemInv, NEW s \in MemSends, SendData(s)
    PROVE  MemInv'
<1> DEFINE n == send[s].from
           c == send[s].on
           o == Other(n)
           x == Data(s)
<1>1. /\ send[s].at = "wait" /\ link[c][n].ready
      /\ UNCHANGED <<alive, cmds, calls, con_pool, faults, unmet>>
  BY DEF SendData, wait_ready
<1>2. c \in Links /\ n \in MemNodes /\ o \in MemNodes /\ Other(o) = n
  BY <1>1, OtherIs DEF MemInv, SendInv, MemTypes, Call
<1>3. CASE link[c][o].task \in {"ended", "dropped"}
  <2>1. Moved(s, "err") /\ UNCHANGED link
    BY <1>3 DEF SendData
  <2>2. /\ send' \in [MemSends -> Call] /\ send'[s].at = "err"
        /\ \A r \in MemSends : r # s => send'[r] = send[r]
    BY <2>1, MovedIs DEF MemInv
  <2>3. EndInv' /\ Links' = Links
    BY <2>1, LinksStay
  <2>4. MemTypes' /\ PendInv' /\ RegInv'
    BY <1>1, <2>1, <2>2, <2>3 DEF MemInv, MemTypes, PendInv, RegInv, Reg, Called
  <2>5. SendInv'
    <3>1. \A r \in MemSends : InChan(r) \/ InRecv(r) => (InChan(r) \/ InRecv(r))'
      BY <1>1, <2>1, <2>3 DEF InChan, InRecv
    <3> QED
      BY <1>1, <2>2, <2>3, <3>1 DEF MemInv, SendInv
  <2>6. ~Fine'
    BY <1>1, <1>2, <1>3 DEF Fine, MemInv, CalmInv, CalmEnd
  <2> QED
    BY <2>3, <2>4, <2>5, <2>6 DEF MemInv, CalmInv
<1>4. CASE link[c][o].task \notin {"ended", "dropped"}
  <2>1. Moved(s, "sent") /\ link' = [link EXCEPT ![c][o].chan = Append(@, x)]
    BY <1>4 DEF SendData, Data
  <2>2. /\ send' \in [MemSends -> Call] /\ send'[s].at = "sent"
        /\ \A r \in MemSends : r # s => send'[r] = send[r]
    BY <2>1, MovedIs DEF MemInv
  <2>3. x \in Item /\ x = Data(s)
    BY CommandIs DEF Data
  <2> HIDE DEF x, o, n, c
  <2>4. /\ link' \in Seq([MemNodes -> End]) /\ Len(link') = Len(link) /\ Links' = Links
        /\ EndInv'
        /\ \A d \in Links, m \in MemNodes :
             /\ link'[d][m].task = link[d][m].task /\ link'[d][m].ready = link[d][m].ready
             /\ \A y : In(y, link[d][m].chan) => In(y, link'[d][m].chan)
             /\ x.k = "preflight" \/ link[c][o].task = "open" \/ link[c][o].chan # <<>>
                => (CalmEnd(d, m) => CalmEnd(d, m)')
        /\ In(x, link'[c][o].chan)
    <3>1. link' = [link EXCEPT ![c][o].chan = Append(@, x)]
      BY <2>1
    <3>2. c \in Links /\ o \in MemNodes /\ x \in Item /\ link[c][o].task \notin {"ended", "dropped"}
      BY <1>2, <1>4, <2>3
    <3> QED
      BY <3>1, <3>2, PushKeeps
  <2>5. MemTypes'
    BY <1>1, <2>2, <2>4 DEF MemInv, MemTypes
  <2>6. PendInv'
    BY <1>1, <2>4 DEF MemInv, PendInv, Reg, Called
  <2>7. RegInv'
    BY <1>1, <2>4 DEF MemInv, RegInv, Reg, Called
  <2>8. SendInv'
    <3>1. \A r \in MemSends : InChan(r) \/ InRecv(r) => (InChan(r) \/ InRecv(r))'
      <4> SUFFICES ASSUME NEW r \in MemSends, InChan(r) \/ InRecv(r)
                   PROVE  (InChan(r) \/ InRecv(r))'
        OBVIOUS
      <4>1. InRecv(r) => InRecv(r)'
        BY <1>1 DEF InRecv
      <4>2. InChan(r) => InChan(r)'
        BY <2>4 DEF InChan
      <4> QED
        BY <4>1, <4>2
    <3>2. InChan(s)'
      BY <1>2, <2>3, <2>4 DEF InChan
    <3>3. ASSUME NEW r \in MemSends
          PROVE  /\ send'[r].at = "queued" => \E m \in MemNodes : In([k |-> "send", of |-> r], cmds'[m])
                 /\ send'[r].at = "sent" => (InChan(r) \/ InRecv(r))'
                 /\ send'[r].at = "wait" => send'[r].on \in Links'
      <4>1. CASE r = s
        BY <2>2, <3>2, <4>1
      <4>2. CASE r # s
        BY <1>1, <2>2, <2>4, <3>1, <4>2 DEF MemInv, SendInv
      <4> QED
        BY <4>1, <4>2
    <3> QED
      BY <3>3 DEF SendInv
  <2>9. CalmInv'
    <3> SUFFICES ASSUME Fine PROVE CalmInv'
      BY <1>1 DEF CalmInv, Fine
    <3>1. link[c][n].task = "open"
      BY <1>1, <1>2 DEF MemInv, CalmInv, CalmEnd, n, c
    <3>2. link[c][o].task \in {"none", "first", "open"} /\ (link[c][o].task # "open" => ~link[c][o].ready)
      BY <1>2 DEF MemInv, CalmInv, CalmEnd
    <3>3. link[c][o].task = "open" \/ link[c][o].chan # <<>>
      BY <1>2, <3>1, <3>2 DEF MemInv, EndInv
    <3>4. \A d \in Links, m \in MemNodes : CalmEnd(d, m)'
      BY <2>4, <3>3 DEF MemInv, CalmInv
    <3>5. \A r \in MemSends : send'[r].at # "err"
      BY <2>2 DEF MemInv, CalmInv
    <3> QED
      BY <1>1, <2>4, <3>4, <3>5 DEF MemInv, CalmInv
  <2> QED
    BY <2>4, <2>5, <2>6, <2>7, <2>8, <2>9 DEF MemInv
<1> QED
  BY <1>3, <1>4

(* The first command is taken and one is added behind the others. *)
LEMMA CmdReplaced ==
    ASSUME MemTypes, RegInv, NEW n \in MemNodes, NEW x \in Command, cmds[n] # <<>>,
           cmds' = [cmds EXCEPT ![n] = Append(Tail(cmds[n]), x)],
           x \in Registers => ~In(x, cmds[n])
    PROVE  /\ cmds' \in [MemNodes -> Seq(Command)]
           /\ Head(cmds[n]) \in Command /\ In(Head(cmds[n]), cmds[n])
           /\ \A m \in MemNodes : \A y : In(y, cmds'[m]) => In(y, cmds[m]) \/ (m = n /\ y = x)
           /\ \A m \in MemNodes : \A y : In(y, cmds[m]) => In(y, cmds'[m]) \/ (m = n /\ y = Head(cmds[n]))
           /\ \A m \in MemNodes : Once(Registers, cmds'[m])
           /\ In(x, cmds'[n])
<1>1. cmds \in [MemNodes -> Seq(Command)] /\ cmds[n] \in Seq(Command)
  BY DEF MemTypes
<1>2. /\ Tail(cmds[n]) \in Seq(Command) /\ Head(cmds[n]) \in Command
      /\ In(Head(cmds[n]), cmds[n])
      /\ \A y : In(y, cmds[n]) => y = Head(cmds[n]) \/ In(y, Tail(cmds[n]))
      /\ \A y : In(y, Tail(cmds[n])) => In(y, cmds[n])
  BY <1>1, InTail
<1>3. Once(Registers, cmds[n])
  BY DEF RegInv
<1>4. Once(Registers, Tail(cmds[n]))
  BY <1>1, <1>3, OnceTail
<1>5. /\ Append(Tail(cmds[n]), x) \in Seq(Command)
      /\ \A y : In(y, Append(Tail(cmds[n]), x)) <=> In(y, Tail(cmds[n])) \/ y = x
  BY <1>2, InAppend
<1>6. x \in Registers => ~In(x, Tail(cmds[n]))
  BY <1>2
<1>7. Once(Registers, Append(Tail(cmds[n]), x))
  BY <1>2, <1>4, <1>6, OnceAppend
<1>8. \A m \in MemNodes : cmds'[m] = IF m = n THEN Append(Tail(cmds[n]), x) ELSE cmds[m]
  BY <1>1
<1>9. cmds' \in [MemNodes -> Seq(Command)]
  BY <1>1, <1>5
<1>10. \A m \in MemNodes : Once(Registers, cmds'[m])
  BY <1>7, <1>8 DEF RegInv
<1>11. /\ \A m \in MemNodes : \A y : In(y, cmds'[m]) => In(y, cmds[m]) \/ (m = n /\ y = x)
       /\ \A m \in MemNodes : \A y : In(y, cmds[m]) => In(y, cmds'[m]) \/ (m = n /\ y = Head(cmds[n]))
  BY <1>2, <1>5, <1>8
<1>12. In(x, cmds'[n])
  BY <1>5, <1>8
<1> QED
  BY <1>2, <1>9, <1>10, <1>11, <1>12

(* A send over the connection in the pool, or with nobody to connect to. *)
LEMMA SendCmdKeeps ==
    ASSUME MemInv, NEW n \in MemNodes, SendCmd(n),
           cmds' = [cmds EXCEPT ![n] = Tail(cmds[n])], UNCHANGED <<calls, link>>
    PROVE  MemInv'
<1> DEFINE s == Head(cmds[n]).of
           x == Head(cmds[n])
<1>1. /\ cmds[n] # <<>> /\ x.k = "send"
      /\ UNCHANGED <<alive, calls, link, con_pool, faults, unmet>>
  BY DEF SendCmd, Cmd
<1>2. EndInv' /\ Links' = Links
  BY <1>1, LinksStay
<1>3. /\ cmds' \in [MemNodes -> Seq(Command)]
      /\ x \in Command /\ In(x, cmds[n])
      /\ \A m \in MemNodes : \A y : In(y, cmds'[m]) => In(y, cmds[m])
      /\ \A m \in MemNodes : \A y : In(y, cmds[m]) => In(y, cmds'[m]) \/ (m = n /\ y = x)
      /\ \A m \in MemNodes : Once(Registers, cmds'[m])
  BY <1>1, CmdTaken DEF MemInv
<1>4. s \in MemSends /\ x = [k |-> "send", of |-> s]
  BY <1>1, <1>3, CommandFields
<1>5. /\ send' \in [MemSends -> Call]
      /\ send'[s].at \in {"wait", "err"}
      /\ send'[s].at = "wait" => send'[s].on \in Links
      /\ send'[s].at = "err" => Other(n) \notin alive
      /\ \A r \in MemSends : r # s => send'[r] = send[r]
  <2>1. send \in [MemSends -> Call] /\ con_pool[n] \in Nat /\ con_pool[n] <= Len(link)
    BY DEF MemInv, MemTypes
  <2>2. CASE con_pool[n] # 0
    <3>1. send' = [send EXCEPT ![s].at = "wait", ![s].on = con_pool[n]]
      BY <2>2 DEF SendCmd
    <3>2. con_pool[n] \in Links
      BY <2>1, <2>2, LenProperties DEF MemInv, MemTypes, Links
    <3>3. /\ send' \in [MemSends -> Call] /\ send'[s].at = "wait" /\ send'[s].on = con_pool[n]
          /\ \A r \in MemSends : r # s => send'[r] = send[r]
      BY <1>4, <2>1, <3>1 DEF Call
    <3> QED
      BY <3>2, <3>3
  <2>3. CASE con_pool[n] = 0
    <3>1. Moved(s, "err") /\ Other(n) \notin alive
      <4>1. ~connect(n, Tail(cmds[n]))
        <5>1. link \in Seq([MemNodes -> End]) /\ [m \in MemNodes |-> NewEnd] \in [MemNodes -> End]
          BY DEF MemInv, MemTypes, NewEnd, End
        <5>2. Len(Append(link, [m \in MemNodes |-> NewEnd])) = Len(link) + 1 /\ Len(link) \in Nat
          BY <5>1, AppendProperties
        <5>3. Append(link, [m \in MemNodes |-> NewEnd]) # link
          BY <5>2
        <5> QED
          BY <1>1, <5>3 DEF connect
      <4> QED
        BY <2>3, <4>1 DEF SendCmd
    <3>2. /\ send' \in [MemSends -> Call] /\ send'[s].at = "err"
          /\ \A r \in MemSends : r # s => send'[r] = send[r]
      BY <1>4, <3>1, MovedIs DEF MemInv
    <3> QED
      BY <3>1, <3>2
  <2> QED
    BY <2>2, <2>3
<1> HIDE DEF x, s
<1>6. MemTypes'
  BY <1>1, <1>3, <1>5 DEF MemInv, MemTypes
<1>7. \A m \in MemNodes : \A c : Reg(m, c)' <=> Reg(m, c)
  <2>1. \A c : [k |-> "register", on |-> c] # x
    BY <1>4
  <2> QED
    BY <1>3, <2>1 DEF Reg
<1>8. PendInv' /\ RegInv'
  BY <1>1, <1>2, <1>3, <1>7 DEF MemInv, PendInv, RegInv, Called
<1>9. SendInv'
  <2>1. \A r \in MemSends : InChan(r) \/ InRecv(r) => (InChan(r) \/ InRecv(r))'
    <3>1. \A r : [k |-> "recv", item |-> Data(r)] # x
      BY <1>4
    <3> QED
      BY <1>1, <1>2, <1>3, <3>1 DEF InChan, InRecv
  <2>2. \A r \in MemSends, m \in MemNodes : r # s =>
           (In([k |-> "send", of |-> r], cmds[m]) => In([k |-> "send", of |-> r], cmds'[m]))
    BY <1>3, <1>4
  <2>3. ASSUME NEW r \in MemSends
        PROVE  /\ send'[r].at = "queued" => \E m \in MemNodes : In([k |-> "send", of |-> r], cmds'[m])
               /\ send'[r].at = "sent" => (InChan(r) \/ InRecv(r))'
               /\ send'[r].at = "wait" => send'[r].on \in Links'
    <3>1. CASE r = s
      BY <1>2, <1>5, <3>1
    <3>2. CASE r # s
      BY <1>2, <1>5, <2>1, <2>2, <3>2 DEF MemInv, SendInv
    <3> QED
      BY <3>1, <3>2
  <2> QED
    BY <2>3 DEF SendInv
<1>10. CalmInv'
  <2> SUFFICES ASSUME Fine PROVE CalmInv'
    BY <1>1 DEF CalmInv, Fine
  <2>1. \A c, m : CalmEnd(c, m)' <=> CalmEnd(c, m)
    BY <1>1 DEF CalmEnd
  <2>2. Other(n) \in alive
    BY OtherIs DEF MemInv, CalmInv
  <2>3. \A r \in MemSends : send'[r].at # "err"
    BY <1>5, <2>2 DEF MemInv, CalmInv
  <2> QED
    BY <1>1, <1>2, <1>3, <2>1, <2>3 DEF MemInv, CalmInv
<1> QED
  BY <1>2, <1>6, <1>8, <1>9, <1>10 DEF MemInv

(* A send that makes a connection first. *)
LEMMA ConnectKeeps ==
    ASSUME MemInv, NEW n \in MemNodes, SendCmd(n), connect(n, Tail(cmds[n])),
           send' = [send EXCEPT ![Head(cmds[n]).of].at = "wait",
                                ![Head(cmds[n]).of].on = Len(link) + 1]
    PROVE  MemInv'
<1> DEFINE s == Head(cmds[n]).of
           h == Head(cmds[n])
           o == Other(n)
           c == Len(link) + 1
           x == [k |-> "register", on |-> c]
           row == [m \in MemNodes |-> NewEnd]
<1>1. /\ cmds[n] # <<>> /\ h.k = "send"
      /\ UNCHANGED <<alive, con_pool, faults, unmet>>
  BY DEF SendCmd, Cmd
<1>2. /\ link' = Append(link, row)
      /\ calls' = [calls EXCEPT ![o] = Append(@, c)]
      /\ cmds' = [cmds EXCEPT ![n] = Append(Tail(cmds[n]), x)]
  BY DEF connect
<1>3. link \in Seq([MemNodes -> End]) /\ row \in [MemNodes -> End]
  BY DEF MemInv, MemTypes, NewEnd, End
<1>4. /\ link' \in Seq([MemNodes -> End]) /\ Len(link') = Len(link) + 1 /\ Len(link) \in Nat
      /\ \A d \in 1 .. Len(link) : link'[d] = link[d]
      /\ link'[Len(link) + 1] = row
  BY <1>2, <1>3, AppendProperties
<1>5. /\ c \in Nat /\ c \notin Links /\ \A d : d \in Links' <=> d \in Links \/ d = c
      /\ \A d \in Links : link'[d] = link[d]
      /\ \A m \in MemNodes : link'[c][m] = NewEnd
  BY <1>4 DEF Links
<1>6. o \in MemNodes /\ o # n /\ \A m \in MemNodes : m = n \/ m = o
  BY OtherIs
<1>7. x \in Command /\ x.k = "register" /\ \A d : [k |-> "register", on |-> d] = x <=> d = c
  BY <1>5, CommandIs
<1>8. ~In(x, cmds[n]) /\ ~In(c, calls[o])
  <2>1. ~Reg(n, c) /\ ~Called(o, c)
    BY <1>5, <1>6 DEF MemInv, RegInv
  <2> QED
    BY <2>1 DEF Reg, Called
<1> HIDE DEF c, x, row, o
<1>9. /\ cmds' \in [MemNodes -> Seq(Command)]
      /\ h \in Command /\ In(h, cmds[n])
      /\ \A m \in MemNodes : \A y : In(y, cmds'[m]) => In(y, cmds[m]) \/ (m = n /\ y = x)
      /\ \A m \in MemNodes : \A y : In(y, cmds[m]) => In(y, cmds'[m]) \/ (m = n /\ y = h)
      /\ \A m \in MemNodes : Once(Registers, cmds'[m])
      /\ In(x, cmds'[n])
  <2>1. MemTypes /\ RegInv
    BY DEF MemInv
  <2> QED
    BY <1>1, <1>2, <1>7, <1>8, <2>1, CmdReplaced
<1>10. s \in MemSends /\ h = [k |-> "send", of |-> s]
  BY <1>1, <1>9, CommandFields
<1>11. /\ send' \in [MemSends -> Call] /\ send'[s].at = "wait" /\ send'[s].on = c
       /\ \A r \in MemSends : r # s => send'[r] = send[r]
  <2>1. send \in [MemSends -> Call]
    BY DEF MemInv, MemTypes
  <2>2. send' = [send EXCEPT ![s].at = "wait", ![s].on = c]
    BY DEF c, s, h
  <2>3. send[s] \in Call
    BY <1>10, <2>1
  <2>4. [send[s] EXCEPT !.at = "wait", !.on = c] \in Call
    BY <1>5, <2>3 DEF Call
  <2>5. /\ [send[s] EXCEPT !.at = "wait", !.on = c].at = "wait"
        /\ [send[s] EXCEPT !.at = "wait", !.on = c].on = c
    BY <2>3 DEF Call
  <2>6. send' = [send EXCEPT ![s] = [send[s] EXCEPT !.at = "wait", !.on = c]]
    BY <1>10, <2>1, <2>2
  <2> QED
    BY <1>10, <2>1, <2>4, <2>5, <2>6
<1> HIDE DEF h, s
<1>12. calls \in [MemNodes -> Seq(Nat)] /\ calls[o] \in Seq(Nat)
  BY <1>6 DEF MemInv, MemTypes
<1>13. /\ calls' \in [MemNodes -> Seq(Nat)]
       /\ \A m \in MemNodes : \A d : Called(m, d)' <=> Called(m, d) \/ (m = o /\ d = c)
       /\ \A m \in MemNodes : Once(Nat, calls'[m])
  <2>1. /\ Append(calls[o], c) \in Seq(Nat)
        /\ \A d : In(d, Append(calls[o], c)) <=> In(d, calls[o]) \/ d = c
    BY <1>5, <1>12, InAppend
  <2>2. Once(Nat, calls[o])
    BY <1>6 DEF MemInv, RegInv
  <2>3. Once(Nat, Append(calls[o], c))
    BY <1>5, <1>8, <1>12, <2>2, OnceAppend
  <2>4. \A m \in MemNodes : calls'[m] = IF m = o THEN Append(calls[o], c) ELSE calls[m]
    BY <1>2, <1>12
  <2>5. calls' \in [MemNodes -> Seq(Nat)]
    BY <1>2, <1>12, <2>1
  <2>6. \A m \in MemNodes : Once(Nat, calls'[m])
    BY <2>3, <2>4 DEF MemInv, RegInv
  <2>7. \A m \in MemNodes : \A d : Called(m, d)' <=> Called(m, d) \/ (m = o /\ d = c)
    BY <2>1, <2>4 DEF Called
  <2> QED
    BY <2>5, <2>6, <2>7
<1>14. \A m \in MemNodes : \A d : Reg(m, d)' <=> Reg(m, d) \/ (m = n /\ d = c)
  <2>1. \A d : [k |-> "register", on |-> d] # h
    BY <1>10
  <2> QED
    BY <1>7, <1>9, <2>1 DEF Reg
<1>15. MemTypes'
  <2>1. \A m \in MemNodes : con_pool'[m] <= Len(link')
    BY <1>1, <1>4 DEF MemInv, MemTypes
  <2> QED
    BY <1>1, <1>4, <1>9, <1>11, <1>13, <2>1 DEF MemInv, MemTypes
<1>16. NewEnd.task = "none" /\ ~NewEnd.ready /\ NewEnd.chan = <<>>
  BY DEF NewEnd
<1>17. EndInv'
  <2>1. ASSUME NEW d \in Links', NEW m \in MemNodes
        PROVE  /\ link'[d][m].task \in {"ended", "dropped"} => link'[d][m].chan = <<>>
               /\ link'[d][m].task = "open" => link'[d][m].ready
               /\ /\ link'[d][m].task \in {"none", "first"} /\ ~link'[d][m].ready
                  /\ link'[d][Other(m)].task \in {"first", "open"}
                  => link'[d][m].chan # <<>>
    <3>1. CASE d \in Links
      BY <1>5, <3>1 DEF MemInv, EndInv
    <3>2. CASE d = c
      <4>1. Other(m) \in MemNodes
        BY OtherIs
      <4> QED
        BY <1>5, <1>16, <3>2, <4>1
    <3> QED
      BY <1>5, <3>1, <3>2
  <2> QED
    BY <2>1 DEF EndInv
<1>18. PendInv'
  <2>1. ASSUME NEW d \in Links', NEW m \in MemNodes, link'[d][m].task = "none"
        PROVE  Reg(m, d)' \/ Called(m, d)'
    <3>1. CASE d \in Links
      BY <1>5, <1>13, <1>14, <2>1, <3>1 DEF MemInv, PendInv
    <3>2. CASE d = c
      BY <1>6, <1>13, <1>14, <3>2
    <3> QED
      BY <1>5, <3>1, <3>2
  <2> QED
    BY <2>1 DEF PendInv
<1>19. RegInv'
  <2>1. ASSUME NEW m \in MemNodes, NEW d \in Nat, Reg(m, d)' \/ Called(m, d)'
        PROVE  d \in Links' /\ link'[d][m].task = "none"
    <3>1. CASE d = c
      BY <1>5, <1>16, <3>1
    <3>2. CASE d # c
      BY <1>5, <1>13, <1>14, <2>1, <3>2 DEF MemInv, RegInv
    <3> QED
      BY <3>1, <3>2
  <2>2. ASSUME NEW m \in MemNodes, NEW d \in Nat PROVE ~(Reg(m, d)' /\ Called(m, d)')
    BY <1>5, <1>6, <1>13, <1>14 DEF MemInv, RegInv
  <2> QED
    BY <1>9, <1>13, <2>1, <2>2 DEF RegInv
<1>20. SendInv'
  <2>1. ASSUME NEW r \in MemSends, InChan(r) \/ InRecv(r) PROVE (InChan(r) \/ InRecv(r))'
    <3>1. [k |-> "recv", item |-> Data(r)] # h
      BY <1>10
    <3>2. InRecv(r) => InRecv(r)'
      BY <1>9, <3>1 DEF InRecv
    <3>3. InChan(r) => InChan(r)'
      BY <1>5 DEF InChan
    <3> QED
      BY <2>1, <3>2, <3>3
  <2>2. \A r \in MemSends, m \in MemNodes : r # s =>
           (In([k |-> "send", of |-> r], cmds[m]) => In([k |-> "send", of |-> r], cmds'[m]))
    BY <1>9, <1>10
  <2>3. ASSUME NEW r \in MemSends
        PROVE  /\ send'[r].at = "queued" => \E m \in MemNodes : In([k |-> "send", of |-> r], cmds'[m])
               /\ send'[r].at = "sent" => (InChan(r) \/ InRecv(r))'
               /\ send'[r].at = "wait" => send'[r].on \in Links'
    <3>1. CASE r = s
      BY <1>5, <1>11, <3>1
    <3>2. CASE r # s
      <4>1. send'[r] = send[r]
        BY <1>11, <3>2
      <4>2. /\ send[r].at = "queued" => \E m \in MemNodes : In([k |-> "send", of |-> r], cmds[m])
            /\ send[r].at = "sent" => InChan(r) \/ InRecv(r)
            /\ send[r].at = "wait" => send[r].on \in Links
        BY DEF MemInv, SendInv
      <4> QED
        BY <1>5, <2>1, <2>2, <3>2, <4>1, <4>2
    <3> QED
      BY <3>1, <3>2
  <2> QED
    BY <2>3 DEF SendInv
<1>21. CalmInv'
  <2> SUFFICES ASSUME Fine PROVE CalmInv'
    BY <1>1 DEF CalmInv, Fine
  <2>1. ASSUME NEW d \in Links', NEW m \in MemNodes PROVE CalmEnd(d, m)'
    <3>1. CASE d \in Links
      BY <1>5, <3>1 DEF MemInv, CalmInv, CalmEnd
    <3>2. CASE d = c
      BY <1>5, <1>16, <3>2 DEF CalmEnd
    <3> QED
      BY <1>5, <3>1, <3>2
  <2>2. \A r \in MemSends : send'[r].at # "err"
    BY <1>11 DEF MemInv, CalmInv
  <2>3. \A m \in MemNodes : \A y : In(y, cmds'[m]) => y.k # "disconnect"
    BY <1>7, <1>9 DEF MemInv, CalmInv
  <2> QED
    BY <1>1, <2>1, <2>2, <2>3 DEF MemInv, CalmInv
<1> QED
  BY <1>15, <1>17, <1>18, <1>19, <1>20, <1>21 DEF MemInv

LEMMA EndLeft ==
    ASSUME NEW x \in End, NEW t \in {"ended", "dropped"}
    PROVE  /\ [x EXCEPT !.task = t, !.chan = <<>>] \in End
           /\ [x EXCEPT !.task = t, !.chan = <<>>].task = t
           /\ [x EXCEPT !.task = t, !.chan = <<>>].chan = <<>>
<1>1. <<>> \in Seq(Item)
  BY EmptySeq
<1> QED
  BY <1>1 DEF End

(* An end is given up with what was in its channel. *)
LEMMA EndGone ==
    ASSUME MemInv, NEW c \in Links, NEW n \in MemNodes, NEW t \in {"ended", "dropped"},
           link' = [link EXCEPT ![c][n] = [@ EXCEPT !.task = t, !.chan = <<>>]],
           send' = Failing(Carried(link[c][n].chan))
    PROVE  /\ link' \in Seq([MemNodes -> End]) /\ Len(link') = Len(link) /\ Links' = Links
           /\ send' \in [MemSends -> Call]
           /\ EndInv'
           /\ \A d \in Links, m \in MemNodes :
                link'[d][m].task = IF d = c /\ m = n THEN t ELSE link[d][m].task
           /\ \A r \in MemSends :
                send'[r].at = "err" \/ (send'[r] = send[r] /\ (InChan(r) => InChan(r)'))
<1> DEFINE e == [link[c][n] EXCEPT !.task = t, !.chan = <<>>]
<1>1. link[c][n] \in End /\ link[c][n].chan \in Seq(Item)
  BY LinkIs DEF MemInv
<1>2. e \in End /\ e.task = t /\ e.chan = <<>>
  BY <1>1, EndLeft
<1>3. link' = [link EXCEPT ![c][n] = e]
  BY Zenon
<1> HIDE DEF e
<1>4. /\ link' \in Seq([MemNodes -> End]) /\ Len(link') = Len(link)
      /\ \A d \in Links, m \in MemNodes : link'[d][m] = IF d = c /\ m = n THEN e ELSE link[d][m]
  <2>1. MemTypes
    BY DEF MemInv
  <2>2. /\ [link EXCEPT ![c][n] = e] \in Seq([MemNodes -> End])
        /\ Len([link EXCEPT ![c][n] = e]) = Len(link)
        /\ \A d \in Links, m \in MemNodes :
              [link EXCEPT ![c][n] = e][d][m] = IF d = c /\ m = n THEN e ELSE link[d][m]
    BY <1>2, <2>1, EndUpdate
  <2> QED
    BY <1>3, <2>2, Zenon
<1>5. Links' = Links
  BY <1>4 DEF Links
<1>6. EndInv'
  <2>1. ASSUME NEW d \in Links, NEW m \in MemNodes
        PROVE  /\ link'[d][m].task \in {"ended", "dropped"} => link'[d][m].chan = <<>>
               /\ link'[d][m].task = "open" => link'[d][m].ready
               /\ /\ link'[d][m].task \in {"none", "first"} /\ ~link'[d][m].ready
                  /\ link'[d][Other(m)].task \in {"first", "open"}
                  => link'[d][m].chan # <<>>
    <3>1. Other(m) \in MemNodes
      BY OtherIs
    <3>2. /\ link[d][m].task \in {"ended", "dropped"} => link[d][m].chan = <<>>
          /\ link[d][m].task = "open" => link[d][m].ready
          /\ /\ link[d][m].task \in {"none", "first"} /\ ~link[d][m].ready
             /\ link[d][Other(m)].task \in {"first", "open"}
             => link[d][m].chan # <<>>
      BY DEF MemInv, EndInv
    <3>3. CASE d = c /\ m = n
      BY <1>2, <1>4, <3>3
    <3>4. CASE ~(d = c /\ m = n)
      BY <1>2, <1>4, <3>1, <3>2, <3>4
    <3> QED
      BY <3>3, <3>4
  <2> QED
    BY <1>5, <2>1 DEF EndInv
<1>p. PICK ss : ss = Carried(link[c][n].chan)
  OBVIOUS
<1>7. /\ send' \in [MemSends -> Call]
      /\ \A r \in MemSends :
           (r \in ss => send'[r].at = "err") /\ (r \notin ss => send'[r] = send[r])
  <2>1. MemTypes /\ send' = Failing(ss)
    BY <1>p DEF MemInv
  <2>2. /\ Failing(ss) \in [MemSends -> Call]
        /\ \A r \in MemSends :
             (r \in ss => Failing(ss)[r].at = "err") /\ (r \notin ss => Failing(ss)[r] = send[r])
    BY <2>1, FailingIs
  <2> QED
    BY <2>1, <2>2, Zenon
<1>8. ASSUME NEW r \in MemSends
      PROVE  send'[r].at = "err" \/ (send'[r] = send[r] /\ (InChan(r) => InChan(r)'))
  <2>1. CASE r \in ss
    BY <1>7, <2>1
  <2>2. CASE r \notin ss
    <3>1. ~In(Data(r), link[c][n].chan)
      BY <1>1, <1>p, <2>2, CarriedIs DEF Data
    <3>2. InChan(r) => InChan(r)'
      BY <1>4, <1>5, <3>1 DEF InChan
    <3> QED
      BY <1>7, <2>2, <3>2
  <2> QED
    BY <2>1, <2>2
<1>9. \A d \in Links, m \in MemNodes :
         link'[d][m].task = IF d = c /\ m = n THEN t ELSE link[d][m].task
  BY <1>2, <1>4
<1>10. link' \in Seq([MemNodes -> End]) /\ Len(link') = Len(link) /\ Links' = Links
  BY <1>4, <1>5
<1>11. send' \in [MemSends -> Call]
  BY <1>7
<1> QED
  BY <1>6, <1>8, <1>9, <1>10, <1>11, Zenon

(* The connection that is registered has been on its way. *)
LEMMA RegisterIs ==
    ASSUME MemInv, NEW n \in MemNodes, RegisterConnection(n)
    PROVE  LET c == Head(cmds[n]).on
           IN  /\ c \in Links /\ link[c][n].task = "none"
               /\ cmds' \in [MemNodes -> Seq(Command)]
               /\ \A m \in MemNodes : Once(Registers, cmds'[m])
               /\ \A m \in MemNodes, d \in Nat :
                    (Reg(m, d) \/ Called(m, d)) /\ ~(m = n /\ d = c) <=> (Reg(m, d) \/ Called(m, d))'
               /\ \A m \in MemNodes : \A d : Reg(m, d)' => Reg(m, d)
               /\ \A m \in MemNodes : \A y : In(y, cmds'[m]) => In(y, cmds[m])
               /\ \A m \in MemNodes : \A y : y.k # "register" => (In(y, cmds[m]) => In(y, cmds'[m]))
<1>h. PICK h : h = Head(cmds[n])
  OBVIOUS
<1>c. PICK c : c = h.on
  OBVIOUS
<1>1. cmds[n] # <<>> /\ h.k = "register" /\ cmds' = [cmds EXCEPT ![n] = Tail(cmds[n])] /\ UNCHANGED calls
  BY <1>h DEF RegisterConnection, Cmd
<1>2. /\ cmds' \in [MemNodes -> Seq(Command)]
      /\ h \in Command /\ In(h, cmds[n])
      /\ \A m \in MemNodes : \A y : In(y, cmds'[m]) => In(y, cmds[m])
      /\ \A m \in MemNodes : \A y : In(y, cmds[m]) => In(y, cmds'[m]) \/ (m = n /\ y = h)
      /\ \A m \in MemNodes : Once(Registers, cmds'[m])
      /\ h \in Registers => ~In(h, cmds'[n])
  BY <1>h, <1>1, CmdTaken DEF MemInv
<1>3. c \in Nat /\ h = [k |-> "register", on |-> c]
  BY <1>1, <1>2, <1>c, CommandFields
<1>4. h \in Registers
  BY <1>3 DEF Registers
<1>5. Reg(n, c) /\ ~Reg(n, c)'
  BY <1>2, <1>3, <1>4 DEF Reg
<1>6. c \in Links /\ link[c][n].task = "none" /\ ~Called(n, c)
  BY <1>3, <1>5 DEF MemInv, RegInv
<1>7. \A m \in MemNodes : \A d : Reg(m, d)' => Reg(m, d)
  BY <1>2 DEF Reg
<1>8. \A m \in MemNodes : \A d : Reg(m, d) /\ ~(m = n /\ d = c) => Reg(m, d)'
  <2>1. \A d : [k |-> "register", on |-> d] = h => d = c
    BY <1>3
  <2> QED
    BY <1>2, <2>1 DEF Reg
<1>9. \A m \in MemNodes : \A d : Called(m, d)' <=> Called(m, d)
  BY <1>1 DEF Called
<1>11. \A m \in MemNodes, d \in Nat :
          (Reg(m, d) \/ Called(m, d)) /\ ~(m = n /\ d = c) <=> (Reg(m, d) \/ Called(m, d))'
  BY <1>5, <1>6, <1>7, <1>8, <1>9
<1>10. \A y : y.k # "register" => y # h
  BY <1>1
<1> QED
  BY <1>h, <1>c, <1>2, <1>11, <1>5, <1>6, <1>7, <1>10

(* A node that has an agent introduces itself. *)
LEMMA IntroductionKeeps ==
    ASSUME MemInv, NEW n \in MemNodes, RegisterConnection(n), n \in joined
    PROVE  MemInv'
<1>c. PICK c : c = Head(cmds[n]).on
  OBVIOUS
<1>o. PICK o : o = Other(n)
  OBVIOUS
<1>1. /\ c \in Links /\ link[c][n].task = "none"
      /\ cmds' \in [MemNodes -> Seq(Command)]
      /\ \A m \in MemNodes : Once(Registers, cmds'[m])
      /\ \A m \in MemNodes, d \in Nat :
           (Reg(m, d) \/ Called(m, d)) /\ ~(m = n /\ d = c) <=> (Reg(m, d) \/ Called(m, d))'
      /\ \A m \in MemNodes : \A d : Reg(m, d)' => Reg(m, d)
      /\ \A m \in MemNodes : \A y : In(y, cmds'[m]) => In(y, cmds[m])
      /\ \A m \in MemNodes : \A y : y.k # "register" => (In(y, cmds[m]) => In(y, cmds'[m]))
  BY <1>c, RegisterIs
<1>2. /\ con_pool' = [con_pool EXCEPT ![n] = c] /\ send' = send
      /\ unmet' = (unmet \/ n \notin joined)
      /\ UNCHANGED <<alive, joined, calls, faults>>
  BY <1>c DEF RegisterConnection
<1>3. o \in MemNodes /\ o # n /\ Other(o) = n /\ \A m \in MemNodes : m = n \/ m = o
  BY <1>o, OtherIs
<1> DEFINE x == [k |-> "preflight"]
           mine == [link[c][n] EXCEPT !.task = "first"]
           push == [link[c][o] EXCEPT !.chan = Append(@, x)]
           gone == link[c][o].task \in {"ended", "dropped"}
           row == [m \in MemNodes |-> IF m = n THEN mine
                     ELSE IF link[c][m].task \in {"ended", "dropped"} THEN link[c][m]
                     ELSE [link[c][m] EXCEPT !.chan = Append(@, x)]]
<1>4. link' = [link EXCEPT ![c] = row]
  <2>1. link' = [link EXCEPT ![Head(cmds[n]).on] = Introduced(n, link[Head(cmds[n]).on])]
    BY <1>2, Zenon DEF RegisterConnection
  <2>2. link' = [link EXCEPT ![c] = Introduced(n, link[c])]
    BY <1>c, <2>1, Zenon
  <2>3. Introduced(n, link[c]) = row
    BY DEF Introduced
  <2> QED
    BY <2>2, <2>3, Zenon
<1>5. link[c][n] \in End /\ link[c][o] \in End /\ link[c][o].chan \in Seq(Item)
  BY <1>1, <1>3, LinkIs DEF MemInv
<1>6. x \in Item /\ x.k = "preflight"
  BY CommandIs
<1> HIDE DEF x
<1>7. /\ Append(link[c][o].chan, x) \in Seq(Item)
      /\ \A y : In(y, link[c][o].chan) => In(y, Append(link[c][o].chan, x))
  BY <1>5, <1>6, InAppend
<1>8. /\ Append(link[c][o].chan, x) # <<>>
      /\ Head(Append(link[c][o].chan, x)).k = "preflight"
         \/ (link[c][o].chan # <<>> /\ Head(Append(link[c][o].chan, x)) = Head(link[c][o].chan))
  BY <1>5, <1>6, <1>7, AppendProperties, HeadTailProperties, EmptySeq
<1>9. /\ mine \in End /\ mine.task = "first" /\ mine.ready = link[c][n].ready
      /\ mine.chan = link[c][n].chan
  BY <1>5 DEF End
<1>10. /\ push \in End /\ push.task = link[c][o].task /\ push.ready = link[c][o].ready
       /\ push.chan = Append(link[c][o].chan, x)
  BY <1>5, <1>7 DEF End
<1> HIDE DEF mine, push
<1>11. row[n] = mine /\ row[o] = (IF gone THEN link[c][o] ELSE push)
  BY <1>3 DEF push
<1>12. row \in [MemNodes -> End]
  <2>1. \A m \in MemNodes : row[m] \in End
    BY <1>3, <1>5, <1>9, <1>10, <1>11
  <2> QED
    BY <2>1
<1> HIDE DEF row
<1>13. /\ link' \in Seq([MemNodes -> End]) /\ Len(link') = Len(link)
       /\ \A d \in Links : link'[d] = IF d = c THEN row ELSE link[d]
  <2>1. link \in Seq([MemNodes -> End]) /\ c \in 1 .. Len(link)
    BY <1>1 DEF MemInv, MemTypes, Links
  <2>2. /\ [link EXCEPT ![c] = row] \in Seq([MemNodes -> End])
        /\ Len([link EXCEPT ![c] = row]) = Len(link)
        /\ \A d \in 1 .. Len(link) : [link EXCEPT ![c] = row][d] = IF d = c THEN row ELSE link[d]
    BY <1>12, <2>1, ExceptSeq
  <2> QED
    BY <1>4, <2>2 DEF Links
<1>14. Links' = Links
  BY <1>13 DEF Links
<1>15. /\ link'[c][n] = mine /\ link'[c][o] = (IF gone THEN link[c][o] ELSE push)
       /\ \A d \in Links, m \in MemNodes : d # c => link'[d][m] = link[d][m]
  BY <1>1, <1>11, <1>13
<1>16. /\ \A d \in Links, m \in MemNodes : ~(d = c /\ m = n) => link'[d][m].task = link[d][m].task
       /\ \A d \in Links, m \in MemNodes : link'[d][m].ready = link[d][m].ready
       /\ \A d \in Links, m \in MemNodes : \A y : In(y, link[d][m].chan) => In(y, link'[d][m].chan)
  BY <1>3, <1>7, <1>9, <1>10, <1>15
<1>17. MemTypes'
  <2>1. con_pool' \in [MemNodes -> Nat] /\ \A m \in MemNodes : con_pool'[m] <= Len(link')
    <3>1. c \in Nat /\ c <= Len(link)
      <4>1. Len(link) \in Nat
        BY LenProperties DEF MemInv, MemTypes
      <4> QED
        BY <1>1, <4>1 DEF Links
    <3> QED
      BY <1>2, <1>13, <3>1 DEF MemInv, MemTypes
  <2>2. unmet' \in BOOLEAN
    BY <1>2
  <2> QED
    BY <1>1, <1>2, <1>13, <2>1, <2>2 DEF MemInv, MemTypes
<1>18. EndInv'
  <2>1. ASSUME NEW d \in Links, NEW m \in MemNodes
        PROVE  /\ link'[d][m].task \in {"ended", "dropped"} => link'[d][m].chan = <<>>
               /\ link'[d][m].task = "open" => link'[d][m].ready
               /\ /\ link'[d][m].task \in {"none", "first"} /\ ~link'[d][m].ready
                  /\ link'[d][Other(m)].task \in {"first", "open"}
                  => link'[d][m].chan # <<>>
    <3>1. /\ link[d][m].task \in {"ended", "dropped"} => link[d][m].chan = <<>>
          /\ link[d][m].task = "open" => link[d][m].ready
          /\ /\ link[d][m].task \in {"none", "first"} /\ ~link[d][m].ready
             /\ link[d][Other(m)].task \in {"first", "open"}
             => link[d][m].chan # <<>>
      BY DEF MemInv, EndInv
    <3>2. Other(m) \in MemNodes
      BY OtherIs
    <3>3. CASE d # c
      BY <1>15, <3>1, <3>2, <3>3
    <3>4. CASE d = c /\ m = n
      <4>1. Other(m) = o /\ link'[d][o].task = link[d][o].task
        BY <1>1, <1>3, <1>16, <1>o, <3>4
      <4> QED
        BY <1>1, <1>9, <1>15, <3>1, <3>4, <4>1
    <3>5. CASE d = c /\ m = o /\ gone
      BY <1>15, <3>1, <3>5
    <3>6. CASE d = c /\ m = o /\ ~gone
      BY <1>8, <1>10, <1>15, <3>1, <3>6
    <3> QED
      BY <1>3, <3>3, <3>4, <3>5, <3>6
  <2> QED
    BY <1>14, <2>1 DEF EndInv
<1>19. PendInv'
  <2>1. ASSUME NEW d \in Links, NEW m \in MemNodes, link'[d][m].task = "none"
        PROVE  Reg(m, d)' \/ Called(m, d)'
    <3>1. ~(m = n /\ d = c) /\ link[d][m].task = "none" /\ d \in Nat
      BY <1>9, <1>15, <1>16, <2>1 DEF Links
    <3>2. Reg(m, d) \/ Called(m, d)
      BY <3>1 DEF MemInv, PendInv
    <3> QED
      BY <1>1, <3>1, <3>2
  <2> QED
    BY <1>14, <2>1 DEF PendInv
<1>20. RegInv'
  <2>1. ASSUME NEW m \in MemNodes, NEW d \in Nat, Reg(m, d)' \/ Called(m, d)'
        PROVE  d \in Links' /\ link'[d][m].task = "none"
    <3>1. ~(m = n /\ d = c) /\ (Reg(m, d) \/ Called(m, d))
      BY <1>1, <2>1
    <3>2. d \in Links /\ link[d][m].task = "none"
      BY <3>1 DEF MemInv, RegInv
    <3> QED
      BY <1>14, <1>16, <3>1, <3>2
  <2>2. ASSUME NEW m \in MemNodes, NEW d \in Nat PROVE ~(Reg(m, d)' /\ Called(m, d)')
    <3>1. ~(Reg(m, d) /\ Called(m, d))
      BY DEF MemInv, RegInv
    <3>2. Called(m, d)' <=> Called(m, d)
      BY <1>2 DEF Called
    <3> QED
      BY <1>1, <3>1, <3>2
  <2>3. \A m \in MemNodes : Once(Nat, calls'[m])
    BY <1>2 DEF MemInv, RegInv
  <2> QED
    BY <1>1, <2>1, <2>2, <2>3 DEF RegInv
<1>21. SendInv'
  <2>1. ASSUME NEW r \in MemSends, InChan(r) \/ InRecv(r) PROVE (InChan(r) \/ InRecv(r))'
    <3>1. InRecv(r) => InRecv(r)'
      BY <1>1 DEF InRecv
    <3>2. InChan(r) => InChan(r)'
      BY <1>14, <1>16 DEF InChan
    <3> QED
      BY <2>1, <3>1, <3>2
  <2>2. \A r \in MemSends, m \in MemNodes :
           In([k |-> "send", of |-> r], cmds[m]) => In([k |-> "send", of |-> r], cmds'[m])
    BY <1>1
  <2> QED
    BY <1>2, <1>14, <2>1, <2>2 DEF MemInv, SendInv
<1>22. CalmInv'
  <2> SUFFICES ASSUME Fine PROVE CalmInv'
    BY <1>2 DEF CalmInv, Fine
  <2>1. ASSUME NEW d \in Links, NEW m \in MemNodes PROVE CalmEnd(d, m)'
    <3>1. CalmEnd(d, m)
      BY DEF MemInv, CalmInv
    <3>2. CASE d # c
      BY <1>15, <3>1, <3>2 DEF CalmEnd
    <3>3. CASE d = c /\ m = n
      BY <1>1, <1>9, <1>15, <3>1, <3>3 DEF CalmEnd
    <3>4. CASE d = c /\ m = o
      <4>1. ~gone
        BY <3>1, <3>4 DEF CalmEnd
      <4> QED
        BY <1>8, <1>10, <1>15, <3>1, <3>4, <4>1 DEF CalmEnd
    <3> QED
      BY <1>3, <3>2, <3>3, <3>4
  <2> QED
    BY <1>1, <1>2, <1>14, <2>1 DEF MemInv, CalmInv
<1> QED
  BY <1>17, <1>18, <1>19, <1>20, <1>21, <1>22 DEF MemInv

(* A node without an agent drops the connection. *)
LEMMA RefusalKeeps ==
    ASSUME MemInv, NEW n \in MemNodes, RegisterConnection(n), n \notin joined
    PROVE  MemInv'
<1>c. PICK c : c = Head(cmds[n]).on
  OBVIOUS
<1>1. /\ c \in Links /\ link[c][n].task = "none"
      /\ cmds' \in [MemNodes -> Seq(Command)]
      /\ \A m \in MemNodes : Once(Registers, cmds'[m])
      /\ \A m \in MemNodes, d \in Nat :
           (Reg(m, d) \/ Called(m, d)) /\ ~(m = n /\ d = c) <=> (Reg(m, d) \/ Called(m, d))'
      /\ \A m \in MemNodes : \A d : Reg(m, d)' => Reg(m, d)
      /\ \A m \in MemNodes : \A y : In(y, cmds'[m]) => In(y, cmds[m])
      /\ \A m \in MemNodes : \A y : y.k # "register" => (In(y, cmds[m]) => In(y, cmds'[m]))
  BY <1>c, RegisterIs
<1>2. /\ con_pool' = con_pool /\ unmet' = TRUE
      /\ UNCHANGED <<alive, calls, faults>>
  BY DEF RegisterConnection
<1>3. /\ link' = [link EXCEPT ![c][n] = [@ EXCEPT !.task = "dropped", !.chan = <<>>]]
      /\ send' = Failing(Carried(link[c][n].chan))
  BY <1>c DEF RegisterConnection
<1>4. /\ link' \in Seq([MemNodes -> End]) /\ Len(link') = Len(link) /\ Links' = Links
      /\ send' \in [MemSends -> Call]
      /\ EndInv'
      /\ \A d \in Links, m \in MemNodes :
           link'[d][m].task = IF d = c /\ m = n THEN "dropped" ELSE link[d][m].task
      /\ \A r \in MemSends :
           send'[r].at = "err" \/ (send'[r] = send[r] /\ (InChan(r) => InChan(r)'))
  BY <1>1, <1>3, EndGone
<1>5. MemTypes'
  BY <1>1, <1>2, <1>4 DEF MemInv, MemTypes
<1>6. PendInv'
  <2>1. ASSUME NEW d \in Links, NEW m \in MemNodes, link'[d][m].task = "none"
        PROVE  Reg(m, d)' \/ Called(m, d)'
    <3>1. ~(m = n /\ d = c) /\ link[d][m].task = "none" /\ d \in Nat
      BY <1>4, <2>1 DEF Links
    <3>2. Reg(m, d) \/ Called(m, d)
      BY <3>1 DEF MemInv, PendInv
    <3> QED
      BY <1>1, <3>1, <3>2
  <2> QED
    BY <1>4, <2>1 DEF PendInv
<1>7. RegInv'
  <2>1. ASSUME NEW m \in MemNodes, NEW d \in Nat, Reg(m, d)' \/ Called(m, d)'
        PROVE  d \in Links' /\ link'[d][m].task = "none"
    <3>1. ~(m = n /\ d = c) /\ (Reg(m, d) \/ Called(m, d))
      BY <1>1, <2>1
    <3>2. d \in Links /\ link[d][m].task = "none"
      BY <3>1 DEF MemInv, RegInv
    <3> QED
      BY <1>4, <3>1, <3>2
  <2>2. ASSUME NEW m \in MemNodes, NEW d \in Nat PROVE ~(Reg(m, d)' /\ Called(m, d)')
    <3>1. ~(Reg(m, d) /\ Called(m, d))
      BY DEF MemInv, RegInv
    <3>2. Called(m, d)' <=> Called(m, d)
      BY <1>2 DEF Called
    <3> QED
      BY <1>1, <3>1, <3>2
  <2>3. \A m \in MemNodes : Once(Nat, calls'[m])
    BY <1>2 DEF MemInv, RegInv
  <2> QED
    BY <1>1, <2>1, <2>2, <2>3 DEF RegInv
<1>8. SendInv'
  <2>1. \A r \in MemSends, m \in MemNodes :
           In([k |-> "send", of |-> r], cmds[m]) => In([k |-> "send", of |-> r], cmds'[m])
    BY <1>1
  <2>2. \A r \in MemSends : InRecv(r) => InRecv(r)'
    BY <1>1 DEF InRecv
  <2>3. ASSUME NEW r \in MemSends
        PROVE  /\ send'[r].at = "queued" => \E m \in MemNodes : In([k |-> "send", of |-> r], cmds'[m])
               /\ send'[r].at = "sent" => (InChan(r) \/ InRecv(r))'
               /\ send'[r].at = "wait" => send'[r].on \in Links'
    <3>1. CASE send'[r].at = "err"
      BY <3>1
    <3>2. CASE send'[r] = send[r] /\ (InChan(r) => InChan(r)')
      BY <1>4, <2>1, <2>2, <3>2 DEF MemInv, SendInv
    <3> QED
      BY <1>4, <3>1, <3>2
  <2> QED
    BY <2>3 DEF SendInv
<1> QED
  BY <1>2, <1>4, <1>5, <1>6, <1>7, <1>8 DEF MemInv, CalmInv, Fine

(* The handler takes a message or fails on it. *)
LEMMA RecvDataKeeps ==
    ASSUME MemInv, NEW n \in MemNodes, RecvData(n)
    PROVE  MemInv'
<1>h. PICK h : h = Head(cmds[n])
  OBVIOUS
<1>i. PICK item : item = h.item
  OBVIOUS
<1>1. /\ cmds[n] # <<>> /\ h.k = "recv" /\ cmds' = [cmds EXCEPT ![n] = Tail(cmds[n])]
      /\ UNCHANGED <<alive, calls, link, unmet>>
  BY <1>h DEF RecvData, Cmd
<1>2. /\ cmds' \in [MemNodes -> Seq(Command)]
      /\ h \in Command /\ In(h, cmds[n])
      /\ \A m \in MemNodes : \A y : In(y, cmds'[m]) => In(y, cmds[m])
      /\ \A m \in MemNodes : \A y : In(y, cmds[m]) => In(y, cmds'[m]) \/ (m = n /\ y = h)
      /\ \A m \in MemNodes : Once(Registers, cmds'[m])
  BY <1>h, <1>1, CmdTaken DEF MemInv
<1>3. item \in Item /\ h = [k |-> "recv", item |-> item]
  BY <1>1, <1>2, <1>i, CommandFields
<1>4. EndInv' /\ Links' = Links
  BY <1>1, LinksStay
<1>5. con_pool \in [MemNodes -> Nat] /\ \A m \in MemNodes : con_pool[m] <= Len(link)
  BY DEF MemInv, MemTypes
<1>6. Len(link) \in Nat
  BY LenProperties DEF MemInv, MemTypes
<1>7. \/ /\ con_pool' = con_pool /\ faults' = faults
         /\ IF item.k = "data" THEN Moved(item.of, "ok") ELSE UNCHANGED send
      \/ /\ faults' = faults + 1 /\ con_pool' = [con_pool EXCEPT ![n] = 0]
         /\ send' = Failing(Carried(<<item>>))
      \/ /\ item.k = "bye" /\ faults' = faults
         /\ con_pool' = [con_pool EXCEPT ![n] = 0] /\ UNCHANGED send
  BY <1>h, <1>i DEF RecvData, Fault
<1>8. /\ send' \in [MemSends -> Call]
      /\ \A r \in MemSends : \/ send'[r] = send[r] /\ item # Data(r)
                             \/ send'[r].at = "ok"
                             \/ send'[r].at = "err" /\ faults' # faults
  <2>1. CASE con_pool' = con_pool /\ item.k = "data" /\ Moved(item.of, "ok")
    <3>1. item.of \in MemSends /\ item = Data(item.of)
      BY <1>3, <2>1, ItemFields DEF Data
    <3>2. /\ send' \in [MemSends -> Call]
          /\ send'[item.of].at = "ok"
          /\ \A r \in MemSends : r # item.of => send'[r] = send[r]
      BY <2>1, <3>1, MovedIs DEF MemInv
    <3>3. \A r : item = Data(r) => r = item.of
      BY DEF Data
    <3> QED
      BY <3>2, <3>3
  <2>2. CASE item.k # "data" /\ UNCHANGED send
    <3>1. \A r : item # Data(r)
      BY <2>2 DEF Data
    <3> QED
      BY <2>2, <3>1 DEF MemInv, MemTypes
  <2>3. CASE faults' = faults + 1 /\ send' = Failing(Carried(<<item>>))
    <3>s. PICK ss : ss = Carried(<<item>>)
      OBVIOUS
    <3>1. /\ Failing(ss) \in [MemSends -> Call]
          /\ \A r \in MemSends :
               /\ r \in ss => Failing(ss)[r].at = "err"
               /\ r \notin ss => Failing(ss)[r] = send[r]
      BY FailingIs DEF MemInv
    <3>2. send' = Failing(ss)
      BY <2>3, <3>s
    <3>3. <<item>> \in Seq(Item) /\ Len(<<item>>) = 1 /\ <<item>>[1] = item
      BY <1>3
    <3>4. ASSUME NEW r, item = Data(r) PROVE r \in ss
      <4>1. In(Data(r), <<item>>)
        BY <3>3, <3>4 DEF In
      <4> QED
        BY <3>3, <3>s, <4>1, CarriedIs DEF Data
    <3>5. faults' # faults
      BY <2>3 DEF MemInv, MemTypes
    <3>6. send' \in [MemSends -> Call]
      BY <3>1, <3>2
    <3>7. \A r \in MemSends : (r \in ss => send'[r].at = "err") /\ (r \notin ss => send'[r] = send[r])
      BY <3>1, <3>2
    <3> QED
      BY <3>4, <3>5, <3>6, <3>7
  <2> QED
    BY <1>7, <2>1, <2>2, <2>3
<1>9. faults' \in Nat /\ faults' >= faults
  BY <1>7 DEF MemInv, MemTypes
<1>10. MemTypes'
  <2>1. con_pool' \in [MemNodes -> Nat] /\ \A m \in MemNodes : con_pool'[m] <= Len(link)
    BY <1>5, <1>6, <1>7
  <2> QED
    BY <1>1, <1>2, <1>8, <1>9, <2>1 DEF MemInv, MemTypes
<1>11. \A m \in MemNodes : \A c : Reg(m, c)' <=> Reg(m, c)
  <2>1. \A c : [k |-> "register", on |-> c] # h
    BY <1>3
  <2> QED
    BY <1>2, <2>1 DEF Reg
<1>12. PendInv' /\ RegInv'
  BY <1>1, <1>2, <1>4, <1>11 DEF MemInv, PendInv, RegInv, Called
<1>13. SendInv'
  <2>1. ASSUME NEW r \in MemSends
        PROVE  /\ send'[r].at = "queued" => \E m \in MemNodes : In([k |-> "send", of |-> r], cmds'[m])
               /\ send'[r].at = "sent" => (InChan(r) \/ InRecv(r))'
               /\ send'[r].at = "wait" => send'[r].on \in Links'
    <3>1. CASE send'[r].at \in {"ok", "err"}
      BY <3>1
    <3>2. CASE send'[r] = send[r] /\ item # Data(r)
      <4>1. [k |-> "recv", item |-> Data(r)] # h /\ [k |-> "send", of |-> r] # h
        BY <1>3, <3>2
      <4>2. InRecv(r) => InRecv(r)'
        BY <1>2, <4>1 DEF InRecv
      <4>3. InChan(r) => InChan(r)'
        BY <1>1, <1>4 DEF InChan
      <4>4. \A m \in MemNodes :
               In([k |-> "send", of |-> r], cmds[m]) => In([k |-> "send", of |-> r], cmds'[m])
        BY <1>2, <4>1
      <4> QED
        BY <1>4, <3>2, <4>2, <4>3, <4>4 DEF MemInv, SendInv
    <3> QED
      BY <1>8, <3>1, <3>2
  <2> QED
    BY <2>1 DEF SendInv
<1>14. CalmInv'
  <2> SUFFICES ASSUME Fine' PROVE CalmInv'
    BY DEF CalmInv
  <2>1. Fine /\ faults' = faults
    BY <1>1, <1>9 DEF Fine, MemInv, MemTypes
  <2>2. \A c, m : CalmEnd(c, m)' <=> CalmEnd(c, m)
    BY <1>1 DEF CalmEnd
  <2>3. \A r \in MemSends : send'[r].at # "err"
    BY <1>8, <2>1 DEF MemInv, CalmInv
  <2> QED
    BY <1>1, <1>2, <1>4, <2>1, <2>2, <2>3 DEF MemInv, CalmInv
<1> QED
  BY <1>4, <1>10, <1>12, <1>13, <1>14 DEF MemInv

(* A disconnect clears the pool and says goodbye. *)
LEMMA DisconnectCmdKeeps ==
    ASSUME MemInv, NEW n \in MemNodes, DisconnectCmd(n)
    PROVE  MemInv'
<1>h. PICK h : h = Head(cmds[n])
  OBVIOUS
<1>1. /\ cmds[n] # <<>> /\ h.k = "disconnect" /\ cmds' = [cmds EXCEPT ![n] = Tail(cmds[n])]
      /\ con_pool' = [con_pool EXCEPT ![n] = 0]
      /\ UNCHANGED <<alive, calls, send, faults, unmet>>
  BY <1>h DEF DisconnectCmd, Cmd
<1>2. /\ cmds' \in [MemNodes -> Seq(Command)]
      /\ h \in Command /\ In(h, cmds[n])
      /\ \A m \in MemNodes : \A y : In(y, cmds'[m]) => In(y, cmds[m])
      /\ \A m \in MemNodes : \A y : In(y, cmds[m]) => In(y, cmds'[m]) \/ (m = n /\ y = h)
      /\ \A m \in MemNodes : Once(Registers, cmds'[m])
  BY <1>h, <1>1, CmdTaken DEF MemInv
<1>3. ~Fine
  BY <1>1, <1>2 DEF MemInv, CalmInv
<1>4. Len(link) \in Nat /\ con_pool \in [MemNodes -> Nat] /\ \A m \in MemNodes : con_pool[m] <= Len(link)
  BY LenProperties DEF MemInv, MemTypes
<1>5. /\ link' \in Seq([MemNodes -> End]) /\ Len(link') = Len(link) /\ Links' = Links
      /\ EndInv'
      /\ \A d \in Links, m \in MemNodes :
           /\ link'[d][m].task = link[d][m].task
           /\ \A y : In(y, link[d][m].chan) => In(y, link'[d][m].chan)
  <2>1. CASE UNCHANGED link
    <3>1. EndInv' /\ Links' = Links
      BY <2>1, LinksStay
    <3> QED
      BY <2>1, <3>1 DEF MemInv, MemTypes
  <2>2. CASE /\ con_pool[n] # 0 /\ link[con_pool[n]][Other(n)].task \notin {"ended", "dropped"}
             /\ link' = [link EXCEPT ![con_pool[n]][Other(n)].chan = Append(@, [k |-> "bye"])]
    <3>c. PICK c : c = con_pool[n]
      OBVIOUS
    <3>o. PICK o : o = Other(n)
      OBVIOUS
    <3>x. PICK x : x = [k |-> "bye"]
      OBVIOUS
    <3>1. c \in Links /\ o \in MemNodes /\ x \in Item
      BY <1>4, <2>2, <3>c, <3>o, <3>x, OtherIs, CommandIs DEF Links
    <3>2. link[c][o].task \notin {"ended", "dropped"}
      BY <2>2, <3>c, <3>o
    <3>3. link' = [link EXCEPT ![c][o].chan = Append(@, x)]
      BY <2>2, <3>c, <3>o, <3>x, Zenon
    <3>4. /\ link' \in Seq([MemNodes -> End]) /\ Len(link') = Len(link) /\ Links' = Links
          /\ EndInv'
          /\ \A d \in Links, m \in MemNodes :
                /\ link'[d][m].task = link[d][m].task /\ link'[d][m].ready = link[d][m].ready
                /\ \A y : In(y, link[d][m].chan) => In(y, link'[d][m].chan)
                /\ x.k = "preflight" \/ link[c][o].task = "open" \/ link[c][o].chan # <<>>
                   => (CalmEnd(d, m) => CalmEnd(d, m)')
          /\ In(x, link'[c][o].chan)
      BY <3>1, <3>2, <3>3, PushKeeps
    <3> QED
      BY <3>4
  <2> QED
    BY <2>1, <2>2 DEF DisconnectCmd
<1>6. MemTypes'
  <2>1. con_pool' \in [MemNodes -> Nat] /\ \A m \in MemNodes : con_pool'[m] <= Len(link')
    BY <1>1, <1>4, <1>5
  <2> QED
    BY <1>1, <1>2, <1>5, <2>1 DEF MemInv, MemTypes
<1>7. \A m \in MemNodes : \A c : Reg(m, c)' <=> Reg(m, c)
  <2>1. \A c : [k |-> "register", on |-> c] # h
    BY <1>1
  <2> QED
    BY <1>2, <2>1 DEF Reg
<1>8. PendInv' /\ RegInv'
  <2>1. PendInv'
    BY <1>1, <1>5, <1>7 DEF MemInv, PendInv, Called
  <2>2. \A m \in MemNodes, c \in Nat : c \in Links => link'[c][m].task = link[c][m].task
    BY <1>5
  <2>3. RegInv'
    BY <1>1, <1>2, <1>5, <1>7, <2>2 DEF MemInv, RegInv, Called
  <2> QED
    BY <2>1, <2>3
<1>9. SendInv'
  <2>1. ASSUME NEW r \in MemSends, InChan(r) \/ InRecv(r) PROVE (InChan(r) \/ InRecv(r))'
    <3>1. [k |-> "recv", item |-> Data(r)] # h
      BY <1>1
    <3>2. InRecv(r) => InRecv(r)'
      BY <1>2, <3>1 DEF InRecv
    <3>3. InChan(r) => InChan(r)'
      BY <1>5 DEF InChan
    <3> QED
      BY <2>1, <3>2, <3>3
  <2>2. \A r \in MemSends, m \in MemNodes :
           In([k |-> "send", of |-> r], cmds[m]) => In([k |-> "send", of |-> r], cmds'[m])
    <3>1. \A r : [k |-> "send", of |-> r] # h
      BY <1>1
    <3> QED
      BY <1>2, <3>1
  <2> QED
    BY <1>1, <1>5, <2>1, <2>2 DEF MemInv, SendInv
<1>10. ~Fine'
  BY <1>1, <1>3 DEF Fine
<1> QED
  BY <1>5, <1>6, <1>8, <1>9, <1>10 DEF MemInv, CalmInv

(* The receiver task hands a message on. *)
LEMMA ForwardKeeps ==
    ASSUME MemInv, NEW n \in MemNodes, NEW c \in Links, link[c][n].task \in LiveTask,
           Forward(n, c), UNCHANGED <<alive, calls, con_pool, send, faults, unmet>>,
           NEW e \in End, e.task = "open", e.ready, e.chan = Tail(link[c][n].chan),
           link' = [link EXCEPT ![c][n] = e]
    PROVE  MemInv'
<1>i. PICK item : item = Head(link[c][n].chan)
  OBVIOUS
<1>x. PICK x : x = [k |-> "recv", item |-> item]
  OBVIOUS
<1>1. link[c][n] \in End /\ link[c][n].chan \in Seq(Item)
  BY LinkIs DEF MemInv
<1>2. link[c][n].chan # <<>> /\ cmds' = [cmds EXCEPT ![n] = Append(cmds[n], x)]
  BY <1>i, <1>x DEF Forward
<1>3. /\ Tail(link[c][n].chan) \in Seq(Item) /\ item \in Item
      /\ \A y : In(y, link[c][n].chan) => y = item \/ In(y, Tail(link[c][n].chan))
  BY <1>1, <1>2, <1>i, InTail
<1>4. x \in Command /\ x \notin Registers /\ x.k = "recv"
  BY <1>3, <1>x, CommandIs DEF Registers
<1>5. /\ cmds' \in [MemNodes -> Seq(Command)]
      /\ \A m \in MemNodes : \A y : In(y, cmds'[m]) <=> In(y, cmds[m]) \/ (m = n /\ y = x)
      /\ \A m \in MemNodes : Once(Registers, cmds'[m])
  BY <1>2, <1>4, CmdAdded DEF MemInv
<1>6. e \in End /\ e.task = "open" /\ e.ready /\ e.chan = Tail(link[c][n].chan)
  OBVIOUS
<1>7. /\ link' \in Seq([MemNodes -> End]) /\ Len(link') = Len(link)
      /\ \A d \in Links, m \in MemNodes : link'[d][m] = IF d = c /\ m = n THEN e ELSE link[d][m]
  <2>1. MemTypes
    BY DEF MemInv
  <2>2. /\ [link EXCEPT ![c][n] = e] \in Seq([MemNodes -> End])
        /\ Len([link EXCEPT ![c][n] = e]) = Len(link)
        /\ \A d \in Links, m \in MemNodes :
              [link EXCEPT ![c][n] = e][d][m] = IF d = c /\ m = n THEN e ELSE link[d][m]
    BY <1>6, <2>1, EndUpdate
  <2>3. link' = [link EXCEPT ![c][n] = e]
    OBVIOUS
  <2> QED
    BY <2>2, <2>3, Zenon
<1>8. Links' = Links
  BY <1>7 DEF Links
<1>9. link[c][n].task \in {"first", "open"}
  BY DEF LiveTask
<1>10. MemTypes'
  BY <1>5, <1>7 DEF MemInv, MemTypes
<1>11. EndInv'
  <2>1. ASSUME NEW d \in Links, NEW m \in MemNodes
        PROVE  /\ link'[d][m].task \in {"ended", "dropped"} => link'[d][m].chan = <<>>
               /\ link'[d][m].task = "open" => link'[d][m].ready
               /\ /\ link'[d][m].task \in {"none", "first"} /\ ~link'[d][m].ready
                  /\ link'[d][Other(m)].task \in {"first", "open"}
                  => link'[d][m].chan # <<>>
    <3>1. /\ link[d][m].task \in {"ended", "dropped"} => link[d][m].chan = <<>>
          /\ link[d][m].task = "open" => link[d][m].ready
          /\ /\ link[d][m].task \in {"none", "first"} /\ ~link[d][m].ready
             /\ link[d][Other(m)].task \in {"first", "open"}
             => link[d][m].chan # <<>>
      BY DEF MemInv, EndInv
    <3>2. Other(m) \in MemNodes
      BY OtherIs
    <3>3. CASE d = c /\ m = n
      BY <1>6, <1>7, <3>3
    <3>4. CASE ~(d = c /\ m = n)
      <4>1. link'[d][Other(m)].task \in {"first", "open"} => link[d][Other(m)].task \in {"first", "open"}
        BY <1>7, <1>9, <3>2
      <4> QED
        BY <1>7, <3>1, <3>4, <4>1
    <3> QED
      BY <3>3, <3>4
  <2> QED
    BY <1>8, <2>1 DEF EndInv
<1>12. \A m \in MemNodes : \A d : (Reg(m, d)' <=> Reg(m, d)) /\ (Called(m, d)' <=> Called(m, d))
  <2>1. \A d : [k |-> "register", on |-> d] # x
    BY <1>x
  <2> QED
    BY <1>5, <2>1 DEF Reg, Called
<1>13. PendInv'
  <2>1. \A d \in Links, m \in MemNodes : link'[d][m].task = "none" => link[d][m].task = "none"
    BY <1>6, <1>7
  <2> QED
    BY <1>8, <1>12, <2>1 DEF MemInv, PendInv
<1>14. RegInv'
  <2>1. \A d \in Links, m \in MemNodes : link[d][m].task = "none" => link'[d][m].task = "none"
    BY <1>7, <1>9
  <2>2. \A m \in MemNodes, d \in Nat :
           Reg(m, d) \/ Called(m, d) => d \in Links /\ link'[d][m].task = "none"
    BY <2>1 DEF MemInv, RegInv
  <2>3. \A m \in MemNodes, d \in Nat : ~(Reg(m, d) /\ Called(m, d))
    BY DEF MemInv, RegInv
  <2>4. \A m \in MemNodes : Once(Nat, calls'[m])
    BY DEF MemInv, RegInv
  <2> QED
    BY <1>5, <1>8, <1>12, <2>2, <2>3, <2>4 DEF RegInv
<1>15. SendInv'
  <2>1. ASSUME NEW r \in MemSends, InChan(r) \/ InRecv(r) PROVE (InChan(r) \/ InRecv(r))'
    <3>1. CASE InRecv(r)
      <4>1. InRecv(r)'
        BY <1>5, <3>1 DEF InRecv
      <4> QED
        BY <4>1
    <3>2. CASE In(Data(r), link[c][n].chan) /\ Data(r) = item
      <4>1. In([k |-> "recv", item |-> Data(r)], cmds'[n])
        BY <1>5, <1>x, <3>2
      <4>2. InRecv(r)'
        BY <4>1 DEF InRecv, Data
      <4> QED
        BY <4>2
    <3>3. CASE In(Data(r), link[c][n].chan) /\ Data(r) # item
      <4>1. In(Data(r), link'[c][n].chan)
        BY <1>3, <1>6, <1>7, <3>3
      <4>2. InChan(r)'
        BY <1>8, <4>1 DEF InChan, Data
      <4> QED
        BY <4>2
    <3>4. CASE InChan(r) /\ ~In(Data(r), link[c][n].chan)
      <4>1. PICK d \in Links, m \in MemNodes : In(Data(r), link[d][m].chan)
        BY <3>4 DEF InChan
      <4>2. link'[d][m] = link[d][m]
        BY <1>7, <3>4, <4>1
      <4>3. In(Data(r), link'[d][m].chan)
        BY <4>1, <4>2
      <4>4. InChan(r)'
        BY <1>8, <4>3 DEF InChan, Data
      <4> QED
        BY <4>4
    <3> QED
      BY <2>1, <3>1, <3>2, <3>3, <3>4
  <2>2. \A r \in MemSends, m \in MemNodes :
           In([k |-> "send", of |-> r], cmds[m]) => In([k |-> "send", of |-> r], cmds'[m])
    BY <1>5
  <2> QED
    BY <1>8, <2>1, <2>2 DEF MemInv, SendInv
<1>16. CalmInv'
  <2> SUFFICES ASSUME Fine PROVE CalmInv'
    BY DEF CalmInv, Fine
  <2>1. ASSUME NEW d \in Links, NEW m \in MemNodes PROVE CalmEnd(d, m)'
    <3>1. CalmEnd(d, m)
      BY DEF MemInv, CalmInv
    <3>2. CASE d = c /\ m = n
      BY <1>6, <1>7, <3>2 DEF CalmEnd
    <3>3. CASE ~(d = c /\ m = n)
      BY <1>7, <3>1, <3>3 DEF CalmEnd
    <3> QED
      BY <3>2, <3>3
  <2>2. \A m \in MemNodes : \A y : In(y, cmds'[m]) => y.k # "disconnect"
    BY <1>4, <1>5 DEF MemInv, CalmInv
  <2> QED
    BY <1>8, <2>1, <2>2 DEF MemInv, CalmInv
<1> QED
  BY <1>10, <1>11, <1>13, <1>14, <1>15, <1>16 DEF MemInv

(* A receiver task ends. *)
LEMMA EndTaskKeeps ==
    ASSUME MemInv, NEW n \in MemNodes, NEW c \in Links, link[c][n].task \in LiveTask,
           EndTask(n, c), UNCHANGED <<alive, cmds, calls, con_pool, faults, unmet>>, ~Fine
    PROVE  MemInv'
<1>1. /\ link' = [link EXCEPT ![c][n] = [@ EXCEPT !.task = "ended", !.chan = <<>>]]
      /\ send' = Failing(Carried(link[c][n].chan))
  BY DEF EndTask
<1>2. /\ link' \in Seq([MemNodes -> End]) /\ Len(link') = Len(link) /\ Links' = Links
      /\ send' \in [MemSends -> Call]
      /\ EndInv'
      /\ \A d \in Links, m \in MemNodes :
           link'[d][m].task = IF d = c /\ m = n THEN "ended" ELSE link[d][m].task
      /\ \A r \in MemSends :
           send'[r].at = "err" \/ (send'[r] = send[r] /\ (InChan(r) => InChan(r)'))
  BY <1>1, EndGone
<1>3. link[c][n].task # "none"
  BY DEF LiveTask
<1>4. MemTypes'
  BY <1>2 DEF MemInv, MemTypes
<1>5. \A d \in Links, m \in MemNodes : link'[d][m].task = "none" <=> link[d][m].task = "none"
  BY <1>2, <1>3
<1>6. PendInv' /\ RegInv'
  BY <1>2, <1>5 DEF MemInv, PendInv, RegInv, Reg, Called
<1>7. SendInv'
  <2>1. \A r \in MemSends : InRecv(r) => InRecv(r)'
    BY DEF InRecv
  <2>2. ASSUME NEW r \in MemSends
        PROVE  /\ send'[r].at = "queued" => \E m \in MemNodes : In([k |-> "send", of |-> r], cmds'[m])
               /\ send'[r].at = "sent" => (InChan(r) \/ InRecv(r))'
               /\ send'[r].at = "wait" => send'[r].on \in Links'
    <3>1. CASE send'[r].at = "err"
      BY <3>1
    <3>2. CASE send'[r] = send[r] /\ (InChan(r) => InChan(r)')
      BY <1>2, <2>1, <3>2 DEF MemInv, SendInv
    <3> QED
      BY <1>2, <3>1, <3>2
  <2> QED
    BY <2>2 DEF SendInv
<1>8. ~Fine'
  BY DEF Fine
<1> QED
  BY <1>2, <1>4, <1>6, <1>7, <1>8 DEF MemInv, CalmInv

LEMMA TakeFirstKeeps ==
    ASSUME MemInv, NEW n \in MemNodes, NEW c \in Links, TakeFirst(n, c)
    PROVE  MemInv'
<1>1. /\ link[c][n].task = "first" /\ link[c][n].chan # <<>>
      /\ UNCHANGED <<alive, calls, con_pool, faults, unmet>>
  BY DEF TakeFirst
<1>2. CASE Head(link[c][n].chan).k = "preflight"
  <2>e. PICK e : e = [task |-> "open", ready |-> TRUE, chan |-> Tail(link[c][n].chan)]
    OBVIOUS
  <2>1. /\ Forward(n, c) /\ UNCHANGED send
        /\ link' = [link EXCEPT ![c][n] = e]
    BY <1>2, <2>e, Zenon DEF TakeFirst
  <2>2. Tail(link[c][n].chan) \in Seq(Item)
    BY <1>1, LinkIs, InTail DEF MemInv
  <2>3. e \in End /\ e.task = "open" /\ e.ready /\ e.chan = Tail(link[c][n].chan)
    BY <2>2, <2>e DEF End
  <2> QED
    BY <1>1, <2>1, <2>3, ForwardKeeps DEF LiveTask
<1>3. CASE Head(link[c][n].chan).k # "preflight"
  <2>1. EndTask(n, c) /\ UNCHANGED cmds
    BY <1>3 DEF TakeFirst
  <2>2. ~Fine
    BY <1>1, <1>3 DEF MemInv, CalmInv, CalmEnd
  <2> QED
    BY <1>1, <2>1, <2>2, EndTaskKeeps DEF LiveTask
<1> QED
  BY <1>2, <1>3

LEMMA TakeNextKeeps ==
    ASSUME MemInv, NEW n \in MemNodes, NEW c \in Links, TakeNext(n, c)
    PROVE  MemInv'
<1>1. /\ link[c][n].task = "open" /\ Forward(n, c)
      /\ UNCHANGED <<alive, calls, con_pool, send, faults, unmet>>
  BY DEF TakeNext
<1>2. link' = [link EXCEPT ![c][n].chan = Tail(link[c][n].chan)]
  BY DEF TakeNext
<1>3. link[c][n] \in End /\ link[c][n].chan \in Seq(Item) /\ link[c][n].chan # <<>>
  BY <1>1, LinkIs DEF MemInv, Forward
<1>4. link[c][n].ready = TRUE
  BY <1>1, <1>3 DEF MemInv, EndInv, End
<1>q. PICK q : q = Tail(link[c][n].chan)
  OBVIOUS
<1>5. q \in Seq(Item)
  BY <1>3, <1>q, InTail
<1>6. [link EXCEPT ![c][n].chan = q] = [link EXCEPT ![c][n] = [link[c][n] EXCEPT !.chan = q]]
  BY <1>5, ChanUpdate DEF MemInv
<1>e. PICK e : e = [link[c][n] EXCEPT !.chan = q]
  OBVIOUS
<1>7. e \in End /\ e.task = "open" /\ e.ready /\ e.chan = q
  BY <1>1, <1>3, <1>4, <1>5, <1>e, ChanUpdate DEF MemInv
<1>8. link' = [link EXCEPT ![c][n] = e]
  BY <1>2, <1>6, <1>e, <1>q, Zenon
<1> QED
  BY <1>1, <1>7, <1>8, <1>q, ForwardKeeps DEF LiveTask

LEMMA TaskEndsKeeps ==
    ASSUME MemInv, NEW n \in MemNodes, NEW c \in Links, TaskEnds(n, c)
    PROVE  MemInv'
<1>1. /\ link[c][n].task \in LiveTask /\ EndTask(n, c)
      /\ link[c][Other(n)].task \in {"ended", "dropped"}
      /\ UNCHANGED <<alive, cmds, calls, con_pool, faults, unmet>>
  BY DEF TaskEnds, Unheld
<1>2. ~Fine
  BY <1>1, OtherIs DEF MemInv, CalmInv, CalmEnd
<1> QED
  BY <1>1, <1>2, EndTaskKeeps

(* A transport is dropped with all its ends and commands. *)
LEMMA DropTransportKeeps ==
    ASSUME MemInv, NEW n \in MemNodes, DropTransport(n)
    PROVE  MemInv'
<1> DEFINE left(d) == [link[d] EXCEPT ![n] = [@ EXCEPT !.task = "ended", !.chan = <<>>]]
<1>s. PICK ss : ss = Aborted(n) \cup UNION {Carried(link[c][n].chan) : c \in 1 .. Len(link)}
  OBVIOUS
<1>1. /\ alive' = alive \ {n} /\ faults' = faults + 1
      /\ cmds' = [cmds EXCEPT ![n] = <<>>]
      /\ calls' = [calls EXCEPT ![n] = <<>>]
      /\ con_pool' = [con_pool EXCEPT ![n] = 0]
      /\ send' = Failing(ss) /\ UNCHANGED unmet
  BY <1>s DEF DropTransport, Fault
<1>2. link' = [d \in 1 .. Len(link) |-> left(d)]
  BY DEF DropTransport
<1>3. ASSUME NEW d \in 1 .. Len(link)
      PROVE  /\ left(d) \in [MemNodes -> End]
             /\ left(d)[n].task = "ended" /\ left(d)[n].chan = <<>>
             /\ \A m \in MemNodes : m # n => left(d)[m] = link[d][m]
  <2>1. link[d] \in [MemNodes -> End] /\ link[d][n] \in End
    <3>1. link \in Seq([MemNodes -> End])
      BY DEF MemInv, MemTypes
    <3> QED
      BY <3>1, ElementOfSeq
  <2>e. PICK e : e = [link[d][n] EXCEPT !.task = "ended", !.chan = <<>>]
    OBVIOUS
  <2>2. e \in End /\ e.task = "ended" /\ e.chan = <<>>
    BY <2>1, <2>e, EndLeft
  <2>3. left(d) = [link[d] EXCEPT ![n] = e]
    BY <2>e
  <2> QED
    BY <2>1, <2>2, <2>3
<1> HIDE DEF left
<1>4. Len(link) \in Nat
  BY LenProperties DEF MemInv, MemTypes
<1>5. /\ link' \in Seq([MemNodes -> End]) /\ Len(link') = Len(link) /\ Links' = Links
      /\ \A d \in Links : link'[d] = left(d)
  BY <1>2, <1>3, <1>4 DEF Links
<1>6. \A d \in Links, m \in MemNodes :
         /\ m = n => link'[d][m].task = "ended" /\ link'[d][m].chan = <<>>
         /\ m # n => link'[d][m] = link[d][m]
  BY <1>3, <1>5 DEF Links
<1>7. /\ send' \in [MemSends -> Call]
      /\ \A r \in MemSends : (r \in ss => send'[r].at = "err") /\ (r \notin ss => send'[r] = send[r])
  <2>1. /\ Failing(ss) \in [MemSends -> Call]
        /\ \A r \in MemSends :
             /\ r \in ss => Failing(ss)[r].at = "err"
             /\ r \notin ss => Failing(ss)[r] = send[r]
    BY FailingIs DEF MemInv
  <2> QED
    BY <1>1, <2>1
<1>8. /\ cmds \in [MemNodes -> Seq(Command)] /\ calls \in [MemNodes -> Seq(Nat)]
      /\ cmds[n] \in Seq(Command)
  BY DEF MemInv, MemTypes
<1>9. /\ cmds' \in [MemNodes -> Seq(Command)] /\ calls' \in [MemNodes -> Seq(Nat)]
      /\ cmds'[n] = <<>> /\ calls'[n] = <<>>
      /\ \A m \in MemNodes : m # n => cmds'[m] = cmds[m] /\ calls'[m] = calls[m]
  BY <1>1, <1>8
<1>10. MemTypes'
  <2>1. con_pool' \in [MemNodes -> Nat] /\ \A m \in MemNodes : con_pool'[m] <= Len(link')
    BY <1>1, <1>4, <1>5 DEF MemInv, MemTypes
  <2>2. faults' \in Nat /\ alive' \subseteq MemNodes
    BY <1>1 DEF MemInv, MemTypes
  <2> QED
    BY <1>1, <1>5, <1>7, <1>9, <2>1, <2>2 DEF MemInv, MemTypes
<1>11. EndInv'
  <2>1. ASSUME NEW d \in Links, NEW m \in MemNodes
        PROVE  /\ link'[d][m].task \in {"ended", "dropped"} => link'[d][m].chan = <<>>
               /\ link'[d][m].task = "open" => link'[d][m].ready
               /\ /\ link'[d][m].task \in {"none", "first"} /\ ~link'[d][m].ready
                  /\ link'[d][Other(m)].task \in {"first", "open"}
                  => link'[d][m].chan # <<>>
    <3>1. Other(m) \in MemNodes /\ Other(m) # m /\ (m = n \/ n = Other(m))
      BY OtherIs
    <3>2. CASE m = n
      BY <1>6, <3>2
    <3>3. CASE m # n
      <4>1. link'[d][m] = link[d][m] /\ link'[d][Other(m)].task = "ended"
        BY <1>6, <3>1, <3>3
      <4> QED
        BY <4>1 DEF MemInv, EndInv
    <3> QED
      BY <3>2, <3>3
  <2> QED
    BY <1>5, <2>1 DEF EndInv
<1>12. \A m \in MemNodes : \A d :
          IF m = n THEN ~Reg(m, d)' /\ ~Called(m, d)'
          ELSE (Reg(m, d)' <=> Reg(m, d)) /\ (Called(m, d)' <=> Called(m, d))
  <2>1. ASSUME NEW m \in MemNodes, NEW d, m = n PROVE ~Reg(m, d)' /\ ~Called(m, d)'
    BY <1>9, <2>1, NothingIn DEF Reg, Called
  <2>2. ASSUME NEW m \in MemNodes, NEW d, m # n
        PROVE  (Reg(m, d)' <=> Reg(m, d)) /\ (Called(m, d)' <=> Called(m, d))
    BY <1>9, <2>2 DEF Reg, Called
  <2> QED
    BY <2>1, <2>2
<1>13. PendInv'
  <2>1. ASSUME NEW d \in Links, NEW m \in MemNodes, link'[d][m].task = "none"
        PROVE  Reg(m, d)' \/ Called(m, d)'
    <3>1. m # n /\ link[d][m].task = "none"
      BY <1>6, <2>1
    <3>2. Reg(m, d) \/ Called(m, d)
      BY <3>1 DEF MemInv, PendInv
    <3> QED
      BY <1>12, <3>1, <3>2
  <2> QED
    BY <1>5, <2>1 DEF PendInv
<1>14. RegInv'
  <2>1. ASSUME NEW m \in MemNodes, NEW d \in Nat, Reg(m, d)' \/ Called(m, d)'
        PROVE  d \in Links' /\ link'[d][m].task = "none" /\ ~(Reg(m, d)' /\ Called(m, d)')
    <3>1. m # n /\ (Reg(m, d)' <=> Reg(m, d)) /\ (Called(m, d)' <=> Called(m, d))
      BY <1>12, <2>1
    <3>2. d \in Links /\ link[d][m].task = "none" /\ ~(Reg(m, d) /\ Called(m, d))
      BY <2>1, <3>1 DEF MemInv, RegInv
    <3> QED
      BY <1>5, <1>6, <3>1, <3>2
  <2>2. Once(Registers, <<>>) /\ Once(Nat, <<>>)
    BY DEF Once
  <2>3. \A m \in MemNodes : Once(Registers, cmds'[m]) /\ Once(Nat, calls'[m])
    BY <1>9, <2>2 DEF MemInv, RegInv
  <2> QED
    BY <2>1, <2>3 DEF RegInv
<1>15. ASSUME NEW r \in MemSends, r \notin ss
       PROVE  /\ ~In([k |-> "send", of |-> r], cmds[n])
              /\ ~In([k |-> "recv", item |-> Data(r)], cmds[n])
              /\ \A d \in Links : ~In(Data(r), link[d][n].chan)
  <2>1. r \notin Aborted(n)
    BY <1>15, <1>s
  <2>2. ASSUME NEW i \in 1 .. Len(cmds[n]), cmds[n][i] = [k |-> "send", of |-> r] PROVE FALSE
    <3>1. cmds[n][i].k = "send" /\ cmds[n][i].of = r
      BY <2>2
    <3> QED
      BY <2>1, <3>1 DEF Aborted
  <2>3. ASSUME NEW i \in 1 .. Len(cmds[n]), cmds[n][i] = [k |-> "recv", item |-> Data(r)] PROVE FALSE
    <3>1. cmds[n][i].k = "recv" /\ cmds[n][i].item = Data(r)
      BY <2>3
    <3>2. r \in Carried(<<Data(r)>>)
      <4>1. <<Data(r)>> \in Seq(Item)
        BY CommandIs DEF Data
      <4>2. In(Data(r), <<Data(r)>>)
        BY DEF In
      <4> QED
        BY <4>1, <4>2, CarriedIs DEF Data
    <3>3. Carried(<<cmds[n][i].item>>) = Carried(<<Data(r)>>)
      BY <3>1
    <3>4. Carried(<<cmds[n][i].item>>) \subseteq Aborted(n)
      BY <3>1 DEF Aborted
    <3> QED
      BY <2>1, <3>2, <3>3, <3>4
  <2>4. ASSUME NEW d \in Links PROVE ~In(Data(r), link[d][n].chan)
    <3>1. link[d][n].chan \in Seq(Item)
      BY LinkIs DEF MemInv
    <3>2. Carried(link[d][n].chan) \subseteq ss
      BY <1>s DEF Links
    <3> QED
      BY <1>15, <3>1, <3>2, CarriedIs DEF Data
  <2> QED
    BY <2>2, <2>3, <2>4 DEF In
<1>16. SendInv'
  <2>1. ASSUME NEW r \in MemSends
        PROVE  /\ send'[r].at = "queued" => \E m \in MemNodes : In([k |-> "send", of |-> r], cmds'[m])
               /\ send'[r].at = "sent" => (InChan(r) \/ InRecv(r))'
               /\ send'[r].at = "wait" => send'[r].on \in Links'
    <3>1. CASE r \in ss
      BY <1>7, <3>1
    <3>2. CASE r \notin ss
      <4>1. send'[r] = send[r]
        BY <1>7, <3>2
      <4>2. /\ send[r].at = "queued" => \E m \in MemNodes : In([k |-> "send", of |-> r], cmds[m])
            /\ send[r].at = "sent" => InChan(r) \/ InRecv(r)
            /\ send[r].at = "wait" => send[r].on \in Links
        BY DEF MemInv, SendInv
      <4>3. \A m \in MemNodes :
               In([k |-> "send", of |-> r], cmds[m]) => In([k |-> "send", of |-> r], cmds'[m])
        BY <1>9, <1>15, <3>2
      <4>4. InRecv(r) => InRecv(r)'
        BY <1>9, <1>15, <3>2 DEF InRecv
      <4>5. InChan(r) => InChan(r)'
        <5>1. ASSUME NEW d \in Links, NEW m \in MemNodes, In(Data(r), link[d][m].chan)
              PROVE  In(Data(r), link'[d][m].chan)
          BY <1>6, <1>15, <3>2, <5>1
        <5> QED
          BY <1>5, <5>1 DEF InChan, Data
      <4> QED
        BY <1>5, <4>1, <4>2, <4>3, <4>4, <4>5
    <3> QED
      BY <3>1, <3>2
  <2> QED
    BY <2>1 DEF SendInv
<1>17. ~Fine'
  BY <1>1 DEF Fine, MemInv, MemTypes
<1> QED
  BY <1>10, <1>11, <1>13, <1>14, <1>16, <1>17 DEF MemInv, CalmInv

LEMMA MemStarts == MemInit => MemInv
<1> SUFFICES ASSUME MemInit PROVE MemInv
  OBVIOUS
<1>1. Len(<<>>) = 0 /\ link = <<>> /\ Links = {}
  BY DEF MemInit, Links
<1>2. \A n \in MemNodes : cmds[n] = <<>> /\ calls[n] = <<>>
  BY DEF MemInit
<1>3. \A s \in MemSends : send[s].at = "new" /\ send[s] \in Call
  <2>1. (CHOOSE n \in MemNodes : TRUE) \in MemNodes
    BY MemAssumption
  <2> QED
    BY <2>1 DEF MemInit, Call
<1>4. MemTypes
  <2>1. cmds \in [MemNodes -> Seq(Command)] /\ calls \in [MemNodes -> Seq(Nat)]
    BY EmptySeq DEF MemInit
  <2>2. link \in Seq([MemNodes -> End])
    BY <1>1, EmptySeq
  <2>3. con_pool \in [MemNodes -> Nat] /\ \A n \in MemNodes : con_pool[n] <= Len(link)
    BY <1>1 DEF MemInit
  <2>4. send \in [MemSends -> Call]
    BY <1>3 DEF MemInit
  <2> QED
    BY <2>1, <2>2, <2>3, <2>4 DEF MemInit, MemTypes
<1>5. EndInv /\ PendInv
  BY <1>1 DEF EndInv, PendInv
<1>6. RegInv
  <2>1. Once(Registers, <<>>) /\ Once(Nat, <<>>)
    BY DEF Once
  <2> QED
    BY <1>2, <2>1, NothingIn DEF RegInv, Reg, Called
<1>7. SendInv
  BY <1>3 DEF SendInv
<1>8. CalmInv
  BY <1>1, <1>2, <1>3, NothingIn DEF CalmInv, MemInit
<1> QED
  BY <1>4, <1>5, <1>6, <1>7, <1>8 DEF MemInv

LEMMA MemSteps == MemInv /\ [MemNext]_memVars => MemInv'
<1> SUFFICES ASSUME MemInv, [MemNext]_memVars PROVE MemInv'
  OBVIOUS
<1>1. ASSUME NEW n \in MemNodes, NEW s \in MemSends, SendCall(s, n) PROVE MemInv'
  BY <1>1, SendCallKeeps
<1>2. ASSUME NEW n \in MemNodes, NEW goodbye \in BOOLEAN, DisconnectCall(n, goodbye) PROVE MemInv'
  BY <1>2, DisconnectCallKeeps
<1>3. ASSUME NEW n \in MemNodes, Listen(n) PROVE MemInv'
  BY <1>3, ListenKeeps
<1>4. ASSUME NEW n \in MemNodes, SendCmd(n) PROVE MemInv'
  <2>1. CASE con_pool[n] = 0 /\ connect(n, Tail(cmds[n]))
             /\ send' = [send EXCEPT ![Head(cmds[n]).of].at = "wait",
                                     ![Head(cmds[n]).of].on = Len(link) + 1]
    BY <1>4, <2>1, ConnectKeeps
  <2>2. CASE cmds' = [cmds EXCEPT ![n] = Tail(cmds[n])] /\ UNCHANGED <<calls, link>>
    BY <1>4, <2>2, SendCmdKeeps
  <2> QED
    BY <1>4, <2>1, <2>2, Zenon DEF SendCmd
<1>5. ASSUME NEW n \in MemNodes, RegisterConnection(n) PROVE MemInv'
  BY <1>5, IntroductionKeeps, RefusalKeeps
<1>6. ASSUME NEW n \in MemNodes, RecvData(n) \/ DisconnectCmd(n) PROVE MemInv'
  BY <1>6, RecvDataKeeps, DisconnectCmdKeeps
<1>7. ASSUME NEW n \in MemNodes, NEW c \in 1 .. Len(link),
             TakeFirst(n, c) \/ TakeNext(n, c) \/ TaskEnds(n, c)
      PROVE  MemInv'
  BY <1>7, TakeFirstKeeps, TakeNextKeeps, TaskEndsKeeps DEF Links
<1>8. ASSUME NEW n \in MemNodes, DropTransport(n) PROVE MemInv'
  BY <1>8, DropTransportKeeps
<1>9. ASSUME NEW s \in MemSends, SendData(s) \/ NotReady(s) PROVE MemInv'
  BY <1>9, SendDataKeeps, NotReadyKeeps
<1>10. CASE (\E n \in MemNodes : Join(n)) \/ UNCHANGED memVars
  BY <1>10, JoinKeeps
<1> QED
  BY <1>1, <1>2, <1>3, <1>4, <1>5, <1>6, <1>7, <1>8, <1>9, <1>10, Zenon DEF MemNext

LEMMA MemInvariant == MemSpec => []MemInv
  BY MemStarts, MemSteps, PTL DEF MemSpec

(* The first property: while nobody goes away, no handler fails and every  *)
(* node that is introduced to has an agent, TxImp::send never fails, also  *)
(* when both ends connect at once and replace each other's connections.    *)
THEOREM SendsGoThrough == MemSpec => []SendsSucceed
<1>1. MemInv => SendsSucceed
  <2>1. MemInv /\ faults \in Nat /\ ~(faults > 0 \/ unmet) => Fine
    BY DEF Fine
  <2> QED
    BY <2>1 DEF MemInv, MemTypes, CalmInv, SendsSucceed
<1> QED
  BY <1>1, MemInvariant, PTL

(* And the second: when the queues are empty no call of send is left       *)
(* behind; what still waits is ready, or an end of its connection is gone. *)
THEOREM SendsComeBack == MemSpec => []SendsAreAnswered
<1>1. MemInv => SendsAreAnswered
  <2> SUFFICES ASSUME MemInv,
                      \A n \in MemNodes : cmds[n] = <<>> /\ calls[n] = <<>>,
                      \A c \in 1 .. Len(link), n \in MemNodes :
                          link[c][n].task \in LiveTask => link[c][n].chan = <<>>,
                      NEW s \in MemSends
               PROVE  /\ send[s].at \notin {"queued", "sent"}
                      /\ send[s].at = "wait" =>
                           \/ link[send[s].on][send[s].from].ready
                           \/ link[send[s].on][send[s].from].task \in {"ended", "dropped"}
                           \/ link[send[s].on][Other(send[s].from)].task \in {"ended", "dropped"}
    BY Zenon DEF SendsAreAnswered
  <2>1. \A c \in Links, n \in MemNodes : link[c][n].task # "none"
    BY NothingIn DEF MemInv, PendInv, Reg, Called
  <2>2. \A c \in Links, n \in MemNodes :
           /\ link[c][n] \in End
           /\ link[c][n].chan = <<>>
    <3>1. \A c \in Links, n \in MemNodes : link[c][n] \in End
      BY LinkIs DEF MemInv
    <3>2. \A c \in Links, n \in MemNodes :
             link[c][n].task \in {"ended", "dropped"} \/ link[c][n].task \in LiveTask
      BY <2>1, <3>1 DEF End, LiveTask
    <3> QED
      BY <3>1, <3>2 DEF MemInv, EndInv, Links
  <2>3. send[s].at # "queued"
    BY NothingIn DEF MemInv, SendInv
  <2>4. ~InRecv(s) /\ ~InChan(s)
    BY <2>2, NothingIn DEF InRecv, InChan
  <2>5. send[s].at # "sent"
    BY <2>4 DEF MemInv, SendInv
  <2>6. ASSUME send[s].at = "wait"
        PROVE  \/ link[send[s].on][send[s].from].ready
               \/ link[send[s].on][send[s].from].task \in {"ended", "dropped"}
               \/ link[send[s].on][Other(send[s].from)].task \in {"ended", "dropped"}
    <3>n. PICK n : n = send[s].from
      OBVIOUS
    <3>c. PICK c : c = send[s].on
      OBVIOUS
    <3>1. n \in MemNodes /\ c \in Links /\ Other(n) \in MemNodes
      BY <2>6, <3>n, <3>c, OtherIs DEF MemInv, MemTypes, Call, SendInv
    <3>2. link[c][n].task \in {"first", "open", "ended", "dropped"}
          /\ link[c][Other(n)].task \in {"first", "open", "ended", "dropped"}
      BY <2>1, <2>2, <3>1 DEF End
    <3>3. /\ link[c][n].task = "open" => link[c][n].ready
          /\ /\ link[c][n].task \in {"none", "first"} /\ ~link[c][n].ready
             /\ link[c][Other(n)].task \in {"first", "open"}
             => link[c][n].chan # <<>>
      BY <3>1 DEF MemInv, EndInv
    <3>4. \/ link[c][n].ready
          \/ link[c][n].task \in {"ended", "dropped"}
          \/ link[c][Other(n)].task \in {"ended", "dropped"}
      BY <2>2, <3>1, <3>2, <3>3
    <3> QED
      BY <3>4, <3>n, <3>c
  <2> QED
    BY <2>3, <2>5, <2>6
<1> QED
  BY <1>1, MemInvariant, PTL

----------------------------------------------------------------------------
(* The infos of a bootstrap space: what taking some places of a list keeps. *)

Ascending(K) == {f \in [1 .. Cardinality(K) -> K] :
                    \A i, j \in 1 .. Cardinality(K) : i < j => f[i] < f[j]}

LEMMA PlacesFinite == ASSUME NEW n \in Nat, NEW K \in SUBSET (1 .. n)
                      PROVE  IsFiniteSet(K) /\ Cardinality(K) \in Nat
<1>1. IsFiniteSet(1 .. n)
    BY FS_Interval
<1>2. IsFiniteSet(K)
    BY <1>1, FS_Subset
<1>3. QED
    BY <1>2, FS_CardinalityType

LEMMA LeastNat == ASSUME NEW S \in SUBSET Nat, S # {}
                  PROVE  \E n \in S : \A m \in S : n <= m
<1>1. PICK a \in S : TRUE
    OBVIOUS
<1> DEFINE R == StrictSubsetOrdering(0 .. a)
           T == {I \in SUBSET (0 .. a) : \E k \in S : k <= a /\ I = 0 .. k}
<1>2. IsWellFoundedOn(R, SUBSET (0 .. a))
    <2>1. IsFiniteSet(0 .. a) /\ a \in Nat
        BY FS_Interval
    <2>2. IsWellFoundedOn(R, FiniteSubsetsOf(0 .. a))
        BY FS_StrictSubsetOrderingWellFounded
    <2>3. FiniteSubsetsOf(0 .. a) = SUBSET (0 .. a)
        BY <2>1, FS_FiniteSubsetsOfFinite
    <2>4. QED
        BY <2>2, <2>3
<1>3. T \subseteq SUBSET (0 .. a) /\ T # {}
    BY <1>1
<1>4. PICK I \in T : \A J \in T : ~ (<<J, I>> \in R)
    <2> HIDE DEF R, T
    <2>1. QED
        BY <1>2, <1>3, WFMin
<1>5. PICK n \in S : n <= a /\ I = 0 .. n
    BY <1>4
<1>6. ASSUME NEW m \in S, m < n PROVE FALSE
    <2>1. (0 .. m) \in T
        BY <1>1, <1>5, <1>6
    <2>2. (0 .. m) \subseteq I /\ (0 .. m) # I
        <3>1. n \in I /\ n \notin 0 .. m
            BY <1>1, <1>5, <1>6
        <3>2. (0 .. m) \subseteq I
            BY <1>1, <1>5, <1>6
        <3>3. QED
            BY <3>1, <3>2
    <2>3. <<0 .. m, I>> \in R
        BY <2>1, <2>2, <1>3, <1>4 DEF StrictSubsetOrdering
    <2>4. QED
        BY <2>1, <2>3, <1>4
<1>7. QED
    BY <1>5, <1>6

(* Any places have an ascending order. *)
LEMMA PlacesInOrder == ASSUME NEW n \in Nat, NEW K \in SUBSET (1 .. n)
                       PROVE  Ascending(K) # {}
<1> DEFINE Bad == {m \in Nat : \E J \in SUBSET (1 .. m) : Ascending(J) = {}}
<1>1. SUFFICES ASSUME Bad # {} PROVE FALSE
    OBVIOUS
<1>2. PICK m \in Bad : \A k \in Bad : m <= k
    BY <1>1, LeastNat
<1>3. PICK J \in SUBSET (1 .. m) : Ascending(J) = {}
    BY <1>2
<1>4. m \in Nat /\ IsFiniteSet(J)
    <2>1. m \in Nat
        BY <1>2
    <2>2. QED
        BY <2>1, <1>3, PlacesFinite
<1>5. ASSUME m = 0 PROVE FALSE
    <2>1. J = {} /\ Cardinality(J) = 0
        <3>1. J = {}
            BY <1>3, <1>5
        <3>2. QED
            BY <3>1, FS_EmptySet
    <2> DEFINE f == [i \in 1 .. 0 |-> 0]
    <2>a. 1 .. 0 = {}
        OBVIOUS
    <2>b. f \in [1 .. Cardinality(J) -> J]
        BY <2>1, <2>a
    <2>2. f \in Ascending(J)
        <3> HIDE DEF f
        <3>1. QED
            BY <2>1, <2>a, <2>b DEF Ascending
    <2>3. QED
        BY <2>2, <1>3
<1>6. ASSUME m # 0 PROVE FALSE
    <2> DEFINE I == J \ {m}
    <2>1. I \in SUBSET (1 .. m - 1) /\ m - 1 \in Nat /\ m - 1 \notin Bad
        BY <1>2, <1>4, <1>6
    <2>2. PICK f : f \in Ascending(I)
        BY <2>1
    <2>3. m \in J
        BY <2>2, <1>3
    <2>4. IsFiniteSet(I) /\ Cardinality(I) = Cardinality(J) - 1 /\ Cardinality(J) \in Nat
        BY <1>4, <2>3, FS_RemoveElement, FS_CardinalityType
    <2> DEFINE c == Cardinality(J)
               g == [i \in 1 .. c |-> IF i = c THEN m ELSE f[i]]
    <2>5. f \in [1 .. c - 1 -> I] /\ \A i, j \in 1 .. c - 1 : i < j => f[i] < f[j]
        BY <2>2, <2>4 DEF Ascending
    <2>6. g \in [1 .. c -> J]
        BY <2>3, <2>4, <2>5
    <2>7. ASSUME NEW i \in 1 .. c, NEW j \in 1 .. c, i < j PROVE g[i] < g[j]
        <3>1. i \in 1 .. c - 1 /\ f[i] \in 1 .. m - 1
            <4>1. i \in 1 .. c - 1
                BY <2>4, <2>7
            <4>2. f[i] \in I
                BY <4>1, <2>5
            <4>3. QED
                BY <4>1, <4>2, <2>1
        <3>2. CASE j = c
            BY <3>1, <3>2, <2>4, <1>4
        <3>3. CASE j # c
            BY <3>1, <3>3, <2>4, <2>5, <2>7
        <3>4. QED
            BY <3>2, <3>3
    <2>8. g \in Ascending(J)
        BY <2>6, <2>7 DEF Ascending
    <2>9. QED
        BY <2>8, <1>3
<1>7. QED
    BY <1>5, <1>6

(* The order that Kept takes the places in. *)
Order(K) == CHOOSE f \in [1 .. Cardinality(K) -> K] :
               \A i, j \in 1 .. Cardinality(K) : i < j => f[i] < f[j]

LEMMA OrderIs ==
    ASSUME NEW n \in Nat, NEW K \in SUBSET (1 .. n)
    PROVE  /\ Cardinality(K) \in Nat
           /\ Order(K) \in [1 .. Cardinality(K) -> K]
           /\ \A i, j \in 1 .. Cardinality(K) : i < j => Order(K)[i] < Order(K)[j]
           /\ \A k \in K : \E i \in 1 .. Cardinality(K) : Order(K)[i] = k
           /\ \A i \in 1 .. Cardinality(K) : i <= Order(K)[i]
<1> DEFINE c == Cardinality(K)
           f == Order(K)
<1>1. IsFiniteSet(K) /\ c \in Nat
    BY PlacesFinite
<1>2. f \in [1 .. c -> K] /\ \A i, j \in 1 .. c : i < j => f[i] < f[j]
    <2>1. \E x \in [1 .. c -> K] : \A i, j \in 1 .. c : i < j => x[i] < x[j]
        BY PlacesInOrder DEF Ascending
    <2>2. QED
        BY <2>1 DEF Order
<1> HIDE DEF f
<1>a. \A i \in 1 .. c : f[i] \in 1 .. n
    BY <1>2
<1>3. f \in Injection(1 .. c, K)
    <2>1. \A i, j \in 1 .. c : i # j => f[i] # f[j]
        <3>1. ASSUME NEW i \in 1 .. c, NEW j \in 1 .. c, i # j PROVE f[i] # f[j]
            <4>1. i < j \/ j < i
                BY <1>1, <3>1
            <4>2. f[i] < f[j] \/ f[j] < f[i]
                BY <1>2, <4>1
            <4>3. f[i] \in Nat /\ f[j] \in Nat
                BY <1>a
            <4>4. QED
                BY <4>2, <4>3
        <3>2. QED
            BY <3>1
    <2>2. QED
        BY <2>1, <1>2 DEF Injection, IsInjective
<1>4. IsFiniteSet(1 .. c) /\ Cardinality(1 .. c) = c
    BY <1>1, FS_Interval
<1>5. f \in Surjection(1 .. c, K)
    BY <1>1, <1>3, <1>4, FS_Injection
<1>6. \A k \in K : \E i \in 1 .. c : f[i] = k
    BY <1>5 DEF Surjection
<1>7. \A i \in 1 .. c : i <= f[i]
    <2> DEFINE Bad == {i \in 1 .. c : f[i] < i}
    <2>1. SUFFICES ASSUME Bad # {} PROVE FALSE
        BY <1>1, <1>a
    <2>2. PICK i \in Bad : \A j \in Bad : i <= j
        <3>1. Bad \in SUBSET Nat
            BY <1>1
        <3>2. QED
            BY <2>1, <3>1, LeastNat
    <2>3. i \in 1 .. c /\ f[i] < i /\ f[i] \in 1 .. n
        BY <2>2, <1>2
    <2>4. i - 1 \in 1 .. c /\ i - 1 < i
        BY <2>3, <1>1
    <2>5. f[i - 1] < f[i] /\ f[i - 1] \in 1 .. n
        BY <2>3, <2>4, <1>2
    <2>6. i - 1 \in Bad
        BY <2>3, <2>4, <2>5
    <2>7. QED
        BY <2>2, <2>4, <2>6, <1>1
<1>8. QED
    BY <1>1, <1>2, <1>6, <1>7 DEF f

(* What is kept, and where. *)
LEMMA KeptIs ==
    ASSUME NEW S, NEW l \in Seq(S), NEW K \in SUBSET DOMAIN l
    PROVE  /\ Kept(l, K) \in Seq(S)
           /\ \A k \in K : \E i \in DOMAIN Kept(l, K) : i <= k /\ Kept(l, K)[i] = l[k]
           /\ \A i \in DOMAIN Kept(l, K) : \E k \in K : Kept(l, K)[i] = l[k]
           /\ \A i, j \in DOMAIN Kept(l, K) :
                 i # j => \E h, k \in K : h # k /\ Kept(l, K)[i] = l[h] /\ Kept(l, K)[j] = l[k]
<1> DEFINE c == Cardinality(K)
           f == Order(K)
<1>1. Len(l) \in Nat /\ DOMAIN l = 1 .. Len(l)
    OBVIOUS
<1>2. /\ c \in Nat
      /\ f \in [1 .. c -> K]
      /\ \A i, j \in 1 .. c : i < j => f[i] < f[j]
      /\ \A k \in K : \E i \in 1 .. c : f[i] = k
      /\ \A i \in 1 .. c : i <= f[i]
    BY <1>1, OrderIs
<1>3. Kept(l, K) = [i \in 1 .. c |-> l[f[i]]]
    BY DEF Kept, Order
<1> HIDE DEF f, c
<1>4. DOMAIN Kept(l, K) = 1 .. c /\ \A i \in 1 .. c : Kept(l, K)[i] = l[f[i]] /\ f[i] \in K
    BY <1>2, <1>3
<1>5. Kept(l, K) \in Seq(S)
    <2>1. \A i \in 1 .. c : l[f[i]] \in S
        BY <1>1, <1>2
    <2>2. QED
        BY <1>2, <1>3, <2>1
<1>6. ASSUME NEW i \in 1 .. c, NEW j \in 1 .. c, i # j PROVE f[i] # f[j]
    <2>1. i < j \/ j < i
        BY <1>2, <1>6
    <2>2. f[i] < f[j] \/ f[j] < f[i]
        BY <1>2, <2>1
    <2>3. f[i] \in Nat /\ f[j] \in Nat
        BY <1>1, <1>2
    <2>4. QED
        BY <2>2, <2>3
<1>7. \A k \in K : \E i \in DOMAIN Kept(l, K) : i <= k /\ Kept(l, K)[i] = l[k]
    <2>1. ASSUME NEW k \in K
          PROVE  \E i \in DOMAIN Kept(l, K) : i <= k /\ Kept(l, K)[i] = l[k]
        <3>1. PICK i \in 1 .. c : f[i] = k
            BY <1>2
        <3>2. i <= k /\ Kept(l, K)[i] = l[k] /\ i \in DOMAIN Kept(l, K)
            BY <1>2, <1>4, <3>1
        <3>3. QED
            BY <3>2
    <2>2. QED
        BY <2>1
<1>8. \A i \in DOMAIN Kept(l, K) : \E k \in K : Kept(l, K)[i] = l[k]
    BY <1>4
<1>9. ASSUME NEW i \in DOMAIN Kept(l, K), NEW j \in DOMAIN Kept(l, K), i # j
      PROVE  \E h, k \in K : h # k /\ Kept(l, K)[i] = l[h] /\ Kept(l, K)[j] = l[k]
    BY <1>4, <1>6, <1>9
<1>10. QED
    BY <1>5, <1>7, <1>8, <1>9

(* Space::update relies on its list naming no agent twice. *)
Distinct(l) == \A i, j \in DOMAIN l : l[i].agent = l[j].agent => i = j
NoTombstones(l) == \A i \in DOMAIN l : ~l[i].is_tombstone

LEMMA KeptStaysDistinct ==
    ASSUME NEW l \in Seq(Entry), NEW K \in SUBSET DOMAIN l, Distinct(l)
    PROVE  Distinct(Kept(l, K))
<1> SUFFICES ASSUME NEW i \in DOMAIN Kept(l, K), NEW j \in DOMAIN Kept(l, K),
                    Kept(l, K)[i].agent = Kept(l, K)[j].agent, i # j
             PROVE  FALSE
    BY DEF Distinct
<1>1. PICK h \in K, k \in K : h # k /\ Kept(l, K)[i] = l[h] /\ Kept(l, K)[j] = l[k]
    BY KeptIs
<1>2. QED
    BY <1>1 DEF Distinct

LEMMA ReplacedIs ==
    ASSUME NEW l \in Seq(Entry), NEW e \in Entry
    PROVE  /\ Replaced(l, e) \in Seq(Entry) /\ DOMAIN Replaced(l, e) = DOMAIN l
           /\ \A i \in DOMAIN l :
                 Replaced(l, e)[i] = IF l[i].agent = e.agent /\ e.created_at > l[i].created_at
                                     THEN e ELSE l[i]
<1>1. Len(l) \in Nat /\ DOMAIN l = 1 .. Len(l) /\ \A i \in 1 .. Len(l) : l[i] \in Entry
    OBVIOUS
<1>2. Replaced(l, e) \in [1 .. Len(l) -> Entry]
    BY <1>1 DEF Replaced
<1>3. QED
    BY <1>1, <1>2 DEF Replaced

(* The info at place i is there after an update with e: expired ones and   *)
(* tombstones go.                                                          *)
Stays(l, e, i) == Unexpired(Replaced(l, e)[i]) /\ ~Replaced(l, e)[i].is_tombstone

(* What the first part of Space::update leaves. *)
Remaining(l, e) ==
    Kept(Replaced(l, e), {i \in DOMAIN l : Stays(l, e, i)})

LEMMA RemainingIs ==
    ASSUME NEW l \in Seq(Entry), NEW e \in Entry, Distinct(l)
    PROVE  /\ Remaining(l, e) \in Seq(Entry)
           /\ Distinct(Remaining(l, e)) /\ NoTombstones(Remaining(l, e))
           /\ \A i \in DOMAIN l :
                 Stays(l, e, i)
                 => \E j \in DOMAIN Remaining(l, e) :
                       j <= i /\ Remaining(l, e)[j] = Replaced(l, e)[i]
           /\ \A j \in DOMAIN Remaining(l, e) :
                 \E i \in DOMAIN l : Remaining(l, e)[j] = Replaced(l, e)[i]
<1> DEFINE new == Replaced(l, e)
           K == {i \in DOMAIN l : Stays(l, e, i)}
<1>1. /\ new \in Seq(Entry) /\ DOMAIN new = DOMAIN l
      /\ \A i \in DOMAIN l : new[i].agent = l[i].agent
    BY ReplacedIs
<1>2. Distinct(new)
    BY <1>1 DEF Distinct
<1>3. K \in SUBSET DOMAIN new
    BY <1>1
<1>4. Remaining(l, e) = Kept(new, K)
    BY DEF Remaining
<1> HIDE DEF new
<1>5. /\ Kept(new, K) \in Seq(Entry)
      /\ \A k \in K : \E i \in DOMAIN Kept(new, K) : i <= k /\ Kept(new, K)[i] = new[k]
      /\ \A i \in DOMAIN Kept(new, K) : \E k \in K : Kept(new, K)[i] = new[k]
    BY <1>1, <1>3, KeptIs
<1>6. Distinct(Kept(new, K))
    BY <1>1, <1>2, <1>3, KeptStaysDistinct
<1>7. NoTombstones(Kept(new, K))
    BY <1>5 DEF NoTombstones, Stays, new
<1>8. QED
    BY <1>4, <1>5, <1>6, <1>7 DEF new

(* Making room spares the first half. *)
LEMMA MakeRoomIs ==
    ASSUME NEW l \in Seq(Entry), Distinct(l), NoTombstones(l)
    PROVE  /\ MakeRoom(l) \in Seq(Entry)
           /\ Distinct(MakeRoom(l)) /\ NoTombstones(MakeRoom(l))
           /\ \A i \in DOMAIN l : i <= MaxEntries \div 2
                 => \E j \in DOMAIN MakeRoom(l) : MakeRoom(l)[j] = l[i]
           /\ \A j \in DOMAIN MakeRoom(l) : \E i \in DOMAIN l : MakeRoom(l)[j] = l[i]
<1> DEFINE K == DOMAIN l \ {MaxEntries \div 2 + 1}
<1>1. CASE MakeRoom(l) = l
    BY <1>1
<1>2. CASE MakeRoom(l) = Kept(l, K)
    <2>1. /\ Kept(l, K) \in Seq(Entry)
          /\ \A k \in K : \E i \in DOMAIN Kept(l, K) : i <= k /\ Kept(l, K)[i] = l[k]
          /\ \A i \in DOMAIN Kept(l, K) : \E k \in K : Kept(l, K)[i] = l[k]
        <3>1. K \in SUBSET DOMAIN l
            OBVIOUS
        <3> HIDE DEF K
        <3>2. QED
            BY <3>1, KeptIs
    <2>2. Distinct(Kept(l, K))
        BY KeptStaysDistinct
    <2>3. NoTombstones(Kept(l, K))
        BY <2>1 DEF NoTombstones
    <2>4. ASSUME NEW i \in DOMAIN l, i <= MaxEntries \div 2
          PROVE  \E j \in DOMAIN Kept(l, K) : Kept(l, K)[j] = l[i]
        <3>1. MaxEntries \div 2 \in Int
            BY StoreAssumption
        <3>2. i \in K
            BY <2>4, <3>1
        <3>3. QED
            BY <3>2, <2>1
    <2>5. QED
        BY <1>2, <2>1, <2>2, <2>3, <2>4
<1>3. QED
    BY <1>1, <1>2 DEF MakeRoom

(* Space::update with an info. *)
LEMMA UpdatedListIs ==
    ASSUME NEW l \in Seq(Entry), NEW e \in Entry, Distinct(l), NoTombstones(l)
    PROVE  /\ UpdatedList(l, e) \in Seq(Entry)
           /\ Distinct(UpdatedList(l, e)) /\ NoTombstones(UpdatedList(l, e))
           /\ \A j \in DOMAIN UpdatedList(l, e) :
                 UpdatedList(l, e)[j] = e \/ \E i \in DOMAIN l : UpdatedList(l, e)[j] = l[i]
           /\ Place(l, e.agent) # {} => \A i \in DOMAIN l :
                 Stays(l, e, i)
                 => \E j \in DOMAIN UpdatedList(l, e) : UpdatedList(l, e)[j] = Replaced(l, e)[i]
           /\ Place(l, e.agent) = {} /\ ~e.is_tombstone
                 => \E j \in DOMAIN UpdatedList(l, e) : UpdatedList(l, e)[j] = e
           /\ \A i \in DOMAIN l :
                 i <= MaxEntries \div 2 /\ l[i].agent # e.agent /\ Unexpired(l[i])
                 => \E j \in DOMAIN UpdatedList(l, e) : UpdatedList(l, e)[j] = l[i]
<1> DEFINE kept == Remaining(l, e)
<1>1. /\ kept \in Seq(Entry) /\ Distinct(kept) /\ NoTombstones(kept)
      /\ \A i \in DOMAIN l :
            Stays(l, e, i)
            => \E j \in DOMAIN kept : j <= i /\ kept[j] = Replaced(l, e)[i]
      /\ \A j \in DOMAIN kept : \E i \in DOMAIN l : kept[j] = Replaced(l, e)[i]
    BY RemainingIs
<1>2. \A i \in DOMAIN l :
         Replaced(l, e)[i] = IF l[i].agent = e.agent /\ e.created_at > l[i].created_at
                             THEN e ELSE l[i]
    BY ReplacedIs
<1>3. UpdatedList(l, e) = IF Place(l, e.agent) # {} \/ e.is_tombstone THEN kept
                          ELSE Append(MakeRoom(kept), e)
    BY DEF UpdatedList, Remaining, Stays
<1> HIDE DEF kept
<1>4. \A j \in DOMAIN kept : kept[j] = e \/ \E i \in DOMAIN l : kept[j] = l[i]
    BY <1>1, <1>2
<1>5. \A i \in DOMAIN l : l[i].agent # e.agent /\ Unexpired(l[i])
         => \E j \in DOMAIN kept : j <= i /\ kept[j] = l[i]
    BY <1>1, <1>2 DEF NoTombstones, Stays
<1>6. CASE Place(l, e.agent) # {} \/ e.is_tombstone
    <2>1. UpdatedList(l, e) = kept
        BY <1>3, <1>6
    <2>2. QED
        BY <2>1, <1>1, <1>4, <1>5, <1>6
<1>7. CASE Place(l, e.agent) = {} /\ ~e.is_tombstone
    <2> DEFINE room == MakeRoom(kept)
    <2>1. /\ room \in Seq(Entry) /\ Distinct(room) /\ NoTombstones(room)
          /\ \A i \in DOMAIN kept : i <= MaxEntries \div 2
                => \E j \in DOMAIN room : room[j] = kept[i]
          /\ \A j \in DOMAIN room : \E i \in DOMAIN kept : room[j] = kept[i]
        BY <1>1, MakeRoomIs
    <2>2. UpdatedList(l, e) = Append(room, e)
        BY <1>3, <1>7
    <2> HIDE DEF room
    <2>3. /\ Append(room, e) \in Seq(Entry)
          /\ Len(room) \in Nat /\ DOMAIN room = 1 .. Len(room)
          /\ DOMAIN Append(room, e) = 1 .. Len(room) + 1
          /\ \A j \in 1 .. Len(room) : Append(room, e)[j] = room[j]
          /\ Append(room, e)[Len(room) + 1] = e
        BY <2>1
    <2>4. \A i \in DOMAIN l : l[i].agent # e.agent
        BY <1>7 DEF Place
    <2>5. \A j \in DOMAIN room : room[j].agent # e.agent /\ \E i \in DOMAIN l : room[j] = l[i]
        <3>1. \A j \in DOMAIN kept : \E i \in DOMAIN l : kept[j] = l[i]
            BY <1>1, <1>2, <2>4
        <3>2. QED
            BY <3>1, <2>1, <2>4
    <2>6. Distinct(Append(room, e))
        <3> SUFFICES ASSUME NEW i \in 1 .. Len(room) + 1, NEW j \in 1 .. Len(room) + 1,
                            Append(room, e)[i].agent = Append(room, e)[j].agent
                     PROVE  i = j
            BY <2>3 DEF Distinct
        <3>1. CASE i \in DOMAIN room /\ j \in DOMAIN room
            BY <3>1, <2>1, <2>3 DEF Distinct
        <3>2. CASE i \notin DOMAIN room /\ j \in DOMAIN room
            <4>1. i = Len(room) + 1
                BY <3>2, <2>3
            <4>2. QED
                BY <4>1, <3>2, <2>3, <2>5
        <3>3. CASE i \in DOMAIN room /\ j \notin DOMAIN room
            <4>1. j = Len(room) + 1
                BY <3>3, <2>3
            <4>2. QED
                BY <4>1, <3>3, <2>3, <2>5
        <3>4. CASE i \notin DOMAIN room /\ j \notin DOMAIN room
            BY <3>4, <2>3
        <3>5. QED
            BY <3>1, <3>2, <3>3, <3>4
    <2>7. NoTombstones(Append(room, e))
        <3> SUFFICES ASSUME NEW i \in 1 .. Len(room) + 1 PROVE ~Append(room, e)[i].is_tombstone
            BY <2>3 DEF NoTombstones
        <3>1. CASE i \in DOMAIN room
            BY <3>1, <2>1, <2>3 DEF NoTombstones
        <3>2. CASE i = Len(room) + 1
            BY <3>2, <2>3, <1>7
        <3>3. QED
            BY <3>1, <3>2, <2>3
    <2>8. \A j \in DOMAIN Append(room, e) :
             Append(room, e)[j] = e \/ \E i \in DOMAIN l : Append(room, e)[j] = l[i]
        <3> SUFFICES ASSUME NEW j \in 1 .. Len(room) + 1
                     PROVE  Append(room, e)[j] = e \/ \E i \in DOMAIN l : Append(room, e)[j] = l[i]
            BY <2>3
        <3>1. CASE j \in DOMAIN room
            BY <3>1, <2>3, <2>5
        <3>2. CASE j = Len(room) + 1
            BY <3>2, <2>3
        <3>3. QED
            BY <3>1, <3>2, <2>3
    <2>9. Len(room) + 1 \in DOMAIN Append(room, e)
        BY <2>3
    <2>10. ASSUME NEW i \in DOMAIN l, i <= MaxEntries \div 2, Unexpired(l[i])
           PROVE  \E j \in DOMAIN Append(room, e) : Append(room, e)[j] = l[i]
        <3>1. PICK k \in DOMAIN kept : k <= i /\ kept[k] = l[i]
            BY <1>5, <2>4, <2>10
        <3>2. k <= MaxEntries \div 2
            <4>1. MaxEntries \div 2 \in Int
                BY StoreAssumption
            <4>2. k \in Int /\ i \in Int
                BY <1>1
            <4>3. QED
                BY <4>1, <4>2, <3>1, <2>10
        <3>3. PICK j \in DOMAIN room : room[j] = kept[k]
            BY <3>2, <2>1
        <3>4. j \in DOMAIN Append(room, e) /\ Append(room, e)[j] = l[i]
            BY <3>1, <3>3, <2>3
        <3>5. QED
            BY <3>4
    <2>11. QED
        BY <1>7, <2>2, <2>3, <2>6, <2>7, <2>8, <2>9, <2>10
<1>8. QED
    BY <1>6, <1>7

(* Infos are as they were checked, a worker in update has a space, and what *)
(* is to be served is one info per agent that has not left.                *)
Doing == {Free} \union [pc : {"lookup", "update", "orphan"}, entry : Entry]

StoreInv ==
    /\ clock \in 0 .. LastTime
    /\ doing \in [Workers -> Doing]
    /\ list \in Seq(Entry) /\ due \in SUBSET Entry
    /\ ~exists => list = <<>>
    /\ \A w \in Workers : doing[w].pc = "update" => exists
    /\ Distinct(list) /\ NoTombstones(list)
    /\ \A x \in due : ~x.is_tombstone
    /\ \A x, y \in due : x.agent = y.agent => x = y
    /\ \A x \in due : Unexpired(x) => x \in Range(list)

LEMMA StoreStart == StoreInit => StoreInv
<1> SUFFICES ASSUME StoreInit PROVE StoreInv
    OBVIOUS
<1>1. list = <<>> /\ due = {} /\ clock = 0 /\ doing = [w \in Workers |-> Free] /\ ~exists
    BY DEF StoreInit
<1>2. Free.pc = "idle"
    BY DEF Free
<1>3. list \in Seq(Entry) /\ Distinct(list) /\ NoTombstones(list)
    BY <1>1 DEF Distinct, NoTombstones
<1>4. QED
    BY <1>1, <1>2, <1>3, StoreAssumption DEF StoreInv, Doing

(* The prune thread takes only what is expired. *)
LEMMA PruneKeeps ==
    ASSUME StoreInv, PruneSpace
    PROVE  /\ list' \in Seq(Entry) /\ Distinct(list') /\ NoTombstones(list')
           /\ list = <<>> => list' = <<>>
           /\ \A i \in DOMAIN list : Unexpired(list[i])
                 => \E j \in DOMAIN list' : list'[j] = list[i]
<1> DEFINE K == {i \in DOMAIN list : Unexpired(list[i])}
<1>1. list \in Seq(Entry) /\ Distinct(list) /\ NoTombstones(list) /\ list' = Kept(list, K)
    BY DEF StoreInv, PruneSpace
<1>2. K \in SUBSET DOMAIN list
    OBVIOUS
<1>3. /\ Kept(list, K) \in Seq(Entry)
      /\ \A k \in K : \E i \in DOMAIN Kept(list, K) : i <= k /\ Kept(list, K)[i] = list[k]
      /\ \A i \in DOMAIN Kept(list, K) : \E k \in K : Kept(list, K)[i] = list[k]
    <2> HIDE DEF K
    <2>1. QED
        BY <1>1, <1>2, KeptIs
<1>4. Distinct(Kept(list, K))
    <2> HIDE DEF K
    <2>1. QED
        BY <1>1, <1>2, KeptStaysDistinct
<1>5. NoTombstones(list')
    BY <1>1, <1>3 DEF NoTombstones
<1>6. ASSUME list = <<>> PROVE list' = <<>>
    <2>1. K = {}
        BY <1>6
    <2>2. DOMAIN list' = {}
        <3> HIDE DEF K
        <3>1. QED
            BY <1>1, <1>3, <2>1
    <2>3. QED
        BY <1>1, <1>3, <2>2
<1>7. QED
    BY <1>1, <1>3, <1>4, <1>5, <1>6

(* An update serves what is due after it. *)
LEMMA UpdateServes ==
    ASSUME StoreInv, NEW e \in Entry,
           NEW x \in ToServe(e, list, UpdatedList(list, e)), Unexpired(x)
    PROVE  x \in Range(UpdatedList(list, e))
<1> DEFINE after == UpdatedList(list, e)
<1>1. list \in Seq(Entry) /\ Distinct(list) /\ NoTombstones(list)
    BY DEF StoreInv
<1>2. /\ \A j \in DOMAIN after : after[j] = e \/ \E i \in DOMAIN list : after[j] = list[i]
      /\ Place(list, e.agent) # {} => \A i \in DOMAIN list :
            Stays(list, e, i)
            => \E j \in DOMAIN after : after[j] = Replaced(list, e)[i]
      /\ Place(list, e.agent) = {} /\ ~e.is_tombstone => \E j \in DOMAIN after : after[j] = e
    <2>1. \A j \in DOMAIN after : after[j] = e \/ \E i \in DOMAIN list : after[j] = list[i]
        BY <1>1, UpdatedListIs
    <2>2. ASSUME Place(list, e.agent) # {}, NEW i \in DOMAIN list, Stays(list, e, i)
          PROVE  \E j \in DOMAIN after : after[j] = Replaced(list, e)[i]
        BY <1>1, <2>2, UpdatedListIs
    <2>3. ASSUME Place(list, e.agent) = {}, ~e.is_tombstone
          PROVE  \E j \in DOMAIN after : after[j] = e
        BY <1>1, <2>3, UpdatedListIs
    <2>4. QED
        BY <2>1, <2>2, <2>3
<1> HIDE DEF after
<1> USE DEF Range
<1>3. \A i \in DOMAIN list :
         Replaced(list, e)[i] = IF list[i].agent = e.agent /\ e.created_at > list[i].created_at
                                THEN e ELSE list[i]
    BY <1>1, ReplacedIs
<1> DEFINE newest == \A y \in due \union Range(list) : y.agent = e.agent => e.created_at > y.created_at
<1>4. \/ x \in due /\ x.agent = e.agent /\ ~newest
      \/ x \in due /\ x.agent # e.agent /\ x.agent \notin Listed(list) \ Listed(after)
      \/ x = e /\ newest /\ ~e.is_tombstone
    BY DEF ToServe, after
<1>5. ASSUME x \in due, x.agent = e.agent, ~newest
      PROVE  x \in Range(after)
    <2>1. PICK i \in DOMAIN list : list[i] = x
        BY <1>5 DEF StoreInv
    <2>2. PICK y \in due \union Range(list) : y.agent = e.agent /\ ~(e.created_at > y.created_at)
        BY <1>5
    <2>3. y = x
        <3>1. CASE y \in due
            BY <3>1, <1>5, <2>2 DEF StoreInv
        <3>2. CASE y \in Range(list)
            BY <3>2, <1>1, <1>5, <2>1, <2>2 DEF Distinct
        <3>3. QED
            BY <3>1, <3>2
    <2>4. Replaced(list, e)[i] = x
        BY <1>3, <2>1, <2>2, <2>3
    <2>5. i \in Place(list, e.agent)
        BY <1>5, <2>1 DEF Place
    <2>6. ~x.is_tombstone
        BY <1>5 DEF StoreInv
    <2>7. QED
        BY <1>2, <2>4, <2>5, <2>6 DEF Stays
<1>6. ASSUME x \in due, x.agent # e.agent, x.agent \notin Listed(list) \ Listed(after)
      PROVE  x \in Range(after)
    <2>1. PICK i \in DOMAIN list : list[i] = x
        BY <1>6 DEF StoreInv
    <2>2. x.agent \in Listed(after)
        BY <1>6, <2>1 DEF Listed
    <2>3. PICK j \in DOMAIN after : after[j].agent = x.agent
        BY <2>2 DEF Listed
    <2>4. PICK k \in DOMAIN list : after[j] = list[k]
        BY <1>2, <1>6, <2>3
    <2>5. k = i
        BY <1>1, <2>1, <2>3, <2>4 DEF Distinct
    <2>6. QED
        BY <2>1, <2>4, <2>5
<1>7. ASSUME x = e, newest, ~e.is_tombstone
      PROVE  x \in Range(after)
    <2>1. CASE Place(list, e.agent) = {}
        BY <1>2, <1>7, <2>1
    <2>2. CASE Place(list, e.agent) # {}
        <3>1. PICK i \in DOMAIN list : list[i].agent = e.agent
            BY <2>2 DEF Place
        <3>2. e.created_at > list[i].created_at
            BY <1>7, <3>1
        <3>3. Replaced(list, e)[i] = e
            BY <1>3, <3>1, <3>2
        <3>4. QED
            BY <1>2, <1>7, <2>2, <3>3 DEF Stays
    <2>3. QED
        BY <2>1, <2>2
<1>8. QED
    BY <1>4, <1>5, <1>6, <1>7 DEF after

(* What is due stays one info per agent. *)
LEMMA DueIsOnePerAgent ==
    ASSUME StoreInv, NEW e \in Entry, NEW after
    PROVE  /\ ToServe(e, list, after) \in SUBSET Entry
           /\ \A x \in ToServe(e, list, after) : ~x.is_tombstone
           /\ \A x, y \in ToServe(e, list, after) : x.agent = y.agent => x = y
<1> DEFINE newest == \A y \in due \union Range(list) : y.agent = e.agent => e.created_at > y.created_at
<1>1. ToServe(e, list, after) \subseteq due \union {e}
    BY DEF ToServe
<1>2. e \in ToServe(e, list, after) /\ e \notin due => newest /\ ~e.is_tombstone
    BY DEF ToServe
<1>3. newest => \A x \in ToServe(e, list, after) : x.agent = e.agent => x = e
    BY DEF ToServe
<1> HIDE DEF newest
<1>4. due \in SUBSET Entry /\ (\A x \in due : ~x.is_tombstone)
         /\ \A x, y \in due : x.agent = y.agent => x = y
    BY DEF StoreInv
<1>5. \A x \in ToServe(e, list, after) : ~x.is_tombstone
    BY <1>1, <1>2, <1>4
<1>6. ASSUME NEW x \in ToServe(e, list, after), NEW y \in ToServe(e, list, after),
             x.agent = y.agent
      PROVE  x = y
    <2>1. CASE x \in due /\ y \in due
        BY <2>1, <1>4, <1>6
    <2>2. CASE x \notin due \/ y \notin due
        BY <2>2, <1>1, <1>2, <1>3, <1>6
    <2>3. QED
        BY <2>1, <2>2
<1>7. QED
    BY <1>1, <1>4, <1>5, <1>6

LEMMA StoreStep == ASSUME StoreInv, [StoreNext]_storeVars PROVE StoreInv'
<1> USE DEF StoreInv
<1>0. clock \in Int
    BY StoreAssumption
<1>1. ASSUME NEW w \in Workers, NEW a \in Authors, NEW shift \in Shifts, NEW life \in Lives,
             NEW t \in BOOLEAN, NEW g \in BOOLEAN, Take(w, a, shift, life, t, g)
      PROVE  StoreInv'
    <2> DEFINE e == [agent |-> a, created_at |-> clock + shift,
                     expires_at |-> clock + shift + life,
                     is_tombstone |-> t, genuine |-> g]
    <2>1. e \in Entry
        BY <1>0, StoreAssumption DEF Entry, Shifts
    <2>2. \/ doing' = [doing EXCEPT ![w] = [pc |-> "lookup", entry |-> e]]
          \/ doing' = [doing EXCEPT ![w] = Free]
        BY <1>1 DEF Take
    <2> HIDE DEF e
    <2>3. UNCHANGED <<clock, exists, list, due>>
        BY <1>1 DEF Take
    <2>4. doing' \in [Workers -> Doing]
        BY <2>1, <2>2 DEF Doing
    <2>5. \A v \in Workers : doing'[v].pc = "update" => doing[v].pc = "update"
        BY <2>2 DEF Free
    <2>6. QED
        BY <2>3, <2>4, <2>5 DEF Unexpired
<1>2. ASSUME NEW w \in Workers, Lookup(w) PROVE StoreInv'
    <2>1. UNCHANGED <<clock, list, due>> /\ exists' = TRUE
        BY <1>2 DEF Lookup
    <2>2. doing' \in [Workers -> Doing]
        BY <1>2 DEF Lookup, Doing, Free
    <2>3. QED
        BY <2>1, <2>2 DEF Unexpired
<1>3. ASSUME NEW w \in Workers, UpdateSpace(w) PROVE StoreInv'
    <2> DEFINE e == doing[w].entry
    <2>1. e \in Entry /\ doing' = [doing EXCEPT ![w] = Free] /\ UNCHANGED <<clock, exists>>
        BY <1>3 DEF UpdateSpace, Doing, Free
    <2>2. doing' \in [Workers -> Doing]
        BY <2>1 DEF Doing
    <2>3. \A v \in Workers : doing'[v].pc = "update" => doing[v].pc = "update"
        BY <2>1 DEF Free
    <2>4. CASE doing[w].pc = "orphan"
        <3>1. UNCHANGED <<list, due>>
            BY <1>3, <2>4 DEF UpdateSpace
        <3>2. QED
            BY <2>1, <2>2, <2>3, <3>1 DEF Unexpired
    <2>5. CASE doing[w].pc = "update"
        <3>1. list' = UpdatedList(list, e) /\ due' = ToServe(e, list, list') /\ exists
            BY <1>3, <2>5 DEF UpdateSpace
        <3> HIDE DEF e
        <3>2. list' \in Seq(Entry) /\ Distinct(list') /\ NoTombstones(list')
            BY <2>1, <3>1, UpdatedListIs
        <3>3. /\ due' \in SUBSET Entry
              /\ \A x \in due' : ~x.is_tombstone
              /\ \A x, y \in due' : x.agent = y.agent => x = y
            BY <2>1, <3>1, DueIsOnePerAgent
        <3>4. \A x \in due' : Unexpired(x) => x \in Range(list')
            BY <2>1, <3>1, UpdateServes
        <3>5. \A x : Unexpired(x)' <=> Unexpired(x)
            BY <2>1 DEF Unexpired
        <3>6. QED
            BY <2>1, <2>2, <2>3, <3>1, <3>2, <3>3, <3>4, <3>5 DEF Distinct, NoTombstones, Unexpired
    <2>6. QED
        BY <1>3, <2>4, <2>5 DEF UpdateSpace
<1>4. ASSUME PruneKeys PROVE StoreInv'
    BY <1>4 DEF PruneKeys, Unexpired
<1>5. ASSUME PruneLookup PROVE StoreInv'
    <2> DEFINE drop == exists /\ list = <<>>
    <2>1. UNCHANGED <<clock, list, due>> /\ exists' = (exists /\ ~drop)
        BY <1>5 DEF PruneLookup
    <2>2. doing' = [w \in Workers |-> IF drop /\ doing[w].pc = "update"
                                      THEN [doing[w] EXCEPT !.pc = "orphan"] ELSE doing[w]]
        BY <1>5 DEF PruneLookup
    <2>3. doing' \in [Workers -> Doing]
        BY <2>2 DEF Doing, Free
    <2>4. \A v \in Workers : doing'[v].pc = "update" => ~drop /\ doing[v].pc = "update"
        BY <2>2 DEF Doing, Free
    <2>5. QED
        BY <2>1, <2>3, <2>4 DEF Unexpired
<1>6. ASSUME PruneSpace PROVE StoreInv'
    <2>1. UNCHANGED <<clock, doing, exists, due>>
        BY <1>6 DEF PruneSpace
    <2>2. /\ list' \in Seq(Entry) /\ Distinct(list') /\ NoTombstones(list')
          /\ list = <<>> => list' = <<>>
          /\ \A i \in DOMAIN list : Unexpired(list[i])
                => \E j \in DOMAIN list' : list'[j] = list[i]
        BY <1>6, PruneKeeps
    <2>3. \A x \in due' : Unexpired(x)' => x \in Range(list')
        BY <2>1, <2>2 DEF Unexpired, Range
    <2>4. QED
        BY <2>1, <2>2, <2>3 DEF Distinct, NoTombstones
<1>7. ASSUME Later PROVE StoreInv'
    <2>1. clock' \in 0 .. LastTime /\ clock' = clock + 1
        BY <1>7, StoreAssumption DEF Later
    <2>2. due' \subseteq due /\ UNCHANGED <<doing, exists, list>>
        BY <1>7 DEF Later
    <2>3. \A x \in due' : Unexpired(x)' => Unexpired(x)
        BY <2>1, <2>2, <1>0 DEF Unexpired, Entry
    <2>4. QED
        BY <2>1, <2>2, <2>3 DEF Distinct, NoTombstones
<1>8. ASSUME UNCHANGED storeVars PROVE StoreInv'
    BY <1>8 DEF storeVars, Unexpired
<1>9. QED
    BY <1>1, <1>2, <1>3, <1>4, <1>5, <1>6, <1>7, <1>8 DEF StoreNext

(* An acknowledged info is served until it expires, is replaced, withdrawn *)
(* or makes room, or its space was dropped between look-up and update      *)
(* (SpaceMap::update, Space::update, prune_worker).                        *)
THEOREM AcknowledgedIsServed == StoreSpec => []AckedIsListed
<1>1. StoreInv => AckedIsListed
    BY DEF StoreInv, AckedIsListed, Served, Range
<1>2. QED
    BY <1>1, StoreStart, StoreStep, PTL DEF StoreSpec

(* The first half of a space is lost only to expiry or to its own authors  *)
(* (the half-way strategy of Space::update).                               *)
THEOREM FirstHalfIsSafe == StoreSpec => LongRunningStay
<1> DEFINE Stay == \A i \in DOMAIN list :
       i <= MaxEntries \div 2 /\ Unexpired(list[i]) /\ list[i].agent \notin Listed(list')
         => \E w \in Workers : doing[w].pc = "update" /\ doing[w].entry.agent = list[i].agent
<1>1. ASSUME StoreInv, [StoreNext]_storeVars PROVE [Stay]_storeVars
    <2> SUFFICES ASSUME NEW i \in DOMAIN list, i <= MaxEntries \div 2, Unexpired(list[i]),
                        list[i].agent \notin Listed(list')
                 PROVE  \E w \in Workers : doing[w].pc = "update" /\ doing[w].entry.agent = list[i].agent
        OBVIOUS
    <2>1. list' # list
        BY DEF Listed
    <2>2. CASE PruneSpace
        BY <2>2, <1>1, PruneKeeps DEF Listed
    <2>3. CASE \E w \in Workers : UpdateSpace(w)
        <3>1. PICK w \in Workers : UpdateSpace(w)
            BY <2>3
        <3> DEFINE e == doing[w].entry
        <3>2. doing[w].pc = "update" /\ list' = UpdatedList(list, e)
            BY <2>1, <3>1 DEF UpdateSpace
        <3>3. e \in Entry /\ list \in Seq(Entry) /\ Distinct(list) /\ NoTombstones(list)
            BY <1>1, <3>2 DEF StoreInv, Doing, Free
        <3> HIDE DEF e
        <3>4. list[i].agent # e.agent => \E j \in DOMAIN list' : list'[j] = list[i]
            BY <3>2, <3>3, UpdatedListIs
        <3>5. list[i].agent = e.agent
            BY <3>4 DEF Listed
        <3>6. QED
            BY <3>2, <3>5 DEF e
    <2>4. QED
        BY <1>1, <2>1, <2>2, <2>3
        DEF StoreNext, storeVars, Take, Lookup, PruneKeys, PruneLookup, Later
<1>2. QED
    BY <1>1, StoreStart, StoreStep, PTL DEF StoreSpec, LongRunningStay
====
