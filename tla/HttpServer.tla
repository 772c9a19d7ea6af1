----------------------------- MODULE HttpServer -----------------------------
(***************************************************************************)
(* The threads of the bootstrap server: how they start, sockets with their *)
(* establish deadline, requests that wait in a bounded channel for worker  *)
(* threads, the dispatch timeout, relay websockets with their byte rate    *)
(* limit, and the shutdown that stops all of it.  What a worker does with  *)
(* a put is the subject of BootstrapStore, tokens are that of RelayAuth.   *)
(***************************************************************************)
EXTENDS Integers, Sequences, FiniteSets

CONSTANTS
    Sockets,   \* accepted TCP connections
    Threads,   \* worker threads, as many as the channel has room for
    Listeners, \* how many addresses the server binds
    MaxAsks,   \* bound: requests per socket
    Burst,     \* burst_bytes of the rate limit
    Rate,      \* bytes the bucket gains per unit of time
    MaxFrame,  \* bound: size of a relay frame
    MaxAge     \* bound: time a relay connection is followed

ASSUME HttpAssumption ==
    /\ IsFiniteSet(Threads)
    /\ {Burst, Rate, MaxFrame} \subseteq Nat \ {0}
    /\ {Listeners, MaxAsks, MaxAge} \subseteq Nat

VARIABLES
    sock,     \* per socket: its stage, the establish deadline, requests made
    chan,     \* the channel of requests, each a socket and its request number
    closed,   \* the channel is closed
    thread,   \* worker threads
    pruning,  \* the prune thread
    cont,     \* the flag the threads look at
    bound,    \* listeners bound so far
    stop,     \* how far the server is in its life
    bucket,   \* per socket, the rate limit of its relay connection
    cut       \* history: sockets the establish deadline closed after an answer

httpVars == <<sock, chan, closed, thread, pruning, cont, bound, stop, bucket, cut>>
pool == <<closed, thread, pruning, cont, bound, stop>>

NoSocket == [stage |-> "none", deadline |-> "off", asks |-> 0]
Full == [fill |-> Burst, got |-> 0, age |-> 0]
Gone == {"none", "closed"}

HttpInit ==
    /\ sock = [s \in Sockets |-> NoSocket]
    /\ chan = <<>> /\ closed = FALSE
    /\ thread = [t \in Threads |-> [pc |-> "unborn", job |-> <<>>]]
    /\ pruning = "unborn"
    /\ cont = TRUE /\ bound = 0 /\ stop = "bind"
    /\ bucket = [s \in Sockets |-> Full]
    /\ cut = {}

To(s, stage) == sock' = [sock EXCEPT ![s].stage = stage]

-----------------------------------------------------------------------------
(* The start: tokio_thread binds and serves before BootstrapSrv::new has   *)
(* spawned the threads that will take the requests.                        *)

Starting == <<sock, chan, cont, bucket, cut>>

Bind ==
    /\ stop = "bind" /\ bound < Listeners
    /\ bound' = bound + 1
    /\ UNCHANGED <<closed, thread, pruning, stop, Starting>>

(* An address is taken, or the address discovery server cannot start. *)
StartFails ==
    /\ stop = "bind" /\ stop' = "failed"
    /\ closed' = TRUE
    /\ UNCHANGED <<thread, pruning, bound, Starting>>

SendReady ==
    /\ stop = "bind" /\ bound = Listeners /\ stop' = "run"
    /\ UNCHANGED <<closed, thread, pruning, bound, Starting>>

SpawnWorker(t) ==
    /\ stop = "run" /\ thread[t].pc = "unborn"
    /\ thread' = [thread EXCEPT ![t].pc = "check"]
    /\ UNCHANGED <<closed, pruning, bound, stop, Starting>>

SpawnPruner ==
    /\ stop = "run" /\ pruning = "unborn" /\ \A t \in Threads : thread[t].pc # "unborn"
    /\ pruning' = "check"
    /\ UNCHANGED <<closed, thread, bound, stop, Starting>>

-----------------------------------------------------------------------------
(* EstablishTimeoutAcceptor and its stream: one deadline from the accept,  *)
(* through the handshake, to the first byte the server writes.             *)

accept(s) ==
    /\ sock[s].stage = "none" /\ stop \in {"run", "flagged"}
    /\ sock' = [sock EXCEPT ![s].stage = "handshake", ![s].deadline = "armed"]
    /\ UNCHANGED <<chan, bucket, cut, pool>>

Handshake(s) ==
    /\ sock[s].stage = "handshake"
    /\ To(s, "head")
    /\ UNCHANGED <<chan, bucket, cut, pool>>

Elapse(s) ==
    /\ sock[s].deadline = "armed"
    /\ sock' = [sock EXCEPT ![s].deadline = "over"]
    /\ UNCHANGED <<chan, bucket, cut, pool>>

(* A read before the deadline gets the head and the body of a request. *)
poll_read(s) ==
    /\ sock[s].stage = "head" /\ sock[s].deadline # "over"
    /\ sock[s].asks < MaxAsks
    /\ sock' = [sock EXCEPT ![s].stage = "route", ![s].asks = @ + 1]
    /\ UNCHANGED <<chan, bucket, cut, pool>>

(* The handshake, or a read after the deadline, fails. The server also     *)
(* reads while a request waits for its answer.                             *)
TimedOut(s) ==
    /\ sock[s].stage \notin Gone /\ sock[s].deadline = "over"
    /\ To(s, "closed")
    /\ cut' = IF sock[s].stage \in {"answered", "relay", "upgraded"} \/ sock[s].asks > 1
              THEN cut \cup {s} ELSE cut
    /\ UNCHANGED <<chan, bucket, pool>>

StillArmed(d) == d
established(d) == "off"

Write(s, stage) == sock' = [sock EXCEPT ![s].stage = stage,
                                        ![s].deadline = established(@)]

-----------------------------------------------------------------------------
(* The handlers of the routes                                              *)

(* The authentication hook is asked, and answers, fails or is slow. *)
handle_auth(s) ==
    /\ \/ sock[s].stage = "route" /\ sock[s].deadline # "over" /\ To(s, "hook")
       \/ sock[s].stage = "hook" /\ Write(s, "answered")
    /\ UNCHANGED <<chan, bucket, cut, pool>>

(* A keepalive registers a key, see RelayAuth; it too reads a body first. *)
handle_relay_keepalive(s) ==
    /\ sock[s].stage = "route" /\ sock[s].deadline # "over"
    /\ Write(s, "answered")
    /\ UNCHANGED <<chan, bucket, cut, pool>>

relay_probe_handler(s) ==
    /\ sock[s].stage = "route"
    /\ Write(s, "answered")
    /\ UNCHANGED <<chan, bucket, cut, pool>>

(* The token is refused, or the path is not base64. *)
Refuse(s) ==
    /\ sock[s].stage = "route"
    /\ Write(s, "answered")
    /\ UNCHANGED <<chan, bucket, cut, pool>>

(* These go to a worker; only a put has a body to read. *)
handle_health_get(s) == sock[s].stage = "route" /\ To(s, "send")
handle_boot_get(s) == sock[s].stage = "route" /\ To(s, "send")
handle_boot_put(s) ==
    sock[s].stage = "route" /\ sock[s].deadline # "over" /\ To(s, "send")

handle_dispatch(s) ==
    /\ handle_health_get(s) \/ handle_boot_get(s) \/ handle_boot_put(s)
    /\ UNCHANGED <<chan, bucket, cut, pool>>

(* A closed channel drops the request, and its answer is an error. *)
Enqueue(s) ==
    /\ sock[s].stage = "send"
    /\ \/ /\ closed
          /\ Write(s, "answered") /\ UNCHANGED chan
       \/ /\ ~closed /\ Len(chan) < Cardinality(Threads)
          /\ chan' = Append(chan, <<s, sock[s].asks>>)
          /\ To(s, "wait")
    /\ UNCHANGED <<bucket, cut, pool>>

(* After ten seconds the client gets an error, whether the request is in   *)
(* the channel, with a worker, or never got there.                         *)
DispatchTimeout(s) ==
    /\ sock[s].stage \in {"send", "wait"}
    /\ Write(s, "answered")
    /\ UNCHANGED <<chan, bucket, cut, pool>>

(* The connection is kept for another request, or the client leaves. *)
KeepAlive(s) ==
    /\ sock[s].stage = "answered"
    /\ To(s, "head")
    /\ UNCHANGED <<chan, bucket, cut, pool>>

Hangup(s) ==
    /\ sock[s].stage \notin Gone
    /\ To(s, "closed")
    /\ UNCHANGED <<chan, bucket, cut, pool>>

-----------------------------------------------------------------------------
(* The relay: relay_handler, handle_relay_websocket and the rate limit     *)

(* A request that is no websocket upgrade is answered and that was it. *)
relay_handler(s) ==
    /\ sock[s].stage = "route"
    /\ Write(s, "upgraded") \/ Write(s, "answered")
    /\ UNCHANGED <<chan, bucket, cut, pool>>

(* The relay handshake succeeds, or fails or times out. *)
handle_relay_websocket(s) ==
    /\ sock[s].stage = "upgraded"
    /\ sock' \in {[sock EXCEPT ![s].stage = x] : x \in {"relay", "closed"}}
    /\ bucket' = [bucket EXCEPT ![s] = Full]
    /\ UNCHANGED <<chan, cut, pool>>

(* A charge that leaves nothing in the bucket puts the reader to sleep     *)
(* until refills have made up for it.                                      *)
NeverThrottled(b) == FALSE
poll_throttle(b) == b.fill <= 0

charge(b, bytes) == [fill |-> b.fill - bytes, got |-> b.got + bytes, age |-> b.age]
refilled(b) == [fill |-> IF b.fill + Rate > Burst THEN Burst ELSE b.fill + Rate,
                got |-> b.got, age |-> b.age + 1]

poll_next(s, bytes) ==
    /\ sock[s].stage = "relay" /\ ~poll_throttle(bucket[s])
    /\ bucket[s].got + bytes <= Burst + Rate * MaxAge + 2 * MaxFrame
    /\ bucket' = [bucket EXCEPT ![s] = charge(@, bytes)]
    /\ UNCHANGED <<sock, chan, cut, pool>>

Refill(s) ==
    /\ sock[s].stage = "relay" /\ bucket[s].age < MaxAge
    /\ bucket' = [bucket EXCEPT ![s] = refilled(@)]
    /\ UNCHANGED <<sock, chan, cut, pool>>

-----------------------------------------------------------------------------
(* Worker threads and the prune thread                                     *)

Move(t, pc) == thread' = [thread EXCEPT ![t].pc = pc]

worker(t) ==
    \/ /\ thread[t].pc = "check"
       /\ Move(t, IF cont THEN "recv" ELSE "ended")
       /\ UNCHANGED <<sock, chan>>
    \/ (* recv: what is left in a closed channel is still handed out. *)
       /\ thread[t].pc = "recv" /\ chan # <<>>
       /\ thread' = [thread EXCEPT ![t] = [pc |-> "handle", job |-> Head(chan)]]
       /\ chan' = Tail(chan)
       /\ UNCHANGED sock
    \/ /\ thread[t].pc = "recv" /\ chan = <<>> /\ closed
       /\ Move(t, "ended")
       /\ UNCHANGED <<sock, chan>>
    \/ (* handle and respond: nobody may be waiting for the answer any more. *)
       /\ thread[t].pc = "handle"
       /\ thread' = [thread EXCEPT ![t] = [pc |-> "check", job |-> <<>>]]
       /\ LET s == thread[t].job[1] IN
          IF sock[s].stage = "wait" /\ sock[s].asks = thread[t].job[2]
          THEN Write(s, "answered") ELSE UNCHANGED sock
       /\ UNCHANGED chan

Work(t) == worker(t) /\ UNCHANGED <<closed, pruning, cont, bound, stop, bucket, cut>>

prune_worker ==
    /\ \/ pruning = "check" /\ pruning' = IF cont THEN "sleep" ELSE "ended"
       \/ pruning = "sleep" /\ pruning' = "check"
    /\ UNCHANGED <<sock, chan, closed, thread, cont, bound, stop, bucket, cut>>

-----------------------------------------------------------------------------
(* BootstrapSrv::shutdown and the drop of the server                       *)

shutdown ==
    /\ stop = "run" /\ pruning # "unborn" /\ stop' = "flagged"
    /\ cont' = FALSE
    /\ UNCHANGED <<sock, chan, closed, thread, pruning, bound, bucket, cut>>

LeaveOpen == UNCHANGED closed
Close == closed' = TRUE

(* Server::drop closes the channel ... *)
DropServer ==
    /\ stop = "flagged" /\ stop' = "closing"
    /\ Close
    /\ UNCHANGED <<sock, chan, thread, pruning, cont, bound, bucket, cut>>

(* ... and tells axum to end all connections; its thread is joined.        *)
EndConnections ==
    /\ stop = "closing" /\ stop' = "join"
    /\ sock' = [s \in Sockets |-> [sock[s] EXCEPT !.stage = "closed", !.deadline = "off"]]
    /\ UNCHANGED <<chan, closed, thread, pruning, cont, bound, bucket, cut>>

Joined ==
    /\ stop = "join" /\ stop' = "done"
    /\ pruning = "ended" /\ \A t \in Threads : thread[t].pc = "ended"
    /\ UNCHANGED <<sock, chan, closed, thread, pruning, cont, bound, bucket, cut>>

(* The routes of the server, with the relay's merged in. *)
Routes(s) ==
    \/ handle_auth(s) \/ handle_dispatch(s) \/ Refuse(s)
    \/ handle_relay_keepalive(s) \/ relay_handler(s) \/ relay_probe_handler(s)

HttpNext ==
    \/ \E s \in Sockets :
         \/ accept(s) \/ Handshake(s) \/ Elapse(s) \/ poll_read(s) \/ TimedOut(s)
         \/ Routes(s) \/ Enqueue(s) \/ DispatchTimeout(s)
         \/ KeepAlive(s) \/ Hangup(s) \/ handle_relay_websocket(s)
         \/ \E bytes \in 1 .. MaxFrame : poll_next(s, bytes)
         \/ Refill(s)
    \/ Bind \/ StartFails \/ SendReady \/ SpawnPruner
    \/ \E t \in Threads : SpawnWorker(t) \/ Work(t)
    \/ prune_worker
    \/ shutdown \/ DropServer \/ EndConnections \/ Joined

HttpSpec == HttpInit /\ [][HttpNext]_httpVars

-----------------------------------------------------------------------------
Stages == Gone \cup {"handshake", "head", "route", "hook", "send", "wait", "answered",
                     "upgraded", "relay"}
Jobs == Sockets \X (0 .. MaxAsks)

HttpTypeOK ==
    /\ sock \in [Sockets -> [stage : Stages, deadline : {"off", "armed", "over"},
                            asks : 0 .. MaxAsks]]
    /\ chan \in Seq(Jobs) /\ Len(chan) <= Cardinality(Threads)
    /\ thread \in [Threads -> [pc : {"unborn", "check", "recv", "handle", "ended"},
                              job : Jobs \cup {<<>>}]]
    /\ \A t \in Threads : thread[t].pc = "handle" => thread[t].job \in Jobs
    /\ pruning \in {"unborn", "check", "sleep", "ended"}
    /\ {closed, cont} \subseteq BOOLEAN /\ bound \in 0 .. Listeners
    /\ stop \in {"bind", "failed", "run", "flagged", "closing", "join", "done"}
    /\ bucket \in [Sockets -> [fill : Int, got : Nat, age : Nat]]
    /\ cut \subseteq Sockets

(* Once the server has answered on a connection, or turned it into a relay *)
(* connection, the establish deadline never closes it, whatever else was   *)
(* in progress when the deadline passed (EstablishTimeoutStream).          *)
EstablishedStays == cut = {}

(* The shutdown never waits for a thread that waits for ever: a worker in  *)
(* recv has a request to take or a closed channel to see, requests left in *)
(* the channel included, and afterwards no connection is left open.        *)
ShutdownEnds ==
    stop \in {"join", "done"} =>
        /\ \A t \in Threads : thread[t].pc = "recv" => chan # <<>> \/ closed
        /\ \A s \in Sockets : sock[s].stage = "closed"

(* A relay connection is read no faster than its rate limit, but for one   *)
(* frame: the frame that overruns the bucket is delivered and the next one *)
(* waits (RateLimitState, AxumWebSocketAdapter::poll_next).                *)
ReadsArePaced ==
    \A s \in Sockets : bucket[s].got < Burst + Rate * bucket[s].age + MaxFrame
=============================================================================
