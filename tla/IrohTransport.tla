---- MODULE IrohTransport ----
(***************************************************************************)
(* The iroh transport (crates/transport_iroh/src): how two nodes that send *)
(* to each other settle on one connection.                                 *)
(*                                                                         *)
(* Whoever sends without a connection dials one.  Both may dial at once,   *)
(* and both ends must then keep the same connection: the one dialed by the *)
(* endpoint with the larger id.  Each end of a connection has a reader     *)
(* task; sends run in tasks of their own and wait for the connection to be *)
(* resolved.  Steps are cut at awaits and at the registry's lock.          *)
(*                                                                         *)
(* A connection is a number and has an end at either node.  A close frame  *)
(* carries its code; what reaches an end first decides how it ended.       *)
(***************************************************************************)
EXTENDS Integers, FiniteSets

CONSTANTS
    Nodes,          \* endpoint ids, compared as numbers
    Conns,          \* bound: connections that can be made, numbers from 1
    Senders,        \* calls of send
    Home, Target,   \* [Senders -> Nodes]: where a call is made, and to whom
    Fragile,        \* bound: connections that meet trouble
    Shaky,          \* bound: nodes at which trouble shows
    MaxTroubles     \* bound: disconnects, failed dials, rejections, losses and
                    \* hasty timeouts

ASSUME NodesAssumption == Nodes \subseteq Nat
ASSUME ConnsAssumption == Conns \subseteq Nat \ {0}
ASSUME SendersAssumption ==
    /\ Home \in [Senders -> Nodes]
    /\ Target \in [Senders -> Nodes]
    /\ \A s \in Senders : Home[s] # Target[s]
ASSUME LimitsAssumption ==
    Fragile \subseteq Conns /\ Shaky \subseteq Nodes /\ MaxTroubles \in Nat

VARIABLES
    conn,         \* who dialed a connection and who accepts it
    life,         \* ConnectionState at each end
    slot,         \* connections: the registry of each node, by peer
    reader,       \* where the reader task of each end stands
    ended,        \* how the connection ended, as each end knows it
    closes,       \* close frames in flight: <<connection, to, code>>
    preflights,   \* preflight frames in flight: <<connection, to>>
    inbox,        \* data frames in flight: <<connection, to, send>>
    snd,          \* calls of send: where each stands and with which connection
    leaving,      \* disconnect between taking the entry and closing it
    unresponsive, \* peers each node has marked unresponsive
    owed,         \* ends that became active and whose end is not yet reported
    troubles      \* how many things went wrong

registry == <<life, slot>>
wire     == <<closes, preflights, inbox>>
seen     == <<unresponsive, owed>>
irohVars == <<conn, life, slot, reader, ended, closes, preflights, inbox, snd,
          leaving, unresponsive, owed, troubles>>

NoConn == [from |-> -1, to |-> -1]
Made   == {c \in Conns : conn[c] # NoConn}
Peer(c, n) == IF conn[c].from = n THEN conn[c].to ELSE conn[c].from
EndsOf(c)  == {conn[c].from, conn[c].to}

Codes == {"Superseded", "Graceful", "Unspecified"}

(* Something goes wrong. *)
Trouble == troubles < MaxTroubles /\ troubles' = troubles + 1
Exposed(c, n) == c \in Fragile /\ n \in Shaky

----------------------------------------------------------------------------
(* ConnectionLifecycle and ConnectionRegistry.                             *)

Live     == {"Pending", "Active"}
Terminal == {"Superseded", "Closed"}

(* Mutant: a pending connection is forgotten. *)
MarkActive(f, c, n, t) == [f EXCEPT ![c][n] = IF @ = "Active" THEN t ELSE @]

(* Terminal states are absorbing. *)
Mark(f, c, n, t) == [f EXCEPT ![c][n] = IF @ \in Live THEN t ELSE @]

(* Mutant: each end prefers the connection it dialed itself. *)
IsOwnDial(c, n) == conn[c].from = n

(* The connection dialed by the larger endpoint id is the one to keep. *)
IsPreferred(c, n) ==
    LET m == Peer(c, n) IN (conn[c].from = n) = (n > m)

(* Whether register_candidate gives the slot to c. *)
Wins(c, n) ==
    LET d == slot[n][Peer(c, n)] IN
    /\ life[c][n] \in Live
    /\ \/ d \in {0, c}
       \/ life[d][n] \notin Live
       \/ ~(IsPreferred(d, n) /\ ~IsPreferred(c, n))

(* connection.close: the first close decides, and tells the other end. *)
Closed(f, c, n) ==
    [f EXCEPT ![c][n] = IF @ = "Superseded" THEN @ ELSE "local"]
CloseFrame(c, n, code) ==
    IF ended[c][n] = "open" /\ ended[c][Peer(c, n)] = "open"
    THEN {<<c, Peer(c, n), code>>} ELSE {}
(* What is on its way to an end that reads no more is lost. *)
NotTo(frames, c, n) == {f \in frames : ~(f[1] = c /\ f[2] = n)}
FramesTo(c, n) == {f \in closes : f[1] = c /\ f[2] = n}
CloseConn(c, n, code) ==
    /\ ended' = Closed(ended, c, n)
    /\ closes' = NotTo(closes, c, n) \cup CloseFrame(c, n, code)

(* Mutant: the displaced holder is marked closed, so its traffic is not    *)
(* sent again.                                                             *)
RegisterClosing(c, n) ==
    LET m == Peer(c, n)
        d == slot[n][m] IN
    IF Wins(c, n)
    THEN /\ slot' = [slot EXCEPT ![n][m] = c]
         /\ IF d \in {0, c}
            THEN UNCHANGED <<life, ended, closes>>
            ELSE /\ life' = Mark(life, d, n, "Closed")
                 /\ CloseConn(d, n, "Superseded")
    ELSE /\ life' = Mark(life, c, n, "Superseded")
         /\ UNCHANGED <<slot, ended, closes>>

(* Mutant: the verdict on the displaced holder is not part of the          *)
(* replacement; its reader finds out from the close.                       *)
RegisterOnly(c, n) ==
    LET m == Peer(c, n)
        d == slot[n][m] IN
    IF Wins(c, n)
    THEN /\ slot' = [slot EXCEPT ![n][m] = c]
         /\ UNCHANGED life
         /\ IF d \in {0, c} THEN UNCHANGED <<ended, closes>>
                            ELSE CloseConn(d, n, "Superseded")
    ELSE /\ life' = Mark(life, c, n, "Superseded")
         /\ UNCHANGED <<slot, ended, closes>>

(* register_candidate: the holder that is displaced is marked under the    *)
(* lock and closed right after it; a rejected candidate is only marked.    *)
Register(c, n) ==
    LET m == Peer(c, n)
        d == slot[n][m] IN
    IF Wins(c, n)
    THEN /\ slot' = [slot EXCEPT ![n][m] = c]
         /\ IF d \in {0, c}
            THEN UNCHANGED <<life, ended, closes>>
            ELSE /\ life' = Mark(life, d, n, "Superseded")
                 /\ CloseConn(d, n, "Superseded")
    ELSE /\ life' = Mark(life, c, n, "Superseded")
         /\ UNCHANGED <<slot, ended, closes>>

RemoveIfCurrent(c, n) ==
    slot' = [slot EXCEPT ![n][Peer(c, n)] = IF @ = c THEN 0 ELSE @]

(* Mutant: the remote's close code is not looked at. *)
IsSupersededLocally(c, n) == life[c][n] = "Superseded"

(* Either the registry or the remote's close code says so. *)
IsSuperseded(c, n) == life[c][n] = "Superseded" \/ ended[c][n] = "Superseded"

----------------------------------------------------------------------------
IrohInit ==
    /\ conn = [c \in Conns |-> NoConn]
    /\ life = [c \in Conns |-> [n \in Nodes |-> "none"]]
    /\ slot = [n \in Nodes |-> [m \in Nodes |-> 0]]
    /\ reader = [c \in Conns |-> [n \in Nodes |-> "none"]]
    /\ ended = [c \in Conns |-> [n \in Nodes |-> "open"]]
    /\ closes = {} /\ preflights = {} /\ inbox = {}
    /\ snd = [s \in Senders |-> [at |-> "idle", c |-> 0]]
    /\ leaving = {}
    /\ unresponsive = [n \in Nodes |-> {}]
    /\ owed = {}
    /\ troubles = 0

----------------------------------------------------------------------------
(* send and create_connection_and_context.                                 *)

At(s, stage) == snd[s].at = stage
Go(s, stage, c) == snd' = [snd EXCEPT ![s] = [at |-> stage, c |-> c]]

(* The lock of a peer serialises the making of connections to it. *)
Locked(n, m) ==
    \E s \in Senders : /\ Home[s] = n /\ Target[s] = m
                       /\ snd[s].at \in {"dial", "register", "preflight"}

(* With the lock: the entry there is, or a dial. *)
Send(s) ==
    /\ At(s, "idle")
    /\ Conns # Made \/ slot[Home[s]][Target[s]] # 0
    /\ ~Locked(Home[s], Target[s])
    /\ LET c == slot[Home[s]][Target[s]] IN
       IF c # 0 THEN Go(s, "resolve", c) ELSE Go(s, "dial", 0)
    /\ UNCHANGED <<conn, registry, reader, ended, wire, leaving, seen, troubles>>

(* ConnectionContext::new: pending, with a reader of its own. *)
NewContext(f, c, n, stage) == [f EXCEPT ![c][n] = stage]

(* The accept task gives every connection that arrives a context, whoever  *)
(* it is from: nothing is known of the remote before its first frame.      *)
Accepted(f, c, n, stage) == NewContext(f, c, n, stage)

(* Connected: either end makes its context and starts its reader. *)
Dial(s) ==
    LET n == Home[s]
        m == Target[s] IN
    /\ At(s, "dial")
    /\ \E c \in Conns \ Made :
         /\ \A d \in Conns \ Made : c <= d
         /\ conn' = [conn EXCEPT ![c] = [from |-> n, to |-> m]]
         /\ life' = Accepted(NewContext(life, c, n, "Pending"), c, m, "Pending")
         /\ reader' = Accepted(NewContext(reader, c, n, "accept"), c, m, "accept")
         /\ Go(s, "register", c)
    /\ UNCHANGED <<slot, ended, wire, leaving, seen, troubles>>

(* The relay is known to be down, or our own url on it is not known yet.   *)
(* In the second case the remote may see a connection that ends before its *)
(* preflight; it never gets a url or an entry, and is left out.            *)
DialRefused(s) ==
    /\ At(s, "dial")
    /\ Trouble
    /\ Go(s, "returned", 0)
    /\ UNCHANGED <<conn, registry, reader, ended, wire, leaving, seen>>

(* Connecting fails or takes too long. *)
DialFails(s) ==
    /\ At(s, "dial")
    /\ Trouble
    /\ unresponsive' = [unresponsive EXCEPT ![Home[s]] = @ \cup {Target[s]}]
    /\ Go(s, "returned", 0)
    /\ UNCHANGED <<conn, registry, reader, ended, wire, leaving, owed>>

(* The dial is registered before its preflight is sent; if it loses there, *)
(* it is closed and the send goes on to wait for the winner.               *)
RegisterDial(s) ==
    LET c == snd[s].c
        n == Home[s] IN
    /\ At(s, "register")
    /\ IF Wins(c, n)
       THEN Register(c, n) /\ Go(s, "preflight", c)
       ELSE /\ life' = Mark(life, c, n, "Superseded")
            /\ CloseConn(c, n, "Superseded")
            /\ Go(s, "resolve", c)
            /\ UNCHANGED slot
    /\ UNCHANGED <<conn, reader, preflights, inbox, leaving, seen, troubles>>

(* A stream can be opened, or the one there is written to, until the       *)
(* connection has ended.                                                   *)
CanWrite(c, n) == ended[c][n] = "open"

SendPreflightFrame(c, n) ==
    /\ CanWrite(c, n)
    /\ preflights' = preflights \cup {<<c, Peer(c, n)>>}

SendPreflight(s) ==
    LET c == snd[s].c
        n == Home[s] IN
    /\ At(s, "preflight")
    /\ \/ /\ SendPreflightFrame(c, n)
          /\ Go(s, "resolve", c)
          /\ UNCHANGED <<registry, closes, ended, unresponsive>>
       \/ /\ ~CanWrite(c, n)
          /\ IsSuperseded(c, n)
          /\ Go(s, "resolve", c)
          /\ UNCHANGED <<registry, closes, ended, preflights, unresponsive>>
       \/ /\ ~CanWrite(c, n)
          /\ ~IsSuperseded(c, n)
          /\ unresponsive' = [unresponsive EXCEPT ![n] = @ \cup {Target[s]}]
          /\ life' = Mark(life, c, n, "Closed")
          /\ RemoveIfCurrent(c, n)
          /\ Go(s, "returned", 0)
          /\ UNCHANGED <<closes, ended, preflights>>
    /\ UNCHANGED <<conn, reader, inbox, leaving, owed, troubles>>

(* wait_for_resolution.  A connection that closed counts as success. *)
WaitForResolution(s) ==
    LET c == snd[s].c
        st == life[c][Home[s]] IN
    /\ At(s, "resolve")
    /\ \/ st = "Active" /\ Go(s, "check", c)
       \/ st = "Superseded" /\ Go(s, "replace", c)
       \/ st = "Closed" /\ Go(s, "returned", 0)
    /\ UNCHANGED <<conn, registry, reader, ended, wire, leaving, seen, troubles>>

(* An active connection must still hold the slot to be written to. *)
CheckCurrent(s) ==
    LET c == snd[s].c IN
    /\ At(s, "check")
    /\ Go(s, IF slot[Home[s]][Target[s]] = c THEN "write" ELSE "replace", c)
    /\ UNCHANGED <<conn, registry, reader, ended, wire, leaving, seen, troubles>>

SendDataFrame(s) ==
    LET c == snd[s].c
        n == Home[s] IN
    /\ At(s, "write")
    /\ \/ /\ CanWrite(c, n)
          /\ inbox' = inbox \cup {<<c, Target[s], s>>}
          /\ Go(s, "returned", 0)
       \/ /\ ~CanWrite(c, n)
          /\ IF IsSuperseded(c, n) THEN Go(s, "replace", c) ELSE Go(s, "returned", 0)
          /\ UNCHANGED inbox
    /\ UNCHANGED <<conn, registry, reader, ended, closes, preflights, leaving,
                   seen, troubles>>

(* wait_for_send_replacement: a live entry other than the one that lost. *)
Replacement(s) ==
    LET n == Home[s]
        d == slot[n][Target[s]] IN
    d \notin {0, snd[s].c} /\ life[d][n] \in Live

WaitForReplacement(s) ==
    /\ At(s, "replace")
    /\ Replacement(s)
    /\ Go(s, "resolve", slot[Home[s]][Target[s]])
    /\ UNCHANGED <<conn, registry, reader, ended, wire, leaving, seen, troubles>>

----------------------------------------------------------------------------
(* The reader of an end.                                                   *)

ReaderGoes(c, n, stage) == reader' = [reader EXCEPT ![c][n] = stage]

(* The preflight arrives and the handler accepts it. *)
ReadPreflight(c, n) ==
    /\ reader[c][n] = "accept"
    /\ ended[c][n] = "open"
    /\ <<c, n>> \in preflights
    /\ preflights' = preflights \ {<<c, n>>}
    /\ ReaderGoes(c, n, "register")
    /\ UNCHANGED <<conn, registry, ended, closes, inbox, snd, leaving, seen, troubles>>

(* The handler rejects it; without local agents that is nobody's fault.    *)
(* The url is known from here on.                                          *)
RejectPreflight(c, n) ==
    /\ reader[c][n] = "accept"
    /\ ended[c][n] = "open"
    /\ <<c, n>> \in preflights
    /\ Exposed(c, n) /\ Trouble
    /\ preflights' = preflights \ {<<c, n>>}
    /\ \E e \in {"exit", "exitQuiet"} : ReaderGoes(c, n, e)
    /\ UNCHANGED <<conn, registry, ended, closes, inbox, snd, leaving, seen>>

(* Claim the slot; the acceptor then answers, the dialer has sent already. *)
RegisterReader(c, n) ==
    /\ reader[c][n] = "register"
    /\ Register(c, n)
    /\ ReaderGoes(c, n, IF ~Wins(c, n) THEN "inactive"
                        ELSE IF conn[c].from = n THEN "activate" ELSE "reply")
    /\ UNCHANGED <<conn, preflights, inbox, snd, leaving, seen, troubles>>

(* The return preflight ... *)
ReturnPreflight(c, n) ==
    /\ reader[c][n] = "reply"
    /\ \/ SendPreflightFrame(c, n) /\ ReaderGoes(c, n, "activate")
       \/ ~CanWrite(c, n) /\ ReaderGoes(c, n, "exit") /\ UNCHANGED preflights
    /\ UNCHANGED <<conn, registry, ended, closes, inbox, snd, leaving, seen, troubles>>

(* ... which cannot be sent without a url of our own, too late, or without *)
(* a local agent, which is nobody's fault.                                 *)
ReplyFails(c, n) ==
    /\ reader[c][n] = "reply"
    /\ Exposed(c, n) /\ Trouble
    /\ \E e \in {"exit", "exitQuiet"} : ReaderGoes(c, n, e)
    /\ UNCHANGED <<conn, registry, ended, wire, snd, leaving, seen>>

(* activate: only for the holder of the slot. *)
CanActivate(c, n) ==
    /\ slot[n][Peer(c, n)] = c
    /\ life[c][n] \in Live

ActivateReader(c, n) ==
    /\ reader[c][n] = "activate"
    /\ IF CanActivate(c, n)
       THEN /\ life' = [life EXCEPT ![c][n] = "Active"]
            /\ owed' = owed \cup {<<c, n>>}
            /\ ReaderGoes(c, n, "read")
       ELSE /\ ReaderGoes(c, n, IF slot[n][Peer(c, n)] = c THEN "exit"
                                ELSE "inactive")
            /\ UNCHANGED <<life, owed>>
    /\ UNCHANGED <<conn, slot, ended, wire, snd, leaving, unresponsive, troubles>>

(* Data goes to the handler. *)
ReadDataFrame(c, n, s) ==
    /\ reader[c][n] = "read"
    /\ ended[c][n] = "open"
    /\ <<c, n, s>> \in inbox
    /\ inbox' = inbox \ {<<c, n, s>>}
    /\ UNCHANGED <<conn, registry, reader, ended, closes, preflights, snd,
                   leaving, seen, troubles>>

(* Why a reader leaves its loop: accept_uni fails once the connection has  *)
(* ended, or the preflight was refused, lost the slot or came too late.    *)
Exits(c, n) ==
    \/ reader[c][n] \in {"accept", "read"} /\ ended[c][n] # "open"
    \/ reader[c][n] \in {"exit", "exitQuiet", "exitNoUrl"}

(* Until the preflight, an acceptor has no url. *)
HasUrl(c, n) == conn[c].from = n \/ reader[c][n] \notin {"accept", "exitNoUrl"}

(* cleanup_after_exit for a peer that was never known ... *)
CleanupNoUrl(c, n) ==
    /\ Exits(c, n)
    /\ ~HasUrl(c, n)
    /\ ReaderGoes(c, n, "done")
    /\ life' = Mark(life, c, n, "Closed")
    /\ CloseConn(c, n, "Unspecified")
    /\ preflights' = NotTo(preflights, c, n)
    /\ UNCHANGED <<conn, slot, inbox, snd, leaving, seen, troubles>>

(* ... and for one that is: the slot is given up under the lock.  For a    *)
(* connection that does not hold it this does nothing, and counts as one   *)
(* step with the verdict, unless the dial is only now being registered.    *)
Unregistered(c, n) ==
    \E s \in Senders : At(s, "register") /\ snd[s].c = c /\ Home[s] = n

CleanupSlot(c, n) ==
    LET wasActive == slot[n][Peer(c, n)] = c
        quiet == reader[c][n] = "exitQuiet" IN
    /\ Exits(c, n)
    /\ HasUrl(c, n)
    /\ wasActive \/ Unregistered(c, n)
    /\ RemoveIfCurrent(c, n)
    /\ ReaderGoes(c, n, IF ~wasActive THEN "inactive"
                        ELSE IF quiet THEN "goneQuiet" ELSE "gone")
    /\ UNCHANGED <<conn, life, ended, wire, snd, leaving, seen, troubles>>

(* Mutant: a graceful close is released without a word. *)
ClassifyExitQuietly(c, n) ==
    IF IsSuperseded(c, n) THEN "Superseded"
    ELSE IF reader[c][n] \notin {"gone", "goneQuiet"} THEN "Inactive"
    ELSE IF ended[c][n] = "Graceful" THEN "Inactive"
    ELSE IF reader[c][n] = "gone" THEN "Unresponsive" ELSE "PeerGone"

(* Then the verdict: what the handler and the remote are told. *)
ClassifyExit(c, n) ==
    IF IsSuperseded(c, n) THEN "Superseded"
    ELSE IF reader[c][n] \notin {"gone", "goneQuiet"} THEN "Inactive"
    ELSE IF ended[c][n] = "Graceful" THEN "Graceful"
    ELSE IF reader[c][n] = "gone" THEN "Unresponsive" ELSE "PeerGone"

CleanupVerdict(c, n) ==
    LET verdict == ClassifyExit(c, n)
        m == Peer(c, n) IN
    /\ \/ reader[c][n] \in {"inactive", "gone", "goneQuiet"}
       \/ Exits(c, n) /\ HasUrl(c, n) /\ slot[n][m] # c
    /\ ReaderGoes(c, n, "done")
    /\ life' = Mark(life, c, n,
                    IF ended[c][n] = "Superseded" THEN "Superseded"
                    ELSE "Closed")
    /\ CloseConn(c, n, IF verdict \in {"Superseded", "Graceful"} THEN verdict
                       ELSE "Unspecified")
    /\ owed' = IF verdict \in {"Superseded", "Inactive"} THEN owed
               ELSE owed \ {<<c, n>>}
    /\ unresponsive' = IF verdict = "Unresponsive"
                       THEN [unresponsive EXCEPT ![n] = @ \cup {m}]
                       ELSE unresponsive
    /\ preflights' = NotTo(preflights, c, n)
    /\ inbox' = IF verdict = "Superseded" THEN NotTo(inbox, c, n) ELSE inbox
    /\ UNCHANGED <<conn, slot, snd, leaving, troubles>>

----------------------------------------------------------------------------
(* disconnect, the network and the clock.                                  *)

(* take the entry, whoever it is ... *)
DisconnectTake(n, m) ==
    /\ Exposed(slot[n][m], n) /\ Trouble
    /\ leaving' = leaving \cup {<<slot[n][m], n>>}
    /\ slot' = [slot EXCEPT ![n][m] = 0]
    /\ UNCHANGED <<conn, life, reader, ended, wire, snd, seen>>

(* ... and close it with its reason. *)
DisconnectClose(c, n) ==
    /\ <<c, n>> \in leaving
    /\ leaving' = leaving \ {<<c, n>>}
    /\ life' = Mark(life, c, n, "Closed")
    /\ CloseConn(c, n, "Graceful")
    /\ owed' = owed \ {<<c, n>>}
    /\ UNCHANGED <<conn, slot, reader, preflights, inbox, snd, unresponsive, troubles>>

(* A close frame arrives. *)
DeliverClose(c, n, code) ==
    /\ <<c, n, code>> \in closes
    /\ closes' = closes \ {<<c, n, code>>}
    /\ ended' = [ended EXCEPT ![c][n] = IF @ = "open" THEN code ELSE @]
    /\ UNCHANGED <<conn, registry, reader, preflights, inbox, snd, leaving,
                   seen, troubles>>

(* The other end is gone and no word of it is on its way. *)
LostByPeer(c, n) == ended[c][Peer(c, n)] # "open" /\ FramesTo(c, n) = {}

(* The connection is lost to one end; the other end finds out on its own,  *)
(* having nothing to hear any more.  A loss shows when the end is used.     *)
Lose(c, n) ==
    /\ c \in Made /\ n \in EndsOf(c)
    /\ reader[c][n] \in {"accept", "reply", "read"}
    /\ ended[c][n] = "open"
    /\ IF LostByPeer(c, n) THEN UNCHANGED troubles ELSE Exposed(c, n) /\ Trouble
    /\ ended' = [ended EXCEPT ![c][n] = "lost"]
    /\ UNCHANGED <<conn, registry, reader, wire, snd, leaving, seen>>

(* Whether anything is still under way that a patient waiter waits for. *)
Idle ==
    /\ closes = {} /\ leaving = {}
    /\ \A c \in Made : \A n \in EndsOf(c) :
         \/ reader[c][n] = "done"
         \/ /\ reader[c][n] = "accept"
            /\ ended[c][n] = "open"
            /\ <<c, n>> \notin preflights
         \/ /\ reader[c][n] = "read"
            /\ ended[c][n] = "open"
            /\ ~LostByPeer(c, n)
            /\ \A s \in Senders : <<c, n, s>> \notin inbox
    /\ \A s \in Senders :
         \/ snd[s].at \in {"idle", "returned"}
         \/ At(s, "resolve") /\ life[snd[s].c][Home[s]] = "Pending"
         \/ At(s, "replace") /\ ~Replacement(s)

(* A deadline passes because nothing comes, or too early.                  *)
Due == IF Idle THEN UNCHANGED troubles ELSE Trouble

(* The preflight deadline of a reader. *)
PreflightTimeout(c, n) ==
    /\ c \in Made /\ n \in EndsOf(c)
    /\ reader[c][n] = "accept"
    /\ Due /\ (Exposed(c, n) \/ Idle)
    /\ ReaderGoes(c, n, IF HasUrl(c, n) THEN "exit" ELSE "exitNoUrl")
    /\ UNCHANGED <<conn, registry, ended, wire, snd, leaving, seen>>

(* The deadline of a send for the connection that won. *)
ReplacementTimeout(s) ==
    /\ At(s, "replace")
    /\ Due
    /\ RemoveIfCurrent(snd[s].c, Home[s])
    /\ Go(s, "returned", 0)
    /\ UNCHANGED <<conn, life, reader, ended, wire, leaving, seen>>

----------------------------------------------------------------------------
SendStep(s) ==
    \/ Dial(s) \/ DialRefused(s) \/ RegisterDial(s) \/ SendPreflight(s)
    \/ WaitForResolution(s) \/ CheckCurrent(s) \/ SendDataFrame(s)
    \/ WaitForReplacement(s) \/ ReplacementTimeout(s)

ReaderStep(c, n) ==
    \/ ReadPreflight(c, n) \/ RegisterReader(c, n) \/ ReturnPreflight(c, n)
    \/ ActivateReader(c, n) \/ CleanupNoUrl(c, n)
    \/ CleanupSlot(c, n) \/ CleanupVerdict(c, n) \/ PreflightTimeout(c, n)
    \/ \E s \in Senders : ReadDataFrame(c, n, s)

IrohNext ==
    \/ \E s \in Senders : Send(s) \/ SendStep(s) \/ DialFails(s)
    \/ \E c \in Conns, n \in Nodes :
         \/ ReaderStep(c, n)
         \/ RejectPreflight(c, n)
         \/ ReplyFails(c, n)
         \/ DisconnectClose(c, n)
         \/ Lose(c, n)
         \/ \E f \in FramesTo(c, n) : DeliverClose(c, n, f[3])
    \/ \E n, m \in Nodes : DisconnectTake(n, m)

IrohSpec == IrohInit /\ [][IrohNext]_irohVars

----------------------------------------------------------------------------
ReaderStages == {"none", "accept", "register", "reply", "activate", "read", "inactive",
                 "exit", "exitQuiet", "exitNoUrl", "gone", "goneQuiet", "done"}
SendStages   == {"idle", "dial", "register", "preflight", "resolve", "check", "write",
                 "replace", "returned"}

IrohTypeOK ==
    /\ conn \in [Conns -> [from : Nodes, to : Nodes] \cup {NoConn}]
    /\ life \in [Conns -> [Nodes -> {"none"} \cup Live \cup Terminal]]
    /\ slot \in [Nodes -> [Nodes -> Conns \cup {0}]]
    /\ reader \in [Conns -> [Nodes -> ReaderStages]]
    /\ ended \in [Conns -> [Nodes -> {"open", "local", "lost"} \cup Codes]]
    /\ closes \subseteq Conns \X Nodes \X Codes
    /\ preflights \subseteq Conns \X Nodes
    /\ inbox \subseteq Conns \X Nodes \X Senders
    /\ snd \in [Senders -> [at : SendStages, c : Conns \cup {0}]]
    /\ leaving \subseteq Conns \X Nodes
    /\ unresponsive \in [Nodes -> SUBSET Nodes]
    /\ owed \subseteq Conns \X Nodes
    /\ troubles \in 0 .. MaxTroubles

(* Both ends settle on the same connection (is_preferred_connection: "they *)
(* always agree on the same physical connection"): once nothing is under   *)
(* way, a connection that is in use holds the slot at both of its ends,    *)
(* and of connections that met no trouble one is in use.                   *)
InUse(c) == \A n \in EndsOf(c) : /\ reader[c][n] = "read"
                                 /\ slot[n][Peer(c, n)] = c
EndsAgree ==
    Idle => /\ \A c \in Made : \A n \in EndsOf(c) :
                 reader[c][n] = "read" => InUse(c)
            /\ (troubles = 0 /\ Made # {}) => \E c \in Made : InUse(c)

(* Dialing each other at once is not a failure: no peer is marked          *)
(* unresponsive unless something did fail or a node was asked to           *)
(* disconnect (create_connection_and_context, classify_exit).              *)
NoFalseUnresponsive ==
    (troubles = 0)
        => \A n \in Nodes : unresponsive[n] = {}

(* A connection that was in use does not end in silence: the handler is    *)
(* told, unless another connection to the same peer took over              *)
(* (classify_exit, cleanup_after_exit).                                    *)
EndsAreReported ==
    \A c \in Made : \A n \in EndsOf(c) :
        (reader[c][n] = "done" /\ <<c, n>> \in owed)
            => <<c, n>> \in leaving \/ IsSuperseded(c, n)

(* Data written to a connection arrives, unless the connection lost a race *)
(* or something failed: what a send reports as written is not waiting in a *)
(* stream nobody reads (handle_incoming_stream answers the preflight only  *)
(* after it has the slot).                                                 *)
WrittenArrives ==
    (Idle /\ troubles = 0) =>
        \A f \in inbox : IsSuperseded(f[1], f[2])

(* No call of send waits for a connection that nobody will resolve: when   *)
(* nothing else is under way, a call that still waits has a deadline, its  *)
(* own or that of the reader of its connection (wait_for_resolution has    *)
(* none).                                                                  *)
NoStuckSend ==
    Idle => \A s \in Senders :
              At(s, "resolve") => reader[snd[s].c][Home[s]] = "accept"

(* The transport keeps the registry's promises. *)
Slots == INSTANCE ConnectionSlots WITH life <- life, slot <- slot
ImplementsSlots == Slots!SlotsSpec
====
