----------------------------- MODULE RelayAuth ------------------------------
(***************************************************************************)
(* Bearer tokens of the bootstrap server, and the relay that they open.    *)
(*                                                                         *)
(* A client caches the token it authenticated for and presents it with     *)
(* every request; the server forgets a token that was idle for too long,   *)
(* and all of them when it restarts.  A transport also hands its token to  *)
(* iroh, once, for every later reconnect to the relay: when that token has *)
(* gone stale, the relay admits the endpoint by its public key, which the  *)
(* keepalive calls register.  A prune thread refreshes the tokens of open  *)
(* relay connections, drops the idle ones and the keys registered by them. *)
(*                                                                         *)
(* Time is counted in prune intervals.  Tokens are interchangeable.        *)
(***************************************************************************)
EXTENDS Integers, FiniteSets

CONSTANTS Clients,     \* transports, each with an endpoint on the relay
          Tokens,      \* bearer tokens
          NoToken,     \* no token
          IdleLimit,   \* auth_token_idle_timeout
          KeepEvery    \* relay_keepalive_interval

ASSUME AuthAssumption == /\ NoToken \notin Tokens
                         /\ IdleLimit \in Nat /\ 2 < IdleLimit
                         /\ KeepEvery \in 1 .. IdleLimit - 1

VARIABLES tokens,     \* AuthTokenTracker: idle time of each token, or Forgotten
          allowlist,  \* RelayAllowlist: the token that registered each key
          conn,       \* each endpoint's relay connection
          call,       \* the request each client is making
          cached,     \* AuthMaterial.auth_token
          actor,      \* the token iroh presents to the relay
          pruner,     \* what the prune thread is doing, and with which tokens
          overdue,    \* whether a prune interval has passed since the last prune
          quiet,      \* time since each endpoint's last keepalive
          calm        \* no more faults

authState == <<tokens, allowlist, pruner, overdue>>
clientState == <<call, cached, actor, quiet>>
relayVars == <<authState, clientState, conn, calm>>

Forgotten == -1
None == [c \in Clients |-> NoToken]

InUse(t) == \/ \E c \in Clients : t \in {cached[c], actor[c], allowlist[c]}
            \/ t \in pruner.tokens

NewToken == CHOOSE t \in Tokens : ~InUse(t)

RelayInit ==
  /\ tokens = [t \in Tokens |-> Forgotten]
  /\ allowlist = None
  /\ conn = [c \in Clients |-> "none"]
  /\ call = [c \in Clients |-> "down"]
  /\ cached = None
  /\ actor = None
  /\ pruner = [pc |-> "idle", tokens |-> {}]
  /\ overdue = FALSE
  /\ quiet = [c \in Clients |-> 0]
  /\ calm = FALSE
-----------------------------------------------------------------------------
(* The calls of the client library.  A transport that is being created     *)
(* authenticates, makes a first keepalive and only then inserts the relay, *)
(* with the token it got first; an error means no transport.               *)

Creating(c) == conn[c] = "none"

Request(c) ==
  /\ call' = [call EXCEPT ![c] = IF cached[c] = NoToken THEN "auth" ELSE "send"]
  /\ quiet' = [quiet EXCEPT ![c] = 0]
  /\ UNCHANGED <<authState, cached, actor, conn, calm>>

\* The host makes the transport, or configures a space with a relay; nothing
\* but the host does so again after a failure.
Create(c) == call[c] = "down" /\ Request(c)

\* The keepalive loop, once the transport is there.
Start(c) == call[c] = "idle" /\ Request(c)

\* The call ends; an error while creating drops the transport.
Done(c, ok) ==
  /\ call' = [call EXCEPT ![c] = IF Creating(c) /\ ~ok THEN "down" ELSE "idle"]
  /\ conn' = [conn EXCEPT ![c] = IF Creating(c) /\ ok THEN "closed" ELSE @]
  /\ cached' = [cached EXCEPT ![c] = IF Creating(c) /\ ~ok THEN NoToken ELSE @]
  /\ actor' = [actor EXCEPT ![c] = IF Creating(c) /\ ~ok THEN NoToken ELSE @]

\* An answer is heard, or lost.
Heard == IF calm THEN {TRUE} ELSE BOOLEAN

(* priv_authenticate and process_authenticate.  The hook server accepts,   *)
(* or it answers pending or with an error.                                 *)
Authenticate(c) ==
  /\ call[c] \in {"auth", "force"}
  /\ \E t \in Tokens : ~InUse(t)
  /\ tokens' = [tokens EXCEPT ![NewToken] = 0]
  /\ cached' = [cached EXCEPT ![c] = NewToken]
  /\ actor' = IF Creating(c) /\ call[c] = "auth"
              THEN [actor EXCEPT ![c] = NewToken] ELSE actor
  /\ call' = [call EXCEPT ![c] = IF @ = "auth" THEN "send" ELSE "resend"]
  /\ UNCHANGED <<allowlist, pruner, overdue, quiet, conn, calm>>

\* The request or its answer gets lost, or the key is refused or pending.  A
\* token that does not reach the client is as good as none.
Fail(c) ==
  /\ ~calm
  /\ call[c] \in {"auth", "force", "send", "resend"}
  /\ Done(c, FALSE)
  /\ UNCHANGED <<authState, quiet, calm>>

\* AuthTokenTracker::is_valid, and what it leaves: a valid token is fresh
\* again, an idle one is forgotten.
IsValid(t) == tokens[t] \in 0 .. IdleLimit - 1
Checked(t) == [tokens EXCEPT ![t] = IF IsValid(t) THEN 0 ELSE Forgotten]

\* A bug: keepalives do not register the key.
NotRegistered(c) == allowlist

Registered(c) == [allowlist EXCEPT ![c] = cached[c]]

\* A keepalive with the cached token; put and get take the same course.  After
\* a first 401 the client authenticates again and repeats the request, once.
Send(c) ==
  LET t == cached[c]
  IN /\ call[c] \in {"send", "resend"}
     /\ tokens' = Checked(t)
     /\ allowlist' = IF IsValid(t) THEN Registered(c) ELSE allowlist
     /\ IF ~IsValid(t) /\ call[c] = "send"
        THEN /\ call' = [call EXCEPT ![c] = "force"]
             /\ UNCHANGED <<conn, cached, actor>>
        ELSE \E heard \in Heard : Done(c, IsValid(t) /\ heard)
     /\ UNCHANGED <<pruner, overdue, quiet, calm>>
-----------------------------------------------------------------------------
(* The relay.  iroh reconnects by itself, with the token it was given.     *)

\* TokenAccess::on_connect: by the token, else by the key.
Connect(c) ==
  /\ conn[c] = "closed"
  /\ tokens' = Checked(actor[c])
  /\ conn' = [conn EXCEPT ![c] = IF IsValid(actor[c]) THEN "token"
                                 ELSE IF allowlist[c] # NoToken THEN "key"
                                 ELSE "closed"]
  /\ UNCHANGED <<allowlist, pruner, overdue, clientState, calm>>

Disconnect(c) ==
  /\ ~calm
  /\ conn[c] \in {"token", "key"}
  /\ conn' = [conn EXCEPT ![c] = "closed"]
  /\ UNCHANGED <<authState, clientState, calm>>
-----------------------------------------------------------------------------
(* The prune thread, one step per lock it takes.                           *)

\* A bug: the tokens of open connections are not refreshed.
NoLive == {}

LiveTokens == {actor[c] : c \in {d \in Clients : conn[d] = "token"}}

PruneLive ==
  /\ pruner.pc = "idle"
  /\ pruner' = [pc |-> "refresh", tokens |-> LiveTokens]
  /\ UNCHANGED <<tokens, allowlist, overdue, conn, clientState, calm>>

\* register_token: also a token that was forgotten is known again.
PruneRefresh ==
  /\ pruner.pc = "refresh"
  /\ tokens' = [t \in Tokens |-> IF t \in pruner.tokens THEN 0 ELSE tokens[t]]
  /\ pruner' = [pc |-> "expire", tokens |-> {}]
  /\ UNCHANGED <<allowlist, overdue, conn, clientState, calm>>

PruneExpired ==
  LET expired == {t \in Tokens : tokens[t] = IdleLimit /\ InUse(t)}
  IN /\ pruner.pc = "expire"
     /\ tokens' = [t \in Tokens |-> IF t \in expired THEN Forgotten ELSE tokens[t]]
     /\ pruner' = [pc |-> "allowlist", tokens |-> expired]
     /\ UNCHANGED <<allowlist, overdue, conn, clientState, calm>>

PruneAllowlist ==
  /\ pruner.pc = "allowlist"
  /\ allowlist' = [c \in Clients |-> IF allowlist[c] \in pruner.tokens
                                     THEN NoToken ELSE allowlist[c]]
  /\ pruner' = [pc |-> "idle", tokens |-> {}]
  /\ overdue' = FALSE
  /\ UNCHANGED <<tokens, conn, clientState, calm>>

\* A prune interval passes; tokens that nobody can present any more are left
\* out of the count.  Without faults, requests are answered and
\* keepalives made in time.
Tick ==
  /\ ~overdue
  /\ calm => \A c \in Clients : \/ call[c] = "down"
                                \/ call[c] = "idle" /\ quiet[c] < KeepEvery
  /\ overdue' = TRUE
  /\ tokens' = [t \in Tokens |-> IF ~InUse(t) THEN Forgotten
                                 ELSE IF tokens[t] \in 0 .. IdleLimit - 1
                                 THEN tokens[t] + 1 ELSE tokens[t]]
  /\ quiet' = [c \in Clients |-> IF quiet[c] < KeepEvery
                                 THEN quiet[c] + 1 ELSE quiet[c]]
  /\ UNCHANGED <<allowlist, pruner, conn, call, cached, actor, calm>>

\* The server starts over with empty maps.
Restart ==
  /\ ~calm
  /\ tokens' = [t \in Tokens |-> Forgotten]
  /\ allowlist' = None
  /\ pruner' = [pc |-> "idle", tokens |-> {}]
  /\ overdue' = FALSE
  /\ conn' = [c \in Clients |-> IF conn[c] = "none" THEN "none" ELSE "closed"]
  /\ UNCHANGED <<clientState, calm>>

\* The node stops; the server sees its connection close.
Stop(c) ==
  /\ ~calm
  /\ call' = [call EXCEPT ![c] = "down"]
  /\ cached' = [cached EXCEPT ![c] = NoToken]
  /\ actor' = [actor EXCEPT ![c] = NoToken]
  /\ conn' = [conn EXCEPT ![c] = "none"]
  /\ UNCHANGED <<authState, quiet, calm>>

Calm == /\ ~calm
        /\ calm' = TRUE
        /\ UNCHANGED <<authState, clientState, conn>>

Step(c) == Start(c) \/ Authenticate(c) \/ Send(c)
Prune == PruneLive \/ PruneRefresh \/ PruneExpired \/ PruneAllowlist

RelayNext ==
  \/ \E c \in Clients : \/ Create(c)
                        \/ Step(c)
                        \/ Fail(c)
                        \/ Connect(c)
                        \/ Disconnect(c)
                        \/ Stop(c)
  \/ Prune
  \/ Tick
  \/ Restart
  \/ Calm

\* The keepalive loop of a transport never ends, iroh keeps reconnecting, the
\* server answers and its prune thread runs, and time passes.  Nothing makes
\* the host create a transport, or create it again when that failed.
RelayFairness ==
  /\ \A c \in Clients : WF_relayVars(Step(c)) /\ WF_relayVars(Connect(c))
  /\ WF_relayVars(Prune)
  /\ WF_relayVars(Tick)

RelaySpec == RelayInit /\ [][RelayNext]_relayVars
-----------------------------------------------------------------------------
(* Types, and that a request is only made with a cached token: the client  *)
(* library panics without one.                                             *)
RelayTypeOK ==
  /\ tokens \in [Tokens -> Forgotten .. IdleLimit]
  /\ {allowlist, cached, actor} \subseteq [Clients -> Tokens \union {NoToken}]
  /\ conn \in [Clients -> {"none", "closed", "token", "key"}]
  /\ call \in [Clients -> {"down", "idle", "auth", "force", "send", "resend"}]
  /\ \A c \in Clients : /\ call[c] \in {"send", "resend", "force"} => cached[c] \in Tokens
                        /\ conn[c] # "none" => actor[c] \in Tokens
  /\ pruner \in [pc : {"idle", "refresh", "expire", "allowlist"}, tokens : SUBSET Tokens]
  /\ {overdue, calm} \subseteq BOOLEAN
  /\ quiet \in [Clients -> 0 .. KeepEvery]

(* A token in use by an open relay connection does not go stale: the prune *)
(* thread refreshes it from a list read a step earlier, while connections  *)
(* open and close and other requests check and drop idle tokens.           *)
OpenConnectionKeepsToken ==
  \A c \in Clients : conn[c] = "token" => IsValid(actor[c])

(* Once faults end, every endpoint the host has made is on the relay again *)
(* and stays there, whatever restarts, lost answers, refusals and idle      *)
(* times went before: its first token may be long forgotten, so its         *)
(* keepalives must have registered its key, by a token obtained after a     *)
(* 401.  One whose creation failed (fetch_relay_token, do_insert_relay) is  *)
(* not made again unless the host does.                                     *)
RelayRecovers ==
  \A c \in Clients :
    <>calm => <>[](call[c] = "down" \/ conn[c] \in {"token", "key"})
=============================================================================
