--------------------------- MODULE BootstrapStore ---------------------------
(***************************************************************************)
(* The bootstrap server's store of agent infos.  HTTP requests wait in a   *)
(* bounded channel for a pool of worker threads; a worker validates a put, *)
(* writes the body to a temporary file, looks up its space under the map's *)
(* lock, and updates it after that lock is released.  A prune thread walks *)
(* over the spaces meanwhile and drops expired infos and empty spaces.     *)
(*                                                                         *)
(* One space is enough: spaces share nothing but the map.  Times are       *)
(* integers, of a unit left open.  The map holds references to spaces, so  *)
(* a worker may still hold a space that the map has dropped.               *)
(***************************************************************************)
EXTENDS Integers, Sequences, FiniteSets, SequencesExt

CONSTANTS Authors,      \* authors of infos
          Workers,     \* worker threads
          MaxEntries,  \* max_entries_per_space
          LastTime,     \* bound: the last moment of a run
          Skew,        \* CREATED_AT_CLOCK_SKEW_ALLOWED
          MaxLife,     \* EXPIRES_AT_DURATION_MAX_ALLOWED
          Lives        \* lifetimes that authors ask for

ASSUME StoreAssumption == /\ MaxEntries \in Nat \ {0}
                          /\ LastTime \in Nat
                          /\ Skew \in Nat
                          /\ MaxLife \in Nat
                          /\ Lives \subseteq Int

VARIABLES clock,    \* the server's clock
          doing,    \* what each worker thread is doing
          exists,   \* the map has the space
          list,     \* Space.readable: its infos, oldest place first
          sweep,    \* what the prune thread is doing
          due       \* history: the infos answered with 200 that are to be served

storeVars == <<clock, doing, exists, list, sweep, due>>

\* ParsedEntry, with the outcome of the checks that need no clock: that the
\* path names the info's agent and space, and that the signature is right.
Entry == [agent : Authors, created_at : -Skew - 1 .. LastTime + Skew + 1,
          expires_at : Int, is_tombstone : BOOLEAN, genuine : BOOLEAN]

Free == [pc |-> "idle"]

StoreInit ==
  /\ clock = 0
  /\ doing = [w \in Workers |-> Free]
  /\ exists = FALSE
  /\ list = <<>>
  /\ sweep = "idle"
  /\ due = {}
-----------------------------------------------------------------------------
(* A request waits in a channel until a worker takes it, and the client    *)
(* waits ten seconds for the answer; the worker handles it even when the   *)
(* client has given up, so neither wait is modelled.  A get copies the     *)
(* list and leaves no trace.                                               *)

Shifts == -Skew - 1 .. Skew + 1

\* The checks of handle_boot_put, in order.
Valid(e) == /\ e.created_at >= clock - Skew
            /\ e.created_at <= clock + Skew
            /\ e.expires_at >= clock
            /\ e.expires_at > e.created_at
            /\ e.expires_at - e.created_at <= MaxLife
            /\ e.genuine

\* A worker takes a put of an info whose creation time is shifted against the
\* server's clock; one that fails a check is answered with 500.
Take(w, a, shift, life, tomb, genuine) ==
  LET e == [agent |-> a, created_at |-> clock + shift,
            expires_at |-> clock + shift + life,
            is_tombstone |-> tomb, genuine |-> genuine]
  IN /\ doing[w].pc = "idle"
     /\ doing' = [doing EXCEPT ![w] = IF Valid(e)
                                        THEN [pc |-> "lookup", entry |-> e]
                                        ELSE Free]
     /\ UNCHANGED <<clock, exists, list, sweep, due>>

\* SpaceMap::update under the map's lock: the space is found or created.
Lookup(w) ==
  /\ doing[w].pc = "lookup"
  /\ exists' = TRUE
  /\ doing' = [doing EXCEPT ![w].pc = "update"]
  /\ UNCHANGED <<clock, list, sweep, due>>

Unexpired(e) == e.expires_at > clock

Place(l, a) == {i \in DOMAIN l : l[i].agent = a}

\* The entries of a list that are at the places in K, in their order.
Kept(l, K) ==
  LET at == CHOOSE f \in [1 .. Cardinality(K) -> K] :
              \A i, j \in 1 .. Cardinality(K) : i < j => f[i] < f[j]
  IN [i \in 1 .. Cardinality(K) |-> l[at[i]]]

\* A bug: a full space makes room at its front.
MakeRoomFront(l) == IF Len(l) >= MaxEntries THEN Kept(l, DOMAIN l \ {1}) ELSE l

\* A full space drops the info half-way (index MaxEntries / 2 from zero).
MakeRoom(l) == IF Len(l) >= MaxEntries
               THEN Kept(l, DOMAIN l \ {MaxEntries \div 2 + 1}) ELSE l

\* A bug: the info last put wins.
ReplacedLast(l, e) == [i \in DOMAIN l |-> IF l[i].agent = e.agent
                                          THEN e ELSE l[i]]

\* A newer info takes the place of the agent's older one.
Replaced(l, e) == [i \in DOMAIN l |->
                     IF l[i].agent = e.agent /\ e.created_at > l[i].created_at
                     THEN e ELSE l[i]]

\* Space::update with an info: a replaced or an expired entry goes, and so
\* does a tombstone; an agent not listed before is pushed at the end.
UpdatedList(l, e) ==
  LET new == Replaced(l, e)
      kept == Kept(new, {i \in DOMAIN l : Unexpired(new[i]) /\ ~new[i].is_tombstone})
  IN IF Place(l, e.agent) # {} \/ e.is_tombstone THEN kept
     ELSE Append(MakeRoom(kept), e)

Listed(l) == {l[i].agent : i \in DOMAIN l}

\* What a get of the space is answered with.
Served == IF exists THEN Range(list) ELSE {}

\* What is to be served after e is acknowledged: not an older info of its
\* agent, and not what made room for e; e itself if it is newer than what its
\* agent has, be it expired and not pruned yet.
ToServe(e, before, after) ==
  LET newest == \A x \in due \union Range(before) : x.agent = e.agent => e.created_at > x.created_at
      evicted == Listed(before) \ Listed(after)
  IN {x \in due : /\ x.agent = e.agent => ~newest
                  /\ x.agent # e.agent => x.agent \notin evicted}
     \union {x \in {e} : newest /\ ~e.is_tombstone}

\* Space::update, under the space's write lock.  A worker whose space the map
\* has dropped since updates what nobody will read.  The code reads the time
\* just before it takes the lock; the clock of the model ticks between steps.
UpdateSpace(w) ==
  LET e == doing[w].entry
  IN /\ doing[w].pc \in {"update", "orphan"}
     /\ list' = IF doing[w].pc = "update" THEN UpdatedList(list, e) ELSE list
     /\ due' = IF doing[w].pc = "update"
               THEN ToServe(e, list, list') ELSE due
     /\ doing' = [doing EXCEPT ![w] = Free]
     /\ UNCHANGED <<clock, exists, sweep>>
-----------------------------------------------------------------------------
(* The prune thread: update_all, one space here.                           *)

\* The keys are collected first.
PruneKeys ==
  /\ sweep = "idle"
  /\ exists
  /\ sweep' = "lookup"
  /\ UNCHANGED <<clock, doing, exists, list, due>>

\* Under the map's lock: a space that reads as empty is dropped, whoever
\* holds it; the others are updated after the lock is released.
PruneLookup ==
  LET drop == exists /\ list = <<>>
  IN /\ sweep = "lookup"
     /\ exists' = (exists /\ ~drop)
     /\ doing' = [w \in Workers |->
                     IF drop /\ doing[w].pc = "update"
                     THEN [doing[w] EXCEPT !.pc = "orphan"] ELSE doing[w]]
     /\ sweep' = IF exists /\ ~drop THEN "update" ELSE "idle"
     /\ UNCHANGED <<clock, list, due>>

PruneSpace ==
  /\ sweep = "update"
  /\ list' = Kept(list, {i \in DOMAIN list : Unexpired(list[i])})
  /\ sweep' = "idle"
  /\ UNCHANGED <<clock, doing, exists, due>>

-----------------------------------------------------------------------------
(* The in-memory stand-in for the server: stat_process under one lock, for *)
(* a put (a sequence of one info) and for the poll of a node (an empty     *)
(* one).  The info put last wins, whatever its creation time, and a        *)
(* tombstone is kept until it expires.                                     *)

StatProcess(store, put, now, most) ==
  LET kept == SelectSeq(store, LAMBDA x :
                  /\ x.expires_at > now
                  /\ \A i \in DOMAIN put : put[i].agent # x.agent)
      \* While there is no room, the info half-way goes.
      surplus == IF Len(kept) >= most THEN Len(kept) - most + 1 ELSE 0
  IN IF put = <<>> THEN kept
     ELSE [i \in 1 .. Len(kept) - surplus |->
             kept[IF i <= most \div 2 THEN i ELSE i + surplus]] \o put
-----------------------------------------------------------------------------
Later ==
  /\ clock < LastTime
  /\ clock' = clock + 1
  /\ due' = {x \in due : x.expires_at > clock'}
  /\ UNCHANGED <<doing, exists, list, sweep>>

StoreNext ==
  \/ \E w \in Workers :
       \/ \E a \in Authors, shift \in Shifts, life \in Lives, t, g \in BOOLEAN :
            Take(w, a, shift, life, t, g)
       \/ Lookup(w)
       \/ UpdateSpace(w)
  \/ PruneKeys \/ PruneLookup \/ PruneSpace
  \/ Later

StoreSpec == StoreInit /\ [][StoreNext]_storeVars

-----------------------------------------------------------------------------
(* Types, and what Space::update itself relies on: no agent is listed      *)
(* twice (the second match would unwrap an info already taken) and the     *)
(* list is within its limit, with any number of workers in update.         *)
StoreTypeOK ==
  /\ clock \in 0 .. LastTime
  /\ \A w \in Workers : doing[w].pc \in {"idle", "lookup", "update", "orphan"}
  /\ exists \in BOOLEAN
  /\ ~exists => list = <<>>
  /\ Len(list) <= MaxEntries
  /\ \A a \in Authors : Cardinality(Place(list, a)) <= 1
  /\ sweep \in {"idle", "lookup", "update"}
  /\ \A x \in due : x.agent \in Authors

(* An acknowledged info is served until it expires, unless its author put  *)
(* a newer one (that may be expired by now) or left, a newcomer took its   *)
(* place in a full space, or its space was dropped between the look-up and *)
(* the update: whatever order the workers finish in, and whatever the      *)
(* prune thread does meanwhile.                                            *)
AckedIsListed == \A x \in due : Unexpired(x) => x \in Served

(* The first half of a space belongs to long-running nodes: an info there  *)
(* goes only by expiry or by a put of its own author, never by a newcomer  *)
(* to a full space and never by the prune thread.                          *)
LongRunningStay ==
  [][\A i \in DOMAIN list :
       i <= MaxEntries \div 2 /\ Unexpired(list[i]) /\ list[i].agent \notin Listed(list')
         => \E w \in Workers : doing[w].pc = "update"
                               /\ doing[w].entry.agent = list[i].agent]_storeVars

(* A put of an agent that is not stored yet is stored, once it is answered *)
(* with success.                                                           *)
PutIsStored ==
  [][\A w \in Workers :
       /\ doing[w].pc \in {"update", "orphan"}
       /\ doing'[w].pc = "idle"
       /\ Unexpired(doing[w].entry) /\ ~doing[w].entry.is_tombstone
       => doing[w].entry.agent \in {x.agent : x \in Served'}]_storeVars
=============================================================================
