------------------------------- MODULE Spaces -------------------------------
(***************************************************************************)
(* One space id of a Kitsune instance: space and remove_space with their   *)
(* shared future, the construction of the space, the transport's tables of *)
(* space and module handlers, and how the transport's addresses (its own   *)
(* and that of a relay configured for the space) reach the space. One      *)
(* remote peer stands for the connections remove_space closes.             *)
(* A generation is one construction of the space.                          *)
(***************************************************************************)
EXTENDS Integers, FiniteSets

CONSTANTS
    Callers,  \* tasks of the host that call space and remove_space
    MaxGens,  \* constructions of the space
    MaxUrl    \* addresses the transport gets for itself

ASSUME SpacesAssumption == MaxGens \in Nat \ {0} /\ MaxUrl \in Nat

VARIABLES
    host,     \* has the host registered its handler
    map,      \* CoreKitsune::map: the generation in the map, 0 for none
    fut,      \* how far each generation is
    override, \* generations with a relay of their own in their config
    call,     \* per caller, the call it is in and the generation it is about
    held,     \* generations the host got from space and has not removed
    agents,   \* generations with local agents
    spaceMap, \* the registered space handler, by generation
    modMap,   \* the registered module handlers, by generation
    local,    \* the transport's own current url, 0 before the first
    watch,    \* the watch loop: the address it hands out and to whom
    relay,    \* per generation, the task that inserts its relay
    managed,  \* is the space in per_space_managed
    pending,  \* pending_space_urls, 0 for none
    url,      \* per generation, current_url
    missed,   \* history: generations that lost an address in a known window
    crossed   \* history: generations a call for which met a removal

spacesVars == <<host, map, fut, override, call, held, agents, spaceMap, modMap,
                local, watch, relay, managed, pending, url, missed, crossed>>
calls == <<host, map, override, call, held, agents, crossed>>
hub   == <<spaceMap, modMap>>
urls  == <<local, watch, relay, managed, pending, url, missed>>

Gens == 1 .. MaxGens
Own  == MaxUrl + 1                     \* the url at the space's own relay
Idle == [op |-> "idle", gen |-> 0]
NoWatch == [step |-> "wait", to |-> 0]

(* Past the check of remove_space and not yet through with unregistering.  *)
Closing(c) == call[c].op \in {"remove", "unregister", "retain"}

BeingRemoved(g) == \E c \in Callers : Closing(c) /\ call[c].gen = g

(* What a generation that is created now can run into: a removal of an     *)
(* earlier one, or what is left of a generation that ran into one.         *)
Removing == \E c \in Callers : Closing(c) \/ call[c].op = "await"

Leftover(g) == \/ fut[g] \in {"creating", "modules", "handler", "cyclic"}
               \/ g \in {spaceMap, modMap}

Meets == Removing \/ \E g \in crossed : Leftover(g)

(* A panic under the lock of the space handlers poisons it: the tasks that *)
(* lock it from then on panic, and take no further step.                   *)
Poisoned == spaceMap # 0 /\ fut[spaceMap] = "panicked"

-----------------------------------------------------------------------------
(* Kitsune: space, space_if_exists and remove_space                        *)

(* The check for a handler, the creation of a transport and of the report, *)
(* then the cells are set: a second call that passed the check is refused. *)
register_handler(c) ==
    /\ call[c] = Idle /\ ~host
    /\ call' = [call EXCEPT ![c] = [op |-> "register", gen |-> 0]]
    /\ UNCHANGED <<host, map, fut, override, held, agents, crossed, hub, urls>>

SetHandler(c) ==
    /\ call[c].op = "register"
    /\ call' = [call EXCEPT ![c] = Idle]
    /\ host' = TRUE \/ UNCHANGED host
    /\ UNCHANGED <<map, fut, override, held, agents, crossed, hub, urls>>

(* Occupied: share the future. Vacant: insert a new one, all under a lock. *)
space(c) ==
    /\ call[c] = Idle
    /\ \/ /\ map # 0
          /\ call' = [call EXCEPT ![c] = [op |-> "space", gen |-> map]]
          /\ crossed' = IF BeingRemoved(map) THEN crossed \cup {map} ELSE crossed
          /\ UNCHANGED <<map, fut, override>>
       \/ /\ map = 0 /\ host
          /\ \E g \in Gens, own \in BOOLEAN :
               /\ fut[g] = "unused" /\ \A h \in 1 .. g - 1 : fut[h] # "unused"
               /\ map' = g
               /\ fut' = [fut EXCEPT ![g] = "creating"]
               /\ override' = IF own THEN override \cup {g} ELSE override
               /\ call' = [call EXCEPT ![c] = [op |-> "space", gen |-> g]]
               /\ crossed' = IF Meets THEN crossed \cup {g} ELSE crossed
    /\ UNCHANGED <<host, held, agents, hub, urls>>

(* The shared future is done. A failure is what every later caller gets.   *)
SpaceReturns(c) ==
    /\ call[c].op = "space"
    /\ fut[call[c].gen] \in {"alive", "failed"}
    /\ call' = [call EXCEPT ![c] = Idle]
    /\ held' = IF fut[call[c].gen] = "alive" THEN held \cup {call[c].gen} ELSE held
    /\ UNCHANGED <<host, map, fut, override, agents, crossed, hub, urls>>

remove_space(c) ==
    /\ call[c] = Idle /\ map # 0
    /\ call' = [call EXCEPT ![c] = [op |-> "await", gen |-> map]]
    /\ UNCHANGED <<host, map, fut, override, held, agents, crossed, hub, urls>>

(* A failed space is left in the map; so is one with local agents.         *)
CheckEmpty(c) ==
    LET g == call[c].gen
        passes == fut[g] = "alive" /\ g \notin agents
        shared == \E d \in Callers : call[d] = [op |-> "space", gen |-> g]
    IN  /\ call[c].op = "await" /\ fut[g] \in {"alive", "failed"}
        /\ call' = [call EXCEPT ![c] = IF passes THEN [@ EXCEPT !.op = "remove"] ELSE Idle]
        /\ crossed' = IF passes /\ shared THEN crossed \cup {g} ELSE crossed
        /\ UNCHANGED <<host, map, fut, override, held, agents, hub, urls>>

(* Whatever is in the map under this id is removed. *)
RemoveEntry(c) ==
    /\ call[c].op = "remove"
    /\ map' = 0
    /\ call' = [call EXCEPT ![c].op = "unregister"]
    /\ UNCHANGED <<host, fut, override, held, agents, crossed, hub, urls>>

(* unregister_space, one lock after the other: whatever handlers are there *)
(* under this id.  The host lets go of its handle.                         *)
unregister_space(c) ==
    /\ call[c].op = "unregister" /\ ~Poisoned
    /\ spaceMap' = 0
    /\ call' = [call EXCEPT ![c].op = "retain"]
    /\ UNCHANGED <<host, map, fut, override, held, agents, crossed, modMap, urls>>

RetainAll == UNCHANGED modMap
RetainOthers == modMap' = 0

UnregisterModules(c) ==
    /\ call[c].op = "retain"
    /\ RetainOthers
    /\ held' = held \ {call[c].gen}
    /\ call' = [call EXCEPT ![c] = [op |-> "peers", gen |-> 0]]
    /\ UNCHANGED <<host, map, fut, override, agents, crossed, spaceMap, urls>>

(* The connected peers are listed (some transports cannot), those in the   *)
(* peer store of another space are left out, the others are disconnected.  *)
(* One step per await; there may be no peer to spare or to disconnect.     *)
ListConnected(c) ==
    /\ call[c].op = "peers"
    /\ \/ call' = [call EXCEPT ![c] = Idle]
       \/ call' = [call EXCEPT ![c].op = "spare"]
    /\ UNCHANGED <<host, map, fut, override, held, agents, crossed, hub, urls>>

SpareShared(c) ==
    /\ call[c].op = "spare"
    /\ \/ call' = [call EXCEPT ![c] = Idle]
       \/ call' = [call EXCEPT ![c].op = "disconnect"]
    /\ UNCHANGED <<host, map, fut, override, held, agents, crossed, hub, urls>>

DisconnectPeer(c) ==
    /\ call[c].op = "disconnect"
    /\ call' = [call EXCEPT ![c] = Idle]
    /\ UNCHANGED <<host, map, fut, override, held, agents, crossed, hub, urls>>

Join(g) ==
    /\ g \in held \ agents
    /\ agents' = agents \cup {g}
    /\ UNCHANGED <<host, map, fut, override, call, held, crossed, hub, urls>>

Leave(g) ==
    /\ g \in agents
    /\ agents' = agents \ {g}
    /\ UNCHANGED <<host, map, fut, override, call, held, crossed, hub, urls>>

-----------------------------------------------------------------------------
(* CoreSpaceFactory::create                                                *)

At(g, s) == fut[g] = s
Goto(g, s) == fut' = [fut EXCEPT ![g] = s]

(* create_space of the host, and configure_for_space, which inserts the    *)
(* relay of the space in a task of its own.                                *)
Configure(g) ==
    /\ At(g, "creating") /\ Goto(g, "modules")
    /\ relay' = IF g \in override THEN [relay EXCEPT ![g] = "inserting"] ELSE relay
    /\ UNCHANGED <<calls, hub, local, watch, managed, pending, url, missed>>

(* Fetch, publish and gossip register with the transport, which panics if  *)
(* a handler is there already.                                             *)
register_module_handler(g) ==
    /\ At(g, "modules")
    /\ Goto(g, IF modMap = 0 THEN "handler" ELSE "panicked")
    /\ modMap' = g
    /\ UNCHANGED <<calls, spaceMap, urls>>

(* The host's handler, the configuration or a module fails. *)
CreateFails(g) ==
    /\ fut[g] \in {"creating", "modules", "handler"} /\ Goto(g, "failed")
    /\ UNCHANGED <<calls, hub, urls>>

RegisteredUrlIgnoringPending == local
RegisteredUrl == IF pending # 0 THEN pending ELSE local

(* register_space_handler hands back the url the space starts with. *)
register_space_handler(g) ==
    /\ At(g, "handler")
    /\ pending' = 0
    /\ Goto(g, IF spaceMap = 0 THEN "cyclic" ELSE "panicked")
    /\ spaceMap' = IF Poisoned THEN spaceMap ELSE g
    /\ url' = [url EXCEPT ![g] = RegisteredUrl]
    /\ UNCHANGED <<calls, modMap, local, watch, relay, managed, missed>>

(* Arc::new_cyclic returns: from here the handler's weak pointer works.    *)
Complete(g) ==
    /\ At(g, "cyclic") /\ Goto(g, "alive")
    /\ UNCHANGED <<calls, hub, urls>>

-----------------------------------------------------------------------------
(* TxImpHnd::new_listening_address                                         *)

(* TxHandlerTranslator: a handler whose space is not there yet drops the   *)
(* address.                                                                *)
Tell(g, u) ==
    IF At(g, "alive")
    THEN url' = [url EXCEPT ![g] = u] /\ UNCHANGED missed
    ELSE missed' = missed \cup {g} /\ UNCHANGED url

(* The watch loop sets the transport's url ... *)
NewAddress ==
    /\ watch = NoWatch /\ local < MaxUrl
    /\ local' = local + 1
    /\ watch' = [step |-> "list", to |-> 0]
    /\ UNCHANGED <<calls, fut, hub, relay, managed, pending, url, missed>>

(* ... lists the handlers that are not managed per space ...               *)
ListHandlers ==
    /\ watch.step = "list" /\ ~Poisoned
    /\ watch' = IF managed \/ spaceMap = 0 THEN NoWatch ELSE [step |-> "tell", to |-> spaceMap]
    /\ UNCHANGED <<calls, fut, hub, local, relay, managed, pending, url, missed>>

(* ... and tells them. A space that got its own relay's url in between is  *)
(* moved back to the transport's.                                          *)
Broadcast ==
    /\ watch.step = "tell" /\ watch' = NoWatch
    /\ \/ url[watch.to] # Own /\ Tell(watch.to, local)
       \/ /\ url[watch.to] = Own
          /\ missed' = missed \cup {watch.to}
          /\ url' = IF At(watch.to, "alive") THEN [url EXCEPT ![watch.to] = local] ELSE url
    /\ UNCHANGED <<calls, fut, hub, local, relay, managed, pending>>

(* The relay task of a generation has its url and marks the space; without *)
(* a handler the url is to be kept for later.                              *)
RelayInserted(g) ==
    /\ relay[g] = "inserting" /\ ~Poisoned
    /\ managed' = TRUE
    /\ IF spaceMap = 0
       THEN relay' = [relay EXCEPT ![g] = "keep"] /\ UNCHANGED <<url, missed>>
       ELSE relay' = [relay EXCEPT ![g] = "done"] /\ Tell(spaceMap, Own)
    /\ UNCHANGED <<calls, fut, hub, local, watch, pending>>

KeepUrl(g) ==
    /\ relay[g] = "keep"
    /\ relay' = [relay EXCEPT ![g] = "done"]
    /\ pending' = Own
    /\ missed' = IF spaceMap # 0 THEN missed \cup {spaceMap} ELSE missed
    /\ UNCHANGED <<calls, fut, hub, local, watch, managed, url>>

RelayFails(g) ==
    /\ relay[g] = "inserting"
    /\ relay' = [relay EXCEPT ![g] = "failed"]
    /\ UNCHANGED <<calls, fut, hub, local, watch, managed, pending, url, missed>>

-----------------------------------------------------------------------------
SpacesInit ==
    /\ host = FALSE
    /\ map = 0 /\ fut = [g \in Gens |-> "unused"] /\ override = {}
    /\ call = [c \in Callers |-> Idle] /\ held = {} /\ agents = {}
    /\ spaceMap = 0 /\ modMap = 0
    /\ local = 0 /\ watch = NoWatch /\ relay = [g \in Gens |-> "none"]
    /\ managed = FALSE /\ pending = 0 /\ url = [g \in Gens |-> 0] /\ missed = {} /\ crossed = {}

SpacesNext ==
    \/ \E c \in Callers : \/ register_handler(c) \/ SetHandler(c)
                          \/ ListConnected(c) \/ SpareShared(c) \/ DisconnectPeer(c)
                          \/ space(c) \/ SpaceReturns(c) \/ remove_space(c)
                          \/ CheckEmpty(c) \/ RemoveEntry(c)
                          \/ unregister_space(c) \/ UnregisterModules(c)
    \/ \E g \in Gens : \/ Join(g) \/ Leave(g)
                       \/ Configure(g) \/ register_module_handler(g) \/ CreateFails(g)
                       \/ register_space_handler(g) \/ Complete(g)
                       \/ RelayInserted(g) \/ KeepUrl(g) \/ RelayFails(g)
    \/ NewAddress \/ ListHandlers \/ Broadcast

SpacesSpec == SpacesInit /\ [][SpacesNext]_spacesVars

-----------------------------------------------------------------------------
Ops == {"idle", "register", "space", "await", "remove", "unregister", "retain", "peers",
        "spare", "disconnect"}

SpacesTypeOK ==
    /\ call \in [Callers -> [op : Ops, gen : 0 .. MaxGens]]
    /\ watch \in [step : {"wait", "list", "tell"}, to : 0 .. MaxGens]
    /\ watch.step = "tell" => watch.to # 0
    /\ host \in BOOLEAN /\ managed \in BOOLEAN
    /\ map \in 0 .. MaxGens /\ spaceMap \in 0 .. MaxGens /\ modMap \in 0 .. MaxGens
    /\ fut \in [Gens -> {"unused", "creating", "modules", "handler", "cyclic", "alive",
                         "failed", "panicked"}]
    /\ override \subseteq Gens /\ held \subseteq Gens
    /\ agents \subseteq Gens /\ missed \subseteq Gens /\ crossed \subseteq Gens
    /\ local \in 0 .. MaxUrl /\ pending \in {0, Own}
    /\ url \in [Gens -> 0 .. Own]
    /\ relay \in [Gens -> {"none", "inserting", "keep", "done", "failed"}]

(* However many tasks ask for the space and remove it at once, a generation *)
(* whose calls of space met no removal past its check is served: no         *)
(* construction of it runs into the handlers of another (the duplicate      *)
(* handler panics), and until it is removed itself it is the one in the map *)
(* and the one whose handlers the transport calls. Only a call of space     *)
(* beside a removal, or after one that left its remains, may lose that.     *)
HeldIsServed ==
    /\ \A g \in Gens : fut[g] = "panicked" => g \in crossed
    /\ \A g \in held \ crossed :
          BeingRemoved(g) \/ (map = g /\ spaceMap = g /\ modMap = g)

(* Whoever asks for the space gets it: an existing one, or one that is      *)
(* created. No construction runs into a handler that is registered already, *)
(* where the transport panics (register_module_handler,                     *)
(* register_space_handler).                                                 *)
SpaceIsGiven == \A g \in Gens : fut[g] # "panicked"

(* When no address is on its way, a space in use whose id was never managed *)
(* has the transport's address, and one with a relay of its own the address *)
(* there, whatever order registration, relay insertion and address changes  *)
(* took, except where its calls met a removal, or an address fell into one  *)
(* of the three windows in which the code drops it: before Arc::new_cyclic  *)
(* returned, between the lookup and the keeping of a pending url, or into a *)
(* broadcast listed before the space was managed.                           *)
AddressArrives ==
    \A g \in held \ (missed \cup crossed) :
        (watch = NoWatch /\ ~BeingRemoved(g) /\ \A h \in Gens : relay[h] \notin {"inserting", "keep"})
        => /\ relay[g] = "done" => url[g] = Own
           /\ ~managed => url[g] = local
====
