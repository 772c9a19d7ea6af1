---- MODULE NodeProofs ----
(***************************************************************************)
(* Theorems about one Kitsune node: its spaces, for any number of callers, *)
(* constructions and addresses, whatever calls the host makes beside each  *)
(* other; and whom its gossip initiates with and listens to, for any       *)
(* number of peers.                                                        *)
(***************************************************************************)
EXTENDS Spaces, Initiation, FiniteSetTheorems, TLAPS

----------------------------------------------------------------------------
(* Who is in the map is who is served.                                     *)

Building == {"creating", "modules", "handler", "cyclic"}

About(c) == call[c].op \in {"space", "await"} \/ Closing(c)

(* A generation whose calls of space met no removal.                       *)
Sound(g) == g # 0 /\ g \notin crossed

(* Nothing refers to a generation before it is created.                    *)
UsedInv ==
    /\ \A c \in Callers : About(c) => call[c].gen # 0 /\ fut[call[c].gen] # "unused"
    /\ \A g \in Gens : g \in crossed \cup {map, spaceMap, modMap} => fut[g] # "unused"

(* While a sound generation is in the map every removal under way is about *)
(* it and has not taken it out yet; a call of space that waits for a sound *)
(* generation keeps it in the map.                                         *)
CallsInv ==
    /\ \A c \in Callers :
         /\ Closing(c) => fut[call[c].gen] = "alive"
         /\ call[c].op = "space" /\ Sound(call[c].gen)
               => map = call[c].gen /\ ~BeingRemoved(call[c].gen)
    /\ Sound(map) => \A c \in Callers :
           /\ call[c].op \notin {"unregister", "retain"}
           /\ call[c].op \in {"await", "remove"} => call[c].gen = map

Taking(g) == \E c \in Callers : call[c].op = "unregister" /\ call[c].gen = g

Unregistering(g) ==
    \E c \in Callers : call[c].op \in {"unregister", "retain"} /\ call[c].gen = g

(* A sound generation is built in the map, alone, and finds no handlers;   *)
(* out of the map it has handlers only while its removal takes them.       *)
HandlersInv ==
    /\ \A g \in Gens \ crossed :
         /\ fut[g] # "panicked"
         /\ fut[g] \in Building => map = g
         /\ spaceMap = g /\ map # g => Taking(g)
         /\ modMap = g /\ map # g => Unregistering(g)
    /\ Sound(map) =>
         /\ \A g \in Gens \ {map} : fut[g] \notin Building
         /\ fut[map] \in {"creating", "modules"} => modMap = 0
         /\ fut[map] \in {"creating", "modules", "handler", "failed"} => spaceMap = 0
         /\ fut[map] \in {"handler", "cyclic", "alive"} => modMap = map
         /\ fut[map] \in {"cyclic", "alive"} => spaceMap = map

HeldInv ==
    \A g \in held : /\ fut[g] = "alive"
                    /\ g \notin crossed => map = g \/ Unregistering(g)

ServedInv == SpacesTypeOK /\ UsedInv /\ CallsInv /\ HandlersInv /\ HeldInv

(* The url of the registered generation, but for the three windows.        *)
AddressInv ==
    /\ \A g \in Gens :
         /\ relay[g] # "none" => fut[g] \notin {"unused", "creating"}
         /\ relay[g] \in {"keep", "done"} => managed
         /\ relay[g] = "done" /\ fut[g] \in {"modules", "handler"} /\ g \notin crossed
               => pending = Own
    /\ pending # 0 => managed
    /\ Sound(spaceMap) /\ spaceMap \notin missed =>
         /\ relay[spaceMap] = "done" => url[spaceMap] = Own
         /\ ~managed => \/ url[spaceMap] = local
                        \/ watch.step = "list"
                        \/ watch.step = "tell" /\ watch.to = spaceMap

(* Every step keeps the types. *)
LEMMA TypeStep ==
    ASSUME SpacesTypeOK, UsedInv, [SpacesNext]_spacesVars
    PROVE  SpacesTypeOK'
<1> USE SpacesAssumption DEF SpacesTypeOK, UsedInv, About, Closing, Gens, Ops, Idle, calls, hub, urls
<1>1. ASSUME NEW c \in Callers, register_handler(c) PROVE SpacesTypeOK'
    BY <1>1 DEF register_handler
<1>2. ASSUME NEW c \in Callers, SetHandler(c) PROVE SpacesTypeOK'
    <2>1. call' \in [Callers -> [op : Ops, gen : 0 .. MaxGens]]
        BY <1>2 DEF SetHandler
    <2>2. host' \in BOOLEAN /\ managed' \in BOOLEAN
        BY <1>2 DEF SetHandler
    <2>3. QED
        BY <1>2, <2>1, <2>2 DEF SetHandler
<1>3. ASSUME NEW c \in Callers, ListConnected(c) PROVE SpacesTypeOK'
    <2>1. CASE call' = [call EXCEPT ![c] = Idle]
        BY <1>3, <2>1 DEF ListConnected
    <2>2. CASE call' = [call EXCEPT ![c].op = "spare"]
        BY <1>3, <2>2 DEF ListConnected
    <2>3. QED
        BY <1>3, <2>1, <2>2 DEF ListConnected
<1>4. ASSUME NEW c \in Callers, SpareShared(c) PROVE SpacesTypeOK'
    <2>1. CASE call' = [call EXCEPT ![c] = Idle]
        BY <1>4, <2>1 DEF SpareShared
    <2>2. CASE call' = [call EXCEPT ![c].op = "disconnect"]
        BY <1>4, <2>2 DEF SpareShared
    <2>3. QED
        BY <1>4, <2>1, <2>2 DEF SpareShared
<1>5. ASSUME NEW c \in Callers, DisconnectPeer(c) PROVE SpacesTypeOK'
    BY <1>5, SMTT(30) DEF DisconnectPeer
<1>6. ASSUME NEW c \in Callers, space(c) PROVE SpacesTypeOK'
    <2>1. \E g \in Gens : call' = [call EXCEPT ![c] = [op |-> "space", gen |-> g]]
        BY <1>6 DEF space
    <2>2. call' \in [Callers -> [op : Ops, gen : 0 .. MaxGens]]
        BY <1>6, <2>1 DEF space
    <2>3. host' \in BOOLEAN /\ managed' \in BOOLEAN
        BY <1>6 DEF space
    <2>4. map' \in 0 .. MaxGens
        BY <1>6 DEF space
    <2>5. override' = override \/ \E g \in Gens : override' = override \cup {g}
        BY <1>6 DEF space
    <2>6. override' \subseteq Gens
        <3>1. override \subseteq Gens
            OBVIOUS
        <3>2. QED
            BY ONLY <2>5, <3>1
    <2>7. fut' = fut \/ \E g \in Gens : fut' = [fut EXCEPT ![g] = "creating"]
        BY <1>6 DEF space
    <2>8. fut' \in [Gens -> {"unused", "creating", "modules", "handler", "cyclic", "alive",
                              "failed", "panicked"}]
        BY <1>6, <2>7 DEF space
    <2>9. crossed' = crossed \/ \E g \in Gens : crossed' = crossed \cup {g}
        BY <1>6 DEF space
    <2>10. crossed' \subseteq Gens
        BY <1>6, <2>9 DEF space
    <2>11. QED
        BY <1>6, <2>1, <2>2, <2>3, <2>4, <2>5, <2>6, <2>7, <2>8, <2>9, <2>10 DEF space
<1>7. ASSUME NEW c \in Callers, SpaceReturns(c) PROVE SpacesTypeOK'
    <2>1. call' \in [Callers -> [op : Ops, gen : 0 .. MaxGens]]
        BY <1>7 DEF SpaceReturns
    <2>2. held' = held \/ (call[c].gen \in Gens /\ held' = held \cup {call[c].gen})
        BY <1>7 DEF SpaceReturns
    <2>3. held' \subseteq Gens
        BY <1>7, <2>2 DEF SpaceReturns
    <2>4. host' \in BOOLEAN /\ managed' \in BOOLEAN
        BY <1>7 DEF SpaceReturns
    <2>5. QED
        BY <1>7, <2>1, <2>2, <2>3, <2>4 DEF SpaceReturns
<1>8. ASSUME NEW c \in Callers, remove_space(c) PROVE SpacesTypeOK'
    BY <1>8 DEF remove_space
<1>9. ASSUME NEW c \in Callers, CheckEmpty(c) PROVE SpacesTypeOK'
    <2>1. call' \in [Callers -> [op : Ops, gen : 0 .. MaxGens]]
        BY <1>9 DEF CheckEmpty
    <2>2. UNCHANGED <<host, managed, fut, held, override, agents, hub, urls>>
        BY <1>9 DEF CheckEmpty
    <2>3. map' = map /\ crossed' \subseteq Gens
        BY <1>9 DEF CheckEmpty
    <2>4. QED
        BY <2>1, <2>2, <2>3, SMTT(30)
<1>10. ASSUME NEW c \in Callers, RemoveEntry(c) PROVE SpacesTypeOK'
    <2>1. call' \in [Callers -> [op : Ops, gen : 0 .. MaxGens]]
        BY <1>10 DEF RemoveEntry
    <2>2. UNCHANGED <<host, managed, fut, override, held, agents, crossed, hub, urls>>
        BY <1>10 DEF RemoveEntry
    <2>3. map' = 0
        BY <1>10 DEF RemoveEntry
    <2>4. QED
        BY <2>1, <2>2, <2>3, SMTT(30)
<1>11. ASSUME NEW c \in Callers, unregister_space(c) PROVE SpacesTypeOK'
    <2>1. call' \in [Callers -> [op : Ops, gen : 0 .. MaxGens]]
        BY <1>11 DEF unregister_space
    <2>2. UNCHANGED <<host, managed, map, fut, override, held, agents, crossed, modMap, urls>>
        BY <1>11 DEF unregister_space
    <2>3. spaceMap' = 0
        BY <1>11 DEF unregister_space
    <2>4. QED
        BY <2>1, <2>2, <2>3, SMTT(30)
<1>12. ASSUME NEW c \in Callers, UnregisterModules(c) PROVE SpacesTypeOK'
    <2>1. call' \in [Callers -> [op : Ops, gen : 0 .. MaxGens]]
        BY <1>12 DEF UnregisterModules, RetainOthers
    <2>2. UNCHANGED <<host, managed, map, fut, override, agents, crossed, spaceMap, urls>>
        BY <1>12 DEF UnregisterModules, RetainOthers
    <2>3. held' \subseteq Gens /\ modMap' = 0
        BY <1>12 DEF UnregisterModules, RetainOthers
    <2>4. QED
        BY <2>1, <2>2, <2>3, SMTT(30)
<1>13. ASSUME NEW g \in Gens, Join(g) PROVE SpacesTypeOK'
    BY <1>13 DEF Join
<1>14. ASSUME NEW g \in Gens, Leave(g) PROVE SpacesTypeOK'
    BY <1>14 DEF Leave
<1>15. ASSUME NEW g \in Gens, Configure(g) PROVE SpacesTypeOK'
    BY <1>15 DEF Configure, At, Goto
<1>16. ASSUME NEW g \in Gens, register_module_handler(g) PROVE SpacesTypeOK'
    BY <1>16 DEF register_module_handler, At, Goto
<1>17. ASSUME NEW g \in Gens, CreateFails(g) PROVE SpacesTypeOK'
    BY <1>17 DEF CreateFails, Goto
<1>18. ASSUME NEW g \in Gens, register_space_handler(g) PROVE SpacesTypeOK'
    <2>1. url' \in [Gens -> 0 .. Own]
        BY <1>18 DEF register_space_handler, At, Goto, RegisteredUrl, Own, Poisoned
    <2>2. fut' \in [Gens -> {"unused", "creating", "modules", "handler", "cyclic", "alive",
                              "failed", "panicked"}]
        BY <1>18 DEF register_space_handler, At, Goto, RegisteredUrl, Own, Poisoned
    <2>3. UNCHANGED <<calls, modMap, local, watch, relay, managed, missed>>
        BY <1>18 DEF register_space_handler, At, Goto, RegisteredUrl, Own, Poisoned
    <2>4. spaceMap' \in 0 .. MaxGens /\ pending' = 0
        BY <1>18 DEF register_space_handler, At, Goto, RegisteredUrl, Own, Poisoned
    <2>5. QED
        BY <2>1, <2>2, <2>3, <2>4
<1>19. ASSUME NEW g \in Gens, Complete(g) PROVE SpacesTypeOK'
    BY <1>19 DEF Complete, At, Goto
<1>20. ASSUME NEW g \in Gens, RelayInserted(g) PROVE SpacesTypeOK'
    <2>1. url' \in [Gens -> 0 .. Own]
        BY <1>20 DEF RelayInserted, Tell, At, Own, Poisoned
    <2>2. missed' = missed \/ (spaceMap \in Gens /\ missed' = missed \cup {spaceMap})
        BY <1>20 DEF RelayInserted, Tell, At, Own, Poisoned
    <2>3. missed' \subseteq Gens
        BY <1>20, <2>2 DEF RelayInserted, Tell, At, Own, Poisoned
    <2>4. relay' \in [Gens -> {"none", "inserting", "keep", "done", "failed"}]
        BY <1>20 DEF RelayInserted, Tell, At, Own, Poisoned
    <2>5. host' \in BOOLEAN /\ managed' \in BOOLEAN
        BY <1>20 DEF RelayInserted, Tell, At, Own, Poisoned
    <2>6. QED
        BY <1>20, <2>1, <2>2, <2>3, <2>4, <2>5 DEF RelayInserted, Tell, At, Own, Poisoned
<1>21. ASSUME NEW g \in Gens, KeepUrl(g) PROVE SpacesTypeOK'
    BY <1>21 DEF KeepUrl, Own
<1>22. ASSUME NEW g \in Gens, RelayFails(g) PROVE SpacesTypeOK'
    BY <1>22 DEF RelayFails
<1>23. CASE NewAddress
    BY <1>23 DEF NewAddress, NoWatch
<1>24. CASE ListHandlers
    <2>1. watch' = NoWatch \/ (spaceMap \in Gens /\ watch' = [step |-> "tell", to |-> spaceMap])
        BY <1>24 DEF ListHandlers, NoWatch, Poisoned
    <2>2. watch' \in [step : {"wait", "list", "tell"}, to : 0 .. MaxGens]
        BY <1>24, <2>1 DEF ListHandlers, NoWatch, Poisoned
    <2>3. watch'.step = "tell" => watch'.to # 0
        BY <1>24, <2>1 DEF ListHandlers, NoWatch, Poisoned
    <2>4. host' \in BOOLEAN /\ managed' \in BOOLEAN
        BY <1>24 DEF ListHandlers, NoWatch, Poisoned
    <2>5. QED
        BY <1>24, <2>1, <2>2, <2>3, <2>4 DEF ListHandlers, NoWatch, Poisoned
<1>25. CASE Broadcast
    <2>1. watch' = NoWatch
        BY <1>25 DEF Broadcast, Tell, At, NoWatch, Own
    <2>2. watch' \in [step : {"wait", "list", "tell"}, to : 0 .. MaxGens] /\ watch'.step # "tell"
        BY <1>25, <2>1 DEF Broadcast, Tell, At, NoWatch, Own
    <2>3. local \in 0 .. Own /\ watch.to \in Gens
        BY <1>25 DEF Broadcast, Tell, At, NoWatch, Own
    <2>4. url' = url \/ url' = [url EXCEPT ![watch.to] = local]
        BY <1>25 DEF Broadcast, Tell, At, NoWatch, Own
    <2>5. url' \in [Gens -> 0 .. Own]
        BY <1>25, <2>3, <2>4 DEF Broadcast, Tell, At, NoWatch, Own
    <2>6. missed' = missed \/ missed' = missed \cup {watch.to}
        BY <1>25 DEF Broadcast, Tell, At, NoWatch, Own
    <2>7. missed' \subseteq Gens
        BY <1>25, <2>3, <2>6 DEF Broadcast, Tell, At, NoWatch, Own
    <2>8. UNCHANGED <<calls, fut, hub, local, relay, managed, pending>>
        BY <1>25 DEF Broadcast, Tell, At, NoWatch, Own
    <2>9. host' \in BOOLEAN /\ managed' \in BOOLEAN /\ crossed' \subseteq Gens
        BY <1>25 DEF Broadcast, Tell, At, NoWatch, Own
    <2>10. QED
        BY <2>1, <2>2, <2>3, <2>4, <2>5, <2>6, <2>7, <2>8, <2>9 DEF NoWatch
<1>26. CASE UNCHANGED spacesVars
    BY <1>26 DEF spacesVars
<1>27. QED
    BY <1>1, <1>2, <1>3, <1>4, <1>5, <1>6, <1>7, <1>8, <1>9, <1>10, <1>11, <1>12, <1>13, <1>14, <1>15, <1>16, <1>17, <1>18, <1>19, <1>20, <1>21, <1>22, <1>23, <1>24, <1>25, <1>26 DEF SpacesNext

(* Nothing refers to a generation before it is created. *)
LEMMA UsedStep ==
    ASSUME ServedInv, [SpacesNext]_spacesVars
    PROVE  UsedInv'
<1> USE SpacesAssumption DEF ServedInv, SpacesTypeOK, UsedInv, CallsInv, About, Closing, Building, Gens, Ops, Idle, calls, hub, urls
<1>1. ASSUME NEW c \in Callers, register_handler(c) PROVE UsedInv'
    BY <1>1 DEF register_handler
<1>2. ASSUME NEW c \in Callers, SetHandler(c) PROVE UsedInv'
    BY <1>2 DEF SetHandler
<1>3. ASSUME NEW c \in Callers, ListConnected(c) PROVE UsedInv'
    <2>1. CASE call' = [call EXCEPT ![c] = Idle]
        BY <1>3, <2>1 DEF ListConnected
    <2>2. CASE call' = [call EXCEPT ![c].op = "spare"]
        BY <1>3, <2>2 DEF ListConnected
    <2>3. QED
        BY <1>3, <2>1, <2>2 DEF ListConnected
<1>4. ASSUME NEW c \in Callers, SpareShared(c) PROVE UsedInv'
    <2>1. CASE call' = [call EXCEPT ![c] = Idle]
        BY <1>4, <2>1 DEF SpareShared
    <2>2. CASE call' = [call EXCEPT ![c].op = "disconnect"]
        BY <1>4, <2>2 DEF SpareShared
    <2>3. QED
        BY <1>4, <2>1, <2>2 DEF SpareShared
<1>5. ASSUME NEW c \in Callers, DisconnectPeer(c) PROVE UsedInv'
    BY <1>5, SMTT(30) DEF DisconnectPeer
<1>6. ASSUME NEW c \in Callers, space(c) PROVE UsedInv'
    <2>1. fut' = fut \/ \E g \in Gens : fut' = [fut EXCEPT ![g] = "creating"]
        BY <1>6 DEF space
    <2>2. \A h \in Gens : fut[h] # "unused" => fut'[h] # "unused"
        BY <1>6, <2>1 DEF space
    <2>3. map' \in Gens /\ fut'[map'] # "unused"
        BY <1>6 DEF space
    <2>4. call' = [call EXCEPT ![c] = [op |-> "space", gen |-> map']]
        BY <1>6 DEF space
    <2>5. crossed' \subseteq crossed \cup {map'}
        BY <1>6 DEF space
    <2>6. \A d \in Callers : About(d)' => call'[d].gen # 0 /\ fut'[call'[d].gen] # "unused"
        BY <1>6, <2>2, <2>3, <2>4 DEF space
    <2>7. QED
        BY <1>6, <2>1, <2>2, <2>3, <2>4, <2>5, <2>6 DEF space
<1>7. ASSUME NEW c \in Callers, SpaceReturns(c) PROVE UsedInv'
    BY <1>7 DEF SpaceReturns
<1>8. ASSUME NEW c \in Callers, remove_space(c) PROVE UsedInv'
    BY <1>8 DEF remove_space
<1>9. ASSUME NEW c \in Callers, CheckEmpty(c) PROVE UsedInv'
    BY <1>9 DEF CheckEmpty
<1>10. ASSUME NEW c \in Callers, RemoveEntry(c) PROVE UsedInv'
    BY <1>10 DEF RemoveEntry
<1>11. ASSUME NEW c \in Callers, unregister_space(c) PROVE UsedInv'
    BY <1>11 DEF unregister_space
<1>12. ASSUME NEW c \in Callers, UnregisterModules(c) PROVE UsedInv'
    BY <1>12 DEF UnregisterModules, RetainOthers
<1>13. ASSUME NEW g \in Gens, Join(g) PROVE UsedInv'
    BY <1>13 DEF Join
<1>14. ASSUME NEW g \in Gens, Leave(g) PROVE UsedInv'
    BY <1>14 DEF Leave
<1>15. ASSUME NEW g \in Gens, Configure(g) PROVE UsedInv'
    BY <1>15 DEF Configure, At, Goto
<1>16. ASSUME NEW g \in Gens, register_module_handler(g) PROVE UsedInv'
    BY <1>16 DEF register_module_handler, At, Goto
<1>17. ASSUME NEW g \in Gens, CreateFails(g) PROVE UsedInv'
    BY <1>17 DEF CreateFails, Goto
<1>18. ASSUME NEW g \in Gens, register_space_handler(g) PROVE UsedInv'
    BY <1>18, SMTT(30) DEF register_space_handler, At, Goto, RegisteredUrl, Own, Poisoned
<1>19. ASSUME NEW g \in Gens, Complete(g) PROVE UsedInv'
    BY <1>19 DEF Complete, At, Goto
<1>20. ASSUME NEW g \in Gens, RelayInserted(g) PROVE UsedInv'
    BY <1>20, SMTT(30) DEF RelayInserted, Tell, At, Own, Poisoned
<1>21. ASSUME NEW g \in Gens, KeepUrl(g) PROVE UsedInv'
    BY <1>21 DEF KeepUrl, Own
<1>22. ASSUME NEW g \in Gens, RelayFails(g) PROVE UsedInv'
    BY <1>22 DEF RelayFails
<1>23. CASE NewAddress
    BY <1>23 DEF NewAddress, NoWatch
<1>24. CASE ListHandlers
    BY <1>24 DEF ListHandlers, NoWatch, Poisoned
<1>25. CASE Broadcast
    BY <1>25 DEF Broadcast, Tell, At, NoWatch, Own
<1>26. CASE UNCHANGED spacesVars
    BY <1>26 DEF spacesVars
<1>27. QED
    BY <1>1, <1>2, <1>3, <1>4, <1>5, <1>6, <1>7, <1>8, <1>9, <1>10, <1>11, <1>12, <1>13, <1>14, <1>15, <1>16, <1>17, <1>18, <1>19, <1>20, <1>21, <1>22, <1>23, <1>24, <1>25, <1>26 DEF SpacesNext

(* A call of space puts no sound generation beside a removal. *)
LEMMA CallsSpace ==
    ASSUME ServedInv, NEW c \in Callers, space(c)
    PROVE  CallsInv'
<1>1. /\ call \in [Callers -> [op : Ops, gen : 0 .. MaxGens]]
      /\ map \in 0 .. MaxGens /\ fut \in [Gens -> {"unused", "creating", "modules", "handler",
                                                   "cyclic", "alive", "failed", "panicked"}]
    BY DEF ServedInv, SpacesTypeOK
<1>2. ASSUME NEW d \in Callers, About(d) PROVE call[d].gen # 0 /\ fut[call[d].gen] # "unused"
    BY <1>2 DEF ServedInv, UsedInv
<1>3. ASSUME NEW d \in Callers, Closing(d) PROVE fut[call[d].gen] = "alive"
    BY <1>3 DEF ServedInv, CallsInv
<1>4. ASSUME NEW d \in Callers, call[d].op = "space", Sound(call[d].gen)
      PROVE  map = call[d].gen /\ ~BeingRemoved(call[d].gen)
    BY <1>4 DEF ServedInv, CallsInv
<1>5. ASSUME NEW d \in Callers, Sound(map)
      PROVE  /\ call[d].op \notin {"unregister", "retain"}
             /\ call[d].op \in {"await", "remove"} => call[d].gen = map
    BY <1>5 DEF ServedInv, CallsInv
<1>6. CASE map # 0
    <2>1. UNCHANGED <<map, fut>>
        BY <1>6 DEF space
    <2>2. call[c].op = "idle" /\ call' = [call EXCEPT ![c] = [op |-> "space", gen |-> map]]
        BY <1>6 DEF space, Idle
    <2>3. crossed' = IF BeingRemoved(map) THEN crossed \cup {map} ELSE crossed
        BY <1>6 DEF space
    <2>4. ASSUME NEW d \in Callers, d # c PROVE call'[d] = call[d]
        BY <1>1, <2>2, <2>4
    <2>5. call'[c].op = "space" /\ call'[c].gen = map
        BY <1>1, <2>2
    <2>6. ASSUME NEW d \in Callers, Closing(d)' PROVE Closing(d) /\ call'[d] = call[d]
        BY <2>4, <2>5, <2>6 DEF Closing
    <2>7. ASSUME NEW g, BeingRemoved(g)' PROVE BeingRemoved(g)
        BY <2>6, <2>7 DEF BeingRemoved
    <2>8. ASSUME NEW g, Sound(g)' PROVE Sound(g) /\ (g = map => ~BeingRemoved(map))
        BY <2>3, <2>8 DEF Sound
    <2>9. ASSUME NEW d \in Callers, call'[d].op = "space", Sound(call[d].gen)'
          PROVE  map' = call'[d].gen /\ ~BeingRemoved(call[d].gen)'
        <3>1. Sound(call'[d].gen) /\ (call'[d].gen = map => ~BeingRemoved(map))
            BY <2>8, <2>9 DEF Sound
        <3>2. map = call'[d].gen /\ ~BeingRemoved(call'[d].gen)
            BY <1>4, <2>4, <2>5, <2>9, <3>1
        <3>3. QED
            BY <2>1, <2>6, <3>2 DEF BeingRemoved
    <2>10. ASSUME NEW d \in Callers, Sound(map)'
           PROVE  /\ call'[d].op \notin {"unregister", "retain"}
                  /\ call'[d].op \in {"await", "remove"} => call'[d].gen = map'
        <3>1. Sound(map)
            BY <2>1, <2>8, <2>10 DEF Sound
        <3>2. QED
            BY <1>5, <2>1, <2>4, <2>5, <3>1
    <2>11. QED
        BY <1>3, <2>1, <2>6, <2>9, <2>10 DEF CallsInv
<1>7. CASE map = 0
    <2>1. PICK g \in Gens : /\ fut[g] = "unused" /\ map' = g
                            /\ fut' = [fut EXCEPT ![g] = "creating"]
                            /\ call' = [call EXCEPT ![c] = [op |-> "space", gen |-> g]]
                            /\ crossed' = IF Meets THEN crossed \cup {g} ELSE crossed
        BY <1>7 DEF space
    <2>2. call[c].op = "idle"
        BY DEF space, Idle
    <2>3. ASSUME NEW d \in Callers, d # c PROVE call'[d] = call[d]
        BY <1>1, <2>1, <2>3
    <2>4. call'[c].op = "space" /\ call'[c].gen = g
        BY <1>1, <2>1
    <2>5. ASSUME NEW d \in Callers, Closing(d)'
          PROVE  Closing(d) /\ fut'[call'[d].gen] = "alive" /\ call'[d].gen # g
        <3>1. Closing(d) /\ call'[d] = call[d]
            BY <2>3, <2>4, <2>5 DEF Closing
        <3>2. fut[call[d].gen] = "alive" /\ fut[call[d].gen] # fut[g]
            BY <1>3, <2>1, <3>1
        <3>3. QED
            BY <1>1, <1>2, <2>1, <3>1, <3>2 DEF About, Gens
    <2>6. ~BeingRemoved(g)'
        BY <2>5 DEF BeingRemoved
    <2>7. ASSUME NEW d \in Callers, call'[d].op = "space", Sound(call[d].gen)'
          PROVE  call'[d].gen = g
        <3>1. CASE d = c
            BY <2>4, <3>1
        <3>2. CASE d # c
            <4>1. call'[d] = call[d] /\ call[d].op = "space"
                BY <2>3, <2>7, <3>2
            <4>2. Sound(call[d].gen)
                BY <2>1, <2>7, <4>1 DEF Sound
            <4>3. QED
                BY <1>4, <1>7, <4>1, <4>2 DEF Sound
        <3>3. QED
            BY <3>1, <3>2
    <2>8. ASSUME NEW d \in Callers, call'[d].op = "space", Sound(call[d].gen)'
          PROVE  map' = call'[d].gen /\ ~BeingRemoved(call[d].gen)'
        BY <2>1, <2>5, <2>7, <2>8 DEF BeingRemoved
    <2>9. ASSUME NEW d \in Callers, Sound(map)'
          PROVE  call'[d].op \notin {"await", "remove", "unregister", "retain"}
        <3>1. ~Removing
            BY <2>1, <2>9 DEF Sound, Meets
        <3>2. call[d].op \notin {"await", "remove", "unregister", "retain"}
            BY <3>1 DEF Removing, Closing
        <3>3. QED
            BY <2>3, <2>4, <3>2
    <2>10. QED
        BY <2>5, <2>8, <2>9 DEF CallsInv
<1>8. QED
    BY <1>6, <1>7

(* A removal takes a sound generation out of the map to unregister it. *)
LEMMA RemovesSound ==
    ASSUME ServedInv, NEW c \in Callers, RemoveEntry(c)
    PROVE  /\ map' = 0 /\ UNCHANGED <<fut, spaceMap, modMap, crossed, held>>
           /\ \A h \in Gens \ crossed :
                 map = h => fut[h] = "alive" /\ Taking(h)' /\ Unregistering(h)'
<1>1. call \in [Callers -> [op : Ops, gen : 0 .. MaxGens]]
    BY DEF ServedInv, SpacesTypeOK
<1>2. map' = 0 /\ UNCHANGED <<fut, spaceMap, modMap, crossed, held>>
    BY DEF RemoveEntry, hub
<1>3. call'[c].op = "unregister" /\ call'[c].gen = call[c].gen
    BY <1>1 DEF RemoveEntry
<1>4. ASSUME NEW h \in Gens \ crossed, map = h
      PROVE  fut[h] = "alive" /\ Taking(h)' /\ Unregistering(h)'
    <2>1. call[c].op = "remove"
        BY DEF RemoveEntry
    <2>2. Sound(map)
        BY <1>4, SpacesAssumption DEF Gens, Sound
    <2>3. call[c].gen = h
        BY <1>4, <2>1, <2>2 DEF ServedInv, CallsInv
    <2>4. fut[call[c].gen] = "alive"
        BY <2>1 DEF ServedInv, CallsInv, Closing
    <2>5. QED
        BY <1>3, <2>3, <2>4 DEF Taking, Unregistering
<1>5. QED
    BY <1>2, <1>4

(* A call about a generation that met no removal is about the one in the map. *)
LEMMA CallsStep ==
    ASSUME ServedInv, [SpacesNext]_spacesVars
    PROVE  CallsInv'
<1> USE SpacesAssumption DEF ServedInv, SpacesTypeOK, UsedInv, CallsInv, About, Sound, Closing, BeingRemoved, Gens, Ops, Idle, calls, hub, urls
<1>1. ASSUME NEW c \in Callers, register_handler(c) PROVE CallsInv'
    BY <1>1 DEF register_handler
<1>2. ASSUME NEW c \in Callers, SetHandler(c) PROVE CallsInv'
    BY <1>2 DEF SetHandler
<1>3. ASSUME NEW c \in Callers, ListConnected(c) PROVE CallsInv'
    <2>1. CASE call' = [call EXCEPT ![c] = Idle]
        BY <1>3, <2>1 DEF ListConnected
    <2>2. CASE call' = [call EXCEPT ![c].op = "spare"]
        BY <1>3, <2>2 DEF ListConnected
    <2>3. QED
        BY <1>3, <2>1, <2>2 DEF ListConnected
<1>4. ASSUME NEW c \in Callers, SpareShared(c) PROVE CallsInv'
    <2>1. CASE call' = [call EXCEPT ![c] = Idle]
        BY <1>4, <2>1 DEF SpareShared
    <2>2. CASE call' = [call EXCEPT ![c].op = "disconnect"]
        BY <1>4, <2>2 DEF SpareShared
    <2>3. QED
        BY <1>4, <2>1, <2>2 DEF SpareShared
<1>5. ASSUME NEW c \in Callers, DisconnectPeer(c) PROVE CallsInv'
    BY <1>5, SMTT(30) DEF DisconnectPeer
<1>6. ASSUME NEW c \in Callers, space(c) PROVE CallsInv'
    BY <1>6, CallsSpace
<1>7. ASSUME NEW c \in Callers, SpaceReturns(c) PROVE CallsInv'
    BY <1>7 DEF SpaceReturns
<1>8. ASSUME NEW c \in Callers, remove_space(c) PROVE CallsInv'
    BY <1>8 DEF remove_space
<1>9. ASSUME NEW c \in Callers, CheckEmpty(c) PROVE CallsInv'
    BY <1>9 DEF CheckEmpty
<1>10. ASSUME NEW c \in Callers, RemoveEntry(c) PROVE CallsInv'
    BY <1>10 DEF RemoveEntry
<1>11. ASSUME NEW c \in Callers, unregister_space(c) PROVE CallsInv'
    BY <1>11 DEF unregister_space
<1>12. ASSUME NEW c \in Callers, UnregisterModules(c) PROVE CallsInv'
    BY <1>12 DEF UnregisterModules, RetainOthers
<1>13. ASSUME NEW g \in Gens, Join(g) PROVE CallsInv'
    BY <1>13 DEF Join
<1>14. ASSUME NEW g \in Gens, Leave(g) PROVE CallsInv'
    BY <1>14 DEF Leave
<1>15. ASSUME NEW g \in Gens, Configure(g) PROVE CallsInv'
    BY <1>15 DEF Configure, At, Goto
<1>16. ASSUME NEW g \in Gens, register_module_handler(g) PROVE CallsInv'
    BY <1>16 DEF register_module_handler, At, Goto
<1>17. ASSUME NEW g \in Gens, CreateFails(g) PROVE CallsInv'
    BY <1>17 DEF CreateFails, Goto
<1>18. ASSUME NEW g \in Gens, register_space_handler(g) PROVE CallsInv'
    BY <1>18, SMTT(30) DEF register_space_handler, At, Goto, RegisteredUrl, Own, Poisoned
<1>19. ASSUME NEW g \in Gens, Complete(g) PROVE CallsInv'
    BY <1>19 DEF Complete, At, Goto
<1>20. ASSUME NEW g \in Gens, RelayInserted(g) PROVE CallsInv'
    BY <1>20, SMTT(30) DEF RelayInserted, Tell, At, Own, Poisoned
<1>21. ASSUME NEW g \in Gens, KeepUrl(g) PROVE CallsInv'
    BY <1>21 DEF KeepUrl, Own
<1>22. ASSUME NEW g \in Gens, RelayFails(g) PROVE CallsInv'
    BY <1>22 DEF RelayFails
<1>23. CASE NewAddress
    BY <1>23 DEF NewAddress, NoWatch
<1>24. CASE ListHandlers
    BY <1>24 DEF ListHandlers, NoWatch, Poisoned
<1>25. CASE Broadcast
    BY <1>25 DEF Broadcast, Tell, At, NoWatch, Own
<1>26. CASE UNCHANGED spacesVars
    BY <1>26 DEF spacesVars
<1>27. QED
    BY <1>1, <1>2, <1>3, <1>4, <1>5, <1>6, <1>7, <1>8, <1>9, <1>10, <1>11, <1>12, <1>13, <1>14, <1>15, <1>16, <1>17, <1>18, <1>19, <1>20, <1>21, <1>22, <1>23, <1>24, <1>25, <1>26 DEF SpacesNext

(* Only the two steps of unregister_space end what they do. *)
LEMMA TakingKept ==
    ASSUME SpacesTypeOK, [SpacesNext]_spacesVars
    PROVE  /\ \A h \in Gens : Taking(h) => Taking(h)' \/ spaceMap' = 0
           /\ \A h \in Gens : Unregistering(h) =>
                 Unregistering(h)' \/ (modMap' = 0 /\ h \notin held')
<1> USE SpacesAssumption DEF SpacesTypeOK, Idle, calls, hub, urls
<1>1. ASSUME NEW c \in Callers, register_handler(c) PROVE /\ \A h \in Gens : Taking(h) => Taking(h)' \/ spaceMap' = 0
           /\ \A h \in Gens : Unregistering(h) =>
                 Unregistering(h)' \/ (modMap' = 0 /\ h \notin held')
    <2>1. \A d \in Callers : call[d].op \in {"unregister", "retain"} => call'[d] = call[d]
        BY <1>1 DEF register_handler
    <2>2. QED
        BY <2>1 DEF Taking, Unregistering
<1>2. ASSUME NEW c \in Callers, SetHandler(c) PROVE /\ \A h \in Gens : Taking(h) => Taking(h)' \/ spaceMap' = 0
           /\ \A h \in Gens : Unregistering(h) =>
                 Unregistering(h)' \/ (modMap' = 0 /\ h \notin held')
    <2>1. \A d \in Callers : call[d].op \in {"unregister", "retain"} => call'[d] = call[d]
        BY <1>2 DEF SetHandler
    <2>2. QED
        BY <2>1 DEF Taking, Unregistering
<1>3. ASSUME NEW c \in Callers, ListConnected(c) PROVE /\ \A h \in Gens : Taking(h) => Taking(h)' \/ spaceMap' = 0
           /\ \A h \in Gens : Unregistering(h) =>
                 Unregistering(h)' \/ (modMap' = 0 /\ h \notin held')
    <2>1. \A d \in Callers : call[d].op \in {"unregister", "retain"} => call'[d] = call[d]
        BY <1>3 DEF ListConnected
    <2>2. QED
        BY <2>1 DEF Taking, Unregistering
<1>4. ASSUME NEW c \in Callers, SpareShared(c) PROVE /\ \A h \in Gens : Taking(h) => Taking(h)' \/ spaceMap' = 0
           /\ \A h \in Gens : Unregistering(h) =>
                 Unregistering(h)' \/ (modMap' = 0 /\ h \notin held')
    <2>1. \A d \in Callers : call[d].op \in {"unregister", "retain"} => call'[d] = call[d]
        BY <1>4 DEF SpareShared
    <2>2. QED
        BY <2>1 DEF Taking, Unregistering
<1>5. ASSUME NEW c \in Callers, DisconnectPeer(c) PROVE /\ \A h \in Gens : Taking(h) => Taking(h)' \/ spaceMap' = 0
           /\ \A h \in Gens : Unregistering(h) =>
                 Unregistering(h)' \/ (modMap' = 0 /\ h \notin held')
    <2>1. \A d \in Callers : call[d].op \in {"unregister", "retain"} => call'[d] = call[d]
        BY <1>5 DEF DisconnectPeer
    <2>2. QED
        BY <2>1 DEF Taking, Unregistering
<1>6. ASSUME NEW c \in Callers, space(c) PROVE /\ \A h \in Gens : Taking(h) => Taking(h)' \/ spaceMap' = 0
           /\ \A h \in Gens : Unregistering(h) =>
                 Unregistering(h)' \/ (modMap' = 0 /\ h \notin held')
    <2>1. \A d \in Callers : call[d].op \in {"unregister", "retain"} => call'[d] = call[d]
        BY <1>6 DEF space
    <2>2. QED
        BY <2>1 DEF Taking, Unregistering
<1>7. ASSUME NEW c \in Callers, SpaceReturns(c) PROVE /\ \A h \in Gens : Taking(h) => Taking(h)' \/ spaceMap' = 0
           /\ \A h \in Gens : Unregistering(h) =>
                 Unregistering(h)' \/ (modMap' = 0 /\ h \notin held')
    <2>1. \A d \in Callers : call[d].op \in {"unregister", "retain"} => call'[d] = call[d]
        BY <1>7 DEF SpaceReturns
    <2>2. QED
        BY <2>1 DEF Taking, Unregistering
<1>8. ASSUME NEW c \in Callers, remove_space(c) PROVE /\ \A h \in Gens : Taking(h) => Taking(h)' \/ spaceMap' = 0
           /\ \A h \in Gens : Unregistering(h) =>
                 Unregistering(h)' \/ (modMap' = 0 /\ h \notin held')
    <2>1. \A d \in Callers : call[d].op \in {"unregister", "retain"} => call'[d] = call[d]
        BY <1>8 DEF remove_space
    <2>2. QED
        BY <2>1 DEF Taking, Unregistering
<1>9. ASSUME NEW c \in Callers, CheckEmpty(c) PROVE /\ \A h \in Gens : Taking(h) => Taking(h)' \/ spaceMap' = 0
           /\ \A h \in Gens : Unregistering(h) =>
                 Unregistering(h)' \/ (modMap' = 0 /\ h \notin held')
    <2>1. \A d \in Callers : call[d].op \in {"unregister", "retain"} => call'[d] = call[d]
        BY <1>9 DEF CheckEmpty
    <2>2. QED
        BY <2>1 DEF Taking, Unregistering
<1>10. ASSUME NEW c \in Callers, RemoveEntry(c) PROVE /\ \A h \in Gens : Taking(h) => Taking(h)' \/ spaceMap' = 0
           /\ \A h \in Gens : Unregistering(h) =>
                 Unregistering(h)' \/ (modMap' = 0 /\ h \notin held')
    <2>1. \A d \in Callers : call[d].op \in {"unregister", "retain"} => call'[d] = call[d]
        BY <1>10 DEF RemoveEntry
    <2>2. QED
        BY <2>1 DEF Taking, Unregistering
<1>11. ASSUME NEW c \in Callers, unregister_space(c) PROVE /\ \A h \in Gens : Taking(h) => Taking(h)' \/ spaceMap' = 0
           /\ \A h \in Gens : Unregistering(h) =>
                 Unregistering(h)' \/ (modMap' = 0 /\ h \notin held')
    BY <1>11 DEF unregister_space, Taking, Unregistering
<1>12. ASSUME NEW c \in Callers, UnregisterModules(c) PROVE /\ \A h \in Gens : Taking(h) => Taking(h)' \/ spaceMap' = 0
           /\ \A h \in Gens : Unregistering(h) =>
                 Unregistering(h)' \/ (modMap' = 0 /\ h \notin held')
    BY <1>12 DEF UnregisterModules, RetainOthers, Taking, Unregistering
<1>13. ASSUME NEW g \in Gens, Join(g) PROVE /\ \A h \in Gens : Taking(h) => Taking(h)' \/ spaceMap' = 0
           /\ \A h \in Gens : Unregistering(h) =>
                 Unregistering(h)' \/ (modMap' = 0 /\ h \notin held')
    <2>1. \A d \in Callers : call[d].op \in {"unregister", "retain"} => call'[d] = call[d]
        BY <1>13 DEF Join
    <2>2. QED
        BY <2>1 DEF Taking, Unregistering
<1>14. ASSUME NEW g \in Gens, Leave(g) PROVE /\ \A h \in Gens : Taking(h) => Taking(h)' \/ spaceMap' = 0
           /\ \A h \in Gens : Unregistering(h) =>
                 Unregistering(h)' \/ (modMap' = 0 /\ h \notin held')
    <2>1. \A d \in Callers : call[d].op \in {"unregister", "retain"} => call'[d] = call[d]
        BY <1>14 DEF Leave
    <2>2. QED
        BY <2>1 DEF Taking, Unregistering
<1>15. ASSUME NEW g \in Gens, Configure(g) PROVE /\ \A h \in Gens : Taking(h) => Taking(h)' \/ spaceMap' = 0
           /\ \A h \in Gens : Unregistering(h) =>
                 Unregistering(h)' \/ (modMap' = 0 /\ h \notin held')
    <2>1. \A d \in Callers : call[d].op \in {"unregister", "retain"} => call'[d] = call[d]
        BY <1>15 DEF Configure, At, Goto
    <2>2. QED
        BY <2>1 DEF Taking, Unregistering
<1>16. ASSUME NEW g \in Gens, register_module_handler(g) PROVE /\ \A h \in Gens : Taking(h) => Taking(h)' \/ spaceMap' = 0
           /\ \A h \in Gens : Unregistering(h) =>
                 Unregistering(h)' \/ (modMap' = 0 /\ h \notin held')
    <2>1. \A d \in Callers : call[d].op \in {"unregister", "retain"} => call'[d] = call[d]
        BY <1>16 DEF register_module_handler, At, Goto
    <2>2. QED
        BY <2>1 DEF Taking, Unregistering
<1>17. ASSUME NEW g \in Gens, CreateFails(g) PROVE /\ \A h \in Gens : Taking(h) => Taking(h)' \/ spaceMap' = 0
           /\ \A h \in Gens : Unregistering(h) =>
                 Unregistering(h)' \/ (modMap' = 0 /\ h \notin held')
    <2>1. \A d \in Callers : call[d].op \in {"unregister", "retain"} => call'[d] = call[d]
        BY <1>17 DEF CreateFails, Goto
    <2>2. QED
        BY <2>1 DEF Taking, Unregistering
<1>18. ASSUME NEW g \in Gens, register_space_handler(g) PROVE /\ \A h \in Gens : Taking(h) => Taking(h)' \/ spaceMap' = 0
           /\ \A h \in Gens : Unregistering(h) =>
                 Unregistering(h)' \/ (modMap' = 0 /\ h \notin held')
    <2>1. \A d \in Callers : call[d].op \in {"unregister", "retain"} => call'[d] = call[d]
        BY <1>18 DEF register_space_handler, At, Goto, RegisteredUrl, Own, Poisoned
    <2>2. QED
        BY <2>1 DEF Taking, Unregistering
<1>19. ASSUME NEW g \in Gens, Complete(g) PROVE /\ \A h \in Gens : Taking(h) => Taking(h)' \/ spaceMap' = 0
           /\ \A h \in Gens : Unregistering(h) =>
                 Unregistering(h)' \/ (modMap' = 0 /\ h \notin held')
    <2>1. \A d \in Callers : call[d].op \in {"unregister", "retain"} => call'[d] = call[d]
        BY <1>19 DEF Complete, At, Goto
    <2>2. QED
        BY <2>1 DEF Taking, Unregistering
<1>20. ASSUME NEW g \in Gens, RelayInserted(g) PROVE /\ \A h \in Gens : Taking(h) => Taking(h)' \/ spaceMap' = 0
           /\ \A h \in Gens : Unregistering(h) =>
                 Unregistering(h)' \/ (modMap' = 0 /\ h \notin held')
    <2>1. \A d \in Callers : call[d].op \in {"unregister", "retain"} => call'[d] = call[d]
        BY <1>20 DEF RelayInserted, Tell, At, Own, Poisoned
    <2>2. QED
        BY <2>1 DEF Taking, Unregistering
<1>21. ASSUME NEW g \in Gens, KeepUrl(g) PROVE /\ \A h \in Gens : Taking(h) => Taking(h)' \/ spaceMap' = 0
           /\ \A h \in Gens : Unregistering(h) =>
                 Unregistering(h)' \/ (modMap' = 0 /\ h \notin held')
    <2>1. \A d \in Callers : call[d].op \in {"unregister", "retain"} => call'[d] = call[d]
        BY <1>21 DEF KeepUrl, Own
    <2>2. QED
        BY <2>1 DEF Taking, Unregistering
<1>22. ASSUME NEW g \in Gens, RelayFails(g) PROVE /\ \A h \in Gens : Taking(h) => Taking(h)' \/ spaceMap' = 0
           /\ \A h \in Gens : Unregistering(h) =>
                 Unregistering(h)' \/ (modMap' = 0 /\ h \notin held')
    <2>1. \A d \in Callers : call[d].op \in {"unregister", "retain"} => call'[d] = call[d]
        BY <1>22 DEF RelayFails
    <2>2. QED
        BY <2>1 DEF Taking, Unregistering
<1>23. CASE NewAddress
    <2>1. \A d \in Callers : call[d].op \in {"unregister", "retain"} => call'[d] = call[d]
        BY <1>23 DEF NewAddress, NoWatch
    <2>2. QED
        BY <2>1 DEF Taking, Unregistering
<1>24. CASE ListHandlers
    <2>1. \A d \in Callers : call[d].op \in {"unregister", "retain"} => call'[d] = call[d]
        BY <1>24 DEF ListHandlers, NoWatch, Poisoned
    <2>2. QED
        BY <2>1 DEF Taking, Unregistering
<1>25. CASE Broadcast
    <2>1. \A d \in Callers : call[d].op \in {"unregister", "retain"} => call'[d] = call[d]
        BY <1>25 DEF Broadcast, Tell, At, NoWatch, Own
    <2>2. QED
        BY <2>1 DEF Taking, Unregistering
<1>26. CASE UNCHANGED spacesVars
    <2>1. \A d \in Callers : call[d].op \in {"unregister", "retain"} => call'[d] = call[d]
        BY <1>26 DEF spacesVars
    <2>2. QED
        BY <2>1 DEF Taking, Unregistering
<1>27. QED
    BY <1>1, <1>2, <1>3, <1>4, <1>5, <1>6, <1>7, <1>8, <1>9, <1>10, <1>11, <1>12, <1>13, <1>14, <1>15, <1>16, <1>17, <1>18, <1>19, <1>20, <1>21, <1>22, <1>23, <1>24, <1>25, <1>26 DEF SpacesNext

(* Steps that leave the map, the stages and the handlers alone. *)
LEMMA HandlersSame ==
    ASSUME SpacesTypeOK, HandlersInv, crossed \subseteq crossed',
           UNCHANGED <<map, fut, spaceMap, modMap>>,
           \A h \in Gens : Taking(h) => Taking(h)' \/ spaceMap' = 0,
           \A h \in Gens : Unregistering(h) => Unregistering(h)' \/ modMap' = 0
    PROVE  HandlersInv'
<1>1. \A g \in Gens : g # 0
    BY SpacesAssumption DEF Gens
<1>2. QED
    BY <1>1 DEF HandlersInv, Sound

LEMMA HeldSame ==
    ASSUME HeldInv, held' \subseteq held, crossed \subseteq crossed', map' = map,
           \A h \in Gens : fut[h] = "alive" => fut'[h] = "alive", held \subseteq Gens,
           \A h \in Gens : Unregistering(h) => Unregistering(h)' \/ h \notin held'
    PROVE  HeldInv'
BY DEF HeldInv

(* The handlers of a sound generation go where it goes. *)
LEMMA HandlersStep ==
    ASSUME ServedInv, [SpacesNext]_spacesVars
    PROVE  HandlersInv'
<1> USE SpacesAssumption DEF ServedInv, SpacesTypeOK, UsedInv, CallsInv, About, Sound, Closing, Building, Gens, Ops, Idle, calls, hub, urls
<1>1. /\ \A h \in Gens : Taking(h) => Taking(h)' \/ spaceMap' = 0
      /\ \A h \in Gens : Unregistering(h) => Unregistering(h)' \/ modMap' = 0
      /\ \A h \in Gens : Unregistering(h) => Unregistering(h)' \/ h \notin held'
    BY TakingKept
<1>2. ASSUME NEW c \in Callers, register_handler(c) PROVE HandlersInv'
    BY <1>1, <1>2, HandlersSame DEF register_handler
<1>3. ASSUME NEW c \in Callers, SetHandler(c) PROVE HandlersInv'
    BY <1>1, <1>3, HandlersSame DEF SetHandler
<1>4. ASSUME NEW c \in Callers, ListConnected(c) PROVE HandlersInv'
    BY <1>1, <1>4, HandlersSame DEF ListConnected
<1>5. ASSUME NEW c \in Callers, SpareShared(c) PROVE HandlersInv'
    BY <1>1, <1>5, HandlersSame DEF SpareShared
<1>6. ASSUME NEW c \in Callers, DisconnectPeer(c) PROVE HandlersInv'
    BY <1>1, <1>6, HandlersSame DEF DisconnectPeer
<1>7. ASSUME NEW c \in Callers, space(c) PROVE HandlersInv'
    <2>1. CASE map # 0
        BY <1>1, <1>7, <2>1, HandlersSame DEF space
    <2>2. CASE map = 0
        <3>1. PICK g \in Gens : /\ fut[g] = "unused" /\ map' = g
                                /\ fut' = [fut EXCEPT ![g] = "creating"]
                                /\ crossed' = IF Meets THEN crossed \cup {g} ELSE crossed
            BY <1>7, <2>2 DEF space
        <3>2. UNCHANGED <<spaceMap, modMap>> /\ g # 0
            BY <1>7 DEF space
        <3>3. \A h \in Gens \ {g} : fut'[h] = fut[h]
            BY <3>1
        <3>4. fut'[g] = "creating" /\ g \notin {spaceMap, modMap} /\ g \notin crossed
            BY <3>1
        <3>5. ASSUME NEW h \in Gens \ crossed'
              PROVE  /\ fut'[h] # "panicked"
                     /\ fut'[h] \in Building => map' = h
                     /\ spaceMap' = h /\ map' # h => Taking(h)'
                     /\ modMap' = h /\ map' # h => Unregistering(h)'
            BY <1>1, <2>2, <3>1, <3>2, <3>3, <3>4, <3>5 DEF HandlersInv
        <3>6. ASSUME Sound(g)'
              PROVE  /\ ~Removing
                     /\ \A h \in crossed : ~Leftover(h)
            BY <3>1, <3>6 DEF Meets
        <3>7. ASSUME Sound(g)'
              PROVE  spaceMap = 0 /\ modMap = 0
            <4>1. \A h \in Gens : ~Taking(h) /\ ~Unregistering(h)
                BY <3>6, <3>7 DEF Removing, Taking, Unregistering
            <4>2. \A h \in Gens \ crossed : spaceMap # h /\ modMap # h
                BY <2>2, <4>1 DEF HandlersInv
            <4>3. \A h \in crossed : spaceMap # h /\ modMap # h
                BY <3>6, <3>7 DEF Leftover
            <4>4. spaceMap \notin Gens /\ modMap \notin Gens
                BY <4>2, <4>3 DEF Gens
            <4>5. QED
                BY <4>4
        <3>8. ASSUME Sound(g)', NEW h \in Gens \ {g}
              PROVE  fut[h] \notin Building
            BY <2>2, <3>6, <3>8 DEF Leftover, HandlersInv
        <3>9. QED
            BY <3>1, <3>2, <3>3, <3>4, <3>5, <3>7, <3>8 DEF HandlersInv
    <2>3. QED
        BY <2>1, <2>2
<1>8. ASSUME NEW c \in Callers, SpaceReturns(c) PROVE HandlersInv'
    BY <1>1, <1>8, HandlersSame DEF SpaceReturns
<1>9. ASSUME NEW c \in Callers, remove_space(c) PROVE HandlersInv'
    BY <1>1, <1>9, HandlersSame DEF remove_space
<1>10. ASSUME NEW c \in Callers, CheckEmpty(c) PROVE HandlersInv'
    BY <1>1, <1>10, HandlersSame DEF CheckEmpty
<1>11. ASSUME NEW c \in Callers, RemoveEntry(c) PROVE HandlersInv'
    BY <1>1, <1>11, RemovesSound DEF HandlersInv
<1>12. ASSUME NEW c \in Callers, unregister_space(c) PROVE HandlersInv'
    BY <1>1, <1>12 DEF unregister_space, HandlersInv
<1>13. ASSUME NEW c \in Callers, UnregisterModules(c) PROVE HandlersInv'
    BY <1>1, <1>13 DEF UnregisterModules, RetainOthers, HandlersInv
<1>14. ASSUME NEW g \in Gens, Join(g) PROVE HandlersInv'
    BY <1>1, <1>14, HandlersSame DEF Join
<1>15. ASSUME NEW g \in Gens, Leave(g) PROVE HandlersInv'
    BY <1>1, <1>15, HandlersSame DEF Leave
<1>16. ASSUME NEW g \in Gens, Configure(g) PROVE HandlersInv'
    BY <1>1, <1>16 DEF Configure, At, Goto, HandlersInv
<1>17. ASSUME NEW g \in Gens, register_module_handler(g) PROVE HandlersInv'
    BY <1>1, <1>17 DEF register_module_handler, At, Goto, HandlersInv
<1>18. ASSUME NEW g \in Gens, CreateFails(g) PROVE HandlersInv'
    BY <1>1, <1>18 DEF CreateFails, Goto, HandlersInv
<1>19. ASSUME NEW g \in Gens, register_space_handler(g) PROVE HandlersInv'
    BY <1>1, <1>19 DEF register_space_handler, At, Goto, RegisteredUrl, Own, Poisoned, HandlersInv
<1>20. ASSUME NEW g \in Gens, Complete(g) PROVE HandlersInv'
    BY <1>1, <1>20 DEF Complete, At, Goto, HandlersInv
<1>21. ASSUME NEW g \in Gens, RelayInserted(g) PROVE HandlersInv'
    BY <1>1, <1>21, HandlersSame DEF RelayInserted, Tell, At, Own, Poisoned
<1>22. ASSUME NEW g \in Gens, KeepUrl(g) PROVE HandlersInv'
    BY <1>1, <1>22, HandlersSame DEF KeepUrl, Own
<1>23. ASSUME NEW g \in Gens, RelayFails(g) PROVE HandlersInv'
    BY <1>1, <1>23, HandlersSame DEF RelayFails
<1>24. CASE NewAddress
    BY <1>1, <1>24, HandlersSame DEF NewAddress, NoWatch
<1>25. CASE ListHandlers
    BY <1>1, <1>25, HandlersSame DEF ListHandlers, NoWatch, Poisoned
<1>26. CASE Broadcast
    BY <1>1, <1>26, HandlersSame DEF Broadcast, Tell, At, NoWatch, Own
<1>27. CASE UNCHANGED spacesVars
    BY <1>1, <1>27, HandlersSame DEF spacesVars
<1>28. QED
    BY <1>2, <1>3, <1>4, <1>5, <1>6, <1>7, <1>8, <1>9, <1>10, <1>11, <1>12, <1>13, <1>14, <1>15, <1>16, <1>17, <1>18, <1>19, <1>20, <1>21, <1>22, <1>23, <1>24, <1>25, <1>26, <1>27 DEF SpacesNext

(* What the host holds stays the served one. *)
LEMMA HeldStep ==
    ASSUME ServedInv, [SpacesNext]_spacesVars
    PROVE  HeldInv'
<1> USE SpacesAssumption DEF ServedInv, SpacesTypeOK, UsedInv, CallsInv, About, Sound, Closing, Gens, Ops, Idle, calls, hub, urls
<1>1. /\ \A h \in Gens : Taking(h) => Taking(h)' \/ spaceMap' = 0
      /\ \A h \in Gens : Unregistering(h) => Unregistering(h)' \/ modMap' = 0
      /\ \A h \in Gens : Unregistering(h) => Unregistering(h)' \/ h \notin held'
    BY TakingKept
<1>2. ASSUME NEW c \in Callers, register_handler(c) PROVE HeldInv'
    BY <1>1, <1>2, HeldSame DEF register_handler
<1>3. ASSUME NEW c \in Callers, SetHandler(c) PROVE HeldInv'
    BY <1>1, <1>3, HeldSame DEF SetHandler
<1>4. ASSUME NEW c \in Callers, ListConnected(c) PROVE HeldInv'
    BY <1>1, <1>4, HeldSame DEF ListConnected
<1>5. ASSUME NEW c \in Callers, SpareShared(c) PROVE HeldInv'
    BY <1>1, <1>5, HeldSame DEF SpareShared
<1>6. ASSUME NEW c \in Callers, DisconnectPeer(c) PROVE HeldInv'
    BY <1>1, <1>6, HeldSame DEF DisconnectPeer
<1>7. ASSUME NEW c \in Callers, space(c) PROVE HeldInv'
    BY <1>1, <1>7 DEF space, HeldInv
<1>8. ASSUME NEW c \in Callers, SpaceReturns(c) PROVE HeldInv'
    BY <1>1, <1>8 DEF SpaceReturns, HeldInv
<1>9. ASSUME NEW c \in Callers, remove_space(c) PROVE HeldInv'
    BY <1>1, <1>9, HeldSame DEF remove_space
<1>10. ASSUME NEW c \in Callers, CheckEmpty(c) PROVE HeldInv'
    BY <1>1, <1>10, HeldSame DEF CheckEmpty
<1>11. ASSUME NEW c \in Callers, RemoveEntry(c) PROVE HeldInv'
    BY <1>1, <1>11, RemovesSound DEF HeldInv
<1>12. ASSUME NEW c \in Callers, unregister_space(c) PROVE HeldInv'
    BY <1>1, <1>12, HeldSame DEF unregister_space
<1>13. ASSUME NEW c \in Callers, UnregisterModules(c) PROVE HeldInv'
    BY <1>1, <1>13, HeldSame DEF UnregisterModules, RetainOthers
<1>14. ASSUME NEW g \in Gens, Join(g) PROVE HeldInv'
    BY <1>1, <1>14, HeldSame DEF Join
<1>15. ASSUME NEW g \in Gens, Leave(g) PROVE HeldInv'
    BY <1>1, <1>15, HeldSame DEF Leave
<1>16. ASSUME NEW g \in Gens, Configure(g) PROVE HeldInv'
    BY <1>1, <1>16, HeldSame DEF Configure, At, Goto
<1>17. ASSUME NEW g \in Gens, register_module_handler(g) PROVE HeldInv'
    BY <1>1, <1>17, HeldSame DEF register_module_handler, At, Goto
<1>18. ASSUME NEW g \in Gens, CreateFails(g) PROVE HeldInv'
    BY <1>1, <1>18, HeldSame DEF CreateFails, Goto
<1>19. ASSUME NEW g \in Gens, register_space_handler(g) PROVE HeldInv'
    BY <1>1, <1>19, HeldSame DEF register_space_handler, At, Goto, RegisteredUrl, Own, Poisoned
<1>20. ASSUME NEW g \in Gens, Complete(g) PROVE HeldInv'
    BY <1>1, <1>20, HeldSame DEF Complete, At, Goto
<1>21. ASSUME NEW g \in Gens, RelayInserted(g) PROVE HeldInv'
    BY <1>1, <1>21, HeldSame DEF RelayInserted, Tell, At, Own, Poisoned
<1>22. ASSUME NEW g \in Gens, KeepUrl(g) PROVE HeldInv'
    BY <1>1, <1>22, HeldSame DEF KeepUrl, Own
<1>23. ASSUME NEW g \in Gens, RelayFails(g) PROVE HeldInv'
    BY <1>1, <1>23, HeldSame DEF RelayFails
<1>24. CASE NewAddress
    BY <1>1, <1>24, HeldSame DEF NewAddress, NoWatch
<1>25. CASE ListHandlers
    BY <1>1, <1>25, HeldSame DEF ListHandlers, NoWatch, Poisoned
<1>26. CASE Broadcast
    BY <1>1, <1>26, HeldSame DEF Broadcast, Tell, At, NoWatch, Own
<1>27. CASE UNCHANGED spacesVars
    BY <1>1, <1>27, HeldSame DEF spacesVars
<1>28. QED
    BY <1>2, <1>3, <1>4, <1>5, <1>6, <1>7, <1>8, <1>9, <1>10, <1>11, <1>12, <1>13, <1>14, <1>15, <1>16, <1>17, <1>18, <1>19, <1>20, <1>21, <1>22, <1>23, <1>24, <1>25, <1>26, <1>27 DEF SpacesNext

(* The registered generation keeps the url it should have. *)
LEMMA AddressStep ==
    ASSUME ServedInv, AddressInv, [SpacesNext]_spacesVars
    PROVE  AddressInv'
<1> USE SpacesAssumption DEF ServedInv, SpacesTypeOK, UsedInv, HandlersInv, AddressInv, About, Sound, Building, Gens, Own, calls, hub, urls
<1>1. ASSUME NEW c \in Callers, register_handler(c) PROVE AddressInv'
    BY <1>1 DEF register_handler
<1>2. ASSUME NEW c \in Callers, SetHandler(c) PROVE AddressInv'
    BY <1>2 DEF SetHandler
<1>3. ASSUME NEW c \in Callers, ListConnected(c) PROVE AddressInv'
    BY <1>3 DEF ListConnected
<1>4. ASSUME NEW c \in Callers, SpareShared(c) PROVE AddressInv'
    BY <1>4 DEF SpareShared
<1>5. ASSUME NEW c \in Callers, DisconnectPeer(c) PROVE AddressInv'
    BY <1>5, SMTT(30) DEF DisconnectPeer
<1>6. ASSUME NEW c \in Callers, space(c) PROVE AddressInv'
    BY <1>6 DEF space
<1>7. ASSUME NEW c \in Callers, SpaceReturns(c) PROVE AddressInv'
    BY <1>7 DEF SpaceReturns
<1>8. ASSUME NEW c \in Callers, remove_space(c) PROVE AddressInv'
    BY <1>8 DEF remove_space
<1>9. ASSUME NEW c \in Callers, CheckEmpty(c) PROVE AddressInv'
    BY <1>9 DEF CheckEmpty
<1>10. ASSUME NEW c \in Callers, RemoveEntry(c) PROVE AddressInv'
    BY <1>10 DEF RemoveEntry
<1>11. ASSUME NEW c \in Callers, unregister_space(c) PROVE AddressInv'
    BY <1>11 DEF unregister_space
<1>12. ASSUME NEW c \in Callers, UnregisterModules(c) PROVE AddressInv'
    BY <1>12 DEF UnregisterModules, RetainOthers
<1>13. ASSUME NEW g \in Gens, Join(g) PROVE AddressInv'
    BY <1>13 DEF Join
<1>14. ASSUME NEW g \in Gens, Leave(g) PROVE AddressInv'
    BY <1>14 DEF Leave
<1>15. ASSUME NEW g \in Gens, Configure(g) PROVE AddressInv'
    BY <1>15 DEF Configure, At, Goto
<1>16. ASSUME NEW g \in Gens, register_module_handler(g) PROVE AddressInv'
    BY <1>16 DEF register_module_handler, At, Goto
<1>17. ASSUME NEW g \in Gens, CreateFails(g) PROVE AddressInv'
    BY <1>17 DEF CreateFails, Goto
<1>18. ASSUME NEW g \in Gens, register_space_handler(g) PROVE AddressInv'
    BY <1>18, SMTT(30) DEF register_space_handler, At, Goto, RegisteredUrl, Own, Poisoned
<1>19. ASSUME NEW g \in Gens, Complete(g) PROVE AddressInv'
    BY <1>19 DEF Complete, At, Goto
<1>20. ASSUME NEW g \in Gens, RelayInserted(g) PROVE AddressInv'
    BY <1>20, SMTT(30) DEF RelayInserted, Tell, At, Own, Poisoned
<1>21. ASSUME NEW g \in Gens, KeepUrl(g) PROVE AddressInv'
    BY <1>21 DEF KeepUrl, Own
<1>22. ASSUME NEW g \in Gens, RelayFails(g) PROVE AddressInv'
    BY <1>22 DEF RelayFails
<1>23. CASE NewAddress
    BY <1>23 DEF NewAddress, NoWatch
<1>24. CASE ListHandlers
    BY <1>24 DEF ListHandlers, NoWatch, Poisoned
<1>25. CASE Broadcast
    BY <1>25 DEF Broadcast, Tell, At, NoWatch, Own
<1>26. CASE UNCHANGED spacesVars
    BY <1>26 DEF spacesVars
<1>27. QED
    BY <1>1, <1>2, <1>3, <1>4, <1>5, <1>6, <1>7, <1>8, <1>9, <1>10, <1>11, <1>12, <1>13, <1>14, <1>15, <1>16, <1>17, <1>18, <1>19, <1>20, <1>21, <1>22, <1>23, <1>24, <1>25, <1>26 DEF SpacesNext

(* No space is in the map, and no handler is registered. *)
LEMMA SpacesStart == SpacesInit => ServedInv /\ AddressInv
<1> SUFFICES ASSUME SpacesInit PROVE ServedInv /\ AddressInv
    OBVIOUS
<1> USE SpacesAssumption DEF SpacesInit, Gens, Own, NoWatch, Idle
<1>1. SpacesTypeOK
    <2>1. call \in [Callers -> [op : Ops, gen : 0 .. MaxGens]]
        BY DEF Ops
    <2>2. url \in [Gens -> 0 .. Own] /\ local \in 0 .. MaxUrl
        OBVIOUS
    <2>3. host \in BOOLEAN /\ managed \in BOOLEAN
        OBVIOUS
    <2>4. QED
        BY <2>1, <2>2, <2>3 DEF SpacesTypeOK
<1>2. UsedInv
    BY DEF UsedInv, About, Closing
<1>3. CallsInv
    BY DEF CallsInv, Closing, Sound
<1>4. HandlersInv
    BY DEF HandlersInv, Building, Sound
<1>5. HeldInv
    BY DEF HeldInv
<1>6. AddressInv
    BY DEF AddressInv, Sound
<1>7. QED
    BY <1>1, <1>2, <1>3, <1>4, <1>5, <1>6 DEF ServedInv

(* What is held is what is served, but for its own removal. *)
LEMMA ServedHeld ==
    ASSUME ServedInv, NEW g \in held \ crossed, ~BeingRemoved(g)
    PROVE  map = g /\ spaceMap = g /\ modMap = g
<1>1. ~Unregistering(g)
    BY DEF BeingRemoved, Closing, Unregistering
<1>2. map = g /\ fut[g] = "alive"
    BY <1>1 DEF ServedInv, HeldInv
<1>3. Sound(map)
    BY <1>2, SpacesAssumption DEF ServedInv, SpacesTypeOK, Gens, Sound
<1>4. QED
    BY <1>2, <1>3 DEF ServedInv, HandlersInv

LEMMA ServedMeans == ServedInv => HeldIsServed
<1> SUFFICES ASSUME ServedInv PROVE HeldIsServed
    OBVIOUS
<1>1. \A g \in Gens : fut[g] = "panicked" => g \in crossed
    BY DEF ServedInv, HandlersInv
<1>2. QED
    BY <1>1, ServedHeld DEF HeldIsServed

(* The generation that is held is the registered one. *)
LEMMA AddressMeans == ServedInv /\ AddressInv => AddressArrives
<1> SUFFICES ASSUME ServedInv, AddressInv, NEW g \in held \ (missed \cup crossed),
                    watch = NoWatch, ~BeingRemoved(g)
             PROVE  /\ relay[g] = "done" => url[g] = Own
                    /\ ~managed => url[g] = local
    BY DEF AddressArrives
<1>1. spaceMap = g
    BY ServedHeld
<1>2. Sound(spaceMap) /\ spaceMap \notin missed
    BY <1>1, SpacesAssumption DEF ServedInv, SpacesTypeOK, Gens, Sound
<1>3. watch.step = "wait"
    BY DEF NoWatch
<1>4. QED
    BY <1>1, <1>2, <1>3 DEF AddressInv

(* A step keeps both parts of the invariant. *)
LEMMA SpacesStep ==
    ASSUME ServedInv, AddressInv, [SpacesNext]_spacesVars
    PROVE  ServedInv' /\ AddressInv'
<1>1. SpacesTypeOK'
    BY TypeStep DEF ServedInv
<1>2. UsedInv' /\ CallsInv' /\ HandlersInv' /\ HeldInv' /\ AddressInv'
    BY UsedStep, CallsStep, HandlersStep, HeldStep, AddressStep
<1>3. QED
    BY <1>1, <1>2 DEF ServedInv

(* However many tasks ask for, remove and create the space again, beside   *)
(* each other as they like: a generation whose calls of space met no       *)
(* removal past its check runs into no handlers of another while it is     *)
(* built, and until it is removed itself it is the one in the map and the  *)
(* one the transport serves (space, remove_space, unregister_space,        *)
(* register_space_handler, register_module_handler).                       *)
THEOREM HoldersAreServed == SpacesSpec => []HeldIsServed
<1>1. SpacesInit => ServedInv /\ AddressInv
    BY SpacesStart
<1>2. (ServedInv /\ AddressInv) /\ [SpacesNext]_spacesVars => (ServedInv /\ AddressInv)'
    BY SpacesStep
<1>3. ServedInv /\ AddressInv => HeldIsServed
    BY ServedMeans
<1>4. QED
    BY <1>1, <1>2, <1>3, PTL DEF SpacesSpec

(* Whatever order the construction of the space, the insertion of its      *)
(* relay, the transport's address changes and the host's calls took, a     *)
(* space in use whose calls met no removal ends up with the address it     *)
(* should have, except through one of the three windows in which an        *)
(* address is dropped (new_listening_address, register_space_handler, the  *)
(* watch loop of the iroh transport).                                      *)
THEOREM AddressesArrive == SpacesSpec => []AddressArrives
<1>1. SpacesInit => ServedInv /\ AddressInv
    BY SpacesStart
<1>2. (ServedInv /\ AddressInv) /\ [SpacesNext]_spacesVars => (ServedInv /\ AddressInv)'
    BY SpacesStep
<1>3. ServedInv /\ AddressInv => AddressArrives
    BY AddressMeans
<1>4. QED
    BY <1>1, <1>2, <1>3, PTL DEF SpacesSpec

----------------------------------------------------------------------------
(* Whose turn it is.                                                       *)

(* Urls that may still be picked before p: those not stamped since p. *)
Before(u, p) == ~HasStamp(u) \/ <<u, p>> \in recent
Ahead(p) == {u \in Urls \ {p} : Before(u, p)}

Others == Cardinality(Urls) - 1

(* Each pass takes a url out of those that are ahead.  A target may be     *)
(* stamped, as one that initiates with us, before the pass is counted.     *)
TurnInv(p) ==
    /\ passed[p] \in Nat
    /\ passed[p] + Cardinality(Ahead(p)) <= Others
    /\ task = "send" /\ p \in rivals =>
          /\ target # p
          /\ Before(target, p) \/ passed[p] + Cardinality(Ahead(p)) <= Others - 1
    /\ initiated.peer = p => passed[p] = 0

TurnTypes ==
    /\ recent \subseteq Urls \X Urls
    /\ DOMAIN passed = Peers
    /\ task = "send" => target \in Urls
    /\ initiated \in [peer : Urls \cup {None}, stage : {"none", "initiated", "running"}]
    /\ initiated # NoRound => initiated.peer \in Urls
    /\ accepted \subseteq Peers

(* Sizes. *)
LEMMA UrlsAre ==
    /\ IsFiniteSet(Urls)
    /\ Cardinality(Urls) \in Nat
    /\ \A p \in Peers : p \in Urls
    /\ None \notin Urls
<1>1. IsFiniteSet(Peers) /\ IsFiniteSet({Second})
    BY InitiationAssumption, FS_Singleton
<1>2. IsFiniteSet(Urls)
    BY <1>1, FS_Union DEF Urls
<1>3. QED
    BY <1>2, InitiationAssumption, FS_CardinalityType DEF Urls

LEMMA AheadSize ==
    ASSUME NEW p \in Peers, NEW S, S \subseteq Urls \ {p}
    PROVE  IsFiniteSet(S) /\ Cardinality(S) \in Nat /\ Cardinality(S) <= Others
<1>1. IsFiniteSet(Urls \ {p}) /\ Cardinality(Urls \ {p}) = Others
    BY UrlsAre, FS_RemoveElement DEF Others
<1>2. QED
    BY <1>1, FS_Subset, FS_CardinalityType

LEMMA SmallerAhead ==
    ASSUME NEW p \in Peers, NEW S, S \subseteq Urls \ {p}, NEW u \in Urls \ {p}, u \notin S
    PROVE  Cardinality(S) <= Others - 1
<1>1. S \cup {u} \subseteq Urls \ {p}
    OBVIOUS
<1>2. Cardinality(S \cup {u}) <= Others
    BY <1>1, AheadSize
<1>3. Cardinality(S \cup {u}) = Cardinality(S) + 1
    BY AheadSize, FS_AddElement
<1>4. Others \in Int /\ Cardinality(S) \in Nat
    BY UrlsAre, AheadSize DEF Others
<1>5. QED
    BY <1>2, <1>3, <1>4

(* A stamp makes a url the last one. *)
LEMMA StampIsLast ==
    ASSUME TurnTypes, NEW v \in Urls, recent' = Stamped(v)
    PROVE  /\ recent' \subseteq Urls \X Urls
           /\ \A p \in Peers : p # v => Ahead(p)' = Ahead(p) \ {v}
           /\ \A u \in Urls : u # v => Before(u, v)'
           /\ \A p \in Peers, u \in Urls : u # v /\ p # v => (Before(u, p)' <=> Before(u, p))
<1>1. \A a, b \in Urls : <<a, b>> \in recent' <=>
          \/ <<a, b>> \in recent /\ a # v /\ b # v
          \/ b = v /\ (a = v \/ HasStamp(a))
    BY DEF Stamped
<1>2. recent' \subseteq Urls \X Urls
    BY DEF Stamped, TurnTypes
<1>3. HasStamp(v)' /\ \A u \in Urls : u # v => (HasStamp(u)' <=> HasStamp(u))
    BY <1>1 DEF HasStamp
<1>4. \A p \in Peers, u \in Urls : u # v /\ p # v => (Before(u, p)' <=> Before(u, p))
    BY <1>1, <1>3, UrlsAre DEF Before
<1>5. \A p \in Peers : p # v => ~Before(v, p)'
    BY <1>1, <1>3, UrlsAre DEF Before
<1>6. \A u \in Urls : u # v => Before(u, v)'
    BY <1>1, <1>3 DEF Before
<1>7. ASSUME NEW p \in Peers, p # v PROVE Ahead(p)' = Ahead(p) \ {v}
    BY <1>4, <1>5, <1>7 DEF Ahead
<1>8. QED
    BY <1>2, <1>4, <1>6, <1>7

(* Steps that stamp nothing. *)
LEMMA TurnWithoutStamp ==
    ASSUME NEW p \in Peers, TurnInv(p), UNCHANGED recent, passed'[p] \in {passed[p], 0},
           task' = "send" => UNCHANGED <<task, target, rivals>>,
           initiated'.peer = p => initiated.peer = p
    PROVE  TurnInv(p)'
<1>1. Ahead(p)' = Ahead(p) /\ Ahead(p) \subseteq Urls \ {p}
    BY DEF Ahead, Before, HasStamp
<1>2. Cardinality(Ahead(p)) \in Nat /\ Others \in Int
    BY <1>1, AheadSize, UrlsAre DEF Others
<1>3. \A u : Before(u, p)' <=> Before(u, p)
    BY DEF Before, HasStamp
<1>4. passed'[p] \in Nat /\ passed'[p] <= passed[p]
    BY DEF TurnInv
<1>5. passed'[p] + Cardinality(Ahead(p)') <= Others
    BY <1>1, <1>2, <1>4 DEF TurnInv
<1>6. ASSUME task' = "send", p \in rivals'
      PROVE  target' # p /\ (Before(target, p)' \/ passed'[p] + Cardinality(Ahead(p)') <= Others - 1)
    <2>1. target # p /\ (Before(target, p) \/ passed[p] + Cardinality(Ahead(p)) <= Others - 1)
        BY <1>6 DEF TurnInv
    <2>2. target' = target
        BY <1>6
    <2>3. QED
        BY <1>1, <1>2, <1>3, <1>4, <2>1, <2>2 DEF TurnInv
<1>7. initiated'.peer = p => passed'[p] = 0
    BY DEF TurnInv
<1>8. QED
    BY <1>4, <1>5, <1>6, <1>7 DEF TurnInv

(* Steps that stamp a url, and end its waiting. *)
LEMMA TurnWithStamp ==
    ASSUME TurnTypes, NEW p \in Peers, TurnInv(p), NEW v \in Urls, recent' = Stamped(v),
           passed'[p] \in {passed[p], 0}, v = p => passed'[p] = 0,
           UNCHANGED <<task, target, rivals>>,
           initiated'.peer = p => initiated.peer = p
    PROVE  TurnInv(p)'
<1>1. Ahead(p) \subseteq Urls \ {p} /\ Ahead(p)' \subseteq Urls \ {p}
    BY DEF Ahead
<1>2. /\ Cardinality(Ahead(p)) \in Nat /\ Cardinality(Ahead(p)') \in Nat /\ Others \in Int
      /\ Cardinality(Ahead(p)') <= Others /\ IsFiniteSet(Ahead(p))
    BY <1>1, AheadSize, UrlsAre DEF Others
<1>3. passed[p] \in Nat /\ passed'[p] \in Nat /\ passed'[p] <= passed[p]
    BY DEF TurnInv
<1>4. initiated'.peer = p => passed'[p] = 0
    BY DEF TurnInv
<1>5. CASE p = v
    <2>1. ASSUME task' = "send", p \in rivals' PROVE target' # p /\ Before(target, p)'
        <3>1. target # p /\ target \in Urls
            BY <1>5, <2>1 DEF TurnInv, TurnTypes
        <3>2. QED
            BY <1>5, <3>1, StampIsLast
    <2>2. target' = target
        OBVIOUS
    <2>3. QED
        BY <1>2, <1>4, <1>5, <2>1, <2>2 DEF TurnInv
<1>6. CASE p # v
    <2>1. Ahead(p)' = Ahead(p) \ {v}
        BY <1>6, StampIsLast
    <2>2. Cardinality(Ahead(p)') <= Cardinality(Ahead(p))
        BY <1>2, <2>1, FS_Subset
    <2>3. passed'[p] + Cardinality(Ahead(p)') <= Others
        BY <1>2, <1>3, <2>2 DEF TurnInv
    <2>4. ASSUME task' = "send", p \in rivals'
          PROVE  target' # p /\ (Before(target, p)' \/ passed'[p] + Cardinality(Ahead(p)') <= Others - 1)
        <3>1. /\ target # p /\ target \in Urls
              /\ Before(target, p) \/ passed[p] + Cardinality(Ahead(p)) <= Others - 1
            BY <2>4 DEF TurnInv, TurnTypes
        <3>2. CASE passed[p] + Cardinality(Ahead(p)) <= Others - 1
            BY <1>2, <1>3, <2>2, <3>1, <3>2
        <3>3. CASE Before(target, p) /\ target # v
            BY <1>6, <3>1, <3>3, StampIsLast
        <3>4. CASE Before(target, p) /\ target = v
            <4>1. v \in Ahead(p)
                BY <3>1, <3>4 DEF Ahead
            <4>2. Cardinality(Ahead(p)') = Cardinality(Ahead(p)) - 1
                BY <1>2, <2>1, <4>1, FS_RemoveElement
            <4>3. QED
                BY <1>2, <1>3, <3>1, <4>2 DEF TurnInv
        <3>5. QED
            BY <3>1, <3>2, <3>3, <3>4
    <2>5. target' = target
        OBVIOUS
    <2>6. QED
        BY <1>3, <1>4, <2>3, <2>4, <2>5 DEF TurnInv
<1>7. QED
    BY <1>5, <1>6

(* initiate_gossip: the pass is counted and the target stamped. *)
LEMMA TurnPasses ==
    ASSUME TurnTypes, NEW p \in Peers, TurnInv(p), task = "send", task' = "top",
           recent' = Stamped(target),
           passed'[p] = IF p \in rivals THEN passed[p] + 1 ELSE 0,
           initiated'.peer = p => initiated.peer = p \/ target = p,
           initiated = NoRound
    PROVE  TurnInv(p)'
<1>1. Ahead(p) \subseteq Urls \ {p} /\ Ahead(p)' \subseteq Urls \ {p}
    BY DEF Ahead
<1>2. /\ Cardinality(Ahead(p)) \in Nat /\ Cardinality(Ahead(p)') \in Nat /\ Others \in Int
      /\ Cardinality(Ahead(p)') <= Others /\ IsFiniteSet(Ahead(p))
    BY <1>1, AheadSize, UrlsAre DEF Others
<1>3. target \in Urls /\ passed[p] \in Nat /\ passed'[p] \in Nat
    BY DEF TurnInv, TurnTypes
<1>4. initiated'.peer = p => target = p
    BY UrlsAre DEF NoRound
<1>5. p \in rivals => target # p
    BY DEF TurnInv
<1>6. CASE p \in rivals
    <2>1. Ahead(p)' = Ahead(p) \ {target}
        BY <1>3, <1>5, <1>6, StampIsLast
    <2>2. CASE passed[p] + Cardinality(Ahead(p)) <= Others - 1
        <3>1. Cardinality(Ahead(p)') <= Cardinality(Ahead(p))
            BY <1>2, <2>1, FS_Subset
        <3>2. passed'[p] + Cardinality(Ahead(p)') <= Others
            BY <1>2, <1>3, <1>6, <2>2, <3>1
        <3>3. QED
            BY <1>3, <1>4, <1>5, <1>6, <3>2 DEF TurnInv
    <2>3. CASE Before(target, p)
        <3>1. target \in Ahead(p)
            BY <1>3, <1>5, <1>6, <2>3 DEF Ahead
        <3>2. Cardinality(Ahead(p)') = Cardinality(Ahead(p)) - 1
            BY <1>2, <2>1, <3>1, FS_RemoveElement
        <3>3. passed'[p] + Cardinality(Ahead(p)') <= Others
            BY <1>2, <1>3, <1>6, <3>2 DEF TurnInv
        <3>4. QED
            BY <1>3, <1>4, <1>5, <1>6, <3>3 DEF TurnInv
    <2>4. QED
        BY <1>6, <2>2, <2>3 DEF TurnInv
<1>7. CASE p \notin rivals
    <2>1. passed'[p] = 0
        BY <1>7
    <2>2. passed'[p] + Cardinality(Ahead(p)') <= Others
        BY <1>2, <2>1
    <2>3. QED
        BY <1>3, <2>1, <2>2 DEF TurnInv
<1>8. QED
    BY <1>6, <1>7

(* select_next_target: nobody it could have picked comes before its pick. *)
LEMMA TurnIsPicked ==
    ASSUME NEW p \in Peers, TurnInv(p), select_next_target
    PROVE  TurnInv(p)'
<1>1. CASE task' = "send"
    <2>1. /\ target' \in select_responsive_and_least_recently_gossiped(Pool)
          /\ rivals' = Responsive(Pool) \ {target'}
        BY <1>1 DEF select_next_target
    <2>2. ASSUME p \in rivals' PROVE Before(target', p)
        <3>1. p \in Responsive(Pool)
            BY <2>1, <2>2
        <3>2. ~HasStamp(target') \/ <<target', p>> \in recent
            BY <2>1, <3>1 DEF select_responsive_and_least_recently_gossiped
        <3>3. QED
            BY <3>2 DEF Before
    <2>3. UNCHANGED <<recent, passed, initiated>>
        BY DEF select_next_target, meta
    <2>4. Ahead(p)' = Ahead(p) /\ \A u : Before(u, p)' <=> Before(u, p)
        BY <2>3 DEF Ahead, Before, HasStamp
    <2>5. p \in rivals' => target' # p
        BY <2>1
    <2>6. QED
        BY <2>2, <2>3, <2>4, <2>5 DEF TurnInv
<1>2. CASE task' # "send"
    <2>1. UNCHANGED <<recent, passed, initiated>>
        BY DEF select_next_target, meta
    <2>2. QED
        BY <1>2, <2>1, TurnWithoutStamp
<1>3. QED
    BY <1>1, <1>2

(* A timestamp is forgotten: counting starts over. *)
LEMMA TurnsStartOver ==
    ASSUME TurnTypes, NEW p \in Peers, TurnInv(p), recent' \subseteq recent,
           passed'[p] = 0, UNCHANGED <<task, target, rivals>>
    PROVE  TurnInv(p)'
<1>1. Ahead(p)' \subseteq Urls \ {p}
    BY DEF Ahead
<1>2. Cardinality(Ahead(p)') \in Nat /\ Cardinality(Ahead(p)') <= Others /\ Others \in Int
    BY <1>1, AheadSize, UrlsAre DEF Others
<1>3. ASSUME task' = "send", p \in rivals', ~Before(target, p)'
      PROVE  Cardinality(Ahead(p)') <= Others - 1
    <2>1. target \in Urls \ {p}
        BY <1>3 DEF TurnInv, TurnTypes
    <2>2. target \notin Ahead(p)'
        BY <1>3 DEF Ahead
    <2>3. QED
        BY <1>1, <2>1, <2>2, SmallerAhead
<1>4. task' = "send" /\ p \in rivals' => target' # p
    BY DEF TurnInv
<1>5. target' = target
    OBVIOUS
<1>6. QED
    BY <1>2, <1>3, <1>4, <1>5 DEF TurnInv

(* Who is picked is in the peer store or local. *)
LEMMA PickedIsUrl ==
    ASSUME NEW u \in select_responsive_and_least_recently_gossiped(Pool),
           listed \subseteq Peers
    PROVE  u \in Urls
<1>1. Known \subseteq Urls
    BY DEF Known, Urls
<1>2. Pool \subseteq Urls
    BY <1>1 DEF Pool, remove_local_agents
<1>3. QED
    BY <1>2 DEF select_responsive_and_least_recently_gossiped, Responsive

TurnsInv == TurnTypes /\ listed \subseteq Peers /\ \A p \in Peers : TurnInv(p)

LEMMA TurnTypesStep == ASSUME TurnsInv, [GossipNext]_gossipVars PROVE TurnTypes' /\ (listed \subseteq Peers)'
<1>1. CASE \/ ReadLocalAgents \/ Wake \/ WakeByForce \/ CheckRound
           \/ remove_timed_out_rounds \/ Interval \/ RoundEnds \/ UNCHANGED gossipVars
           \/ \E p \in Peers : SendInitiate(p)
    <2>1. /\ UNCHANGED <<recent, passed, listed>>
          /\ initiated' \in {initiated, NoRound}
          /\ accepted' \subseteq accepted
          /\ task' = "send" => UNCHANGED <<task, target>>
        BY <1>1 DEF ReadLocalAgents, Wake, WakeByForce, CheckRound, remove_timed_out_rounds,
                    Interval, RoundEnds, gossipVars, SendInitiate, loop, world, meta, remote
    <2>2. NoRound \in [peer : Urls \cup {None}, stage : {"none", "initiated", "running"}]
        BY DEF NoRound
    <2>3. QED
        BY <2>1, <2>2 DEF TurnsInv, TurnTypes
<1>2. CASE select_next_target
    <2>1. UNCHANGED <<recent, passed, listed, initiated, accepted>>
        BY <1>2 DEF select_next_target, world, meta
    <2>2. task' = "send" => target' \in Urls
        BY <1>2, PickedIsUrl DEF select_next_target, TurnsInv
    <2>3. QED
        BY <2>1, <2>2 DEF TurnsInv, TurnTypes
<1>3. CASE InitiateRound
    <2>1. UNCHANGED <<listed, accepted>> /\ task = "send" /\ task' = "top" /\ target \in Urls
        BY <1>3 DEF InitiateRound, world, TurnsInv, TurnTypes
    <2>2. CASE UNCHANGED <<recent, passed, initiated>>
        BY <2>1, <2>2 DEF TurnsInv, TurnTypes
    <2>3. CASE /\ recent' = Stamped(target)
               /\ passed' = [p \in Peers |-> IF p \in rivals THEN passed[p] + 1 ELSE 0]
               /\ initiated' \in {initiated, [peer |-> target, stage |-> "initiated"]}
        <3>1. recent' \subseteq Urls \X Urls
            BY <2>1, <2>3, StampIsLast DEF TurnsInv
        <3>2. QED
            BY <2>1, <2>3, <3>1 DEF TurnsInv, TurnTypes
    <2>4. QED
        BY <1>3, <2>2, <2>3 DEF InitiateRound, initiate_gossip, AfterSend, meta
<1>4. CASE Accepted
    <2>1. /\ UNCHANGED <<recent, passed, listed, accepted, task, target>>
          /\ initiated' = [initiated EXCEPT !.stage = "running"]
          /\ initiated.stage = "initiated"
        BY <1>4 DEF Accepted, loop, world, meta
    <2>2. initiated # NoRound
        BY <2>1 DEF NoRound
    <2>3. QED
        BY <2>1, <2>2 DEF TurnsInv, TurnTypes
<1>5. CASE respond_to_busy
    <2>1. /\ UNCHANGED <<passed, listed, accepted, task, target>>
          /\ initiated' = NoRound /\ recent' = Stamped(initiated.peer)
          /\ initiated.stage = "initiated"
        BY <1>5 DEF respond_to_busy, loop, world
    <2>2. initiated.peer \in Urls
        BY <2>1 DEF TurnsInv, TurnTypes, NoRound
    <2>3. recent' \subseteq Urls \X Urls
        BY <2>1, <2>2, StampIsLast DEF TurnsInv
    <2>4. NoRound \in [peer : Urls \cup {None}, stage : {"none", "initiated", "running"}]
        BY DEF NoRound
    <2>5. QED
        BY <2>1, <2>3, <2>4 DEF TurnsInv, TurnTypes
<1>6. ASSUME NEW p \in Peers, respond_to_initiate(p) PROVE TurnTypes' /\ (listed \subseteq Peers)'
    <2>1. /\ UNCHANGED <<listed, task, target>>
          /\ initiated' \in {initiated, NoRound}
          /\ accepted' \subseteq accepted \cup {p}
          /\ recent' \in {recent, Stamped(p)}
          /\ passed' \in {passed, [passed EXCEPT ![p] = 0]}
        BY <1>6 DEF respond_to_initiate, Admit, loop, world
    <2>2. recent' \subseteq Urls \X Urls
        BY <2>1, StampIsLast, UrlsAre DEF TurnsInv, TurnTypes
    <2>3. NoRound \in [peer : Urls \cup {None}, stage : {"none", "initiated", "running"}]
        BY DEF NoRound
    <2>4. QED
        BY <2>1, <2>2, <2>3 DEF TurnsInv, TurnTypes
<1>7. CASE Change
    <2>1. /\ UNCHANGED <<initiated, accepted, task, target>>
          /\ recent' \subseteq recent
          /\ passed' \in {passed, [p \in Peers |-> 0]}
        BY <1>7 DEF Change, loop, meta, world
    <2>2. listed' \subseteq Peers
        BY <1>7 DEF Change, world, TurnsInv
    <2>3. QED
        BY <2>1, <2>2 DEF TurnsInv, TurnTypes
<1>8. QED
    BY <1>1, <1>2, <1>3, <1>4, <1>5, <1>6, <1>7 DEF GossipNext

LEMMA TurnStep ==
    ASSUME TurnsInv, [GossipNext]_gossipVars, NEW p \in Peers
    PROVE  TurnInv(p)'
<1>1. TurnTypes /\ TurnInv(p) /\ NoRound.peer # p
    BY UrlsAre DEF TurnsInv, NoRound
<1>2. CASE \/ ReadLocalAgents \/ Wake \/ WakeByForce \/ CheckRound
           \/ remove_timed_out_rounds \/ Interval \/ RoundEnds \/ UNCHANGED gossipVars
           \/ \E q \in Peers : SendInitiate(q)
    <2>1. /\ UNCHANGED <<recent, passed>>
          /\ initiated' \in {initiated, NoRound}
          /\ task' = "send" => UNCHANGED <<task, target, rivals>>
        BY <1>2 DEF ReadLocalAgents, Wake, WakeByForce, CheckRound, remove_timed_out_rounds,
                    Interval, RoundEnds, gossipVars, SendInitiate, loop, world, meta, remote
    <2>2. QED
        BY <1>1, <2>1, TurnWithoutStamp
<1>3. CASE select_next_target
    BY <1>1, <1>3, TurnIsPicked
<1>4. CASE InitiateRound
    <2>1. task = "send" /\ task' = "top"
        BY <1>4 DEF InitiateRound
    <2>2. CASE UNCHANGED <<recent, passed, initiated>>
        BY <1>1, <2>1, <2>2, TurnWithoutStamp
    <2>3. CASE /\ recent' = Stamped(target) /\ initiated = NoRound
               /\ passed' = [q \in Peers |-> IF q \in rivals THEN passed[q] + 1 ELSE 0]
               /\ initiated' \in {initiated, [peer |-> target, stage |-> "initiated"]}
        <3>1. initiated'.peer = p => initiated.peer = p \/ target = p
            BY <2>3
        <3>2. passed'[p] = IF p \in rivals THEN passed[p] + 1 ELSE 0
            BY <2>3
        <3>3. QED
            BY <1>1, <2>1, <2>3, <3>1, <3>2, TurnPasses
    <2>4. QED
        BY <1>4, <2>2, <2>3 DEF InitiateRound, initiate_gossip, AfterSend, meta
<1>5. CASE Accepted
    <2>1. /\ UNCHANGED <<recent, passed, task, target, rivals>>
          /\ initiated' = [initiated EXCEPT !.stage = "running"]
        BY <1>5 DEF Accepted, loop, meta
    <2>2. initiated'.peer = initiated.peer
        BY <1>1, <2>1 DEF TurnTypes
    <2>3. QED
        BY <1>1, <2>1, <2>2, TurnWithoutStamp
<1>6. CASE respond_to_busy
    <2>1. /\ UNCHANGED <<passed, task, target, rivals>>
          /\ initiated' = NoRound /\ recent' = Stamped(initiated.peer)
          /\ initiated.stage = "initiated"
        BY <1>6 DEF respond_to_busy, loop
    <2>2. initiated.peer \in Urls
        BY <1>1, <2>1 DEF TurnTypes, NoRound
    <2>3. initiated.peer = p => passed'[p] = 0
        BY <1>1, <2>1 DEF TurnInv
    <2>4. QED
        BY <1>1, <2>1, <2>2, <2>3, TurnWithStamp
<1>7. ASSUME NEW q \in Peers, respond_to_initiate(q) PROVE TurnInv(p)'
    <2>1. UNCHANGED <<task, target, rivals>> /\ initiated' \in {initiated, NoRound}
        BY <1>7 DEF respond_to_initiate, loop
    <2>2. CASE UNCHANGED <<recent, passed>>
        BY <1>1, <2>1, <2>2, TurnWithoutStamp
    <2>3. CASE recent' = Stamped(q) /\ passed' = [passed EXCEPT ![q] = 0]
        <3>1. passed'[p] \in {passed[p], 0} /\ (q = p => passed'[p] = 0)
            BY <1>1, <2>3 DEF TurnTypes
        <3>2. q \in Urls
            BY UrlsAre
        <3>3. QED
            BY <1>1, <2>1, <2>3, <3>1, <3>2, TurnWithStamp
    <2>4. QED
        BY <1>7, <2>2, <2>3 DEF respond_to_initiate, Admit
<1>8. CASE Change
    <2>1. UNCHANGED <<task, target, rivals, initiated>>
        BY <1>8 DEF Change, loop
    <2>2. CASE UNCHANGED <<recent, passed>>
        BY <1>1, <2>1, <2>2, TurnWithoutStamp
    <2>3. CASE recent' \subseteq recent /\ passed' = [q \in Peers |-> 0]
        BY <1>1, <2>1, <2>3, TurnsStartOver
    <2>4. QED
        BY <1>8, <2>2, <2>3 DEF Change, meta, world
<1>9. QED
    BY <1>2, <1>3, <1>4, <1>5, <1>6, <1>7, <1>8 DEF GossipNext

(* For any number of peers, near or far, silent, banned or down: a peer    *)
(* that could be gossiped with is passed over at most once for each other  *)
(* url (select_next_target, initiate_gossip, respond_to_busy).             *)
THEOREM EveryPeerHasItsTurn == GossipSpec => []TurnsAreFair
<1>1. GossipInit => TurnsInv
    <2> SUFFICES ASSUME GossipInit PROVE TurnsInv
        OBVIOUS
    <2>1. TurnTypes /\ listed \subseteq Peers
        BY DEF GossipInit, TurnTypes, NoRound
    <2>2. ASSUME NEW p \in Peers PROVE TurnInv(p)
        <3>1. Ahead(p) \subseteq Urls \ {p}
            BY DEF Ahead
        <3>2. Cardinality(Ahead(p)) \in Nat /\ Cardinality(Ahead(p)) <= Others
            BY <3>1, AheadSize
        <3>3. QED
            BY <3>2, UrlsAre DEF GossipInit, TurnInv, NoRound
    <2>3. QED
        BY <2>1, <2>2 DEF TurnsInv
<1>2. TurnsInv /\ [GossipNext]_gossipVars => TurnsInv'
    BY TurnTypesStep, TurnStep DEF TurnsInv
<1>3. TurnsInv => TurnsAreFair
    <2> SUFFICES ASSUME TurnsInv, NEW p \in Peers PROVE passed[p] <= Cardinality(Urls) - 1
        BY DEF TurnsAreFair
    <2>1. Ahead(p) \subseteq Urls \ {p}
        BY DEF Ahead
    <2>2. Cardinality(Ahead(p)) \in Nat
        BY <2>1, AheadSize
    <2>3. QED
        BY <2>2, UrlsAre DEF TurnsInv, TurnInv, Others
<1>4. QED
    BY <1>1, <1>2, <1>3, PTL DEF GossipSpec

----------------------------------------------------------------------------
(* Who keeps to one initiate per interval.                                 *)

One(b) == IF b THEN 1 ELSE 0

(* Of the initiates of a polite peer that arrived in the last intervals    *)
(* there is at most one for each interval and one that was late.           *)
PoliteInv(p) ==
    /\ \A a \in Ages : /\ bursts[p][a] \in Nat
                       /\ bursts[p][a] + One(p \in underway) <= a + 1 + One(p \in sent)
    /\ p \notin refused

BurstsInv ==
    /\ bursts \in [Peers -> [Ages -> Nat]]
    /\ \A p \in Polite : PoliteInv(p)

LEMMA AgesAre == Ages # {} /\ BurstWindow - 1 \in Ages /\ Polite \subseteq Peers
                 /\ \A a \in Ages : a \in Nat /\ (a = 0 \/ a - 1 \in Ages)
    BY InitiationAssumption DEF Ages

(* An initiate arrives. *)
LEMMA BurstArrives ==
    ASSUME 1 < BurstFactor, BurstsInv, NEW q \in Peers, respond_to_initiate(q)
    PROVE  BurstsInv'
<1>1. q \in underway \cup Rude /\ underway' = underway \ {q} /\ UNCHANGED sent
    BY DEF respond_to_initiate
<1>2. \/ UNCHANGED <<bursts, refused>>
      \/ bursts' = Push(q) /\ UNCHANGED refused
      \/ UNCHANGED bursts /\ refused' = refused \cup {q} /\ ~check_accept(q)
    BY DEF respond_to_initiate
<1>3. bursts' \in [Peers -> [Ages -> Nat]]
    BY <1>2, AgesAre DEF BurstsInv, Push
<1>4. ASSUME NEW p \in Polite PROVE PoliteInv(p)'
    <2>1. p \in Peers /\ PoliteInv(p)
        BY <1>4, AgesAre DEF BurstsInv
    <2>2. CASE p # q
        <3>1. bursts'[p] = bursts[p] /\ (p \in refused' <=> p \in refused)
            BY <1>2, <2>1, <2>2 DEF BurstsInv, Push
        <3>2. p \in underway' <=> p \in underway
            BY <1>1, <2>2
        <3>3. QED
            BY <1>1, <2>1, <3>1, <3>2 DEF PoliteInv, One
    <2>3. CASE p = q
        <3>1. p \in underway /\ p \notin underway'
            BY <1>1, <1>4, <2>3, InitiationAssumption
        <3>2. \A a \in Ages : bursts[p][a] \in Nat /\ bursts[p][a] + 1 <= a + 1 + One(p \in sent)
            BY <2>1, <3>1 DEF PoliteInv, One
        <3>3. check_accept(p)
            <4>1. bursts[p][BurstWindow - 1] + 1 <= BurstWindow + 1
                BY <3>2, AgesAre, InitiationAssumption DEF One
            <4>2. 2 * BurstWindow <= BurstFactor * BurstWindow
                BY InitiationAssumption
            <4>3. QED
                BY <3>2, <4>1, <4>2, AgesAre, InitiationAssumption
                   DEF check_accept, InWindow, MaxBurst
        <3>4. p \notin refused'
            BY <1>2, <2>1, <2>3, <3>3 DEF PoliteInv
        <3>5. \A a \in Ages : bursts'[p][a] \in {bursts[p][a], bursts[p][a] + 1}
            BY <1>2, <2>1, <2>3 DEF BurstsInv, Push
        <3>6. \A a \in Ages : /\ bursts'[p][a] \in Nat
                              /\ bursts'[p][a] + 0 <= a + 1 + One(p \in sent)
            BY <3>2, <3>5, AgesAre DEF One
        <3>7. QED
            BY <1>1, <3>1, <3>4, <3>6 DEF PoliteInv, One
    <2>4. QED
        BY <2>2, <2>3
<1>5. QED
    BY <1>3, <1>4 DEF BurstsInv

LEMMA BurstsStep ==
    ASSUME 1 < BurstFactor, BurstsInv, [GossipNext]_gossipVars
    PROVE  BurstsInv'
<1>1. ASSUME NEW q \in Peers, SendInitiate(q) PROVE BurstsInv'
    <2>1. /\ UNCHANGED <<bursts, refused>> /\ q \notin sent
          /\ sent' = sent \cup {q} /\ underway' = underway \cup {q}
        BY <1>1 DEF SendInitiate
    <2>2. ASSUME NEW p \in Polite PROVE PoliteInv(p)'
        <3>1. PoliteInv(p)
            BY DEF BurstsInv
        <3>2. One(p \in underway') - One(p \in underway) <= One(p \in sent') - One(p \in sent)
            BY <2>1 DEF One
        <3>3. QED
            BY <2>1, <3>1, <3>2, AgesAre DEF PoliteInv, One
    <2>3. QED
        BY <2>1, <2>2 DEF BurstsInv
<1>2. CASE Interval
    <2>1. /\ bursts' = [p \in Peers |-> Aged(p)] /\ sent' = {}
          /\ UNCHANGED <<underway, refused>> /\ \A p \in underway : p \in sent
        BY <1>2 DEF Interval
    <2>2. ASSUME NEW p \in Peers
          PROVE  \A a \in Ages : bursts'[p][a] = IF a = 0 THEN 0 ELSE bursts[p][a - 1]
        BY <2>1 DEF Aged
    <2>3. bursts' \in [Peers -> [Ages -> Nat]]
        BY <2>1, AgesAre DEF BurstsInv, Aged
    <2>4. ASSUME NEW p \in Polite PROVE PoliteInv(p)'
        <3>1. p \in Peers /\ PoliteInv(p)
            BY AgesAre DEF BurstsInv
        <3>2. ASSUME NEW a \in Ages
              PROVE  /\ bursts'[p][a] \in Nat
                     /\ bursts'[p][a] + One(p \in underway) <= a + 1
            <4>1. CASE a = 0
                BY <2>2, <3>1, <4>1 DEF One
            <4>2. CASE a # 0
                <5>1. a - 1 \in Ages /\ a \in Nat /\ bursts'[p][a] = bursts[p][a - 1]
                    BY <2>2, <3>1, <4>2, AgesAre
                <5>2. /\ bursts[p][a - 1] \in Nat
                      /\ bursts[p][a - 1] + One(p \in underway) <= (a - 1) + 1 + One(p \in sent)
                    BY <3>1, <5>1 DEF PoliteInv
                <5>3. QED
                    BY <5>1, <5>2 DEF One
            <4>3. QED
                BY <4>1, <4>2
        <3>3. QED
            BY <2>1, <3>1, <3>2, AgesAre DEF PoliteInv, One
    <2>5. QED
        BY <2>3, <2>4 DEF BurstsInv
<1>3. CASE UNCHANGED <<bursts, sent, underway, refused>>
    BY <1>3 DEF BurstsInv, PoliteInv
<1>4. \/ \E q \in Peers : respond_to_initiate(q) \/ SendInitiate(q)
      \/ Interval
      \/ UNCHANGED <<bursts, sent, underway, refused>>
    BY DEF GossipNext, gossipVars, ReadLocalAgents, Wake, WakeByForce, CheckRound,
           select_next_target, InitiateRound, Accepted, RoundEnds, respond_to_busy,
           remove_timed_out_rounds, Change, remote
<1>5. QED
    BY <1>1, <1>2, <1>3, <1>4, BurstArrives

(* Whatever the window, and for any burst factor of at least two: a peer   *)
(* that initiates once per interval is never refused, although one of its  *)
(* initiates may come together with the next (check_accept).               *)
THEOREM PolitePeersAreHeard == 1 < BurstFactor /\ GossipSpec => []PoliteIsHeard
<1>1. GossipInit => BurstsInv
    BY AgesAre DEF GossipInit, BurstsInv, PoliteInv, One
<1>2. 1 < BurstFactor /\ BurstsInv /\ [GossipNext]_gossipVars => BurstsInv'
    BY BurstsStep
<1>3. BurstsInv => PoliteIsHeard
    BY DEF BurstsInv, PoliteInv, PoliteIsHeard
<1>4. CASE 1 < BurstFactor
    BY <1>1, <1>2, <1>3, <1>4, PTL DEF GossipSpec
<1>5. QED
    BY <1>4
====
