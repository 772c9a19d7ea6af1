---- MODULE AccessProofs ----
(***************************************************************************)
(* A url is talked to only after it was cleared, for any number of agents, *)
(* urls and calls.  A verdict is always about a set of agents that was     *)
(* known at the url at one moment, and blocks are never lifted: whoever is *)
(* unblocked when the blocks are read was unblocked when the agents were.  *)
(***************************************************************************)
EXTENDS Access, TLAPS

(* The shape of a call and of what it works on. *)
Call == [pc      : {"idle", "filter", "remove", "listen", "check", "write"},
         infos   : [Agents -> Info],
         todo    : SUBSET Agents,
         url     : Urls \union {NoUrl},
         seen    : SUBSET Agents,
         verdict : Verdicts]

CallTypes ==
    /\ known \in [Agents -> Info]
    /\ store \in [Agents -> Info]
    /\ issued \in [Agents -> [1 .. 2 -> Urls \union {NoUrl}]]
    /\ decisions \in [Urls -> Verdicts]
    /\ task \in [Tasks -> Call]

(* Every url where only unblocked agents are known has been cleared. *)
ClearInv == ClearNow(known, blocked) \subseteq cleared

(* A call that would grant, or a decision that does, is about such a url. *)
CallIsCleared(t) ==
    /\ task[t].pc = "check" /\ task[t].seen # {} /\ task[t].seen \cap blocked = {}
       => task[t].url \in cleared
    /\ task[t].pc = "write" /\ task[t].verdict = "granted" => task[t].url \in cleared

VerdictInv ==
    /\ \A t \in Tasks : CallIsCleared(t)
    /\ \A u \in Urls : Granted(u) => u \in cleared

AccessInv == CallTypes /\ ClearInv /\ VerdictInv /\ strayed = {}

----------------------------------------------------------------------------
(* Shapes.                                                                 *)

(* An info that gets older stays an info of its url. *)
LEMMA AgedInfo ==
    ASSUME NEW i \in Info
    PROVE  Aged(i) \in Info /\ Aged(i).url = i.url
  BY DEF Aged, Info, None, Older, Newest

LEMMA IdleIsCall == NoInfo \in Info /\ Idle \in Call
<1>1. NoInfo \in Info
  BY DEF NoInfo, Info, None, Newest
<1> QED
  BY <1>1 DEF Idle, Call, Verdicts

(* What a call carries, with one info replaced. *)
LEMMA CallWithInfo ==
    ASSUME NEW c \in Call, NEW a \in Agents, NEW i \in Info
    PROVE  [c EXCEPT !.infos[a] = i] \in Call
<1> DEFINE infos == [c.infos EXCEPT ![a] = i]
<1>1. infos \in [Agents -> Info]
  BY DEF Call
<1>2. [c EXCEPT !.infos[a] = i] = [c EXCEPT !.infos = infos]
  BY Zenon
<1> HIDE DEF infos
<1> QED
  BY <1>1, <1>2 DEF Call

(* A step that changes neither what is known nor the decisions, and whose  *)
(* calls say nothing new.                                                  *)
LEMMA CallsMove ==
    ASSUME AccessInv, CallTypes', UNCHANGED <<known, decisions, cleared, strayed>>,
           blocked \subseteq blocked',
           \A t \in Tasks : task'[t] = task[t] \/ CallIsCleared(t)'
    PROVE  AccessInv'
<1>1. ClearInv'
  BY DEF AccessInv, ClearInv, ClearNow, KnownAt
<1>2. ASSUME NEW t \in Tasks PROVE CallIsCleared(t)'
  <2>1. CASE task'[t] = task[t]
    <3>1. task[t].seen \cap blocked' = {} => task[t].seen \cap blocked = {}
      OBVIOUS
    <3>2. CallIsCleared(t)
      BY DEF AccessInv, VerdictInv
    <3> QED
      BY <2>1, <3>1, <3>2 DEF CallIsCleared
  <2> QED
    BY <2>1
<1>3. VerdictInv'
  BY <1>2 DEF AccessInv, VerdictInv, Granted
<1> QED
  BY <1>1, <1>3 DEF AccessInv

(* What is left of a call after a decision is a call that says nothing. *)
LEMMA DecidedIs ==
    ASSUME CallTypes, NEW t \in Tasks
    PROVE  Decided(t) \in Call /\ Decided(t).pc \in {"idle", "listen"}
<1>1. task[t] \in Call
  BY DEF CallTypes
<1>2. CASE task[t].todo = {}
  BY <1>2, IdleIsCall DEF Decided, Idle
<1>3. CASE task[t].todo # {}
  BY <1>1, <1>3 DEF Decided, Call, Verdicts
<1> QED
  BY <1>2, <1>3

----------------------------------------------------------------------------
(* The steps.                                                              *)

(* Signing changes no url. *)
LEMMA SignKeeps ==
    ASSUME AccessInv, NEW a \in Agents, NEW u \in Urls \union {NoUrl}, Sign(a, u)
    PROVE  AccessInv'
<1>1. /\ known' = [known EXCEPT ![a] = Aged(@)]
      /\ store' = [store EXCEPT ![a] = Aged(@)]
      /\ issued' = [issued EXCEPT ![a] = <<@[2], u>>]
      /\ task' = [t \in Tasks |-> [task[t] EXCEPT !.infos[a] = Aged(@)]]
      /\ UNCHANGED <<blocked, decisions, cleared, strayed>>
  BY DEF Sign, hub
<1>2. known' \in [Agents -> Info] /\ \A b \in Agents : known'[b].url = known[b].url
  BY <1>1, AgedInfo DEF AccessInv, CallTypes
<1>3. store' \in [Agents -> Info]
  BY <1>1, AgedInfo DEF AccessInv, CallTypes
<1>4. issued' \in [Agents -> [1 .. 2 -> Urls \union {NoUrl}]]
  <2>1. issued[a][2] \in Urls \union {NoUrl}
    BY DEF AccessInv, CallTypes
  <2>2. <<issued[a][2], u>> \in [1 .. 2 -> Urls \union {NoUrl}]
    BY <2>1
  <2> QED
    BY <1>1, <2>2 DEF AccessInv, CallTypes
<1>5. ASSUME NEW t \in Tasks
      PROVE  /\ task'[t] \in Call
             /\ task'[t].pc = task[t].pc /\ task'[t].seen = task[t].seen
             /\ task'[t].url = task[t].url /\ task'[t].verdict = task[t].verdict
  <2>1. task[t] \in Call
    BY DEF AccessInv, CallTypes
  <2>2. task'[t] = [task[t] EXCEPT !.infos[a] = Aged(task[t].infos[a])]
    BY <1>1
  <2>3. Aged(task[t].infos[a]) \in Info
    BY <2>1, AgedInfo DEF Call
  <2> DEFINE i == Aged(task[t].infos[a])
  <2>4. task'[t] \in Call
    BY <2>1, <2>2, <2>3, CallWithInfo
  <2> HIDE DEF i
  <2>5. /\ task'[t].pc = task[t].pc /\ task'[t].seen = task[t].seen
        /\ task'[t].url = task[t].url /\ task'[t].verdict = task[t].verdict
    BY <2>1, <2>2 DEF Call
  <2> QED
    BY <2>4, <2>5
<1>6. task' \in [Tasks -> Call]
  <2>1. task' = [t \in Tasks |-> task'[t]]
    BY <1>1
  <2> QED
    BY <1>5, <2>1
<1>7. CallTypes'
  BY <1>1, <1>2, <1>3, <1>4, <1>6 DEF AccessInv, CallTypes
<1>8. ClearInv'
  BY <1>1, <1>2 DEF AccessInv, ClearInv, ClearNow, KnownAt
<1>9. ASSUME NEW t \in Tasks PROVE CallIsCleared(t)'
  <2>1. CallIsCleared(t)
    BY DEF AccessInv, VerdictInv
  <2>2. /\ task'[t].pc = task[t].pc /\ task'[t].seen = task[t].seen
        /\ task'[t].url = task[t].url /\ task'[t].verdict = task[t].verdict
    BY <1>5
  <2>3. blocked' = blocked /\ cleared' = cleared
    BY <1>1
  <2> QED
    BY <2>1, <2>2, <2>3 DEF CallIsCleared
<1>10. VerdictInv'
  BY <1>1, <1>9 DEF AccessInv, VerdictInv, Granted
<1> QED
  BY <1>1, <1>7, <1>8, <1>10 DEF AccessInv

(* What an insert records may clear urls, which is noted at once. *)
LEMMA InsertRecordKeeps ==
    ASSUME AccessInv, NEW t \in Inserters, NEW batch \in (SUBSET Agents) \ {{}},
           InsertRecord(t, batch)
    PROVE  AccessInv'
<1>1. PICK ages \in [batch -> {Previous, Newest}] :
         LET infos == [a \in Agents |->
                          IF a \in batch
                          THEN [at |-> ages[a], url |-> issued[a][ages[a]]]
                          ELSE NoInfo]
         IN  /\ task' = [task EXCEPT ![t] = [Idle EXCEPT !.pc = "filter",
                                                !.infos = infos, !.todo = batch]]
             /\ known' = Recorded(infos)
  BY DEF InsertRecord
<1> DEFINE infos == [a \in Agents |->
                        IF a \in batch
                        THEN [at |-> ages[a], url |-> issued[a][ages[a]]]
                        ELSE NoInfo]
           call  == [Idle EXCEPT !.pc = "filter", !.infos = infos, !.todo = batch]
<1>2. infos \in [Agents -> Info]
  <2>1. ASSUME NEW a \in batch
        PROVE  [at |-> ages[a], url |-> issued[a][ages[a]]] \in Info
    <3>1. ages[a] \in {1, 2} /\ a \in Agents
      BY DEF Previous, Newest
    <3>2. issued[a][ages[a]] \in Urls \union {NoUrl}
      BY <3>1 DEF AccessInv, CallTypes
    <3> QED
      BY <3>1, <3>2 DEF Info, None, Newest
  <2> QED
    BY <2>1, IdleIsCall
<1> HIDE DEF infos
<1>3. /\ task' = [task EXCEPT ![t] = call]
      /\ known' = Recorded(infos)
      /\ store' \in {store, Pruned}
      /\ cleared' = cleared \union ClearNow(known', blocked)
      /\ UNCHANGED <<blocked, decisions, issued, strayed>>
  BY <1>1 DEF InsertRecord, hub, infos
<1>4. call \in Call /\ call.pc = "filter"
  BY <1>2, IdleIsCall DEF Call, Idle
<1> HIDE DEF call
<1>5. known' \in [Agents -> Info]
  BY <1>2, <1>3 DEF Recorded, AccessInv, CallTypes
<1>6. store' \in [Agents -> Info]
  BY <1>3, IdleIsCall DEF Pruned, AccessInv, CallTypes
<1>7. task' \in [Tasks -> Call] /\ \A r \in Tasks : task'[r] = IF r = t THEN call ELSE task[r]
  BY <1>3, <1>4 DEF AccessInv, CallTypes, Tasks
<1>8. CallTypes'
  BY <1>3, <1>5, <1>6, <1>7 DEF AccessInv, CallTypes
<1>9. ClearInv'
  BY <1>3 DEF ClearInv, ClearNow
<1>10. ASSUME NEW r \in Tasks PROVE CallIsCleared(r)'
  <2>1. CASE r = t
    BY <1>4, <1>7, <2>1 DEF CallIsCleared
  <2>2. CASE r # t
    <3>1. task'[r] = task[r] /\ CallIsCleared(r)
      BY <1>7, <2>2 DEF AccessInv, VerdictInv
    <3> QED
      BY <1>3, <3>1 DEF CallIsCleared
  <2> QED
    BY <2>1, <2>2
<1>11. VerdictInv'
  BY <1>3, <1>10 DEF AccessInv, VerdictInv, Granted
<1> QED
  BY <1>3, <1>8, <1>9, <1>11 DEF AccessInv

(* A call that is neither about to check nor to write says nothing. *)
LEMMA OneCallMoves ==
    ASSUME AccessInv, UNCHANGED <<known, issued, cleared, strayed, decisions>>,
           blocked \subseteq blocked', store' \in [Agents -> Info],
           NEW t \in Tasks, NEW c \in Call, task' = [task EXCEPT ![t] = c],
           CallIsCleared(t)'
    PROVE  AccessInv'
<1>1. task' \in [Tasks -> Call] /\ \A r \in Tasks : r # t => task'[r] = task[r]
  BY DEF AccessInv, CallTypes
<1>2. CallTypes'
  BY <1>1 DEF AccessInv, CallTypes
<1> QED
  BY <1>1, <1>2, CallsMove

LEMMA InsertFilterKeeps ==
    ASSUME AccessInv, NEW t \in Inserters, InsertFilter(t)
    PROVE  AccessInv'
<1> DEFINE inserted == {a \in task[t].todo : ~Refused(a, task[t].infos[a])}
           infos == [a \in Agents |-> IF a \in inserted THEN task[t].infos[a] ELSE NoInfo]
           c == IF inserted = {} THEN Idle
                ELSE [task[t] EXCEPT !.pc = "listen", !.todo = inserted, !.infos = infos]
<1>1. /\ task' = [task EXCEPT ![t] = c]
      /\ store' = [a \in Agents |-> IF a \in inserted THEN task[t].infos[a] ELSE store[a]]
      /\ UNCHANGED <<blocked, known, decisions, issued, cleared, strayed>>
  BY DEF InsertFilter, hub
<1>2. t \in Tasks /\ task[t] \in Call
  BY DEF AccessInv, CallTypes, Tasks
<1>3. inserted \subseteq Agents /\ task[t].infos \in [Agents -> Info]
  BY <1>2 DEF Call
<1> HIDE DEF inserted
<1>4. infos \in [Agents -> Info]
  BY <1>3, IdleIsCall
<1>5. store' \in [Agents -> Info]
  BY <1>1, <1>3 DEF AccessInv, CallTypes
<1> HIDE DEF infos
<1>6. c \in Call /\ c.pc \in {"idle", "listen"}
  <2>1. CASE inserted = {}
    BY <2>1, IdleIsCall DEF Idle
  <2>2. CASE inserted # {}
    BY <1>2, <1>3, <1>4, <2>2 DEF Call
  <2> QED
    BY <2>1, <2>2
<1> HIDE DEF c
<1>7. task'[t] = c
  BY <1>1, <1>2 DEF AccessInv, CallTypes
<1>8. CallIsCleared(t)'
  BY <1>6, <1>7 DEF CallIsCleared
<1> QED
  BY <1>1, <1>2, <1>5, <1>6, <1>8, OneCallMoves

LEMMA BlockAgentKeeps ==
    ASSUME AccessInv, NEW t \in Hosts, NEW a \in Agents, BlockAgent(t, a)
    PROVE  AccessInv'
<1> DEFINE c == [Idle EXCEPT !.pc = "remove", !.todo = {a}]
<1>1. /\ task' = [task EXCEPT ![t] = c] /\ blocked \subseteq blocked'
      /\ UNCHANGED <<known, store, decisions, issued, cleared, strayed>>
  BY DEF BlockAgent, hub
<1>2. t \in Tasks
  BY DEF Tasks
<1>3. c \in Call /\ c.pc = "remove"
  BY IdleIsCall DEF Call, Idle
<1> HIDE DEF c
<1>4. task'[t] = c /\ store' \in [Agents -> Info]
  BY <1>1, <1>2 DEF AccessInv, CallTypes
<1>5. CallIsCleared(t)'
  BY <1>3, <1>4 DEF CallIsCleared
<1> QED
  BY <1>1, <1>2, <1>3, <1>4, <1>5, OneCallMoves

LEMMA RemoveInfoKeeps ==
    ASSUME AccessInv, NEW t \in Hosts, NEW a \in Agents, RemoveInfo(t, a)
    PROVE  AccessInv'
<1> DEFINE withInfo == [task[t] EXCEPT !.infos[a] = store[a]]
           c == IF store[a] = NoInfo THEN Idle ELSE [withInfo EXCEPT !.pc = "listen"]
<1>1. /\ task' = [task EXCEPT ![t] = IF store[a] = NoInfo THEN Idle
                       ELSE [task[t] EXCEPT !.pc = "listen", !.infos[a] = store[a]]]
      /\ store' = [store EXCEPT ![a] = NoInfo]
      /\ UNCHANGED <<blocked, known, decisions, issued, cleared, strayed>>
  BY DEF RemoveInfo, hub
<1>2. t \in Tasks /\ task[t] \in Call
  BY DEF AccessInv, CallTypes, Tasks
<1>3. store[a] \in Info /\ store' \in [Agents -> Info]
  BY <1>1, IdleIsCall DEF AccessInv, CallTypes
<1>4. withInfo \in Call
  BY <1>2, <1>3, CallWithInfo
<1>5. [task[t] EXCEPT !.pc = "listen", !.infos[a] = store[a]] = [withInfo EXCEPT !.pc = "listen"]
  BY <1>2 DEF Call
<1>6. task' = [task EXCEPT ![t] = c]
  BY <1>1, <1>5
<1> HIDE DEF withInfo
<1>7. c \in Call /\ c.pc \in {"idle", "listen"}
  <2>1. CASE store[a] = NoInfo
    BY <2>1, IdleIsCall DEF Idle
  <2>2. CASE store[a] # NoInfo
    BY <1>4, <2>2 DEF Call
  <2> QED
    BY <2>1, <2>2
<1> HIDE DEF c
<1>8. task'[t] = c
  BY <1>2, <1>6 DEF AccessInv, CallTypes
<1>9. CallIsCleared(t)'
  BY <1>7, <1>8 DEF CallIsCleared
<1> QED
  BY <1>1, <1>2, <1>3, <1>6, <1>7, <1>9, OneCallMoves

(* The agents read at a url are all unblocked only if it is cleared. *)
LEMMA ListenKeeps ==
    ASSUME AccessInv, NEW t \in Tasks, NEW a \in Agents, Listen(t, a)
    PROVE  AccessInv'
<1> DEFINE u == task[t].infos[a].url
           withInfo == [task[t] EXCEPT !.infos[a] = NoInfo]
           rest == [task[t] EXCEPT !.todo = @ \ {a}, !.infos[a] = NoInfo]
           c == IF u # NoUrl
                THEN [rest EXCEPT !.pc = "check", !.url = u, !.seen = KnownAt(known, u)]
                ELSE IF rest.todo = {} THEN Idle ELSE rest
<1>1. /\ task[t].pc = "listen" /\ task' = [task EXCEPT ![t] = c]
      /\ UNCHANGED <<blocked, known, store, decisions, issued, cleared, strayed>>
  BY DEF Listen, hub
<1>2. task[t] \in Call
  BY DEF AccessInv, CallTypes
<1>3. withInfo \in Call /\ withInfo.pc = "listen"
  BY <1>1, <1>2, IdleIsCall, CallWithInfo DEF Call
<1>4. rest = [withInfo EXCEPT !.todo = @ \ {a}]
  BY <1>2 DEF Call
<1> HIDE DEF withInfo
<1>5. rest \in Call /\ rest.pc = "listen"
  BY <1>3, <1>4 DEF Call
<1>6. u \in Urls \union {NoUrl} /\ KnownAt(known, u) \subseteq Agents
  BY <1>2 DEF Call, Info, KnownAt
<1> HIDE DEF rest, u
<1>7. CASE u # NoUrl
  <2>1. /\ c \in Call /\ c.pc = "check" /\ c.url = u /\ c.seen = KnownAt(known, u)
    BY <1>5, <1>6, <1>7 DEF Call
  <2> HIDE DEF c
  <2>2. task'[t] = c
    BY <1>1 DEF AccessInv, CallTypes
  <2>3. KnownAt(known, u) # {} /\ KnownAt(known, u) \cap blocked = {} => u \in cleared
    BY <1>6, <1>7 DEF AccessInv, ClearInv, ClearNow
  <2>4. CallIsCleared(t)'
    BY <1>1, <2>1, <2>2, <2>3 DEF CallIsCleared
  <2>5. store' \in [Agents -> Info]
    BY <1>1 DEF AccessInv, CallTypes
  <2> QED
    BY <1>1, <2>1, <2>4, <2>5, OneCallMoves
<1>8. CASE u = NoUrl
  <2>1. c \in Call /\ c.pc \in {"idle", "listen"}
    BY <1>5, <1>8, IdleIsCall DEF Idle
  <2> HIDE DEF c
  <2>2. task'[t] = c
    BY <1>1 DEF AccessInv, CallTypes
  <2>3. CallIsCleared(t)'
    BY <2>1, <2>2 DEF CallIsCleared
  <2>4. store' \in [Agents -> Info]
    BY <1>1 DEF AccessInv, CallTypes
  <2> QED
    BY <1>1, <2>1, <2>3, <2>4, OneCallMoves
<1> QED
  BY <1>7, <1>8

LEMMA CheckBlocksKeeps ==
    ASSUME AccessInv, NEW t \in Tasks, CheckBlocks(t)
    PROVE  AccessInv'
<1> DEFINE verdict == IF AnyBlocked(task[t].seen) THEN "blocked" ELSE "granted"
           c == [task[t] EXCEPT !.pc = "write", !.seen = {}, !.verdict = verdict]
<1>1. /\ task[t].pc = "check" /\ task[t].seen # {}
      /\ task' = [task EXCEPT ![t].pc = "write", ![t].seen = {}, ![t].verdict = verdict]
      /\ UNCHANGED <<blocked, known, store, decisions, issued, cleared, strayed>>
  BY DEF CheckBlocks, hub
<1>2. task \in [Tasks -> Call] /\ task[t] \in Call
  BY DEF AccessInv, CallTypes
<1>3. verdict \in Verdicts /\ (verdict = "granted" => task[t].seen \cap blocked = {})
  BY DEF Verdicts, AnyBlocked
<1> HIDE DEF verdict
<1>4. task' = [task EXCEPT ![t] = c]
  BY <1>1, <1>2
<1>5. c \in Call /\ c.pc = "write" /\ c.verdict = verdict /\ c.url = task[t].url
  BY <1>2, <1>3 DEF Call
<1> HIDE DEF c
<1>6. task'[t] = c
  BY <1>2, <1>4
<1>7. verdict = "granted" => task[t].url \in cleared
  BY <1>1, <1>3 DEF AccessInv, VerdictInv, CallIsCleared
<1>8. CallIsCleared(t)'
  <2>1. task'[t].pc = "write" /\ task'[t].pc # "check"
    BY <1>5, <1>6
  <2>2. task'[t].verdict = "granted" => task'[t].url \in cleared'
    <3>1. task'[t].verdict = verdict /\ task'[t].url = task[t].url
      BY <1>5, <1>6
    <3> QED
      BY <1>1, <1>7, <3>1
  <2> QED
    BY <2>1, <2>2 DEF CallIsCleared
<1>9. store' \in [Agents -> Info]
  BY <1>1 DEF AccessInv, CallTypes
<1> QED
  BY <1>1, <1>4, <1>5, <1>8, <1>9, OneCallMoves

(* A decision that is written, cleared or dropped. *)
LEMMA DecisionMoves ==
    ASSUME AccessInv, UNCHANGED <<blocked, known, store, issued, cleared, strayed>>,
           NEW u \in Urls \union {NoUrl}, NEW v \in Verdicts,
           decisions' = [decisions EXCEPT ![u] = v],
           v = "granted" => u \in cleared,
           task' \in [Tasks -> Call],
           \A r \in Tasks : task'[r] = task[r] \/ task'[r].pc \in {"idle", "listen"}
    PROVE  AccessInv'
<1>1. /\ decisions' \in [Urls -> Verdicts]
      /\ \A x \in Urls : decisions'[x] = IF x = u THEN v ELSE decisions[x]
  BY DEF AccessInv, CallTypes
<1>2. CallTypes'
  BY <1>1 DEF AccessInv, CallTypes
<1>3. ClearInv'
  BY DEF AccessInv, ClearInv, ClearNow, KnownAt
<1>4. ASSUME NEW r \in Tasks PROVE CallIsCleared(r)'
  <2>1. CallIsCleared(r)
    BY DEF AccessInv, VerdictInv
  <2> QED
    BY <2>1 DEF CallIsCleared
<1>5. ASSUME NEW x \in Urls, Granted(x)' PROVE x \in cleared'
  BY <1>1, <1>5 DEF Granted, AccessInv, VerdictInv
<1> QED
  BY <1>2, <1>3, <1>4, <1>5 DEF AccessInv, VerdictInv

LEMMA DecisionKeeps ==
    ASSUME AccessInv, NEW t \in Tasks, ClearDecision(t) \/ WriteDecision(t)
    PROVE  AccessInv'
<1>1. /\ task' = [task EXCEPT ![t] = Decided(t)]
      /\ UNCHANGED <<blocked, known, store, issued, cleared, strayed>>
  BY DEF ClearDecision, WriteDecision, hub
<1>2. task[t] \in Call
  BY DEF AccessInv, CallTypes
<1>3. Decided(t) \in Call /\ Decided(t).pc \in {"idle", "listen"}
  BY DecidedIs DEF AccessInv
<1>4. /\ task' \in [Tasks -> Call]
      /\ \A r \in Tasks : task'[r] = task[r] \/ task'[r].pc \in {"idle", "listen"}
  <2> DEFINE c == Decided(t)
  <2> HIDE DEF c
  <2>1. c \in Call /\ c.pc \in {"idle", "listen"} /\ task' = [task EXCEPT ![t] = c]
    BY <1>1, <1>3 DEF c
  <2> QED
    BY <2>1 DEF AccessInv, CallTypes
<1>5. task[t].url \in Urls \union {NoUrl} /\ task[t].verdict \in Verdicts
  BY <1>2 DEF Call
<1>6. CASE ClearDecision(t)
  BY <1>1, <1>4, <1>5, <1>6, DecisionMoves DEF ClearDecision, Verdicts
<1>7. CASE WriteDecision(t)
  <2>1. /\ task[t].pc = "write"
        /\ decisions' = [decisions EXCEPT ![task[t].url] = task[t].verdict]
    BY <1>7 DEF WriteDecision
  <2>2. task[t].verdict = "granted" => task[t].url \in cleared
    BY <2>1 DEF AccessInv, VerdictInv, CallIsCleared
  <2> QED
    BY <1>1, <1>4, <1>5, <2>1, <2>2, DecisionMoves
<1> QED
  BY <1>6, <1>7

LEMMA PruneKeeps ==
    ASSUME AccessInv, PruneStore \/ \E u \in Urls : PruneDecision(u)
    PROVE  AccessInv'
<1>1. CASE PruneStore
  <2>1. /\ store' = Pruned
        /\ UNCHANGED <<blocked, known, decisions, issued, task, cleared, strayed>>
    BY <1>1 DEF PruneStore, hub
  <2>2. store' \in [Agents -> Info]
    BY <2>1, IdleIsCall DEF Pruned, AccessInv, CallTypes
  <2>3. CallTypes'
    BY <2>1, <2>2 DEF AccessInv, CallTypes
  <2> QED
    BY <2>1, <2>3, CallsMove
<1>2. ASSUME NEW u \in Urls, PruneDecision(u) PROVE AccessInv'
  <2>1. /\ decisions' = [decisions EXCEPT ![u] = "none"]
        /\ UNCHANGED <<blocked, known, store, issued, task, cleared, strayed>>
    BY <1>2 DEF PruneDecision, hub
  <2>2. task' \in [Tasks -> Call]
    BY <2>1 DEF AccessInv, CallTypes
  <2> QED
    BY <2>1, <2>2, DecisionMoves DEF Verdicts
<1> QED
  BY <1>1, <1>2

(* A message passes only where a decision grants it. *)
LEMMA MessagesKeep ==
    ASSUME AccessInv,
           \/ \E u \in Urls : \/ PeerConnect(u)
                              \/ \E kind \in Kinds, s \in BOOLEAN : RecvData(u, kind, s)
                              \/ SendModule(u)
                              \/ SendSpaceNotify(u)
                              \/ Disconnect(u)
           \/ LocalAgents
           \/ UNCHANGED vars
    PROVE  AccessInv'
<1>1. UNCHANGED <<blocked, known, store, decisions, issued, task, cleared>>
  BY DEF PeerConnect, RecvData, SendModule, SendSpaceNotify, Sent, Disconnect,
         LocalAgents, vars, hub
<1>2. UNCHANGED strayed \/ \E u \in Urls : Granted(u) /\ Exchange(u)
  <2>1. ASSUME NEW u \in Urls, NEW kind \in Kinds, NEW s \in BOOLEAN, RecvData(u, kind, s)
        PROVE  UNCHANGED strayed \/ (Granted(u) /\ Exchange(u))
    <3>1. UNCHANGED strayed \/ /\ Exchange(u) /\ kind \in Scoped
                               /\ check_message_permitted(u, kind, s) = "pass"
      BY <2>1 DEF RecvData
    <3> QED
      BY <3>1 DEF check_message_permitted, IsPeerBlocked, is_any_agent_at_url_blocked
  <2>2. ASSUME NEW u \in Urls, Sent(u) PROVE Granted(u) /\ Exchange(u)
    BY <2>2 DEF Sent, IsPeerBlocked, is_any_agent_at_url_blocked
  <2> QED
    BY <2>1, <2>2 DEF PeerConnect, SendModule, SendSpaceNotify, Disconnect,
                      LocalAgents, vars, hub
<1>3. strayed' = {}
  BY <1>2 DEF Exchange, AccessInv, VerdictInv
<1>4. CallTypes' /\ ClearInv'
  BY <1>1 DEF AccessInv, CallTypes, ClearInv, ClearNow, KnownAt
<1>5. VerdictInv'
  BY <1>1 DEF AccessInv, VerdictInv, CallIsCleared, Granted
<1> QED
  BY <1>3, <1>4, <1>5 DEF AccessInv

LEMMA InitHolds == ASSUME Init PROVE AccessInv
<1>1. CallTypes
  <2>1. known \in [Agents -> Info] /\ store \in [Agents -> Info]
    BY IdleIsCall DEF Init
  <2>2. issued \in [Agents -> [1 .. 2 -> Urls \union {NoUrl}]]
    <3>1. \A a \in Agents : Home[a] \in Urls
      BY AccessAssumption
    <3>2. \A a \in Agents : <<Home[a], Home[a]>> \in [1 .. 2 -> Urls \union {NoUrl}]
      BY <3>1
    <3> QED
      BY <3>2 DEF Init
  <2>3. decisions \in [Urls -> Verdicts] /\ task \in [Tasks -> Call]
    BY IdleIsCall DEF Init, Verdicts
  <2> QED
    BY <2>1, <2>2, <2>3 DEF CallTypes
<1>2. ClearInv
  BY AccessAssumption DEF Init, ClearInv, ClearNow, KnownAt, NoInfo
<1>3. VerdictInv
  BY DEF Init, VerdictInv, CallIsCleared, Granted, Idle
<1> QED
  BY <1>1, <1>2, <1>3 DEF AccessInv, Init

(* A url is talked to only if at some moment every agent then known there  *)
(* was unblocked, however inserts, blocks, listeners, prunes and messages  *)
(* interleave.                                                             *)
THEOREM OnlyTheClearedAreHeard == Spec => []OnlyClearedAreHeard
<1>1. Init => AccessInv
  BY InitHolds
<1>2. AccessInv /\ [Next]_vars => AccessInv'
  <2> SUFFICES ASSUME AccessInv, [Next]_vars PROVE AccessInv'
    OBVIOUS
  <2>1. ASSUME NEW a \in Agents, NEW u \in Urls \union {NoUrl}, Move(a, u) PROVE AccessInv'
    BY <2>1, SignKeeps DEF Move
  <2>2. ASSUME NEW a \in Agents, Refresh(a) PROVE AccessInv'
    <3>1. issued[a][2] \in Urls \union {NoUrl}
      BY DEF AccessInv, CallTypes
    <3> QED
      BY <2>2, <3>1, SignKeeps DEF Refresh
  <2>3. ASSUME NEW t \in Inserters, NEW batch \in (SUBSET Agents) \ {{}},
               InsertRecord(t, batch)
        PROVE  AccessInv'
    BY <2>3, InsertRecordKeeps
  <2>4. ASSUME NEW t \in Inserters, InsertFilter(t) PROVE AccessInv'
    BY <2>4, InsertFilterKeeps
  <2>5. ASSUME NEW t \in Hosts, NEW a \in Agents, BlockAgent(t, a) \/ RemoveInfo(t, a)
        PROVE  AccessInv'
    BY <2>5, BlockAgentKeeps, RemoveInfoKeeps
  <2>6. ASSUME NEW t \in Tasks, NEW a \in Agents, Listen(t, a) PROVE AccessInv'
    BY <2>6, ListenKeeps
  <2>7. ASSUME NEW t \in Tasks, ClearDecision(t) \/ WriteDecision(t) PROVE AccessInv'
    BY <2>7, DecisionKeeps
  <2>8. ASSUME NEW t \in Tasks, CheckBlocks(t) PROVE AccessInv'
    BY <2>8, CheckBlocksKeeps
  <2> QED
    BY <2>1, <2>2, <2>3, <2>4, <2>5, <2>6, <2>7, <2>8, PruneKeeps, MessagesKeep DEF Next
<1>3. AccessInv => OnlyClearedAreHeard
  BY DEF AccessInv, OnlyClearedAreHeard
<1> QED
  BY <1>1, <1>2, <1>3, PTL DEF Spec
====
