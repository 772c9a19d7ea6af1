---- MODULE ShardingInv ----
(***************************************************************************)
(* The inductive invariants behind AtTarget and RepairStarts, and the      *)
(* timing they need.                                                       *)
(***************************************************************************)
EXTENDS Sharding

(* A wait outlasts the staleness of any view plus a late check, and a new  *)
(* announcement comes only after the news of the last outcome has arrived. *)
WellTimed == Lag + Stall < Wait /\ Lag < ShrinkNeed

IsPending(b) == ctl[b].pending # NoPending

Infos(b, a)   == {m \in posts : m.type = "info" /\ m.from = b /\ m.to = a}
IntentMsgs(b, a) == {m \in posts : m.type = "intent" /\ m.from = b /\ m.to = a}
Withdrawals(b, a) == {m \in posts : m.type = "withdraw" /\ m.from = b /\ m.to = a}

(* Only the dead are marked; nothing in flight is overdue. *)
TimesOK ==
    /\ \A a \in Agents : gone[a] \subseteq dead
    /\ \A m \in posts : /\ m.at <= now /\ now <= m.at + Lag
                       /\ m.from # m.to /\ m.to \in Alive
    /\ \A a \in Agents : lastCheck[a] <= now
    /\ \A a \in Alive : now <= lastCheck[a] + Stall + 1

(* A pending shrink: the agent stores exactly the block it declares, the   *)
(* range is the half it would drop, and the intent outlives the re-check   *)
(* by a wait.                                                              *)
PendingOK ==
    \A b \in Agents : IsPending(b) =>
        LET c == ctl[b]
            p == c.pending
        IN  /\ arc[b] = BlockArc(Home[b], c.declared_level)
            /\ c.target_level = c.declared_level
            /\ c.declared_level > 0
            /\ p.vacate = VacateHalf(Home[b], c.declared_level)
            /\ lastCheck[b] < p.execute_at
            /\ p.execute_at + Wait <= p.expires_at

(* Agent infos: between two shrinks of an agent its arc only widens, so no *)
(* info in flight declares more than the agent stores; and a view behind   *)
(* the latest version has that version under way.                          *)
InfoOK ==
    /\ \A b, a \in Agents : \A m \in Infos(b, a) :
          /\ m.arc \subseteq arc[b]
          /\ m.ver <= ver[b]
          /\ m.ver = ver[b] => m.arc = arc[b]
          /\ IsPending(b) => m.at + Wait <= ctl[b].pending.execute_at
    /\ \A a \in Alive : \A b \in Agents \ {a} :
          /\ seen[a][b].ver <= ver[b]
          /\ seen[a][b].ver = ver[b] => seen[a][b].arc = arc[b]
          /\ seen[a][b].ver < ver[b] => \E m \in Infos(b, a) : m.ver = ver[b]

(* Announcements and withdrawals in flight: none is left over from an      *)
(* earlier shrink when a new one is announced.                             *)
IntentOK ==
    /\ \A b, a \in Agents : \A m \in IntentMsgs(b, a) \cup Withdrawals(b, a) :
          /\ m.at <= lastCheck[b]
          /\ ~IsPending(b) => ctl[b].shrink_acc + m.at <= lastCheck[b]
    /\ \A b, a \in Agents : \A m \in IntentMsgs(b, a) :
          /\ m.at + Wait + Wait <= m.expires_at
          /\ IsPending(b) => /\ m.vacate = ctl[b].pending.vacate
                             /\ m.expires_at = ctl[b].pending.expires_at
    /\ \A b, a \in Agents : IsPending(b) => Withdrawals(b, a) = {}

(* A pending shrink is in every peer's table, or its announcement is still *)
(* on the way: the first one, or a refresh of one that has not lapsed.     *)
VisibleOK ==
    \A a \in Alive : \A b \in Agents \ {a} : IsPending(b) /\ b \in Alive =>
        LET p == ctl[b].pending
            t == intents[a][b]
        IN  \/ t = [vacate |-> p.vacate, expires_at |-> p.expires_at]
            \/ \E m \in IntentMsgs(b, a) :
                  \/ m.at + Wait <= p.execute_at
                  \/ t.vacate = p.vacate /\ t.expires_at > m.at + Lag

(* A sector that b dropped and a still sees b declare: the news is on its  *)
(* way, a's table holds the intent, and nothing under way will remove it   *)
(* before the news arrives.                                                *)
PhantomOK ==
    \A a \in Alive : \A b \in Agents \ {a} :
        seen[a][b].arc \ arc[b] # {} =>
            LET t == intents[a][b]
            IN  \E m \in Infos(b, a) :
                  /\ m.ver > seen[a][b].ver
                  /\ ~IsPending(b)
                  /\ ctl[b].shrink_acc + m.at <= lastCheck[b]
                  /\ t.vacate \subseteq seen[a][b].arc
                  /\ seen[a][b].arc \ arc[b] \subseteq t.vacate
                  /\ \/ t.expires_at > m.at + Lag
                     \/ \E i \in IntentMsgs(b, a) : t.expires_at > i.at + Lag
                  /\ \A i \in IntentMsgs(b, a) :
                        i.vacate = t.vacate /\ i.expires_at > m.at + Lag
                  /\ Withdrawals(b, a) = {}

IInv == /\ ShardingTypeOK
        /\ TimesOK
        /\ PendingOK
        /\ InfoOK
        /\ IntentOK
        /\ VisibleOK
        /\ PhantomOK
        /\ AtTarget

----------------------------------------------------------------------------
(* What a repair rests on.                                                 *)

(* A death a live agent has not marked is a recent one. *)
MarksOK ==
    \A a \in Alive : \A b \in dead \ gone[a] : now <= diedAt[b] + Detect

(* An agent whose target is the smallest arc stores that arc: nothing of   *)
(* the sync phase keeps its check from deciding.  No accumulator passes    *)
(* the need.                                                               *)
FloorOK ==
    \A a \in Agents :
        /\ ctl[a].target_level = 0 => arc[a] = BlockArc(Home[a], 0)
        /\ ctl[a].grow_acc <= GrowNeed

(* An agent at its smallest arc next to a short sector has checked, since  *)
(* the last death that could hide the shortage from it was marked, no more *)
(* often than its accumulator shows, and each check was at most Stall late. *)
LapseOK ==
    \A a \in Alive : \A s \in SiblingHalf(Home[a], 0) :
        (ctl[a].target_level = 0 /\ Cardinality(Holders(s)) < R)
        => \E b \in dead :
              lastCheck[a] <= diedAt[b] + Detect
                              + (ctl[a].grow_acc + 1) * (Stall + 1)

RepairInv == IInv /\ MarksOK /\ FloorOK /\ LapseOK
====
