-------------------------- MODULE MCImplementation --------------------------
(***************************************************************************)
(* Implementation with three tasks and a few plans: one that fans out, one *)
(* whose second task waits for a task that may only be there because an    *)
(* earlier call planned it, a circle beside a chain, two specs with one    *)
(* id, and a planner that writes nothing.                                  *)
(***************************************************************************)
EXTENDS Implementation, TLC

Ids == 1..3

Task(id, deps) == [id |-> id, deps |-> deps]

FanOut     == <<Task(1, {}), Task(2, {1}), Task(3, {1})>>
Dangling   == <<Task(1, {3}), Task(2, {1})>>
Circle     == <<Task(1, {2}), Task(2, {1}), Task(3, {})>>
SameId     == <<Task(1, {}), Task(1, {2}), Task(2, {})>>
Nothing    == << >>

SomePlans == {FanOut, Dangling, Circle, SameId, Nothing}

OneFailure == "call" :> 2 @@ "throw" :> 1 @@ "crash" :> 1
=============================================================================
