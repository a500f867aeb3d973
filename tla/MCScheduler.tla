----------------------------- MODULE MCScheduler -----------------------------
(* Two rows and two short days: plans that meet, end with the day or lie in one. *)
EXTENDS Scheduler

Plan(days, start, stop, policy) ==
    [days |-> days, start |-> start, stop |-> stop, policy |-> policy, enabled |-> TRUE]

ThreePlans == {Plan({0, 1}, 0, 4, "hard"), Plan({0}, 4, 5, "grace"),
               Plan({0}, 7, 2, "soft")}
=============================================================================
