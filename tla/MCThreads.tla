------------------------------ MODULE MCThreads ------------------------------
(* Two events; the first spawns a block, which spawns another one twice. *)
EXTENDS Threads

E(n) == <<"event", n>>
B(n) == <<"block", n>>

MCSchedule == <<E(1), E(2)>>
MCBlocks == {B(1), B(2)}
MCCode ==
    [f \in {E(1), E(2)} \cup MCBlocks |->
        CASE f = E(1) -> << [op |-> "switch"], [op |-> "micros"], [op |-> "switch"],
                            [op |-> "micros"], [op |-> "spawn", of |-> B(1)] >>
          [] f = E(2) -> << [op |-> "delay", ms |-> 2], [op |-> "yield"] >>
          [] f = B(1) -> << [op |-> "spawn", of |-> B(2)], [op |-> "work"],
                            [op |-> "spawn", of |-> B(2)] >>
          [] f = B(2) -> << [op |-> "sleep", ms |-> 3] >>]
=============================================================================
