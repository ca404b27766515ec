---------------------------- MODULE MCDiscovery ----------------------------
(* Small instances of Discovery for TLC. *)
EXTENDS Discovery

CONSTANTS a, b, c

\* a and b are settled, c is still to be started.
Joining ==
    /\ registry = [p \in {a, b} |-> 0]
    /\ net = [p \in Peers |->
          IF p = c THEN [NewNetwork EXCEPT !.task = "down"]
          ELSE [NewNetwork EXCEPT !.known = {a, b} \ {p}]]
    /\ due = {}
    /\ streak = [p \in Peers |-> IF p = c THEN 0 ELSE Steady]
    /\ faults = 0

JoiningSpec == Joining /\ [][Next]_vars /\ Fairness
=============================================================================
