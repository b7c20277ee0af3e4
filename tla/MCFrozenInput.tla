--------------------------- MODULE MCFrozenInput ---------------------------
(* A small instance of FrozenInput for TLC: every safeguard protects the    *)
(* one scenario.                                                            *)
EXTENDS FrozenInput

SameTarget == [g \in SafeguardIds |-> CHOOSE s \in ScenarioIds : TRUE]
============================================================================
