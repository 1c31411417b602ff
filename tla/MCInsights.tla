----------------------------- MODULE MCInsights -----------------------------
(* A valve with a sensor beside it.                                            *)
EXTENDS Insights

CONSTANTS e1, v1, t1, t2

MCDevices == {e1, v1}
MCCategory == [d \in MCDevices |-> IF d = e1 THEN "Environmental" ELSE "Actuator"]
MCPoint == [d \in MCDevices |-> 1]
MCThreads == {t1, t2}

\* Threads are interchangeable.
ThreadSymmetry == Permutations(MCThreads)
=============================================================================
