--------------------------- MODULE PriorityBuffer ---------------------------
(* What the telemetry queue promises its consumer, with neither locks nor a    *)
(* semaphore: a bag of accepted readings from which a reading is taken at a    *)
(* time, critical readings before normal ones, the most severe critical        *)
(* reading first, and arrival order among the rest.                            *)
EXTENDS Naturals, Sequences

CONSTANTS Severities,   \* severities a reading can have; 0 is "not critical"
          MaxItems      \* bound on the readings accepted in one run

VARIABLES accepted,   \* readings accepted so far
          pending,    \* those that wait
          taken       \* those the consumer took, in order

bufferVars == <<accepted, pending, taken>>

Item == [seq : Nat, sev : Severities]

\* a is served before b.
Precedes(a, b) ==
    \/ a.sev > b.sev
    \/ a.sev = b.sev /\ a.seq < b.seq

Init == accepted = 0 /\ pending = {} /\ taken = <<>>

Accept ==
    /\ accepted < MaxItems
    /\ accepted' = accepted + 1
    /\ \E s \in Severities : pending' = pending \cup {[seq |-> accepted + 1, sev |-> s]}
    /\ UNCHANGED taken

Take ==
    /\ \E i \in pending :
          /\ \A j \in pending \ {i} : Precedes(i, j)
          /\ pending' = pending \ {i}
          /\ taken' = Append(taken, i)
    /\ UNCHANGED accepted

Next == Accept \/ Take

Spec == Init /\ [][Next]_bufferVars
=============================================================================
