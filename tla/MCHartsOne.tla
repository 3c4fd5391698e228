------------------------------ MODULE MCHartsOne ------------------------------
EXTENDS Harts

\* A queue of more than three tasks, which the runs do not reach: the thief takes
\* the first half of those that are not RealTime, in their order, and the rest stays.
ASSUME StealsHalf ==
    \A n \in 1 .. 5 : \A q \in {s \in [1 .. n -> 1 .. 5] : IsInjective(s)} :
        LET after == steal_from_busiest([h \in Harts |-> IF h = 0 THEN q ELSE << >>], 1)
            normal == Cardinality(Range(q) \ RealTime)
        IN  /\ Range(after[0] \o after[1]) = Range(q)
            /\ Len(after[0]) + Len(after[1]) = n
            /\ Stealable(q) = after[1] \o Stealable(after[0])
            /\ 2 * Len(after[1]) \in {normal - 1, normal} \/ Len(after[1]) = 1 \/ normal = 0
==============================================================================
