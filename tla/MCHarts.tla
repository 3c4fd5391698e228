------------------------------- MODULE MCHarts -------------------------------
EXTENDS Harts

\* Once a hart is on a wrong stack, or on one that has been freed, the code no
\* longer determines what it does: such states are checked, and not continued.
StacksSound ==
    /\ ResumesOwnStack /\ OneHartPerStack
    /\ \A h \in Harts : hart[h].pc # "off" =>
           \A t \in {hart[h].stk, hart[h].from} \cap Tasks : state[t] # "Gone"

\* Bound: a state in which a second task has died is checked, and not continued.
FewDeaths == Cardinality({t \in Tasks : state[t] \in {"Zombie", "Gone"}}) < 2
=============================================================================
