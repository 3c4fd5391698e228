------------------------------ MODULE SlotPool ------------------------------
(***************************************************************************)
(* What kernel/src/loader/va_alloc.rs promises its callers: a pool of      *)
(* slots, a call that takes one slot nobody holds or is refused, and a     *)
(* call that returns a held one, each in one atomic step.  VaAlloc         *)
(* implements it with a bump index and a bitmap and without a lock.        *)
(*                                                                         *)
(* A refusal carries no promise: a call may be refused while a slot is     *)
(* free, because the bitmap is read one word at a time.                    *)
(***************************************************************************)
CONSTANTS Clients, Slots

VARIABLES
    held,    \* the slots each client holds
    asking   \* the clients whose call of alloc_cell_va has not returned

vars == <<held, asking>>

Init ==
    /\ held = [p \in Clients |-> {}]
    /\ asking = {}

Ask(p) ==
    /\ p \notin asking
    /\ asking' = asking \cup {p}
    /\ UNCHANGED held

\* alloc_cell_va returns Some(slot)
Grant(p, s) ==
    /\ p \in asking
    /\ \A q \in Clients : s \notin held[q]
    /\ held' = [held EXCEPT ![p] = @ \cup {s}]
    /\ asking' = asking \ {p}

\* alloc_cell_va returns None
Refuse(p) ==
    /\ p \in asking
    /\ asking' = asking \ {p}
    /\ UNCHANGED held

\* free_cell_va
Return(p, s) ==
    /\ s \in held[p]
    /\ held' = [held EXCEPT ![p] = @ \ {s}]
    /\ UNCHANGED asking

Next ==
    \E p \in Clients :
        \/ Ask(p) \/ Refuse(p)
        \/ \E s \in Slots : Grant(p, s) \/ Return(p, s)

Spec == Init /\ [][Next]_vars
=============================================================================
