------------------------------ MODULE VaAlloc ------------------------------
(***************************************************************************)
(* The allocator of cell address-space slots (kernel/src/loader/           *)
(* va_alloc.rs): a bump index for slots that were never used and a bitmap  *)
(* of returned slots.  It takes no lock: every access to BUMP and to a     *)
(* word of FREE is one atomic instruction, and each such instruction is    *)
(* one action here, so that any number of kernel contexts interleave.      *)
(* A slot stands for its base address CELL_VA_START + slot * STRIDE.       *)
(***************************************************************************)
EXTENDS Integers, FiniteSets

CONSTANTS
    Spawners,    \* the kernel contexts that load and drop cells
    MAX_SLOTS,   \* 512 in the code
    WORD         \* bits of a word of the bitmap, 64 in the code

ASSUME SlotsAssumption == MAX_SLOTS \in Nat \ {0} /\ WORD \in Nat \ {0}
ASSUME SpawnersAssumption == IsFiniteSet(Spawners)

Slots == 0 .. MAX_SLOTS - 1
BITMAP_WORDS == (MAX_SLOTS + WORD - 1) \div WORD

VARIABLES
    BUMP,     \* first slot that was never allocated
    FREE,     \* the bitmap: for each word, the slots whose bit is set
    pc,       \* where each context is inside alloc_cell_va
    word,     \* the word it is scanning
    val,      \* the value of that word it last read
    owned     \* the slots each context holds (pie_va_base of its cells)

vars == <<BUMP, FREE, pc, word, val, owned>>

Words == 0 .. BITMAP_WORDS - 1

TypeOK ==
    /\ BUMP \in Nat
    /\ FREE \in [Words -> SUBSET Slots]
    /\ pc \in [Spawners -> {"idle", "load", "scan", "backoff"}]
    /\ word \in [Spawners -> Nat]
    /\ val \in [Spawners -> SUBSET Slots]
    /\ owned \in [Spawners -> SUBSET Slots]

Init ==
    /\ BUMP = 0
    /\ FREE = [w \in Words |-> {}]
    /\ pc = [p \in Spawners |-> "idle"]
    /\ word = [p \in Spawners |-> 0]
    /\ val = [p \in Spawners |-> {}]
    /\ owned = [p \in Spawners |-> {}]

\* val.trailing_zeros(): the lowest bit that is set
FirstBit(S) == CHOOSE s \in S : \A t \in S : s <= t

\* alloc_cell_va is entered
StartAlloc(p) ==
    /\ pc[p] = "idle"
    /\ pc' = [pc EXCEPT ![p] = "load"]
    /\ word' = [word EXCEPT ![p] = 0]
    /\ UNCHANGED <<BUMP, FREE, val, owned>>

\* word.load
LoadWord(p) ==
    /\ pc[p] = "load"
    /\ word[p] < BITMAP_WORDS
    /\ val' = [val EXCEPT ![p] = FREE[word[p]]]
    /\ pc' = [pc EXCEPT ![p] = "scan"]
    /\ UNCHANGED <<BUMP, FREE, word, owned>>

\* the word is empty, or its lowest bit lies past the last slot
NextWord(p) ==
    /\ pc[p] = "scan"
    /\ val[p] # {} => FirstBit(val[p]) >= MAX_SLOTS
    /\ word' = [word EXCEPT ![p] = @ + 1]
    /\ pc' = [pc EXCEPT ![p] = "load"]
    /\ UNCHANGED <<BUMP, FREE, val, owned>>

\* Mutation of TakeBit: a plain store instead of compare_exchange.
TakeBitByStore(p) ==
    LET slot == FirstBit(val[p]) IN
    /\ pc[p] = "scan"
    /\ val[p] # {} /\ slot < MAX_SLOTS
    /\ FREE' = [FREE EXCEPT ![word[p]] = val[p] \ {slot}]
    /\ owned' = [owned EXCEPT ![p] = @ \cup {slot}]
    /\ pc' = [pc EXCEPT ![p] = "idle"]
    /\ UNCHANGED <<BUMP, word, val>>

\* compare_exchange_weak succeeds: the slot is taken
TakeBit(p) ==
    LET slot == FirstBit(val[p]) IN
    /\ pc[p] = "scan"
    /\ val[p] # {} /\ slot < MAX_SLOTS
    /\ FREE[word[p]] = val[p]
    /\ FREE' = [FREE EXCEPT ![word[p]] = val[p] \ {slot}]
    /\ owned' = [owned EXCEPT ![p] = @ \cup {slot}]
    /\ pc' = [pc EXCEPT ![p] = "idle"]
    /\ UNCHANGED <<BUMP, word, val>>

\* compare_exchange_weak fails, for a changed word or spuriously
RetryBit(p) ==
    /\ pc[p] = "scan"
    /\ val[p] # {} /\ FirstBit(val[p]) < MAX_SLOTS
    /\ val' = [val EXCEPT ![p] = FREE[word[p]]]
    /\ UNCHANGED <<BUMP, FREE, pc, word, owned>>

\* BUMP.fetch_add: a fresh slot, or one past the end
BumpSlot(p) ==
    /\ pc[p] = "load"
    /\ word[p] >= BITMAP_WORDS
    /\ BUMP' = BUMP + 1
    /\ \/ /\ BUMP < MAX_SLOTS
          /\ owned' = [owned EXCEPT ![p] = @ \cup {BUMP}]
          /\ pc' = [pc EXCEPT ![p] = "idle"]
       \/ /\ BUMP >= MAX_SLOTS
          /\ pc' = [pc EXCEPT ![p] = "backoff"]
          /\ UNCHANGED owned
    /\ UNCHANGED <<FREE, word, val>>

\* Mutation of BackOff: the index is clamped to the last slot.
BackOffClamped(p) ==
    /\ pc[p] = "backoff"
    /\ BUMP' = MAX_SLOTS - 1
    /\ pc' = [pc EXCEPT ![p] = "idle"]
    /\ UNCHANGED <<FREE, word, val, owned>>

\* BUMP.fetch_sub, then None is returned
BackOff(p) ==
    /\ pc[p] = "backoff"
    /\ BUMP' = BUMP - 1
    /\ pc' = [pc EXCEPT ![p] = "idle"]
    /\ UNCHANGED <<FREE, word, val, owned>>

\* free_cell_va, called once by the drop of the CellSegments that hold the slot, in
\* whatever context they are dropped and whatever p is doing then
FreeSlot(p, s) ==
    /\ s \in owned[p]
    /\ FREE' = [FREE EXCEPT ![s \div WORD] = @ \cup {s}]
    /\ owned' = [owned EXCEPT ![p] = @ \ {s}]
    /\ UNCHANGED <<BUMP, pc, word, val>>

Next ==
    \E p \in Spawners :
        \/ StartAlloc(p) \/ LoadWord(p) \/ NextWord(p) \/ TakeBit(p)
        \/ RetryBit(p) \/ BumpSlot(p) \/ BackOff(p)
        \/ \E s \in Slots : FreeSlot(p, s)

Spec == Init /\ [][Next]_vars

-----------------------------------------------------------------------------

\* A slot is never handed to two cells: what two contexts hold is disjoint, and
\* a slot that is held is neither on the free list nor still ahead of the bump
\* index (alloc_cell_va may be entered by every hart at once).
SlotsExclusive ==
    \A p \in Spawners :
        /\ owned[p] \subseteq 0 .. BUMP - 1
        /\ \A w \in Words : owned[p] \cap FREE[w] = {}
        /\ \A q \in Spawners \ {p} : owned[p] \cap owned[q] = {}

\* No slot is lost: each one is held, on the free list, or still ahead of the
\* bump index, whatever allocations are in flight.
NoSlotLost ==
    \A s \in Slots :
        \/ s >= BUMP
        \/ s \in FREE[s \div WORD]
        \/ \E p \in Spawners : s \in owned[p]

\* The abstract pool: a call is open from StartAlloc until its slot or its None.
Pool == INSTANCE SlotPool WITH
            Clients <- Spawners,
            held <- owned,
            asking <- {p \in Spawners : pc[p] # "idle"}

\* Seen from its callers the lock-free allocator is an atomic pool: every call
\* of alloc_cell_va or free_cell_va takes effect at one instant within it, on a
\* slot that nobody holds at that instant.
ImplementsPool == Pool!Spec
=============================================================================
