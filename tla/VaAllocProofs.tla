--------------------------- MODULE VaAllocProofs ---------------------------
(***************************************************************************)
(* Proofs about the slot allocator, for any number of contexts, slots and  *)
(* bits per word.                                                          *)
(*                                                                         *)
(* SlotsExclusive and NoSlotLost are not inductive: BUMP.fetch_sub would   *)
(* uncover a held slot if the index could come down below MAX_SLOTS.  The  *)
(* invariant below says why it cannot: every context between its fetch_add *)
(* and its fetch_sub has raised the index above MAX_SLOTS by one.          *)
(***************************************************************************)
EXTENDS VaAlloc, FiniteSetTheorems, WellFoundedInduction, TLAPS

\* The contexts between BUMP.fetch_add and BUMP.fetch_sub
Backing == {p \in Spawners : pc[p] = "backoff"}

\* A word of the bitmap holds its own slots only, all of them below BUMP, and
\* the index stands above MAX_SLOTS by at least the number of fetch_subs due.
BitmapInv ==
    /\ \A w \in Words : \A s \in FREE[w] :
            s \in Slots /\ s < BUMP /\ s \div WORD = w
    /\ \A p \in Spawners : pc[p] = "scan" => word[p] \in Words
    /\ \A p \in Spawners : owned[p] \subseteq Slots
    /\ Backing = {} \/ BUMP >= MAX_SLOTS + Cardinality(Backing)

IInv == TypeOK /\ BitmapInv /\ SlotsExclusive /\ NoSlotLost

\* a leaf that names no prover is Zenon's
USE ZenonT(30)

-----------------------------------------------------------------------------

\* Every slot has a word of the bitmap (the rounding up in BITMAP_WORDS).
LEMMA SlotHasWord ==
    ASSUME NEW s \in Slots
    PROVE  (s \div WORD) \in Words
<1> DEFINE q == s \div WORD
           b == (MAX_SLOTS + WORD - 1) \div WORD
<1> USE SlotsAssumption
<1>0. s \in 0 .. MAX_SLOTS - 1 /\ MAX_SLOTS \in Nat /\ WORD \in Nat /\ WORD > 0
  BY SMT DEF Slots
<1>1. q \in Int /\ s = q * WORD + (s % WORD) /\ (s % WORD) \in 0 .. WORD - 1
  BY <1>0, Z3
<1>2. /\ b \in Int
      /\ MAX_SLOTS + WORD - 1 = b * WORD + ((MAX_SLOTS + WORD - 1) % WORD)
      /\ ((MAX_SLOTS + WORD - 1) % WORD) \in 0 .. WORD - 1
  BY <1>0, Z3
<1>3. q \in 0 .. b - 1
  BY <1>0, <1>1, <1>2, Z3
<1> QED
  BY <1>3 DEF Words, BITMAP_WORDS

\* trailing_zeros of a word that is not zero is one of its bits.
LEMMA FirstBitIn ==
    ASSUME NEW S, S \subseteq Nat, S # {}
    PROVE  FirstBit(S) \in S
<1> DEFINE R == OpToRel(<, Nat)
<1>1. IsWellFoundedOn(R, Nat)
  BY NatLessThanWellFounded
<1>2. \A x, y \in S : ~ (<<y, x>> \in R) => x <= y
  BY SMT DEF OpToRel
<1> HIDE DEF R
<1>3. PICK x \in S : \A y \in S : ~ (<<y, x>> \in R)
  BY <1>1, WFMin
<1> QED
  BY <1>2, <1>3 DEF FirstBit

\* Slots are natural numbers.
LEMMA SlotsNat == Slots \subseteq Nat
  BY SMT DEF Slots

-----------------------------------------------------------------------------

LEMMA InitIInv == Init => IInv
<1> SUFFICES ASSUME Init PROVE IInv
  OBVIOUS
<1> USE SlotsAssumption DEF Init
<1>1. TypeOK
  BY DEF TypeOK
<1>2. BitmapInv
  BY DEF BitmapInv, Backing
<1>3. SlotsExclusive /\ NoSlotLost
  BY SMT DEF SlotsExclusive, NoSlotLost, Slots
<1> QED
  BY <1>1, <1>2, <1>3 DEF IInv

\* A context that takes a bit (TakeBit): the slot was free, hence held by nobody.
LEMMA TakeBitIInv ==
    ASSUME NEW p \in Spawners, IInv, TakeBit(p)
    PROVE  IInv'
<1> DEFINE slot == FirstBit(val[p])
           w0 == word[p]
<1> USE DEF IInv
<1>1. slot \in FREE[w0] /\ w0 \in Words
  BY FirstBitIn, SlotsNat DEF TakeBit, TypeOK, BitmapInv
<1>2. slot \in Slots /\ slot < BUMP /\ slot \div WORD = w0
  BY <1>1 DEF BitmapInv
<1> HIDE DEF slot
<1>3. /\ FREE' = [FREE EXCEPT ![w0] = @ \ {slot}]
      /\ owned' = [owned EXCEPT ![p] = @ \cup {slot}]
      /\ pc[p] = "scan" /\ pc' = [pc EXCEPT ![p] = "idle"]
      /\ UNCHANGED <<BUMP, word, val>>
  BY DEF TakeBit, slot
<1> HIDE DEF w0
<1>4. TypeOK'
  BY <1>1, <1>2, <1>3 DEF TypeOK
<1>5. BitmapInv'
  <2>1. Backing' = Backing
    BY <1>3 DEF TypeOK, Backing
  <2>2. (\A w \in Words : \A s \in FREE[w] :
            s \in Slots /\ s < BUMP /\ s \div WORD = w)'
    BY <1>3 DEF TypeOK, BitmapInv, Slots, Words
  <2>3. (\A q \in Spawners : pc[q] = "scan" => word[q] \in Words)'
    BY <1>3 DEF TypeOK, BitmapInv
  <2>4. (\A q \in Spawners : owned[q] \subseteq Slots)'
    BY <1>2, <1>3 DEF TypeOK, BitmapInv
  <2> QED
    BY <1>3, <2>1, <2>2, <2>3, <2>4 DEF BitmapInv
<1>6. SlotsExclusive'
  <2>1. \A q \in Spawners : slot \notin owned[q]
    BY <1>1 DEF SlotsExclusive
  <2>2. \A w \in Words : slot \notin FREE'[w]
    BY <1>1, <1>2, <1>3 DEF TypeOK, BitmapInv
  <2>3. \A q \in Spawners : owned'[q] \subseteq owned[q] \cup {slot}
    BY <1>3 DEF TypeOK
  <2>4. \A q \in Spawners : q # p => owned'[q] = owned[q]
    BY <1>3 DEF TypeOK
  <2>5. \A w \in Words : FREE'[w] \subseteq FREE[w]
    BY <1>3 DEF TypeOK
  <2>6. slot \in 0 .. BUMP - 1
    BY <1>2, SMT DEF Slots, TypeOK
  <2> QED
    BY <1>3, <2>1, <2>2, <2>3, <2>4, <2>5, <2>6, SMT DEF SlotsExclusive, TypeOK
<1>7. NoSlotLost'
  <2> SUFFICES ASSUME NEW s \in Slots, s < BUMP
               PROVE  s \in FREE'[s \div WORD] \/ \E q \in Spawners : s \in owned'[q]
    BY <1>3, SMT DEF NoSlotLost, Slots, TypeOK
  <2>1. (s \div WORD) \in Words
    BY SlotHasWord
  <2>2. \A q \in Spawners : owned[q] \subseteq owned'[q]
    BY <1>3 DEF TypeOK
  <2>3. slot \in owned'[p]
    BY <1>3 DEF TypeOK
  <2>4. s \in FREE[s \div WORD] /\ s # slot => s \in FREE'[s \div WORD]
    BY <1>3, <2>1 DEF TypeOK
  <2>5. s \in FREE[s \div WORD] \/ \E q \in Spawners : s \in owned[q]
    BY SMT DEF NoSlotLost, Slots, TypeOK
  <2> QED
    BY <2>2, <2>3, <2>4, <2>5
<1> QED
  BY <1>4, <1>5, <1>6, <1>7

\* A fresh slot, or the index goes one past the end and a fetch_sub is due.
LEMMA BumpSlotIInv ==
    ASSUME NEW p \in Spawners, IInv, BumpSlot(p)
    PROVE  IInv'
<1> USE DEF IInv
<1>0. /\ pc[p] = "load" /\ BUMP' = BUMP + 1 /\ UNCHANGED <<FREE, word, val>>
      /\ BUMP \in Nat /\ MAX_SLOTS \in Nat /\ IsFiniteSet(Backing)
      /\ Cardinality(Backing) \in Nat
  BY FS_Subset, FS_CardinalityType, SlotsAssumption, SpawnersAssumption
     DEF BumpSlot, TypeOK, Backing
<1>1. CASE /\ BUMP < MAX_SLOTS
           /\ owned' = [owned EXCEPT ![p] = @ \cup {BUMP}]
           /\ pc' = [pc EXCEPT ![p] = "idle"]
  <2>1. BUMP \in Slots
    BY <1>0, <1>1, SMT DEF Slots
  <2>2. TypeOK'
    BY <1>0, <1>1, <2>1, SMT DEF TypeOK
  <2>3. Backing = {} /\ Backing' = {}
    BY <1>0, <1>1, SMT DEF BitmapInv, Backing, TypeOK
  <2>4. BitmapInv'
    BY <1>0, <1>1, <2>1, <2>3, SMT DEF BitmapInv, TypeOK, Slots, Words
  <2>5. SlotsExclusive'
    BY <1>0, <1>1, <2>1, SMT DEF SlotsExclusive, TypeOK, BitmapInv, Slots
  <2>6. NoSlotLost'
    BY <1>0, <1>1, SMT DEF NoSlotLost, TypeOK, Slots
  <2> QED
    BY <2>2, <2>4, <2>5, <2>6
<1>2. CASE /\ BUMP >= MAX_SLOTS
           /\ pc' = [pc EXCEPT ![p] = "backoff"]
           /\ UNCHANGED owned
  <2>1. TypeOK'
    BY <1>0, <1>2, SMT DEF TypeOK
  <2>2. Backing' = Backing \cup {p} /\ p \notin Backing
    BY <1>0, <1>2 DEF Backing, TypeOK
  <2>3. Cardinality(Backing') = Cardinality(Backing) + 1
    BY <1>0, <2>2, FS_AddElement
  <2>4. BUMP >= MAX_SLOTS + Cardinality(Backing)
    BY <1>0, <1>2, FS_EmptySet, SMT DEF BitmapInv
  <2>5. BitmapInv'
    BY <1>0, <1>2, <2>3, <2>4, SMTT(20) DEF BitmapInv, TypeOK, Slots, Words
  <2>6. SlotsExclusive' /\ NoSlotLost'
    BY <1>0, <1>2, SMT DEF SlotsExclusive, NoSlotLost, TypeOK, Slots
  <2> QED
    BY <2>1, <2>5, <2>6
<1> QED
  BY <1>1, <1>2 DEF BumpSlot

\* fetch_sub never brings the index below MAX_SLOTS: this context's own
\* fetch_add is still counted in it.
LEMMA BackOffIInv ==
    ASSUME NEW p \in Spawners, IInv, BackOff(p)
    PROVE  IInv'
<1> USE DEF IInv
<1>0. /\ pc[p] = "backoff" /\ BUMP' = BUMP - 1 /\ UNCHANGED <<FREE, word, val, owned>>
      /\ pc' = [pc EXCEPT ![p] = "idle"]
      /\ BUMP \in Nat /\ MAX_SLOTS \in Nat /\ IsFiniteSet(Backing)
      /\ Cardinality(Backing) \in Nat
  BY FS_Subset, FS_CardinalityType, SlotsAssumption, SpawnersAssumption
     DEF BackOff, TypeOK, Backing
<1>1. Backing' = Backing \ {p} /\ p \in Backing
  BY <1>0 DEF Backing, TypeOK
<1>2. Cardinality(Backing') = Cardinality(Backing) - 1 /\ Cardinality(Backing) > 0
  BY <1>0, <1>1, FS_RemoveElement, FS_EmptySet, SMT
<1>3. BUMP >= MAX_SLOTS + Cardinality(Backing)
  BY <1>1 DEF BitmapInv
<1>4. BUMP - 1 >= MAX_SLOTS /\ BUMP - 1 \in Nat
  BY <1>0, <1>2, <1>3, SMT
<1>5. TypeOK'
  BY <1>0, <1>4 DEF TypeOK
<1>6. BitmapInv'
  BY <1>0, <1>2, <1>3, <1>4, SMT DEF BitmapInv, TypeOK, Slots, Words
<1>7. SlotsExclusive'
  BY <1>0, <1>4, SMT DEF SlotsExclusive, BitmapInv, Slots
<1>8. NoSlotLost'
  BY <1>0, <1>4, SMT DEF NoSlotLost, Slots
<1> QED
  BY <1>5, <1>6, <1>7, <1>8

\* fetch_or of a held slot: it goes to the word it was, or will be, taken from.
LEMMA FreeSlotIInv ==
    ASSUME NEW p \in Spawners, NEW s \in Slots, IInv, FreeSlot(p, s)
    PROVE  IInv'
<1> DEFINE w0 == s \div WORD
<1> USE DEF IInv
<1>0. w0 \in Words
  BY SlotHasWord
<1>1. /\ s \in owned[p] /\ s \in Slots
      /\ FREE' = [FREE EXCEPT ![w0] = @ \cup {s}]
      /\ owned' = [owned EXCEPT ![p] = @ \ {s}]
      /\ UNCHANGED <<BUMP, pc, word, val>>
  BY DEF FreeSlot
<1>2. s < BUMP
  BY <1>1, SMT DEF SlotsExclusive, TypeOK, Slots
<1>3. TypeOK'
  BY <1>0, <1>1 DEF TypeOK
<1>4. BitmapInv'
  <2>1. Backing' = Backing
    BY <1>1 DEF Backing
  <2>2. (\A w \in Words : \A x \in FREE[w] :
            x \in Slots /\ x < BUMP /\ x \div WORD = w)'
    BY <1>0, <1>1, <1>2 DEF TypeOK, BitmapInv, Slots, Words
  <2> QED
    BY <1>1, <2>1, <2>2 DEF BitmapInv, TypeOK
<1> HIDE DEF w0
<1>5. SlotsExclusive'
  <2>1. \A q \in Spawners : owned'[q] \subseteq owned[q] /\ s \notin owned'[q]
    BY <1>1 DEF SlotsExclusive, TypeOK
  <2>2. \A w \in Words : FREE'[w] \subseteq FREE[w] \cup {s}
    BY <1>1 DEF TypeOK
  <2> QED
    BY <1>1, <2>1, <2>2, SMT DEF SlotsExclusive, TypeOK
<1>6. NoSlotLost'
  <2> SUFFICES ASSUME NEW x \in Slots, x < BUMP
               PROVE  x \in FREE'[x \div WORD] \/ \E q \in Spawners : x \in owned'[q]
    BY <1>1, SMT DEF NoSlotLost, Slots, TypeOK
  <2>1. (x \div WORD) \in Words
    BY SlotHasWord
  <2>2. x \in FREE[x \div WORD] => x \in FREE'[x \div WORD]
    BY <1>1, <2>1 DEF TypeOK
  <2>3. \A q \in Spawners : x # s /\ x \in owned[q] => x \in owned'[q]
    BY <1>1 DEF TypeOK
  <2>4. s \in FREE'[w0]
    BY <1>0, <1>1 DEF TypeOK
  <2>5. x \in FREE[x \div WORD] \/ \E q \in Spawners : x \in owned[q]
    BY SMT DEF NoSlotLost, Slots, TypeOK
  <2> QED
    BY <2>2, <2>3, <2>4, <2>5 DEF w0
<1> QED
  BY <1>3, <1>4, <1>5, <1>6

-----------------------------------------------------------------------------

LEMMA NextIInv == IInv /\ [Next]_vars => IInv'
<1> SUFFICES ASSUME IInv, [Next]_vars PROVE IInv'
  OBVIOUS
<1> USE DEF IInv
<1>1. ASSUME NEW p \in Spawners,
             \/ StartAlloc(p) \/ LoadWord(p) \/ NextWord(p) \/ RetryBit(p)
      PROVE  IInv'
  <2>1. /\ UNCHANGED <<BUMP, FREE, owned>>
        /\ pc[p] \in {"idle", "load", "scan"}
        /\ \/ pc' = pc \/ pc' = [pc EXCEPT ![p] = "load"]
           \/ pc' = [pc EXCEPT ![p] = "scan"] /\ word[p] \in Words /\ word' = word
    <3>1. BITMAP_WORDS \in Int
      BY SlotsAssumption, SMT DEF BITMAP_WORDS
    <3> QED
      BY <1>1, <3>1, SMT DEF StartAlloc, LoadWord, NextWord, RetryBit, TypeOK, Words
  <2>2. Backing' = Backing
    BY <2>1 DEF Backing, TypeOK
  <2>3. TypeOK'
    <3>1. word[p] \in Words => FREE[word[p]] \in SUBSET Slots
      BY DEF TypeOK
    <3>2. LoadWord(p) \/ RetryBit(p) => word[p] \in Words
      <4>1. BITMAP_WORDS \in Int
        BY SlotsAssumption, SMT DEF BITMAP_WORDS
      <4> QED
        BY <4>1, SMT DEF LoadWord, RetryBit, TypeOK, BitmapInv, Words
    <3> QED
      BY <1>1, <3>1, <3>2, SMT DEF StartAlloc, LoadWord, NextWord, RetryBit, TypeOK
  <2>4. (\A q \in Spawners : pc[q] = "scan" => word[q] \in Words)'
    BY <1>1, <2>1 DEF StartAlloc, LoadWord, NextWord, RetryBit, TypeOK, BitmapInv
  <2>5. BitmapInv'
    BY <2>1, <2>2, <2>4 DEF BitmapInv
  <2>6. SlotsExclusive' /\ NoSlotLost'
    BY <2>1 DEF SlotsExclusive, NoSlotLost
  <2> QED
    BY <2>3, <2>5, <2>6
<1>2. CASE UNCHANGED vars
  BY <1>2 DEF vars, TypeOK, BitmapInv, Backing, SlotsExclusive, NoSlotLost
<1> QED
  BY <1>1, <1>2, TakeBitIInv, BumpSlotIInv, BackOffIInv, FreeSlotIInv DEF Next

\* alloc_cell_va and free_cell_va keep the allocator's state well formed: the
\* bump index never wraps below zero, whatever contexts back off together.
THEOREM TypeCorrect == Spec => []TypeOK
<1>1. IInv => TypeOK
  BY DEF IInv
<1> QED
  BY <1>1, InitIInv, NextIInv, PTL DEF Spec

\* alloc_cell_va never hands out a slot that a live cell holds, however many
\* contexts allocate and free at once and wherever they are preempted.
THEOREM AllocIsExclusive == Spec => []SlotsExclusive
<1>1. IInv => SlotsExclusive
  BY DEF IInv
<1> QED
  BY <1>1, InitIInv, NextIInv, PTL DEF Spec

\* No slot is ever lost by a race between alloc_cell_va and free_cell_va: each
\* one is held, free, or still ahead of the bump index.
THEOREM NothingLost == Spec => []NoSlotLost
<1>1. IInv => NoSlotLost
  BY DEF IInv
<1> QED
  BY <1>1, InitIInv, NextIInv, PTL DEF Spec

-----------------------------------------------------------------------------

\* Each atomic instruction of the allocator is a step of the abstract pool or
\* is invisible to its callers.  The slot that TakeBit or BumpSlot hands out is
\* held by nobody, because it is free or ahead of the bump index.
LEMMA PoolStep == IInv /\ [Next]_vars => [Pool!Next]_Pool!vars
<1> SUFFICES ASSUME IInv, [Next]_vars PROVE [Pool!Next]_Pool!vars
  OBVIOUS
<1> USE DEF IInv
<1>0. pc \in [Spawners -> {"idle", "load", "scan", "backoff"}]
  BY DEF TypeOK
<1>1. ASSUME NEW p \in Spawners, StartAlloc(p)
      PROVE  Pool!Ask(p)
  BY <1>0, <1>1 DEF StartAlloc, Pool!Ask
<1>2. ASSUME NEW p \in Spawners, LoadWord(p) \/ NextWord(p) \/ RetryBit(p)
      PROVE  UNCHANGED Pool!vars
  BY <1>0, <1>2 DEF LoadWord, NextWord, RetryBit, Pool!vars
<1>3. ASSUME NEW p \in Spawners, TakeBit(p)
      PROVE  \E s \in Slots : Pool!Grant(p, s)
  <2>1. FirstBit(val[p]) \in FREE[word[p]] /\ word[p] \in Words
    BY <1>3, FirstBitIn, SlotsNat DEF TakeBit, TypeOK, BitmapInv
  <2>2. FirstBit(val[p]) \in Slots
    BY <2>1 DEF BitmapInv
  <2>3. \A q \in Spawners : FirstBit(val[p]) \notin owned[q]
    BY <2>1 DEF SlotsExclusive
  <2>4. Pool!Grant(p, FirstBit(val[p]))
    BY <1>0, <1>3, <2>3 DEF TakeBit, Pool!Grant
  <2> QED
    BY <2>2, <2>4 DEF Pool!Grant
<1>4. ASSUME NEW p \in Spawners, BumpSlot(p)
      PROVE  (\E s \in Slots : Pool!Grant(p, s)) \/ UNCHANGED Pool!vars
  <2>0. BUMP \in Nat /\ MAX_SLOTS \in Nat
    BY SlotsAssumption DEF TypeOK
  <2>1. CASE /\ BUMP < MAX_SLOTS
             /\ owned' = [owned EXCEPT ![p] = @ \cup {BUMP}]
             /\ pc' = [pc EXCEPT ![p] = "idle"]
    <3>1. BUMP \in Slots
      BY <2>0, <2>1, SMT DEF Slots
    <3>2. \A q \in Spawners : BUMP \notin owned[q]
      BY <2>0, SMT DEF SlotsExclusive
    <3>3. Pool!Grant(p, BUMP)
      BY <1>0, <1>4, <2>1, <3>2 DEF BumpSlot, Pool!Grant
    <3> QED
      BY <3>1, <3>3 DEF Pool!Grant
  <2>2. CASE pc' = [pc EXCEPT ![p] = "backoff"] /\ UNCHANGED owned
    BY <1>0, <1>4, <2>2 DEF BumpSlot, Pool!vars
  <2> QED
    BY <1>4, <2>1, <2>2 DEF BumpSlot
<1>5. ASSUME NEW p \in Spawners, BackOff(p)
      PROVE  Pool!Refuse(p)
  BY <1>0, <1>5 DEF BackOff, Pool!Refuse
<1>6. ASSUME NEW p \in Spawners, NEW s \in Slots, FreeSlot(p, s)
      PROVE  Pool!Return(p, s)
  BY <1>6 DEF FreeSlot, Pool!Return
<1>7. CASE UNCHANGED vars
  BY <1>7 DEF vars, Pool!vars
<1>8. CASE Next
  BY <1>1, <1>2, <1>3, <1>4, <1>5, <1>6, <1>8 DEF Next, Pool!Next
<1> QED
  BY <1>7, <1>8

\* The allocator without a lock implements the atomic pool, for any number of
\* contexts, slots and bits per word.
THEOREM AllocImplementsPool == Spec => ImplementsPool
<1>1. Init => Pool!Init
  BY DEF Init, Pool!Init
<1> QED
  BY <1>1, InitIInv, NextIInv, PoolStep, PTL DEF Spec, ImplementsPool, Pool!Spec
=============================================================================
