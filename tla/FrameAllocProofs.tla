-------------------------- MODULE FrameAllocProofs --------------------------
(***************************************************************************)
(* Proofs about FrameAlloc, for any number of contexts, frames and sizes.  *)
(***************************************************************************)
EXTENDS FrameAlloc, WellFoundedInduction, TLAPS

-----------------------------------------------------------------------------
(* The operators of the allocator *)

\* a leaf that names no prover is Zenon's
USE ZenonT(30)

\* A set of naturals that is not empty has a least element.
LEMMA LeastIs ==
    ASSUME NEW S \in SUBSET Nat, S # {}
    PROVE  Least(S) \in S /\ \A j \in S : Least(S) <= j
<1>1. PICK x \in S : \A y \in S : ~ (<<y, x>> \in OpToRel(<, Nat))
  BY NatLessThanWellFounded, WFMin
<1>2. \A y \in S : ~ (y < x)
  BY <1>1 DEF OpToRel
<1>3. \A y \in S : x <= y
  BY <1>2, SMT
<1> QED
  BY <1>3 DEF Least

\* find_free returns a clear bit of its range.
LEMMA FindFreeIsFree ==
    ASSUME NEW start \in Nat, NEW end \in Nat, end <= TOTAL,
           find_free(start, end) # NoFrame
    PROVE  /\ find_free(start, end) \in Frames
           /\ find_free(start, end) \notin used
           /\ find_free(start, end) < end
<1> DEFINE clear == {i \in start .. end - 1 : i \notin used}
<1>1. clear \in SUBSET Nat /\ clear # {} /\ find_free(start, end) = Least(clear)
  BY SMT DEF find_free
<1>2. Least(clear) \in clear
  BY <1>1, LeastIs
<1> QED
  BY <1>1, <1>2, FramesAssumption, SMT DEF Frames

-----------------------------------------------------------------------------
(* The inductive invariant.  NoRunMissed is not inductive: what keeps the      *)
(* search from passing over a run is that it never moves beyond the start of  *)
(* one that has been free all along.                                          *)

CallInv(c) ==
    /\ pc[c] \in {"idle", "failed"} => stable[c] = {}
    /\ pc[c] \in {"probe", "commit"} =>
         /\ want[c] > 0
         /\ candidate[c] + run_len[c] <= TOTAL
         /\ stable[c] \subseteq FreeRuns(used, want[c])
         /\ \A a \in stable[c] : candidate[c] <= a
    /\ pc[c] = "probe" => run_len[c] < want[c]
    /\ pc[c] = "commit" => want[c] <= run_len[c]

IInv == TypeOK /\ FramesExclusive /\ \A c \in Clients : CallInv(c)

\* Frames that are free may be given to one context.
LEMMA GiveIsExclusive ==
    ASSUME TypeOK, FramesExclusive, NEW c \in Clients, NEW S \in SUBSET Frames,
           S \cap used = {}, Give(c, S)
    PROVE  /\ used' \in SUBSET Frames
           /\ held' \in [Clients -> SUBSET Frames]
           /\ FramesExclusive'
<1>1. /\ used \in SUBSET Frames /\ held \in [Clients -> SUBSET Frames]
      /\ used' = used \cup S
      /\ held' = [held EXCEPT ![c] = @ \cup S]
  BY DEF TypeOK, Give
<1>2. used' \in SUBSET Frames /\ held' \in [Clients -> SUBSET Frames]
  BY <1>1
<1>3. \A d \in Clients, f \in Frames :
         f \in held'[d] <=> (f \in held[d] \/ (d = c /\ f \in S))
  BY <1>1
<1>4. \A f \in Frames : f \in S =>
         (f >= BITMAP_PAGES /\ \A d \in Clients : f \notin held[d])
  BY <1>1, FramesAssumption, SMT DEF FramesExclusive, Frames
<1>5. FramesExclusive'
  BY <1>1, <1>3, <1>4 DEF FramesExclusive
<1> QED
  BY <1>2, <1>5

\* A context inside its search is not disturbed by what others take ...
LEMMA OthersTake ==
    ASSUME NEW d \in Clients, CallInv(d),
           pc'[d] = pc[d], want'[d] = want[d], candidate'[d] = candidate[d],
           run_len'[d] = run_len[d],
           stable'[d] = IF pc'[d] = "idle" THEN {}
                        ELSE stable[d] \cap FreeRuns(used', want[d])
    PROVE  CallInv(d)'
  BY DEF CallInv, FreeRuns

\* ... or by what they free.
LEMMA OthersFree ==
    ASSUME NEW d \in Clients, CallInv(d), used' \subseteq used,
           pc'[d] = pc[d], want'[d] = want[d], candidate'[d] = candidate[d],
           run_len'[d] = run_len[d], stable'[d] = stable[d]
    PROVE  CallInv(d)'
  BY DEF CallInv, FreeRuns

\* What allocate_frame and allocate_contiguous do, once they have found frames.
LEMMA TakeKeeps ==
    ASSUME IInv, NEW c \in Clients, NEW S \in SUBSET Frames, S \cap used = {},
           Give(c, S), last' \in 0 .. TOTAL, KeepStable(used \cup S),
           UNCHANGED <<pc, want, candidate, run_len>>
    PROVE  IInv'
<1>1. /\ used' \in SUBSET Frames /\ held' \in [Clients -> SUBSET Frames]
      /\ FramesExclusive'
  BY GiveIsExclusive DEF IInv
<1>2. /\ stable \in [Clients -> SUBSET Frames] /\ used' = used \cup S
      /\ stable' = [d \in Clients |-> IF pc'[d] = "idle" THEN {}
                                     ELSE stable[d] \cap FreeRuns(used', want[d])]
  BY DEF IInv, TypeOK, KeepStable, Give
<1>3. stable' \in [Clients -> SUBSET Frames]
  BY <1>2
<1>4. TypeOK'
  BY <1>1, <1>3 DEF IInv, TypeOK
<1>5. ASSUME NEW d \in Clients PROVE CallInv(d)'
  <2>1. stable'[d] = IF pc'[d] = "idle" THEN {}
                     ELSE stable[d] \cap FreeRuns(used', want[d])
    BY <1>2
  <2> QED
    BY <2>1, OthersTake DEF IInv
<1> QED
  BY <1>1, <1>4, <1>5 DEF IInv

LEMMA AllocateFrameKeeps ==
    ASSUME IInv, NEW c \in Clients, allocate_frame(c)
    PROVE  IInv'
<1> DEFINE first == find_free(last, TOTAL)
           idx == IF first # NoFrame THEN first ELSE find_free(0, last)
<1>1. last \in 0 .. TOTAL /\ TOTAL \in Nat
  BY FramesAssumption DEF IInv, TypeOK
<1>2. /\ idx # NoFrame /\ Give(c, {idx}) /\ last' = idx + 1
      /\ KeepStable(used \cup {idx}) /\ UNCHANGED <<pc, want, candidate, run_len>>
  BY DEF allocate_frame
<1>3. idx \in Frames /\ idx \notin used
  <2>1. CASE first # NoFrame
    BY <2>1, <1>1, FindFreeIsFree, SMT
  <2>2. CASE first = NoFrame
    <3>1. find_free(0, last) # NoFrame
      BY <2>2, <1>2
    <3> QED
      BY <2>2, <3>1, <1>1, FindFreeIsFree, SMT
  <2> QED
    BY <2>1, <2>2
<1>4. {idx} \in SUBSET Frames /\ {idx} \cap used = {}
  BY <1>3
<1>5. last' \in 0 .. TOTAL
  BY <1>1, <1>2, <1>3, SMT DEF Frames
<1> HIDE DEF idx
<1> QED
  BY <1>2, <1>4, <1>5, TakeKeeps

LEMMA AllocateContiguousKeeps ==
    ASSUME IInv, NEW c \in Clients, NEW n \in Sizes, allocate_contiguous(c, n)
    PROVE  IInv'
<1> DEFINE fits == {s \in 0 .. Limit(n) :
                      \A i \in 0 .. n - 1 : ~ is_frame_allocated(s + i)}
           run == Least(fits) .. Least(fits) + n - 1
<1>1. n \in Nat \ {0} /\ TOTAL \in Nat \ {0} /\ BITMAP_PAGES \in 1 .. TOTAL
  BY FramesAssumption
<1>2. /\ fits # {} /\ Give(c, run) /\ KeepStable(used \cup run)
      /\ UNCHANGED <<last, pc, want, candidate, run_len>>
  BY DEF allocate_contiguous
<1>3. fits \in SUBSET Nat
  BY <1>1, SMT DEF Limit
<1>4. Least(fits) \in fits
  BY <1>2, <1>3, LeastIs
<1>5. Least(fits) \in 0 .. Limit(n) /\ \A i \in 0 .. n - 1 : ~ is_frame_allocated(Least(fits) + i)
  BY <1>4
<1>6. 0 \in used
  BY <1>1, SMT DEF IInv, FramesExclusive, Frames
<1> HIDE DEF fits
<1>7. n <= TOTAL
  <2>1. SUFFICES ASSUME n > TOTAL PROVE FALSE
    BY <1>1, SMT
  <2>2. Least(fits) = 0 /\ 0 \in 0 .. n - 1
    BY <2>1, <1>1, <1>5, SMT DEF Limit
  <2>3. ~ is_frame_allocated(0 + 0)
    BY <2>2, <1>5
  <2> QED
    BY <2>3, <1>1, <1>6, SMT DEF is_frame_allocated
<1>8. Least(fits) \in Nat /\ Least(fits) + n <= TOTAL
  BY <1>1, <1>5, <1>7, SMT DEF Limit
<1>9. ASSUME NEW f \in run PROVE f \in Frames /\ f \notin used
  <2>1. f \in Frames /\ f - Least(fits) \in 0 .. n - 1 /\ Least(fits) + (f - Least(fits)) = f
    BY <1>1, <1>8, SMT DEF Frames
  <2>2. ~ is_frame_allocated(Least(fits) + (f - Least(fits)))
    BY <2>1, <1>5
  <2> QED
    BY <2>1, <2>2, <1>1, SMT DEF is_frame_allocated, Frames
<1>10. run \in SUBSET Frames /\ run \cap used = {}
  BY <1>9
<1>11. last' \in 0 .. TOTAL
  BY <1>2 DEF IInv, TypeOK
<1> HIDE DEF run
<1> QED
  BY <1>2, <1>10, <1>11, TakeKeeps

LEMMA DeallocateKeeps ==
    ASSUME IInv, NEW c \in Clients, NEW f \in Frames, deallocate_frame(c, f)
    PROVE  IInv'
<1>1. /\ used \in SUBSET Frames /\ held \in [Clients -> SUBSET Frames]
      /\ f \in held[c]
      /\ used' = used \ {f}
      /\ held' = [held EXCEPT ![c] = @ \ {f}]
      /\ UNCHANGED <<last, pc, want, candidate, run_len, stable>>
  BY DEF IInv, TypeOK, deallocate_frame
<1>2. TypeOK'
  BY <1>1 DEF IInv, TypeOK
<1>3. \A d \in Clients, g \in Frames :
         g \in held'[d] <=> (g \in held[d] /\ ~ (d = c /\ g = f))
  BY <1>1
<1>4. \A g \in Frames :
        /\ g \in used <=> (g < BITMAP_PAGES \/ \E d \in Clients : g \in held[d])
        /\ \A d \in Clients : g \in held[d] =>
              g >= BITMAP_PAGES /\ \A e \in Clients \ {d} : g \notin held[e]
  BY DEF IInv, FramesExclusive
<1>5. FramesExclusive'
  BY <1>1, <1>3, <1>4, FramesAssumption, SMT DEF FramesExclusive, Frames
<1>6. ASSUME NEW d \in Clients PROVE CallInv(d)'
  BY <1>1, OthersFree DEF IInv
<1> QED
  BY <1>2, <1>5, <1>6 DEF IInv

-----------------------------------------------------------------------------
(* allocate_guest_ram *)

\* A step of the search that changes nothing but the local variables of c.
LEMMA LocalKeeps ==
    ASSUME IInv, NEW c \in Clients, UNCHANGED <<used, last, held>>, TypeOK', CallInv(c)',
           \A d \in Clients \ {c} :
              /\ pc'[d] = pc[d] /\ want'[d] = want[d] /\ candidate'[d] = candidate[d]
              /\ run_len'[d] = run_len[d] /\ stable'[d] = stable[d]
    PROVE  IInv'
<1>1. FramesExclusive'
  BY DEF IInv, FramesExclusive
<1>2. \A d \in Clients \ {c} : CallInv(d)'
  BY OthersFree DEF IInv
<1> QED
  BY <1>1, <1>2 DEF IInv

LEMMA StartKeeps ==
    ASSUME IInv, NEW c \in Clients, NEW n \in Sizes, StartGuestRam(c, n)
    PROVE  IInv'
<1>1. n \in Nat \ {0} /\ TOTAL \in Nat
  BY FramesAssumption
<1>2. TypeOK
  BY DEF IInv
<1>3. TypeOK'
  BY <1>1, <1>2 DEF TypeOK, StartGuestRam, FreeRuns
<1>4. /\ pc'[c] = "probe" /\ want'[c] = n /\ candidate'[c] = 0 /\ run_len'[c] = 0
      /\ stable'[c] = FreeRuns(used', n) /\ stable'[c] \subseteq Frames
  BY <1>2 DEF TypeOK, StartGuestRam, FreeRuns
<1>5. CallInv(c)'
  BY <1>1, <1>4, SMT DEF CallInv, Frames
<1> QED
  BY <1>2, <1>3, <1>5, LocalKeeps DEF StartGuestRam, TypeOK

\* None is answered when no start of a run is left.
LEMMA GiveUpKeeps ==
    ASSUME IInv, NEW c \in Clients, GiveUp(c)
    PROVE  IInv'
<1>1. TypeOK /\ CallInv(c) /\ pc[c] = "probe" /\ TOTAL \in Nat
  BY FramesAssumption DEF IInv, GiveUp
<1>2. /\ want[c] \in Nat /\ candidate[c] \in Nat /\ run_len[c] \in Nat
      /\ stable[c] \in SUBSET Nat
  BY <1>1, SMT DEF TypeOK, Frames
<1>3. stable[c] = {}
  <2>1. SUFFICES ASSUME NEW a \in stable[c] PROVE FALSE
    OBVIOUS
  <2>2. /\ a \in Nat /\ a + want[c] <= TOTAL /\ candidate[c] <= a /\ run_len[c] < want[c]
    BY <1>1, <1>2 DEF CallInv, FreeRuns
  <2>3. candidate[c] > Limit(want[c]) \/ candidate[c] + run_len[c] >= TOTAL
    BY DEF GiveUp
  <2> QED
    BY <1>1, <1>2, <2>2, <2>3, SMT DEF Limit
<1>4. TypeOK'
  BY <1>1 DEF TypeOK, GiveUp
<1>5. pc'[c] = "failed" /\ stable' = stable
  BY <1>1 DEF TypeOK, GiveUp
<1>6. CallInv(c)'
  BY <1>3, <1>5 DEF CallInv
<1> QED
  BY <1>1, <1>4, <1>6, LocalKeeps DEF GiveUp, TypeOK

LEMMA ProbeKeeps ==
    ASSUME IInv, NEW c \in Clients, Probe(c)
    PROVE  IInv'
<1> DEFINE from == candidate[c] + run_len[c]
           upto == IF from + PROBE_CHUNK < TOTAL THEN from + PROBE_CHUNK ELSE TOTAL
           first_used == {i \in from .. upto - 1 : is_frame_allocated(i)}
           ends == IF first_used = {} THEN upto ELSE Least(first_used)
           len == run_len[c] + (ends - from)
<1>1. /\ TypeOK /\ CallInv(c) /\ pc[c] = "probe"
      /\ TOTAL \in Nat \ {0} /\ PROBE_CHUNK \in Nat \ {0}
  BY FramesAssumption DEF IInv, Probe
<1>2. /\ want[c] \in Nat /\ candidate[c] \in Nat /\ run_len[c] \in Nat
      /\ stable[c] \in SUBSET Nat
  BY <1>1, SMT DEF TypeOK, Frames
<1>3. /\ want[c] > 0 /\ from <= TOTAL /\ run_len[c] < want[c]
      /\ \A a \in stable[c] :
            candidate[c] <= a /\ a + want[c] <= TOTAL /\ (a .. a + want[c] - 1) \cap used = {}
  BY <1>1 DEF CallInv, FreeRuns
<1>4. from < TOTAL
  BY DEF Probe
<1>5. upto \in Nat /\ from < upto /\ upto <= TOTAL
  BY <1>1, <1>2, <1>4, SMT
<1>6. first_used # {} => Least(first_used) \in first_used
  <2>1. first_used \in SUBSET Nat
    BY <1>2, <1>5, SMT
  <2> HIDE DEF first_used
  <2> QED
    BY <2>1, LeastIs
<1>7. /\ ends \in Nat /\ from <= ends /\ ends <= TOTAL
      /\ first_used # {} => ends < TOTAL /\ ends \in used
  <2>1. CASE first_used = {}
    BY <2>1, <1>2, <1>5, SMT
  <2>2. CASE first_used # {}
    <3>1. ends \in from .. upto - 1 /\ is_frame_allocated(ends)
      BY <2>2, <1>6
    <3> HIDE DEF ends, first_used, upto
    <3> QED
      BY <2>2, <3>1, <1>1, <1>2, <1>5, SMT DEF is_frame_allocated
  <2> QED
    BY <2>1, <2>2
<1> HIDE DEF first_used, upto, ends
<1>8. len \in Nat /\ candidate[c] + len = ends
  BY <1>2, <1>7, SMT
<1>9. /\ UNCHANGED <<used, last, held, want, stable>>
      /\ \/ /\ len >= want[c]
            /\ pc' = [pc EXCEPT ![c] = "commit"]
            /\ run_len' = [run_len EXCEPT ![c] = len]
            /\ UNCHANGED candidate
         \/ /\ len < want[c] /\ first_used # {}
            /\ candidate' = [candidate EXCEPT ![c] = ends + 1]
            /\ run_len' = [run_len EXCEPT ![c] = 0]
            /\ UNCHANGED pc
         \/ /\ len < want[c] /\ first_used = {}
            /\ run_len' = [run_len EXCEPT ![c] = len]
            /\ UNCHANGED <<pc, candidate>>
  BY DEF Probe, first_used, upto, ends
<1> HIDE DEF len
<1>10. CASE len >= want[c] /\ pc' = [pc EXCEPT ![c] = "commit"]
            /\ run_len' = [run_len EXCEPT ![c] = len] /\ UNCHANGED candidate
  <2>1. TypeOK'
    BY <1>1, <1>8, <1>9, <1>10 DEF TypeOK
  <2>2. pc'[c] = "commit" /\ run_len'[c] = len
    BY <1>1, <1>10 DEF TypeOK
  <2>3. CallInv(c)'
    BY <1>1, <1>2, <1>7, <1>8, <1>9, <1>10, <2>2 DEF CallInv
  <2> QED
    BY <1>1, <1>9, <1>10, <2>1, <2>3, LocalKeeps DEF TypeOK
<1>11. CASE len < want[c] /\ first_used # {} /\ candidate' = [candidate EXCEPT ![c] = ends + 1]
            /\ run_len' = [run_len EXCEPT ![c] = 0] /\ UNCHANGED pc
  <2>1. TypeOK'
    BY <1>1, <1>7, <1>9, <1>11, SMT DEF TypeOK
  <2>2. pc'[c] = "probe" /\ run_len'[c] = 0 /\ candidate'[c] = ends + 1
    BY <1>1, <1>11 DEF TypeOK
  <2>3. ASSUME NEW a \in stable[c] PROVE ends + 1 <= a
    <3>1. a \in Nat /\ candidate[c] <= a /\ (a .. a + want[c] - 1) \cap used = {}
      BY <1>2, <1>3
    <3>2. ends \notin a .. a + want[c] - 1
      BY <3>1, <1>7, <1>11
    <3> QED
      BY <3>1, <3>2, <1>2, <1>7, <1>8, <1>11, SMT
  <2>4. CallInv(c)'
    BY <1>1, <1>2, <1>3, <1>7, <1>9, <1>11, <2>2, <2>3, SMT DEF CallInv
  <2> QED
    BY <1>1, <1>9, <1>11, <2>1, <2>4, LocalKeeps DEF TypeOK
<1>12. CASE len < want[c] /\ run_len' = [run_len EXCEPT ![c] = len] /\ UNCHANGED <<pc, candidate>>
  <2>1. TypeOK'
    BY <1>1, <1>8, <1>9, <1>12 DEF TypeOK
  <2>2. pc'[c] = "probe" /\ run_len'[c] = len
    BY <1>1, <1>12 DEF TypeOK
  <2>3. CallInv(c)'
    BY <1>1, <1>2, <1>7, <1>8, <1>9, <1>12, <2>2 DEF CallInv
  <2> QED
    BY <1>1, <1>9, <1>12, <2>1, <2>3, LocalKeeps DEF TypeOK
<1> QED
  BY <1>9, <1>10, <1>11, <1>12

\* The run that is marked lies inside the memory (the debug_assert of
\* mark_range_used) and is free.
LEMMA CommitKeeps ==
    ASSUME IInv, NEW c \in Clients, Commit(c)
    PROVE  IInv'
<1>1. /\ TypeOK /\ CallInv(c) /\ pc[c] = "commit" /\ TOTAL \in Nat
      /\ \A i \in Run(c) : ~ is_frame_allocated(i)
      /\ Give(c, Run(c)) /\ Return(c) /\ KeepStable(used \cup Run(c)) /\ UNCHANGED last
  BY FramesAssumption DEF IInv, Commit
<1>2. /\ want[c] \in Nat /\ candidate[c] \in Nat /\ run_len[c] \in Nat
      /\ want[c] <= run_len[c] /\ candidate[c] + run_len[c] <= TOTAL
  BY <1>1 DEF TypeOK, CallInv
<1>3. Run(c) \in SUBSET Frames /\ Run(c) \cap used = {}
  <2>1. \A i \in Run(c) : i \in Nat /\ i < candidate[c] + want[c]
    BY <1>2, SMT DEF Run
  <2>2. \A i \in Run(c) : i \in Nat /\ i < TOTAL
    <3>1. TOTAL \in Nat
      BY <1>1
    <3> QED
      BY <1>2, <2>1, <3>1, SMT
  <2>3. \A i \in Run(c) : i \in Frames
    BY <1>1, <2>2, SMT DEF Frames
  <2>4. \A i \in Run(c) : i \notin used
    BY <1>1, <2>2 DEF is_frame_allocated
  <2> QED
    BY <2>3, <2>4
<1>4. /\ used' \in SUBSET Frames /\ held' \in [Clients -> SUBSET Frames]
      /\ FramesExclusive'
  BY <1>1, <1>3, GiveIsExclusive DEF IInv
<1>5. /\ pc' = [pc EXCEPT ![c] = "idle"]
      /\ want' = [want EXCEPT ![c] = 0]
      /\ candidate' = [candidate EXCEPT ![c] = 0]
      /\ run_len' = [run_len EXCEPT ![c] = 0]
      /\ used' = used \cup Run(c)
      /\ stable' = [d \in Clients |-> IF pc'[d] = "idle" THEN {}
                                     ELSE stable[d] \cap FreeRuns(used', want[d])]
  BY <1>1 DEF Return, KeepStable, Give
<1>6. TypeOK'
  BY <1>1, <1>4, <1>5 DEF TypeOK
<1>7. pc'[c] = "idle" /\ stable'[c] = {}
  BY <1>1, <1>5 DEF TypeOK
<1>8. CallInv(c)'
  BY <1>7 DEF CallInv
<1>9. ASSUME NEW d \in Clients \ {c} PROVE CallInv(d)'
  <2>1. /\ pc'[d] = pc[d] /\ want'[d] = want[d] /\ candidate'[d] = candidate[d]
        /\ run_len'[d] = run_len[d]
        /\ stable'[d] = IF pc'[d] = "idle" THEN {}
                        ELSE stable[d] \cap FreeRuns(used', want[d])
    BY <1>1, <1>5 DEF TypeOK
  <2> QED
    BY <2>1, OthersTake DEF IInv
<1> QED
  BY <1>4, <1>6, <1>8, <1>9 DEF IInv

\* A run that lost a frame is not one that was free all along.
LEMMA RestartKeeps ==
    ASSUME IInv, NEW c \in Clients, Restart(c)
    PROVE  IInv'
<1>1. /\ TypeOK /\ CallInv(c) /\ pc[c] = "commit" /\ TOTAL \in Nat
      /\ \E i \in Run(c) : is_frame_allocated(i)
      /\ candidate' = [candidate EXCEPT ![c] = @ + 1]
      /\ run_len' = [run_len EXCEPT ![c] = 0]
      /\ pc' = [pc EXCEPT ![c] = "probe"]
      /\ UNCHANGED <<used, last, held, want, stable>>
  BY FramesAssumption DEF IInv, Restart
<1>2. /\ want[c] \in Nat /\ candidate[c] \in Nat /\ run_len[c] \in Nat
      /\ stable[c] \in SUBSET Nat
  BY <1>1, SMT DEF TypeOK, Frames
<1>3. /\ want[c] > 0 /\ want[c] <= run_len[c] /\ candidate[c] + run_len[c] <= TOTAL
      /\ \A a \in stable[c] : candidate[c] <= a /\ (a .. a + want[c] - 1) \cap used = {}
  BY <1>1 DEF CallInv, FreeRuns
<1>4. candidate[c] \notin stable[c]
  BY <1>1, <1>3 DEF Run, is_frame_allocated
<1>5. \A a \in stable[c] : candidate[c] + 1 <= a
  BY <1>2, <1>3, <1>4, SMT
<1>6. TypeOK'
  BY <1>1, <1>2, SMT DEF TypeOK
<1>7. pc'[c] = "probe" /\ run_len'[c] = 0 /\ candidate'[c] = candidate[c] + 1
  BY <1>1 DEF TypeOK
<1>8. CallInv(c)'
  BY <1>1, <1>2, <1>3, <1>5, <1>7, SMT DEF CallInv
<1> QED
  BY <1>1, <1>6, <1>8, LocalKeeps DEF TypeOK

LEMMA ReturnNoneKeeps ==
    ASSUME IInv, NEW c \in Clients, ReturnNone(c)
    PROVE  IInv'
<1>1. /\ TypeOK
      /\ pc' = [pc EXCEPT ![c] = "idle"]
      /\ want' = [want EXCEPT ![c] = 0]
      /\ candidate' = [candidate EXCEPT ![c] = 0]
      /\ run_len' = [run_len EXCEPT ![c] = 0]
      /\ stable' = [d \in Clients |-> IF pc'[d] = "idle" THEN {}
                                     ELSE stable[d] \cap FreeRuns(used, want[d])]
      /\ UNCHANGED <<used, last, held>>
  BY DEF IInv, ReturnNone, Return, KeepStable
<1>2. TypeOK'
  BY <1>1 DEF TypeOK
<1>3. pc'[c] = "idle" /\ stable'[c] = {}
  BY <1>1 DEF TypeOK
<1>4. CallInv(c)'
  BY <1>3 DEF CallInv
<1>5. ASSUME NEW d \in Clients \ {c} PROVE CallInv(d)'
  <2>1. /\ pc'[d] = pc[d] /\ want'[d] = want[d] /\ candidate'[d] = candidate[d]
        /\ run_len'[d] = run_len[d]
        /\ stable'[d] = IF pc'[d] = "idle" THEN {}
                        ELSE stable[d] \cap FreeRuns(used', want[d])
    BY <1>1 DEF TypeOK
  <2> QED
    BY <2>1, OthersTake DEF IInv
<1>6. FramesExclusive'
  BY <1>1 DEF IInv, FramesExclusive
<1> QED
  BY <1>2, <1>4, <1>5, <1>6 DEF IInv

-----------------------------------------------------------------------------

LEMMA InitIInv == Init => IInv
<1> SUFFICES ASSUME Init PROVE IInv
  OBVIOUS
<1>1. TOTAL \in Nat \ {0} /\ BITMAP_PAGES \in 1 .. TOTAL
  BY FramesAssumption
<1>2. TypeOK
  BY <1>1, SMT DEF Init, TypeOK, Frames
<1>3. FramesExclusive
  BY <1>1, SMT DEF Init, FramesExclusive, Frames
<1>4. \A c \in Clients : CallInv(c)
  BY DEF Init, CallInv
<1> QED
  BY <1>2, <1>3, <1>4 DEF IInv

LEMMA StutterIInv == IInv /\ UNCHANGED vars => IInv'
BY DEF vars, IInv, TypeOK, FramesExclusive, CallInv, FreeRuns

LEMMA StepIInv == IInv /\ [Next]_vars => IInv'
<1>1. ASSUME IInv, Next PROVE IInv'
  <2>1. PICK c \in Clients :
          \/ allocate_frame(c)
          \/ \E n \in Sizes : allocate_contiguous(c, n) \/ StartGuestRam(c, n)
          \/ \E f \in Frames : deallocate_frame(c, f)
          \/ GuestRamStep(c)
    BY <1>1 DEF Next
  <2>2. CASE GuestRamStep(c)
    BY <1>1, <2>2, GiveUpKeeps, ProbeKeeps, CommitKeeps, RestartKeeps, ReturnNoneKeeps
       DEF GuestRamStep
  <2> QED
    BY <1>1, <2>1, <2>2, AllocateFrameKeeps, AllocateContiguousKeeps, StartKeeps,
       DeallocateKeeps
<1> QED
  BY <1>1, StutterIInv

LEMMA Invariance == Spec => []IInv
BY InitIInv, StepIInv, PTL DEF Spec

\* The next-fit index stays within the bitmap and only frames of it are marked or
\* handed out (allocate_frame, allocate_contiguous, allocate_guest_ram).
THEOREM TypeCorrect == Spec => []TypeOK
<1>1. IInv => TypeOK
  BY DEF IInv
<1> QED
  BY <1>1, Invariance, PTL

\* For any number of contexts, frames and sizes of requests: no frame has two
\* owners and none is lost, although allocate_guest_ram searches with the lock
\* dropped and marks what it found later.
THEOREM FramesStayExclusive == Spec => []FramesExclusive
<1>1. IInv => FramesExclusive
  BY DEF IInv
<1> QED
  BY <1>1, Invariance, PTL

\* allocate_guest_ram does not answer None while a long enough run of frames is
\* free all through the call, whatever happens to the other frames.
THEOREM SearchIsComplete == Spec => []NoRunMissed
<1>1. IInv => NoRunMissed
  BY DEF IInv, CallInv, NoRunMissed
<1> QED
  BY <1>1, Invariance, PTL
=============================================================================
