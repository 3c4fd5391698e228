----------------------------- MODULE FrameAlloc -----------------------------
(***************************************************************************)
(* The allocator of physical frames (kernel/src/memory/frame.rs): a bitmap *)
(* under one lock.  allocate_frame and allocate_contiguous hold the lock   *)
(* for the whole call and are one action; allocate_guest_ram drops it      *)
(* after every PROBE_CHUNK frames and takes it again to mark the run that  *)
(* it believes it found, so each of its lock holds is an action.           *)
(*                                                                         *)
(* A frame stands for its index.  A call that answers None without having  *)
(* changed anything is not a step.  Callers free only frames they hold:    *)
(* grant pages, stacks and guest RAM each remember what they were given.   *)
(***************************************************************************)
EXTENDS Integers

CONSTANTS
    Clients,       \* the kernel contexts that allocate and free
    TOTAL,         \* total_frames
    BITMAP_PAGES,  \* frames that hold the bitmap itself
    PROBE_CHUNK,   \* 256 in the code
    Sizes          \* the numbers of frames that are asked for at once

ASSUME FramesAssumption ==
    /\ TOTAL \in Nat \ {0} /\ PROBE_CHUNK \in Nat \ {0}
    /\ BITMAP_PAGES \in 1 .. TOTAL
    /\ Sizes \subseteq Nat \ {0}

Frames == 0 .. TOTAL - 1
NoFrame == -1

VARIABLES
    used,       \* the bits that are set
    last,       \* last_alloc_index
    held,       \* the frames each context was given and has not freed
    pc,         \* where each context is inside allocate_guest_ram
    want,       \* n_pages
    candidate,  \* start of the run under test
    run_len,    \* frames found free from candidate on
    stable      \* history: starts of runs that were free during the whole call

vars == <<used, last, held, pc, want, candidate, run_len, stable>>

TypeOK ==
    /\ used \in SUBSET Frames
    /\ last \in 0 .. TOTAL
    /\ held \in [Clients -> SUBSET Frames]
    /\ pc \in [Clients -> {"idle", "probe", "commit", "failed"}]
    /\ want \in [Clients -> Nat]
    /\ candidate \in [Clients -> Nat]
    /\ run_len \in [Clients -> Nat]
    /\ stable \in [Clients -> SUBSET Frames]

\* new_from_map: everything is free but the frames of the bitmap
Init ==
    /\ used = 0 .. BITMAP_PAGES - 1
    /\ last = 0
    /\ held = [c \in Clients |-> {}]
    /\ pc = [c \in Clients |-> "idle"]
    /\ want = [c \in Clients |-> 0]
    /\ candidate = [c \in Clients |-> 0]
    /\ run_len = [c \in Clients |-> 0]
    /\ stable = [c \in Clients |-> {}]

Least(S) == CHOOSE i \in S : \A j \in S : i <= j

is_frame_allocated(i) == i < TOTAL /\ i \in used

\* the first clear bit of start .. end - 1
find_free(start, end) ==
    LET clear == {i \in start .. end - 1 : i \notin used}
    IN  IF clear = {} THEN NoFrame ELSE Least(clear)

\* Mutation of Limit: one start too many.
LimitLate(n) == IF TOTAL >= n THEN TOTAL - n + 1 ELSE 0

\* total.saturating_sub(n)
Limit(n) == IF TOTAL >= n THEN TOTAL - n ELSE 0

\* The starts of the runs of n frames without a set bit
FreeRuns(bits, n) == {a \in Frames : a + n <= TOTAL /\ a .. a + n - 1 \cap bits = {}}

\* the call of c is over: its local variables are gone
Return(c) ==
    /\ pc' = [pc EXCEPT ![c] = "idle"]
    /\ want' = [want EXCEPT ![c] = 0]
    /\ candidate' = [candidate EXCEPT ![c] = 0]
    /\ run_len' = [run_len EXCEPT ![c] = 0]

\* The history variable: a run stays stable while none of its bits is set
KeepStable(bits) ==
    stable' = [c \in Clients |-> IF pc'[c] = "idle" THEN {}
                                 ELSE stable[c] \cap FreeRuns(bits, want[c])]

Give(c, S) ==
    /\ used' = used \cup S
    /\ held' = [held EXCEPT ![c] = @ \cup S]

\* next-fit: from last_alloc_index to the end, then from 0 to it
allocate_frame(c) ==
    LET first == find_free(last, TOTAL)
        idx == IF first # NoFrame THEN first ELSE find_free(0, last)
    IN  /\ pc[c] = "idle"
        /\ idx # NoFrame
        /\ Give(c, {idx})
        /\ last' = idx + 1
        /\ UNCHANGED <<pc, want, candidate, run_len>>
        /\ KeepStable(used \cup {idx})

\* first-fit over every start, for more than one frame
allocate_contiguous(c, n) ==
    LET fits == {s \in 0 .. Limit(n) :
                    \A i \in 0 .. n - 1 : ~ is_frame_allocated(s + i)}
        run == Least(fits) .. Least(fits) + n - 1
    IN  /\ pc[c] = "idle" /\ n > 1
        /\ fits # {}
        /\ Give(c, run)
        /\ UNCHANGED <<last, pc, want, candidate, run_len>>
        /\ KeepStable(used \cup run)

deallocate_frame(c, f) ==
    /\ pc[c] = "idle"
    /\ f \in held[c]
    /\ used' = used \ {f}
    /\ held' = [held EXCEPT ![c] = @ \ {f}]
    /\ UNCHANGED <<last, pc, want, candidate, run_len, stable>>

\* allocate_guest_ram is entered
StartGuestRam(c, n) ==
    /\ pc[c] = "idle"
    /\ pc' = [pc EXCEPT ![c] = "probe"]
    /\ want' = [want EXCEPT ![c] = n]
    /\ candidate' = [candidate EXCEPT ![c] = 0]
    /\ run_len' = [run_len EXCEPT ![c] = 0]
    /\ stable' = [stable EXCEPT ![c] = FreeRuns(used, n)]
    /\ UNCHANGED <<used, last, held>>

\* The loop ends without a run
GiveUp(c) ==
    /\ pc[c] = "probe"
    /\ candidate[c] > Limit(want[c]) \/ candidate[c] + run_len[c] >= TOTAL
    /\ pc' = [pc EXCEPT ![c] = "failed"]
    /\ UNCHANGED <<used, last, held, want, candidate, run_len, stable>>

\* Mutation of Probe: the frame found allocated stays the candidate.
ProbeStays(c) ==
    LET from == candidate[c] + run_len[c]
        upto == IF from + PROBE_CHUNK < TOTAL THEN from + PROBE_CHUNK ELSE TOTAL
        first_used == {i \in from .. upto - 1 : is_frame_allocated(i)}
        ends == IF first_used = {} THEN upto ELSE Least(first_used)
        len == run_len[c] + (ends - from)
    IN  /\ pc[c] = "probe"
        /\ candidate[c] <= Limit(want[c]) /\ from < TOTAL
        /\ \/ /\ len >= want[c]
              /\ pc' = [pc EXCEPT ![c] = "commit"]
              /\ run_len' = [run_len EXCEPT ![c] = len]
              /\ UNCHANGED candidate
           \/ /\ len < want[c] /\ first_used # {}
              /\ candidate' = [candidate EXCEPT ![c] = ends]
              /\ run_len' = [run_len EXCEPT ![c] = 0]
              /\ UNCHANGED pc
           \/ /\ len < want[c] /\ first_used = {}
              /\ run_len' = [run_len EXCEPT ![c] = len]
              /\ UNCHANGED <<pc, candidate>>
        /\ UNCHANGED <<used, last, held, want, stable>>

\* One lock hold of the search: up to PROBE_CHUNK frames from where the run
\* ends, and the first allocated one of them ends the run
Probe(c) ==
    LET from == candidate[c] + run_len[c]
        upto == IF from + PROBE_CHUNK < TOTAL THEN from + PROBE_CHUNK ELSE TOTAL
        first_used == {i \in from .. upto - 1 : is_frame_allocated(i)}
        ends == IF first_used = {} THEN upto ELSE Least(first_used)
        len == run_len[c] + (ends - from)
    IN  /\ pc[c] = "probe"
        /\ candidate[c] <= Limit(want[c]) /\ from < TOTAL
        /\ \/ /\ len >= want[c]
              /\ pc' = [pc EXCEPT ![c] = "commit"]
              /\ run_len' = [run_len EXCEPT ![c] = len]
              /\ UNCHANGED candidate
           \/ /\ len < want[c] /\ first_used # {}
              /\ candidate' = [candidate EXCEPT ![c] = ends + 1]
              /\ run_len' = [run_len EXCEPT ![c] = 0]
              /\ UNCHANGED pc
           \/ /\ len < want[c] /\ first_used = {}
              /\ run_len' = [run_len EXCEPT ![c] = len]
              /\ UNCHANGED <<pc, candidate>>
        /\ UNCHANGED <<used, last, held, want, stable>>

Run(c) == candidate[c] .. candidate[c] + want[c] - 1

\* Mutation of Commit: the run is marked without looking again.
CommitUnchecked(c) ==
    /\ pc[c] = "commit"
    /\ Give(c, Run(c))
    /\ Return(c)
    /\ KeepStable(used \cup Run(c))
    /\ UNCHANGED last

\* The lock is taken again: mark_range_used if the run is still free
Commit(c) ==
    /\ pc[c] = "commit"
    /\ \A i \in Run(c) : ~ is_frame_allocated(i)
    /\ Give(c, Run(c))
    /\ Return(c)
    /\ KeepStable(used \cup Run(c))
    /\ UNCHANGED last

\* Mutation of Restart: the search goes on behind the whole run.
RestartBehind(c) ==
    /\ pc[c] = "commit"
    /\ \E i \in Run(c) : is_frame_allocated(i)
    /\ candidate' = [candidate EXCEPT ![c] = @ + want[c]]
    /\ run_len' = [run_len EXCEPT ![c] = 0]
    /\ pc' = [pc EXCEPT ![c] = "probe"]
    /\ UNCHANGED <<used, last, held, want, stable>>

\* another context took a frame of the run: the search goes on one frame later
Restart(c) ==
    /\ pc[c] = "commit"
    /\ \E i \in Run(c) : is_frame_allocated(i)
    /\ candidate' = [candidate EXCEPT ![c] = @ + 1]
    /\ run_len' = [run_len EXCEPT ![c] = 0]
    /\ pc' = [pc EXCEPT ![c] = "probe"]
    /\ UNCHANGED <<used, last, held, want, stable>>

\* None is returned
ReturnNone(c) ==
    /\ pc[c] = "failed"
    /\ Return(c)
    /\ KeepStable(used)
    /\ UNCHANGED <<used, last, held>>

GuestRamStep(c) == GiveUp(c) \/ Probe(c) \/ Commit(c) \/ Restart(c) \/ ReturnNone(c)

Next ==
    \E c \in Clients :
        \/ allocate_frame(c)
        \/ \E n \in Sizes : allocate_contiguous(c, n) \/ StartGuestRam(c, n)
        \/ \E f \in Frames : deallocate_frame(c, f)
        \/ GuestRamStep(c)

Spec == Init /\ [][Next]_vars

\* A context inside allocate_guest_ram keeps running: it waits for nothing but
\* the spin lock, which every holder releases.
FairSpec == Spec /\ \A c \in Clients : WF_vars(GuestRamStep(c))

-----------------------------------------------------------------------------

\* No frame belongs to two owners, and no frame is lost: the bits that are set
\* are exactly the frames of the bitmap and the frames that somebody holds,
\* although allocate_guest_ram searches without holding the lock.
FramesExclusive ==
    \A f \in Frames :
        /\ f \in used <=> (f < BITMAP_PAGES \/ \E c \in Clients : f \in held[c])
        /\ \A c \in Clients : f \in held[c] =>
              f >= BITMAP_PAGES /\ \A d \in Clients \ {c} : f \notin held[d]

\* allocate_guest_ram answers None only if no run of that length was free
\* during the whole call: frames that other contexts take and free meanwhile
\* never make it pass over a run that nobody touched.
NoRunMissed == \A c \in Clients : pc[c] = "failed" => stable[c] = {}

\* allocate_guest_ram returns, whatever the other contexts allocate and free
\* between its lock holds.
SearchEnds == \A c \in Clients : pc[c] = "probe" ~> pc[c] = "idle"
=============================================================================
