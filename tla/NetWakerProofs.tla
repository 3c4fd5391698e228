--------------------------- MODULE NetWakerProofs ---------------------------
(***************************************************************************)
(* Proofs about the wait for frames, for any deadlines and any sizes of    *)
(* the ring and of a round that takes all of it.                           *)
(*                                                                         *)
(* That the net cell never parks on a frame is not inductive: it needs to  *)
(* be known, at every point of the loop, what a frame in the ring comes    *)
(* with.  In a round the frames taken and those in the ring are together   *)
(* no more than the ring holds, unless one has arrived since the round     *)
(* began, and that one's interrupt, or the flag, is still there.  So what  *)
(* a round leaves behind has an event, and the flag is not consumed before *)
(* the wait looks at it.                                                   *)
(***************************************************************************)
EXTENDS NetWaker, TLAPS

\* a leaf that names no prover is Zenon's
USE ZenonT(30)

Places == {"beat", "pump", "serve", "answer", "blocked", "wait", "parked", "dead"}

Types ==
    /\ timeout \in Setups
    /\ pc \in [Waiters -> Places]
    /\ ring \in Nat /\ taken \in Nat /\ ring <= RING

\* an event of the device that the net cell is still to be told of
Event == irq \/ pending

\* what the net cell, waiting alone, may rely on at each point of its loop
Guard ==
    Waiters = {Net} =>
        /\ pc[Net] \notin {"pump", "dead"} => taken = 0
        /\ pc[Net] = "pump" => ring + taken <= RING \/ Event
        /\ pc[Net] \in {"serve", "wait", "parked"} => ring = 0 \/ Event

IInv == Types /\ Guard

-----------------------------------------------------------------------------

LEMMA NetWaits == ASSUME Types PROVE Net \in Waiters /\ pc[Net] \in Places
  BY WaitersAssumption DEF Types, Waiters

LEMMA InitIInv == Init => IInv
<1> SUFFICES ASSUME Init PROVE IInv
  OBVIOUS
<1>1. timeout \in Setups /\ Net \in Waiters
  BY WaitersAssumption DEF Init, Waiters
<1>2. pc \in [Waiters -> Places] /\ pc[Net] = "beat" /\ taken = 0
  BY <1>1 DEF Init, Places
<1>3. ring \in Nat /\ taken \in Nat /\ ring <= RING
  BY WaitersAssumption, SMT DEF Init
<1> QED
  BY <1>1, <1>2, <1>3 DEF IInv, Types, Guard

\* The net cell stays where it is, and no event is consumed.
LEMMA Quiet ==
    ASSUME IInv, UNCHANGED <<timeout, taken>>, pc' \in [Waiters -> Places], pc'[Net] = pc[Net],
           Event => Event', ring' = ring \/ (Event' /\ ring' \in Nat /\ ring' <= RING)
    PROVE  IInv'
<1>1. Waiters' = Waiters
  BY DEF Waiters
<1>2. Types'
  BY <1>1 DEF IInv, Types
<1>3. Guard'
  BY <1>1 DEF IInv, Guard
<1> QED
  BY <1>2, <1>3 DEF IInv

\* The net cell comes to the top of its loop, to its answer, or dies.
LEMMA ToTheTop ==
    ASSUME IInv, UNCHANGED <<timeout, ring, taken>>, pc' \in [Waiters -> Places],
           pc[Net] \notin {"pump", "dead"}, pc'[Net] \in {"beat", "answer", "blocked", "dead"}
    PROVE  IInv'
<1>1. Waiters' = Waiters
  BY DEF Waiters
<1>2. Types'
  BY <1>1 DEF IInv, Types
<1>3. Guard'
  BY <1>1 DEF IInv, Guard
<1> QED
  BY <1>2, <1>3 DEF IInv

LEMMA SweepInv ==
    ASSUME IInv, NEW ticked, Sweep(ticked), UNCHANGED timeout
    PROVE  IInv'
<1> USE NetWaits DEF IInv
<1> DEFINE l == [w \in Waiters |->
                   IF ticked /\ pc[w] = "parked" /\ left[w] > 0 THEN left[w] - 1 ELSE left[w]]
           h == IF ticked /\ hb > 0 THEN hb - 1 ELSE hb
           fired == {w \in Parked : pending /\ \A v \in Parked : w <= v}
           late == {w \in Parked \ fired : l[w] = 0}
<1>1. /\ IF fired = {} THEN UNCHANGED pending ELSE consume_pending
      /\ pc' = [w \in Waiters |->
                  IF w = Net /\ Hung(h) THEN "dead" ELSE Woken(w, fired, late)]
      /\ UNCHANGED <<ring, irq, taken>>
  BY DEF Sweep, device
<1>2. ASSUME NEW w \in Waiters
      PROVE  Woken(w, fired, late) \in {pc[w], "beat", "wait"} /\ pc[w] \in Places
  BY DEF Woken, Types
<1>3. fired \subseteq Parked /\ late \subseteq Parked
  OBVIOUS
<1>4. Net \in fired \cup late => pc[Net] = "parked"
  BY <1>3 DEF Parked
<1>5. Woken(Net, fired, late) = IF Net \in fired \cup late THEN "beat" ELSE pc[Net]
  BY DEF Woken
<1>6. fired # {} => pending
  OBVIOUS
<1>7. (Waiters = {Net} /\ pending /\ pc[Net] = "parked") => Net \in fired
  <2>1. Net <= Net
    BY SMT DEF Net
  <2> QED
    BY <2>1 DEF Parked
<1>8. (Waiters = {Net} /\ fired # {}) => Net \in fired
  BY <1>3 DEF Parked
<1> HIDE DEF l, h, fired, late
<1>9. pc' \in [Waiters -> Places]
  BY <1>1, <1>2 DEF Places
<1>10. pc'[Net] = IF Hung(h) THEN "dead" ELSE Woken(Net, fired, late)
  BY <1>1
<1>11. Types' /\ Waiters' = Waiters
  BY <1>1, <1>9 DEF Types, Waiters
<1>12. Guard'
  <2> SUFFICES ASSUME Waiters = {Net} PROVE Guard'
    BY <1>11 DEF Guard
  <2>1. CASE pc'[Net] = "dead"
    BY <2>1 DEF Guard
  <2>2. CASE pc'[Net] # "dead" /\ Net \in fired \cup late
    <3>1. pc'[Net] = "beat" /\ taken' = 0
      BY <1>1, <1>4, <1>5, <1>10, <2>2 DEF Guard
    <3> QED
      BY <3>1 DEF Guard
  <2>3. CASE pc'[Net] # "dead" /\ Net \notin fired \cup late
    <3>1. pc'[Net] = pc[Net] /\ fired = {}
      BY <1>5, <1>8, <1>10, <2>3
    <3>2. UNCHANGED <<irq, pending, ring, taken>>
      BY <1>1, <3>1
    <3> QED
      BY <1>11, <3>1, <3>2 DEF Guard, Event
  <2> QED
    BY <2>1, <2>2, <2>3
<1> QED
  BY <1>11, <1>12

-----------------------------------------------------------------------------
\* The steps of the net cell

LEMMA BeatInv == ASSUME IInv, Beat, UNCHANGED timeout PROVE IInv'
<1>1. /\ Waiters' = Waiters /\ Net \in Waiters
      /\ pc[Net] = "beat" /\ pc' = [pc EXCEPT ![Net] = "pump"]
      /\ UNCHANGED <<ring, taken>>
  BY NetWaits DEF IInv, Beat, Runs, device, Waiters
<1>2. pc' \in [Waiters -> Places] /\ pc'[Net] = "pump"
  BY <1>1 DEF IInv, Types, Places
<1>3. Types'
  BY <1>1, <1>2 DEF IInv, Types
<1>4. Waiters = {Net} => ring' + taken' <= RING
  <2>1. Waiters = {Net} => taken = 0
    BY <1>1 DEF IInv, Guard
  <2>2. ring \in Nat /\ ring <= RING
    BY DEF IInv, Types
  <2> QED
    BY <1>1, <2>1, <2>2, SMT
<1>5. Guard'
  BY <1>1, <1>2, <1>4 DEF Guard
<1> QED
  BY <1>3, <1>5 DEF IInv

LEMMA PumpInv == ASSUME IInv, Pump, UNCHANGED timeout PROVE IInv'
<1>1. /\ Waiters' = Waiters /\ Net \in Waiters /\ pc[Net] = "pump"
      /\ UNCHANGED <<irq, pending>>
  BY NetWaits DEF IInv, Pump, Runs, Waiters
<1>2. /\ timeout \in Setups /\ pc \in [Waiters -> Places]
      /\ ring \in Nat /\ taken \in Nat /\ ring <= RING
  BY DEF IInv, Types
<1>3. Waiters = {Net} => ring + taken <= RING \/ Event
  BY <1>1 DEF IInv, Guard
<1>4. RING \in Nat /\ PUMP \in Nat /\ RING <= PUMP
  BY WaitersAssumption, RoundAssumption
<1>5. CASE ring > 0 /\ taken < PUMP
  <2>1. ring' = ring - 1 /\ taken' = taken + 1 /\ pc' = pc
    BY <1>5 DEF Pump
  <2>2. ring' \in Nat /\ taken' \in Nat /\ ring' <= RING /\ ring' + taken' = ring + taken
    BY <1>2, <1>4, <1>5, <2>1, SMT
  <2>3. Types'
    BY <1>1, <1>2, <2>1, <2>2 DEF Types
  <2>4. Guard'
    BY <1>1, <1>3, <2>1, <2>2 DEF Guard, Event
  <2> QED
    BY <2>3, <2>4 DEF IInv
<1>6. CASE ~ (ring > 0 /\ taken < PUMP)
  <2>1. taken' = 0 /\ pc' = [pc EXCEPT ![Net] = "serve"] /\ ring' = ring
    BY <1>6 DEF Pump
  <2>2. pc' \in [Waiters -> Places] /\ pc'[Net] = "serve"
    BY <1>1, <1>2, <2>1 DEF Places
  <2>3. 0 \in Nat /\ (ring + taken <= RING => ring = 0)
    BY <1>2, <1>4, <1>6, SMT
  <2>4. Types'
    BY <1>1, <1>2, <2>1, <2>2, <2>3 DEF Types
  <2>5. Waiters = {Net} => ring' = 0 \/ Event'
    BY <1>1, <1>3, <2>1, <2>3 DEF Event
  <2>6. Guard'
    BY <1>1, <2>1, <2>2, <2>5 DEF Guard
  <2> QED
    BY <2>4, <2>6 DEF IInv
<1> QED
  BY <1>5, <1>6

LEMMA ServeInv == ASSUME IInv, Serve, UNCHANGED timeout PROVE IInv'
<1>1. /\ Waiters' = Waiters /\ Net \in Waiters /\ pc[Net] = "serve"
      /\ pc' = [pc EXCEPT ![Net] = IF cst = "sending" THEN "answer" ELSE "wait"]
      /\ UNCHANGED <<ring, taken, irq, pending>>
  BY NetWaits DEF IInv, Serve, Runs, device, Waiters
<1>2. pc' \in [Waiters -> Places] /\ pc'[Net] \in {"answer", "wait"}
  BY <1>1 DEF IInv, Types, Places
<1>3. Types'
  BY <1>1, <1>2 DEF IInv, Types
<1>4. Guard'
  BY <1>1, <1>2 DEF IInv, Guard, Event
<1> QED
  BY <1>3, <1>4 DEF IInv

LEMMA AnswerInv == ASSUME IInv, Answer, UNCHANGED timeout PROVE IInv'
<1>1. /\ Net \in Waiters /\ pc[Net] = "answer"
      /\ pc' = [pc EXCEPT ![Net] = IF cst = "reading" THEN "beat" ELSE "blocked"]
      /\ UNCHANGED <<ring, taken>>
  BY NetWaits DEF IInv, Answer, Runs, device
<1>2. pc' \in [Waiters -> Places] /\ pc'[Net] \in {"beat", "blocked"}
  BY <1>1 DEF IInv, Types, Places
<1> QED
  BY <1>1, <1>2, ToTheTop

LEMMA WaitInv ==
    ASSUME IInv, NEW w \in Waiters, WaitForEvent(w), UNCHANGED timeout
    PROVE  IInv'
<1>1. /\ pc[w] = "wait" /\ UNCHANGED <<ring, taken, irq>>
      /\ Net \in Waiters /\ Waiters' = Waiters /\ pc \in [Waiters -> Places]
  BY NetWaits DEF IInv, WaitForEvent, device, Types, Waiters
<1>2. CASE pending
  <2>1. pc' = [pc EXCEPT ![w] = IF w = Net THEN "beat" ELSE "wait"] /\ pending' = FALSE
    BY <1>2 DEF WaitForEvent, consume_pending
  <2>2. pc' \in [Waiters -> Places]
    BY <1>1, <2>1 DEF Places
  <2>3. CASE w = Net
    <3>1. pc'[Net] = "beat"
      BY <1>1, <2>1, <2>3
    <3> QED
      BY <1>1, <2>2, <2>3, <3>1, ToTheTop
  <2>4. CASE w # Net
    <3>1. Waiters # {Net}
      BY <2>4
    <3> QED
      BY <1>1, <2>2, <3>1 DEF IInv, Types, Guard
  <2> QED
    BY <2>3, <2>4
<1>3. CASE ~ pending
  <2>1. pc' = [pc EXCEPT ![w] = "parked"] /\ UNCHANGED pending
    BY <1>3 DEF WaitForEvent
  <2>2. pc' \in [Waiters -> Places] /\ pc'[w] = "parked"
    BY <1>1, <2>1 DEF Places
  <2>3. Types'
    BY <1>1, <2>2 DEF IInv, Types
  <2>4. Waiters = {Net} => w = Net
    OBVIOUS
  <2>5. Guard'
    BY <1>1, <2>1, <2>2, <2>4 DEF IInv, Guard, Event
  <2> QED
    BY <2>3, <2>5 DEF IInv
<1> QED
  BY <1>2, <1>3

-----------------------------------------------------------------------------

LEMMA StepIInv == IInv /\ [Next]_vars => IInv'
<1> SUFFICES ASSUME IInv, [Next]_vars PROVE IInv'
  OBVIOUS
<1> USE NetWaits
<1>0. pc \in [Waiters -> Places] /\ Net \in Waiters /\ ring \in Nat /\ ring <= RING
  BY DEF IInv, Types
<1>1. CASE Arrive /\ UNCHANGED timeout
  <2>1. ring < RING /\ ring' = ring + 1 /\ irq' = TRUE /\ UNCHANGED <<pc, taken>>
    BY <1>1 DEF Arrive
  <2>2. ring' \in Nat /\ ring' <= RING
    BY <1>0, <2>1, WaitersAssumption, SMT
  <2> QED
    BY <1>0, <1>1, <2>1, <2>2, Quiet DEF Event
<1>2. CASE Time /\ UNCHANGED timeout
  BY <1>0, <1>2, Quiet DEF Time, device, Event
<1>3. CASE handle_irq /\ UNCHANGED timeout
  BY <1>0, <1>3, Quiet DEF handle_irq, Event
<1>4. CASE (TimerInterrupt \/ SoftwareInterrupt \/ YieldSweep) /\ UNCHANGED timeout
  BY <1>4, SweepInv DEF TimerInterrupt, SoftwareInterrupt, YieldSweep, vi_timer_tick
<1>5. CASE NetStep /\ UNCHANGED timeout
  BY <1>0, <1>5, BeatInv, PumpInv, ServeInv, AnswerInv, WaitInv DEF NetStep
<1>6. CASE (Request \/ GiveUp) /\ UNCHANGED timeout
  <2>1. UNCHANGED <<ring, irq, pending, taken, pc>>
    BY <1>6, SMT DEF Request, GiveUp, kernel, device
  <2> QED
    BY <1>0, <1>6, <2>1, Quiet DEF Event
<1>7. CASE Read /\ UNCHANGED timeout
  <2>1. /\ pc' = [pc EXCEPT ![Net] = IF @ = "blocked" THEN "beat" ELSE @]
        /\ UNCHANGED <<ring, irq, pending, taken>>
    BY <1>7 DEF Read, kernel, device
  <2>2. CASE pc[Net] = "blocked"
    <3>1. pc' \in [Waiters -> Places] /\ pc'[Net] = "beat"
      BY <1>0, <2>1, <2>2 DEF Places
    <3> QED
      BY <1>7, <2>1, <2>2, <3>1, ToTheTop
  <2>3. CASE pc[Net] # "blocked"
    <3>1. pc' \in [Waiters -> Places] /\ pc'[Net] = pc[Net]
      BY <1>0, <2>1, <2>3
    <3> QED
      BY <1>7, <2>1, <3>1, Quiet DEF Event
  <2> QED
    BY <2>2, <2>3
<1>8. CASE \E w \in Waiters \ {Net} : WaitForEvent(w) /\ UNCHANGED timeout
  BY <1>8, WaitInv
<1>9. CASE UNCHANGED vars
  BY <1>0, <1>9, Quiet DEF vars, device, Event
<1> QED
  BY <1>1, <1>2, <1>3, <1>4, <1>5, <1>6, <1>7, <1>8, <1>9 DEF Next, Interrupt, ClientStep

\* The net cell, waiting alone, is never parked on a frame of which it will not be
\* told: the check of the flag in WaitForEvent before it parks, and the round that
\* takes the whole ring, leave no window for a lost wake-up.
THEOREM NoWakeupIsLost == Spec => []NoLostWakeup
<1>1. IInv => NoLostWakeup
  <2> SUFFICES ASSUME IInv, Waiters = {Net}, pc[Net] = "parked", ring > 0 PROVE irq \/ pending
    BY DEF NoLostWakeup
  <2>1. ring # 0
    BY SMT DEF IInv, Types
  <2> QED
    BY <2>1 DEF IInv, Guard, Event
<1> QED
  BY <1>1, InitIInv, StepIInv, PTL DEF Spec
=============================================================================
