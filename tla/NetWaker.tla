------------------------------ MODULE NetWaker ------------------------------
(***************************************************************************)
(* The wait of the net service for frames: WaitForEvent, the pending flag  *)
(* and the sweep that serves it (kernel/src/task/waker.rs, syscall.rs,     *)
(* scheduler.rs), the interrupts that drive them (virtio_net.rs,           *)
(* rv64/trap.rs), and the main loop of the net cell with its heartbeat,    *)
(* its requests and its answers.                                           *)
(*                                                                         *)
(* A step is one interrupt or one system call of a cell.  Deadlines are    *)
(* kept as the ticks left to them, so that time need not be bounded.       *)
(*                                                                         *)
(* There is one client, which may send its next request without having     *)
(* read the answer to the last one (robot-demo/src/mqtt.rs reads with a    *)
(* deadline): the net cell, blocked in its answer, and the client, blocked *)
(* in its request, then wait for each other until the heartbeat sweep ends *)
(* the net cell.  Whether init starts it again is Supervisor's matter.     *)
(***************************************************************************)
EXTENDS Integers, FiniteSets

CONSTANTS
    Setups,    \* the values timeout may have
    RING,      \* NET_QUEUE_SIZE, frames the device can hold
    PUMP,      \* frames the net cell takes in one round
    SLICE,     \* time units in a slice of 10 ms
    HB         \* ticks of the net cell's heartbeat interval

Net == 1
NET_RX == 1
ForEver == -1

ASSUME WaitersAssumption ==
    /\ \A f \in Setups : Net \in DOMAIN f /\ \A w \in DOMAIN f : w \in Nat /\ f[w] \in Nat
    /\ {RING, PUMP, SLICE, HB} \subseteq Nat \ {0}
\* a round takes as many frames as the ring holds (16 and 16)
ASSUME RoundAssumption == RING <= PUMP

VARIABLES
    timeout,   \* per task that calls WaitForEvent(NET_RX), task 1 being the net cell:
               \* its timeout in ticks, 0 for none; it does not change
    ring,      \* frames in the receive ring
    irq,       \* the device asserts its interrupt
    pending,   \* NET_RX_PENDING
    ssip,      \* a software interrupt is pending on the hart
    since,     \* time since the timer was last rearmed
    pc,        \* per waiter: its next system call, "parked" in WaitEvent, "blocked" in
               \* the Send of an answer, or "dead"
    taken,     \* frames the net cell has taken in this round
    left,      \* per waiter: ticks to its deadline, or ForEver
    result,    \* per waiter: what WaitForEvent last returned
    hb,        \* ticks to the net cell's heartbeat deadline
    cst        \* the client: "idle", blocked in "sending", "sent", or in Recv, "reading"

device == <<ring, irq>>
vars == <<timeout, device, pending, ssip, since, pc, taken, left, result, hb, cst>>

Waiters == DOMAIN timeout

TypeOK ==
    /\ timeout \in Setups
    /\ ring \in 0 .. RING /\ taken \in 0 .. PUMP /\ since \in 0 .. SLICE
    /\ {irq, pending, ssip} \subseteq BOOLEAN
    /\ pc \in [Waiters -> {"beat", "pump", "serve", "answer", "blocked", "wait", "parked",
                            "dead"}]
    /\ \A w \in Waiters : left[w] \in {ForEver} \cup 0 .. timeout[w]
    /\ result \in [Waiters -> {0, NET_RX}]
    /\ hb \in 0 .. HB
    /\ cst \in {"idle", "sending", "sent", "reading"}

Init ==
    /\ timeout \in Setups
    /\ ring = 0 /\ taken = 0 /\ since = 0 /\ hb = HB
    /\ irq = FALSE /\ pending = FALSE /\ ssip = FALSE
    /\ cst = "idle"
    /\ pc = [w \in Waiters |-> IF w = Net THEN "beat" ELSE "wait"]
    /\ left = [w \in Waiters |-> ForEver]
    /\ result = [w \in Waiters |-> 0]

-----------------------------------------------------------------------------
\* The device and the clock

Arrive ==
    /\ ring < RING
    /\ ring' = ring + 1
    /\ irq' = TRUE
    /\ UNCHANGED <<pending, ssip, since, pc, taken, left, result, hb, cst>>

\* time passes, up to the timer interrupt
Time ==
    /\ since < SLICE
    /\ since' = since + 1
    /\ UNCHANGED <<device, pending, ssip, pc, taken, left, result, hb, cst>>

-----------------------------------------------------------------------------
\* Interrupts

\* Mutation of handle_irq: the flag is set only when somebody waits.
handle_irqParked ==
    /\ irq
    /\ irq' = FALSE
    /\ pending' = (\E w \in Waiters : pc[w] = "parked")
    /\ ssip' = TRUE
    /\ UNCHANGED <<ring, since, pc, taken, left, result, hb, cst>>

\* virtio_net::handle_irq: acknowledge, then signal_net_rx
handle_irq ==
    /\ irq
    /\ irq' = FALSE
    /\ pending' = TRUE
    /\ ssip' = TRUE
    /\ UNCHANGED <<ring, since, pc, taken, left, result, hb, cst>>

\* consume_pending when the flag is set
consume_pending == pending' = FALSE

Parked == {w \in Waiters : pc[w] = "parked"}

\* Mutation of Hung: a task that is blocked in Send is not looked at.
HungRunning(h) == h = 0 /\ pc[Net] # "dead" /\ pc[Net] # "blocked"

\* the heartbeat sweep: the deadline has passed, whatever the net cell is doing
Hung(h) == h = 0 /\ pc[Net] # "dead"

\* Mutation of Woken: the sweep wakes a waiter only with an event.
WokenFired(w, fired, late) ==
    IF w \notin fired THEN pc[w] ELSE IF w = Net THEN "beat" ELSE "wait"

\* Where the sweep leaves a waiter: woken by the flag or late, else where it was
Woken(w, fired, late) ==
    IF w \notin fired \cup late THEN pc[w] ELSE IF w = Net THEN "beat" ELSE "wait"

\* The part of the sweep of pick_next that concerns WaitEvent, and that for missed
\* heartbeats.  It visits the tasks in the order of their ids, and the first takes
\* the flag.  exit_task wakes a client that is blocked in Send to the net cell.
Sweep(ticked) ==
    LET l == [w \in Waiters |->
                IF ticked /\ pc[w] = "parked" /\ left[w] > 0 THEN left[w] - 1 ELSE left[w]]
        h == IF ticked /\ hb > 0 THEN hb - 1 ELSE hb
        fired == {w \in Parked : pending /\ \A v \in Parked : w <= v}
        late == {w \in Parked \ fired : l[w] = 0}
    IN  /\ IF fired = {} THEN UNCHANGED pending ELSE consume_pending
        /\ left' = l
        /\ result' = [w \in Waiters |->
                        IF w \in fired THEN NET_RX ELSE IF w \in late THEN 0 ELSE result[w]]
        /\ hb' = h
        /\ pc' = [w \in Waiters |->
                    IF w = Net /\ Hung(h) THEN "dead" ELSE Woken(w, fired, late)]
        /\ cst' = IF Hung(h) /\ cst = "sending" THEN "sent" ELSE cst
        /\ UNCHANGED <<device, taken>>

\* vi_timer_tick: count, rearm the timer, sweep
vi_timer_tick == since' = 0 /\ Sweep(TRUE)

\* the software interrupt has the higher priority
TimerInterrupt == since = SLICE /\ ~ ssip /\ vi_timer_tick /\ UNCHANGED ssip

SoftwareInterrupt == ssip /\ ssip' = FALSE /\ vi_timer_tick

\* another task yields: without a tick, pick_next sweeps when an event is pending
YieldSweep == pending /\ ~ ssip /\ Sweep(FALSE) /\ UNCHANGED <<ssip, since>>

-----------------------------------------------------------------------------
\* The cells, which run when no software interrupt is pending: it is taken when
\* the handler that pended it returns

Runs(k) == pc[Net] = k /\ ~ ssip

\* sys_heartbeat, at the top of the loop
Beat ==
    /\ Runs("beat")
    /\ hb' = HB
    /\ pc' = [pc EXCEPT ![Net] = "pump"]
    /\ UNCHANGED <<device, pending, ssip, since, taken, left, result, cst>>

\* one NetRx of pump_rx_split
Pump ==
    /\ Runs("pump")
    /\ IF ring > 0 /\ taken < PUMP
       THEN ring' = ring - 1 /\ taken' = taken + 1 /\ UNCHANGED pc
       ELSE taken' = 0 /\ pc' = [pc EXCEPT ![Net] = "serve"] /\ UNCHANGED ring
    /\ UNCHANGED <<irq, pending, ssip, since, left, result, hb, cst>>

\* sys_try_recv: a request is taken, which ends the client's Send
Serve ==
    /\ Runs("serve")
    /\ pc' = [pc EXCEPT ![Net] = IF cst = "sending" THEN "answer" ELSE "wait"]
    /\ cst' = IF cst = "sending" THEN "sent" ELSE cst
    /\ UNCHANGED <<device, pending, ssip, since, taken, left, result, hb>>

\* the sys_send of handle_request: to a client in Recv, or blocked until it gets there
Answer ==
    /\ Runs("answer")
    /\ pc' = [pc EXCEPT ![Net] = IF cst = "reading" THEN "beat" ELSE "blocked"]
    /\ cst' = IF cst = "reading" THEN "idle" ELSE cst
    /\ UNCHANGED <<device, pending, ssip, since, taken, left, result, hb>>

\* the deadline of a wait, counted from now
Deadline(w) == IF timeout[w] = 0 THEN ForEver ELSE timeout[w]

\* WaitForEvent: a pending event is returned at once, else the task is parked
WaitForEvent(w) ==
    /\ pc[w] = "wait" /\ ~ ssip
    /\ IF pending
       THEN /\ consume_pending
            /\ result' = [result EXCEPT ![w] = NET_RX]
            /\ pc' = [pc EXCEPT ![w] = IF w = Net THEN "beat" ELSE "wait"]
            /\ UNCHANGED left
       ELSE /\ pc' = [pc EXCEPT ![w] = "parked"]
            /\ left' = [left EXCEPT ![w] = Deadline(w)]
            /\ UNCHANGED <<pending, result>>
    /\ UNCHANGED <<device, ssip, since, taken, hb, cst>>

-----------------------------------------------------------------------------
\* The client

kernel == <<device, pending, ssip, since, taken, left, result, hb>>

\* Send: the net cell never waits in Recv, so the client blocks
Request ==
    /\ cst = "idle" /\ ~ ssip /\ pc[Net] # "dead"
    /\ cst' = "sending"
    /\ UNCHANGED <<kernel, pc>>

\* Recv: the answer the net cell is blocked with, or a wait for it
Read ==
    /\ cst = "sent" /\ ~ ssip
    /\ cst' = IF pc[Net] = "blocked" THEN "idle" ELSE "reading"
    /\ pc' = [pc EXCEPT ![Net] = IF @ = "blocked" THEN "beat" ELSE @]
    /\ UNCHANGED kernel

\* the deadline of the client's Recv passes
GiveUp ==
    /\ cst = "reading"
    /\ cst' = "idle"
    /\ UNCHANGED <<kernel, pc>>

Interrupt == handle_irq \/ TimerInterrupt \/ SoftwareInterrupt
NetStep == Beat \/ Pump \/ Serve \/ Answer \/ WaitForEvent(Net)
ClientStep == Request \/ Read \/ GiveUp

Next ==
    /\ \/ Arrive \/ Time \/ Interrupt \/ YieldSweep \/ NetStep \/ ClientStep
       \/ \E w \in Waiters \ {Net} : WaitForEvent(w)
    /\ UNCHANGED timeout

\* Time passes, its interrupts are taken, and the net cell runs when it is Ready:
\* it has Normal priority and its turn comes (Harts, ReadyRuns).  Nothing is assumed
\* of the device's interrupt, which no target has to deliver (the PCI path is
\* polled, and riscv64 does not enable external interrupts), nor of the client.
Spec ==
    /\ Init /\ [][Next]_vars
    /\ WF_vars(Time /\ UNCHANGED timeout)
    /\ WF_vars(TimerInterrupt /\ UNCHANGED timeout)
    /\ WF_vars(SoftwareInterrupt /\ UNCHANGED timeout)
    /\ WF_vars(NetStep /\ UNCHANGED timeout)

-----------------------------------------------------------------------------

\* The "lost-wakeup guard" of waker.rs:6: while the net cell, waiting alone, is
\* parked with a frame in the ring, the frame's interrupt is still to be taken or the
\* flag is set for the next sweep.  The frame may have arrived, and its interrupt have
\* been taken, at any point of the loop.
NoLostWakeup ==
    (Waiters = {Net} /\ pc[Net] = "parked" /\ ring > 0) => (irq \/ pending)

\* A net cell whose wait has its deadline before that of its heartbeat comes back to
\* the ring, without any interrupt from the device, and also when another waiter takes
\* the flag: it is not killed in its wait (main.rs:153, "the 5 s heartbeat then killed
\* net every cycle").
WaitEndsInTime ==
    (pc[Net] = "parked" /\ left[Net] \in 0 .. hb - 1) ~> pc[Net] = "beat"

\* The Send of a client to the net cell ends, although it does not end the net
\* cell's wait and although the two may be blocked in sending to each other: the
\* deadline of the wait, or the heartbeat, ends it.
SendEnds == cst = "sending" ~> cst # "sending"
=============================================================================
