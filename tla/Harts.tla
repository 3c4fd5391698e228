-------------------------------- MODULE Harts --------------------------------
(***************************************************************************)
(* Which task runs on which hart, and on whose stack: yield_cpu with its   *)
(* separate critical sections (kernel/src/task.rs), pick_next_local, the   *)
(* reaper and push_ready (task/scheduler.rs), the ready queues and work    *)
(* stealing (task/hart_local/ready.rs), bring-up of the second hart        *)
(* (task/smp.rs, task/hart_local.rs), the trap entry (trap.S) and          *)
(* __switch (switch.S).                                                    *)
(*                                                                         *)
(* A step of a hart is what it does under one hold of the SCHEDULER lock,  *)
(* or one context switch.  The calls of Ipc are reduced to what they do to *)
(* the scheduler: block, wake, exit, kill, spawn.  A context is reduced to *)
(* the stack on which it resumes.  Stacks 1 .. N are those of the tasks;   *)
(* each hart has one more, on which it boots and idles.                    *)
(***************************************************************************)
EXTENDS Integers, Sequences, FiniteSets, SequencesExt

CONSTANTS
    N,         \* tasks, numbered in the order they are spawned
    Secondary, \* hart 1 can be started
    RealTime,  \* the tasks of RealTime priority; the others are Normal
    Armed,     \* the tasks that have a heartbeat deadline, which any time may pass
    Cli,       \* yield_cpu masks interrupts first (x86_64), or does not (RISC-V)
    MaxQueued  \* bound: no task is woken when so many are queued

Tasks == 1 .. N
TasksInOrder == [t \in Tasks |-> t]   \* BTreeMap: by task id
Harts == {0, 1}
HART_RT == 1
Idle(h) == N + 1 + h
Stacks == 1 .. N + 2
None == 0                  \* no task; as a context, BOOT_CONTEXT

ASSUME HartsAssumption ==
    /\ N \in Nat \ {0} /\ MaxQueued \in Nat /\ {Secondary, Cli} \subseteq BOOLEAN
    /\ RealTime \subseteq Tasks /\ Armed \subseteq Tasks

VARIABLES
    state,    \* per task: its TaskState, or which table it has left for
    ready,    \* HART_LOCALS[h].ready
    cur,      \* HART_LOCALS[h].current_task_id
    tpaddr,   \* the hart whose data HART_LOCAL_TP_ADDR points to
    online,   \* HART_ONLINE[1]
    ctx,      \* per task, and for None: the stack its saved context resumes on
    hart,     \* per hart: where it is, on which stack, whether in a trap, whose
              \* data its tp points to, and the context switch it is about to make
    frame,    \* per idle stack: what the trap frame on it interrupted
    hungup    \* history: the tasks the heartbeat sweep ended on the hart they ran on

vars == <<state, ready, cur, tpaddr, online, ctx, hart, frame, hungup>>

HartState ==
    [pc : {"off", "boot", "idle", "user", "reap", "pick", "switch"}, stk : Stacks,
     trap : BOOLEAN, tp : Harts, from : Tasks \cup {None}, to : Tasks \cup {None}]
Interrupted == [pc : {"boot", "idle", "reap", "pick", "switch"},
                from : Tasks \cup {None}, to : Tasks \cup {None}]
NoFrame == [pc |-> "none", from |-> None, to |-> None]

TypeOK ==
    /\ state \in [Tasks -> {"unborn", "Ready", "Running", "Blocked", "Zombie", "Gone"}]
    /\ ready \in [Harts -> Seq(Tasks)]
    /\ cur \in [Harts -> Tasks \cup {None}]
    /\ tpaddr \in Harts /\ online \in BOOLEAN
    /\ ctx \in [Tasks \cup {None} -> Stacks]
    /\ hart \in [Harts -> HartState]
    /\ frame \in [{Idle(h) : h \in Harts} -> Interrupted \cup {NoFrame}]
    /\ hungup \subseteq Armed

Init ==
    /\ state = [t \in Tasks |-> "unborn"]
    /\ ready = [h \in Harts |-> << >>]
    /\ cur = [h \in Harts |-> None]
    /\ tpaddr = 0 /\ online = FALSE
    /\ ctx = [t \in Tasks \cup {None} |-> IF t = None THEN Idle(0) ELSE t]
    /\ hart = [h \in Harts |->
                 [pc |-> IF h = 0 THEN "boot" ELSE "off", stk |-> Idle(h),
                  trap |-> FALSE, tp |-> h, from |-> None, to |-> None]]
    /\ frame = [s \in {Idle(h) : h \in Harts} |-> NoFrame]
    /\ hungup = {}

-----------------------------------------------------------------------------
\* Ready queues

OnIdleStack(h) == hart[h].stk > N

current_hart_id(h) == hart[h].tp

\* the hart for which one that takes itself for l queues a task
target_hart(t, l) == IF t \in RealTime /\ online THEN HART_RT ELSE l

\* push_ready of each of a sequence of tasks
push_ready(rd, ts, l) ==
    [h \in Harts |-> rd[h] \o SelectSeq(ts, LAMBDA t : target_hart(t, l) = h)]

\* Mutation of Front1: the task queued last.
Front1Lifo(q) == Last(q)

\* the front of the queue of the highest priority
Front1(q) ==
    LET rt == SelectSeq(q, LAMBDA t : t \in RealTime)
    IN  IF rt # << >> THEN Head(rt) ELSE Head(q)

\* Mutation of Stealable: RealTime tasks are stolen too.
StealableAll(q) == q

Stealable(q) == SelectSeq(q, LAMBDA t : t \notin RealTime)

\* Mutation of steal_from_busiest: what is taken from the victim beyond one task
\* does not reach the thief.
steal_from_busiestOne(rd, thief) ==
    LET q == Stealable(rd[1 - thief]) IN
    IF q = << >> THEN rd
    ELSE [rd EXCEPT ![1 - thief] = SelectSeq(@, LAMBDA t : t \notin Range(q)),
                    ![thief] = @ \o <<Head(q)>>]

\* steal_from_busiest
steal_from_busiest(rd, thief) ==
    LET q == Stealable(rd[1 - thief])
        half == Len(q) \div 2
        stolen == SubSeq(q, 1, IF half > 1 THEN half ELSE 1)
    IN  IF q = << >> THEN rd
        ELSE [rd EXCEPT ![1 - thief] = SelectSeq(@, LAMBDA t : t \notin Range(stolen)),
                        ![thief] = @ \o stolen]

-----------------------------------------------------------------------------
\* What the running tasks do to the scheduler

exit_task(t) ==
    /\ state' = [state EXCEPT ![t] = "Zombie"]
    /\ ready' = [h \in Harts |-> SelectSeq(ready[h], LAMBDA x : x # t)]

Live == {t \in Tasks : state[t] \in {"Ready", "Running", "Blocked"}}

Queued == Len(ready[0]) + Len(ready[1])

\* a new task, or one that is no longer blocked, is queued
Enqueue(t, l) ==
    /\ Queued < MaxQueued
    /\ state[t] = "Blocked" \/ (state[t] = "unborn" /\ \A u \in 1 .. t - 1 : state[u] # "unborn")
    /\ state' = [state EXCEPT ![t] = "Ready"]
    /\ ready' = push_ready(ready, <<t>>, l)

\* System calls that return to their caller: wake, spawn or kill another task.
\* Hart 0 also spawns the first tasks, before its idle loop.
Call(h) ==
    /\ \/ hart[h].pc = "user" /\ cur[tpaddr] \in Live
       \/ hart[h].pc = "boot"
    /\ LET l == IF hart[h].pc = "user" THEN tpaddr ELSE 0 IN
       \/ \E t \in Tasks : Enqueue(t, l)
       \/ hart[h].pc = "user" /\ \E t \in Live \ {cur[l]} : exit_task(t)
    /\ UNCHANGED <<cur, tpaddr, online, ctx, hart, frame, hungup>>

\* hart 0 starts hart 1, which installs its local data and signals
Start(h) ==
    /\ Secondary /\ h = 1 /\ hart[h].pc = "off"
    /\ hart' = [hart EXCEPT ![h].pc = "idle"]
    /\ tpaddr' = h
    /\ online' = TRUE
    /\ UNCHANGED <<state, ready, cur, ctx, frame, hungup>>

\* Mutation of Interruptible: yield_cpu does not mask interrupts in the idle loop.
InterruptibleYield(h) ==
    \/ hart[h].pc \in {"idle", "user"}
    \/ hart[h].pc \in {"boot", "reap", "pick", "switch"} /\ ~ hart[h].trap

\* Traps mask interrupts.  The idle loop does not, except on x86_64 in yield_cpu.
Interruptible(h) ==
    \/ hart[h].pc \in {"idle", "user"}
    \/ hart[h].pc \in {"boot", "reap", "pick", "switch"} /\ ~ hart[h].trap /\ ~ Cli

\* the trap entry, which loads tp from HART_LOCAL_TP_ADDR, up to yield_cpu
Enter(h) ==
    /\ Interruptible(h)
    /\ hart' = [hart EXCEPT ![h].pc = "reap", ![h].trap = TRUE, ![h].tp = tpaddr]
    /\ frame' = IF OnIdleStack(h)
                THEN [frame EXCEPT ![hart[h].stk] =
                        [pc |-> hart[h].pc, from |-> hart[h].from, to |-> hart[h].to]]
                ELSE frame
    /\ UNCHANGED <<cur, tpaddr, online, ctx, hungup>>

\* a timer or software interrupt
Timer(h) == Enter(h) /\ UNCHANGED <<state, ready>>

\* a system call that blocks or ends its caller, who is whom cur names
Yield(h) ==
    /\ hart[h].pc = "user" /\ cur[tpaddr] \in Live
    /\ Enter(h)
    /\ \/ state' = [state EXCEPT ![cur[tpaddr]] = "Blocked"] /\ UNCHANGED ready
       \/ exit_task(cur[tpaddr])

-----------------------------------------------------------------------------
\* yield_cpu

\* the idle loop of hart 0; that of hart 1 only waits for interrupts
IdleYield(h) ==
    /\ hart[h].pc \in {"boot", "idle"} /\ hart[h].stk = Idle(0)
    /\ hart' = [hart EXCEPT ![h].pc = "reap"]
    /\ UNCHANGED <<state, ready, cur, tpaddr, online, ctx, frame, hungup>>

\* Mutation of Reapable: a task that is still current is reaped too.
ReapableAll == {t \in Tasks : state[t] = "Zombie"}

\* take_reapable_zombies
Reapable == {t \in Tasks : state[t] = "Zombie" /\ \A h \in Harts : cur[h] # t}

\* the first critical section, and the drop of what it returns
Reap(h) ==
    /\ hart[h].pc = "reap"
    /\ state' = [t \in Tasks |-> IF t \in Reapable THEN "Gone" ELSE state[t]]
    /\ hart' = [hart EXCEPT ![h].pc = "pick"]
    /\ UNCHANGED <<ready, cur, tpaddr, online, ctx, frame, hungup>>

\* where hart h goes on when it is back on stack s: in the cell, or on an idle
\* stack, with its tp, at what the trap interrupted or in the idle loop
Back(h, s) ==
    LET f == IF s > N THEN frame[s] ELSE NoFrame IN
    /\ hart' = [hart EXCEPT ![h] =
                  [pc |-> IF s <= N THEN "user" ELSE IF f = NoFrame THEN "idle" ELSE f.pc,
                   stk |-> s, trap |-> FALSE,
                   tp |-> IF s > N THEN s - (N + 1) ELSE hart[h].tp, from |-> f.from, to |-> f.to]]
    /\ frame' = IF s > N THEN [frame EXCEPT ![s] = NoFrame] ELSE frame

\* Each kind of sweep of hart 0: those asleep that are woken, and those whose
\* heartbeat deadline has passed, whatever they are doing, that are ended
Awakened(l) ==
    IF l = 0 /\ Queued < MaxQueued THEN SUBSET {t \in Tasks : state[t] = "Blocked"} ELSE {{}}
Hung(l) == IF l = 0 THEN SUBSET (Armed \cap Live) ELSE {{}}

\* the watchdog ends a RealTime task that has run for too many ticks
Overrun(c) == {{}} \cup {{t} : t \in {u \in {c} \cap RealTime : state[u] = "Running"}}

\* the second critical section: the sweeps, the watchdog, the choice.  A task that
\* the heartbeat sweep ends is no longer current when the choice is made, one that
\* the watchdog ends still is
Pick(h) ==
    /\ hart[h].pc = "pick"
    /\ LET l == current_hart_id(h) IN
       \E woken \in Awakened(l), hung \in Hung(l) :
       LET c == IF cur[l] \in hung THEN None ELSE cur[l] IN
       \E overrun \in Overrun(c) :
       LET dead == hung \cup overrun
           requeued == {t \in {c} \ {None} : state[t] = "Running" /\ t \notin overrun}
           swept == IF woken = {} THEN ready
                    ELSE push_ready(ready, SelectSeq(TasksInOrder, LAMBDA t : t \in woken), l)
           alive == IF dead = {} THEN swept
                    ELSE [k \in Harts |-> SelectSeq(swept[k], LAMBDA t : t \notin dead)]
           queued == IF requeued = {} THEN alive ELSE push_ready(alive, <<c>>, l)
           stolen == IF queued[l] = << >> THEN steal_from_busiest(queued, l) ELSE queued
           next == IF stolen[l] = << >> THEN None ELSE Front1(stolen[l])
           switches == /\ next # c
                       /\ c # None => state[c] # "Gone"
       IN  /\ state' = [t \in Tasks |->
                          IF t = next THEN "Running"
                          ELSE IF t \in dead THEN "Zombie"
                          ELSE IF t \in woken \cup requeued THEN "Ready" ELSE state[t]]
           /\ ready' = [stolen EXCEPT ![l] = RemoveFirst(@, next)]
           /\ cur' = [cur EXCEPT ![l] = next]
           /\ hungup' = hungup \cup (hung \cap {cur[l]})
           /\ IF switches
              THEN /\ hart' = [hart EXCEPT ![h].pc = "switch", ![h].from = c, ![h].to = next]
                   /\ UNCHANGED frame
              ELSE Back(h, hart[h].stk)
    /\ UNCHANGED <<tpaddr, online, ctx>>

\* Context::switch
Switch(h) ==
    /\ hart[h].pc = "switch"
    /\ ctx' = [ctx EXCEPT ![hart[h].from] = hart[h].stk]
    /\ Back(h, ctx'[hart[h].to])
    /\ UNCHANGED <<state, ready, cur, tpaddr, online, hungup>>

HartStep(h) == IdleYield(h) \/ Reap(h) \/ Pick(h) \/ Switch(h)

Next == \E h \in Harts : Call(h) \/ Start(h) \/ Timer(h) \/ Yield(h) \/ HartStep(h)

Spec == Init /\ [][Next]_vars

\* a hart goes on, and its timer is rearmed by every tick
FairSpec ==
    /\ Spec
    /\ \A h \in Harts : WF_vars(HartStep(h)) /\ WF_vars(Timer(h))

-----------------------------------------------------------------------------

\* Whatever two harts do to the queues, and even when one takes itself for the
\* other: a Ready task is in some queue, so that it can still be picked.
NoReadyLost ==
    {t \in Tasks : state[t] = "Ready"} \subseteq Range(ready[0] \o ready[1])

\* ready.rs:6: "RT tasks (priority >= RealTime) are never stolen".  A RealTime
\* task leaves a queue to run on that hart, or dead.
RealTimeNotStolen ==
    [][\A l \in Harts, t \in RealTime :
         (t \in Range(ready[l]) /\ t \notin Range(ready'[l]))
            => (cur'[l] = t \/ state'[t] = "Zombie")]_vars

\* task.rs:172: "trap.S restores the correct ViTrapFrame from the new task's
\* stack".  The saved context of a task resumes on the stack of that task.  On one
\* hart this needs interrupts masked from the start of yield_cpu on (Cli).
ResumesOwnStack ==
    \A t \in Live : ctx[t] = t

\* scheduler.rs:440: "A zombie is reapable only if NO hart is currently
\* context-switching through its saved Context".  No hart is on, or about to save
\* itself into, a task that has been freed, with one exception: the task the
\* heartbeat sweep has ended on the hart that it ran on.
NoFreedStack ==
    \A h \in Harts : hart[h].pc # "off" =>
        \A t \in {hart[h].stk, hart[h].from} \cap Tasks :
            state[t] = "Gone" => t \in hungup

\* Two harts never execute on the same stack.
OneHartPerStack ==
    hart[1].pc # "off" => hart[0].stk # hart[1].stk

\* A Ready task is run, unless tasks of a higher priority keep the hart: the queues
\* are served in turn, and a timer interrupt ends every slice.
ReadyRuns ==
    \A t \in Tasks :
        state[t] = "Ready"
            ~> \/ state[t] # "Ready"
               \/ \E r \in RealTime \ {t} : state[r] \in {"Ready", "Running"}
==============================================================================
