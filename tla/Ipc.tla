-------------------------------- MODULE Ipc --------------------------------
(***************************************************************************)
(* The kernel's task table and its blocking system calls: rendezvous IPC,  *)
(* Wait, timers, heartbeats, death notifications, and the scheduler round  *)
(* between them (kernel/src/task.rs, task/scheduler.rs, task/syscall.rs).  *)
(*                                                                         *)
(* One hart, as on every target but riscv64 with -smp 2.  Interrupts are   *)
(* off from trap entry to trap return, so a handler runs to the point      *)
(* where it returns to the cell or calls yield_cpu, and that is one        *)
(* action; what it does after yield_cpu is a second action, reached        *)
(* through kont, the continuation saved on the task's kernel stack.        *)
(*                                                                         *)
(* A message stands for its sender.  Deadlines are kept as the number of   *)
(* ticks left, so the clock itself needs no variable.  The ready queues    *)
(* are a bag: any queued task may be picked, whatever priorities and order *)
(* the cells have.                                                         *)
(*                                                                         *)
(* No hot swap is in progress, so no task is Frozen and pending_msgs is    *)
(* empty.  A system call that is denied, or is given a malformed argument, *)
(* returns an error and changes nothing; it is left out.                   *)
(***************************************************************************)
EXTENDS Integers, Sequences, FiniteSets

CONSTANTS
    N,            \* task ids are 1 .. N, never reused (next_task_id)
    Boot,         \* the last task spawned at boot
    Allow,        \* per task: the allowlisted system calls its cell may make
    SpawnCap,     \* the tasks that hold a SpawnCap (supervisors)
    SystemCells,  \* the tasks that hold a block_io_cap or a network_cap
    RealTime,     \* the tasks of RealTime priority, which the watchdog looks at
    Input,        \* the tasks that the kernel itself sends messages to
    Codes,        \* the codes cells exit and reply with
    Timeouts,     \* the timeouts and heartbeat intervals cells ask for, in ticks
    MaxQueued,    \* bound: entries of one task in the ready queue, in waiters
    MaxOwed       \* bound: death notifications one watcher is owed for one task

Tids == 1 .. N

\* usize::MAX, the error return and the exit reason of a killed cell; the None
\* of an Option<usize>
MAX == -1
None == -2

Syscalls == {"Send", "Recv", "TryRecv", "Reply", "Wait", "SetTimer", "Spawn",
             "RecvTimeout", "SendGather", "RecvScatter", "Heartbeat"}

ASSUME TidsAssumption == N \in Nat /\ Boot \in 0 .. N
ASSUME AllowAssumption ==
    Allow \in [Tids -> SUBSET Syscalls] /\ SpawnCap \subseteq Tids
\* no cell that is sent messages by the kernel answers them
ASSUME InputAssumption == Input \subseteq {t \in Tids : "Reply" \notin Allow[t]}
ASSUME ValuesAssumption ==
    /\ Codes \subseteq Nat /\ Timeouts \subseteq Nat
    /\ MaxQueued \in Nat /\ MaxOwed \in Nat

VARIABLES
    st,       \* TaskState, "Gone" for an id that is not in the task table
    tgt,      \* target of Sending and of Waiting, 0 in the other states
    dl,       \* ticks left of the deadline of Sleeping and Recv, None: no deadline
    hb,       \* ticks left of heartbeat_deadline, None: not armed
    cc,       \* current_caller, 0: the kernel
    rv,       \* reply_value
    deaths,   \* pending_deaths
    xr,       \* pending_exit_reason
    waiters,  \* waiters[p][t]: entries for t in the waiters of p
    subs,     \* subs[d][w]: entries for w in DEATH_SUBSCRIBERS[d]
    ready,    \* ready[t]: entries for t in the ready queues
    nid,      \* next_task_id
    cur,      \* current_task_id of the hart, 0: idle in the boot context
    cpu,      \* "user": in a cell, or resuming a handler; "sweep", "pick": in yield_cpu
    stk,      \* the task whose context the hart executes, 0: the boot context
    boot,     \* what BOOT_CONTEXT holds: 0, the idle loop, or a task's context
    kont,     \* the handler a task is inside of, "user" when none
    buf,      \* what was copied into the buffer of the Recv a task is inside of
    woke,     \* what ended the wait of the handler a task is inside of
    out,      \* the system call that has just returned, for the properties
    owed      \* owed[w][d]: NotifyOnExit calls of w on d not answered yet

queues == <<waiters, subs, ready>>
task == <<st, tgt, dl, hb, cc, rv, deaths, xr>>
ctx == <<stk, boot>>
hart == <<nid, cur, cpu, ctx>>
frames == <<kont, buf, woke>>
vars == <<task, queues, hart, frames, out, owed>>

NoMsg == <<"none", None>>
Msg(s) == <<"msg", s>>
Death(r) == <<"death", r>>
Junk == <<"junk", None>>

States == {"Gone", "Ready", "Running", "Sleeping", "Sending", "Recv", "Waiting"}
Konts == {"user", "send", "recv", "recvt", "wait", "sleep"}
Wakes == {"none", "msg", "taken", "death", "timeout", "gone", "exit", "reply"}

Callers == Tids \cup {0, None}
Bufs == {NoMsg} \cup {Msg(s) : s \in Tids \cup {0}}

NoOut == [op |-> "none", ret |-> None, woke |-> "none", buf |-> NoMsg]
Out(op, r, w, b) == [op |-> op, ret |-> r, woke |-> w, buf |-> b]

TypeOK ==
    /\ st \in [Tids -> States]
    /\ tgt \in [Tids -> Tids \cup {0}]
    /\ dl \in [Tids -> Nat \cup {None}]
    /\ hb \in [Tids -> Nat \cup {None}]
    /\ cc \in [Tids -> Callers]
    /\ rv \in [Tids -> Nat \cup {None, MAX}]
    /\ deaths \in [Tids -> Seq(Tids \X (Nat \cup {MAX}))]
    /\ xr \in [Tids -> Nat \cup {None, MAX}]
    /\ waiters \in [Tids -> [Tids -> Nat]]
    /\ subs \in [Tids -> [Tids -> Nat]]
    /\ ready \in [Tids -> Nat]
    /\ nid \in 1 .. N + 1
    /\ cur \in Tids \cup {0}
    /\ cpu \in {"user", "sweep", "pick", "lost"}
    /\ stk \in Tids \cup {0} /\ boot \in Tids \cup {0}
    /\ kont \in [Tids -> Konts]
    /\ buf \in [Tids -> Bufs]
    /\ woke \in [Tids -> Wakes]
    /\ owed \in [Tids -> [Tids -> Int]]

Zero == [t \in Tids |-> 0]

Init ==
    /\ st = [t \in Tids |-> IF t <= Boot THEN "Ready" ELSE "Gone"]
    /\ tgt = Zero
    /\ dl = [t \in Tids |-> None]
    /\ hb = [t \in Tids |-> None]
    /\ cc = [t \in Tids |-> None]
    /\ rv = [t \in Tids |-> None]
    /\ deaths = [t \in Tids |-> << >>]
    /\ xr = [t \in Tids |-> None]
    /\ waiters = [t \in Tids |-> Zero]
    /\ subs = [t \in Tids |-> Zero]
    /\ ready = [t \in Tids |-> IF t <= Boot THEN 1 ELSE 0]
    /\ nid = Boot + 1
    /\ cur = 0
    /\ cpu = "pick"
    /\ stk = 0
    /\ boot = 0
    /\ kont = [t \in Tids |-> "user"]
    /\ buf = [t \in Tids |-> NoMsg]
    /\ woke = [t \in Tids |-> "none"]
    /\ out = NoOut
    /\ owed = [t \in Tids |-> Zero]

-----------------------------------------------------------------------------

Live(t) == st[t] # "Gone"

\* Task t executes user code on the hart and enters system call sc.
Enter(t, sc) ==
    /\ cpu = "user" /\ cur = t /\ Live(t) /\ kont[t] = "user"
    /\ sc \in Syscalls => sc \in Allow[t]

\* A handler that does not block returns r to the cell.
Return(op, r) ==
    /\ out' = Out(op, r, "none", NoMsg)
    /\ UNCHANGED hart

\* A handler parks its task (the caller sets st') and calls yield_cpu.
Park(t, k) ==
    /\ kont' = [kont EXCEPT ![t] = k]
    /\ woke' = [woke EXCEPT ![t] = "none"]
    /\ buf' = [buf EXCEPT ![t] = NoMsg]
    /\ cpu' = "pick"
    /\ out' = NoOut
    /\ UNCHANGED <<nid, cur, ctx>>

push_ready(t) == [ready EXCEPT ![t] = @ + 1]

\* What ended the wait of t, if it is inside a handler that waits.
Ended(t, w) == IF kont[t] = "user" THEN woke ELSE [woke EXCEPT ![t] = w]

-----------------------------------------------------------------------------
(* IPC *)

\* The buffer a blocked Send names lives as long as the sender is blocked; the
\* one SendGather names was freed when its handler returned, and reading it
\* gives the message or whatever the heap holds there now.
Payload(s) == IF kont[s] = "send" THEN {Msg(s)} ELSE {Msg(s), Junk}

\* A copy into the buffer of a parked receiver reaches the cell when the
\* handler is still there to return it; RecvScatter's buffer is gone.
Fill(d, b) ==
    IF kont[d] \in {"recv", "recvt"} THEN [buf EXCEPT ![d] = b] ELSE buf

\* ipc_send to a target that is parked in Recv
Deliver(t, d) ==
    /\ Live(d) /\ st[d] = "Recv" /\ ready[d] < MaxQueued
    /\ st' = [st EXCEPT ![d] = "Ready"]
    /\ cc' = [cc EXCEPT ![d] = t]
    /\ dl' = [dl EXCEPT ![d] = None]
    /\ ready' = push_ready(d)
    /\ buf' = Fill(d, Msg(t))
    /\ woke' = Ended(d, "msg")
    /\ UNCHANGED <<tgt, hb, rv, deaths, xr, waiters, subs, kont, owed>>

\* ipc_send to a target that is not: the caller becomes a sender
BlockInSend(t, d) ==
    /\ Live(d) /\ st[d] # "Recv"
    /\ st' = [st EXCEPT ![t] = "Sending"]
    /\ tgt' = [tgt EXCEPT ![t] = d]
    /\ dl' = [dl EXCEPT ![t] = None]
    /\ UNCHANGED <<hb, cc, rv, deaths, xr, queues, owed>>

Send(t, d) ==
    /\ Enter(t, "Send")
    /\ \/ /\ ~Live(d)
          /\ Return("Send", MAX) /\ UNCHANGED <<task, queues, frames, owed>>
       \/ Deliver(t, d) /\ Return("Send", 0)
       \/ BlockInSend(t, d) /\ Park(t, "send")

\* SendGather: the same, but the handler returns to the cell when it blocked.
SendGather(t, d) ==
    /\ Enter(t, "SendGather")
    /\ \/ /\ ~Live(d)
          /\ Return("SendGather", MAX) /\ UNCHANGED <<task, queues, frames, owed>>
       \/ Deliver(t, d) /\ Return("SendGather", 0)
       \/ BlockInSend(t, d) /\ Return("SendGather", 1) /\ UNCHANGED frames

\* An interrupt handler sends, as caller 0, which is in no table: the message is
\* delivered to a task that is parked in Recv, and otherwise nothing happens.
KernelSend(d) ==
    /\ cpu = "user" /\ (cur # 0 => kont[cur] = "user")
    /\ Deliver(0, d)
    /\ out' = NoOut
    /\ UNCHANGED hart

Senders(r) == {s \in Tids : st[s] = "Sending" /\ tgt[s] = r}
Lowest(S) == CHOOSE s \in S : \A u \in S : s <= u

\* Mutation of TakeFrom: the sender is made Ready but not queued.
TakeFromUnqueued(t, s, op) ==
    /\ ready[s] < MaxQueued
    /\ st' = [st EXCEPT ![s] = "Ready"]
    /\ cc' = [cc EXCEPT ![t] = s]
    /\ tgt' = [tgt EXCEPT ![s] = 0]
    /\ woke' = Ended(s, "taken")
    /\ \E b \in Payload(s) : out' = Out(op, s, "none", b)
    /\ UNCHANGED <<dl, hb, rv, deaths, xr, queues, hart, kont, buf, owed>>

\* ipc_recv, ipc_try_recv: the lowest task blocked in sending to t is released
TakeFrom(t, s, op) ==
    /\ ready[s] < MaxQueued
    /\ st' = [st EXCEPT ![s] = "Ready"]
    /\ ready' = push_ready(s)
    /\ cc' = [cc EXCEPT ![t] = s]
    /\ tgt' = [tgt EXCEPT ![s] = 0]
    /\ woke' = Ended(s, "taken")
    /\ \E b \in Payload(s) : out' = Out(op, s, "none", b)
    /\ UNCHANGED <<dl, hb, rv, deaths, xr, waiters, subs, hart, kont, buf, owed>>

\* Mutation of BlockInRecv: the caller parks without looking for a sender.
BlockInRecvUnchecked(t, d) ==
    /\ st' = [st EXCEPT ![t] = "Recv"]
    /\ tgt' = [tgt EXCEPT ![t] = 0]
    /\ dl' = [dl EXCEPT ![t] = d]
    /\ UNCHANGED <<hb, cc, rv, deaths, xr, queues, owed>>

\* ipc_recv with nobody sending: the caller becomes a receiver
BlockInRecv(t, d) ==
    /\ Senders(t) = {}
    /\ st' = [st EXCEPT ![t] = "Recv"]
    /\ tgt' = [tgt EXCEPT ![t] = 0]
    /\ dl' = [dl EXCEPT ![t] = d]
    /\ UNCHANGED <<hb, cc, rv, deaths, xr, queues, owed>>

\* Recv: a queued death first, then a sender, else wait.
Recv(t) ==
    /\ Enter(t, "Recv")
    /\ \/ /\ deaths[t] # << >>
          /\ LET d == Head(deaths[t]) IN
             /\ out' = Out("Recv", d[1], "none", Death(d[2]))
             /\ owed' = [owed EXCEPT ![t][d[1]] = @ - 1]
          /\ deaths' = [deaths EXCEPT ![t] = Tail(@)]
          /\ UNCHANGED <<st, tgt, dl, hb, cc, rv, xr, queues, hart, frames>>
       \/ deaths[t] = << >> /\ Senders(t) # {} /\ TakeFrom(t, Lowest(Senders(t)), "Recv")
       \/ deaths[t] = << >> /\ BlockInRecv(t, None) /\ Park(t, "recv")

\* RecvTimeout looks at senders only, and waits with a deadline.
RecvTimeout(t, d) ==
    /\ Enter(t, "RecvTimeout")
    /\ \/ Senders(t) # {} /\ TakeFrom(t, Lowest(Senders(t)), "RecvTimeout")
       \/ BlockInRecv(t, d) /\ Park(t, "recvt")

TryRecv(t) ==
    /\ Enter(t, "TryRecv")
    /\ \/ Senders(t) # {} /\ TakeFrom(t, Lowest(Senders(t)), "TryRecv")
       \/ /\ Senders(t) = {}
          /\ Return("TryRecv", 0) /\ UNCHANGED <<task, queues, frames, owed>>

\* RecvScatter: the handler returns 0 to the cell when nobody is sending.
RecvScatter(t) ==
    /\ Enter(t, "RecvScatter")
    /\ \/ Senders(t) # {} /\ TakeFrom(t, Lowest(Senders(t)), "RecvScatter")
       \/ BlockInRecv(t, None) /\ Return("RecvScatter", 0) /\ UNCHANGED frames

\* ipc_reply: whatever the caller of t is doing now, it is made Ready.
Reply(t, r) ==
    /\ Enter(t, "Reply")
    /\ \/ /\ cc[t] = None
          /\ Return("Reply", MAX) /\ UNCHANGED <<task, queues, frames, owed>>
       \/ /\ cc[t] \in Tids /\ ready[cc[t]] < MaxQueued
          /\ LET c == cc[t] IN
             /\ IF Live(c)
                THEN /\ st' = [st EXCEPT ![c] = "Ready"]
                     /\ tgt' = [tgt EXCEPT ![c] = 0]
                     /\ dl' = [dl EXCEPT ![c] = None]
                     /\ rv' = [rv EXCEPT ![c] = r]
                     /\ woke' = Ended(c, "reply")
                ELSE UNCHANGED <<st, tgt, dl, rv, woke>>
             /\ ready' = push_ready(c)
          /\ cc' = [cc EXCEPT ![t] = None]
          /\ Return("Reply", 0)
          /\ UNCHANGED <<hb, deaths, xr, waiters, subs, kont, buf, owed>>

-----------------------------------------------------------------------------
(* Waiting, sleeping, watching, spawning *)

Wait(t, p) ==
    /\ Enter(t, "Wait")
    /\ \/ /\ ~Live(p)
          /\ Return("Wait", MAX) /\ UNCHANGED <<task, queues, frames, owed>>
       \/ /\ Live(p) /\ waiters[p][t] < MaxQueued
          /\ waiters' = [waiters EXCEPT ![p][t] = @ + 1]
          /\ st' = [st EXCEPT ![t] = "Waiting"]
          /\ tgt' = [tgt EXCEPT ![t] = p]
          /\ dl' = [dl EXCEPT ![t] = None]
          /\ Park(t, "wait")
          /\ UNCHANGED <<hb, cc, rv, deaths, xr, subs, ready, owed>>

SetTimer(t, d) ==
    /\ Enter(t, "SetTimer")
    /\ st' = [st EXCEPT ![t] = "Sleeping"]
    /\ tgt' = [tgt EXCEPT ![t] = 0]
    /\ dl' = [dl EXCEPT ![t] = d]
    /\ Park(t, "sleep")
    /\ UNCHANGED <<hb, cc, rv, deaths, xr, queues, owed>>

Yield(t) ==
    /\ Enter(t, "Yield")
    /\ cpu' = "pick" /\ out' = NoOut
    /\ UNCHANGED <<task, queues, frames, nid, cur, ctx, owed>>

Heartbeat(t, i) ==
    /\ Enter(t, "Heartbeat")
    /\ hb' = [hb EXCEPT ![t] = IF i = 0 THEN None ELSE i]
    /\ Return("Heartbeat", 0)
    /\ UNCHANGED <<st, tgt, dl, cc, rv, deaths, xr, queues, frames, owed>>

NotifyOnExit(t, d) ==
    /\ Enter(t, "NotifyOnExit")
    /\ t \in SpawnCap
    /\ owed[t][d] < MaxOwed
    /\ owed' = [owed EXCEPT ![t][d] = @ + 1]
    /\ \/ /\ Live(d)
          /\ subs' = [subs EXCEPT ![d][t] = @ + 1]
          /\ UNCHANGED deaths
       \/ /\ ~Live(d)
          /\ deaths' = [deaths EXCEPT ![t] = Append(@, <<d, 0>>)]
          /\ UNCHANGED subs
    /\ Return("NotifyOnExit", 0)
    /\ UNCHANGED <<st, tgt, dl, hb, cc, rv, xr, waiters, ready, frames>>

\* spawn_thread: the new task enters the table and the ready queue
Spawn(t) ==
    /\ Enter(t, "Spawn")
    /\ nid <= N
    /\ st' = [st EXCEPT ![nid] = "Ready"]
    /\ ready' = push_ready(nid)
    /\ nid' = nid + 1
    /\ out' = Out("Spawn", nid, "none", NoMsg)
    /\ UNCHANGED <<tgt, dl, hb, cc, rv, deaths, xr, waiters, subs, cur, cpu, ctx,
                   frames, owed>>

-----------------------------------------------------------------------------
(* Death *)

\* Mutation of StuckSenders: senders to a dead task are not looked for.
NoStuckSenders(x) == {t \in Tids \ {x} : FALSE}

StuckSenders(x) == {t \in Tids \ {x} : st[t] = "Sending" /\ tgt[t] = x}
LiveWaiters(x) == {t \in Tids \ {x} : Live(t) /\ waiters[x][t] > 0}
\* a watcher that exit_task has just made Ready as a waiter is not in Recv
ParkedWatchers(x) ==
    {t \in Tids \ {x} : st[t] = "Recv" /\ subs[x][t] > 0 /\ t \notin LiveWaiters(x)}

\* Mutation of QueuedDeaths: a watcher that is busy is not told.
NoQueuedDeaths(x, t) == IF t \in ParkedWatchers(x) THEN subs[x][t] - 1 ELSE 0

\* death notifications that are queued: a watcher listed twice is woken once
QueuedDeaths(x, t) ==
    IF ~Live(t) \/ t = x THEN 0
    ELSE subs[x][t] - (IF t \in ParkedWatchers(x) THEN 1 ELSE 0)

\* The ready queues after exit_task: x is purged, and pushes follow for every
\* sender, for every entry of the waiters list, and for every parked watcher.
Pushes(x, t) ==
    (IF t \in StuckSenders(x) THEN 1 ELSE 0)
    + (IF t \in LiveWaiters(x) THEN waiters[x][t] ELSE 0)
    + (IF t \in ParkedWatchers(x) THEN 1 ELSE 0)

\* Mutation of ReadyAfterExit: the dead task stays in the queue.
ReadyUnpurged(x) == [t \in Tids |-> ready[t] + Pushes(x, t)]

ReadyAfterExit(x) == [t \in Tids |-> IF t = x THEN 0 ELSE ready[t] + Pushes(x, t)]

\* exit_task, common to every way of dying: the record of x leaves the table
\* and the ready queues; those who wait for x, in any way, are told.
exit_task(x, reason) ==
    LET woken == StuckSenders(x) \cup LiveWaiters(x) \cup ParkedWatchers(x) IN
    /\ st' = [t \in Tids |-> IF t = x THEN "Gone"
                             ELSE IF t \in woken THEN "Ready" ELSE st[t]]
    /\ dl' = [t \in Tids |-> IF t = x \/ t \in woken THEN None ELSE dl[t]]
    /\ ready' = ReadyAfterExit(x)
    /\ cc' = [t \in Tids |-> IF t \in ParkedWatchers(x) THEN x
                             ELSE IF t = x \/ cc[t] = x THEN None ELSE cc[t]]
    /\ rv' = [t \in Tids |-> IF t \in LiveWaiters(x) THEN reason
                             ELSE IF t = x THEN None ELSE rv[t]]
    /\ xr' = [t \in Tids |-> IF t \in ParkedWatchers(x) THEN reason
                             ELSE IF t = x THEN None ELSE xr[t]]
    /\ deaths' = [t \in Tids |-> IF t = x THEN << >>
            ELSE deaths[t] \o [i \in 1 .. QueuedDeaths(x, t) |-> <<x, reason>>]]
    /\ waiters' = [waiters EXCEPT ![x] = Zero]
    /\ subs' = [subs EXCEPT ![x] = Zero]
    /\ woke' = [t \in Tids |-> IF t \in LiveWaiters(x) THEN "exit"
                               ELSE IF t \in StuckSenders(x) THEN "gone"
                               ELSE IF t \in ParkedWatchers(x) THEN "death"
                               ELSE IF t = x THEN "none" ELSE woke[t]]
    /\ tgt' = [t \in Tids |-> IF t = x \/ t \in woken THEN 0 ELSE tgt[t]]
    /\ hb' = [hb EXCEPT ![x] = None]
    /\ kont' = [kont EXCEPT ![x] = "user"]
    /\ buf' = [buf EXCEPT ![x] = NoMsg]
    /\ owed' = [owed EXCEPT ![x] = Zero]

Exit(t, code) ==
    /\ Enter(t, "Exit")
    /\ exit_task(t, code)
    /\ cpu' = "pick" /\ out' = NoOut
    /\ UNCHANGED <<nid, cur, ctx>>

\* terminate_current_cell_on_fault
Fault(t) ==
    /\ Enter(t, "Fault")
    /\ exit_task(t, MAX)
    /\ cpu' = "pick" /\ out' = NoOut
    /\ UNCHANGED <<nid, cur, ctx>>

ForceExit(t, x) ==
    /\ Enter(t, "ForceExit")
    /\ x # t /\ t \in SpawnCap /\ x \notin SystemCells
    /\ Return("ForceExit", 0)
    /\ \/ Live(x) /\ exit_task(x, MAX)
       \/ ~Live(x) /\ UNCHANGED <<task, queues, frames, owed>>

-----------------------------------------------------------------------------
(* The scheduler round *)

\* vi_timer_tick and the wake-up sweep of pick_next: time advances for every
\* deadline, and the sleepers and receivers whose deadline is reached are woken.
\* (Mutation of Elapsed: receivers are not swept.)
ElapsedSleepers(t) == st[t] = "Sleeping" /\ dl[t] # None /\ dl[t] <= 1
Elapsed(t) == st[t] \in {"Sleeping", "Recv"} /\ dl[t] # None /\ dl[t] <= 1

Tick ==
    /\ cpu = "user"
    /\ cur # 0 => kont[cur] = "user"
    /\ st' = [t \in Tids |-> IF Elapsed(t) THEN "Ready" ELSE st[t]]
    /\ dl' = [t \in Tids |-> IF Elapsed(t) \/ dl[t] = None THEN None ELSE dl[t] - 1]
    /\ ready' = [t \in Tids |-> ready[t] + (IF Elapsed(t) THEN 1 ELSE 0)]
    /\ woke' = [t \in Tids |-> IF Elapsed(t) THEN "timeout" ELSE woke[t]]
    /\ hb' = [t \in Tids |-> IF hb[t] > 0 THEN hb[t] - 1 ELSE hb[t]]
    /\ cpu' = "sweep" /\ out' = NoOut
    /\ UNCHANGED <<tgt, cc, rv, deaths, xr, waiters, subs, nid, cur, ctx, kont, buf, owed>>

\* The heartbeat sweep terminates, lowest id first, each task whose deadline
\* was reached when the sweep began.
\* (Mutation of Hung: only a task that is running is looked at.)
HungRunning == {t \in Tids : st[t] = "Running" /\ hb[t] = 0}
Hung == {t \in Tids : Live(t) /\ hb[t] = 0}

KillHung ==
    /\ cpu = "sweep" /\ Hung # {}
    /\ LET x == Lowest(Hung) IN
       /\ exit_task(x, MAX)
       /\ cur' = IF cur = x THEN 0 ELSE cur
    /\ out' = NoOut
    /\ UNCHANGED <<nid, cpu, ctx>>

\* pick_next_local looks at the current task, then takes one from the queue.
Picking == cpu = "pick" \/ (cpu = "sweep" /\ Hung = {})
Preempted == cur # 0 /\ st[cur] = "Running"

\* The watchdog: a RealTime task that has been found Running in too many rounds
\* in a row (run_ticks, not counted here) is terminated.  The round goes on with
\* the id it has read before: the dead task's own context is switched away from.
WatchdogKill ==
    /\ Picking /\ Preempted /\ cur \in RealTime
    /\ exit_task(cur, MAX)
    /\ cpu' = "pick" /\ out' = NoOut
    /\ UNCHANGED <<nid, cur, ctx>>

\* A task found Running is put back.
Requeued == [t \in Tids |-> ready[t] + (IF Preempted /\ t = cur THEN 1 ELSE 0)]

\* With no task to run, a task that is current is switched away from and the boot
\* context continues; with none, no context is switched.
IdleStack == IF cur # 0 THEN boot ELSE stk

\* What BOOT_CONTEXT holds after a switch to n: the outgoing context is saved there
\* when no task is current.
BootSaved(n) == IF Live(n) /\ cur = 0 THEN stk ELSE boot

\* Any queued task is taken.  The hart is "lost", and what it does then is not
\* modelled, when the id it took is not in the table, so that no context is
\* switched to, and when it goes on in the context of a task that is dead.
Pick ==
    /\ Picking
    /\ \/ \E n \in Tids :
            /\ Requeued[n] > 0
            /\ ready' = [Requeued EXCEPT ![n] = @ - 1]
            /\ st' = [t \in Tids |-> IF t = n /\ Live(n) THEN "Running"
                                     ELSE IF Preempted /\ t = cur THEN "Ready"
                                     ELSE st[t]]
            /\ tgt' = [tgt EXCEPT ![n] = 0]
            /\ dl' = [dl EXCEPT ![n] = None]
            /\ cur' = n
            /\ stk' = n
            /\ boot' = BootSaved(n)
            /\ cpu' = IF Live(n) THEN "user" ELSE "lost"
       \/ /\ \A n \in Tids : Requeued[n] = 0
          /\ cur' = 0
          /\ stk' = IdleStack
          /\ cpu' = IF IdleStack = 0 THEN "user" ELSE "lost"
          /\ UNCHANGED <<st, tgt, dl, ready, boot>>
    /\ out' = NoOut
    /\ UNCHANGED <<hb, cc, rv, deaths, xr, waiters, subs, nid, frames, owed>>

-----------------------------------------------------------------------------
(* What the blocking handlers do after yield_cpu returns *)

Orzero(v) == IF v = None THEN 0 ELSE v

Resume(t, k, op, r, b) ==
    /\ cpu = "user" /\ cur = t /\ kont[t] = k
    /\ kont' = [kont EXCEPT ![t] = "user"]
    /\ buf' = [buf EXCEPT ![t] = NoMsg]
    /\ woke' = [woke EXCEPT ![t] = "none"]
    /\ out' = Out(op, r, woke[t], b)
    /\ UNCHANGED <<st, tgt, dl, hb, cc, rv, deaths, queues, hart>>

\* the notification that a resumed receiver has been given, if it was one
Told(t) ==
    IF woke[t] = "death" /\ cc[t] \in Tids
    THEN owed' = [owed EXCEPT ![t][cc[t]] = @ - 1]
    ELSE UNCHANGED owed

ResumeSend(t) ==
    /\ Resume(t, "send", "Send", Orzero(rv[t]), NoMsg) /\ UNCHANGED <<xr, owed>>
ResumeWait(t) ==
    /\ Resume(t, "wait", "Wait", Orzero(rv[t]), NoMsg) /\ UNCHANGED <<xr, owed>>
ResumeTimer(t) ==
    /\ Resume(t, "sleep", "SetTimer", 0, NoMsg) /\ UNCHANGED <<xr, owed>>

\* Mutation of ResumeRecv: the reason is read but not taken.
ResumeRecvKept(t) ==
    /\ Resume(t, "recv", "Recv", Orzero(cc[t]),
              IF xr[t] = None THEN buf[t] ELSE Death(xr[t]))
    /\ UNCHANGED xr
    /\ Told(t)

\* Recv takes a stashed exit reason and writes it over the buffer.
ResumeRecv(t) ==
    /\ Resume(t, "recv", "Recv", Orzero(cc[t]),
              IF xr[t] = None THEN buf[t] ELSE Death(xr[t]))
    /\ xr' = [xr EXCEPT ![t] = None]
    /\ Told(t)

\* RecvTimeout looks at the caller only.
ResumeRecvTimeout(t) ==
    /\ Resume(t, "recvt", "RecvTimeout", Orzero(cc[t]), buf[t])
    /\ UNCHANGED xr
    /\ Told(t)

-----------------------------------------------------------------------------

Handler(t) ==
    \/ \E d \in Tids : Send(t, d) \/ SendGather(t, d) \/ Wait(t, d)
                       \/ NotifyOnExit(t, d) \/ ForceExit(t, d)
    \/ \E i \in Timeouts : RecvTimeout(t, i) \/ SetTimer(t, i) \/ Heartbeat(t, i)
    \/ \E c \in Codes : Reply(t, c) \/ Exit(t, c)
    \/ Recv(t) \/ TryRecv(t) \/ RecvScatter(t)
    \/ Yield(t) \/ Spawn(t) \/ Fault(t)

Resumption(t) ==
    \/ ResumeSend(t) \/ ResumeWait(t) \/ ResumeTimer(t)
    \/ ResumeRecv(t) \/ ResumeRecvTimeout(t)

Kernel == KillHung \/ WatchdogKill \/ Pick \/ \E t \in Tids : Resumption(t)

Next ==
    \/ Tick \/ Kernel
    \/ \E t \in Tids : Handler(t)
    \/ \E d \in Input : KernelSend(d)

Spec == Init /\ [][Next]_vars

\* The timer interrupt stays pending until it is taken, and cells run with
\* interrupts enabled: a tick is not put off for ever.  The kernel's own steps
\* run without interruption.  Nothing is assumed of the cells.
Fairness == SF_vars(Tick) /\ WF_vars(Kernel)

FairSpec == Spec /\ Fairness

-----------------------------------------------------------------------------
(* Properties of every configuration *)

\* Sender and receiver never miss each other: nobody is parked in Recv while
\* another task is blocked in sending to it (ipc_send delivers to a task in
\* Recv, ipc_recv looks for a sender before it parks).
Rendezvous ==
    \A r \in Tids : st[r] = "Recv" => Senders(r) = {}

\* No task drops out of the scheduler: one that is Ready has an entry in a ready
\* queue, and one that is Running is the hart's current task.
NoLostTask ==
    \A t \in Tids :
        /\ st[t] = "Ready" => ready[t] > 0
        /\ st[t] = "Running" => cur = t

\* Nobody waits for a task that is gone: the target of a blocked Send or Wait is
\* alive, and the target of a Wait has the waiter on its list, so that its death,
\* of whatever kind, ends the wait (the contract of exit_task).
NoOrphanWait ==
    \A t \in Tids :
        /\ st[t] = "Sending" => tgt[t] \in Tids /\ Live(tgt[t])
        /\ st[t] = "Waiting" => /\ tgt[t] \in Tids /\ Live(tgt[t])
                                /\ waiters[tgt[t]][t] > 0

(* Properties of cells that make neither Reply, SendGather nor RecvScatter *)

\* A task is queued exactly once while it is Ready, and not at all otherwise:
\* no wake-up is doubled, none is left behind in the queue.
ReadyExact ==
    \A t \in Tids : ready[t] = IF st[t] = "Ready" THEN 1 ELSE 0

\* the entries of a queue of deaths that name d
Naming(q, d) == {i \in 1 .. Len(q) : q[i][1] = d}
Notices(q, d) == Cardinality(Naming(q, d))

\* A supervisor never misses a child's death, and is told once for each
\* NotifyOnExit: what it is still owed for d is what it is still subscribed
\* to, plus what is queued for it, plus the notification it was woken with.
DeathsConserved ==
    \A w \in Tids, d \in Tids : Live(w) =>
        owed[w][d] = (IF Live(d) THEN subs[d][w] ELSE 0)
                     + Notices(deaths[w], d)
                     + (IF xr[w] # None /\ cc[w] = d THEN 1 ELSE 0)

\* What Recv returns is what it put in the buffer: the message of the task it
\* names, or the exit reason of a task that is dead.  A Recv that returns 0 has a
\* message of the kernel, or one of a task that died before the receiver ran, whose
\* exit_task cleared current_caller.
PayloadMatches ==
    out.op = "Recv" =>
        \/ out.ret # 0 /\ out.buf = Msg(out.ret)
        \/ out.ret # 0 /\ out.buf[1] = "death" /\ ~Live(out.ret)
        \/ out.ret = 0 /\ out.buf = Msg(0)
        \/ out.ret = 0 /\ \E s \in Tids : out.buf = Msg(s) /\ ~Live(s)

(* Liveness *)

\* A Recv with a deadline ends, whatever its peers do (scheduler.rs: without
\* the sweep it "would block forever"), as long as the hart is not lost.
TimedRecvEnds ==
    \A t \in Tids : st[t] = "Recv" /\ dl[t] # None ~> st[t] # "Recv" \/ cpu = "lost"

\* A task that hangs with its heartbeat armed does not stay: if it is blocked, it
\* is woken or killed, as long as the hart is not lost.
HangIsEnded ==
    \A t \in Tids :
        st[t] \in {"Recv", "Sending", "Waiting"} /\ hb[t] # None
            ~> st[t] \notin {"Recv", "Sending", "Waiting"} \/ cpu = "lost"
=============================================================================
