# A TLA+ verification project for ViCell

ViCell (Cellos) is a nano-kernel in Rust for a single address space.  Programs
are *cells*: they are loaded at addresses of their own, run as tasks, and meet
only in the kernel, through rendezvous messages, waits, timers, death
notifications, capabilities, page grants and a service registry.  A supervisor
cell (`init`) restarts services that die, and a running service can be replaced
by a new version (hot swap).

This directory holds TLA+ models of that kernel, the TLC configurations that
check them on small instances, and theorems that TLAPS proves for all instances.
Every definition is a translation of lines of the source; `PROJECT.json`
(`map`) names them.

    tlc -workers 2 -config Ipc.cfg MCIpc      model-check one run
    tlapm IpcProofs.tla                       check the proofs of one module

## 1. The system

| Part | State | Operations | What makes it hard | Module |
|---|---|---|---|---|
| Cell address slots (`loader/va_alloc.rs`) | a bump counter, a bitmap of freed slots | `alloc_cell_va`, `free_cell_va` | no lock: each atomic access interleaves with every other | `VaAlloc`, `SlotPool` |
| Physical frames (`memory/frame.rs`) | a bitmap, the next-fit index | allocate, allocate contiguous, free, `allocate_guest_ram` | the search for guest RAM drops the lock between chunks | `FrameAlloc` |
| Task table, scheduler round, IPC and blocking calls (`task/scheduler.rs`, `task.rs`, `task/syscall.rs`) | tasks, ready queues, current task, `current_caller`, `pending_deaths`, waiters, subscribers | Send, Recv and their variants, Wait, timers, deaths, sweeps, pick | a handler has two halves and everything may happen between them; a task may die in any queue or list | `Ipc` |
| Harts (`task.rs`, `task/hart_local*`, `task/smp.rs`, `trap.S`, `switch.S`) | queues and current id per hart, saved contexts, `tp` | pick, steal, reap, trap, context switch, bring-up | the critical sections of `yield_cpu` are separate; one global `tp` address | `Harts` |
| Event waker (`task/waker.rs`, `virtio_net.rs`, net cell) | the pending flag, deadlines | interrupts, WaitForEvent, the sweep, the loop of the net cell | lost wake-ups | `NetWaker` |
| Supervisor and service registry (`init`, `cell/service_registry.rs`) | service to task, init's own table, restart windows | bring-up, subscribe, restart, register | a death between spawn, subscription and registration | `Supervisor` |
| Clients of services (`ostd/service.rs`) | a cached task id | resolve, call | stale caches | `ServiceClient` |
| Hot swap and stash (`cell/hotswap.rs`, `cell/state_stash.rs`, `ostd/app.rs`) | where the orchestrator is, the frozen task, its queue, the stash | freeze, snapshot, spawn, restore, drain, commit, roll back | a dozen steps that each can fail or time out | `HotSwap` |
| What a cell holds (`cell/cap_registry.rs`, grants in `task/syscall.rs`, `resource_registry.rs`, `memory/cell_quota.rs`, `hypervisor/registry.rs`) | tables keyed by task id or by CellId | open, grant, share, claim, create, and the clean-ups of each death | five lists of clean-ups kept by hand | `CellResources` |

`PROJECT.json` lists all parts (`components`), modelled or not, and the hazards
found in them (`hazards`), each at the line where it bites.

How they are put together: `ServiceClient` extends `Supervisor` with a client and
with the answering services, so that deaths, restarts and calls interleave.
`HotSwap` has its own clients.  `VaAlloc` implements `SlotPool` (section 4).  The
other modules see their neighbours through what the code calls: `Harts` reduces the
calls of `Ipc` to block, wake, exit and spawn, and `NetWaker` takes from `Harts`
that a Ready task gets its turn.

Each `MC...` module holds the definitions that a `.cfg` cannot state (allowlists,
policies, symmetry).  `...Proofs` modules hold the theorems.

## 2. The modules

Every module has a comment at each variable that names the field of the code it
stands for, and one action per operation.  This section says what a step is and
what is abstracted.

### 2.1 VaAlloc and SlotPool

Each load, compare-exchange, `fetch_add`, `fetch_sub` and `fetch_or` of the code
is one action; `pc`, `word` and `val` are a context's position and registers in
`alloc_cell_va`.  `compare_exchange_weak` may fail spuriously (`RetryBit`).  A
slot stands for its base address; `owned` is the kernel's own record of the
slots, the `pie_va_base` of the cells a context loaded.  The code frees a slot
once, in the drop of the segments that hold it, which is the guard of `FreeSlot`.
The bump counter is not bounded: at most one increment per context is
outstanding past the end, so the state space is finite.

`SlotPool` is what callers may rely on: a call takes a slot nobody holds, or is
refused, and a return gives back a held one, each in one step.  A refusal carries
no promise (section 5).

### 2.2 Ipc

*One action is what the hart does without interruption.*  Interrupts are off from
trap entry to trap return, so a handler runs until it returns to its cell or
calls `yield_cpu`.  What it does afterwards is a second action (`ResumeSend`,
`ResumeRecv`, ...), enabled when the scheduler has switched back to the task;
`kont` says which handler a task is inside of.

| State | In the code |
|---|---|
| `st`, `tgt`, `dl` | `Task::state` with the target and the deadline it carries |
| `hb`, `cc`, `rv`, `deaths`, `xr` | `heartbeat_deadline`, `current_caller`, `reply_value`, `pending_deaths`, `pending_exit_reason` |
| `waiters`, `subs`, `ready` | `Task::waiters`, `DEATH_SUBSCRIBERS`, the ready queues: how often each task is listed |
| `nid`, `cur` | `next_task_id`, the hart's `current_task_id` |
| `cpu`, `stk`, `boot` | where the hart is, whose context it executes, what `BOOT_CONTEXT` holds |
| `kont`, `buf` | the suspended handler and what was copied to its buffer |
| `woke`, `out`, `owed` | observations for the properties: what ended a wait, what a call returned, which notifications are due |

`exit_task` is shared by Exit, ForceExit, Fault, the heartbeat sweep (`KillHung`)
and the watchdog (`WatchdogKill`).  `Tick` is the timer interrupt with the
wake-up sweep; `KillHung` ends hung tasks one by one before `Pick`; `Pick` is the
rest of `pick_next_local` with the context switch.

* A message is its sender; its bytes are never looked at by the kernel.
* The kernel sends too, as caller 0 (`KernelSend`; keyboard, console and GPIO events):
  such a message is copied to a task of `Input` that is parked in Recv and dropped
  otherwise, and Recv then returns 0.  `InputAssumption`: none of these tasks makes
  the Reply call, which would queue the id 0.
* Deadlines are the ticks left, so the clock needs no variable.
* The ready queues are a bag, so any queued task may be picked: this covers every
  order of the queue and every assignment of priorities.
* `SendGather` and `RecvScatter` free their kernel buffer when they return while
  the task is still listed as blocked; a read through it yields the message or
  junk (`Payload`), a write through it is lost (`Fill`).
* `run_ticks` is not counted: the watchdog may strike a RealTime task in any round.
* Denied calls and malformed arguments change nothing and are left out.

When the scheduler takes an id that is not in the table, or resumes the context
of a dead task, `cpu` becomes `"lost"`: the model says that this happens and does
not guess what the hart does next.  The heartbeat sweep gets there by ending the
running task, since it clears the current id and the next switch overwrites
`BOOT_CONTEXT`; the watchdog keeps the id, saves into the zombie's own context and
does not.

Bounds: `N` tasks (ids are never reused), `MaxQueued` entries of one task in the
ready queue or in a list of waiters, `MaxOwed` subscriptions of one watcher to
one task.  They are guards of the calls that would exceed them.

### 2.3 Harts

A step of a hart is what it does under one hold of the scheduler lock, or one
context switch: `Reap`, `Pick`, `Switch`.  Between two of them the other hart, or an
interrupt of the idle loop, may do anything.  A context is the stack on which it
resumes; stacks `1 .. N` belong to the tasks, and each hart has one on which it
boots and idles.  `Call` is any system call that blocks, wakes, spawns, exits or
kills.  `tp` of a hart is what the trap entry loaded from `HART_LOCAL_TP_ADDR`, and
`current_hart_id` is read through it.  `Cli` says whether `yield_cpu` masks
interrupts first, as on x86_64.  `Pick` is all of `pick_next_local`: the sweep that
wakes tasks (`Awakened`), on hart 0 the heartbeat sweep over the tasks of `Armed`
(`Hung`), the watchdog (`Overrun`), and the choice.  `hungup` is a history variable:
the tasks that the heartbeat sweep has ended on the hart they were running on.  What
a hart does once it is on a wrong stack is not modelled.

### 2.4 NetWaker

A step is one interrupt or one system call.  `Arrive` is the device; `handle_irq`,
`TimerInterrupt` and `SoftwareInterrupt` are the interrupts; `Sweep` is the part of
`pick_next` that serves `WaitEvent` and ends the net cell when its heartbeat
deadline has passed.  `Beat`, `Pump`, `Serve`, `Answer` and `WaitForEvent` are the loop
of the net cell.  The client blocks in Send (`Request`), reads the answer (`Read`) or
gives up reading (`GiveUp`); the answer is a blocking Send too, so that the two can
block on each other until the heartbeat sweep ends the net cell.  Deadlines are the
ticks left, so time needs no bound.  `RoundAssumption`: one round of `Pump` can empty
the ring, as it can in the code (16 and 16).

### 2.5 Supervisor and ServiceClient

One system call of init, with the computation up to the next one, is one action;
services die between any two of them.  Bring-up is `BootSpawn`, `BootRegister`,
`Subscribe`; the loop is `Recv`, `Handle`, `Respawn`, `Rewatch`, `Reregister`.
`restarts` records when each service was restarted.  Time is bounded by `MaxTime`
and task ids by `MaxTid`: a spawn past the last id fails, as it may in the code.

`ServiceClient` adds `Call`, `Lookup` and `Send` of `ServiceRef`, and a service
that receives and replies.

### 2.6 HotSwap

The orchestrator runs from one `yield_cpu` to the next in one action:
`StartSwap` (steps 1 and 2), `PollStash` (with the hard freeze, the spawn and the
restore event, or the roll-back), `Finish` (step 5) and `ReadyTimeout`.  Its two
events go through `send_to`, which on a target that is not in Recv puts the
orchestrator in Sending and returns; the message is then a buffer in a stack
frame that is gone, and what the target copies is the event or junk (`Sent`).
Time is not counted: a poll that finds nothing may find its deadline passed.  The
state of a cell is the set of requests it has applied; `hist` is the order in
which requests were applied.  `Kill` and `HeartbeatKill` end a cell from outside.

A handler answers with a blocking Send (`Reply`), and a client reads (`ClientRecv`)
or does not.  The handler of the old cell may `Wait` for a child, whose end
(`ChildExit`) makes every waiter Ready, whatever state it is in: also one that the
swap has frozen meanwhile.  The Reply system call is left out, as no cell makes it.
The registry entry that step 1 clears is not set again, as in the code, so that
clients do not learn of the new cell (section 5).

### 2.7 FrameAlloc

`allocate_frame`, `allocate_contiguous` and `deallocate_frame` hold the lock for
the whole call and are one action.  `allocate_guest_ram` is `StartGuestRam`, then
one `Probe` per chunk of `PROBE_CHUNK` frames, then `Commit` or, when the run was
taken meanwhile, `Restart`; `GiveUp` and `ReturnNone` are its failures.  `stable`
is a history variable: the starts of runs that have been free during the whole
call.  `MCFrameAlloc` has the loop of `find_free`, which skips full words, beside
the definition (the first clear bit of the range) that the rest of the model uses.

### 2.8 CellResources

One hart, so each action is a whole system call, fault or yield.  `r` holds the
tables: capabilities, page grants, registered grants, used frames, device windows,
quota entries, VMs.  The clean-ups (`revoke_all_for`, `deregister`, `release_for`,
`reap_grants`, `reap_vms`) are operators on `r`, and each way of dying (`Exit`,
`ForceExit`, `Fault`, the heartbeat sweep inside any yield, `HotSwapFinish`)
applies those that the code calls there, in that order.  A task killed inside
`pick_next` waits in `pending` until the next yield.  Grants, VMs and claims are
keyed by task id and the rest by CellId, as in the code; a cell loaded from
memory has CellId 0.  A claim of a window (`request_mmio`) may have length 0, and
then replaces the entry at its base.

## 3. The runs

| Run | Instance | Properties | States | Shows |
|---|---|---|---|---|
| `va_alloc` | 3 contexts, 3 slots, 2 bits a word | `SlotsExclusive`, `NoSlotLost`, `ImplementsPool` | 64 thousand | exhaustion with all contexts backing off, and every race on a word, are races of an atomic pool |
| `ipc` | 3 tasks, messages, Wait, a supervisor, one task that the kernel sends to | `Rendezvous`, `NoLostTask`, `NoOrphanWait`, `ReadyExact`, `DeathsConserved`, `PayloadMatches` | 329 thousand | nobody is missed, dropped, queued twice or left waiting for the dead; each death is told once; what Recv returns names what it copied |
| `ipc_timers` | 2 tasks, a deadline, heartbeats, a RealTime task, Reply, SendGather, RecvScatter, Spawn | `TimedRecvEnds`, `HangIsEnded` | 103 thousand | waits with a deadline end and hung tasks are ended, as long as the hart is not lost (section 2.2) |
| `supervisor` | 2 services, Permanent and Transient, one of them with a client; 4 task ids, ticks 0 to 2, a limit of 1 restart per window, 2 lookups per resolve | `SupervisedWhenIdle`, `OneInstance`, `ProviderReturns`, `StaleCacheDropped` | 185 thousand | deaths at any point of bring-up and restart are noticed, once, and a client drops its stale id |
| `hotswap` | 2 clients with 2 requests each, a queue of 2, a child | `NobodyStuck`, `SomeoneServes`, `KeptUntilDrain`, `InOrderOnce` | 1.66 million | every failure and time-out of the swap, with the queue full, cells killed and the child ended at any point |
| `harts_one` | 4 tasks, one RealTime, one with a heartbeat, one hart, interrupts masked | `ResumesOwnStack`, `NoFreedStack`, `ReadyRuns` | 7 thousand | the context switch is sound, no hart is on a freed stack but for one that the heartbeat sweep frees (section 5), and no task starves behind its equals |
| `harts_two` | 3 tasks, one RealTime, one with a heartbeat, two harts | `NoReadyLost`, `RealTimeNotStolen` | 863 thousand | stealing loses nobody and moves no RealTime task |
| `net_waker` | the net cell alone with and without a time-out, and beside a second waiter; a ring of 2, a heartbeat of 4 ticks, one client | `NoLostWakeup`, `WaitEndsInTime`, `SendEnds` | 148 thousand | no wake-up is lost at any point of the loop, a wait ends before the heartbeat, and no Send of a client lasts for ever |
| `frame_alloc` | 2 contexts, 5 frames, chunks of 2, requests of 2, 3 and 6 frames | `TypeOK`, `FramesExclusive`, `NoRunMissed`, `LoopFindsFirst`, `SearchEnds` | 183 thousand | the unlocked search gives out nothing twice, misses no run and ends |
| `cell_resources` | init and 2 tasks, 1 frame, 1 window, 1 capability, 2 manifests | `FramesBacked`, `HeldByLiving`, `DeathReclaims`, `DeathsKeepClaims` | 364 thousand | what each way of dying gives back, and that it takes nothing from others |
| `hotswap_message_lost` | as `hotswap` | `NoMessageLost` | | violated: the code loses messages (section 5) |
| `restart_window` | 1 Permanent service, 5 task ids, ticks 0 to 4, a limit of 2 restarts per window of 2 ticks | `RestartsWithinLimit` | | violated: the windows are fixed (section 5) |

Why the bounds are enough.  Each property of `Ipc` relates at most two tasks and one
that acts on them, so three tasks are a sender, a receiver and one that dies, kills,
waits or watches in between; two tasks can wait for the same one, and two can be
blocked in sending to it.  In `ipc_timers` no call queues a task that is queued
already (`MaxQueued = 1`); the sweep and a death still do.  In `supervisor` four
task ids allow each service two instances or one of them three, and the limit of one
restart is reached.  A queue of two in `hotswap` is filled by two clients, and holds
a second message behind the one that takes the new cell out of Recv.  A steal of
more than one task needs four queued ones, which `harts_two` does not have:
`steal_from_busiest` is compared with what it should return on all queues of up to
five tasks by `StealsHalf`, which TLC evaluates in `harts_one`.  Five frames with
one for the bitmap and chunks of two make a run of three span chunks, and the
request for six reaches the saturated limit.  In `cell_resources` a single frame and
window make every reuse a reuse of what somebody had.  `net_waker` takes as many
frames in a round as the ring holds, as the code does with 16 and 16.

`harts_two` follows behaviours up to the first state in which a hart is on a wrong
stack (`CONSTRAINT StacksSound`); such states occur (section 5), are checked, and
are not continued.  Nor are states in which a second of the three tasks has died
(`FewDeaths`, a bound): a steal that takes some tasks and leaves others needs two.

`NoFreedStack` excepts the tasks in `hungup`, and only those: without the exception
TLC refutes it (section 5).

`ReadyExact`, `DeathsConserved` and `PayloadMatches` are stated for cells that do
not use Reply, SendGather and RecvScatter (the last two also not RecvTimeout):
those calls break them (section 5).  `Rendezvous`, `NoLostTask` and `NoOrphanWait`
hold with these calls too; that is what the first theorems of `IpcProofs` say.  The
instance of `ipc` satisfies the hypotheses of the other theorems about `Ipc`
(`Blocking`, `Plain`, `Static`).

Deadlock is checked in `va_alloc`, `ipc`, `net_waker` and `frame_alloc`.  In the
other runs the system may stop: a hart can be lost, all tasks can have ended, or
the bounds on task ids, requests or time are used up.

`TypeOK` is checked by a run for `FrameAlloc`; for `VaAlloc`, `Ipc`,
`Supervisor`, `HotSwap` and `CellResources` it is part of a proved invariant.  In
the other modules it describes the state and is not among the checked properties.

### Fairness

| Run | Assumed | Because |
|---|---|---|
| `ipc_timers` | strong fairness of `Tick`, weak fairness of the kernel's own steps | a timer interrupt stays pending until it is taken, and cells run with interrupts enabled; kernel code runs to its end; nothing is assumed of the cells |
| `supervisor` | weak fairness of init, of the client and of a service that has work | they are scheduled when they are Ready (`ReadyRuns`) |
| `harts_one` | weak fairness of a hart's kernel steps and of its timer | every tick rearms the timer |
| `net_waker` | weak fairness of time, of the timer and software interrupts and of the net cell | a pending interrupt is taken; the net cell gets its turn (`ReadyRuns`); nothing is assumed of the device's interrupt, which not every target delivers, or of the client |
| `frame_alloc` | weak fairness of the search | the caller runs between its lock holds; nothing is assumed of the other contexts |

## 4. What is proved

All theorems are about safety and use no fairness.  They hold for every value of the
constants that satisfies the named assumptions of the module, which TLC evaluates
in the module's run:

| Module | Assumptions | What they say |
|---|---|---|
| `VaAlloc` | `SlotsAssumption`, `SpawnersAssumption` | positive sizes, finitely many contexts |
| `Ipc` | `TidsAssumption`, `AllowAssumption`, `InputAssumption`, `ValuesAssumption` | some of the tasks exist at boot; allowlists name system calls; who is sent messages by the kernel does not Reply; the codes and time-outs are numbers |
| `FrameAlloc` | `FramesAssumption` | sizes are numbers, and the bitmap fits |
| `Supervisor` | `ServicesAssumption`, `BoundsAssumption` | each service has a policy; the registry has room for the well-known services |
| `HotSwap` | `TasksAssumption`, `DepthAssumption` | the two cells, the orchestrator, the child and the clients are different tasks, and task ids are positive |
| `CellResources` | `ManifestAssumption`, `BoundAssumption` | manifests name kinds of capabilities; there is a first task |
| `NetWaker` | `WaitersAssumption`, `RoundAssumption` | the net cell is among the waiters; time-outs and sizes are numbers; a round can empty the ring |

The bounds named in section 2 are constants of the theorems like any other: they
may be as large as one likes, and no proof uses that they are small.

**VaAlloc** (`VaAllocProofs`): `TypeCorrect`, `AllocIsExclusive`, `NothingLost` and
`AllocImplementsPool`, for any finite number of contexts, slots and bits per word.
`SlotsExclusive` is not inductive: `fetch_sub` would uncover a held slot if it could
bring the counter below `MAX_SLOTS`.  The strengthening `BitmapInv` says why it
cannot: each context between its `fetch_add` and its `fetch_sub` has raised the
counter past the end by one, so `BUMP >= MAX_SLOTS + Cardinality(Backing)`.  It
also says that a word of the bitmap holds only its own slots, which is where the
rounding in `BITMAP_WORDS` is used (lemma `SlotHasWord`).

`AllocImplementsPool` is a refinement: with `held` mapped to `owned`, and `asking`
to the contexts that are inside a call, every behaviour of `VaAlloc` is one of
`SlotPool`.  The call takes effect at the compare-exchange that clears the bit, or
at the `fetch_add` within the range; lemma `PoolStep` shows, from the same
invariant, that the slot is nobody's at that instant and that all other steps
are invisible.

**Ipc** (`IpcProofs`): `TypeCorrect`, `RendezvousHolds`, `NoTaskLost`,
`NobodyOrphaned`, for any number of tasks, any allowlists and any timeouts.  The
invariant is the conjunction of the type invariant, the three properties,
`DeadlineInv` (a deadline belongs to a task that sleeps or receives, so that
nothing else is woken by the sweep) and `FreshInv` (an id not yet given out is
not in the table, so that spawning overwrites nobody).  The properties need each
other: that a wait on a dead task is ended rests on the waiter being listed, and
that a woken task is not lost rests on the counts of `exit_task`'s pushes.  There
is one lemma per action; `exit_task` has its own, used by all five ways of dying
that the model has.

**Ready queue and supervision** (the last part of `IpcProofs`, and
`IpcSupervisionProofs`).  Three properties of `Ipc` hold only where cells leave out
some calls, and the hypothesis of each theorem says which.  Each needs the invariant
of the one before.

* `QueuedOnce`: `Spec => []ReadyExact` under `Blocking` (no Reply, SendGather or
  RecvScatter).  `Exact` counts, besides the entries of a task in the ready queue,
  its entries on the lists of waiters: a task is on one list, once, exactly while it
  waits.  Without it a death could push a waiter that does not wait any more.
* `DeathsAccountedFor`: `[]DeathsConserved` under `Plain` (also no RecvTimeout, which
  leaves a stashed reason behind).  `Framed` says what a task that is inside a
  handler was left with: a reason is stashed exactly while a receiver that was woken
  by a death has not run yet, and `current_caller` still names that dead task.
  `Conserved` is the account itself, kept also for ids that are not given out yet,
  and `Listed` says that nobody watches the dead.  `exit_task` moves an amount from
  the subscriptions to the queue and the stash (`ExitCounts`), with the counting
  lemmas of `IpcProofs` (`NoticesAppend`, `NoticesTail`, `NoticesConcat`).
* `RecvReturnsWhatItNames`: `[]PayloadMatches` under `Static` (also no Spawn): a Recv
  returns 0 only with a message of the kernel or of a sender that has died.
  `Named` adds that a queued notification names a dead task.  Spawn has to be left
  out: NotifyOnExit of an id that is not given out yet queues a death at once, and
  the id may belong to a living task before Recv reports it.

**FrameAlloc** (`FrameAllocProofs`): `TypeCorrect`, `FramesStayExclusive` and
`SearchIsComplete`, for any number of contexts, frames, sizes and any chunk.
`NoRunMissed` is not inductive.  `CallInv` adds what keeps the search from passing
over a run: it never moves beyond the start of one that has been free all along
(`\A a \in stable[c] : candidate[c] <= a`), a run in `stable` is free now, and the
frames tested so far do not exceed what is wanted.  The exclusiveness of the run
that `Commit` marks rests on its second look at every frame and not on what
`Probe` saw.

**Supervisor** (`SupervisorProofs`): `NoDeathMissed`, `NeverTwoInstances` and
`RestartIntensity`, for any number of services, any policies, limits and window
length.  `Watch` is the heart of it: the death of every task in init's table is
subscribed to, queued, being handled, or still to be asked for.  `Identity` says
whose task is whose, `Registered` that only the service init is working on can be
missing from the registry.  `RestartIntensity` is what the fixed windows do give,
where `RestartsWithinLimit` fails: twice the limit in every interval of a window's
length.  `Spread` relates the restarts to the fixed windows: at most the limit in the
current one and in the time of one window before it, from which it follows by
counting.

**HotSwap** (`HotSwapProofs`): `OnlyItsChildWakesIt`, `NobodyLeftBlocked`,
`OneCellIsLeft`, `AcceptedAreKept` and `AppliedInOrder`, for any clients, requests and
depth of the queue.  `Phases` says what each task can be doing in each phase, `Alive`
that no cell ends unless it is killed or replaced, `Waiting` whom a blocked task
waits for and where its cell goes on, `Buffers` that what a cell's buffer still holds
after its handler ran has been applied, and `Order` that a request on its way, in a
blocked sender, a buffer or at the head of the queue, is later than what its client
has had applied.  `OnlyItsChildWakesIt` says how the two cells can come to run side
by side: the child for which the old one waited when it was frozen has ended.

**CellResources** (`CellResourcesProofs`): `TypeCorrect`, `PagesAreBacked`,
`TablesNameTheLiving`, `DeadLeaveOnlyResidue`, and the action properties
`ReapedTasksNamedNowhere` and `DeathsTakeNoWindow`, for any number of tasks, frames,
windows and capabilities and any manifests.  The five ways of dying clean different
tables at different times.  The proof goes through what they share (`Dying`), which
leaves open whose entries are cleaned up to the conditions that every path meets;
the invariant is shown once for `Dying` and each path is shown to be a case of it.
Windows are claimed by task id and released by CellId: that this releases them
rests on `CellIds`, by which a task that may claim has its own id as CellId.

**NetWaker** (`NetWakerProofs`): `NoWakeupIsLost`, for any time-outs, any ring and any
round that can empty it.  The property speaks of the parked net cell only; `Guard`
says what a frame in the ring comes with at each point of the loop.  In a round, the
frames taken and those in the ring are together no more than the ring holds, unless
one has arrived since the round began, and then its interrupt or the flag is still
there.

### Only model-checked

* All liveness properties (`TimedRecvEnds`, `HangIsEnded`, `ProviderReturns`,
  `StaleCacheDropped`, `ReadyRuns`, `WaitEndsInTime`, `SendEnds`, `SearchEnds`):
  liveness under fairness is beyond the prover.
* `LoopFindsFirst`, which would need an induction over a recursive function.
* The safety properties of `Harts` (`ResumesOwnStack`, `NoFreedStack`, `NoReadyLost`,
  `RealTimeNotStolen`).  Its queues are filtered by priority and by membership, and
  what a filter returns can only be shown by induction over the queue.

## 5. Where a comment and the code disagree

**Kept as runs.**

* `hotswap_message_lost`: `docs/hotswap-guide.md:17` says "No messages are lost during
  the swap".  The drain of step 5 drops every message for which the new cell is not
  in Recv, that is all but the first, and senders blocked on the old cell are told
  success by its exit.
* `restart_window`: `init/src/main.rs:31` says "at most this many restarts of ONE
  service within `RESTART_WINDOW_TICKS`", and `main.rs:222` "sliding window".  The
  windows are fixed: restarts late in one and early in the next are counted apart, so
  that a span of that length sees up to twice the limit, and not more
  (`RestartIntensity`).

**Shown by TLC with a property that is not kept as a run.**  Each of these was
written as a property of its model and TLC found the behaviour; the models
contain it, and the kept properties are stated so that they allow it.

* *Recv* (`syscall.rs:844`, "return who sent the message"): a Recv ended by a
  message returns 0 when the sender exits before the receiver runs, because
  `exit_task` clears `current_caller`.  `PayloadMatches` allows exactly this.
* *Send to a task that dies* (`scheduler.rs:372`, "error return: target gone"): a
  blocked Send whose target dies returns success; the error is written to a trap
  frame that the resumed handler overwrites.
* *RecvTimeout* (`scheduler.rs:524`, "returns Ok(0) on timeout"): a call that
  expired returns the last caller.  One that was ended by a death leaves the exit
  reason behind, and the next Recv reports a message as a death (`tcb.rs:182`,
  "`None` = the wake was a real message").
* *Reply after a death notification* queues the dead task's id (`task.rs:1077`;
  `scheduler.rs:309` says exit "purge[s] ready queues").
* *BOOT_CONTEXT* (`scheduler.rs:768`, "BOOT_CONTEXT is valid here"): ending the
  running task from the heartbeat sweep clears the current id, and the next switch
  saves the dead task's context as the boot context.  The watchdog, which ends the
  running task further down, keeps the id and does not.
* *alloc_cell_va* (`va_alloc.rs:54`, "Returns `None` when all slots are exhausted"):
  a slot freed behind the scan and one taken ahead of it make a call see an empty
  bitmap although a slot was free at every instant.
* *Service registry* (`service_registry.rs:62`, "a client never resolves a service
  to a dead provider"): a service that dies between spawn and registration is
  registered dead until init has registered another, or for good if init gives up.
* *Transient policy* (`init/src/main.rs:95`, "restart on crash"): a crash before
  init subscribes is reported with reason 0 and taken for a clean exit.
* *Reconnecting clients* (`syscall.rs:1372`, "a client reconnects transparently"):
  a client whose request dies with the service waits in Recv for ever.
  `StaleCacheDropped` is about a client that is not inside such a call.
* *Hot swap, time-out* (`hotswap.rs:308`, "did not serialize / new cell did not signal
  ready within `HOTSWAP_TIMEOUT_TICKS`"): the orchestrator is itself in Sending while
  it polls, so that it looks at the clock only when the cell has taken its event.  A
  cell that waits for its child, or for a client to read its answer, keeps it there
  past any time-out.  So would clients with lower ids that never pause (Recv takes
  the blocked sender with the lowest); the bound on requests excludes them here.
* *Hot swap, two instances* (`hotswap.rs:315`, "rather than running two potentially
  inconsistent instances simultaneously"): an old cell that was frozen while it waited
  for a child is made Ready by the child's end (`scheduler.rs:387`) and runs beside the
  new one.  Theorem `OnlyItsChildWakesIt`: in no other way within the swap.
* *Hot swap, registry* (`hotswap.rs:17`, "re-registers the service entry for the new
  cell tid"): no step does, and after a roll-back the old cell is not registered
  again either.
* *Hot swap, state.*  Requests that the old cell handles between its snapshot and the
  hard freeze are missing from the new cell (`hotswap.rs:364`; the guide says the
  session "continues from where it was").  After a roll-back the old cell's Recv
  returns without a message and the last one is handled again (`hotswap.rs:145`,
  "resumes from where it left off").  A swap whose old cell does not serialize in time
  goes on without its state (`hotswap.rs:10`, "On timeout the swap aborts").  The
  heartbeat sweep ends a Frozen cell (`tcb.rs:83`).
* *Harts.*  Without masked interrupts (`Cli = FALSE`, RISC-V) a timer interrupt
  between the pick and the switch of the idle loop saves the idle stack into a
  task's context (`task.rs:276`).  With two harts, every trap of the first runs on
  the data of the second after `install` (`hart_local.rs:3`), and a dead task is
  reaped while the other hart is still on its stack (`scheduler.rs:440`).  On one hart
  with masked interrupts the same happens by the heartbeat sweep: it ends the running
  task and clears the current id, so that the zombie counts as reapable ("only if NO
  hart is currently context-switching through its saved Context") while the hart is
  on its stack.  `NoFreedStack` excepts this case (`hungup`) and no other.
* *Waker* (`waker.rs:4`, "checks all `WaitEvent` tasks each tick and wakes those
  whose mask matches"): of two waiters one is woken.  The software interrupt of a
  frame counts as a tick (`trap.rs:78`), so deadlines come early under load.

**In the model of `cell_resources`.**

* Exit, ForceExit and the hot swap do not reap VMs (`hypervisor/registry.rs:413`,
  "Called alongside `reap_grants_for_task` on task exit, fault, and watchdog kill"),
  and faults and the heartbeat sweep do not revoke file capabilities
  (`cap_registry.rs:182`).  Theorem `DeadLeaveOnlyResidue`: nothing else of the two
  is left behind.
* A claim of length 0 overlaps nothing and replaces the entry at its base, so that
  the owner of a window loses it without releasing it (`resource_registry.rs:10`,
  `:109`).  `DeathsKeepClaims` is about deaths only.
* `reap_grants_for_task` returns early when no page grant table exists yet, so
  that registered grants of the dead stay; `DeathReclaims` is stated for states
  that have the table.
* A hot swap limits the new cell by the capabilities that the old one had at the
  start (`HotSwapStart`, `HotSwapSpawn`); a CapRevoke of the old cell during the
  swap does not reach the new one.  No comment speaks of it and no property does.

**Read in the source, not modelled.**

* A hot swap of a supervised service: init takes the end of the old task for a death
  and starts the service a second time, beside the new cell (`hotswap.rs:315`).
* `serialize_snapshot` computes the checksum over the frames, and `try_restore` over
  the header and the frames (`snapshot.rs:70`, "CRC32 of (header with this field = 0)
  + all frame data").  The two differ, so that a warm boot is refused and the
  snapshot invalidated.  Behind that test, only allocated frames are written but
  they are read back to consecutive addresses.

## 6. Mutants

Every property of a passing run has a mutated definition in the module
(`...Unchecked`, `...ByStore`, `No...`), the way a plausible bug would change the
code; with it, TLC finds the property violated.  The mutations are not part of
the specifications.

## 7. What is not modelled, and why

* Paging, the heap, ELF parsing and relocation are encodings of data; with the heap
  go the byte counters of the quotas.
* Drivers, boot and the hardware layer are register-level I/O or sequential
  start-up.  Logs, hashing and signatures change nothing that other parts read.
* The snapshot: nothing behind its checksum is reached (section 5).
* Fast IPC: every cell is linked with its own copy of the handler pointer, so a
  call from another cell finds no handler and there is nothing to interleave.
* Capability leases and `grant_to`, and the owners of PCI functions, have no callers.
* SpawnPinned, futures of Polling tasks, shared memory and the lending calls (Grant,
  Map); vCPUs, stage-2 tables and device emulation of the hypervisor.
* On two harts, the separate critical sections of NotifyOnExit, of spawning and of
  a capability's parked file: `Harts` shows that the harts do not stay on sound
  stacks long enough for a statement about them to mean something.
* The service cells, applications and libraries are programs on top of the kernel;
  to `Ipc` they are cells that may make any allowed call at any time.  Whether the
  services can deadlock by calling each other is a property of those programs.
