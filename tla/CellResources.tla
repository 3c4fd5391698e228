--------------------------- MODULE CellResources ---------------------------
(***************************************************************************)
(* What a cell holds in the kernel's tables, and what each way of dying    *)
(* gives back: file capabilities (cell/cap_registry.rs), page grants and   *)
(* registered grants (task/syscall.rs), device windows                     *)
(* (resource_registry.rs), the quota entry (memory/cell_quota.rs) and the  *)
(* virtual machines (hypervisor/registry.rs).                              *)
(*                                                                         *)
(* One hart: a handler runs to its end, so each action is a whole system   *)
(* call, fault or yield.  A task killed by the sweep of pick_next keeps    *)
(* its grants and VMs until the next yield_cpu, which drains               *)
(* pending_grant_reap.  Grants, VMs and claims are keyed by task id, the   *)
(* rest by CellId, which is the task id only for a cell that was spawned   *)
(* from a path (and for init).  A grant is one page; FrameAlloc has the    *)
(* search for several.  The network capability is left out: it guards      *)
(* what "system" guards here.                                              *)
(***************************************************************************)
EXTENDS Integers, FiniteSets, Functions

CONSTANTS
    MaxTask,    \* bound: task ids, given out in order from 1 (init)
    Frames,     \* physical frames left for grants
    Windows,    \* device windows in ALLOWED
    MaxCap,     \* bound: capabilities opened
    Users,      \* bound: the tasks that take resources
    Manifests,  \* what a path-spawned cell may ask for
    Masks       \* what CapRevoke may be asked to take away

Tasks == 1 .. MaxTask
Kinds == {"spawn", "system", "mmio", "hypervisor"}

ASSUME ManifestAssumption == Manifests \cup Masks \subseteq SUBSET Kinds
ASSUME BoundAssumption == MaxTask \in Nat \ {0} /\ MaxCap \in Nat /\ Users \subseteq Tasks

VARIABLES
    next_task_id,
    live,       \* sched.tasks
    frozen,     \* live tasks in Frozen
    cell,       \* cell_id of a task; 0 is the kernel's
    held,       \* the capability fields of a task
    swap,       \* for a task inside HotSwap: the old task, the new one (0: none
                \* yet) and the capabilities the old one had at the start
    pending,    \* pending_grant_reap
    r,          \* the tables
    how         \* history: the way a task died

vars == <<next_task_id, live, frozen, cell, held, swap, pending, r, how>>

Grants == [owner : Tasks, shared_to : Tasks \cup {0}]

\* the base of a window, and the length claimed: 0, or 1 for the whole window
Claims == Windows \X {0, 1}

Tables(f, S, T) == DOMAIN f \subseteq S /\ \A x \in DOMAIN f : f[x] \in T
Dead == {t \in Tasks : t < next_task_id /\ t \notin live}

TypeOK ==
    /\ next_task_id \in 1 .. MaxTask + 1
    /\ live \subseteq 1 .. next_task_id - 1 /\ frozen \subseteq live /\ pending \subseteq Dead
    /\ cell \in [Tasks -> Tasks \cup {0}]
    /\ held \in [Tasks -> SUBSET Kinds]
    /\ Tables(swap, live, [old : Tasks, new : Tasks \cup {0}, ceiling : SUBSET Kinds])
    /\ Tables(r.caps, 1 .. r.next_id - 1, Tasks \cup {0}) /\ r.next_id \in 1 .. MaxCap + 1
    /\ r.page_table \in BOOLEAN
    /\ Tables(r.page, Frames, Grants) /\ Tables(r.reg, Frames, Grants)
    /\ r.used \subseteq Frames
    /\ Tables(r.mmio, Claims, Tasks)
    /\ r.quota \subseteq Tasks /\ r.vms \subseteq Tasks
    /\ how \in [Tasks -> {"none", "exit", "force", "fault", "hang", "swap"}]

NoEntries == [x \in {} |-> 0]

\* init has been spawned, with every capability and with CellId(1).
Init ==
    /\ next_task_id = 2
    /\ live = {1} /\ frozen = {} /\ pending = {}
    /\ cell = [t \in Tasks |-> IF t = 1 THEN 1 ELSE 0]
    /\ held = [t \in Tasks |-> IF t = 1 THEN Kinds ELSE {}]
    /\ swap = NoEntries
    /\ r = [caps |-> NoEntries, next_id |-> 1, page_table |-> FALSE, page |-> NoEntries,
            reg |-> NoEntries, used |-> {}, mmio |-> NoEntries, quota |-> {}, vms |-> {}]
    /\ how = [t \in Tasks |-> "none"]

-----------------------------------------------------------------------------
\* Tables as partial functions

Keep(f, P(_)) == Restrict(f, {x \in DOMAIN f : P(f[x])})
Put(f, x, v) == [y \in DOMAIN f \cup {x} |-> IF y = x THEN v ELSE f[y]]
Drop(f, x) == Restrict(f, DOMAIN f \ {x})

\* the tasks that can be in a system call: not Frozen, not inside HotSwap
Callers == live \ (frozen \cup DOMAIN swap)

-----------------------------------------------------------------------------
\* The cleanups: the tables s after what the tasks T or the cells C held is gone

revoke_all_for(s, C) == [s EXCEPT !.caps = Keep(@, LAMBDA o : o \notin C)]
deregister(s, C) == [s EXCEPT !.quota = @ \ C]

\* Mutation of release_for: a claim by anyone but a CellId of C is dropped.
release_forOthers(s, C) == [s EXCEPT !.mmio = Keep(@, LAMBDA o : o \in C)]

release_for(s, C) == [s EXCEPT !.mmio = Keep(@, LAMBDA o : o \notin C)]

Owned(f, T) == {g \in DOMAIN f : f[g].owner \in T}
Unshare(f, T) ==
    [g \in DOMAIN f \ Owned(f, T) |->
        IF f[g].shared_to \in T THEN [f[g] EXCEPT !.shared_to = 0] ELSE f[g]]

\* Mutation of reap_grants: the pages of registered grants are not freed.
reap_grantsPages(s, T) ==
    IF ~s.page_table THEN s
    ELSE [s EXCEPT !.page = Unshare(@, T), !.reg = Unshare(@, T),
                   !.used = @ \ Owned(s.page, T)]

\* Mutation of reap_grants: the registered grants are only taken from their owner.
reap_grantsOwned(s, T) ==
    IF ~s.page_table THEN s
    ELSE [s EXCEPT !.page = Unshare(@, T), !.reg = Restrict(@, DOMAIN @ \ Owned(@, T)),
                   !.used = @ \ (Owned(s.page, T) \cup Owned(s.reg, T))]

\* reap_grants_for_task, for each task of T.  It returns at once while there is
\* no page grant table, and then leaves the registered grants too.
reap_grants(s, T) ==
    IF ~s.page_table THEN s
    ELSE [s EXCEPT !.page = Unshare(@, T), !.reg = Unshare(@, T),
                   !.used = @ \ (Owned(s.page, T) \cup Owned(s.reg, T))]

reap_vms(s, T) == [s EXCEPT !.vms = @ \ T]

\* yield_cpu drains pending_grant_reap before it picks the next task
Drained(s) == reap_vms(reap_grants(s, pending), pending)

CellsOf(T) == {cell[t] : t \in T}

\* Mutation of Swept: the claims of a hung cell are left.
SweptNoRelease(s, K) == deregister(s, CellsOf(K))

\* the sweep of pick_next, and its watchdog, end the tasks K
Swept(s, K) == release_for(deregister(s, CellsOf(K)), CellsOf(K))

\* what Exit, ForceExit and exit_task_internal do in the same way
Cleaned(s, t) ==
    LET c == {cell[t]} IN
    reap_grants(release_for(deregister(revoke_all_for(s, c), c), c), {t})

\* the tasks D leave the task table
exit_task(D, way) ==
    /\ live' = live \ D /\ frozen' = frozen \ D
    /\ held' = [t \in Tasks |-> IF t \in D THEN {} ELSE held[t]]
    /\ how' = [t \in Tasks |-> IF t \in D THEN way[t] ELSE how[t]]

\* yield_cpu, at the end of a handler that leaves the tables s and ended D
yield_cpu(s, D, way, K) ==
    /\ r' = Swept(Drained(s), K)
    /\ pending' = K
    /\ exit_task(D \cup K, [t \in D \cup K |-> IF t \in D THEN way ELSE "hang"])
    /\ swap' = Restrict(swap, DOMAIN swap \ (D \cup K))

-----------------------------------------------------------------------------
\* System calls that take and give back

tasks == <<next_task_id, live, frozen, cell, held, swap, pending, how>>

OpenCap(t) ==
    /\ r.next_id <= MaxCap
    /\ r' = [r EXCEPT !.caps = Put(@, r.next_id, cell[t]), !.next_id = @ + 1]
    /\ UNCHANGED tasks

CloseCap(t, id) ==
    /\ id \in DOMAIN r.caps /\ r.caps[id] = cell[t]
    /\ r' = [r EXCEPT !.caps = Drop(@, id)]
    /\ UNCHANGED tasks

NewGrant(t) == [owner |-> t, shared_to |-> 0]

GrantAlloc(t, f) ==
    /\ f \notin r.used
    /\ r' = [r EXCEPT !.used = @ \cup {f}, !.page_table = TRUE, !.page = Put(@, f, NewGrant(t))]
    /\ UNCHANGED tasks

GrantRegister(t, f) ==
    /\ f \notin r.used
    /\ r' = [r EXCEPT !.used = @ \cup {f}, !.reg = Put(@, f, NewGrant(t))]
    /\ UNCHANGED tasks

Shared(f, t, g, u) ==
    IF g \in Owned(f, {t}) THEN [f EXCEPT ![g].shared_to = u] ELSE f

\* the call makes the page grant table if there is none, also when it fails,
\* and does not ask whether the target is alive
GrantShare(t, g, u) ==
    /\ r' = [r EXCEPT !.page_table = TRUE, !.page = Shared(@, t, g, u),
                      !.reg = IF g \in DOMAIN r.page THEN @ ELSE Shared(@, t, g, u)]
    /\ UNCHANGED tasks

GrantFree(t, g) ==
    /\ g \in Owned(r.page, {t})
    /\ r' = [r EXCEPT !.page = Drop(@, g), !.used = @ \ {g}]
    /\ UNCHANGED tasks

GrantUnregister(t, g) ==
    /\ g \in Owned(r.reg, {t})
    /\ r' = [r EXCEPT !.reg = Drop(@, g), !.used = @ \ {g}]
    /\ UNCHANGED tasks

\* Two ranges of which one is empty never overlap, and the registry is keyed by
\* base: an empty claim replaces the entry of its window, whoever owns it, and
\* an empty entry gives way to any claim.
request_mmio(t, w, n) ==
    /\ "mmio" \in held[t]
    /\ n = 0 \/ <<w, 1>> \notin DOMAIN r.mmio
    /\ r' = [r EXCEPT !.mmio = Put(Drop(@, <<w, 1 - n>>), <<w, n>>, t)]
    /\ UNCHANGED tasks

create_vm(t) ==
    /\ "hypervisor" \in held[t]
    /\ r' = [r EXCEPT !.vms = @ \cup {t}]
    /\ UNCHANGED tasks

CapRevoke(t, u, m) ==
    /\ u # t /\ u \in live
    /\ "spawn" \in held[t] /\ "system" \notin held[u]
    /\ held' = [held EXCEPT ![u] = @ \ m]
    /\ UNCHANGED <<next_task_id, live, frozen, cell, swap, pending, r, how>>

-----------------------------------------------------------------------------
\* Birth and death

\* the next task, with the CellId c and the capabilities C
Spawned(c, C) ==
    /\ next_task_id \in Tasks
    /\ next_task_id' = next_task_id + 1
    /\ live' = live \cup {next_task_id}
    /\ cell' = [cell EXCEPT ![next_task_id] = c]
    /\ held' = [held EXCEPT ![next_task_id] = C]

\* loader: the cell has a CellId of its own and a quota
spawn_from_path(C) ==
    /\ Spawned(next_task_id, C)
    /\ r' = [r EXCEPT !.quota = @ \cup {next_task_id}]

SpawnFromPath(t, m) ==
    /\ "spawn" \in held[t]
    /\ spawn_from_path(m \cap held[t])
    /\ UNCHANGED <<frozen, swap, pending, how>>

SpawnFromMem ==
    /\ Spawned(0, {})
    /\ UNCHANGED <<frozen, swap, pending, r, how>>

Exit(t, K) ==
    /\ K \subseteq live \ {t}
    /\ yield_cpu(Cleaned(r, t), {t}, "exit", K)
    /\ UNCHANGED <<next_task_id, cell>>

ForceExit(t, u) ==
    /\ u # t /\ u \in live
    /\ "spawn" \in held[t]
    /\ "system" \notin held[u] /\ u \notin frozen
    /\ exit_task({u}, [x \in {u} |-> "force"])
    /\ r' = Cleaned(r, u)
    /\ swap' = Restrict(swap, DOMAIN swap \ {u})
    /\ UNCHANGED <<next_task_id, cell, pending>>

\* terminate_current_cell_on_fault
Fault(t, K) ==
    /\ K \subseteq live \ {t}
    /\ LET c == {cell[t]} IN
       yield_cpu(reap_vms(reap_grants(release_for(deregister(r, c), c), {t}), {t}),
                 {t}, "fault", K)
    /\ UNCHANGED <<next_task_id, cell>>

\* the timer, or a task that yields; K missed a deadline or held the hart too long
Tick(K) ==
    /\ K \subseteq live /\ K \cup pending # {}
    /\ yield_cpu(r, {}, "none", K)
    /\ UNCHANGED <<next_task_id, cell>>

-----------------------------------------------------------------------------
\* hotswap, from one yield of the orchestrator o to its next

HotSwapStart(o, u) ==
    /\ "spawn" \in held[o]
    /\ u \in live \ {o} /\ \A v \in live : cell[v] = cell[u] => v >= u
    /\ swap' = Put(swap, o, [old |-> u, new |-> 0, ceiling |-> held[u]])
    /\ UNCHANGED <<next_task_id, live, frozen, cell, held, pending, r, how>>

HotSwapSpawn(o, m) ==
    /\ swap[o].new = 0
    /\ frozen' = frozen \cup ({swap[o].old} \cap live)
    /\ spawn_from_path(m \cap swap[o].ceiling)
    /\ swap' = [swap EXCEPT ![o].new = next_task_id]
    /\ UNCHANGED <<pending, how>>

\* the spawn failed
HotSwapRollback(o) ==
    /\ swap[o].new = 0
    /\ frozen' = frozen \ {swap[o].old}
    /\ swap' = Drop(swap, o)
    /\ UNCHANGED <<next_task_id, live, cell, held, pending, r, how>>

\* the new cell is not ready in time; the old one stays Frozen
HotSwapAbandon(o) ==
    /\ swap[o].new # 0
    /\ swap' = Drop(swap, o)
    /\ UNCHANGED <<next_task_id, live, frozen, cell, held, pending, r, how>>

\* exit_task_internal, also when the old task has died meanwhile
HotSwapFinish(o) ==
    LET u == swap[o].old IN
    /\ swap[o].new # 0
    /\ r' = Cleaned(r, u)
    /\ exit_task({u} \cap live, [t \in {u} |-> "swap"])
    /\ swap' = Restrict(swap, DOMAIN swap \ {o, u})
    /\ UNCHANGED <<next_task_id, cell, pending>>

Use(t) ==
    \/ OpenCap(t) \/ create_vm(t)
    \/ \E id \in DOMAIN r.caps : CloseCap(t, id)
    \/ \E f \in Frames : GrantAlloc(t, f) \/ GrantRegister(t, f)
    \/ \E g \in r.used, u \in Tasks : GrantShare(t, g, u)
    \/ \E g \in r.used : GrantFree(t, g) \/ GrantUnregister(t, g)
    \/ \E w \in Windows, n \in {0, 1} : request_mmio(t, w, n)

Manage(t) ==
    \/ SpawnFromMem
    \/ \E u \in live, m \in Masks : CapRevoke(t, u, m)
    \/ \E m \in Manifests : SpawnFromPath(t, m)
    \/ \E u \in live : ForceExit(t, u) \/ HotSwapStart(t, u)
    \/ \E K \in SUBSET live : Exit(t, K)

Next ==
    \/ \E t \in Callers \cap Users : Use(t)
    \/ \E t \in Callers : Manage(t)
    \/ \E t \in live \ frozen, K \in SUBSET live : Fault(t, K)
    \/ \E K \in SUBSET live : Tick(K)
    \/ \E o \in DOMAIN swap \ frozen :
          \/ \E m \in Manifests : HotSwapSpawn(o, m)
          \/ HotSwapRollback(o) \/ HotSwapAbandon(o) \/ HotSwapFinish(o)

Spec == Init /\ [][Next]_vars

-----------------------------------------------------------------------------
\* Properties

(* Every frame taken for grants backs exactly one grant, of either table:
   no call and no death frees a page that is still granted, or forgets one
   (GrantFree, GrantUnregister and free_grant_pages in reap_grants_for_task). *)
FramesBacked ==
    /\ r.used = DOMAIN r.page \cup DOMAIN r.reg
    /\ DOMAIN r.page \cap DOMAIN r.reg = {}

(* After every way of dying, the device windows and the quota entries belong
   to tasks that live, and the page grants to tasks that live or that the next
   yield_cpu reaps, although the windows are claimed under the task id and
   released under the CellId. *)
HeldByLiving ==
    /\ \A w \in DOMAIN r.mmio : r.mmio[w] \in live
    /\ r.quota = {t \in live : t # 1 /\ cell[t] = t}
    /\ \A g \in DOMAIN r.page : r.page[g].owner \in live \cup pending

Gone(t) == t \in Dead /\ t \notin pending

(* Once a page grant table exists, the step that reaps a dead task leaves no
   entry, page grant or registered grant, that names it as owner or grantee. *)
DeathReclaims ==
    [][r.page_table =>
          \A t \in Tasks : ~Gone(t) /\ Gone(t)' =>
              \A f \in {r.page, r.reg}' : \A g \in DOMAIN f :
                  f[g].owner # t /\ f[g].shared_to # t]_vars

(* No death, and no end of a swap, takes a device window from a task that lives
   on: windows are claimed under the task id and released under the CellId of
   the dying task, which for cells loaded from memory is 0, and
   exit_task_internal releases again for an old task that died before. *)
DeathsKeepClaims ==
    [][tasks' # tasks =>
          \A w \in DOMAIN r.mmio :
              r.mmio[w] \in live' => w \in DOMAIN r.mmio' /\ r.mmio'[w] = r.mmio[w]]_vars

=============================================================================
