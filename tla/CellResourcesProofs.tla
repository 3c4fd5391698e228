------------------------ MODULE CellResourcesProofs ------------------------
(***************************************************************************)
(* Proofs about CellResources, for every number of tasks, frames, windows, *)
(* capabilities, and for every choice of manifests and masks.              *)
(*                                                                         *)
(* The five ways of dying differ in what they clean and when.  The proof   *)
(* goes through what they have in common (Dying): which cells, tasks and   *)
(* VMs are cleaned is left open, up to the conditions that each path       *)
(* meets.  An invariant is then shown once for Dying, and each path is     *)
(* shown to be a case of it.                                               *)
(***************************************************************************)
EXTENDS CellResources, TLAPS

-----------------------------------------------------------------------------
\* The tables after a cleanup

Fields == {"caps", "next_id", "page_table", "page", "reg", "used", "mmio", "quota", "vms"}

IsTables(s) == s = [x \in Fields |-> s[x]]

\* x is the table f without the entries that belong to O
Without(f, x, O) ==
    /\ DOMAIN x = {e \in DOMAIN f : f[e] \notin O}
    /\ \A e \in DOMAIN x : x[e] = f[e]

\* x is the grant table f without the grants of T, and none is shared with T
Reaped(f, x, T) ==
    /\ DOMAIN x = {g \in DOMAIN f : f[g].owner \notin T}
    /\ \A g \in DOMAIN x :
          /\ x[g] \in Grants
          /\ x[g].owner = f[g].owner
          /\ x[g].shared_to \in {f[g].shared_to, 0} \ T

\* x is the tables s without the capabilities of the cells C, the quotas and
\* windows of the cells Q, the grants of the tasks T and the VMs of the tasks V
Reclaimed(s, x, C, Q, T, V) ==
    /\ IsTables(x)
    /\ x.next_id = s.next_id /\ x.page_table = s.page_table
    /\ Without(s.caps, x.caps, C)
    /\ x.quota = s.quota \ Q
    /\ Without(s.mmio, x.mmio, Q)
    /\ s.page_table => Reaped(s.page, x.page, T) /\ Reaped(s.reg, x.reg, T)
    /\ s.page_table => x.used = s.used \ (Owned(s.page, T) \cup Owned(s.reg, T))
    /\ ~s.page_table => x.page = s.page /\ x.reg = s.reg /\ x.used = s.used
    /\ x.vms = s.vms \ V

GrantTables(s) == Tables(s.page, Frames, Grants) /\ Tables(s.reg, Frames, Grants)

\* a leaf that names no prover is Zenon's
USE ZenonT(30)

LEMMA UnshareReaps ==
    ASSUME NEW f, NEW T \in SUBSET Tasks, Tables(f, Frames, Grants)
    PROVE  Reaped(f, Unshare(f, T), T)
  <1> DEFINE x == Unshare(f, T)
  <1>1. DOMAIN x = {g \in DOMAIN f : f[g].owner \notin T}
    BY DEF Unshare, Owned
  <1>2. ASSUME NEW g \in DOMAIN x
        PROVE  x[g] \in Grants /\ x[g].owner = f[g].owner
               /\ x[g].shared_to \in {f[g].shared_to, 0} \ T
    <2>1. g \in DOMAIN f /\ f[g] \in Grants
      BY <1>1 DEF Tables
    <2>2. x[g] = IF f[g].shared_to \in T THEN [f[g] EXCEPT !.shared_to = 0] ELSE f[g]
      BY <1>1 DEF Unshare, Owned
    <2>3. 0 \notin T
      BY BoundAssumption, SMT DEF Tasks
    <2>4. QED
      BY <2>1, <2>2, <2>3 DEF Grants
  <1>3. QED
    BY <1>1, <1>2 DEF Reaped

LEMMA RevokeFields ==
    ASSUME NEW s, IsTables(s), NEW C
    PROVE  LET x == revoke_all_for(s, C) IN
           /\ IsTables(x)
           /\ Without(s.caps, x.caps, C)
           /\ \A n \in Fields \ {"caps"} : x[n] = s[n]
  BY DEF revoke_all_for, IsTables, Fields, Keep, Restrict, Without

LEMMA DeregisterFields ==
    ASSUME NEW s, IsTables(s), NEW C
    PROVE  LET x == deregister(s, C) IN
           /\ IsTables(x)
           /\ x.quota = s.quota \ C
           /\ \A n \in Fields \ {"quota"} : x[n] = s[n]
  BY DEF deregister, IsTables, Fields

LEMMA ReleaseFields ==
    ASSUME NEW s, IsTables(s), NEW C
    PROVE  LET x == release_for(s, C) IN
           /\ IsTables(x)
           /\ Without(s.mmio, x.mmio, C)
           /\ \A n \in Fields \ {"mmio"} : x[n] = s[n]
  BY DEF release_for, IsTables, Fields, Keep, Restrict, Without

LEMMA ReapVmsFields ==
    ASSUME NEW s, IsTables(s), NEW T
    PROVE  LET x == reap_vms(s, T) IN
           /\ IsTables(x)
           /\ x.vms = s.vms \ T
           /\ \A n \in Fields \ {"vms"} : x[n] = s[n]
  BY DEF reap_vms, IsTables, Fields

LEMMA ReapGrantsFields ==
    ASSUME NEW s, IsTables(s), GrantTables(s), NEW T \in SUBSET Tasks
    PROVE  LET x == reap_grants(s, T) IN
           /\ IsTables(x)
           /\ s.page_table =>
                 /\ Reaped(s.page, x.page, T) /\ Reaped(s.reg, x.reg, T)
                 /\ x.used = s.used \ (Owned(s.page, T) \cup Owned(s.reg, T))
           /\ ~s.page_table => x = s
           /\ \A n \in Fields \ {"page", "reg", "used"} : x[n] = s[n]
  <1>1. CASE ~s.page_table
    BY <1>1 DEF reap_grants, IsTables, Fields
  <1>2. CASE s.page_table
    <2> DEFINE x == reap_grants(s, T)
    <2>1. /\ IsTables(x)
          /\ x.page = Unshare(s.page, T) /\ x.reg = Unshare(s.reg, T)
          /\ x.used = s.used \ (Owned(s.page, T) \cup Owned(s.reg, T))
          /\ \A n \in Fields \ {"page", "reg", "used"} : x[n] = s[n]
      BY <1>2 DEF reap_grants, IsTables, Fields
    <2> HIDE DEF x
    <2>2. Reaped(s.page, x.page, T) /\ Reaped(s.reg, x.reg, T)
      <3>1. Tables(s.page, Frames, Grants) /\ Tables(s.reg, Frames, Grants)
        BY DEF GrantTables
      <3>2. Reaped(s.page, Unshare(s.page, T), T)
        BY <3>1, UnshareReaps
      <3>3. Reaped(s.reg, Unshare(s.reg, T), T)
        BY <3>1, UnshareReaps
      <3>4. QED
        BY <2>1, <3>2, <3>3
    <2>3. QED
      BY <1>2, <2>1, <2>2 DEF x
  <1>3. QED
    BY <1>1, <1>2
LEMMA ReclaimedGrants ==
    ASSUME NEW s, NEW x, NEW C, NEW Q, NEW T, NEW V, s.page_table \in BOOLEAN,
           GrantTables(s), Reclaimed(s, x, C, Q, T, V)
    PROVE  GrantTables(x)
  <1>1. CASE s.page_table
    BY <1>1 DEF Reclaimed, Reaped, GrantTables, Tables
  <1>2. CASE ~s.page_table
    BY <1>2 DEF Reclaimed, GrantTables
  <1>3. QED
    BY <1>1, <1>2

LEMMA ReapedTwice ==
    ASSUME NEW f, NEW x, NEW y, NEW T \in SUBSET Tasks, NEW U \in SUBSET Tasks,
           Reaped(f, x, T), Reaped(x, y, U)
    PROVE  Reaped(f, y, T \cup U)
  <1>1. 0 \notin T
    BY BoundAssumption, SMT DEF Tasks
  <1>2. QED
    BY <1>1 DEF Reaped

LEMMA OwnedTwice ==
    ASSUME NEW f, NEW x, NEW T, NEW U, Reaped(f, x, T)
    PROVE  Owned(f, T) \cup Owned(x, U) = Owned(f, T \cup U)
  BY DEF Reaped, Owned

LEMMA WithoutTwice ==
    ASSUME NEW f, NEW x, NEW y, NEW O, NEW P, Without(f, x, O), Without(x, y, P)
    PROVE  Without(f, y, O \cup P)
  BY DEF Without

\* One cleanup after another
LEMMA ReclaimedTwice ==
    ASSUME NEW s, NEW x, NEW y, s.page_table \in BOOLEAN,
           NEW C, NEW Q, NEW T \in SUBSET Tasks, NEW V, Reclaimed(s, x, C, Q, T, V),
           NEW D, NEW R, NEW U \in SUBSET Tasks, NEW W, Reclaimed(x, y, D, R, U, W)
    PROVE  Reclaimed(s, y, C \cup D, Q \cup R, T \cup U, V \cup W)
  <1>1. /\ IsTables(y)
        /\ y.next_id = s.next_id /\ y.page_table = s.page_table /\ x.page_table = s.page_table
        /\ y.quota = s.quota \ (Q \cup R)
        /\ y.vms = s.vms \ (V \cup W)
    BY DEF Reclaimed
  <1>2. Without(s.caps, y.caps, C \cup D) /\ Without(s.mmio, y.mmio, Q \cup R)
    BY WithoutTwice DEF Reclaimed
  <1>3. CASE s.page_table
    <2>1. /\ Reaped(s.page, x.page, T) /\ Reaped(s.reg, x.reg, T)
          /\ Reaped(x.page, y.page, U) /\ Reaped(x.reg, y.reg, U)
          /\ x.used = s.used \ (Owned(s.page, T) \cup Owned(s.reg, T))
          /\ y.used = x.used \ (Owned(x.page, U) \cup Owned(x.reg, U))
      BY <1>3 DEF Reclaimed
    <2>2. Reaped(s.page, y.page, T \cup U) /\ Reaped(s.reg, y.reg, T \cup U)
      BY <2>1, ReapedTwice
    <2>3. /\ Owned(s.page, T) \cup Owned(x.page, U) = Owned(s.page, T \cup U)
          /\ Owned(s.reg, T) \cup Owned(x.reg, U) = Owned(s.reg, T \cup U)
      BY <2>1, OwnedTwice, SMT
    <2>4. y.used = s.used \ (Owned(s.page, T \cup U) \cup Owned(s.reg, T \cup U))
      <3>1. y.used = s.used \ ((Owned(s.page, T) \cup Owned(x.page, U))
                                  \cup (Owned(s.reg, T) \cup Owned(x.reg, U)))
        BY <2>1
      <3>2. QED
        BY <2>3, <3>1
    <2>5. QED
      BY <1>1, <1>2, <1>3, <2>2, <2>4 DEF Reclaimed
  <1>4. CASE ~s.page_table
    BY <1>1, <1>2, <1>4 DEF Reclaimed
  <1>5. QED
    BY <1>3, <1>4

LEMMA ReapedNone ==
    ASSUME NEW f, Tables(f, Frames, Grants)
    PROVE  Reaped(f, f, {}) /\ Owned(f, {}) = {}
  BY DEF Reaped, Owned, Tables

-----------------------------------------------------------------------------
\* What each cleanup of the code reclaims

LEMMA CleanedReclaims ==
    ASSUME NEW s, IsTables(s), GrantTables(s), s.page_table \in BOOLEAN, NEW t \in Tasks
    PROVE  Reclaimed(s, Cleaned(s, t), {cell[t]}, {cell[t]}, {t}, {})
  <1> DEFINE c == {cell[t]}
             a == revoke_all_for(s, c)
             b == deregister(a, c)
             d == release_for(b, c)
             x == reap_grants(d, {t})
  <1>1. /\ IsTables(a) /\ Without(s.caps, a.caps, c)
        /\ \A n \in Fields \ {"caps"} : a[n] = s[n]
    BY RevokeFields
  <1> HIDE DEF a
  <1>2. /\ IsTables(b) /\ b.quota = a.quota \ c
        /\ \A n \in Fields \ {"quota"} : b[n] = a[n]
    BY <1>1, DeregisterFields, SMT
  <1> HIDE DEF b
  <1>3. /\ IsTables(d) /\ Without(b.mmio, d.mmio, c)
        /\ \A n \in Fields \ {"mmio"} : d[n] = b[n]
    BY <1>2, ReleaseFields
  <1> HIDE DEF d
  <1>4. /\ d.page = s.page /\ d.reg = s.reg /\ d.used = s.used /\ d.vms = s.vms
        /\ d.page_table = s.page_table /\ d.next_id = s.next_id
        /\ Without(s.caps, d.caps, c) /\ d.quota = s.quota \ c /\ Without(s.mmio, d.mmio, c)
    BY <1>1, <1>2, <1>3 DEF Fields
  <1>5. /\ IsTables(x)
        /\ d.page_table =>
              /\ Reaped(d.page, x.page, {t}) /\ Reaped(d.reg, x.reg, {t})
              /\ x.used = d.used \ (Owned(d.page, {t}) \cup Owned(d.reg, {t}))
        /\ ~d.page_table => x = d
        /\ \A n \in Fields \ {"page", "reg", "used"} : x[n] = d[n]
    BY <1>3, <1>4, ReapGrantsFields DEF GrantTables
  <1> HIDE DEF x
  <1>6. /\ x.next_id = d.next_id /\ x.page_table = d.page_table /\ x.caps = d.caps
        /\ x.quota = d.quota /\ x.mmio = d.mmio /\ x.vms = d.vms
    BY <1>5 DEF Fields
  <1>7. Reclaimed(s, x, c, c, {t}, {})
    BY <1>4, <1>5, <1>6 DEF Reclaimed
  <1>8. QED
    BY <1>7 DEF Cleaned, a, b, d, x
LEMMA FaultReclaims ==
    ASSUME NEW s, IsTables(s), GrantTables(s), s.page_table \in BOOLEAN, NEW t \in Tasks,
           NEW c
    PROVE  Reclaimed(s, reap_vms(reap_grants(release_for(deregister(s, c), c), {t}), {t}),
                     {}, c, {t}, {t})
  <1> DEFINE b == deregister(s, c)
             d == release_for(b, c)
             e == reap_grants(d, {t})
             x == reap_vms(e, {t})
  <1>1. /\ IsTables(b) /\ b.quota = s.quota \ c
        /\ \A n \in Fields \ {"quota"} : b[n] = s[n]
    BY DeregisterFields, SMT
  <1> HIDE DEF b
  <1>2. /\ IsTables(d) /\ Without(b.mmio, d.mmio, c)
        /\ \A n \in Fields \ {"mmio"} : d[n] = b[n]
    BY <1>1, ReleaseFields
  <1> HIDE DEF d
  <1>3. /\ d.page = s.page /\ d.reg = s.reg /\ d.used = s.used /\ d.vms = s.vms
        /\ d.page_table = s.page_table /\ d.next_id = s.next_id
        /\ d.caps = s.caps /\ d.quota = s.quota \ c /\ Without(s.mmio, d.mmio, c)
    BY <1>1, <1>2 DEF Fields
  <1>4. /\ IsTables(e)
        /\ d.page_table =>
              /\ Reaped(d.page, e.page, {t}) /\ Reaped(d.reg, e.reg, {t})
              /\ e.used = d.used \ (Owned(d.page, {t}) \cup Owned(d.reg, {t}))
        /\ ~d.page_table => e = d
        /\ \A n \in Fields \ {"page", "reg", "used"} : e[n] = d[n]
    BY <1>2, <1>3, ReapGrantsFields DEF GrantTables
  <1> HIDE DEF e
  <1>5. /\ IsTables(x) /\ x.vms = e.vms \ {t}
        /\ \A n \in Fields \ {"vms"} : x[n] = e[n]
    BY <1>4, ReapVmsFields, SMT
  <1> HIDE DEF x
  <1>6. /\ x.next_id = s.next_id /\ x.page_table = s.page_table /\ x.caps = s.caps
        /\ x.quota = d.quota /\ x.mmio = d.mmio /\ x.vms = s.vms \ {t}
        /\ x.page = e.page /\ x.reg = e.reg /\ x.used = e.used
    BY <1>3, <1>4, <1>5 DEF Fields
  <1>7. Without(s.caps, s.caps, {})
    BY DEF Without
  <1>8. Reclaimed(s, x, {}, c, {t}, {t})
    BY <1>3, <1>4, <1>5, <1>6, <1>7 DEF Reclaimed
  <1>9. QED
    BY <1>8 DEF b, d, e, x

LEMMA DrainedReclaims ==
    ASSUME NEW s, IsTables(s), GrantTables(s), s.page_table \in BOOLEAN, pending \subseteq Tasks
    PROVE  Reclaimed(s, Drained(s), {}, {}, pending, pending)
  <1> DEFINE e == reap_grants(s, pending)
             x == reap_vms(e, pending)
  <1>1. /\ IsTables(e)
        /\ s.page_table =>
              /\ Reaped(s.page, e.page, pending) /\ Reaped(s.reg, e.reg, pending)
              /\ e.used = s.used \ (Owned(s.page, pending) \cup Owned(s.reg, pending))
        /\ ~s.page_table => e = s
        /\ \A n \in Fields \ {"page", "reg", "used"} : e[n] = s[n]
    BY ReapGrantsFields
  <1> HIDE DEF e
  <1>2. /\ IsTables(x) /\ x.vms = e.vms \ pending
        /\ \A n \in Fields \ {"vms"} : x[n] = e[n]
    BY <1>1, ReapVmsFields, SMT
  <1> HIDE DEF x
  <1>3. /\ x.next_id = s.next_id /\ x.page_table = s.page_table /\ x.caps = s.caps
        /\ x.quota = s.quota /\ x.mmio = s.mmio /\ x.vms = s.vms \ pending
        /\ x.page = e.page /\ x.reg = e.reg /\ x.used = e.used
    BY <1>1, <1>2 DEF Fields
  <1>4. Without(s.caps, s.caps, {}) /\ Without(s.mmio, s.mmio, {})
    BY DEF Without
  <1>5. Reclaimed(s, x, {}, {}, pending, pending)
    BY <1>1, <1>2, <1>3, <1>4 DEF Reclaimed
  <1>6. QED
    BY <1>5 DEF Drained, e, x

LEMMA SweptReclaims ==
    ASSUME NEW s, IsTables(s), GrantTables(s), s.page_table \in BOOLEAN, NEW K
    PROVE  Reclaimed(s, Swept(s, K), {}, CellsOf(K), {}, {})
  <1> DEFINE c == CellsOf(K)
             b == deregister(s, c)
             x == release_for(b, c)
  <1> HIDE DEF c
  <1>1. /\ IsTables(b) /\ b.quota = s.quota \ c
        /\ \A n \in Fields \ {"quota"} : b[n] = s[n]
    BY DeregisterFields, SMT
  <1> HIDE DEF b
  <1>2. /\ IsTables(x) /\ Without(b.mmio, x.mmio, c)
        /\ \A n \in Fields \ {"mmio"} : x[n] = b[n]
    BY <1>1, ReleaseFields
  <1> HIDE DEF x
  <1>3. /\ x.next_id = s.next_id /\ x.page_table = s.page_table /\ x.caps = s.caps
        /\ x.quota = s.quota \ c /\ Without(s.mmio, x.mmio, c) /\ x.vms = s.vms
        /\ x.page = s.page /\ x.reg = s.reg /\ x.used = s.used
    BY <1>1, <1>2 DEF Fields
  <1>4. /\ Without(s.caps, s.caps, {})
        /\ Reaped(s.page, s.page, {}) /\ Reaped(s.reg, s.reg, {})
        /\ Owned(s.page, {}) = {} /\ Owned(s.reg, {}) = {}
    BY ReapedNone DEF Without, GrantTables
  <1>5. Reclaimed(s, x, {}, c, {}, {})
    BY <1>2, <1>3, <1>4 DEF Reclaimed
  <1>6. QED
    BY <1>5 DEF Swept, b, c, x

\* yield_cpu after a handler that reclaimed
LEMMA YieldReclaims ==
    ASSUME NEW s, NEW C, NEW Q, NEW T \in SUBSET Tasks, NEW V, NEW K,
           GrantTables(r), r.page_table \in BOOLEAN, pending \subseteq Tasks,
           Reclaimed(r, s, C, Q, T, V)
    PROVE  Reclaimed(r, Swept(Drained(s), K), C, Q \cup CellsOf(K), T \cup pending, V \cup pending)
  <1> DEFINE d == Drained(s)
             x == Swept(d, K)
  <1>1. GrantTables(s)
    BY ReclaimedGrants, SMT
  <1>2. IsTables(s) /\ s.page_table \in BOOLEAN
    BY DEF Reclaimed
  <1>3. Reclaimed(s, d, {}, {}, pending, pending)
    BY <1>1, <1>2, DrainedReclaims
  <1> HIDE DEF d
  <1>4. GrantTables(d)
    BY <1>1, <1>2, <1>3, ReclaimedGrants, SMT
  <1>5. IsTables(d) /\ d.page_table \in BOOLEAN
    BY <1>2, <1>3 DEF Reclaimed
  <1>6. Reclaimed(d, x, {}, CellsOf(K), {}, {})
    BY <1>4, <1>5, SweptReclaims
  <1> HIDE DEF x
  <1>7. Reclaimed(r, d, C \cup {}, Q \cup {}, T \cup pending, V \cup pending)
    BY <1>3, ReclaimedTwice, SMT
  <1>8. T \cup pending \in SUBSET Tasks /\ {} \in SUBSET Tasks
    OBVIOUS
  <1>9. Reclaimed(r, x, (C \cup {}) \cup {}, (Q \cup {}) \cup CellsOf(K),
                  (T \cup pending) \cup {}, (V \cup pending) \cup {})
    BY <1>6, <1>7, <1>8, ReclaimedTwice, SMT
  <1>10. /\ (C \cup {}) \cup {} = C /\ (Q \cup {}) \cup CellsOf(K) = Q \cup CellsOf(K)
         /\ (T \cup pending) \cup {} = T \cup pending
         /\ (V \cup pending) \cup {} = V \cup pending
    OBVIOUS
  <1>11. QED
    BY <1>9, <1>10 DEF d, x
-----------------------------------------------------------------------------
\* The inductive invariant

\* What the dead leave behind is only this: file capabilities of a cell that
\* faulted or hung (those paths do not call revoke_all_for), and VMs of a task
\* that exited, was killed by ForceExit or was swapped out (those do not call
\* reap_vms_for_task) or that is still to be reaped.
Residue ==
    /\ \A id \in DOMAIN r.caps :
          r.caps[id] \in Dead => how[r.caps[id]] \in {"fault", "hang"}
    /\ \A t \in r.vms \cap Dead : t \in pending \/ how[t] \in {"exit", "force", "swap"}

\* A task has its own CellId or the kernel's, only a task with its own holds
\* capabilities, and only such a task, or the kernel, is named by a claim or a
\* file capability: so releasing by CellId takes from nobody else.
CellIds ==
    /\ \A t \in Tasks : cell[t] \in {0, t} /\ (held[t] # {} => t \in live /\ cell[t] = t)
    /\ \A w \in DOMAIN r.mmio : cell[r.mmio[w]] = r.mmio[w]
    /\ \A id \in DOMAIN r.caps :
          r.caps[id] # 0 => r.caps[id] < next_task_id /\ cell[r.caps[id]] = r.caps[id]

\* init is never spawned again, a swap is of a task that was spawned, and
\* there is no page grant without the page grant table.
History ==
    /\ next_task_id # 1
    /\ \A o \in DOMAIN swap : swap[o].old < next_task_id
    /\ ~r.page_table => DOMAIN r.page = {}

IInv ==
    /\ TypeOK /\ IsTables(r)
    /\ CellIds /\ History
    /\ FramesBacked /\ HeldByLiving /\ Residue

\* What every way of dying has in common: the tasks D leave, among them those
\* of K killed by the sweep; the cells Q of D, and maybe of tasks that were dead
\* before (E), lose quota and windows, the cells C their file capabilities, the
\* tasks T their grants and the tasks V their VMs.
Dying(D, E, C, T, V, way) ==
    /\ D \subseteq live /\ E \subseteq Dead /\ T \subseteq Tasks
    /\ UNCHANGED <<next_task_id, cell>>
    /\ exit_task(D, way)
    /\ \E S : swap' = Restrict(swap, DOMAIN swap \ S) /\ D \subseteq S
    /\ Reclaimed(r, r', C, CellsOf(D \cup E), T, V)
    /\ \A t \in D : way[t] \in {"exit", "force", "fault", "hang", "swap"}
    /\ pending' \subseteq Dead'
    \* who is reaped, and who stays for the next yield_cpu
    /\ T \cap live' = {} /\ V \cap live' = {}
    /\ D \cup pending \subseteq T \cup pending'
    /\ \A t \in pending : t \in V \cup pending'
    /\ \A t \in D : \/ way[t] \in {"exit", "force", "swap"} /\ cell[t] \in C
                    \/ way[t] \in {"fault", "hang"} /\ t \in V \cup pending'

LEMMA DyingTypeOK ==
    ASSUME IInv, NEW D, NEW E, NEW C, NEW T, NEW V, NEW way, Dying(D, E, C, T, V, way)
    PROVE  TypeOK'
  <1>1. /\ next_task_id \in 1 .. MaxTask + 1
        /\ live \subseteq 1 .. next_task_id - 1 /\ frozen \subseteq live
        /\ cell \in [Tasks -> Tasks \cup {0}]
        /\ held \in [Tasks -> SUBSET Kinds]
        /\ how \in [Tasks -> {"none", "exit", "force", "fault", "hang", "swap"}]
    BY DEF IInv, TypeOK
  <1>2. /\ next_task_id' = next_task_id /\ cell' = cell
        /\ live' = live \ D /\ frozen' = frozen \ D
        /\ held' = [t \in Tasks |-> IF t \in D THEN {} ELSE held[t]]
        /\ how' = [t \in Tasks |-> IF t \in D THEN way[t] ELSE how[t]]
        /\ \A t \in D : way[t] \in {"exit", "force", "fault", "hang", "swap"}
        /\ pending' \subseteq Dead'
    BY DEF Dying, exit_task
  <1>3. /\ held' \in [Tasks -> SUBSET Kinds]
        /\ how' \in [Tasks -> {"none", "exit", "force", "fault", "hang", "swap"}]
    BY <1>1, <1>2
  <1>4. Tables(swap, live, [old : Tasks, new : Tasks \cup {0}, ceiling : SUBSET Kinds])
    BY DEF IInv, TypeOK
  <1>5. PICK S : swap' = Restrict(swap, DOMAIN swap \ S) /\ D \subseteq S
    BY DEF Dying
  <1>6. Tables(swap', live', [old : Tasks, new : Tasks \cup {0}, ceiling : SUBSET Kinds])
    BY <1>2, <1>4, <1>5 DEF Tables, Restrict
  <1>7. /\ Tables(r.caps, 1 .. r.next_id - 1, Tasks \cup {0}) /\ r.next_id \in 1 .. MaxCap + 1
        /\ r.page_table \in BOOLEAN /\ GrantTables(r)
        /\ r.used \subseteq Frames
        /\ Tables(r.mmio, Claims, Tasks)
        /\ r.quota \subseteq Tasks /\ r.vms \subseteq Tasks
    BY DEF IInv, TypeOK, GrantTables
  <1>8. Reclaimed(r, r', C, CellsOf(D \cup E), T, V)
    BY DEF Dying
  <1>9. GrantTables(r)'
    BY <1>7, <1>8, ReclaimedGrants, SMT
  <1>10. /\ Without(r.caps, r'.caps, C) /\ Without(r.mmio, r'.mmio, CellsOf(D \cup E))
         /\ r'.next_id = r.next_id /\ r'.page_table = r.page_table
         /\ r'.quota \subseteq r.quota /\ r'.vms \subseteq r.vms /\ r'.used \subseteq r.used
    BY <1>7, <1>8 DEF Reclaimed
  <1>11. /\ Tables(r'.caps, 1 .. r'.next_id - 1, Tasks \cup {0})
         /\ Tables(r'.mmio, Claims, Tasks)
    BY <1>7, <1>10 DEF Tables, Without
  <1>12. QED
    BY <1>1, <1>2, <1>3, <1>6, <1>7, <1>9, <1>10, <1>11 DEF TypeOK, GrantTables
\* the facts of IInv and Dying that the next lemmas need
LEMMA DyingFacts ==
    ASSUME IInv, NEW D, NEW E, NEW C, NEW T, NEW V, NEW way, Dying(D, E, C, T, V, way)
    PROVE  /\ live \subseteq Tasks /\ live' = live \ D /\ Dead' = Dead \cup D
           /\ D \subseteq live /\ E \subseteq Dead /\ Dead \subseteq Tasks /\ Dead \cap live = {}
           /\ \A t \in live : t < next_task_id
           /\ \A t \in Tasks : cell[t] \in {0, t} /\ t # 0
           /\ \A d \in D \cup E : cell[d] \in {0, d} /\ d \notin live'
           /\ next_task_id' = next_task_id /\ cell' = cell
  <1>1. /\ next_task_id \in 1 .. MaxTask + 1
        /\ live \subseteq 1 .. next_task_id - 1
    BY DEF IInv, TypeOK
  <1>2. /\ next_task_id' = next_task_id /\ cell' = cell
        /\ live' = live \ D /\ D \subseteq live /\ E \subseteq Dead
    BY DEF Dying, exit_task
  <1>3. \A t \in Tasks : cell[t] \in {0, t}
    BY DEF IInv, CellIds
  <1>4. live \subseteq Tasks /\ \A t \in live : t < next_task_id
    BY <1>1, BoundAssumption, SMT DEF Tasks
  <1>5. Dead' = Dead \cup D
    BY <1>2, <1>4 DEF Dead
  <1>6. Dead \subseteq Tasks /\ Dead \cap live = {}
    BY DEF Dead
  <1>7. \A t \in Tasks : t # 0
    BY BoundAssumption, SMT DEF Tasks
  <1>8. QED
    BY <1>2, <1>3, <1>4, <1>5, <1>6, <1>7

\* releasing by CellId takes only from the dead
LEMMA DyingKeepsOthers ==
    ASSUME IInv, NEW D, NEW E, NEW C, NEW T, NEW V, NEW way, Dying(D, E, C, T, V, way),
           NEW t \in live'
    PROVE  t \notin CellsOf(D \cup E)
  BY DyingFacts, SMT DEF CellsOf

LEMMA DyingCellIds ==
    ASSUME IInv, NEW D, NEW E, NEW C, NEW T, NEW V, NEW way, Dying(D, E, C, T, V, way)
    PROVE  CellIds' /\ History'
  <1>1. CellIds /\ History
    BY DEF IInv
  <1>2. /\ next_task_id' = next_task_id /\ cell' = cell /\ live' = live \ D
        /\ held' = [t \in Tasks |-> IF t \in D THEN {} ELSE held[t]]
    BY DEF Dying, exit_task
  <1>3. PICK S : swap' = Restrict(swap, DOMAIN swap \ S)
    BY DEF Dying
  <1>4. /\ Without(r.caps, r'.caps, C) /\ Without(r.mmio, r'.mmio, CellsOf(D \cup E))
        /\ r'.page_table = r.page_table
        /\ ~r.page_table => r'.page = r.page
    BY DEF Dying, Reclaimed
  <1>5. \A t \in Tasks : cell'[t] \in {0, t} /\ (held'[t] # {} => t \in live' /\ cell'[t] = t)
    BY <1>1, <1>2 DEF CellIds
  <1>6. \A w \in DOMAIN r'.mmio : cell'[r'.mmio[w]] = r'.mmio[w]
    BY <1>1, <1>2, <1>4 DEF CellIds, Without
  <1>7. \A id \in DOMAIN r'.caps :
          r'.caps[id] # 0 => r'.caps[id] < next_task_id' /\ cell'[r'.caps[id]] = r'.caps[id]
    BY <1>1, <1>2, <1>4 DEF CellIds, Without
  <1>8. History'
    BY <1>1, <1>2, <1>3, <1>4 DEF History, Restrict
  <1>9. QED
    BY <1>5, <1>6, <1>7, <1>8 DEF CellIds

LEMMA DyingFramesBacked ==
    ASSUME IInv, NEW D, NEW E, NEW C, NEW T, NEW V, NEW way, Dying(D, E, C, T, V, way)
    PROVE  FramesBacked'
  <1>1. FramesBacked /\ r.page_table \in BOOLEAN
    BY DEF IInv, TypeOK
  <1>2. Reclaimed(r, r', C, CellsOf(D \cup E), T, V)
    BY DEF Dying
  <1>3. CASE r.page_table
    <2>1. /\ DOMAIN r'.page = DOMAIN r.page \ Owned(r.page, T)
          /\ DOMAIN r'.reg = DOMAIN r.reg \ Owned(r.reg, T)
          /\ r'.used = r.used \ (Owned(r.page, T) \cup Owned(r.reg, T))
      BY <1>2, <1>3 DEF Reclaimed, Reaped, Owned
    <2>2. Owned(r.page, T) \subseteq DOMAIN r.page /\ Owned(r.reg, T) \subseteq DOMAIN r.reg
      BY DEF Owned
    <2>3. QED
      BY <1>1, <2>1, <2>2 DEF FramesBacked
  <1>4. CASE ~r.page_table
    BY <1>1, <1>2, <1>4 DEF Reclaimed, FramesBacked
  <1>5. QED
    BY <1>1, <1>3, <1>4

LEMMA DyingHeldByLiving ==
    ASSUME IInv, NEW D, NEW E, NEW C, NEW T, NEW V, NEW way, Dying(D, E, C, T, V, way)
    PROVE  HeldByLiving'
  <1>1. HeldByLiving /\ History /\ CellIds
    BY DEF IInv
  <1>2. /\ Without(r.mmio, r'.mmio, CellsOf(D \cup E))
        /\ r'.quota = r.quota \ CellsOf(D \cup E)
        /\ r.page_table => Reaped(r.page, r'.page, T)
        /\ ~r.page_table => r'.page = r.page
    BY DEF Dying, Reclaimed
  <1>3. D \cup pending \subseteq T \cup pending'
    BY DEF Dying
  <1>4. \A w \in DOMAIN r'.mmio : r'.mmio[w] \in live'
    <2> SUFFICES ASSUME NEW w \in DOMAIN r'.mmio
                 PROVE  r'.mmio[w] \in live'
      OBVIOUS
    <2> DEFINE o == r.mmio[w]
    <2>1. /\ w \in DOMAIN r.mmio /\ r'.mmio[w] = o /\ o \notin CellsOf(D \cup E)
      BY <1>2 DEF Without
    <2>2. o \in live /\ cell[o] = o
      BY <1>1, <2>1 DEF HeldByLiving, CellIds
    <2>3. o \notin D
      BY <2>1, <2>2 DEF CellsOf
    <2>4. QED
      BY <2>1, <2>2, <2>3, DyingFacts, SMT
  <1>5. r'.quota = {t \in live' : t # 1 /\ cell'[t] = t}
    <2>1. ASSUME NEW t \in D, t \in r.quota
          PROVE  t \in CellsOf(D \cup E)
      <3>1. cell[t] = t
        BY <1>1, <2>1 DEF HeldByLiving
      <3>2. QED
        BY <3>1 DEF CellsOf
    <2>2. \A t \in live' : t \notin CellsOf(D \cup E)
      BY DyingKeepsOthers
    <2>3. live' = live \ D /\ cell' = cell
      BY DyingFacts
    <2>4. r.quota = {t \in live : t # 1 /\ cell[t] = t}
      BY <1>1 DEF HeldByLiving
    <2>5. QED
      BY <1>2, <2>1, <2>2, <2>3, <2>4
  <1>6. \A g \in DOMAIN r'.page : r'.page[g].owner \in live' \cup pending'
    <2>1. CASE r.page_table
      <3> SUFFICES ASSUME NEW g \in DOMAIN r'.page
                   PROVE  r'.page[g].owner \in live' \cup pending'
        OBVIOUS
      <3>1. /\ g \in DOMAIN r.page /\ r.page[g].owner \notin T
            /\ r'.page[g].owner = r.page[g].owner
        BY <1>2, <2>1 DEF Reaped
      <3>2. r.page[g].owner \in live \cup pending
        BY <1>1, <3>1 DEF HeldByLiving
      <3>3. live' = live \ D
        BY DyingFacts
      <3>4. QED
        BY <1>3, <3>1, <3>2, <3>3
    <2>2. CASE ~r.page_table
      BY <1>1, <1>2, <2>2 DEF History
    <2>3. QED
      BY <2>1, <2>2
  <1>7. QED
    BY <1>4, <1>5, <1>6 DEF HeldByLiving
LEMMA DyingResidue ==
    ASSUME IInv, NEW D, NEW E, NEW C, NEW T, NEW V, NEW way, Dying(D, E, C, T, V, way)
    PROVE  Residue'
  <1>1. Residue /\ CellIds
    BY DEF IInv
  <1>2. /\ Without(r.caps, r'.caps, C)
        /\ r'.vms = r.vms \ V
    BY DEF Dying, Reclaimed
  <1>3. /\ how' = [t \in Tasks |-> IF t \in D THEN way[t] ELSE how[t]]
        /\ \A t \in pending : t \in V \cup pending'
        /\ \A t \in D : \/ way[t] \in {"exit", "force", "swap"} /\ cell[t] \in C
                        \/ way[t] \in {"fault", "hang"} /\ t \in V \cup pending'
    BY DEF Dying, exit_task
  <1>4. /\ Dead' = Dead \cup D /\ Dead \cap D = {} /\ Dead' \subseteq Tasks
        /\ \A t \in Tasks : t # 0
    BY DyingFacts, SMT
  <1>5. ASSUME NEW id \in DOMAIN r'.caps, r'.caps[id] \in Dead'
        PROVE  how'[r'.caps[id]] \in {"fault", "hang"}
    <2> DEFINE c == r.caps[id]
    <2>1. id \in DOMAIN r.caps /\ r'.caps[id] = c /\ c \notin C
      BY <1>2 DEF Without
    <2>2. c \in Dead \cup D /\ c \in Tasks /\ c # 0
      BY <1>4, <1>5, <2>1
    <2>3. CASE c \in Dead
      <3>1. how[c] \in {"fault", "hang"}
        BY <1>1, <2>1, <2>3 DEF Residue
      <3>2. how'[c] = how[c]
        BY <1>3, <1>4, <2>2, <2>3
      <3>3. QED
        BY <2>1, <3>1, <3>2
    <2>4. CASE c \in D
      <3>1. cell[c] = c
        BY <1>1, <2>1, <2>2 DEF CellIds
      <3>2. way[c] \in {"fault", "hang"} /\ how'[c] = way[c]
        BY <1>3, <2>1, <2>2, <2>4, <3>1
      <3>3. QED
        BY <2>1, <3>2
    <2>5. QED
      BY <2>2, <2>3, <2>4
  <1>6. ASSUME NEW t \in r'.vms \cap Dead'
        PROVE  t \in pending' \/ how'[t] \in {"exit", "force", "swap"}
    <2>1. t \in r.vms /\ t \notin V /\ t \in Dead \cup D /\ t \in Tasks
      BY <1>2, <1>4
    <2>2. CASE t \in Dead
      <3>1. t \in pending \/ how[t] \in {"exit", "force", "swap"}
        BY <1>1, <2>1, <2>2 DEF Residue
      <3>2. how'[t] = how[t]
        BY <1>3, <1>4, <2>1, <2>2
      <3>3. QED
        BY <1>3, <2>1, <3>1, <3>2
    <2>3. CASE t \in D
      BY <1>3, <2>1, <2>3
    <2>4. QED
      BY <2>1, <2>2, <2>3
  <1>7. QED
    BY <1>5, <1>6 DEF Residue

LEMMA DyingInv ==
    ASSUME IInv, NEW D, NEW E, NEW C, NEW T, NEW V, NEW way, Dying(D, E, C, T, V, way)
    PROVE  IInv'
  <1>1. IsTables(r')
    BY DEF Dying, Reclaimed
  <1>2. QED
    BY <1>1, DyingTypeOK, DyingCellIds, DyingFramesBacked, DyingHeldByLiving, DyingResidue
    DEF IInv

-----------------------------------------------------------------------------
\* What a step does, for the action properties

ReclaimStep ==
    r.page_table =>
        \A t \in Tasks : ~Gone(t) /\ Gone(t)' =>
            \A f \in {r.page, r.reg}' : \A g \in DOMAIN f :
                f[g].owner # t /\ f[g].shared_to # t

KeepStep ==
    tasks' # tasks =>
        \A w \in DOMAIN r.mmio :
            r.mmio[w] \in live' => w \in DOMAIN r.mmio' /\ r.mmio'[w] = r.mmio[w]

LEMMA DyingReclaims ==
    ASSUME IInv, NEW D, NEW E, NEW C, NEW T, NEW V, NEW way, Dying(D, E, C, T, V, way)
    PROVE  ReclaimStep
  <1> SUFFICES ASSUME r.page_table, NEW t \in Tasks, ~Gone(t), Gone(t)',
                      NEW f \in {r'.page, r'.reg}, NEW g \in DOMAIN f
               PROVE  f[g].owner # t /\ f[g].shared_to # t
    BY DEF ReclaimStep
  <1>1. Dead' = Dead \cup D
    BY DyingFacts
  <1>2. D \cup pending \subseteq T \cup pending'
    BY DEF Dying
  <1>3. t \in T
    BY <1>1, <1>2 DEF Gone
  <1>4. Reaped(r.page, r'.page, T) /\ Reaped(r.reg, r'.reg, T)
    BY DEF Dying, Reclaimed
  <1>5. QED
    BY <1>3, <1>4, SMT DEF Reaped

LEMMA DyingKeepsClaims ==
    ASSUME IInv, NEW D, NEW E, NEW C, NEW T, NEW V, NEW way, Dying(D, E, C, T, V, way)
    PROVE  KeepStep
  <1>1. Without(r.mmio, r'.mmio, CellsOf(D \cup E))
    BY DEF Dying, Reclaimed
  <1>2. \A t \in live' : t \notin CellsOf(D \cup E)
    BY DyingKeepsOthers
  <1>3. QED
    BY <1>1, <1>2 DEF KeepStep, Without
-----------------------------------------------------------------------------
\* Each way of dying is a case of Dying

LEMMA Basics ==
    ASSUME IInv
    PROVE  /\ IsTables(r) /\ GrantTables(r) /\ r.page_table \in BOOLEAN
           /\ live \subseteq Tasks /\ pending \subseteq Dead /\ pending \subseteq Tasks
           /\ Dead \cap live = {}
           /\ \A t \in live : t < next_task_id
  <1>1. /\ next_task_id \in 1 .. MaxTask + 1
        /\ live \subseteq 1 .. next_task_id - 1 /\ pending \subseteq Dead
        /\ IsTables(r) /\ GrantTables(r) /\ r.page_table \in BOOLEAN
    BY DEF IInv, TypeOK, GrantTables
  <1>2. live \subseteq Tasks /\ \A t \in live : t < next_task_id
    BY <1>1, BoundAssumption, SMT DEF Tasks
  <1>3. Dead \subseteq Tasks /\ Dead \cap live = {}
    BY DEF Dead
  <1>4. QED
    BY <1>1, <1>2, <1>3

\* Some step of Dying
Dies == \E D, E, C, T, V, way : Dying(D, E, C, T, V, way)

\* the ways that end in yield_cpu
LEMMA YieldDies ==
    ASSUME IInv, NEW s, NEW C, NEW V, NEW D, NEW K, NEW way,
           D \subseteq live, K \subseteq live \ D, V \subseteq D,
           Reclaimed(r, s, C, CellsOf(D), D, V), yield_cpu(s, D, way, K),
           \A t \in D : \/ way = "exit" /\ cell[t] \in C
                        \/ way = "fault" /\ t \in V,
           UNCHANGED <<next_task_id, cell>>
    PROVE  Dies
  <1> DEFINE ways == [t \in D \cup K |-> IF t \in D THEN way ELSE "hang"]
  <1>1. /\ r' = Swept(Drained(s), K) /\ pending' = K
        /\ exit_task(D \cup K, ways)
        /\ swap' = Restrict(swap, DOMAIN swap \ (D \cup K))
    BY DEF yield_cpu
  <1>2. Reclaimed(r, r', C, CellsOf(D) \cup CellsOf(K), D \cup pending, V \cup pending)
    BY <1>1, Basics, YieldReclaims
  <1>3. CellsOf(D) \cup CellsOf(K) = CellsOf((D \cup K) \cup {})
    BY DEF CellsOf
  <1>4. Reclaimed(r, r', C, CellsOf((D \cup K) \cup {}), D \cup pending, V \cup pending)
    BY <1>2, <1>3
  <1>5. live' = live \ (D \cup K)
    BY <1>1 DEF exit_task
  <1>6. /\ D \cup K \subseteq live /\ {} \subseteq Dead /\ D \cup pending \subseteq Tasks
        /\ (D \cup pending) \cap live' = {} /\ (V \cup pending) \cap live' = {}
    BY <1>5, Basics
  <1>7. pending' \subseteq Dead'
    BY <1>1, <1>5, Basics DEF Dead
  <1>8. /\ (D \cup K) \cup pending \subseteq (D \cup pending) \cup pending'
        /\ \A t \in pending : t \in (V \cup pending) \cup pending'
    BY <1>1
  <1>9. \A t \in D \cup K :
           \/ ways[t] \in {"exit", "force", "swap"} /\ cell[t] \in C
           \/ ways[t] \in {"fault", "hang"} /\ t \in (V \cup pending) \cup pending'
    BY <1>1
  <1>10. \A t \in D \cup K : ways[t] \in {"exit", "force", "fault", "hang", "swap"}
    BY <1>9
  <1>11. \E S : swap' = Restrict(swap, DOMAIN swap \ S) /\ D \cup K \subseteq S
    BY <1>1
  <1> HIDE DEF ways
  <1>12. Dying(D \cup K, {}, C, D \cup pending, V \cup pending, ways)
    BY <1>1, <1>4, <1>6, <1>7, <1>8, <1>9, <1>10, <1>11 DEF Dying
  <1>13. QED
    BY <1>12 DEF Dies

LEMMA CellsOfOne == ASSUME NEW t PROVE CellsOf({t}) = {cell[t]}
  BY DEF CellsOf

LEMMA ExitDies ==
    ASSUME IInv, NEW t \in live, NEW K, Exit(t, K)
    PROVE  Dies
  <1> DEFINE D == {t}
             C == {cell[t]}
             V == {}
             s == Cleaned(r, t)
             way == "exit"
  <1>1. /\ K \subseteq live \ D /\ yield_cpu(s, D, way, K)
        /\ UNCHANGED <<next_task_id, cell>>
    BY DEF Exit
  <1>2. Reclaimed(r, s, C, CellsOf(D), D, V)
    <2>1. t \in Tasks
      BY Basics
    <2>2. Reclaimed(r, s, C, C, D, V)
      BY <2>1, Basics, CleanedReclaims
    <2>3. CellsOf(D) = C
      BY CellsOfOne
    <2> HIDE DEF C, D, V, s
    <2>4. QED
      BY <2>2, <2>3
  <1>3. /\ D \subseteq live /\ V \subseteq D
        /\ \A x \in D : \/ way = "exit" /\ cell[x] \in C
                        \/ way = "fault" /\ x \in V
    OBVIOUS
  <1> HIDE DEF C, D, V, s, way
  <1>4. QED
    BY <1>1, <1>2, <1>3, YieldDies

LEMMA FaultDies ==
    ASSUME IInv, NEW t \in live, NEW K, Fault(t, K)
    PROVE  Dies
  <1> DEFINE D == {t}
             c == {cell[t]}
             C == {}
             s == reap_vms(reap_grants(release_for(deregister(r, c), c), {t}), {t})
             way == "fault"
  <1>1. /\ K \subseteq live \ D /\ yield_cpu(s, D, way, K)
        /\ UNCHANGED <<next_task_id, cell>>
    BY DEF Fault
  <1>2. Reclaimed(r, s, C, CellsOf(D), D, D)
    <2>1. t \in Tasks
      BY Basics
    <2>2. Reclaimed(r, s, C, c, D, D)
      <3> HIDE DEF c
      <3> QED BY <2>1, Basics, FaultReclaims
    <2>3. CellsOf(D) = c
      BY CellsOfOne
    <2> HIDE DEF C, D, c, s
    <2>4. QED
      BY <2>2, <2>3
  <1>3. /\ D \subseteq live /\ D \subseteq D
        /\ \A x \in D : \/ way = "exit" /\ cell[x] \in C
                        \/ way = "fault" /\ x \in D
    OBVIOUS
  <1> HIDE DEF C, D, s, way
  <1>4. QED
    BY <1>1, <1>2, <1>3, YieldDies

LEMMA TickDies ==
    ASSUME IInv, NEW K, Tick(K)
    PROVE  Dies
  <1> DEFINE D == {}
             way == "none"
  <1>1. /\ K \subseteq live \ D /\ yield_cpu(r, D, way, K)
        /\ UNCHANGED <<next_task_id, cell>>
    BY DEF Tick
  <1>2. Reclaimed(r, r, D, CellsOf(D), D, D)
    <2>1. CellsOf(D) = {} /\ Without(r.caps, r.caps, {}) /\ Without(r.mmio, r.mmio, {})
      BY DEF CellsOf, Without
    <2>2. /\ IsTables(r) /\ r.page_table \in BOOLEAN
          /\ Reaped(r.page, r.page, {}) /\ Reaped(r.reg, r.reg, {})
          /\ Owned(r.page, {}) = {} /\ Owned(r.reg, {}) = {}
      BY Basics, ReapedNone DEF GrantTables
    <2>3. QED
      BY <2>1, <2>2 DEF Reclaimed
  <1>3. /\ D \subseteq live /\ D \subseteq D
        /\ \A x \in D : \/ way = "exit" /\ cell[x] \in D
                        \/ way = "fault" /\ x \in D
    OBVIOUS
  <1> HIDE DEF D, way
  <1>4. QED
    BY <1>1, <1>2, <1>3, YieldDies

LEMMA ForceExitDies ==
    ASSUME IInv, NEW t, NEW u, ForceExit(t, u)
    PROVE  Dies
  <1> DEFINE D == {u}
             C == {cell[u]}
             way == [x \in {u} |-> "force"]
  <1>1. /\ u \in live /\ exit_task(D, way) /\ r' = Cleaned(r, u)
        /\ swap' = Restrict(swap, DOMAIN swap \ D)
        /\ UNCHANGED <<next_task_id, cell, pending>>
    BY DEF ForceExit
  <1>2. u \in Tasks
    BY <1>1, Basics
  <1>3. Reclaimed(r, r', C, CellsOf(D \cup {}), D, {})
    <2>1. Reclaimed(r, r', C, C, D, {})
      BY <1>1, <1>2, Basics, CleanedReclaims
    <2>2. CellsOf(D \cup {}) = C
      BY DEF CellsOf
    <2> HIDE DEF C, D
    <2>3. QED
      BY <2>1, <2>2
  <1>4. /\ D \subseteq live /\ {} \subseteq Dead /\ D \subseteq Tasks
        /\ \A x \in D : /\ way[x] \in {"exit", "force", "fault", "hang", "swap"}
                        /\ way[x] \in {"exit", "force", "swap"} /\ cell[x] \in C
    BY <1>1, <1>2
  <1> HIDE DEF C, D, way
  <1>5. live' = live \ D
    BY <1>1 DEF exit_task
  <1>6. /\ D \cap live' = {} /\ {} \cap live' = {}
        /\ D \cup pending \subseteq D \cup pending'
        /\ \A x \in pending : x \in {} \cup pending'
    BY <1>1, <1>5
  <1>7. pending' \subseteq Dead'
    BY <1>1, <1>5, Basics DEF Dead
  <1>8. \E S : swap' = Restrict(swap, DOMAIN swap \ S) /\ D \subseteq S
    BY <1>1
  <1>9. Dying(D, {}, C, D, {}, way)
    BY <1>1, <1>3, <1>4, <1>6, <1>7, <1>8 DEF Dying
  <1>10. QED
    BY <1>9 DEF Dies
LEMMA HotSwapFinishDies ==
    ASSUME IInv, NEW o \in DOMAIN swap, HotSwapFinish(o)
    PROVE  Dies
  <1> DEFINE u == swap[o].old
             D == {u} \cap live
             E == {u} \ live
             C == {cell[u]}
             T == {u}
             way == [t \in {u} |-> "swap"]
  <1>1. /\ exit_task(D, way) /\ r' = Cleaned(r, u)
        /\ swap' = Restrict(swap, DOMAIN swap \ {o, u})
        /\ UNCHANGED <<next_task_id, cell, pending>>
    BY DEF HotSwapFinish
  <1>2. u \in Tasks /\ u < next_task_id
    <2>1. /\ Tables(swap, live, [old : Tasks, new : Tasks \cup {0}, ceiling : SUBSET Kinds])
          /\ \A x \in DOMAIN swap : swap[x].old < next_task_id
      BY DEF IInv, TypeOK, History
    <2>2. QED
      BY <2>1 DEF Tables
  <1> HIDE DEF u
  <1>3. Reclaimed(r, r', C, CellsOf(D \cup E), T, {})
    <2>1. Reclaimed(r, r', C, C, T, {})
      BY <1>1, <1>2, Basics, CleanedReclaims
    <2>2. CellsOf(D \cup E) = C
      BY DEF CellsOf
    <2> HIDE DEF C, D, E, T
    <2>3. QED
      BY <2>1, <2>2
  <1>4. /\ D \subseteq live /\ E \subseteq Dead /\ T \subseteq Tasks
        /\ \A x \in D : /\ way[x] \in {"exit", "force", "fault", "hang", "swap"}
                        /\ way[x] \in {"exit", "force", "swap"} /\ cell[x] \in C
    BY <1>2 DEF Dead
  <1>5. live' = live \ D
    BY <1>1 DEF exit_task
  <1>6. /\ T \cap live' = {} /\ {} \cap live' = {}
        /\ D \cup pending \subseteq T \cup pending'
        /\ \A x \in pending : x \in {} \cup pending'
    BY <1>1, <1>5
  <1>7. pending' \subseteq Dead'
    BY <1>1, <1>5, Basics DEF Dead
  <1>8. \E S : swap' = Restrict(swap, DOMAIN swap \ S) /\ D \subseteq S
    BY <1>1
  <1> HIDE DEF C, D, E, T, way
  <1>9. Dying(D, E, C, T, {}, way)
    BY <1>1, <1>3, <1>4, <1>6, <1>7, <1>8 DEF Dying
  <1>10. QED
    BY <1>9 DEF Dies

-----------------------------------------------------------------------------
\* The other steps.  The invariant by tables, so that a step that changes one
\* table is looked at for that table only.

TaskPart ==
    /\ next_task_id \in 1 .. MaxTask + 1 /\ next_task_id # 1
    /\ live \subseteq 1 .. next_task_id - 1 /\ frozen \subseteq live /\ pending \subseteq Dead
    /\ cell \in [Tasks -> Tasks \cup {0}] /\ held \in [Tasks -> SUBSET Kinds]
    /\ \A t \in Tasks : cell[t] \in {0, t} /\ (held[t] # {} => t \in live /\ cell[t] = t)
    /\ how \in [Tasks -> {"none", "exit", "force", "fault", "hang", "swap"}]

SwapPart ==
    /\ Tables(swap, live, [old : Tasks, new : Tasks \cup {0}, ceiling : SUBSET Kinds])
    /\ \A o \in DOMAIN swap : swap[o].old < next_task_id

CapsPart ==
    /\ Tables(r.caps, 1 .. r.next_id - 1, Tasks \cup {0}) /\ r.next_id \in 1 .. MaxCap + 1
    /\ \A id \in DOMAIN r.caps :
          /\ r.caps[id] # 0 => r.caps[id] < next_task_id /\ cell[r.caps[id]] = r.caps[id]
          /\ r.caps[id] \in Dead => how[r.caps[id]] \in {"fault", "hang"}

GrantPart ==
    /\ r.page_table \in BOOLEAN /\ GrantTables(r) /\ r.used \subseteq Frames
    /\ FramesBacked
    /\ ~r.page_table => DOMAIN r.page = {}
    /\ \A g \in DOMAIN r.page : r.page[g].owner \in live \cup pending

ClaimPart ==
    /\ Tables(r.mmio, Claims, Tasks)
    /\ \A w \in DOMAIN r.mmio : r.mmio[w] \in live /\ cell[r.mmio[w]] = r.mmio[w]

QuotaPart == r.quota \subseteq Tasks /\ r.quota = {t \in live : t # 1 /\ cell[t] = t}

VmPart ==
    /\ r.vms \subseteq Tasks
    /\ \A t \in r.vms \cap Dead : t \in pending \/ how[t] \in {"exit", "force", "swap"}

LEMMA Parts ==
    IInv <=> /\ IsTables(r) /\ TaskPart /\ SwapPart /\ CapsPart
             /\ GrantPart /\ ClaimPart /\ QuotaPart /\ VmPart
  BY DEF IInv, TypeOK, CellIds, History, FramesBacked, HeldByLiving, Residue,
     TaskPart, SwapPart, CapsPart, GrantPart, ClaimPart, QuotaPart, VmPart, GrantTables

LEMMA PartsNext ==
    ASSUME IsTables(r)', TaskPart', SwapPart', CapsPart',
           GrantPart', ClaimPart', QuotaPart', VmPart'
    PROVE  IInv'
  BY DEF IInv, TypeOK, CellIds, History, FramesBacked, HeldByLiving, Residue,
     TaskPart, SwapPart, CapsPart, GrantPart, ClaimPart, QuotaPart, VmPart, GrantTables

LEMMA SameTasks ==
    ASSUME UNCHANGED tasks
    PROVE  /\ TaskPart => TaskPart'
           /\ SwapPart => SwapPart'
           /\ CapsPart /\ r'.caps = r.caps /\ r'.next_id = r.next_id => CapsPart'
           /\ GrantPart /\ r'.page_table = r.page_table /\ r'.page = r.page /\ r'.reg = r.reg
                 /\ r'.used = r.used => GrantPart'
           /\ ClaimPart /\ r'.mmio = r.mmio => ClaimPart'
           /\ QuotaPart /\ r'.quota = r.quota => QuotaPart'
           /\ VmPart /\ r'.vms = r.vms => VmPart'
           /\ Dead' = Dead
  BY DEF tasks, TaskPart, SwapPart, CapsPart, GrantPart, ClaimPart, QuotaPart, VmPart,
     GrantTables, FramesBacked, Dead
LEMMA Bounds ==
    ASSUME TaskPart
    PROVE  /\ live \subseteq Tasks /\ \A t \in live : t < next_task_id
           /\ \A t \in Tasks : t # 0 /\ t \in Nat
           /\ \A t \in live : t \notin Dead
           /\ 0 \notin Dead /\ Dead \subseteq Tasks
           /\ next_task_id \in Nat /\ next_task_id \notin live
  <1>1. next_task_id \in 1 .. MaxTask + 1 /\ live \subseteq 1 .. next_task_id - 1
    BY DEF TaskPart
  <1>2. QED
    BY <1>1, BoundAssumption, SMT DEF Tasks, Dead

LEMMA OpenCapInv ==
    ASSUME IInv, NEW t \in live, OpenCap(t)
    PROVE  IInv'
  <1>1. /\ r.next_id <= MaxCap /\ UNCHANGED tasks
        /\ r' = [r EXCEPT !.caps = Put(@, r.next_id, cell[t]), !.next_id = @ + 1]
    BY DEF OpenCap
  <1>2. IsTables(r)
    BY Basics
  <1>3. /\ IsTables(r') /\ r'.caps = Put(r.caps, r.next_id, cell[t]) /\ r'.next_id = r.next_id + 1
        /\ r'.page_table = r.page_table /\ r'.page = r.page /\ r'.reg = r.reg
        /\ r'.used = r.used /\ r'.mmio = r.mmio /\ r'.quota = r.quota /\ r'.vms = r.vms
    BY <1>1, <1>2 DEF IsTables, Fields
  <1>4. TaskPart /\ CapsPart
    BY Parts
  <1>5. t \in Tasks /\ t < next_task_id /\ cell[t] \in {0, t} /\ t \notin Dead /\ 0 \notin Dead
    BY <1>4, Bounds DEF TaskPart
  <1>6. CapsPart'
    <2>1. DOMAIN r'.caps = DOMAIN r.caps \cup {r.next_id}
      BY <1>3 DEF Put
    <2>2. \A id \in DOMAIN r'.caps :
             r'.caps[id] = IF id = r.next_id THEN cell[t] ELSE r.caps[id]
      BY <1>3 DEF Put
    <2>3. /\ r.next_id \in Nat \ {0} /\ r'.next_id = r.next_id + 1
          /\ r'.next_id \in 1 .. MaxCap + 1
      BY <1>1, <1>3, <1>4, BoundAssumption, SMT DEF CapsPart
    <2>4. /\ DOMAIN r.caps \subseteq 1 .. r.next_id - 1
          /\ \A id \in DOMAIN r.caps : r.caps[id] \in Tasks \cup {0}
      BY <1>4 DEF CapsPart, Tables
    <2>5. DOMAIN r'.caps \subseteq 1 .. r'.next_id - 1
      BY <2>1, <2>3, <2>4, SMT
    <2>6. \A id \in DOMAIN r'.caps : r'.caps[id] \in Tasks \cup {0}
      BY <1>5, <2>1, <2>2, <2>4
    <2>7. UNCHANGED <<next_task_id, cell, how>> /\ Dead' = Dead
      BY <1>1, SameTasks DEF tasks
    <2>8. ASSUME NEW id \in DOMAIN r'.caps
          PROVE  /\ r'.caps[id] # 0 => r'.caps[id] < next_task_id' /\ cell'[r'.caps[id]] = r'.caps[id]
                 /\ r'.caps[id] \in Dead' => how'[r'.caps[id]] \in {"fault", "hang"}
      <3>1. CASE id = r.next_id
        BY <1>5, <2>2, <2>7, <3>1
      <3>2. CASE id # r.next_id
        <4>1. id \in DOMAIN r.caps /\ r'.caps[id] = r.caps[id]
          BY <2>1, <2>2, <3>2
        <4>2. /\ r.caps[id] # 0 => r.caps[id] < next_task_id /\ cell[r.caps[id]] = r.caps[id]
              /\ r.caps[id] \in Dead => how[r.caps[id]] \in {"fault", "hang"}
          BY <1>4, <4>1 DEF CapsPart
        <4>3. QED
          BY <2>7, <4>1, <4>2
      <3>3. QED
        BY <3>1, <3>2
    <2>9. QED
      BY <2>3, <2>5, <2>6, <2>8 DEF CapsPart, Tables
  <1>7. QED
    BY <1>1, <1>3, <1>6, SameTasks, Parts, PartsNext

LEMMA CloseCapInv ==
    ASSUME IInv, NEW t, NEW id, CloseCap(t, id)
    PROVE  IInv'
  <1>1. UNCHANGED tasks /\ r' = [r EXCEPT !.caps = Drop(@, id)]
    BY DEF CloseCap
  <1>2. IsTables(r)
    BY Basics
  <1>3. /\ IsTables(r') /\ r'.caps = Drop(r.caps, id) /\ r'.next_id = r.next_id
        /\ r'.page_table = r.page_table /\ r'.page = r.page /\ r'.reg = r.reg
        /\ r'.used = r.used /\ r'.mmio = r.mmio /\ r'.quota = r.quota /\ r'.vms = r.vms
    BY <1>1, <1>2 DEF IsTables, Fields
  <1>4. CapsPart
    BY Parts
  <1>5. Dead' = Dead /\ UNCHANGED <<next_task_id, cell, how>>
    BY <1>1, SameTasks DEF tasks
  <1>6. DOMAIN r'.caps \subseteq DOMAIN r.caps /\ \A x \in DOMAIN r'.caps : r'.caps[x] = r.caps[x]
    BY <1>3 DEF Drop, Restrict
  <1>7. CapsPart'
    BY <1>3, <1>4, <1>5, <1>6 DEF CapsPart, Tables
  <1>8. QED
    BY <1>1, <1>3, <1>7, SameTasks, Parts, PartsNext

LEMMA RequestMmioInv ==
    ASSUME IInv, NEW t \in live, NEW w \in Windows, NEW n \in {0, 1}, request_mmio(t, w, n)
    PROVE  IInv' /\ KeepStep
  <1> DEFINE f == Drop(r.mmio, <<w, 1 - n>>)
             c == <<w, n>>
  <1>1. /\ "mmio" \in held[t]
        /\ r' = [r EXCEPT !.mmio = Put(f, c, t)] /\ UNCHANGED tasks
    BY DEF request_mmio
  <1>2. IsTables(r)
    BY Basics
  <1>3. c \in Claims
    BY DEF Claims
  <1>4. TaskPart /\ ClaimPart
    BY Parts
  <1>5. t \in Tasks /\ cell[t] = t
    BY <1>1, <1>4, Bounds DEF TaskPart
  <1>6. DOMAIN f \subseteq DOMAIN r.mmio /\ \A x \in DOMAIN f : f[x] = r.mmio[x]
    BY DEF Drop, Restrict
  <1> HIDE DEF f, c
  <1>7. /\ IsTables(r') /\ r'.mmio = Put(f, c, t) /\ r'.next_id = r.next_id
        /\ r'.page_table = r.page_table /\ r'.page = r.page /\ r'.reg = r.reg
        /\ r'.used = r.used /\ r'.caps = r.caps /\ r'.quota = r.quota /\ r'.vms = r.vms
    BY <1>1, <1>2 DEF IsTables, Fields
  <1>8. /\ DOMAIN r'.mmio = DOMAIN f \cup {c}
        /\ \A x \in DOMAIN r'.mmio : r'.mmio[x] = IF x = c THEN t ELSE f[x]
    BY <1>7 DEF Put
  <1>9. UNCHANGED <<live, cell>>
    BY <1>1 DEF tasks
  <1>10. ClaimPart'
    BY <1>3, <1>4, <1>5, <1>6, <1>8, <1>9 DEF ClaimPart, Tables
  <1>11. KeepStep
    BY <1>1 DEF KeepStep
  <1>12. QED
    BY <1>1, <1>7, <1>10, <1>11, SameTasks, Parts, PartsNext

LEMMA CreateVmInv ==
    ASSUME IInv, NEW t \in live, create_vm(t)
    PROVE  IInv'
  <1>1. r' = [r EXCEPT !.vms = @ \cup {t}] /\ UNCHANGED tasks
    BY DEF create_vm
  <1>2. IsTables(r)
    BY Basics
  <1>3. /\ IsTables(r') /\ r'.vms = r.vms \cup {t} /\ r'.next_id = r.next_id
        /\ r'.page_table = r.page_table /\ r'.page = r.page /\ r'.reg = r.reg
        /\ r'.used = r.used /\ r'.caps = r.caps /\ r'.quota = r.quota /\ r'.mmio = r.mmio
    BY <1>1, <1>2 DEF IsTables, Fields
  <1>4. TaskPart /\ VmPart
    BY Parts
  <1>5. t \in Tasks /\ t \notin Dead
    BY <1>4, Bounds
  <1>6. Dead' = Dead /\ UNCHANGED <<pending, how>>
    BY <1>1, SameTasks DEF tasks
  <1>7. VmPart'
    BY <1>3, <1>4, <1>5, <1>6 DEF VmPart
  <1>8. QED
    BY <1>1, <1>3, <1>7, SameTasks, Parts, PartsNext
\* A step of a task that changes the grants only
LEMMA GrantsOnly ==
    ASSUME IInv, UNCHANGED tasks, IsTables(r'), GrantPart',
           r'.next_id = r.next_id, r'.caps = r.caps, r'.mmio = r.mmio,
           r'.quota = r.quota, r'.vms = r.vms
    PROVE  IInv'
  BY SameTasks, Parts, PartsNext

LEMMA PutGrant ==
    ASSUME NEW f, Tables(f, Frames, Grants), NEW x \in Frames, NEW t \in Tasks,
           NEW y, y = Put(f, x, NewGrant(t))
    PROVE  Tables(y, Frames, Grants) /\ DOMAIN y = DOMAIN f \cup {x}
  <1>1. NewGrant(t) \in Grants
    BY DEF NewGrant, Grants
  <1>2. QED
    BY <1>1 DEF Put, Tables

LEMMA DropGrant ==
    ASSUME NEW f, Tables(f, Frames, Grants), NEW x, NEW y, y = Drop(f, x)
    PROVE  Tables(y, Frames, Grants) /\ DOMAIN y = DOMAIN f \ {x}
  BY DEF Drop, Restrict, Tables

LEMMA SharedGrant ==
    ASSUME NEW f, Tables(f, Frames, Grants), NEW t, NEW x, NEW u \in Tasks,
           NEW y, y = Shared(f, t, x, u)
    PROVE  /\ Tables(y, Frames, Grants) /\ DOMAIN y = DOMAIN f
           /\ \A g \in DOMAIN y : y[g].owner = f[g].owner
  <1>1. CASE x \in Owned(f, {t})
    <2>1. y = [f EXCEPT ![x].shared_to = u]
      BY <1>1 DEF Shared
    <2>2. DOMAIN y = DOMAIN f
      BY <2>1
    <2>3. ASSUME NEW g \in DOMAIN f
          PROVE  y[g] \in Grants /\ y[g].owner = f[g].owner
      <3>1. f[g] \in Grants
        BY DEF Tables
      <3>2. QED
        BY <2>1, <3>1, SMT DEF Grants
    <2>4. QED
      BY <2>2, <2>3 DEF Tables
  <1>2. CASE x \notin Owned(f, {t})
    BY <1>2 DEF Shared
  <1>3. QED
    BY <1>1, <1>2

LEMMA GrantAllocInv ==
    ASSUME IInv, NEW t \in live, NEW f \in Frames, GrantAlloc(t, f)
    PROVE  IInv'
  <1>1. /\ f \notin r.used /\ UNCHANGED tasks
        /\ r' = [r EXCEPT !.used = @ \cup {f}, !.page_table = TRUE, !.page = Put(@, f, NewGrant(t))]
    BY DEF GrantAlloc
  <1>2. /\ IsTables(r) /\ t \in Tasks
        /\ Tables(r.page, Frames, Grants) /\ Tables(r.reg, Frames, Grants)
    BY Basics DEF GrantTables
  <1>3. /\ r.used = DOMAIN r.page \cup DOMAIN r.reg /\ DOMAIN r.page \cap DOMAIN r.reg = {}
        /\ r.used \subseteq Frames
    BY Parts DEF GrantPart, FramesBacked
  <1>4. /\ r.page_table \in BOOLEAN
        /\ ~r.page_table => DOMAIN r.page = {}
        /\ \A x \in DOMAIN r.page : r.page[x].owner \in live \cup pending
    BY Parts DEF GrantPart
  <1>5. /\ IsTables(r') /\ r'.page = Put(r.page, f, NewGrant(t)) /\ r'.used = r.used \cup {f}
        /\ r'.page_table = TRUE /\ r'.reg = r.reg
        /\ r'.next_id = r.next_id /\ r'.caps = r.caps /\ r'.mmio = r.mmio
        /\ r'.quota = r.quota /\ r'.vms = r.vms
    BY <1>1, <1>2 DEF IsTables, Fields
  <1>6. /\ Tables(r'.page, Frames, Grants) /\ DOMAIN r'.page = DOMAIN r.page \cup {f}
        /\ \A x \in DOMAIN r'.page :
              r'.page[x].owner = t \/ (x \in DOMAIN r.page /\ r'.page[x].owner = r.page[x].owner)
    <2> DEFINE old == r.page
               new == r'.page
    <2>1. Tables(old, Frames, Grants) /\ new = Put(old, f, NewGrant(t)) /\ t \in Tasks
      BY <1>2, <1>5
    <2> HIDE DEF old, new
    <2>2. Tables(new, Frames, Grants) /\ DOMAIN new = DOMAIN old \cup {f}
      BY <2>1, PutGrant
    <2>3. \A x \in DOMAIN new :
             new[x].owner = t \/ (x \in DOMAIN old /\ new[x].owner = old[x].owner)
      BY <2>1 DEF Put, NewGrant
    <2>4. QED
      BY <2>2, <2>3 DEF old, new
  <1>7. live' = live /\ pending' = pending
    BY <1>1 DEF tasks
  <1>8. FramesBacked' /\ r'.used \subseteq Frames
    BY <1>1, <1>3, <1>5, <1>6, SMT DEF FramesBacked
  <1>9. /\ r'.page_table \in BOOLEAN
        /\ ~r'.page_table => DOMAIN r'.page = {}
        /\ \A x \in DOMAIN r'.page : r'.page[x].owner \in live' \cup pending'
    BY <1>4, <1>5, <1>6, <1>7
  <1>10. GrantPart'
    <2>1. GrantTables(r)'
      BY <1>2, <1>5, <1>6 DEF GrantTables
    <2>2. QED
      BY <1>8, <1>9, <2>1 DEF GrantPart
  <1>11. QED
    BY <1>1, <1>5, <1>10, GrantsOnly

LEMMA GrantRegisterInv ==
    ASSUME IInv, NEW t \in live, NEW f \in Frames, GrantRegister(t, f)
    PROVE  IInv'
  <1>1. /\ f \notin r.used /\ UNCHANGED tasks
        /\ r' = [r EXCEPT !.used = @ \cup {f}, !.reg = Put(@, f, NewGrant(t))]
    BY DEF GrantRegister
  <1>2. /\ IsTables(r) /\ t \in Tasks
        /\ Tables(r.page, Frames, Grants) /\ Tables(r.reg, Frames, Grants)
    BY Basics DEF GrantTables
  <1>3. /\ r.used = DOMAIN r.page \cup DOMAIN r.reg /\ DOMAIN r.page \cap DOMAIN r.reg = {}
        /\ r.used \subseteq Frames
    BY Parts DEF GrantPart, FramesBacked
  <1>4. /\ r.page_table \in BOOLEAN
        /\ ~r.page_table => DOMAIN r.page = {}
        /\ \A x \in DOMAIN r.page : r.page[x].owner \in live \cup pending
    BY Parts DEF GrantPart
  <1>5. /\ IsTables(r') /\ r'.reg = Put(r.reg, f, NewGrant(t)) /\ r'.used = r.used \cup {f}
        /\ r'.page_table = r.page_table /\ r'.page = r.page
        /\ r'.next_id = r.next_id /\ r'.caps = r.caps /\ r'.mmio = r.mmio
        /\ r'.quota = r.quota /\ r'.vms = r.vms
    BY <1>1, <1>2 DEF IsTables, Fields
  <1>6. /\ Tables(r'.reg, Frames, Grants) /\ DOMAIN r'.reg = DOMAIN r.reg \cup {f}
    <2> DEFINE old == r.reg
               new == r'.reg
    <2>1. Tables(old, Frames, Grants) /\ new = Put(old, f, NewGrant(t)) /\ t \in Tasks
      BY <1>2, <1>5
    <2> HIDE DEF old, new
    <2>2. /\ Tables(new, Frames, Grants) /\ DOMAIN new = DOMAIN old \cup {f}
      BY <2>1, PutGrant
    <2>3. QED
      BY <2>2 DEF old, new
  <1>7. live' = live /\ pending' = pending
    BY <1>1 DEF tasks
  <1>8. FramesBacked' /\ r'.used \subseteq Frames
    BY <1>1, <1>3, <1>5, <1>6 DEF FramesBacked
  <1>9. /\ r'.page_table \in BOOLEAN
        /\ ~r'.page_table => DOMAIN r'.page = {}
        /\ \A x \in DOMAIN r'.page : r'.page[x].owner \in live' \cup pending'
    BY <1>4, <1>5, <1>6, <1>7
  <1>10. GrantPart'
    <2>1. GrantTables(r)'
      BY <1>2, <1>5, <1>6 DEF GrantTables
    <2>2. QED
      BY <1>8, <1>9, <2>1 DEF GrantPart
  <1>11. QED
    BY <1>1, <1>5, <1>10, GrantsOnly

LEMMA GrantShareInv ==
    ASSUME IInv, NEW t, NEW g, NEW u \in Tasks, GrantShare(t, g, u)
    PROVE  IInv'
  <1> DEFINE reg == IF g \in DOMAIN r.page THEN r.reg ELSE Shared(r.reg, t, g, u)
  <1>1. /\ UNCHANGED tasks
        /\ r' = [r EXCEPT !.page_table = TRUE, !.page = Shared(@, t, g, u), !.reg = reg]
    BY DEF GrantShare
  <1>2. IsTables(r) /\ GrantPart
    BY Basics, Parts
  <1>3. Tables(r.page, Frames, Grants) /\ Tables(r.reg, Frames, Grants)
    BY <1>2 DEF GrantPart, GrantTables
  <1>4. Tables(reg, Frames, Grants) /\ DOMAIN reg = DOMAIN r.reg
    BY <1>3, SharedGrant, SMT
  <1> HIDE DEF reg
  <1>5. /\ IsTables(r') /\ r'.page = Shared(r.page, t, g, u) /\ r'.reg = reg /\ r'.used = r.used
        /\ r'.page_table = TRUE
        /\ r'.next_id = r.next_id /\ r'.caps = r.caps /\ r'.mmio = r.mmio
        /\ r'.quota = r.quota /\ r'.vms = r.vms
    BY <1>1, <1>2 DEF IsTables, Fields
  <1>6. /\ Tables(r'.page, Frames, Grants) /\ DOMAIN r'.page = DOMAIN r.page
        /\ \A x \in DOMAIN r'.page : r'.page[x].owner = r.page[x].owner
    BY <1>3, <1>5, SharedGrant, SMT
  <1>7. live' = live /\ pending' = pending
    BY <1>1 DEF tasks
  <1>8. GrantPart'
    BY <1>2, <1>4, <1>5, <1>6, <1>7 DEF GrantPart, GrantTables, FramesBacked
  <1>9. QED
    BY <1>1, <1>5, <1>8, GrantsOnly

LEMMA GrantFreeInv ==
    ASSUME IInv, NEW t, NEW g, GrantFree(t, g)
    PROVE  IInv'
  <1>1. /\ g \in Owned(r.page, {t}) /\ UNCHANGED tasks
        /\ r' = [r EXCEPT !.page = Drop(@, g), !.used = @ \ {g}]
    BY DEF GrantFree
  <1>2. /\ IsTables(r)
        /\ Tables(r.page, Frames, Grants) /\ Tables(r.reg, Frames, Grants)
    BY Basics DEF GrantTables
  <1>3. /\ r.used = DOMAIN r.page \cup DOMAIN r.reg /\ DOMAIN r.page \cap DOMAIN r.reg = {}
        /\ r.used \subseteq Frames
    BY Parts DEF GrantPart, FramesBacked
  <1>4. /\ r.page_table \in BOOLEAN
        /\ ~r.page_table => DOMAIN r.page = {}
        /\ \A x \in DOMAIN r.page : r.page[x].owner \in live \cup pending
    BY Parts DEF GrantPart
  <1>5. /\ IsTables(r') /\ r'.page = Drop(r.page, g) /\ r'.used = r.used \ {g}
        /\ r'.page_table = r.page_table /\ r'.reg = r.reg
        /\ r'.next_id = r.next_id /\ r'.caps = r.caps /\ r'.mmio = r.mmio
        /\ r'.quota = r.quota /\ r'.vms = r.vms
    BY <1>1, <1>2 DEF IsTables, Fields
  <1>6. /\ Tables(r'.page, Frames, Grants) /\ DOMAIN r'.page = DOMAIN r.page \ {g}
        /\ \A x \in DOMAIN r'.page : r'.page[x] = r.page[x]
    <2> DEFINE old == r.page
               new == r'.page
    <2>1. Tables(old, Frames, Grants) /\ new = Drop(old, g)
      BY <1>2, <1>5
    <2> HIDE DEF old, new
    <2>2. Tables(new, Frames, Grants) /\ DOMAIN new = DOMAIN old \ {g}
      BY <2>1, DropGrant
    <2>3. \A x \in DOMAIN new : new[x] = old[x]
      BY <2>1 DEF Drop, Restrict
    <2>4. QED
      BY <2>2, <2>3 DEF old, new
  <1>7. live' = live /\ pending' = pending
    BY <1>1 DEF tasks
  <1>8. g \in DOMAIN r.page
    BY <1>1 DEF Owned
  <1>9. FramesBacked' /\ r'.used \subseteq Frames
    BY <1>1, <1>3, <1>5, <1>6, <1>8 DEF FramesBacked
  <1>10. /\ r'.page_table \in BOOLEAN
         /\ ~r'.page_table => DOMAIN r'.page = {}
         /\ \A x \in DOMAIN r'.page : r'.page[x].owner \in live' \cup pending'
    BY <1>4, <1>5, <1>6, <1>7
  <1>11. GrantPart'
    <2>1. GrantTables(r)'
      BY <1>2, <1>5, <1>6 DEF GrantTables
    <2>2. QED
      BY <1>9, <1>10, <2>1 DEF GrantPart
  <1>12. QED
    BY <1>1, <1>5, <1>11, GrantsOnly

LEMMA GrantUnregisterInv ==
    ASSUME IInv, NEW t, NEW g, GrantUnregister(t, g)
    PROVE  IInv'
  <1>1. /\ g \in Owned(r.reg, {t}) /\ UNCHANGED tasks
        /\ r' = [r EXCEPT !.reg = Drop(@, g), !.used = @ \ {g}]
    BY DEF GrantUnregister
  <1>2. /\ IsTables(r)
        /\ Tables(r.page, Frames, Grants) /\ Tables(r.reg, Frames, Grants)
    BY Basics DEF GrantTables
  <1>3. /\ r.used = DOMAIN r.page \cup DOMAIN r.reg /\ DOMAIN r.page \cap DOMAIN r.reg = {}
        /\ r.used \subseteq Frames
    BY Parts DEF GrantPart, FramesBacked
  <1>4. /\ r.page_table \in BOOLEAN
        /\ ~r.page_table => DOMAIN r.page = {}
        /\ \A x \in DOMAIN r.page : r.page[x].owner \in live \cup pending
    BY Parts DEF GrantPart
  <1>5. /\ IsTables(r') /\ r'.reg = Drop(r.reg, g) /\ r'.used = r.used \ {g}
        /\ r'.page_table = r.page_table /\ r'.page = r.page
        /\ r'.next_id = r.next_id /\ r'.caps = r.caps /\ r'.mmio = r.mmio
        /\ r'.quota = r.quota /\ r'.vms = r.vms
    BY <1>1, <1>2 DEF IsTables, Fields
  <1>6. /\ Tables(r'.reg, Frames, Grants) /\ DOMAIN r'.reg = DOMAIN r.reg \ {g}
    <2> DEFINE old == r.reg
               new == r'.reg
    <2>1. Tables(old, Frames, Grants) /\ new = Drop(old, g)
      BY <1>2, <1>5
    <2> HIDE DEF old, new
    <2>2. /\ Tables(new, Frames, Grants) /\ DOMAIN new = DOMAIN old \ {g}
      BY <2>1, DropGrant
    <2>3. QED
      BY <2>2 DEF old, new
  <1>7. live' = live /\ pending' = pending
    BY <1>1 DEF tasks
  <1>8. g \in DOMAIN r.reg
    BY <1>1 DEF Owned
  <1>9. FramesBacked' /\ r'.used \subseteq Frames
    BY <1>1, <1>3, <1>5, <1>6, <1>8 DEF FramesBacked
  <1>10. /\ r'.page_table \in BOOLEAN
         /\ ~r'.page_table => DOMAIN r'.page = {}
         /\ \A x \in DOMAIN r'.page : r'.page[x].owner \in live' \cup pending'
    BY <1>4, <1>5, <1>6, <1>7
  <1>11. GrantPart'
    <2>1. GrantTables(r)'
      BY <1>2, <1>5, <1>6 DEF GrantTables
    <2>2. QED
      BY <1>9, <1>10, <2>1 DEF GrantPart
  <1>12. QED
    BY <1>1, <1>5, <1>11, GrantsOnly
-----------------------------------------------------------------------------
\* Spawning, CapRevoke and the steps of a swap that end nobody

LEMMA SpawnedFacts ==
    ASSUME TaskPart, NEW c \in {0, next_task_id}, NEW C \in SUBSET Kinds, Spawned(c, C)
    PROVE  /\ next_task_id \in Tasks /\ next_task_id \notin live
           /\ next_task_id' = next_task_id + 1 /\ live' = live \cup {next_task_id}
           /\ cell' \in [Tasks -> Tasks \cup {0}] /\ held' \in [Tasks -> SUBSET Kinds]
           /\ cell'[next_task_id] = c /\ held'[next_task_id] = C
           /\ \A t \in Tasks \ {next_task_id} : cell'[t] = cell[t] /\ held'[t] = held[t]
           /\ Dead' = Dead
  <1>1. /\ next_task_id \in Tasks
        /\ next_task_id' = next_task_id + 1 /\ live' = live \cup {next_task_id}
        /\ cell' = [cell EXCEPT ![next_task_id] = c]
        /\ held' = [held EXCEPT ![next_task_id] = C]
    BY DEF Spawned
  <1>2. cell \in [Tasks -> Tasks \cup {0}] /\ held \in [Tasks -> SUBSET Kinds]
    BY DEF TaskPart
  <1>3. next_task_id \notin live /\ next_task_id \in Nat
    BY Bounds
  <1>4. c \in Tasks \cup {0}
    BY <1>1
  <1>5. /\ cell' \in [Tasks -> Tasks \cup {0}] /\ held' \in [Tasks -> SUBSET Kinds]
        /\ cell'[next_task_id] = c /\ held'[next_task_id] = C
        /\ \A t \in Tasks \ {next_task_id} : cell'[t] = cell[t] /\ held'[t] = held[t]
    BY <1>1, <1>2, <1>4
  <1>6. Dead' = Dead
    BY <1>1, <1>3, BoundAssumption, SMT DEF Dead, Tasks
  <1>7. QED
    BY <1>1, <1>3, <1>5, <1>6

LEMMA SpawnedTasks ==
    ASSUME TaskPart, NEW c \in {0, next_task_id}, NEW C \in SUBSET Kinds, Spawned(c, C),
           c = next_task_id \/ C = {}, frozen' \subseteq live', UNCHANGED <<pending, how>>
    PROVE  TaskPart'
  <1>1. /\ next_task_id \in 1 .. MaxTask + 1
        /\ live \subseteq 1 .. next_task_id - 1 /\ pending \subseteq Dead
        /\ \A t \in Tasks : cell[t] \in {0, t} /\ (held[t] # {} => t \in live /\ cell[t] = t)
        /\ how \in [Tasks -> {"none", "exit", "force", "fault", "hang", "swap"}]
    BY DEF TaskPart
  <1>2. /\ next_task_id \in Tasks
        /\ next_task_id' = next_task_id + 1 /\ live' = live \cup {next_task_id}
        /\ cell'[next_task_id] = c /\ held'[next_task_id] = C
        /\ \A t \in Tasks \ {next_task_id} : cell'[t] = cell[t] /\ held'[t] = held[t]
    BY SpawnedFacts
  <1>3. cell' \in [Tasks -> Tasks \cup {0}] /\ held' \in [Tasks -> SUBSET Kinds] /\ Dead' = Dead
    BY SpawnedFacts
  <1>4. /\ next_task_id' \in 1 .. MaxTask + 1 /\ next_task_id' # 1
        /\ live' \subseteq 1 .. next_task_id' - 1
    BY <1>1, <1>2, BoundAssumption, SMT DEF Tasks
  <1>5. \A t \in Tasks : cell'[t] \in {0, t} /\ (held'[t] # {} => t \in live' /\ cell'[t] = t)
    BY <1>1, <1>2
  <1>6. pending' \subseteq Dead'
        /\ how' \in [Tasks -> {"none", "exit", "force", "fault", "hang", "swap"}]
    BY <1>1, <1>3
  <1>7. QED
    BY <1>3, <1>4, <1>5, <1>6 DEF TaskPart

\* The tables of a spawn, with the entry in the quota table that a cell with
\* its own CellId gets
LEMMA SpawnedTables ==
    ASSUME IInv, NEW c \in {0, next_task_id}, NEW C \in SUBSET Kinds, Spawned(c, C),
           UNCHANGED <<pending, how>>, IsTables(r'),
           r'.quota = IF c = 0 THEN r.quota ELSE r.quota \cup {next_task_id},
           \A n \in Fields \ {"quota"} : r'[n] = r[n]
    PROVE  CapsPart' /\ GrantPart' /\ ClaimPart' /\ QuotaPart' /\ VmPart'
  <1>1. /\ TaskPart /\ CapsPart /\ GrantPart /\ ClaimPart /\ QuotaPart /\ VmPart
    BY Parts
  <1>2. /\ next_task_id \in Tasks /\ next_task_id \notin live
        /\ next_task_id' = next_task_id + 1 /\ live' = live \cup {next_task_id}
        /\ cell'[next_task_id] = c /\ Dead' = Dead
        /\ \A t \in Tasks \ {next_task_id} : cell'[t] = cell[t]
    BY <1>1, SpawnedFacts
  <1>3. /\ r'.caps = r.caps /\ r'.next_id = r.next_id /\ r'.page_table = r.page_table
        /\ r'.page = r.page /\ r'.reg = r.reg /\ r'.used = r.used
        /\ r'.mmio = r.mmio /\ r'.vms = r.vms
    BY DEF Fields
  <1>4. /\ live \subseteq Tasks /\ next_task_id \in Nat /\ next_task_id # 1
        /\ \A t \in Tasks : t # 0 /\ t \in Nat
    BY <1>1, Bounds DEF TaskPart
  <1>5. CapsPart'
    <2>1. /\ Tables(r.caps, 1 .. r.next_id - 1, Tasks \cup {0}) /\ r.next_id \in 1 .. MaxCap + 1
          /\ \A id \in DOMAIN r.caps :
                /\ r.caps[id] # 0 => r.caps[id] < next_task_id /\ cell[r.caps[id]] = r.caps[id]
                /\ r.caps[id] \in Dead => how[r.caps[id]] \in {"fault", "hang"}
      BY <1>1 DEF CapsPart
    <2>2. ASSUME NEW id \in DOMAIN r.caps
          PROVE  /\ r.caps[id] # 0 => r.caps[id] < next_task_id' /\ cell'[r.caps[id]] = r.caps[id]
                 /\ r.caps[id] \in Dead' => how'[r.caps[id]] \in {"fault", "hang"}
      <3>1. r.caps[id] \in Tasks \cup {0}
        BY <2>1 DEF Tables
      <3>2. r.caps[id] # 0 => r.caps[id] \in Tasks \ {next_task_id} /\ r.caps[id] < next_task_id'
        <4>1. PICK a : a = r.caps[id]
          OBVIOUS
        <4>2. a # 0 => a \in Tasks /\ a \in Nat /\ a < next_task_id
          BY <1>4, <2>1, <3>1, <4>1
        <4>3. next_task_id \in Nat /\ next_task_id' = next_task_id + 1
          BY <1>2, <1>4
        <4>4. a # 0 => a # next_task_id /\ a < next_task_id'
          BY <4>2, <4>3, SMT
        <4> QED
          BY <4>1, <4>2, <4>4
      <3>3. /\ \A t \in Tasks \ {next_task_id} : cell'[t] = cell[t]
            /\ Dead' = Dead /\ how' = how
        BY <1>2
      <3>4. /\ r.caps[id] # 0 => cell[r.caps[id]] = r.caps[id]
            /\ r.caps[id] \in Dead => how[r.caps[id]] \in {"fault", "hang"}
        BY <2>1
      <3>5. r.caps[id] # 0 => cell'[r.caps[id]] = r.caps[id]
        BY <3>2, <3>3, <3>4
      <3>6. QED
        BY <3>2, <3>3, <3>4, <3>5
    <2>3. QED
      BY <1>3, <2>1, <2>2 DEF CapsPart
  <1>6. GrantPart'
    BY <1>1, <1>2, <1>3 DEF GrantPart, GrantTables, FramesBacked
  <1>7. ClaimPart'
    <2>1. /\ Tables(r.mmio, Claims, Tasks)
          /\ \A w \in DOMAIN r.mmio : r.mmio[w] \in live /\ cell[r.mmio[w]] = r.mmio[w]
      BY <1>1 DEF ClaimPart
    <2>2. ASSUME NEW w \in DOMAIN r.mmio
          PROVE  r.mmio[w] \in live' /\ cell'[r.mmio[w]] = r.mmio[w]
      <3>1. r.mmio[w] \in live /\ cell[r.mmio[w]] = r.mmio[w] /\ r.mmio[w] \in Tasks
        BY <1>4, <2>1
      <3>2. r.mmio[w] # next_task_id
        BY <1>2, <3>1
      <3>3. QED
        BY <1>2, <3>1, <3>2
    <2>3. QED
      BY <1>3, <2>1, <2>2 DEF ClaimPart
  <1>8. QuotaPart'
    <2>1. r.quota = {t \in live : t # 1 /\ cell[t] = t}
      BY <1>1 DEF QuotaPart
    <2>2. r'.quota = {t \in live' : t # 1 /\ cell'[t] = t}
      <3>1. \A t \in live : t \in Tasks \ {next_task_id}
        BY <1>2, <1>4
      <3>2. \A t \in live : cell'[t] = cell[t]
        BY <1>2, <3>1
      <3>3. c = next_task_id <=> c # 0
        BY <1>2, <1>4
      <3>4. \A t \in live : t \in r'.quota <=> t \in r.quota
        BY <3>1
      <3>5. \A t \in live : t \in r'.quota <=> t # 1 /\ cell'[t] = t
        BY <2>1, <3>2, <3>4
      <3>6. next_task_id \notin r.quota /\ r.quota \subseteq live
        BY <1>2, <2>1
      <3>7. next_task_id \in r'.quota <=> next_task_id # 1 /\ cell'[next_task_id] = next_task_id
        BY <1>2, <1>4, <3>3, <3>6
      <3>8. r'.quota \subseteq live'
        BY <1>2, <3>6
      <3>9. QED
        BY <1>2, <3>5, <3>7, <3>8, SMT
    <2>3. r'.quota \subseteq Tasks
      BY <1>2, <1>4, <2>2
    <2>4. QED
      BY <2>2, <2>3 DEF QuotaPart
  <1>9. VmPart'
    BY <1>1, <1>2, <1>3 DEF VmPart
  <1>10. QED
    BY <1>5, <1>6, <1>7, <1>8, <1>9
LEMMA PathQuota ==
    ASSUME IInv, r' = [r EXCEPT !.quota = @ \cup {next_task_id}]
    PROVE  /\ IsTables(r') /\ r'.quota = r.quota \cup {next_task_id}
           /\ \A n \in Fields \ {"quota"} : r'[n] = r[n]
  <1>1. IsTables(r)
    BY Basics
  <1>2. QED
    BY <1>1 DEF IsTables, Fields

LEMMA SpawnFromPathInv ==
    ASSUME IInv, NEW C \in SUBSET Kinds, spawn_from_path(C), UNCHANGED <<pending, how>>,
           frozen' \subseteq live', SwapPart'
    PROVE  IInv'
  <1> DEFINE c == next_task_id
  <1>1. Spawned(c, C) /\ r' = [r EXCEPT !.quota = @ \cup {next_task_id}]
    BY DEF spawn_from_path
  <1>2. TaskPart
    BY Parts
  <1>3. c # 0 /\ c \in {0, next_task_id}
    BY <1>2, BoundAssumption, SMT DEF TaskPart
  <1>4. TaskPart'
    BY <1>1, <1>2, <1>3, SpawnedTasks
  <1>5. /\ IsTables(r') /\ r'.quota = r.quota \cup {next_task_id}
        /\ \A n \in Fields \ {"quota"} : r'[n] = r[n]
    BY <1>1, PathQuota
  <1>6. r'.quota = IF c = 0 THEN r.quota ELSE r.quota \cup {next_task_id}
    BY <1>3, <1>5
  <1> HIDE DEF c
  <1>7. CapsPart' /\ GrantPart' /\ ClaimPart' /\ QuotaPart' /\ VmPart'
    BY <1>1, <1>3, <1>5, <1>6, SpawnedTables
  <1>8. QED
    BY <1>4, <1>5, <1>7, PartsNext

LEMMA SameSwap ==
    ASSUME IInv, UNCHANGED swap, live \subseteq live', next_task_id \in Nat,
           next_task_id' = next_task_id + 1
    PROVE  SwapPart'
  <1>1. SwapPart
    BY Parts
  <1>2. /\ DOMAIN swap \subseteq live
        /\ \A o \in DOMAIN swap :
              /\ swap[o] \in [old : Tasks, new : Tasks \cup {0}, ceiling : SUBSET Kinds]
              /\ swap[o].old < next_task_id
    BY <1>1 DEF SwapPart, Tables
  <1>3. ASSUME NEW o \in DOMAIN swap
        PROVE  swap[o].old < next_task_id + 1
    <2>1. swap[o].old \in Nat /\ swap[o].old < next_task_id
      BY <1>2, BoundAssumption, SMT DEF Tasks
    <2>2. QED
      BY <2>1, SMT
  <1>4. QED
    BY <1>2, <1>3 DEF SwapPart, Tables

LEMMA SpawnInv ==
    ASSUME IInv, NEW t \in live, NEW m \in Manifests, SpawnFromPath(t, m)
    PROVE  IInv'
  <1> DEFINE C == m \cap held[t]
  <1>1. spawn_from_path(C) /\ UNCHANGED <<frozen, swap, pending, how>>
    BY DEF SpawnFromPath
  <1>2. TaskPart /\ frozen \subseteq live
    BY Parts DEF TaskPart
  <1>3. C \in SUBSET Kinds
    BY ManifestAssumption
  <1> HIDE DEF C
  <1>4. next_task_id' = next_task_id + 1 /\ live' = live \cup {next_task_id}
    BY <1>1 DEF spawn_from_path, Spawned
  <1>5. SwapPart'
    BY <1>1, <1>2, <1>4, SameSwap, Bounds
  <1>6. frozen' \subseteq live'
    BY <1>1, <1>2, <1>4
  <1>7. QED
    BY <1>1, <1>3, <1>5, <1>6, SpawnFromPathInv

LEMMA SpawnFromMemInv ==
    ASSUME IInv, SpawnFromMem
    PROVE  IInv'
  <1> DEFINE c == 0
             C == {}
  <1>1. Spawned(c, C) /\ UNCHANGED <<frozen, swap, pending, r, how>>
    BY DEF SpawnFromMem
  <1>2. TaskPart /\ frozen \subseteq live /\ IsTables(r)
    BY Parts DEF TaskPart
  <1>3. c \in {0, next_task_id} /\ C \in SUBSET Kinds /\ C = {} /\ c = 0
    OBVIOUS
  <1> HIDE DEF c, C
  <1>4. next_task_id' = next_task_id + 1 /\ live' = live \cup {next_task_id}
    BY <1>1 DEF Spawned
  <1>5. SwapPart'
    BY <1>1, <1>2, <1>4, SameSwap, Bounds
  <1>6. frozen' \subseteq live'
    BY <1>1, <1>2, <1>4
  <1>7. TaskPart'
    BY <1>1, <1>2, <1>3, <1>6, SpawnedTasks
  <1>8. /\ IsTables(r') /\ r'.quota = IF c = 0 THEN r.quota ELSE r.quota \cup {next_task_id}
        /\ \A n \in Fields \ {"quota"} : r'[n] = r[n]
    BY <1>1, <1>2, <1>3
  <1>9. CapsPart' /\ GrantPart' /\ ClaimPart' /\ QuotaPart' /\ VmPart'
    BY <1>1, <1>3, <1>8, SpawnedTables
  <1>10. QED
    BY <1>5, <1>7, <1>8, <1>9, PartsNext

LEMMA HotSwapSpawnInv ==
    ASSUME IInv, NEW o \in DOMAIN swap, NEW m \in Manifests, HotSwapSpawn(o, m)
    PROVE  IInv'
  <1> DEFINE C == m \cap swap[o].ceiling
  <1>1. /\ spawn_from_path(C) /\ UNCHANGED <<pending, how>>
        /\ frozen' = frozen \cup ({swap[o].old} \cap live)
        /\ swap' = [swap EXCEPT ![o].new = next_task_id]
    BY DEF HotSwapSpawn
  <1>2. TaskPart /\ SwapPart /\ frozen \subseteq live
    BY Parts DEF TaskPart
  <1>3. C \in SUBSET Kinds
    BY ManifestAssumption
  <1> HIDE DEF C
  <1>4. /\ next_task_id \in Tasks
        /\ next_task_id' = next_task_id + 1 /\ live' = live \cup {next_task_id}
    BY <1>1 DEF spawn_from_path, Spawned
  <1>5. SwapPart'
    <2>1. /\ DOMAIN swap \subseteq live
          /\ \A x \in DOMAIN swap :
                /\ swap[x] \in [old : Tasks, new : Tasks \cup {0}, ceiling : SUBSET Kinds]
                /\ swap[x].old < next_task_id
      BY <1>2 DEF SwapPart, Tables
    <2>2. DOMAIN swap' = DOMAIN swap
      BY <1>1
    <2>3. ASSUME NEW x \in DOMAIN swap
          PROVE  /\ swap'[x] \in [old : Tasks, new : Tasks \cup {0}, ceiling : SUBSET Kinds]
                 /\ swap'[x].old = swap[x].old
      BY <1>1, <1>4, <2>1
    <2>4. ASSUME NEW x \in DOMAIN swap
          PROVE  swap[x].old < next_task_id + 1
      <3>1. swap[x].old \in Nat /\ swap[x].old < next_task_id /\ next_task_id \in Nat
        BY <1>4, <2>1, BoundAssumption, SMT DEF Tasks
      <3>2. QED
        BY <3>1, SMT
    <2>5. Tables(swap', live', [old : Tasks, new : Tasks \cup {0}, ceiling : SUBSET Kinds])
      BY <1>4, <2>1, <2>2, <2>3 DEF Tables
    <2>6. \A x \in DOMAIN swap' : swap'[x].old < next_task_id'
      BY <1>4, <2>2, <2>3, <2>4
    <2>7. QED
      BY <2>5, <2>6 DEF SwapPart
  <1>6. frozen' \subseteq live'
    BY <1>1, <1>2, <1>4
  <1>7. QED
    BY <1>1, <1>3, <1>5, <1>6, SpawnFromPathInv
LEMMA SameTables ==
    ASSUME IInv, UNCHANGED <<next_task_id, live, cell, pending, r, how>>, TaskPart', SwapPart'
    PROVE  IInv'
  <1>1. /\ IsTables(r) /\ CapsPart /\ GrantPart /\ ClaimPart /\ QuotaPart /\ VmPart
    BY Parts
  <1>2. /\ IsTables(r)' /\ CapsPart' /\ GrantPart' /\ ClaimPart' /\ QuotaPart' /\ VmPart'
    BY <1>1 DEF CapsPart, GrantPart, ClaimPart, QuotaPart, VmPart, GrantTables, FramesBacked, Dead
  <1>3. QED
    BY <1>2, PartsNext

LEMMA CapRevokeInv ==
    ASSUME IInv, NEW t, NEW u, NEW m, CapRevoke(t, u, m)
    PROVE  IInv'
  <1>1. /\ u \in live /\ held' = [held EXCEPT ![u] = @ \ m]
        /\ UNCHANGED <<next_task_id, live, frozen, cell, swap, pending, r, how>>
    BY DEF CapRevoke
  <1>2. TaskPart /\ SwapPart
    BY Parts
  <1>3. u \in Tasks
    BY <1>1, <1>2, Bounds
  <1>4. /\ held \in [Tasks -> SUBSET Kinds]
        /\ \A x \in Tasks : cell[x] \in {0, x} /\ (held[x] # {} => x \in live /\ cell[x] = x)
    BY <1>2 DEF TaskPart
  <1>5. held' \in [Tasks -> SUBSET Kinds] /\ \A x \in Tasks : held'[x] \subseteq held[x]
    BY <1>1, <1>3, <1>4
  <1>6. \A x \in Tasks : cell[x] \in {0, x} /\ (held'[x] # {} => x \in live /\ cell[x] = x)
    BY <1>4, <1>5
  <1>7. TaskPart'
    BY <1>1, <1>2, <1>5, <1>6 DEF TaskPart, Dead
  <1>8. SwapPart'
    BY <1>1, <1>2 DEF SwapPart
  <1>9. QED
    BY <1>1, <1>7, <1>8, SameTables

LEMMA HotSwapStartInv ==
    ASSUME IInv, NEW o \in live, NEW u \in live, HotSwapStart(o, u)
    PROVE  IInv'
  <1>1. /\ swap' = Put(swap, o, [old |-> u, new |-> 0, ceiling |-> held[u]])
        /\ UNCHANGED <<next_task_id, live, frozen, cell, held, pending, r, how>>
    BY DEF HotSwapStart
  <1>2. TaskPart /\ SwapPart
    BY Parts
  <1>3. u \in Tasks /\ u < next_task_id /\ held[u] \in SUBSET Kinds
    BY <1>2, Bounds DEF TaskPart
  <1> DEFINE e == [old |-> u, new |-> 0, ceiling |-> held[u]]
             S == [old : Tasks, new : Tasks \cup {0}, ceiling : SUBSET Kinds]
  <1>4. e \in S /\ e.old = u
    BY <1>3
  <1> HIDE DEF e
  <1>5. /\ DOMAIN swap' = DOMAIN swap \cup {o}
        /\ \A x \in DOMAIN swap' : swap'[x] = IF x = o THEN e ELSE swap[x]
    BY <1>1 DEF Put, e
  <1>6. /\ DOMAIN swap \subseteq live
        /\ \A x \in DOMAIN swap : swap[x] \in S /\ swap[x].old < next_task_id
    BY <1>2 DEF SwapPart, Tables
  <1> HIDE DEF S
  <1>7. /\ DOMAIN swap' \subseteq live'
        /\ \A x \in DOMAIN swap' : swap'[x] \in S /\ swap'[x].old < next_task_id'
    BY <1>1, <1>3, <1>4, <1>5, <1>6
  <1>8. SwapPart'
    BY <1>7 DEF SwapPart, Tables, S
  <1>9. TaskPart'
    BY <1>1, <1>2 DEF TaskPart, Dead
  <1>10. QED
    BY <1>1, <1>8, <1>9, SameTables

\* HotSwapRollback and HotSwapAbandon
LEMMA SwapEndsInv ==
    ASSUME IInv, NEW o, swap' = Drop(swap, o), frozen' \subseteq frozen,
           UNCHANGED <<next_task_id, live, cell, held, pending, r, how>>
    PROVE  IInv'
  <1>1. TaskPart /\ SwapPart
    BY Parts
  <1>2. TaskPart'
    BY <1>1 DEF TaskPart, Dead
  <1>3. /\ DOMAIN swap' \subseteq DOMAIN swap
        /\ \A x \in DOMAIN swap' : swap'[x] = swap[x]
    BY DEF Drop, Restrict
  <1>4. SwapPart'
    BY <1>1, <1>3 DEF SwapPart, Tables
  <1>5. QED
    BY <1>2, <1>4, SameTables
-----------------------------------------------------------------------------
\* The theorems

LEMMA InitInv == Init => IInv
  <1> SUFFICES ASSUME Init PROVE IInv
    OBVIOUS
  <1>1. /\ next_task_id = 2 /\ live = {1} /\ frozen = {} /\ pending = {}
        /\ cell = [t \in Tasks |-> IF t = 1 THEN 1 ELSE 0]
        /\ held = [t \in Tasks |-> IF t = 1 THEN Kinds ELSE {}]
        /\ swap = NoEntries
        /\ how = [t \in Tasks |-> "none"]
    BY DEF Init
  <1>2. /\ IsTables(r) /\ r.caps = NoEntries /\ r.next_id = 1 /\ r.page_table = FALSE
        /\ r.page = NoEntries /\ r.reg = NoEntries /\ r.used = {} /\ r.mmio = NoEntries
        /\ r.quota = {} /\ r.vms = {}
    BY DEF Init, IsTables, Fields
  <1>3. 1 \in Tasks /\ MaxTask \in Nat /\ MaxCap \in Nat /\ 2 \in 1 .. MaxTask + 1
    BY BoundAssumption, SMT DEF Tasks
  <1>4. TaskPart
    BY <1>1, <1>3, SMT DEF TaskPart, Dead
  <1>5. DOMAIN NoEntries = {}
    BY DEF NoEntries
  <1>6. SwapPart
    BY <1>1, <1>5 DEF SwapPart, Tables
  <1>7. CapsPart
    BY <1>2, <1>3, <1>5, SMT DEF CapsPart, Tables
  <1>8. GrantPart
    BY <1>2, <1>5 DEF GrantPart, GrantTables, Tables, FramesBacked
  <1>9. ClaimPart
    BY <1>2, <1>5 DEF ClaimPart, Tables
  <1>10. QuotaPart /\ VmPart
    BY <1>1, <1>2 DEF QuotaPart, VmPart
  <1>11. QED
    BY <1>2, <1>4, <1>6, <1>7, <1>8, <1>9, <1>10, Parts

\* the three things shown of every step
StepOK == IInv' /\ ReclaimStep /\ KeepStep

LEMMA DiesOK ==
    ASSUME IInv, Dies
    PROVE  StepOK
  BY DyingInv, DyingReclaims, DyingKeepsClaims DEF Dies, StepOK

\* a step in which nobody dies and no window is claimed
LEMMA QuietOK ==
    ASSUME IInv', Dead' = Dead, pending' = pending, r'.mmio = r.mmio
    PROVE  StepOK
  BY DEF StepOK, ReclaimStep, KeepStep, Gone

LEMMA UseOK ==
    ASSUME IInv, NEW t \in live, Use(t)
    PROVE  StepOK
  <1>1. IsTables(r)
    BY Basics
  <1>2. ASSUME UNCHANGED tasks, r'.mmio = r.mmio, IInv'
        PROVE  StepOK
    <2>1. Dead' = Dead /\ pending' = pending
      BY <1>2, SameTasks DEF tasks
    <2>2. QED
      BY <1>2, <2>1, QuietOK
  <1>3. CASE OpenCap(t)
    <2>1. UNCHANGED tasks /\ r'.mmio = r.mmio
      BY <1>1, <1>3 DEF OpenCap, IsTables, Fields
    <2>2. QED
      BY <1>2, <1>3, <2>1, OpenCapInv
  <1>4. CASE create_vm(t)
    <2>1. UNCHANGED tasks /\ r'.mmio = r.mmio
      BY <1>1, <1>4 DEF create_vm, IsTables, Fields
    <2>2. QED
      BY <1>2, <1>4, <2>1, CreateVmInv
  <1>5. ASSUME NEW id \in DOMAIN r.caps, CloseCap(t, id)
        PROVE  StepOK
    <2>1. UNCHANGED tasks /\ r'.mmio = r.mmio
      BY <1>1, <1>5 DEF CloseCap, IsTables, Fields
    <2>2. QED
      BY <1>2, <1>5, <2>1, CloseCapInv
  <1>6. ASSUME NEW f \in Frames, GrantAlloc(t, f)
        PROVE  StepOK
    <2>1. UNCHANGED tasks /\ r'.mmio = r.mmio
      BY <1>1, <1>6 DEF GrantAlloc, IsTables, Fields
    <2>2. QED
      BY <1>2, <1>6, <2>1, GrantAllocInv
  <1>7. ASSUME NEW f \in Frames, GrantRegister(t, f)
        PROVE  StepOK
    <2>1. UNCHANGED tasks /\ r'.mmio = r.mmio
      BY <1>1, <1>7 DEF GrantRegister, IsTables, Fields
    <2>2. QED
      BY <1>2, <1>7, <2>1, GrantRegisterInv
  <1>8. ASSUME NEW g \in r.used, NEW u \in Tasks, GrantShare(t, g, u)
        PROVE  StepOK
    <2>1. UNCHANGED tasks /\ r'.mmio = r.mmio
      BY <1>1, <1>8 DEF GrantShare, IsTables, Fields
    <2>2. QED
      BY <1>2, <1>8, <2>1, GrantShareInv
  <1>9. ASSUME NEW g \in r.used, GrantFree(t, g)
        PROVE  StepOK
    <2>1. UNCHANGED tasks /\ r'.mmio = r.mmio
      BY <1>1, <1>9 DEF GrantFree, IsTables, Fields
    <2>2. QED
      BY <1>2, <1>9, <2>1, GrantFreeInv
  <1>10. ASSUME NEW g \in r.used, GrantUnregister(t, g)
         PROVE  StepOK
    <2>1. UNCHANGED tasks /\ r'.mmio = r.mmio
      BY <1>1, <1>10 DEF GrantUnregister, IsTables, Fields
    <2>2. QED
      BY <1>2, <1>10, <2>1, GrantUnregisterInv
  <1>11. ASSUME NEW w \in Windows, NEW n \in {0, 1}, request_mmio(t, w, n)
         PROVE  StepOK
    <2>1. UNCHANGED tasks
      BY <1>11 DEF request_mmio
    <2>2. Dead' = Dead /\ pending' = pending
      BY <2>1, SameTasks DEF tasks
    <2>3. ReclaimStep
      BY <2>2 DEF ReclaimStep, Gone
    <2>4. QED
      BY <1>11, <2>3, RequestMmioInv DEF StepOK
  <1>12. QED
    BY <1>3, <1>4, <1>5, <1>6, <1>7, <1>8, <1>9, <1>10, <1>11 DEF Use
LEMMA ManageOK ==
    ASSUME IInv, NEW t \in live, Manage(t)
    PROVE  StepOK
  <1>1. TaskPart
    BY Parts
  <1>2. CASE SpawnFromMem
    <2>1. Spawned(0, {}) /\ UNCHANGED <<pending, r>>
      BY <1>2 DEF SpawnFromMem
    <2>2. Dead' = Dead
      BY <1>1, <2>1, SpawnedFacts
    <2>3. QED
      BY <1>2, <2>1, <2>2, SpawnFromMemInv, QuietOK
  <1>3. ASSUME NEW u \in live, NEW m \in Masks, CapRevoke(t, u, m)
        PROVE  StepOK
    <2>1. UNCHANGED <<next_task_id, live, pending, r>>
      BY <1>3 DEF CapRevoke
    <2>2. Dead' = Dead
      BY <2>1 DEF Dead
    <2>3. QED
      BY <1>3, <2>1, <2>2, CapRevokeInv, QuietOK
  <1>4. ASSUME NEW m \in Manifests, SpawnFromPath(t, m)
        PROVE  StepOK
    <2> DEFINE C == m \cap held[t]
               c == next_task_id
    <2>1. /\ Spawned(c, C) /\ r' = [r EXCEPT !.quota = @ \cup {next_task_id}]
          /\ pending' = pending
      BY <1>4 DEF SpawnFromPath, spawn_from_path
    <2>2. C \in SUBSET Kinds /\ c \in {0, next_task_id}
      BY ManifestAssumption
    <2> HIDE DEF C, c
    <2>3. Dead' = Dead
      BY <1>1, <2>1, <2>2, SpawnedFacts
    <2>4. r'.mmio = r.mmio
      BY <2>1, PathQuota DEF Fields
    <2>5. QED
      BY <1>4, <2>1, <2>3, <2>4, SpawnInv, QuietOK
  <1>5. ASSUME NEW u \in live, ForceExit(t, u)
        PROVE  StepOK
    BY <1>5, ForceExitDies, DiesOK
  <1>6. ASSUME NEW u \in live, HotSwapStart(t, u)
        PROVE  StepOK
    <2>1. UNCHANGED <<next_task_id, live, pending, r>>
      BY <1>6 DEF HotSwapStart
    <2>2. Dead' = Dead
      BY <2>1 DEF Dead
    <2>3. QED
      BY <1>6, <2>1, <2>2, HotSwapStartInv, QuietOK
  <1>7. ASSUME NEW K \in SUBSET live, Exit(t, K)
        PROVE  StepOK
    BY <1>7, ExitDies, DiesOK
  <1>8. QED
    BY <1>2, <1>3, <1>4, <1>5, <1>6, <1>7 DEF Manage

LEMMA SwapOK ==
    ASSUME IInv, NEW o \in DOMAIN swap,
           \/ \E m \in Manifests : HotSwapSpawn(o, m)
           \/ HotSwapRollback(o) \/ HotSwapAbandon(o) \/ HotSwapFinish(o)
    PROVE  StepOK
  <1>1. TaskPart
    BY Parts
  <1>2. ASSUME NEW m \in Manifests, HotSwapSpawn(o, m)
        PROVE  StepOK
    <2> DEFINE C == m \cap swap[o].ceiling
               c == next_task_id
    <2>1. /\ Spawned(c, C) /\ r' = [r EXCEPT !.quota = @ \cup {next_task_id}]
          /\ pending' = pending
      BY <1>2 DEF HotSwapSpawn, spawn_from_path
    <2>2. C \in SUBSET Kinds /\ c \in {0, next_task_id}
      BY ManifestAssumption
    <2> HIDE DEF C, c
    <2>3. Dead' = Dead
      BY <1>1, <2>1, <2>2, SpawnedFacts
    <2>4. r'.mmio = r.mmio
      BY <2>1, PathQuota DEF Fields
    <2>5. QED
      BY <1>2, <2>1, <2>3, <2>4, HotSwapSpawnInv, QuietOK
  <1>3. CASE HotSwapRollback(o) \/ HotSwapAbandon(o)
    <2>1. /\ swap' = Drop(swap, o) /\ frozen' \subseteq frozen
          /\ UNCHANGED <<next_task_id, live, cell, held, pending, r, how>>
      BY <1>3 DEF HotSwapRollback, HotSwapAbandon
    <2>2. Dead' = Dead
      BY <2>1 DEF Dead
    <2>3. QED
      BY <2>1, <2>2, SwapEndsInv, QuietOK
  <1>4. CASE HotSwapFinish(o)
    BY <1>4, HotSwapFinishDies, DiesOK
  <1>5. QED
    BY <1>2, <1>3, <1>4

LEMMA NextOK ==
    ASSUME IInv, Next
    PROVE  StepOK
  <1>1. ASSUME NEW t \in Callers \cap Users, Use(t)
        PROVE  StepOK
    BY <1>1, UseOK DEF Callers
  <1>2. ASSUME NEW t \in Callers, Manage(t)
        PROVE  StepOK
    BY <1>2, ManageOK DEF Callers
  <1>3. ASSUME NEW t \in live \ frozen, NEW K \in SUBSET live, Fault(t, K)
        PROVE  StepOK
    BY <1>3, FaultDies, DiesOK
  <1>4. ASSUME NEW K \in SUBSET live, Tick(K)
        PROVE  StepOK
    BY <1>4, TickDies, DiesOK
  <1>5. ASSUME NEW o \in DOMAIN swap \ frozen,
               \/ \E m \in Manifests : HotSwapSpawn(o, m)
               \/ HotSwapRollback(o) \/ HotSwapAbandon(o) \/ HotSwapFinish(o)
        PROVE  StepOK
    BY <1>5, SwapOK
  <1>6. QED
    BY <1>1, <1>2, <1>3, <1>4, <1>5 DEF Next

\* The invariant that the properties are read off
THEOREM Invariant == Spec => []IInv
  <1>1. IInv /\ [Next]_vars => IInv'
    <2>1. IInv /\ Next => IInv'
      BY NextOK DEF StepOK
    <2>2. ASSUME IInv, UNCHANGED vars
          PROVE  IInv'
      <3>1. UNCHANGED tasks /\ r' = r
        BY <2>2 DEF vars, tasks
      <3>2. TaskPart' /\ SwapPart'
        BY <2>2, <3>1, Parts, SameTasks
      <3>3. QED
        BY <2>2, <3>2, SameTables DEF vars
    <2>3. QED
      BY <2>1, <2>2
  <1>2. QED
    BY InitInv, <1>1, PTL DEF Spec

\* The tables keep their types: every entry names a task that was spawned, a
\* frame or a window of the system, and who waits to be reaped is dead.
THEOREM TypeCorrect == Spec => []TypeOK
  BY Invariant, PTL DEF IInv

\* No call and no way of dying frees a page that is still granted or forgets
\* one, whatever the number of tasks and frames.
THEOREM PagesAreBacked == Spec => []FramesBacked
  BY Invariant, PTL DEF IInv

\* Windows, quotas and page grants belong to tasks that live (or that the next
\* yield_cpu reaps), although windows are claimed by task id and released by
\* CellId.
THEOREM TablesNameTheLiving == Spec => []HeldByLiving
  BY Invariant, PTL DEF IInv

\* The dead leave nothing but the file capabilities of cells that faulted or
\* hung and the VMs of tasks that exited, were killed or were swapped out.
THEOREM DeadLeaveOnlyResidue == Spec => []Residue
  BY Invariant, PTL DEF IInv

\* With a page grant table, the step that reaps a dead task removes every
\* grant that names it.
THEOREM ReapedTasksNamedNowhere == Spec => DeathReclaims
  <1>1. IInv /\ [Next]_vars => [ReclaimStep]_vars
    BY NextOK DEF StepOK
  <1>2. QED
    BY Invariant, <1>1, PTL DEF Spec, DeathReclaims, ReclaimStep

\* No death and no end of a swap takes a device window from a task that lives
\* on, although windows are released by CellId.
THEOREM DeathsTakeNoWindow == Spec => DeathsKeepClaims
  <1>1. IInv /\ [Next]_vars => [KeepStep]_vars
    BY NextOK DEF StepOK
  <1>2. QED
    BY Invariant, <1>1, PTL DEF Spec, DeathsKeepClaims, KeepStep
=============================================================================
