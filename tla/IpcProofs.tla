----------------------------- MODULE IpcProofs -----------------------------
(***************************************************************************)
(* Proofs about the task table, for any number of tasks.  The first four   *)
(* theorems hold whatever system calls the cells are allowed to make, and  *)
(* are proved together: NoOrphanWait needs to know that a waiter is on the *)
(* list that exit_task reads, and TypeOK needs that only a sleeping or     *)
(* receiving task has a deadline, and that an id that spawn will give out  *)
(* next is not in use.                                                     *)
(*                                                                         *)
(* The last part is about cells that block where they wait: EInv counts    *)
(* every task's entries in the ready queue and on the lists of waiters.    *)
(***************************************************************************)
EXTENDS Ipc, FiniteSetTheorems, TLAPS

\* A deadline belongs to a task that sleeps or receives.
DeadlineInv ==
    \A t \in Tids : dl[t] # None => st[t] \in {"Sleeping", "Recv"}

\* An id that spawn has not given out yet is not in the task table.
FreshInv == \A t \in Tids : t >= nid => st[t] = "Gone"

Safety == FreshInv /\ DeadlineInv /\ Rendezvous /\ NoLostTask /\ NoOrphanWait
IInv == TypeOK /\ Safety

\* a leaf that names no prover is Zenon's
USE ZenonT(30)

-----------------------------------------------------------------------------

\* Queues stay queues.
LEMMA QueueGrows ==
    ASSUME NEW D, NEW q \in Seq(D)
    PROVE  /\ \A r \in Seq(D) : q \o r \in Seq(D)
           /\ \A e \in D : Append(q, e) \in Seq(D)
  BY SMT

LEMMA QueueShrinks ==
    ASSUME NEW D, NEW q \in Seq(D), q # << >>
    PROVE  Head(q) \in D /\ Tail(q) \in Seq(D)
  BY SMT

\* One more entry in a table of counts
LEMMA OneMore ==
    ASSUME NEW f \in [Tids -> [Tids -> Int]], NEW a \in Tids, NEW b \in Tids
    PROVE  \A w, e \in Tids : [f EXCEPT ![a][b] = @ + 1][w][e]
                              = f[w][e] + (IF w = a /\ e = b THEN 1 ELSE 0)
<1> TAKE w \in Tids, e \in Tids
<1>1. f[w][e] \in Int
  OBVIOUS
<1>2. f[w][e] + 0 = f[w][e]
  BY <1>1, SMT
<1>3. CASE w = a /\ e = b
  BY <1>3
<1>4. CASE ~(w = a /\ e = b)
  BY <1>2, <1>4
<1> QED
  BY <1>3, <1>4

\* The notices of d in a queue, as queues of deaths grow and shrink
LEMMA NamingFinite ==
    ASSUME NEW D, NEW q \in Seq(D), NEW d
    PROVE  /\ IsFiniteSet(Naming(q, d)) /\ Notices(q, d) \in Nat
           /\ Len(q) \in Nat
<1>1. Len(q) \in Nat
  BY SMT
<1>2. IsFiniteSet(1 .. Len(q))
  BY <1>1, FS_Interval, SMT
<1>3. IsFiniteSet(Naming(q, d))
  BY <1>2, FS_Subset DEF Naming
<1> QED
  BY <1>1, <1>3, FS_CardinalityType DEF Notices

LEMMA NoticesEmpty ==
    ASSUME NEW d
    PROVE  Notices(<< >>, d) = 0
<1>1. Naming(<< >>, d) = {}
  BY SMT DEF Naming
<1> QED
  BY <1>1, FS_EmptySet DEF Notices

LEMMA NoticesAppend ==
    ASSUME NEW D, NEW q \in Seq(D), NEW e \in D, NEW d
    PROVE  Notices(Append(q, e), d) = Notices(q, d) + (IF e[1] = d THEN 1 ELSE 0)
<1>1. IsFiniteSet(Naming(q, d)) /\ Notices(q, d) \in Nat /\ Len(q) \in Nat
  BY NamingFinite
<1>2. /\ Len(Append(q, e)) = Len(q) + 1 /\ Append(q, e)[Len(q) + 1] = e
      /\ \A i \in 1 .. Len(q) : Append(q, e)[i] = q[i]
  BY SMT
<1>3. /\ 1 .. (Len(q) + 1) = (1 .. Len(q)) \cup {Len(q) + 1}
      /\ Len(q) + 1 \notin 1 .. Len(q)
  BY <1>1, SMT
<1>4. CASE e[1] = d
  <2>1. Naming(Append(q, e), d) = Naming(q, d) \cup {Len(q) + 1}
    BY <1>2, <1>3, <1>4, SMT DEF Naming
  <2>2. Len(q) + 1 \notin Naming(q, d)
    BY <1>3 DEF Naming
  <2> QED
    BY <1>1, <1>4, <2>1, <2>2, FS_AddElement DEF Notices
<1>5. CASE e[1] # d
  <2>1. Naming(Append(q, e), d) = Naming(q, d)
    BY <1>2, <1>3, <1>5, SMT DEF Naming
  <2> QED
    BY <1>1, <1>5, <2>1, SMT DEF Notices
<1> QED
  BY <1>4, <1>5

LEMMA NoticesTail ==
    ASSUME NEW D, NEW q \in Seq(D), q # << >>, NEW d
    PROVE  Notices(Tail(q), d) = Notices(q, d) - (IF Head(q)[1] = d THEN 1 ELSE 0)
<1>1. IsFiniteSet(Naming(q, d)) /\ Notices(q, d) \in Nat /\ Len(q) \in Nat
  BY NamingFinite
<1>2. /\ Len(Tail(q)) = Len(q) - 1 /\ Head(q) = q[1] /\ Len(q) > 0
      /\ \A i \in 1 .. Len(q) - 1 : Tail(q)[i] = q[i + 1]
  BY SMT
<1> DEFINE S == Naming(Tail(q), d)
           T == Naming(q, d) \ {1}
           f == [i \in T |-> i - 1]
<1>3. f \in Bijection(T, S)
  <2>1. \A i \in T : i \in 2 .. Len(q) /\ q[i][1] = d
    BY <1>1, SMT DEF Naming
  <2>2. \A i \in T : i - 1 \in 1 .. Len(q) - 1 /\ Tail(q)[i - 1] = q[i]
    <3> TAKE i \in T
    <3>1. i \in 2 .. Len(q)
      BY <2>1
    <3>2. i - 1 \in 1 .. Len(q) - 1 /\ (i - 1) + 1 = i
      BY <1>1, <3>1, SMT
    <3> QED
      BY <1>2, <3>2
  <2>3. \A i \in T : i - 1 \in S
    BY <1>2, <2>1, <2>2 DEF Naming
  <2>4. \A j \in S : j + 1 \in T /\ (j + 1) - 1 = j
    <3> TAKE j \in S
    <3>1. j \in 1 .. Len(q) - 1 /\ Tail(q)[j][1] = d
      BY <1>2 DEF Naming
    <3>2. j + 1 \in 1 .. Len(q) /\ j + 1 # 1 /\ (j + 1) - 1 = j
      BY <1>1, <3>1, SMT
    <3> QED
      BY <1>2, <3>1, <3>2 DEF Naming
  <2>5. \A i, k \in T : i - 1 = k - 1 => i = k
    BY <1>1, <2>1, SMT
  <2> HIDE DEF S, T
  <2>6. f \in [T -> S]
    BY <2>3
  <2>7. \A i, k \in T : f[i] = f[k] => i = k
    BY <2>5
  <2>8. \A j \in S : \E i \in T : f[i] = j
    <3> TAKE j \in S
    <3>1. j + 1 \in T /\ f[j + 1] = j
      BY <2>4
    <3> QED
      BY <3>1
  <2> QED
    BY <2>6, <2>7, <2>8 DEF Bijection, Injection, Surjection, IsInjective
<1>4. IsFiniteSet(T)
  BY <1>1, FS_RemoveElement
<1>5. Cardinality(T) = Notices(q, d) - (IF Head(q)[1] = d THEN 1 ELSE 0)
  <2>1. 1 \in Naming(q, d) <=> Head(q)[1] = d
    BY <1>1, <1>2, SMT DEF Naming
  <2>2. Cardinality(T) = IF 1 \in Naming(q, d) THEN Cardinality(Naming(q, d)) - 1
                         ELSE Cardinality(Naming(q, d))
    BY <1>1, FS_RemoveElement
  <2> QED
    BY <1>1, <2>1, <2>2, SMT DEF Notices
<1>6. Cardinality(S) = Cardinality(T)
  <2>1. ExistsBijection(T, S)
    BY <1>3 DEF ExistsBijection
  <2> HIDE DEF S, T
  <2> QED
    BY <1>4, <2>1, FS_Bijection
<1> QED
  BY <1>5, <1>6 DEF Notices

LEMMA NoticesConcat ==
    ASSUME NEW D, NEW q \in Seq(D), NEW e \in D, NEW k \in Nat, NEW d,
           NEW r, r = [i \in 1 .. k |-> e]
    PROVE  /\ e[1] = d => Notices(q \o r, d) = Notices(q, d) + k
           /\ e[1] # d => Notices(q \o r, d) = Notices(q, d) + 0
<1>1. IsFiniteSet(Naming(q, d)) /\ Notices(q, d) \in Nat /\ Len(q) \in Nat
  BY NamingFinite
<1>2. r \in Seq(D) /\ Len(r) = k /\ \A i \in 1 .. k : r[i] = e
  BY SMT
<1>3. /\ Len(q \o r) = Len(q) + k
      /\ \A i \in 1 .. Len(q) : (q \o r)[i] = q[i]
      /\ \A i \in Len(q) + 1 .. Len(q) + k : (q \o r)[i] = e
  BY <1>1, <1>2, SMT
<1>4. /\ 1 .. (Len(q) + k) = (1 .. Len(q)) \cup (Len(q) + 1 .. Len(q) + k)
      /\ (1 .. Len(q)) \cap (Len(q) + 1 .. Len(q) + k) = {}
  BY <1>1, SMT
<1>5. CASE e[1] = d
  <2>1. Naming(q \o r, d) = Naming(q, d) \cup (Len(q) + 1 .. Len(q) + k)
    BY <1>3, <1>4, <1>5, SMT DEF Naming
  <2>2. /\ IsFiniteSet(Len(q) + 1 .. Len(q) + k)
        /\ Cardinality(Len(q) + 1 .. Len(q) + k) = k
    <3>1. Len(q) + 1 \in Int /\ Len(q) + k \in Int
      BY <1>1, SMT
    <3>2. PICK a \in Int, b \in Int : a = Len(q) + 1 /\ b = Len(q) + k
      BY <3>1
    <3>3. IsFiniteSet(a .. b) /\ Cardinality(a .. b) = IF a > b THEN 0 ELSE b - a + 1
      BY FS_Interval
    <3> QED
      BY <1>1, <3>2, <3>3, SMT
  <2>3. Naming(q, d) \cap (Len(q) + 1 .. Len(q) + k) = {}
    BY <1>4 DEF Naming
  <2>4. Cardinality(Naming(q \o r, d)) = Cardinality(Naming(q, d)) + k - 0
    <3>1. PICK T : T = Len(q) + 1 .. Len(q) + k
      OBVIOUS
    <3>2. Cardinality(Naming(q, d) \cup T)
            = Cardinality(Naming(q, d)) + Cardinality(T) - Cardinality(Naming(q, d) \cap T)
      BY <1>1, <2>2, <3>1, FS_Union
    <3> QED
      BY <2>1, <2>2, <2>3, <3>1, <3>2, FS_EmptySet
  <2> QED
    BY <1>1, <1>5, <2>4, SMT DEF Notices
<1>6. CASE e[1] # d
  <2>1. Naming(q \o r, d) = Naming(q, d)
    BY <1>3, <1>4, <1>6, SMT DEF Naming
  <2> QED
    BY <1>1, <1>6, <2>1, SMT DEF Notices
<1> QED
  BY <1>5, <1>6
-----------------------------------------------------------------------------

LEMMA Values == None # MAX /\ None \notin Nat /\ MAX \notin Nat
             /\ None \notin Tids /\ 0 \notin Tids /\ Tids \subseteq Nat
  BY TidsAssumption, SMT DEF None, MAX, Tids

\* What a caller and a buffer may be
LEMMA FrameValues ==
    /\ NoMsg \in Bufs /\ \A s \in Tids \cup {0} : Msg(s) \in Bufs
    /\ None \in Callers /\ 0 \in Callers /\ Tids \subseteq Callers
  BY DEF Bufs, Callers

LEMMA InitIInv == Init => IInv
<1> SUFFICES ASSUME Init PROVE IInv
  OBVIOUS
<1> USE TidsAssumption DEF Init, Zero
<1>1. TypeOK
  <2>1. deaths \in [Tids -> Seq(Tids \X (Nat \cup {MAX}))]
    BY SMT
  <2> QED
    BY <2>1, FrameValues, SMT DEF TypeOK, States, Konts, Wakes, Tids
<1>2. Safety
  BY SMT DEF Safety, FreshInv, Tids, DeadlineInv, Rendezvous, Senders, NoLostTask, NoOrphanWait
<1> QED
  BY <1>1, <1>2 DEF IInv

-----------------------------------------------------------------------------
(* Death *)

\* The counts of queue and list entries are natural numbers.
LEMMA Counts ==
    ASSUME TypeOK, NEW x \in Tids, NEW t \in Tids
    PROVE  /\ ready[t] \in Nat /\ waiters[x][t] \in Nat /\ subs[x][t] \in Nat
           /\ Pushes(x, t) \in Nat
           /\ t \in StuckSenders(x) \cup LiveWaiters(x) \cup ParkedWatchers(x)
                => Pushes(x, t) > 0
           /\ QueuedDeaths(x, t) \in Nat
<1>1. ready[t] \in Nat /\ waiters[x][t] \in Nat /\ subs[x][t] \in Nat
  BY DEF TypeOK
<1>2. t \in LiveWaiters(x) => waiters[x][t] > 0
  BY DEF LiveWaiters
<1>3. t \in ParkedWatchers(x) => subs[x][t] > 0
  BY DEF ParkedWatchers
<1>4. Pushes(x, t) \in Nat
  BY <1>1, SMT DEF Pushes
<1>5. t \in StuckSenders(x) \cup LiveWaiters(x) \cup ParkedWatchers(x)
        => Pushes(x, t) > 0
  BY <1>1, <1>2, SMT DEF Pushes
<1>6. QueuedDeaths(x, t) \in Nat
  BY <1>1, <1>3, SMT DEF QueuedDeaths
<1> QED
  BY <1>1, <1>4, <1>5, <1>6

\* The queue of deaths a task is left with is a queue of deaths.
LEMMA ExitDeathsType ==
    ASSUME TypeOK, NEW x \in Tids, NEW reason \in Nat \cup {MAX}, exit_task(x, reason)
    PROVE  deaths' \in [Tids -> Seq(Tids \X (Nat \cup {MAX}))]
<1> DEFINE D == Tids \X (Nat \cup {MAX})
<1>1. \A t \in Tids : QueuedDeaths(x, t) \in Nat
  BY Counts
<1>2. \A k \in Nat : [i \in 1 .. k |-> <<x, reason>>] \in Seq(D)
  BY SMT
<1>3. \A t \in Tids : deaths[t] \in Seq(D)
  BY DEF TypeOK
<1> HIDE DEF D
<1>4. \A t \in Tids :
         deaths[t] \o [i \in 1 .. QueuedDeaths(x, t) |-> <<x, reason>>] \in Seq(D)
  <2> TAKE t \in Tids
  <2> DEFINE q == [i \in 1 .. QueuedDeaths(x, t) |-> <<x, reason>>]
  <2>1. q \in Seq(D) /\ deaths[t] \in Seq(D)
    BY <1>1, <1>2, <1>3
  <2> HIDE DEF q
  <2>2. deaths[t] \o q \in Seq(D)
    BY <2>1, QueueGrows
  <2> QED
    BY <2>2 DEF q
<1>5. deaths' \in [Tids -> Seq(D)]
  BY <1>4, SMT DEF exit_task
<1> QED
  BY <1>5 DEF D

\* The record of a dead task leaves everything else well formed.
LEMMA ExitType ==
    ASSUME TypeOK, NEW x \in Tids, NEW reason \in Nat \cup {MAX}, exit_task(x, reason),
           nid' \in 1 .. N + 1, cur' \in Tids \cup {0},
           cpu' \in {"user", "sweep", "pick", "lost"}, UNCHANGED ctx
    PROVE  TypeOK'
<1>1. deaths' \in [Tids -> Seq(Tids \X (Nat \cup {MAX}))]
  BY ExitDeathsType
<1>2. \A t \in Tids : ready[t] \in Nat /\ Pushes(x, t) \in Nat
  BY Counts
<1>3. ready' \in [Tids -> Nat]
  BY <1>2, SMT DEF exit_task, ReadyAfterExit
<1>4. /\ st' \in [Tids -> States] /\ tgt' \in [Tids -> Tids \cup {0}]
      /\ dl' \in [Tids -> Nat \cup {None}] /\ hb' \in [Tids -> Nat \cup {None}]
  BY DEF exit_task, TypeOK, States
<1>5. /\ cc' \in [Tids -> Callers] /\ rv' \in [Tids -> Nat \cup {None, MAX}]
      /\ xr' \in [Tids -> Nat \cup {None, MAX}]
  BY FrameValues DEF exit_task, TypeOK
<1>6. /\ waiters' \in [Tids -> [Tids -> Nat]] /\ subs' \in [Tids -> [Tids -> Nat]]
      /\ owed' \in [Tids -> [Tids -> Int]]
  BY SMTT(20) DEF exit_task, TypeOK, Zero
<1>7. /\ kont' \in [Tids -> Konts] /\ woke' \in [Tids -> Wakes]
      /\ buf' \in [Tids -> Bufs]
  BY FrameValues DEF exit_task, TypeOK, Konts, Wakes
<1> QED
  BY <1>1, <1>3, <1>4, <1>5, <1>6, <1>7 DEF TypeOK, ctx

\* Everybody who waits for x is woken, and nobody else changes state.
LEMMA ExitStates ==
    ASSUME IInv, NEW x \in Tids, NEW reason, exit_task(x, reason)
    PROVE  \A t \in Tids :
             /\ st'[t] = "Gone" <=> st[t] = "Gone" \/ t = x
             /\ st'[t] = "Ready" => ready'[t] > 0
             /\ st'[t] \notin {"Gone", "Ready"} =>
                    t # x /\ st'[t] = st[t] /\ tgt'[t] = tgt[t] /\ dl'[t] = dl[t]
             /\ st'[t] \in {"Sending", "Waiting"} => tgt[t] # x
<1> SUFFICES ASSUME NEW t \in Tids
             PROVE  /\ st'[t] = "Gone" <=> st[t] = "Gone" \/ t = x
                    /\ st'[t] = "Ready" => ready'[t] > 0
                    /\ st'[t] \notin {"Gone", "Ready"} =>
                          t # x /\ st'[t] = st[t] /\ tgt'[t] = tgt[t] /\ dl'[t] = dl[t]
                    /\ st'[t] \in {"Sending", "Waiting"} => tgt[t] # x
  OBVIOUS
<1> DEFINE woken == StuckSenders(x) \cup LiveWaiters(x) \cup ParkedWatchers(x)
<1> USE DEF IInv, Safety
<1>1. /\ st'[t] = IF t = x THEN "Gone" ELSE IF t \in woken THEN "Ready" ELSE st[t]
      /\ tgt'[t] = IF t = x \/ t \in woken THEN 0 ELSE tgt[t]
      /\ dl'[t] = IF t = x \/ t \in woken THEN None ELSE dl[t]
      /\ ready'[t] = IF t = x THEN 0 ELSE ready[t] + Pushes(x, t)
  BY DEF exit_task, ReadyAfterExit
<1>2. ready[t] \in Nat /\ Pushes(x, t) \in Nat
  BY Counts
<1>3. t \in woken => Pushes(x, t) > 0
  BY Counts
<1>4. st[t] = "Ready" => ready[t] > 0
  BY DEF NoLostTask
<1>5. st[t] = "Sending" /\ tgt[t] = x /\ t # x => t \in woken
  BY DEF StuckSenders
<1>6. st[t] = "Waiting" /\ tgt[t] = x /\ t # x => t \in woken
  BY DEF NoOrphanWait, LiveWaiters, Live
<1>7. t \in woken => st[t] # "Gone"
  BY DEF StuckSenders, LiveWaiters, ParkedWatchers, Live
<1> HIDE DEF woken
<1> QED
  BY <1>1, <1>2, <1>3, <1>4, <1>5, <1>6, <1>7, SMT

\* exit_task preserves the invariant, up to what its callers do to the hart.
LEMMA ExitInv ==
    ASSUME IInv, NEW x \in Tids, NEW reason \in Nat \cup {MAX}, exit_task(x, reason),
           nid' = nid, cpu' \in {"user", "sweep", "pick", "lost"}, UNCHANGED ctx,
           cur' = cur \/ (cur' = 0 /\ cur = x)
    PROVE  IInv'
<1> USE DEF IInv, Safety
<1>1. TypeOK'
  BY ExitType DEF TypeOK
<1>2. DeadlineInv'
  BY ExitStates DEF DeadlineInv, exit_task, TypeOK
<1>3. Rendezvous'
  BY ExitStates, SMT DEF Rendezvous, Senders
<1>4. NoLostTask'
  BY ExitStates, SMTT(20) DEF NoLostTask
<1>5. NoOrphanWait'
  <2> SUFFICES ASSUME NEW t \in Tids, st'[t] \in {"Sending", "Waiting"}
               PROVE  /\ tgt'[t] \in Tids /\ st'[tgt'[t]] # "Gone"
                      /\ st'[t] = "Waiting" => waiters'[tgt'[t]][t] > 0
    BY DEF NoOrphanWait, Live
  <2>1. st'[t] = st[t] /\ tgt'[t] = tgt[t] /\ tgt[t] # x
    BY ExitStates
  <2>2. tgt[t] \in Tids /\ st[tgt[t]] # "Gone"
    BY <2>1 DEF NoOrphanWait, Live
  <2>3. waiters'[tgt[t]] = waiters[tgt[t]]
    BY <2>1, <2>2 DEF exit_task, TypeOK
  <2> QED
    BY <2>1, <2>2, <2>3, ExitStates, SMT DEF NoOrphanWait
<1>6. FreshInv'
  BY ExitStates DEF FreshInv
<1> QED
  BY <1>1, <1>2, <1>3, <1>4, <1>5, <1>6
-----------------------------------------------------------------------------
(* The shapes of a step: a task is made Ready, a task parks, or neither *)

\* A task that is made Ready and pushed keeps the invariant.
LEMMA Wakes1 ==
    ASSUME IInv, NEW d \in Tids, st[d] # "Gone",
           st' = [st EXCEPT ![d] = "Ready"],
           ready' = push_ready(d),
           tgt' \in {tgt, [tgt EXCEPT ![d] = 0]},
           dl'[d] = None, \A t \in Tids \ {d} : dl'[t] = dl[t],
           UNCHANGED <<waiters, nid, cur>>
    PROVE  Safety'
<1> USE DEF IInv, Safety
<1>1. \A t \in Tids \ {d} : st'[t] = st[t] /\ tgt'[t] = tgt[t] /\ ready'[t] = ready[t]
  BY DEF TypeOK, push_ready
<1>2. st'[d] = "Ready" /\ ready'[d] = ready[d] + 1 /\ ready[d] \in Nat
  BY DEF TypeOK, push_ready
<1>3. FreshInv'
  BY <1>1, <1>2 DEF FreshInv
<1>4. DeadlineInv'
  BY <1>1, <1>2 DEF DeadlineInv
<1>5. Rendezvous'
  BY <1>1, <1>2, SMT DEF Rendezvous, Senders
<1>6. NoLostTask'
  BY <1>1, <1>2, SMT DEF NoLostTask
<1>7. NoOrphanWait'
  BY <1>1, <1>2 DEF NoOrphanWait, Live
<1> QED
  BY <1>3, <1>4, <1>5, <1>6, <1>7

\* A task that parks keeps the invariant, if what it waits for is there.
LEMMA Parks ==
    ASSUME IInv, NEW t \in Tids, st[t] # "Gone",
           NEW s \in {"Sending", "Recv", "Waiting", "Sleeping"},
           NEW d \in Tids \cup {0}, NEW e,
           st' = [st EXCEPT ![t] = s],
           tgt' = [tgt EXCEPT ![t] = d],
           dl' = [dl EXCEPT ![t] = e],
           e # None => s \in {"Sleeping", "Recv"},
           s = "Sending" => d \in Tids /\ st[d] \notin {"Gone", "Recv"},
           s = "Recv" => Senders(t) = {},
           s = "Waiting" => d \in Tids /\ st[d] # "Gone" /\ waiters'[d][t] > 0,
           \A p, u \in Tids : waiters[p][u] > 0 => waiters'[p][u] > 0,
           UNCHANGED <<ready, nid, cur>>
    PROVE  Safety'
<1> USE DEF IInv, Safety
<1>1. \A u \in Tids \ {t} : st'[u] = st[u] /\ tgt'[u] = tgt[u] /\ dl'[u] = dl[u]
  BY DEF TypeOK
<1>2. st'[t] = s /\ tgt'[t] = d /\ dl'[t] = e
  BY DEF TypeOK
<1>3. FreshInv'
  BY <1>1, <1>2 DEF FreshInv
<1>4. DeadlineInv'
  BY <1>1, <1>2 DEF DeadlineInv
<1>5. Rendezvous'
  BY <1>1, <1>2, SMT DEF Rendezvous, Senders
<1>6. NoLostTask'
  BY <1>1, <1>2 DEF NoLostTask
<1>7. NoOrphanWait'
  BY <1>1, <1>2, SMT DEF NoOrphanWait, Live
<1> QED
  BY <1>3, <1>4, <1>5, <1>6, <1>7

\* A step that changes no state and takes nothing from the queues keeps it.
LEMMA Quiet ==
    ASSUME IInv, UNCHANGED <<st, tgt, dl, waiters, nid, cur>>,
           \A t \in Tids : ready[t] > 0 => ready'[t] > 0
    PROVE  Safety'
  BY DEF IInv, Safety, FreshInv, DeadlineInv, Rendezvous, Senders,
         NoLostTask, NoOrphanWait, Live

-----------------------------------------------------------------------------
(* One lemma per system call *)

\* Pushing a task, and ending its wait, leaves queues and frames well formed.
LEMMA PushType ==
    ASSUME TypeOK, NEW d \in Tids
    PROVE  push_ready(d) \in [Tids -> Nat]
<1>1. ready \in [Tids -> Nat]
  BY DEF TypeOK
<1>2. ready[d] + 1 \in Nat
  BY <1>1, SMT
<1> QED
  BY <1>1, <1>2 DEF push_ready

LEMMA EndedType ==
    ASSUME TypeOK, NEW d \in Tids, NEW w \in Wakes
    PROVE  Ended(d, w) \in [Tids -> Wakes]
  BY DEF TypeOK, Ended

LEMMA DeliverInv ==
    ASSUME IInv, NEW t \in Tids \cup {0}, NEW d \in Tids, Deliver(t, d), UNCHANGED hart
    PROVE  IInv'
<1>1. TypeOK'
  <2>1. buf' \in [Tids -> Bufs]
    BY FrameValues DEF IInv, TypeOK, Deliver, Fill
  <2>2. woke' \in [Tids -> Wakes]
    <3>1. "msg" \in Wakes
      BY DEF Wakes
    <3> QED
      BY <3>1, EndedType DEF IInv, Deliver
  <2>3. ready' \in [Tids -> Nat]
    BY PushType DEF IInv, Deliver
  <2> QED
    BY <2>1, <2>2, <2>3, FrameValues DEF IInv, TypeOK, Deliver, hart, ctx, States
<1>2. Safety'
  <2>1. dl'[d] = None /\ \A u \in Tids \ {d} : dl'[u] = dl[u]
    BY DEF IInv, TypeOK, Deliver
  <2> QED
    BY <2>1, Wakes1 DEF Deliver, hart, Live
<1> QED
  BY <1>1, <1>2 DEF IInv

\* What is left of BlockInSend and BlockInRecv when the handler parks or returns
LEMMA BlockInSendInv ==
    ASSUME IInv, NEW t \in Tids, NEW d \in Tids, Live(t), BlockInSend(t, d),
           kont' \in [Tids -> Konts], woke' \in [Tids -> Wakes],
           buf' \in [Tids -> Bufs],
           cpu' \in {"user", "pick"}, UNCHANGED <<nid, cur, ctx>>
    PROVE  IInv'
<1>1. TypeOK'
  BY Values DEF IInv, TypeOK, BlockInSend, queues, ctx, States
<1>2. Safety'
  BY Parks DEF BlockInSend, queues, Live
<1> QED
  BY <1>1, <1>2 DEF IInv

LEMMA BlockInRecvInv ==
    ASSUME IInv, NEW t \in Tids, NEW d \in Nat \cup {None}, Live(t), BlockInRecv(t, d),
           kont' \in [Tids -> Konts], woke' \in [Tids -> Wakes],
           buf' \in [Tids -> Bufs],
           cpu' \in {"user", "pick"}, UNCHANGED <<nid, cur, ctx>>
    PROVE  IInv'
<1>1. TypeOK'
  BY Values DEF IInv, TypeOK, BlockInRecv, queues, ctx, States
<1>2. Safety'
  BY Parks DEF BlockInRecv, queues, Live
<1> QED
  BY <1>1, <1>2 DEF IInv

\* The frames of a task that parks are well formed.
LEMMA ParkFrames ==
    ASSUME IInv, NEW t \in Tids, NEW k \in Konts, Park(t, k)
    PROVE  /\ kont' \in [Tids -> Konts] /\ woke' \in [Tids -> Wakes]
           /\ buf' \in [Tids -> Bufs]
           /\ cpu' = "pick" /\ UNCHANGED <<nid, cur, ctx>>
  BY FrameValues DEF IInv, TypeOK, Park, Wakes

\* A handler that only returns keeps the invariant.
LEMMA ReturnsInv ==
    ASSUME IInv, UNCHANGED <<task, queues, frames, owed>>, UNCHANGED hart
    PROVE  IInv'
<1>1. TypeOK'
  BY DEF IInv, TypeOK, task, queues, frames, hart, ctx
<1>2. Safety'
  BY Quiet DEF task, queues, hart
<1> QED
  BY <1>1, <1>2 DEF IInv

LEMMA SendInv ==
    ASSUME IInv, NEW t \in Tids, NEW d \in Tids, Send(t, d)
    PROVE  IInv'
<1>1. CASE Return("Send", MAX) /\ UNCHANGED <<task, queues, frames, owed>>
  BY <1>1, ReturnsInv DEF Return
<1>2. CASE Deliver(t, d) /\ Return("Send", 0)
  BY <1>2, DeliverInv DEF Return
<1>3. CASE BlockInSend(t, d) /\ Park(t, "send")
  <2>1. "send" \in Konts
    BY DEF Konts
  <2> QED
    BY <1>3, <2>1, ParkFrames, BlockInSendInv DEF Send, Enter
<1> QED
  BY <1>1, <1>2, <1>3 DEF Send

LEMMA KernelSendInv ==
    ASSUME IInv, NEW d \in Input, KernelSend(d)
    PROVE  IInv'
  BY DeliverInv, InputAssumption DEF KernelSend

LEMMA SendGatherInv ==
    ASSUME IInv, NEW t \in Tids, NEW d \in Tids, SendGather(t, d)
    PROVE  IInv'
<1>1. CASE Return("SendGather", MAX) /\ UNCHANGED <<task, queues, frames, owed>>
  BY <1>1, ReturnsInv DEF Return
<1>2. CASE Deliver(t, d) /\ Return("SendGather", 0)
  BY <1>2, DeliverInv DEF Return
<1>3. CASE BlockInSend(t, d) /\ Return("SendGather", 1) /\ UNCHANGED frames
  <2>1. /\ kont' \in [Tids -> Konts] /\ woke' \in [Tids -> Wakes]
        /\ buf' \in [Tids -> Bufs]
    BY <1>3 DEF IInv, TypeOK, frames
  <2>2. cpu' = "user" /\ UNCHANGED <<nid, cur, ctx>>
    BY <1>3 DEF SendGather, Enter, Return, hart
  <2> QED
    BY <1>3, <2>1, <2>2, BlockInSendInv DEF SendGather, Enter
<1> QED
  BY <1>1, <1>2, <1>3 DEF SendGather

\* The lowest id of a set of tasks is one of them.
LEMMA LowestIn ==
    ASSUME NEW S, S \subseteq Tids, S # {}
    PROVE  Lowest(S) \in S
<1> DEFINE R == OpToRel(<, Nat)
<1>1. IsWellFoundedOn(R, Nat)
  BY NatLessThanWellFounded
<1>2. S \subseteq Nat
  BY Values
<1>3. \A x, y \in S : ~ (<<y, x>> \in R) => x <= y
  BY <1>2, SMT DEF OpToRel
<1> HIDE DEF R
<1>4. PICK x \in S : \A y \in S : ~ (<<y, x>> \in R)
  BY <1>1, <1>2, WFMin
<1> QED
  BY <1>3, <1>4 DEF Lowest

LEMMA TakeFromInv ==
    ASSUME IInv, NEW t \in Tids, NEW op, Senders(t) # {},
           TakeFrom(t, Lowest(Senders(t)), op)
    PROVE  IInv'
<1> DEFINE s == Lowest(Senders(t))
<1>1. s \in Tids /\ st[s] = "Sending"
  BY LowestIn DEF Senders
<1> HIDE DEF s
<1>2. TakeFrom(t, s, op)
  BY DEF s
<1>3. dl[s] = None
  BY <1>1 DEF IInv, Safety, DeadlineInv
<1>4. TypeOK'
  <2>1. woke' \in [Tids -> Wakes]
    BY <1>1, <1>2, EndedType, SMTT(20) DEF IInv, TakeFrom, Wakes
  <2>2. ready' \in [Tids -> Nat]
    BY <1>1, <1>2, PushType DEF IInv, TakeFrom
  <2>3. /\ st \in [Tids -> States] /\ cc \in [Tids -> Callers]
        /\ tgt \in [Tids -> Tids \cup {0}]
    BY DEF IInv, TypeOK
  <2>4. /\ st' = [st EXCEPT ![s] = "Ready"]
        /\ cc' = [cc EXCEPT ![t] = s] /\ tgt' = [tgt EXCEPT ![s] = 0]
    BY <1>2 DEF TakeFrom
  <2>5. /\ st' \in [Tids -> States] /\ cc' \in [Tids -> Callers]
        /\ tgt' \in [Tids -> Tids \cup {0}]
    BY <1>1, <2>3, <2>4, FrameValues DEF States
  <2> QED
    BY <1>2, <2>1, <2>2, <2>5 DEF IInv, TypeOK, TakeFrom, hart, ctx
<1>5. Safety'
  BY <1>1, <1>2, <1>3, Wakes1 DEF TakeFrom, hart
<1> QED
  BY <1>4, <1>5 DEF IInv

LEMMA OwedType ==
    ASSUME TypeOK, NEW t \in Tids, NEW d \in Tids
    PROVE  [owed EXCEPT ![t][d] = @ - 1] \in [Tids -> [Tids -> Int]]
<1>1. owed \in [Tids -> [Tids -> Int]]
  BY DEF TypeOK
<1>2. [owed[t] EXCEPT ![d] = @ - 1] \in [Tids -> Int]
  BY <1>1, SMT
<1> QED
  BY <1>1, <1>2

\* Taking a queued death changes nothing but the queue.
LEMMA TakeDeathInv ==
    ASSUME IInv, NEW t \in Tids, deaths[t] # << >>,
           deaths' = [deaths EXCEPT ![t] = Tail(@)],
           owed' = [owed EXCEPT ![t][Head(deaths[t])[1]] = @ - 1],
           UNCHANGED <<st, tgt, dl, hb, cc, rv, xr, queues, hart, frames>>
    PROVE  IInv'
<1> DEFINE D == Tids \X (Nat \cup {MAX})
<1>1. deaths \in [Tids -> Seq(D)] /\ owed \in [Tids -> [Tids -> Int]]
  BY DEF IInv, TypeOK
<1>2. Head(deaths[t]) \in D /\ Tail(deaths[t]) \in Seq(D)
  <2> HIDE DEF D
  <2>1. deaths[t] \in Seq(D) /\ deaths[t] # << >>
    BY <1>1
  <2> QED
    BY <2>1, QueueShrinks
<1>3. deaths' \in [Tids -> Seq(D)]
  BY <1>1, <1>2
<1>4. owed' \in [Tids -> [Tids -> Int]]
  <2>1. Head(deaths[t])[1] \in Tids
    BY <1>2
  <2> QED
    BY <2>1, OwedType DEF IInv
<1>5. TypeOK'
  BY <1>3, <1>4 DEF IInv, TypeOK, queues, hart, ctx, frames
<1>6. Safety'
  BY Quiet DEF queues, hart
<1> QED
  BY <1>5, <1>6 DEF IInv

LEMMA RecvInv ==
    ASSUME IInv, NEW t \in Tids, Recv(t)
    PROVE  IInv'
<1>1. CASE deaths[t] # << >>
  BY <1>1, TakeDeathInv DEF Recv, TakeFrom, BlockInRecv
<1>2. CASE Senders(t) # {} /\ TakeFrom(t, Lowest(Senders(t)), "Recv")
  BY <1>2, TakeFromInv
<1>3. CASE BlockInRecv(t, None) /\ Park(t, "recv")
  <2>1. "recv" \in Konts
    BY DEF Konts
  <2> QED
    BY <1>3, <2>1, ParkFrames, BlockInRecvInv DEF Recv, Enter
<1> QED
  BY <1>1, <1>2, <1>3 DEF Recv

LEMMA RecvTimeoutInv ==
    ASSUME IInv, NEW t \in Tids, NEW d \in Timeouts, RecvTimeout(t, d)
    PROVE  IInv'
<1>1. CASE Senders(t) # {} /\ TakeFrom(t, Lowest(Senders(t)), "RecvTimeout")
  BY <1>1, TakeFromInv
<1>2. CASE BlockInRecv(t, d) /\ Park(t, "recvt")
  <2>1. "recvt" \in Konts /\ d \in Nat
    BY ValuesAssumption DEF Konts
  <2> QED
    BY <1>2, <2>1, ParkFrames, BlockInRecvInv DEF RecvTimeout, Enter
<1> QED
  BY <1>1, <1>2 DEF RecvTimeout

LEMMA TryRecvInv ==
    ASSUME IInv, NEW t \in Tids, TryRecv(t)
    PROVE  IInv'
<1>1. CASE Senders(t) # {} /\ TakeFrom(t, Lowest(Senders(t)), "TryRecv")
  BY <1>1, TakeFromInv
<1>2. CASE Return("TryRecv", 0) /\ UNCHANGED <<task, queues, frames, owed>>
  BY <1>2, ReturnsInv DEF Return
<1> QED
  BY <1>1, <1>2 DEF TryRecv

LEMMA RecvScatterInv ==
    ASSUME IInv, NEW t \in Tids, RecvScatter(t)
    PROVE  IInv'
<1>1. CASE Senders(t) # {} /\ TakeFrom(t, Lowest(Senders(t)), "RecvScatter")
  BY <1>1, TakeFromInv
<1>2. CASE BlockInRecv(t, None) /\ Return("RecvScatter", 0) /\ UNCHANGED frames
  <2>1. /\ kont' \in [Tids -> Konts] /\ woke' \in [Tids -> Wakes]
        /\ buf' \in [Tids -> Bufs]
    BY <1>2 DEF IInv, TypeOK, frames
  <2>2. cpu' = "user" /\ UNCHANGED <<nid, cur, ctx>>
    BY <1>2 DEF RecvScatter, Enter, Return, hart
  <2> QED
    BY <1>2, <2>1, <2>2, BlockInRecvInv DEF RecvScatter, Enter
<1> QED
  BY <1>1, <1>2 DEF RecvScatter

LEMMA ReplyInv ==
    ASSUME IInv, NEW t \in Tids, NEW r \in Codes, Reply(t, r)
    PROVE  IInv'
<1>1. CASE cc[t] = None
  BY <1>1, ReturnsInv, Values DEF Reply, Return
<1>2. CASE cc[t] \in Tids
  <2> DEFINE c == cc[t]
  <2>1. c \in Tids
    BY <1>2
  <2> HIDE DEF c
  <2>2. /\ IF Live(c)
           THEN /\ st' = [st EXCEPT ![c] = "Ready"]
                /\ tgt' = [tgt EXCEPT ![c] = 0]
                /\ dl' = [dl EXCEPT ![c] = None]
                /\ rv' = [rv EXCEPT ![c] = r]
                /\ woke' = Ended(c, "reply")
           ELSE UNCHANGED <<st, tgt, dl, rv, woke>>
        /\ ready' = push_ready(c)
        /\ cc' = [cc EXCEPT ![t] = None]
        /\ UNCHANGED <<hb, deaths, xr, waiters, subs, kont, buf, owed, nid, cur, cpu, stk, boot>>
    BY <1>2, Values DEF Reply, Return, hart, ctx, c
  <2>3. TypeOK'
    <3>1. ready' \in [Tids -> Nat]
      BY <2>1, <2>2, PushType DEF IInv
    <3>2. woke' \in [Tids -> Wakes]
      <4>1. CASE Live(c)
        BY <2>1, <2>2, <4>1, EndedType DEF IInv, Wakes
      <4>2. CASE ~Live(c)
        BY <2>2, <4>2 DEF IInv, TypeOK
      <4> QED
        BY <4>1, <4>2
    <3>3. /\ st' \in [Tids -> States] /\ tgt' \in [Tids -> Tids \cup {0}]
          /\ dl' \in [Tids -> Nat \cup {None}] /\ cc' \in [Tids -> Callers]
      BY <2>1, <2>2, FrameValues DEF IInv, TypeOK, States
    <3>4. rv' \in [Tids -> Nat \cup {None, MAX}]
      <4>1. r \in Nat /\ rv \in [Tids -> Nat \cup {None, MAX}]
        BY ValuesAssumption DEF IInv, TypeOK
      <4> QED
        BY <2>1, <2>2, <4>1
    <3> QED
      BY <2>2, <3>1, <3>2, <3>3, <3>4 DEF IInv, TypeOK
  <2>4. Safety'
    <3>1. CASE Live(c)
      <4>1. dl'[c] = None /\ \A u \in Tids \ {c} : dl'[u] = dl[u]
        BY <2>1, <2>2, <3>1 DEF IInv, TypeOK
      <4> QED
        BY <2>1, <2>2, <3>1, <4>1, Wakes1 DEF Live
    <3>2. CASE ~Live(c)
      <4>1. \A u \in Tids : ready[u] > 0 => ready'[u] > 0
        BY <2>1, <2>2, SMTT(20) DEF IInv, TypeOK, push_ready
      <4> QED
        BY <2>2, <3>2, <4>1, Quiet
    <3> QED
      BY <3>1, <3>2
  <2> QED
    BY <2>3, <2>4 DEF IInv
<1> QED
  BY <1>1, <1>2 DEF Reply

LEMMA WaitInv ==
    ASSUME IInv, NEW t \in Tids, NEW p \in Tids, Wait(t, p)
    PROVE  IInv'
<1>1. CASE ~Live(p)
  BY <1>1, ReturnsInv DEF Wait, Return
<1>2. CASE Live(p)
  <2>1. /\ Live(t)
        /\ waiters' = [waiters EXCEPT ![p][t] = @ + 1]
        /\ st' = [st EXCEPT ![t] = "Waiting"]
        /\ tgt' = [tgt EXCEPT ![t] = p]
        /\ dl' = [dl EXCEPT ![t] = None]
        /\ Park(t, "wait")
        /\ UNCHANGED <<hb, cc, rv, deaths, xr, subs, ready, owed>>
    BY <1>2 DEF Wait, Enter
  <2>2. /\ kont' \in [Tids -> Konts] /\ woke' \in [Tids -> Wakes]
        /\ buf' \in [Tids -> Bufs]
        /\ cpu' = "pick" /\ UNCHANGED <<nid, cur, ctx>>
    <3>1. "wait" \in Konts
      BY DEF Konts
    <3> QED
      BY <2>1, <3>1, ParkFrames
  <2>3. waiters \in [Tids -> [Tids -> Nat]]
    BY DEF IInv, TypeOK
  <2>4. [waiters[p] EXCEPT ![t] = @ + 1] \in [Tids -> Nat]
    BY <2>3, SMT
  <2>5. waiters' \in [Tids -> [Tids -> Nat]]
    BY <2>1, <2>3, <2>4
  <2>6. TypeOK'
    BY <2>1, <2>2, <2>5 DEF IInv, TypeOK, ctx, States
  <2>7. waiters'[p][t] > 0 /\ \A q, u \in Tids : waiters[q][u] > 0 => waiters'[q][u] > 0
    BY <2>1, <2>3, SMT
  <2>8. Safety'
    BY <1>2, <2>1, <2>2, <2>7, Parks DEF Live
  <2> QED
    BY <2>6, <2>8 DEF IInv
<1> QED
  BY <1>1, <1>2

LEMMA SetTimerInv ==
    ASSUME IInv, NEW t \in Tids, NEW d \in Timeouts, SetTimer(t, d)
    PROVE  IInv'
<1>1. "sleep" \in Konts /\ d \in Nat
  BY ValuesAssumption DEF Konts
<1>2. /\ kont' \in [Tids -> Konts] /\ woke' \in [Tids -> Wakes]
      /\ buf' \in [Tids -> Bufs]
      /\ cpu' = "pick" /\ UNCHANGED <<nid, cur, ctx>>
  BY <1>1, ParkFrames DEF SetTimer
<1>3. TypeOK'
  BY <1>1, <1>2 DEF IInv, TypeOK, SetTimer, queues, ctx, States
<1>4. Safety'
  BY <1>2, Parks DEF SetTimer, Enter, Live, queues
<1> QED
  BY <1>3, <1>4 DEF IInv

LEMMA YieldInv ==
    ASSUME IInv, NEW t \in Tids, Yield(t)
    PROVE  IInv'
<1>1. TypeOK'
  BY DEF IInv, TypeOK, Yield, task, queues, frames, ctx
<1>2. Safety'
  BY Quiet DEF Yield, task, queues
<1> QED
  BY <1>1, <1>2 DEF IInv

LEMMA HeartbeatInv ==
    ASSUME IInv, NEW t \in Tids, NEW i \in Timeouts, Heartbeat(t, i)
    PROVE  IInv'
<1>1. TypeOK'
  BY ValuesAssumption DEF IInv, TypeOK, Heartbeat, Return, queues, frames, hart, ctx
<1>2. Safety'
  BY Quiet DEF Heartbeat, Return, queues, hart
<1> QED
  BY <1>1, <1>2 DEF IInv

LEMMA NotifyOnExitInv ==
    ASSUME IInv, NEW t \in Tids, NEW d \in Tids, NotifyOnExit(t, d)
    PROVE  IInv'
<1> DEFINE D == Tids \X (Nat \cup {MAX})
<1>1. /\ deaths \in [Tids -> Seq(D)] /\ owed \in [Tids -> [Tids -> Int]]
      /\ subs \in [Tids -> [Tids -> Nat]]
  BY DEF IInv, TypeOK
<1>2. deaths' \in [Tids -> Seq(D)]
  <2>1. <<d, 0>> \in D
    OBVIOUS
  <2> HIDE DEF D
  <2>2. Append(deaths[t], <<d, 0>>) \in Seq(D)
    BY <1>1, <2>1, QueueGrows
  <2> QED
    BY <1>1, <2>2 DEF NotifyOnExit
<1>3. owed' \in [Tids -> [Tids -> Int]]
  <2> HIDE DEF D
  <2>1. [owed[t] EXCEPT ![d] = @ + 1] \in [Tids -> Int]
    <3>1. owed[t] \in [Tids -> Int]
      BY <1>1
    <3> QED
      BY <3>1, SMT
  <2> QED
    BY <1>1, <2>1 DEF NotifyOnExit
<1>4. subs' \in [Tids -> [Tids -> Nat]]
  <2> HIDE DEF D
  <2>1. [subs[d] EXCEPT ![t] = @ + 1] \in [Tids -> Nat]
    <3>1. subs[d] \in [Tids -> Nat]
      BY <1>1
    <3> QED
      BY <3>1, SMT
  <2> QED
    BY <1>1, <2>1 DEF NotifyOnExit
<1>5. TypeOK'
  BY <1>2, <1>3, <1>4 DEF IInv, TypeOK, NotifyOnExit, Return, frames, hart, ctx
<1>6. Safety'
  BY Quiet DEF NotifyOnExit, Return, hart
<1> QED
  BY <1>5, <1>6 DEF IInv

LEMMA SpawnInv ==
    ASSUME IInv, NEW t \in Tids, Spawn(t)
    PROVE  IInv'
<1>1. nid \in Tids /\ nid' \in 1 .. N + 1 /\ nid' = nid + 1
  <2>1. nid \in 1 .. N + 1
    BY DEF IInv, TypeOK
  <2>2. nid <= N /\ nid' = nid + 1
    BY DEF Spawn
  <2> QED
    BY <2>1, <2>2, TidsAssumption, SMTT(20) DEF Tids
<1>2. ready' \in [Tids -> Nat]
  BY <1>1, PushType DEF IInv, Spawn
<1>3. st \in [Tids -> States] /\ ready \in [Tids -> Nat]
  BY DEF IInv, TypeOK
<1>4. TypeOK'
  <2>1. st' \in [Tids -> States]
    BY <1>1, <1>3 DEF Spawn, States
  <2> QED
    BY <1>1, <1>2, <2>1 DEF IInv, TypeOK, Spawn, frames, ctx
<1>5. FreshInv /\ DeadlineInv /\ Rendezvous /\ NoLostTask /\ NoOrphanWait
  BY DEF IInv, Safety
<1>6. /\ st[nid] = "Gone"
      /\ st'[nid] = "Ready" /\ ready'[nid] > 0
      /\ \A u \in Tids \ {nid} : st'[u] = st[u] /\ ready'[u] = ready[u]
  <2>1. st[nid] = "Gone"
    <3>1. nid >= nid
      BY <1>1, SMT DEF Tids
    <3> QED
      BY <1>1, <1>5, <3>1 DEF FreshInv
  <2>2. st' = [st EXCEPT ![nid] = "Ready"] /\ ready' = [ready EXCEPT ![nid] = @ + 1]
    BY DEF Spawn, push_ready
  <2> QED
    BY <1>1, <1>3, <2>1, <2>2, SMTT(20)
<1>7. FreshInv'
  <2> SUFFICES ASSUME NEW u \in Tids, u >= nid'
               PROVE  st'[u] = "Gone"
    BY DEF FreshInv
  <2>1. u # nid /\ u >= nid
    BY <1>1, SMT DEF Tids
  <2> QED
    BY <1>5, <1>6, <2>1 DEF FreshInv
<1>8. DeadlineInv'
  BY <1>1, <1>5, <1>6 DEF DeadlineInv, Spawn
<1>9. Rendezvous'
  BY <1>1, <1>5, <1>6, SMTT(20) DEF Rendezvous, Senders, Spawn
<1>10. NoLostTask'
  BY <1>1, <1>5, <1>6 DEF NoLostTask, Spawn
<1>11. NoOrphanWait'
  BY <1>1, <1>5, <1>6 DEF NoOrphanWait, Live, Spawn
<1> QED
  BY <1>4, <1>7, <1>8, <1>9, <1>10, <1>11 DEF IInv, Safety

LEMMA ExitCallInv ==
    ASSUME IInv, NEW t \in Tids, NEW c \in Codes, Exit(t, c)
    PROVE  IInv'
<1>1. c \in Nat \cup {MAX}
  BY ValuesAssumption
<1>2. exit_task(t, c) /\ cpu' = "pick" /\ UNCHANGED <<nid, cur, ctx>>
  BY DEF Exit
<1> QED
  BY <1>1, <1>2, ExitInv

LEMMA FaultInv ==
    ASSUME IInv, NEW t \in Tids, Fault(t)
    PROVE  IInv'
<1>1. exit_task(t, MAX) /\ cpu' = "pick" /\ UNCHANGED <<nid, cur, ctx>>
  BY DEF Fault
<1> QED
  BY <1>1, ExitInv

LEMMA ForceExitInv ==
    ASSUME IInv, NEW t \in Tids, NEW x \in Tids, ForceExit(t, x)
    PROVE  IInv'
<1>1. cpu' = "user" /\ UNCHANGED hart
  BY DEF ForceExit, Return, Enter, hart
<1>2. CASE exit_task(x, MAX)
  BY <1>1, <1>2, ExitInv DEF hart
<1>3. CASE UNCHANGED <<task, queues, frames, owed>>
  BY <1>1, <1>3, ReturnsInv
<1> QED
  BY <1>2, <1>3 DEF ForceExit

-----------------------------------------------------------------------------
(* The scheduler round *)

LEMMA TickInv ==
    ASSUME IInv, Tick
    PROVE  IInv'
<1>0. /\ TypeOK /\ FreshInv /\ DeadlineInv /\ Rendezvous /\ NoLostTask /\ NoOrphanWait
  BY DEF IInv, Safety
<1>1. \A t \in Tids :
         /\ st[t] \in States /\ ready[t] \in Nat /\ woke[t] \in Wakes
         /\ dl[t] \in Nat \cup {None} /\ hb[t] \in Nat \cup {None}
  BY <1>0 DEF TypeOK
<1>2. \A t \in Tids : dl[t] # None /\ ~Elapsed(t) => dl[t] > 1
  BY <1>0, <1>1, Values, SMTT(20) DEF Elapsed, DeadlineInv
<1>3. TypeOK'
  <2>1. dl' \in [Tids -> Nat \cup {None}]
    <3>1. \A t \in Tids : Elapsed(t) \/ dl[t] = None \/ dl[t] - 1 \in Nat
      BY <1>1, <1>2, SMTT(20)
    <3>2. dl' = [t \in Tids |-> IF Elapsed(t) \/ dl[t] = None THEN None ELSE dl[t] - 1]
      BY DEF Tick
    <3> QED
      BY <3>1, <3>2
  <2>2. hb' \in [Tids -> Nat \cup {None}]
    <3>1. hb' = [t \in Tids |-> IF hb[t] > 0 THEN hb[t] - 1 ELSE hb[t]]
      BY DEF Tick
    <3>2. ~(None > 0)
      BY SMT DEF None
    <3>3. ASSUME NEW t \in Tids
          PROVE  (IF hb[t] > 0 THEN hb[t] - 1 ELSE hb[t]) \in Nat \cup {None}
      <4>1. hb[t] \in Nat \/ hb[t] = None
        BY <1>1
      <4> QED
        BY <3>2, <4>1, SMTT(20)
    <3> QED
      BY <3>1, <3>3
  <2>3. ready' \in [Tids -> Nat] /\ st' \in [Tids -> States] /\ woke' \in [Tids -> Wakes]
    <3>1. /\ ready' = [t \in Tids |-> ready[t] + (IF Elapsed(t) THEN 1 ELSE 0)]
          /\ st' = [t \in Tids |-> IF Elapsed(t) THEN "Ready" ELSE st[t]]
          /\ woke' = [t \in Tids |-> IF Elapsed(t) THEN "timeout" ELSE woke[t]]
      BY DEF Tick
    <3>2. "Ready" \in States /\ "timeout" \in Wakes
      BY DEF States, Wakes
    <3>3. ready' \in [Tids -> Nat]
      BY <1>1, <3>1, SMTT(20)
    <3>4. st' \in [Tids -> States] /\ woke' \in [Tids -> Wakes]
      BY <1>1, <3>1, <3>2
    <3> QED
      BY <3>3, <3>4
  <2> QED
    BY <1>0, <2>1, <2>2, <2>3 DEF Tick, TypeOK, ctx
<1>4. \A t \in Tids :
         /\ st'[t] = IF Elapsed(t) THEN "Ready" ELSE st[t]
         /\ dl'[t] # None => dl[t] # None /\ ~Elapsed(t)
         /\ ready'[t] = ready[t] + (IF Elapsed(t) THEN 1 ELSE 0)
         /\ Elapsed(t) => st[t] \in {"Sleeping", "Recv"}
  BY <1>1 DEF Tick, Elapsed
<1>5. UNCHANGED <<tgt, waiters, nid, cur>>
  BY DEF Tick
<1>6. FreshInv'
  BY <1>0, <1>4, <1>5 DEF FreshInv
<1>7. DeadlineInv'
  BY <1>0, <1>4, <1>5 DEF DeadlineInv
<1>8. Rendezvous'
  BY <1>0, <1>4, <1>5 DEF Rendezvous, Senders
<1>9. NoLostTask'
  BY <1>0, <1>1, <1>4, <1>5, SMT DEF NoLostTask
<1>10. NoOrphanWait'
  BY <1>0, <1>4, <1>5 DEF NoOrphanWait, Live
<1> QED
  BY <1>3, <1>6, <1>7, <1>8, <1>9, <1>10 DEF IInv, Safety

LEMMA KillHungInv ==
    ASSUME IInv, KillHung
    PROVE  IInv'
<1> DEFINE x == Lowest(Hung)
<1>1. x \in Tids
  BY LowestIn DEF KillHung, Hung
<1> HIDE DEF x
<1>2. exit_task(x, MAX) /\ cur' = (IF cur = x THEN 0 ELSE cur)
  BY DEF KillHung, x
<1>3. cpu' = "sweep" /\ UNCHANGED <<nid, ctx>>
  BY DEF KillHung
<1> QED
  BY <1>1, <1>2, <1>3, ExitInv

LEMMA WatchdogKillInv ==
    ASSUME IInv, WatchdogKill
    PROVE  IInv'
<1>1. cur \in Tids
  BY DEF WatchdogKill, Preempted, IInv, TypeOK
<1>2. exit_task(cur, MAX) /\ cpu' = "pick" /\ UNCHANGED <<nid, cur, ctx>>
  BY DEF WatchdogKill
<1> QED
  BY <1>1, <1>2, ExitInv

LEMMA PickInv ==
    ASSUME IInv, Pick
    PROVE  IInv'
<1> USE DEF IInv, Safety
<1>1. \A t \in Tids : /\ st[t] \in States /\ ready[t] \in Nat
                      /\ Requeued[t] = ready[t] + (IF Preempted /\ t = cur THEN 1 ELSE 0)
                      /\ Requeued[t] \in Nat
  <2>1. st \in [Tids -> States] /\ ready \in [Tids -> Nat]
    BY DEF TypeOK
  <2> QED
    BY <2>1, SMTT(20) DEF Requeued
<1>2. UNCHANGED <<waiters, nid>>
  BY DEF Pick
<1>3. ASSUME NEW n \in Tids, Requeued[n] > 0,
             ready' = [Requeued EXCEPT ![n] = @ - 1],
             st' = [t \in Tids |-> IF t = n /\ Live(n) THEN "Running"
                                   ELSE IF Preempted /\ t = cur THEN "Ready"
                                   ELSE st[t]],
             tgt' = [tgt EXCEPT ![n] = 0],
             dl' = [dl EXCEPT ![n] = None],
             cur' = n, stk' = n,
             boot' = BootSaved(n),
             cpu' = IF Live(n) THEN "user" ELSE "lost"
      PROVE  IInv'
  <2>1. ready' \in [Tids -> Nat]
    <3>1. Requeued \in [Tids -> Nat] /\ Requeued[n] - 1 \in Nat
      BY <1>1, <1>3, SMTT(20) DEF Requeued
    <3> QED
      BY <1>3, <3>1
  <2>2. TypeOK'
    BY <1>3, <2>1 DEF TypeOK, Pick, BootSaved, States, frames
  <2>3. \A t \in Tids :
           /\ st'[t] = IF t = n /\ Live(n) THEN "Running"
                       ELSE IF Preempted /\ t = cur THEN "Ready" ELSE st[t]
           /\ t # n => /\ tgt'[t] = tgt[t] /\ dl'[t] = dl[t]
                       /\ ready'[t] = ready[t] + (IF Preempted /\ t = cur THEN 1 ELSE 0)
           /\ dl'[n] = None
    BY <1>1, <1>3 DEF TypeOK, Requeued
  <2>4. FreshInv'
    BY <1>2, <2>3 DEF FreshInv, Live, Preempted
  <2>5. DeadlineInv'
    BY <2>3 DEF DeadlineInv, Preempted
  <2>6. Rendezvous'
    BY <2>3, SMTT(20) DEF Rendezvous, Senders, Live
  <2>7. NoLostTask'
    <3>1. \A t \in Tids : st'[t] = "Ready" => ready'[t] > 0
      <4> SUFFICES ASSUME NEW t \in Tids, st'[t] = "Ready" PROVE ready'[t] > 0
        OBVIOUS
      <4>1. t # n
        BY <2>3 DEF Live, Preempted
      <4> QED
        BY <1>1, <2>3, <4>1, SMTT(20) DEF NoLostTask
    <3>2. \A t \in Tids : st'[t] = "Running" => cur' = t
      <4> SUFFICES ASSUME NEW t \in Tids, st'[t] = "Running", t # n PROVE FALSE
        BY <1>3
      <4>1. st[t] = "Running" /\ ~(Preempted /\ t = cur)
        BY <2>3
      <4> QED
        BY <4>1, Values DEF NoLostTask, Preempted
    <3> QED
      BY <3>1, <3>2 DEF NoLostTask
  <2>8. NoOrphanWait'
    BY <1>2, <2>3 DEF NoOrphanWait, Live, Preempted
  <2> QED
    BY <2>2, <2>4, <2>5, <2>6, <2>7, <2>8
<1>4. ASSUME \A n \in Tids : Requeued[n] = 0,
             cur' = 0, stk' = IdleStack,
             cpu' = IF IdleStack = 0 THEN "user" ELSE "lost",
             UNCHANGED <<st, tgt, dl, ready, boot>>
      PROVE  IInv'
  <2>1. TypeOK'
    BY <1>4 DEF TypeOK, Pick, IdleStack, frames
  <2>2. FreshInv' /\ DeadlineInv' /\ Rendezvous' /\ NoOrphanWait'
    BY <1>2, <1>4 DEF FreshInv, DeadlineInv, Rendezvous, Senders, NoOrphanWait, Live
  <2>3. \A t \in Tids : st[t] # "Running"
    BY <1>1, <1>4, Values, SMT DEF NoLostTask, Preempted
  <2>4. NoLostTask'
    BY <1>4, <2>3 DEF NoLostTask
  <2> QED
    BY <2>1, <2>2, <2>4
<1> QED
  BY <1>3, <1>4 DEF Pick

-----------------------------------------------------------------------------
(* The handlers' second halves *)

LEMMA ResumeInv ==
    ASSUME IInv, NEW t \in Tids, NEW k, NEW op, NEW r, NEW b, Resume(t, k, op, r, b),
           xr' \in [Tids -> Nat \cup {None, MAX}], owed' \in [Tids -> [Tids -> Int]]
    PROVE  IInv'
<1>1. /\ kont' \in [Tids -> Konts] /\ woke' \in [Tids -> Wakes]
      /\ buf' \in [Tids -> Bufs]
  BY FrameValues DEF IInv, TypeOK, Resume, Konts, Wakes
<1>2. TypeOK'
  BY <1>1 DEF IInv, TypeOK, Resume, queues, hart, ctx
<1>3. Safety'
  BY Quiet DEF Resume, queues, hart
<1> QED
  BY <1>2, <1>3 DEF IInv

LEMMA ToldType ==
    ASSUME IInv, NEW t \in Tids, Told(t)
    PROVE  owed' \in [Tids -> [Tids -> Int]]
<1>1. CASE woke[t] = "death" /\ cc[t] \in Tids
  BY <1>1, OwedType, SMTT(20) DEF Told, IInv
<1>2. CASE ~(woke[t] = "death" /\ cc[t] \in Tids)
  BY <1>2 DEF Told, IInv, TypeOK
<1> QED
  BY <1>1, <1>2

LEMMA ResumptionInv ==
    ASSUME IInv, NEW t \in Tids, Resumption(t)
    PROVE  IInv'
<1>1. xr \in [Tids -> Nat \cup {None, MAX}] /\ owed \in [Tids -> [Tids -> Int]]
  BY DEF IInv, TypeOK
<1>2. CASE ResumeSend(t)
  BY <1>1, <1>2, ResumeInv DEF ResumeSend
<1>3. CASE ResumeWait(t)
  BY <1>1, <1>3, ResumeInv DEF ResumeWait
<1>4. CASE ResumeTimer(t)
  BY <1>1, <1>4, ResumeInv DEF ResumeTimer
<1>5. CASE ResumeRecv(t)
  <2>1. xr' \in [Tids -> Nat \cup {None, MAX}]
    BY <1>1, <1>5 DEF ResumeRecv
  <2> QED
    BY <1>5, <2>1, ToldType, ResumeInv DEF ResumeRecv
<1>6. CASE ResumeRecvTimeout(t)
  BY <1>1, <1>6, ToldType, ResumeInv DEF ResumeRecvTimeout
<1> QED
  BY <1>2, <1>3, <1>4, <1>5, <1>6 DEF Resumption

-----------------------------------------------------------------------------

LEMMA NextIInv == IInv /\ [Next]_vars => IInv'
<1> SUFFICES ASSUME IInv, [Next]_vars PROVE IInv'
  OBVIOUS
<1>1. CASE Tick
  BY <1>1, TickInv
<1>2. CASE KillHung
  BY <1>2, KillHungInv
<1>3. CASE WatchdogKill \/ Pick
  BY <1>3, WatchdogKillInv, PickInv
<1>4. ASSUME NEW t \in Tids, Resumption(t) PROVE IInv'
  BY <1>4, ResumptionInv
<1>5. ASSUME NEW t \in Tids, Handler(t) PROVE IInv'
  <2>1. ASSUME NEW d \in Tids,
               Send(t, d) \/ SendGather(t, d) \/ Wait(t, d)
                   \/ NotifyOnExit(t, d) \/ ForceExit(t, d)
        PROVE  IInv'
    BY <2>1, SendInv, SendGatherInv, WaitInv, NotifyOnExitInv, ForceExitInv
  <2>2. ASSUME NEW i \in Timeouts,
               RecvTimeout(t, i) \/ SetTimer(t, i) \/ Heartbeat(t, i)
        PROVE  IInv'
    BY <2>2, RecvTimeoutInv, SetTimerInv, HeartbeatInv
  <2>3. ASSUME NEW c \in Codes, Reply(t, c) \/ Exit(t, c)
        PROVE  IInv'
    BY <2>3, ReplyInv, ExitCallInv
  <2>4. CASE Recv(t) \/ TryRecv(t) \/ RecvScatter(t)
    BY <2>4, RecvInv, TryRecvInv, RecvScatterInv
  <2>5. CASE Yield(t) \/ Spawn(t) \/ Fault(t)
    BY <2>5, YieldInv, SpawnInv, FaultInv
  <2> QED
    BY <1>5, <2>1, <2>2, <2>3, <2>4, <2>5 DEF Handler
<1>6. ASSUME NEW d \in Input, KernelSend(d) PROVE IInv'
  BY <1>6, KernelSendInv
<1>7. CASE UNCHANGED vars
  BY <1>7, ReturnsInv DEF vars
<1> QED
  BY <1>1, <1>2, <1>3, <1>4, <1>5, <1>6, <1>7 DEF Next, Kernel

LEMMA Invariance == Spec => []IInv
  BY InitIInv, NextIInv, PTL DEF Spec

\* The task table, queues, frames and hart stay well formed, whatever system
\* calls the cells make.
THEOREM TypeCorrect == Spec => []TypeOK
<1>1. IInv => TypeOK
  BY DEF IInv
<1> QED
  BY <1>1, Invariance, PTL

\* A receiver is never parked while somebody is blocked in sending to it
\* (ipc_send, ipc_recv), for any number of tasks.
THEOREM RendezvousHolds == Spec => []Rendezvous
<1>1. IInv => Rendezvous
  BY DEF IInv, Safety
<1> QED
  BY <1>1, Invariance, PTL

\* A task that may run is never dropped by the scheduler (push_ready, pick_next),
\* for any number of tasks.
THEOREM NoTaskLost == Spec => []NoLostTask
<1>1. IInv => NoLostTask
  BY DEF IInv, Safety
<1> QED
  BY <1>1, Invariance, PTL

\* However a task dies, nobody stays blocked in Send or Wait on it (exit_task),
\* for any number of tasks.
THEOREM NobodyOrphaned == Spec => []NoOrphanWait
<1>1. IInv => NoOrphanWait
  BY DEF IInv, Safety
<1> QED
  BY <1>1, Invariance, PTL
-----------------------------------------------------------------------------
(* Cells that block where they wait *)

\* No cell makes the calls that wake a task which does not wait (Reply) or park
\* one that runs on (SendGather, RecvScatter).
Blocking == \A t \in Tids : Allow[t] \cap {"Reply", "SendGather", "RecvScatter"} = {}

\* The cell the hart is in is Running.
CurRuns == cpu = "user" /\ cur # 0 => st[cur] = "Running"

\* Task t is in the ready queue once while it is Ready, and on the list of the
\* task it waits for once while it waits; nothing is left behind in either.  (The
\* entries of a task that died waiting stay; its id is not given out again.)
Single(t) ==
    /\ ready[t] = IF st[t] = "Ready" THEN 1 ELSE 0
    /\ Live(t) \/ t >= nid =>
         \A p \in Tids : waiters[p][t] = IF st[t] = "Waiting" /\ tgt[t] = p THEN 1 ELSE 0

Exact == CurRuns /\ \A t \in Tids : Single(t)
EInv == IInv /\ Exact

LEMMA InitExact == Init => Exact
<1> SUFFICES ASSUME Init PROVE Exact
  OBVIOUS
<1>1. CurRuns
  BY DEF Init, CurRuns
<1>2. ASSUME NEW t \in Tids PROVE Single(t)
  <2>1. ready[t] = (IF st[t] = "Ready" THEN 1 ELSE 0) /\ st[t] # "Waiting"
    BY DEF Init
  <2>2. \A p \in Tids : waiters[p][t] = 0
    BY DEF Init, Zero
  <2> QED
    BY <2>1, <2>2 DEF Single
<1> QED
  BY <1>1, <1>2 DEF Exact

\* A task whose entries and state are as they were.
LEMMA SingleKept ==
    ASSUME NEW t \in Tids, Single(t), st'[t] = st[t], tgt'[t] = tgt[t], nid' = nid,
           ready'[t] = ready[t], \A p \in Tids : waiters'[p][t] = waiters[p][t]
    PROVE  Single(t)'
  BY DEF Single, Live

\* A task that leaves Recv, Sending or Sleeping and is pushed once.
LEMMA SingleWoken ==
    ASSUME NEW t \in Tids, Single(t), st[t] \in {"Recv", "Sending", "Sleeping"},
           st'[t] = "Ready", nid' = nid, ready'[t] = ready[t] + 1,
           \A p \in Tids : waiters'[p][t] = waiters[p][t]
    PROVE  Single(t)'
<1>1. ready[t] = 0
  BY DEF Single
<1>2. ready'[t] = 1
  BY <1>1, SMT
<1>3. \A p \in Tids : waiters[p][t] = 0
  BY DEF Single, Live
<1> QED
  BY <1>2, <1>3 DEF Single

\* A Running task that parks, other than in Wait.
LEMMA SingleParked ==
    ASSUME NEW t \in Tids, Single(t), st[t] = "Running",
           st'[t] \in {"Recv", "Sending", "Sleeping"}, nid' = nid, ready'[t] = ready[t],
           \A p \in Tids : waiters'[p][t] = waiters[p][t]
    PROVE  Single(t)'
<1>1. ready'[t] = 0
  BY DEF Single
<1>2. \A p \in Tids : waiters[p][t] = 0
  BY DEF Single, Live
<1> QED
  BY <1>1, <1>2 DEF Single

\* The task that enters a system call is Running.
LEMMA EntersRunning ==
    ASSUME EInv, NEW t \in Tids, NEW sc, Enter(t, sc)
    PROVE  st[t] = "Running" /\ t # 0 /\ cpu = "user" /\ cur = t
  BY Values DEF EInv, Exact, CurRuns, Enter

\* A step that changes neither states nor queues, and leaves the hart where it is
\* or in yield_cpu.
LEMMA QuietExact ==
    ASSUME EInv, UNCHANGED <<st, tgt, waiters, ready, nid, cur>>, cpu' \in {cpu, "pick"}
    PROVE  Exact'
<1>1. ASSUME NEW t \in Tids PROVE Single(t)'
  <2>1. Single(t)
    BY DEF EInv, Exact
  <2> QED
    BY <2>1, SingleKept
<1>2. CurRuns'
  BY DEF EInv, Exact, CurRuns
<1> QED
  BY <1>1, <1>2 DEF Exact

LEMMA DeliverExact ==
    ASSUME EInv, NEW t, NEW d \in Tids, Deliver(t, d), UNCHANGED hart
    PROVE  Exact'
<1>1. /\ st[d] = "Recv" /\ st' = [st EXCEPT ![d] = "Ready"]
      /\ ready' = [ready EXCEPT ![d] = @ + 1]
      /\ UNCHANGED <<tgt, waiters, nid, cur, cpu>>
  BY DEF Deliver, push_ready, hart
<1>2. st \in [Tids -> States] /\ ready \in [Tids -> Nat]
  BY DEF EInv, IInv, TypeOK
<1>3. st'[d] = "Ready" /\ ready'[d] = ready[d] + 1
  BY <1>1, <1>2
<1>4. \A u \in Tids \ {d} : st'[u] = st[u] /\ ready'[u] = ready[u]
  BY <1>1, <1>2
<1>5. ASSUME NEW u \in Tids PROVE Single(u)'
  <2>1. Single(u)
    BY DEF EInv, Exact
  <2>2. CASE u = d
    BY <1>1, <1>3, <2>1, <2>2, SingleWoken
  <2>3. CASE u # d
    BY <1>1, <1>4, <2>1, <2>3, SingleKept
  <2> QED
    BY <2>2, <2>3
<1>6. CurRuns'
  <2> SUFFICES ASSUME cpu' = "user", cur' # 0 PROVE st'[cur'] = "Running"
    BY DEF CurRuns
  <2>1. cpu = "user" /\ cur # 0 /\ cur' = cur /\ cur \in Tids
    BY <1>1 DEF EInv, IInv, TypeOK
  <2>2. st[cur] = "Running"
    BY <2>1 DEF EInv, Exact, CurRuns
  <2> QED
    BY <1>1, <1>4, <2>1, <2>2
<1> QED
  BY <1>5, <1>6 DEF Exact

\* A task of which the handler parks: everybody else is as before.
LEMMA ParkExact ==
    ASSUME EInv, NEW t \in Tids, st[t] = "Running",
           NEW s \in {"Recv", "Sending", "Sleeping"}, NEW d,
           st' = [st EXCEPT ![t] = s], tgt' = [tgt EXCEPT ![t] = d],
           UNCHANGED <<ready, waiters, nid, cur>>, cpu' = "pick"
    PROVE  Exact'
<1>1. st \in [Tids -> States] /\ tgt \in [Tids -> Tids \cup {0}]
  BY DEF EInv, IInv, TypeOK
<1>2. \A u \in Tids \ {t} : st'[u] = st[u] /\ tgt'[u] = tgt[u]
  BY <1>1
<1>3. st'[t] = s
  BY <1>1
<1>4. ASSUME NEW u \in Tids PROVE Single(u)'
  <2>1. Single(u)
    BY DEF EInv, Exact
  <2>2. CASE u = t
    BY <1>3, <2>1, <2>2, SingleParked
  <2>3. CASE u # t
    BY <1>2, <2>1, <2>3, SingleKept
  <2> QED
    BY <2>2, <2>3
<1>5. CurRuns'
  BY DEF CurRuns
<1> QED
  BY <1>4, <1>5 DEF Exact

LEMMA SendExact ==
    ASSUME EInv, NEW t \in Tids, NEW d \in Tids, Send(t, d)
    PROVE  Exact'
<1>1. st[t] = "Running"
  BY EntersRunning DEF Send
<1>2. CASE Return("Send", MAX) /\ UNCHANGED <<task, queues, frames, owed>>
  BY <1>2, QuietExact DEF Return, task, queues, hart
<1>3. CASE Deliver(t, d) /\ Return("Send", 0)
  BY <1>3, DeliverExact DEF Return
<1>4. CASE BlockInSend(t, d) /\ Park(t, "send")
  BY <1>1, <1>4, ParkExact DEF BlockInSend, Park, queues
<1> QED
  BY <1>2, <1>3, <1>4 DEF Send

LEMMA TakeFromExact ==
    ASSUME EInv, NEW t \in Tids, NEW op, Senders(t) # {},
           TakeFrom(t, Lowest(Senders(t)), op)
    PROVE  Exact'
<1>0. PICK s : s = Lowest(Senders(t))
  OBVIOUS
<1>1. s \in Tids /\ st[s] = "Sending"
  BY <1>0, LowestIn DEF Senders
<1>2. /\ st' = [st EXCEPT ![s] = "Ready"] /\ ready' = [ready EXCEPT ![s] = @ + 1]
      /\ tgt' = [tgt EXCEPT ![s] = 0] /\ UNCHANGED <<waiters, nid, cur, cpu>>
  BY <1>0 DEF TakeFrom, push_ready, hart
<1>3. /\ st \in [Tids -> States] /\ ready \in [Tids -> Nat]
      /\ tgt \in [Tids -> Tids \cup {0}]
  BY DEF EInv, IInv, TypeOK
<1>4. st'[s] = "Ready" /\ ready'[s] = ready[s] + 1
  BY <1>1, <1>2, <1>3
<1>5. \A u \in Tids \ {s} : st'[u] = st[u] /\ tgt'[u] = tgt[u] /\ ready'[u] = ready[u]
  BY <1>2, <1>3
<1>6. ASSUME NEW u \in Tids PROVE Single(u)'
  <2>1. Single(u)
    BY DEF EInv, Exact
  <2>2. CASE u = s
    BY <1>1, <1>2, <1>4, <2>1, <2>2, SingleWoken
  <2>3. CASE u # s
    BY <1>2, <1>5, <2>1, <2>3, SingleKept
  <2> QED
    BY <2>2, <2>3
<1>7. CurRuns'
  <2> SUFFICES ASSUME cpu' = "user", cur' # 0 PROVE st'[cur'] = "Running"
    BY DEF CurRuns
  <2>1. cpu = "user" /\ cur # 0 /\ cur' = cur /\ cur \in Tids
    BY <1>2 DEF EInv, IInv, TypeOK
  <2>2. st[cur] = "Running"
    BY <2>1 DEF EInv, Exact, CurRuns
  <2> QED
    BY <1>1, <1>5, <2>1, <2>2
<1> QED
  BY <1>6, <1>7 DEF Exact

LEMMA RecvExact ==
    ASSUME EInv, NEW t \in Tids, Recv(t)
    PROVE  Exact'
<1>1. st[t] = "Running"
  BY EntersRunning DEF Recv
<1>2. CASE UNCHANGED <<st, tgt, dl, hb, cc, rv, xr, queues, hart, frames>>
  BY <1>2, QuietExact DEF queues, hart
<1>3. CASE Senders(t) # {} /\ TakeFrom(t, Lowest(Senders(t)), "Recv")
  BY <1>3, TakeFromExact
<1>4. CASE BlockInRecv(t, None) /\ Park(t, "recv")
  BY <1>1, <1>4, ParkExact DEF BlockInRecv, Park, queues
<1> QED
  BY <1>2, <1>3, <1>4 DEF Recv

LEMMA RecvTimeoutExact ==
    ASSUME EInv, NEW t \in Tids, NEW d, RecvTimeout(t, d)
    PROVE  Exact'
<1>1. st[t] = "Running"
  BY EntersRunning DEF RecvTimeout
<1>2. CASE Senders(t) # {} /\ TakeFrom(t, Lowest(Senders(t)), "RecvTimeout")
  BY <1>2, TakeFromExact
<1>3. CASE BlockInRecv(t, d) /\ Park(t, "recvt")
  BY <1>1, <1>3, ParkExact DEF BlockInRecv, Park, queues
<1> QED
  BY <1>2, <1>3 DEF RecvTimeout

LEMMA TryRecvExact ==
    ASSUME EInv, NEW t \in Tids, TryRecv(t)
    PROVE  Exact'
<1>1. CASE Senders(t) # {} /\ TakeFrom(t, Lowest(Senders(t)), "TryRecv")
  BY <1>1, TakeFromExact
<1>2. CASE Return("TryRecv", 0) /\ UNCHANGED <<task, queues, frames, owed>>
  BY <1>2, QuietExact DEF Return, task, queues, hart
<1> QED
  BY <1>1, <1>2 DEF TryRecv

LEMMA WaitExact ==
    ASSUME EInv, NEW t \in Tids, NEW p \in Tids, Wait(t, p)
    PROVE  Exact'
<1>1. st[t] = "Running"
  BY EntersRunning DEF Wait
<1>2. CASE Return("Wait", MAX) /\ UNCHANGED <<task, queues, frames, owed>>
  BY <1>2, QuietExact DEF Return, task, queues, hart
<1>3. CASE ~(Return("Wait", MAX) /\ UNCHANGED <<task, queues, frames, owed>>)
  <2>1. /\ waiters' = [waiters EXCEPT ![p][t] = @ + 1]
        /\ st' = [st EXCEPT ![t] = "Waiting"] /\ tgt' = [tgt EXCEPT ![t] = p]
        /\ UNCHANGED <<ready, nid, cur>> /\ cpu' = "pick"
    BY <1>3 DEF Wait, Park
  <2>2. /\ st \in [Tids -> States] /\ tgt \in [Tids -> Tids \cup {0}]
        /\ waiters \in [Tids -> [Tids -> Nat]]
    BY DEF EInv, IInv, TypeOK
  <2>3. /\ \A u \in Tids \ {t} : st'[u] = st[u] /\ tgt'[u] = tgt[u]
        /\ st'[t] = "Waiting" /\ tgt'[t] = p
    BY <2>1, <2>2
  <2>4. \A q, u \in Tids :
           waiters'[q][u] = waiters[q][u] + (IF q = p /\ u = t THEN 1 ELSE 0)
    BY <2>1, <2>2, SMTT(20)
  <2>5. \A q, u \in Tids : u # t => waiters'[q][u] = waiters[q][u]
    BY <2>2, <2>4, SMT
  <2>6. ASSUME NEW u \in Tids PROVE Single(u)'
    <3>1. Single(u)
      BY DEF EInv, Exact
    <3>2. CASE u = t
      <4>1. ready[t] = 0 /\ \A q \in Tids : waiters[q][t] = 0
        BY <1>1, <3>1, <3>2 DEF Single, Live
      <4>2. \A q \in Tids : waiters'[q][t] = IF q = p THEN 1 ELSE 0
        BY <2>4, <4>1, SMT
      <4> QED
        BY <2>1, <2>3, <3>2, <4>1, <4>2, SMTT(20) DEF Single
    <3>3. CASE u # t
      BY <2>1, <2>3, <2>5, <3>1, <3>3, SingleKept
    <3> QED
      BY <3>2, <3>3
  <2>7. CurRuns'
    BY <2>1 DEF CurRuns
  <2> QED
    BY <2>6, <2>7 DEF Exact
<1> QED
  BY <1>2, <1>3

LEMMA SetTimerExact ==
    ASSUME EInv, NEW t \in Tids, NEW d, SetTimer(t, d)
    PROVE  Exact'
<1>1. st[t] = "Running"
  BY EntersRunning DEF SetTimer
<1> QED
  BY <1>1, ParkExact DEF SetTimer, Park, queues

\* Calls that neither block nor wake anybody
LEMMA QuietCallsExact ==
    ASSUME EInv, NEW t \in Tids, NEW d, Yield(t) \/ Heartbeat(t, d) \/ NotifyOnExit(t, d)
    PROVE  Exact'
<1>1. CASE Yield(t)
  BY <1>1, QuietExact DEF Yield, task, queues
<1>2. CASE Heartbeat(t, d)
  BY <1>2, QuietExact DEF Heartbeat, Return, queues, hart
<1>3. CASE NotifyOnExit(t, d)
  BY <1>3, QuietExact DEF NotifyOnExit, Return, hart
<1> QED
  BY <1>1, <1>2, <1>3

LEMMA SpawnExact ==
    ASSUME EInv, NEW t \in Tids, Spawn(t)
    PROVE  Exact'
<1>1. nid \in Tids /\ nid' = nid + 1 /\ nid >= nid
  <2>1. nid \in 1 .. N + 1
    BY DEF EInv, IInv, TypeOK
  <2>2. nid <= N /\ nid' = nid + 1
    BY DEF Spawn
  <2> QED
    BY <2>1, <2>2, TidsAssumption, SMTT(20) DEF Tids
<1>2. /\ st' = [st EXCEPT ![nid] = "Ready"] /\ ready' = [ready EXCEPT ![nid] = @ + 1]
      /\ UNCHANGED <<tgt, waiters, cur, cpu>>
  BY DEF Spawn, push_ready
<1>3. st \in [Tids -> States] /\ ready \in [Tids -> Nat]
  BY DEF EInv, IInv, TypeOK
<1>4. st[nid] = "Gone" /\ ready[nid] = 0 /\ \A p \in Tids : waiters[p][nid] = 0
  <2>1. st[nid] = "Gone"
    BY <1>1 DEF EInv, IInv, Safety, FreshInv
  <2>2. Single(nid)
    BY <1>1 DEF EInv, Exact
  <2> QED
    BY <1>1, <2>1, <2>2 DEF Single
<1>5. st'[nid] = "Ready" /\ ready'[nid] = ready[nid] + 1
  BY <1>1, <1>2, <1>3
<1>6. \A u \in Tids \ {nid} : st'[u] = st[u] /\ ready'[u] = ready[u]
  BY <1>2, <1>3
<1>7. \A u \in Tids : u >= nid' => u >= nid
  BY <1>1, SMT DEF Tids
<1>8. ASSUME NEW u \in Tids PROVE Single(u)'
  <2>1. Single(u)
    BY DEF EInv, Exact
  <2>2. CASE u = nid
    <3>1. ready'[u] = 1
      BY <1>4, <1>5, <2>2, SMTT(20)
    <3> QED
      BY <1>2, <1>4, <1>5, <2>2, <3>1 DEF Single
  <2>3. CASE u # nid
    BY <1>2, <1>6, <1>7, <2>1, <2>3 DEF Single, Live
  <2> QED
    BY <2>2, <2>3
<1>9. CurRuns'
  <2> SUFFICES ASSUME cpu' = "user", cur' # 0 PROVE st'[cur'] = "Running"
    BY DEF CurRuns
  <2>1. cpu = "user" /\ cur # 0 /\ cur' = cur /\ cur \in Tids
    BY <1>2 DEF EInv, IInv, TypeOK
  <2>2. st[cur] = "Running"
    BY <2>1 DEF EInv, Exact, CurRuns
  <2> QED
    BY <1>4, <1>6, <2>1, <2>2
<1> QED
  BY <1>8, <1>9 DEF Exact

\* A task is woken by the death of x in one way only, and so is pushed once.
LEMMA PushedOnce ==
    ASSUME EInv, NEW x \in Tids, NEW t \in Tids, t # x
    PROVE  Pushes(x, t) =
             IF t \in StuckSenders(x) \cup LiveWaiters(x) \cup ParkedWatchers(x)
             THEN 1 ELSE 0
<1>1. Single(t)
  BY DEF EInv, Exact
<1>2. /\ t \in StuckSenders(x) => st[t] = "Sending"
      /\ t \in ParkedWatchers(x) => st[t] = "Recv"
  BY DEF StuckSenders, ParkedWatchers
<1>3. t \in LiveWaiters(x) => st[t] = "Waiting" /\ waiters[x][t] = 1
  <2> SUFFICES ASSUME t \in LiveWaiters(x) PROVE st[t] = "Waiting" /\ waiters[x][t] = 1
    OBVIOUS
  <2>1. Live(t) /\ waiters[x][t] > 0
    BY DEF LiveWaiters
  <2>2. waiters[x][t] = IF st[t] = "Waiting" /\ tgt[t] = x THEN 1 ELSE 0
    BY <1>1, <2>1 DEF Single
  <2> QED
    BY <2>1, <2>2, SMT
<1> QED
  BY <1>2, <1>3, SMT DEF Pushes

LEMMA ExitExact ==
    ASSUME EInv, NEW x \in Tids, NEW reason, exit_task(x, reason), nid' = nid,
           cpu' = "user" => cpu = "user" /\ cur' = cur /\ cur # x
    PROVE  Exact'
<1> DEFINE woken == StuckSenders(x) \cup LiveWaiters(x) \cup ParkedWatchers(x)
<1>1. \A t \in Tids :
         /\ st'[t] = IF t = x THEN "Gone" ELSE IF t \in woken THEN "Ready" ELSE st[t]
         /\ tgt'[t] = IF t = x \/ t \in woken THEN 0 ELSE tgt[t]
         /\ ready'[t] = IF t = x THEN 0 ELSE ready[t] + Pushes(x, t)
  BY DEF exit_task, ReadyAfterExit
<1>2. \A p, t \in Tids : waiters'[p][t] = IF p = x THEN 0 ELSE waiters[p][t]
  <2>1. waiters' = [waiters EXCEPT ![x] = Zero]
    BY DEF exit_task
  <2>2. waiters \in [Tids -> [Tids -> Nat]]
    BY DEF EInv, IInv, TypeOK
  <2> QED
    BY <2>1, <2>2 DEF Zero
<1>3. ASSUME NEW t \in Tids PROVE Single(t)'
  <2>1. Single(t)
    BY DEF EInv, Exact
  <2>2. CASE t = x
    <3>1. st[t] # "Gone" => ~(t >= nid)
      BY DEF EInv, IInv, Safety, FreshInv
    <3>2. CASE st[t] = "Gone"
      BY <1>1, <1>2, <2>1, <2>2, <3>2 DEF Single, Live
    <3> QED
      BY <1>1, <2>2, <3>1, <3>2 DEF Single, Live
  <2>3. CASE t # x /\ t \in woken
    <3>1. st[t] \in {"Sending", "Recv", "Waiting"} /\ Live(t)
      <4>1. t \in LiveWaiters(x) => st[t] = "Waiting"
        <5> SUFFICES ASSUME t \in LiveWaiters(x) PROVE st[t] = "Waiting"
          OBVIOUS
        <5>1. Live(t) /\ waiters[x][t] > 0 /\ ~(0 > 0)
          BY SMT DEF LiveWaiters
        <5> QED
          BY <2>1, <5>1 DEF Single
      <4> QED
        BY <2>3, <4>1 DEF StuckSenders, ParkedWatchers, Live
    <3>2. ready[t] = 0
      BY <2>1, <3>1 DEF Single
    <3>3. ready'[t] = 1
      <4>1. Pushes(x, t) = 1
        BY <2>3, PushedOnce
      <4> QED
        BY <1>1, <2>3, <3>2, <4>1, SMTT(20)
    <3>4. \A p \in Tids : p # x => waiters[p][t] = 0
      <4> SUFFICES ASSUME NEW p \in Tids, p # x, waiters[p][t] # 0 PROVE FALSE
        OBVIOUS
      <4>1. st[t] = "Waiting" /\ tgt[t] = p
        BY <2>1, <3>1 DEF Single
      <4>2. waiters[x][t] = 0
        BY <2>1, <3>1, <4>1 DEF Single
      <4>3. ~(0 > 0)
        BY SMT
      <4> QED
        BY <2>3, <4>1, <4>2, <4>3 DEF StuckSenders, LiveWaiters, ParkedWatchers
    <3>5. \A p \in Tids : waiters'[p][t] = 0
      BY <1>2, <3>4
    <3> QED
      BY <1>1, <2>3, <3>3, <3>5 DEF Single
  <2>4. CASE t # x /\ t \notin woken
    <3>1. st'[t] = st[t] /\ tgt'[t] = tgt[t]
      BY <1>1, <2>4
    <3>2. ready'[t] = ready[t]
      <4>1. Pushes(x, t) = 0 /\ ready[t] \in Nat
        BY <2>4, PushedOnce DEF EInv, IInv, TypeOK
      <4> QED
        BY <1>1, <2>4, <4>1, SMT
    <3>3. Live(t) \/ t >= nid => waiters[x][t] = 0
      <4> SUFFICES ASSUME Live(t) \/ t >= nid, waiters[x][t] # 0 PROVE FALSE
        OBVIOUS
      <4>1. waiters[x][t] = 1 /\ st[t] = "Waiting"
        BY <2>1 DEF Single
      <4>2. 1 > 0
        BY SMT
      <4> QED
        BY <2>4, <4>1, <4>2 DEF LiveWaiters, Live
    <3> QED
      BY <1>2, <2>1, <3>1, <3>2, <3>3 DEF Single, Live
  <2> QED
    BY <2>2, <2>3, <2>4
<1>4. CurRuns'
  <2> SUFFICES ASSUME cpu' = "user", cur' # 0 PROVE st'[cur'] = "Running"
    BY DEF CurRuns
  <2>1. cur' = cur /\ cur # x /\ cur \in Tids /\ st[cur] = "Running"
    BY DEF EInv, IInv, TypeOK, Exact, CurRuns
  <2>2. cur \notin woken
    <3>1. cur \in LiveWaiters(x) => st[cur] = "Waiting"
      <4> SUFFICES ASSUME cur \in LiveWaiters(x), st[cur] # "Waiting" PROVE FALSE
        OBVIOUS
      <4>1. Live(cur) /\ waiters[x][cur] > 0 /\ ~(0 > 0)
        BY SMT DEF LiveWaiters
      <4>2. Single(cur)
        BY <2>1 DEF EInv, Exact
      <4> QED
        BY <4>1, <4>2 DEF Single
    <3> QED
      BY <2>1, <3>1 DEF StuckSenders, ParkedWatchers
  <2> QED
    BY <1>1, <2>1, <2>2
<1> QED
  BY <1>3, <1>4 DEF Exact

\* Every way of dying
LEMMA DyingExact ==
    ASSUME EInv, NEW t \in Tids, NEW c, NEW x \in Tids,
           Exit(t, c) \/ Fault(t) \/ ForceExit(t, x) \/ KillHung \/ WatchdogKill
    PROVE  Exact'
<1>1. CASE Exit(t, c)
  BY <1>1, ExitExact DEF Exit
<1>2. CASE Fault(t)
  BY <1>2, ExitExact DEF Fault
<1>3. CASE ForceExit(t, x)
  <2>1. cur = t /\ x # t /\ UNCHANGED hart
    BY <1>3 DEF ForceExit, Enter, Return
  <2>2. CASE exit_task(x, MAX)
    BY <2>1, <2>2, ExitExact DEF hart
  <2>3. CASE UNCHANGED <<task, queues, frames, owed>>
    BY <2>1, <2>3, QuietExact DEF task, queues, hart
  <2> QED
    BY <1>3, <2>2, <2>3 DEF ForceExit
<1>4. CASE KillHung
  <2>1. Lowest(Hung) \in Tids
    BY <1>4, LowestIn DEF KillHung, Hung
  <2>2. exit_task(Lowest(Hung), MAX) /\ nid' = nid /\ cpu' # "user"
    BY <1>4 DEF KillHung
  <2> QED
    BY <2>1, <2>2, ExitExact
<1>5. CASE WatchdogKill
  <2>1. cur \in Tids
    BY <1>5 DEF WatchdogKill, Preempted, EInv, IInv, TypeOK
  <2>2. exit_task(cur, MAX) /\ nid' = nid /\ cpu' # "user"
    BY <1>5 DEF WatchdogKill
  <2> QED
    BY <2>1, <2>2, ExitExact
<1> QED
  BY <1>1, <1>2, <1>3, <1>4, <1>5

LEMMA TickExact ==
    ASSUME EInv, Tick
    PROVE  Exact'
<1>1. \A t \in Tids :
         /\ st'[t] = IF Elapsed(t) THEN "Ready" ELSE st[t]
         /\ ready'[t] = ready[t] + (IF Elapsed(t) THEN 1 ELSE 0)
         /\ Elapsed(t) => st[t] \in {"Sleeping", "Recv"}
         /\ ready[t] \in Nat
  BY DEF Tick, Elapsed, EInv, IInv, TypeOK
<1>2. UNCHANGED <<tgt, waiters, nid>> /\ cpu' = "sweep"
  BY DEF Tick
<1>3. ASSUME NEW t \in Tids PROVE Single(t)'
  <2>1. Single(t)
    BY DEF EInv, Exact
  <2>2. CASE Elapsed(t)
    <3>1. ready'[t] = ready[t] + 1 /\ st'[t] = "Ready" /\ st[t] \in {"Sleeping", "Recv"}
      BY <1>1, <2>2
    <3> QED
      BY <1>2, <2>1, <3>1, SingleWoken
  <2>3. CASE ~Elapsed(t)
    <3>1. ready'[t] = ready[t]
      BY <1>1, <2>3, SMTT(20)
    <3> QED
      BY <1>1, <1>2, <2>1, <2>3, <3>1, SingleKept
  <2> QED
    BY <2>2, <2>3
<1>4. CurRuns'
  BY <1>2 DEF CurRuns
<1> QED
  BY <1>3, <1>4 DEF Exact

LEMMA PickExact ==
    ASSUME EInv, Pick
    PROVE  Exact'
<1>1. /\ st \in [Tids -> States] /\ ready \in [Tids -> Nat] /\ cur \in Tids \cup {0}
      /\ tgt \in [Tids -> Tids \cup {0}]
  BY DEF EInv, IInv, TypeOK
<1>2. UNCHANGED <<waiters, nid>>
  BY DEF Pick
<1>3. ASSUME NEW n \in Tids, Requeued[n] > 0,
             ready' = [Requeued EXCEPT ![n] = @ - 1],
             st' = [t \in Tids |-> IF t = n /\ Live(n) THEN "Running"
                                   ELSE IF Preempted /\ t = cur THEN "Ready"
                                   ELSE st[t]],
             tgt' = [tgt EXCEPT ![n] = 0],
             cur' = n, cpu' = IF Live(n) THEN "user" ELSE "lost"
      PROVE  Exact'
  <2>1. \A t \in Tids :
           /\ Requeued[t] = ready[t] + (IF Preempted /\ t = cur THEN 1 ELSE 0)
           /\ Requeued[t] = IF st[t] = "Ready" \/ (Preempted /\ t = cur) THEN 1 ELSE 0
    <3> SUFFICES ASSUME NEW t \in Tids
                 PROVE  /\ Requeued[t] = ready[t] + (IF Preempted /\ t = cur THEN 1 ELSE 0)
                        /\ Requeued[t] = IF st[t] = "Ready" \/ (Preempted /\ t = cur)
                                         THEN 1 ELSE 0
      OBVIOUS
    <3>1. ready[t] = IF st[t] = "Ready" THEN 1 ELSE 0
      BY DEF EInv, Exact, Single
    <3>2. Preempted /\ t = cur => st[t] # "Ready"
      BY DEF Preempted
    <3>3. Requeued[t] = ready[t] + (IF Preempted /\ t = cur THEN 1 ELSE 0)
      BY DEF Requeued
    <3> QED
      BY <3>1, <3>2, <3>3, SMTT(20)
  <2>2. \A t \in Tids :
           ready'[t] = IF t = n THEN 0
                       ELSE IF st[t] = "Ready" \/ (Preempted /\ t = cur) THEN 1 ELSE 0
    <3>1. Requeued[n] = 1
      BY <1>3, <2>1, SMT
    <3>2. \A t \in Tids : ready'[t] = IF t = n THEN Requeued[n] - 1 ELSE Requeued[t]
      BY <1>3 DEF Requeued
    <3>3. Requeued[n] - 1 = 0
      BY <3>1, SMT
    <3> QED
      BY <2>1, <3>2, <3>3
  <2>3. st[n] \in {"Ready", "Running"} /\ Live(n)
    <3>1. st[n] = "Ready" \/ (Preempted /\ n = cur)
      BY <1>3, <2>1, SMT
    <3> QED
      BY <3>1 DEF Preempted, Live
  <2>4. /\ st'[n] = "Running"
        /\ \A t \in Tids \ {n} :
              /\ st'[t] = IF Preempted /\ t = cur THEN "Ready" ELSE st[t]
              /\ tgt'[t] = tgt[t]
    BY <1>1, <1>3, <2>3
  <2>5. ASSUME NEW t \in Tids PROVE Single(t)'
    <3>1. Single(t)
      BY DEF EInv, Exact
    <3>2. CASE t = n
      <4>1. \A p \in Tids : waiters[p][t] = 0
        BY <2>3, <3>1, <3>2 DEF Single
      <4> QED
        BY <1>2, <2>2, <2>4, <3>2, <4>1 DEF Single
    <3>3. CASE t # n
      BY <1>2, <2>2, <2>4, <3>1, <3>3 DEF Single, Live, Preempted
    <3> QED
      BY <3>2, <3>3
  <2>6. CurRuns'
    BY <1>3, <2>4 DEF CurRuns
  <2> QED
    BY <2>5, <2>6 DEF Exact
<1>4. ASSUME cur' = 0, UNCHANGED <<st, tgt, ready>>
      PROVE  Exact'
  <2>1. ASSUME NEW t \in Tids PROVE Single(t)'
    <3>1. Single(t)
      BY DEF EInv, Exact
    <3> QED
      BY <1>2, <1>4, <3>1, SingleKept
  <2>2. CurRuns'
    BY <1>4 DEF CurRuns
  <2> QED
    BY <2>1, <2>2 DEF Exact
<1> QED
  BY <1>3, <1>4 DEF Pick

LEMMA ResumptionExact ==
    ASSUME EInv, NEW t \in Tids, Resumption(t)
    PROVE  Exact'
<1>1. \A k, op, r, b : Resume(t, k, op, r, b) => Exact'
  BY QuietExact DEF Resume, queues, hart
<1> QED
  BY <1>1 DEF Resumption, ResumeSend, ResumeWait, ResumeTimer, ResumeRecv,
              ResumeRecvTimeout

\* The calls that Blocking rules out are not made.
LEMMA NotMade ==
    ASSUME Blocking, NEW t \in Tids, NEW d
    PROVE  ~SendGather(t, d) /\ ~RecvScatter(t) /\ ~Reply(t, d)
  BY DEF Blocking, SendGather, RecvScatter, Reply, Enter, Syscalls

LEMMA NextExact ==
    ASSUME Blocking
    PROVE  EInv /\ [Next]_vars => EInv'
<1> SUFFICES ASSUME EInv, [Next]_vars PROVE Exact'
  BY NextIInv DEF EInv
<1>1. CASE Tick
  BY <1>1, TickExact
<1>2. CASE KillHung \/ WatchdogKill
  <2>1. \E x \in Tids : TRUE
    BY <1>2, LowestIn DEF KillHung, Hung, WatchdogKill, Preempted, EInv, IInv, TypeOK
  <2> QED
    BY <1>2, <2>1, DyingExact
<1>3. CASE Pick
  BY <1>3, PickExact
<1>4. ASSUME NEW t \in Tids, Resumption(t) PROVE Exact'
  BY <1>4, ResumptionExact
<1>5. ASSUME NEW t \in Tids, Handler(t) PROVE Exact'
  <2>1. ASSUME NEW d \in Tids,
               Send(t, d) \/ SendGather(t, d) \/ Wait(t, d)
                   \/ NotifyOnExit(t, d) \/ ForceExit(t, d)
        PROVE  Exact'
    BY <2>1, NotMade, SendExact, WaitExact, QuietCallsExact, DyingExact
  <2>2. ASSUME NEW i \in Timeouts,
               RecvTimeout(t, i) \/ SetTimer(t, i) \/ Heartbeat(t, i)
        PROVE  Exact'
    BY <2>2, RecvTimeoutExact, SetTimerExact, QuietCallsExact
  <2>3. ASSUME NEW c \in Codes, Reply(t, c) \/ Exit(t, c)
        PROVE  Exact'
    BY <2>3, NotMade, DyingExact
  <2>4. CASE Recv(t) \/ TryRecv(t) \/ RecvScatter(t)
    BY <2>4, NotMade, RecvExact, TryRecvExact
  <2>5. CASE Yield(t) \/ Spawn(t) \/ Fault(t)
    BY <2>5, QuietCallsExact, SpawnExact, DyingExact
  <2> QED
    BY <1>5, <2>1, <2>2, <2>3, <2>4, <2>5 DEF Handler
<1>6. ASSUME NEW d \in Input, KernelSend(d) PROVE Exact'
  BY <1>6, DeliverExact, InputAssumption DEF KernelSend
<1>7. CASE UNCHANGED vars
  BY <1>7, QuietExact DEF vars, task, queues, hart
<1> QED
  BY <1>1, <1>2, <1>3, <1>4, <1>5, <1>6, <1>7 DEF Next, Kernel

\* Where no cell makes Reply, SendGather or RecvScatter, no wake-up is doubled and
\* none is left behind: a task has one entry in the ready queues (push_ready) while
\* it is Ready, and none otherwise, for any number of tasks and any of the other
\* system calls.
THEOREM QueuedOnce == ASSUME Blocking PROVE Spec => []ReadyExact
<1>1. Init => EInv
  BY InitIInv, InitExact DEF EInv
<1>2. EInv /\ [Next]_vars => EInv'
  BY NextExact
<1>3. EInv => ReadyExact
  BY DEF EInv, Exact, Single, ReadyExact
<1> QED
  BY <1>1, <1>2, <1>3, PTL DEF Spec
=============================================================================
