------------------------- MODULE SupervisorProofs -------------------------
(***************************************************************************)
(* Proofs about Supervisor, for any number of services, any policies and   *)
(* any limits: no service runs twice, no death is missed, and the restarts *)
(* within a window are bounded.                                            *)
(*                                                                         *)
(* The invariant says how init's own table and the kernel's agree between  *)
(* any two system calls: whose task is whose (Identity), that the death of *)
(* every task init names is subscribed to, queued, being handled or still  *)
(* to be asked for (Watch), that the registry names the live provider      *)
(* unless init is about to register it (Registered), and how the restarts  *)
(* of a service spread over its last two windows (Intensity).              *)
(***************************************************************************)
EXTENDS Supervisor, FiniteSetTheorems, TLAPS

\* ids are never used again
Spawned == 1 .. nid - 1

\* the tasks whose death is in the queue q
Queued(q) == {q[k][1] : k \in DOMAIN q}

Identity ==
    /\ live \subseteq Spawned
    /\ \A t \in live : owner[t] \in Services /\ tids[owner[t]] = t
    /\ \A s \in Services : tids[s] # None => tids[s] \in Spawned /\ owner[tids[s]] = s
    /\ Queued(deaths) \subseteq Spawned \ live
    /\ pc \in {"handle", "respawn"} => dead[1] \in Spawned \ live

\* where init is in its loops
Progress ==
    /\ pc = "respawn" => tids[i] = dead[1]
    /\ pc \in {"register", "rewatch", "reregister"} => tids[i] # None
    /\ pc \in {"register", "reregister"} => i \in Named
    /\ pc = "spawn" => \A s \in Services : s >= i => tids[s] = None
    /\ pc = "register" => \A s \in Services : s > i => tids[s] = None

\* the service of which init has yet to ask NotifyOnExit
Unwatched(s) ==
    \/ pc \in {"spawn", "register"}
    \/ pc = "subscribe" /\ s >= i
    \/ pc = "rewatch" /\ s = i

Noticed(t) ==
    \/ t \in subs
    \/ t \in Queued(deaths)
    \/ pc \in {"handle", "respawn"} /\ dead[1] = t

Watch ==
    /\ subs \subseteq live
    /\ pc = "parked" => deaths = << >>
    /\ \A s \in Services : tids[s] # None => Noticed(tids[s]) \/ Unwatched(s)

\* the service that init is about to register
Unregistered(s) == pc \in {"register", "rewatch", "reregister"} /\ s = i

Registered ==
    \A s \in Named : tids[s] \in live => registry[s] = tids[s] \/ Unregistered(s)

\* how many entries of q are in the range
Count(q, lo, hi) == Cardinality({k \in DOMAIN q : q[k] \in lo .. hi})

\* The restarts q of one service whose current window began at w with c restarts so
\* far: there are no more than c in it, no more than the limit in the WINDOW ticks
\* before it, and no more than twice the limit in any WINDOW ticks.
Spread(q, w, c) ==
    /\ w <= now
    /\ \A k \in DOMAIN q : q[k] <= w + WINDOW
    /\ Count(q, w, MaxTime) <= c
    /\ Count(q, w - WINDOW, w - 1) <= MAX_RESTARTS
    /\ \A t \in 0 .. MaxTime : Count(q, t, t + WINDOW) <= 2 * MAX_RESTARTS

Intensity ==
    \A s \in Services : Spread(restarts[s], window_start[s], restart_count[s])

IInv == TypeOK /\ Identity /\ Progress /\ Watch /\ Registered /\ Intensity

\* a leaf that names no prover is Zenon's
USE ZenonT(30)

-----------------------------------------------------------------------------
\* Constants and counting

LEMMA Bounds ==
    /\ NSVC \in Nat \ {0} /\ Named \subseteq Services
    /\ MAX_SERVICES \in Nat /\ MAX_RESTARTS \in Nat /\ WINDOW \in Nat
    /\ MaxTid \in Nat /\ MaxTime \in Nat
    /\ \A s \in Services : s \in Nat
    /\ 1 \in Services
  BY ServicesAssumption, BoundsAssumption, SMT DEF Services

\* There is a free entry in the registry for a service that is not there, since it
\* holds all the well-known services.
LEMMA RoomForAll ==
    ASSUME TypeOK, NEW s \in Named, registry[s] = None
    PROVE  ~ (Cardinality({x \in Named : registry[x] # None}) >= MAX_SERVICES)
<1> DEFINE N == Named
           U == {x \in Named : registry[x] # None}
<1>1. IsFiniteSet(N)
  <2>1. IsFiniteSet(1 .. NSVC)
    BY Bounds, FS_Interval, SMT
  <2> QED BY <2>1, Bounds, FS_Subset DEF Services
<1>2. IsFiniteSet(N \ {s}) /\ Cardinality(N \ {s}) = Cardinality(N) - 1
  BY <1>1, FS_RemoveElement
<1>3. U \subseteq N \ {s}
  OBVIOUS
<1>4. Cardinality(U) <= Cardinality(N \ {s})
  BY <1>2, <1>3, FS_Subset
<1>5. Cardinality(N) \in Nat /\ Cardinality(U) \in Nat
  BY <1>1, <1>2, <1>3, FS_CardinalityType, FS_Subset
<1>6. Cardinality(N) <= MAX_SERVICES
  BY BoundsAssumption
<1> HIDE DEF U, N
<1>7. ~ (Cardinality(U) >= MAX_SERVICES)
  BY <1>2, <1>4, <1>5, <1>6, Bounds, SMT
<1> QED BY <1>7 DEF U

LEMMA CountFinite ==
    ASSUME NEW q \in Seq(Int), NEW lo \in Int, NEW hi \in Int
    PROVE  /\ IsFiniteSet({k \in DOMAIN q : q[k] \in lo .. hi})
           /\ Count(q, lo, hi) \in Nat
<1>1. DOMAIN q = 1 .. Len(q) /\ Len(q) \in Nat
  BY SMT
<1>2. IsFiniteSet(1 .. Len(q))
  BY <1>1, FS_Interval, SMT
<1>3. {k \in DOMAIN q : q[k] \in lo .. hi} \subseteq 1 .. Len(q)
  BY <1>1
<1> QED BY <1>2, <1>3, FS_Subset, FS_CardinalityType DEF Count

\* A range that lies in another one as far as q goes holds no more.
LEMMA CountWithin ==
    ASSUME NEW q \in Seq(Int), NEW lo \in Int, NEW hi \in Int, NEW lo2 \in Int, NEW hi2 \in Int,
           \A k \in DOMAIN q : q[k] \in lo .. hi => q[k] \in lo2 .. hi2
    PROVE  Count(q, lo, hi) <= Count(q, lo2, hi2)
<1> DEFINE A == {k \in DOMAIN q : q[k] \in lo .. hi}
           B == {k \in DOMAIN q : q[k] \in lo2 .. hi2}
<1>1. A \subseteq B
  OBVIOUS
<1>2. IsFiniteSet(B)
  BY CountFinite
<1> HIDE DEF A, B
<1>3. Cardinality(A) <= Cardinality(B)
  BY <1>1, <1>2, FS_Subset
<1> QED BY <1>3 DEF Count, A, B

LEMMA CountNone ==
    ASSUME NEW q \in Seq(Int), NEW lo \in Int, NEW hi \in Int,
           \A k \in DOMAIN q : q[k] \notin lo .. hi
    PROVE  Count(q, lo, hi) = 0
<1>1. {k \in DOMAIN q : q[k] \in lo .. hi} = {}
  OBVIOUS
<1> QED BY <1>1, FS_EmptySet DEF Count

\* A range is cut in two.
LEMMA CountCut ==
    ASSUME NEW q \in Seq(Int), NEW lo \in Int, NEW hi \in Int, NEW m \in Int, NEW h \in Int,
           \A k \in DOMAIN q : q[k] <= h
    PROVE  Count(q, lo, hi) <= Count(q, lo, m - 1) + Count(q, m, h)
<1> DEFINE A == {k \in DOMAIN q : q[k] \in lo .. hi}
           B == {k \in DOMAIN q : q[k] \in lo .. m - 1}
           C == {k \in DOMAIN q : q[k] \in m .. h}
<1>1. \A k \in DOMAIN q : q[k] \in Int
  BY SMT
<1>2. A \subseteq B \cup C
  BY <1>1, SMT
<1>3. IsFiniteSet(A) /\ IsFiniteSet(B) /\ IsFiniteSet(C)
  <2>1. m - 1 \in Int
    BY SMT
  <2>2. IsFiniteSet(A)
    BY CountFinite
  <2>3. IsFiniteSet(B)
    BY <2>1, CountFinite
  <2>4. IsFiniteSet(C)
    BY CountFinite
  <2> QED BY <2>2, <2>3, <2>4
<1> HIDE DEF A, B, C
<1>4. /\ IsFiniteSet(B \cup C)
      /\ Cardinality(B \cup C) = Cardinality(B) + Cardinality(C) - Cardinality(B \cap C)
  BY <1>3, FS_Union
<1>5. Cardinality(A) <= Cardinality(B \cup C)
  BY <1>2, <1>4, FS_Subset
<1>6. IsFiniteSet(B \cap C)
  BY <1>3, FS_Subset
<1>7. /\ Cardinality(A) \in Nat /\ Cardinality(B) \in Nat /\ Cardinality(C) \in Nat
      /\ Cardinality(B \cap C) \in Nat /\ Cardinality(B \cup C) \in Nat
  BY <1>3, <1>4, <1>6, FS_CardinalityType
<1>8. Cardinality(A) <= Cardinality(B) + Cardinality(C)
  BY <1>4, <1>5, <1>7, SMT
<1> QED BY <1>8 DEF Count, A, B, C

LEMMA CountAppend ==
    ASSUME NEW q \in Seq(Int), NEW lo \in Int, NEW hi \in Int, NEW v \in Int
    PROVE  /\ v \in lo .. hi => Count(Append(q, v), lo, hi) = Count(q, lo, hi) + 1
           /\ v \notin lo .. hi => Count(Append(q, v), lo, hi) = Count(q, lo, hi)
<1>1. PICK p : p = Append(q, v)
  OBVIOUS
<1>2. /\ p \in Seq(Int) /\ Len(p) = Len(q) + 1 /\ p[Len(q) + 1] = v
      /\ \A k \in 1 .. Len(q) : p[k] = q[k]
  BY <1>1, SMT
<1>3. /\ DOMAIN q = 1 .. Len(q) /\ Len(q) \in Nat /\ DOMAIN p = 1 .. Len(q) + 1
  BY <1>2, SMT
<1> DEFINE A == {k \in DOMAIN q : q[k] \in lo .. hi}
           B == {k \in DOMAIN p : p[k] \in lo .. hi}
           n == Len(q) + 1
<1>4. n \notin A /\ IsFiniteSet(A)
  <2>1. n \notin A
    BY <1>3, SMT
  <2>2. IsFiniteSet(A)
    BY CountFinite
  <2> QED BY <2>1, <2>2
<1>5. \A k \in DOMAIN p : k \in DOMAIN q \/ k = n
  BY <1>3, SMT
<1>6. \A k \in DOMAIN q : k \in DOMAIN p /\ p[k] = q[k]
  BY <1>2, <1>3, SMT
<1>7. n \in DOMAIN p /\ p[n] = v
  BY <1>2, <1>3, SMT
<1> HIDE DEF n
<1>8. v \in lo .. hi => B = A \cup {n}
  BY <1>5, <1>6, <1>7
<1>9. v \notin lo .. hi => B = A
  BY <1>5, <1>6, <1>7
<1> HIDE DEF A, B
<1>10. Cardinality(A \cup {n}) = Cardinality(A) + 1
  BY <1>4, FS_AddElement
<1>11. Count(q, lo, hi) = Cardinality(A) /\ Count(Append(q, v), lo, hi) = Cardinality(B)
  BY <1>1 DEF Count, A, B
<1> QED BY <1>8, <1>9, <1>10, <1>11
-----------------------------------------------------------------------------
\* The restarts of one service

LEMMA Elements ==
    ASSUME NEW S, NEW T, S \subseteq T, NEW q \in Seq(S)
    PROVE  q \in Seq(T) /\ \A k \in DOMAIN q : q[k] \in S
  BY SMT

LEMMA SpreadType ==
    ASSUME NEW q \in Seq(0 .. MaxTime)
    PROVE  /\ q \in Seq(Int) /\ \A k \in DOMAIN q : q[k] \in 0 .. MaxTime
           /\ \A k \in DOMAIN q : q[k] \in Int /\ q[k] <= MaxTime
<1>1. 0 .. MaxTime \subseteq Int
  BY SMT
<1>2. q \in Seq(Int) /\ \A k \in DOMAIN q : q[k] \in 0 .. MaxTime
  BY <1>1, Elements
<1> QED BY <1>2, Bounds, SMT

\* The window is over and a new one begins now: all that the old one holds is in
\* the WINDOW ticks before now, or earlier.
LEMMA SpreadReset ==
    ASSUME NEW q \in Seq(0 .. MaxTime), NEW w \in 0 .. MaxTime, NEW c \in 0 .. MAX_RESTARTS,
           now \in 0 .. MaxTime, Spread(q, w, c), now - w > WINDOW
    PROVE  Spread(q, now, 0)
<1>1. /\ q \in Seq(Int) /\ w \in Int /\ c \in Int /\ now \in Int
      /\ WINDOW \in Nat /\ MAX_RESTARTS \in Nat /\ MaxTime \in Nat
  BY SpreadType, Bounds, SMT
<1>2. /\ \A k \in DOMAIN q : q[k] <= w + WINDOW
      /\ Count(q, w, MaxTime) <= c
      /\ \A t \in 0 .. MaxTime : Count(q, t, t + WINDOW) <= 2 * MAX_RESTARTS
  BY DEF Spread
<1>3. \A k \in DOMAIN q : q[k] \in Int /\ q[k] <= MaxTime
  BY SpreadType
<1>4. \A k \in DOMAIN q : q[k] <= now + WINDOW
  BY <1>1, <1>2, <1>3, SMT
<1>5. \A k \in DOMAIN q : q[k] \notin now .. MaxTime
  BY <1>1, <1>2, <1>3, SMTT(20)
<1>6. Count(q, now, MaxTime) = 0
  BY <1>1, <1>5, CountNone, SMT
<1>7. \A k \in DOMAIN q : q[k] \in now - WINDOW .. now - 1 => q[k] \in w .. MaxTime
  BY <1>1, <1>3, SMT
<1>8. PICK a, b : a = now - WINDOW /\ b = now - 1 /\ a \in Int /\ b \in Int
  BY <1>1, SMT
<1>9. Count(q, a, b) <= Count(q, w, MaxTime)
  BY <1>1, <1>7, <1>8, CountWithin, SMT
<1>10. Count(q, a, b) \in Nat /\ Count(q, w, MaxTime) \in Nat
  <2>1. Count(q, a, b) \in Nat
    BY <1>1, <1>8, CountFinite
  <2>2. Count(q, w, MaxTime) \in Nat
    <3>1. MaxTime \in Int
      BY <1>1, SMT
    <3> QED BY <1>1, <3>1, CountFinite
  <2> QED BY <2>1, <2>2
<1>11. Count(q, now - WINDOW, now - 1) <= MAX_RESTARTS
  BY <1>1, <1>2, <1>8, <1>9, <1>10, SMTT(20)
<1> QED BY <1>1, <1>2, <1>4, <1>6, <1>11, SMT DEF Spread

\* One more restart in the window: an interval of WINDOW ticks that holds it reaches
\* back into the ticks before the window by WINDOW at most.
LEMMA SpreadAppend ==
    ASSUME NEW q \in Seq(0 .. MaxTime), NEW w \in 0 .. MaxTime, NEW c \in 0 .. MAX_RESTARTS,
           now \in 0 .. MaxTime, Spread(q, w, c), ~ (now - w > WINDOW), c < MAX_RESTARTS
    PROVE  Spread(Append(q, now), w, c + 1)
<1>1. /\ q \in Seq(Int) /\ w \in Int /\ c \in Int /\ now \in Int
      /\ WINDOW \in Nat /\ MAX_RESTARTS \in Nat /\ MaxTime \in Nat
      /\ now <= w + WINDOW /\ w <= now /\ now <= MaxTime
  BY SpreadType, Bounds, SMT DEF Spread
<1>2. /\ \A k \in DOMAIN q : q[k] <= w + WINDOW
      /\ Count(q, w, MaxTime) <= c
      /\ Count(q, w - WINDOW, w - 1) <= MAX_RESTARTS
      /\ \A t \in 0 .. MaxTime : Count(q, t, t + WINDOW) <= 2 * MAX_RESTARTS
  BY DEF Spread
<1>3. \A k \in DOMAIN q : q[k] \in Int /\ q[k] <= MaxTime
  BY SpreadType
<1>4. PICK p : p = Append(q, now)
  OBVIOUS
<1>5. \A k \in DOMAIN p : p[k] <= w + WINDOW
  <2>1. /\ Len(p) = Len(q) + 1 /\ p[Len(q) + 1] = now /\ p \in Seq(Int)
        /\ \A k \in 1 .. Len(q) : p[k] = q[k]
    BY <1>1, <1>4, SMT
  <2>2. DOMAIN q = 1 .. Len(q) /\ Len(q) \in Nat /\ DOMAIN p = 1 .. Len(q) + 1
    BY <1>1, <2>1, SMT
  <2>3. \A k \in DOMAIN p : k \in DOMAIN q \/ k = Len(q) + 1
    BY <2>2, SMT
  <2> QED BY <1>1, <1>2, <2>1, <2>2, <2>3
<1>6. PICK a, b : a = w - WINDOW /\ b = w - 1 /\ a \in Int /\ b \in Int
  BY <1>1, SMT
<1>7. /\ Count(q, a, b) \in Nat /\ Count(q, w, MaxTime) \in Nat
      /\ Count(q, a, b) <= MAX_RESTARTS
  <2>1. Count(q, a, b) \in Nat
    BY <1>1, <1>6, CountFinite
  <2>2. Count(q, w, MaxTime) \in Nat
    <3>1. MaxTime \in Int
      BY <1>1, SMT
    <3> QED BY <1>1, <3>1, CountFinite
  <2> QED BY <1>2, <1>6, <2>1, <2>2
<1>8. Count(p, w, MaxTime) <= c + 1
  <2>1. now \in w .. MaxTime
    BY <1>1, SMT
  <2>2. Count(p, w, MaxTime) = Count(q, w, MaxTime) + 1
    BY <1>1, <1>4, <2>1, CountAppend, SMT
  <2> QED BY <1>1, <1>2, <1>7, <2>2, SMTT(20)
<1>9. Count(p, a, b) <= MAX_RESTARTS
  <2>1. now \notin a .. b
    BY <1>1, <1>6, SMT
  <2> QED BY <1>1, <1>4, <1>6, <1>7, <2>1, CountAppend, SMT
<1>10. ASSUME NEW t \in 0 .. MaxTime PROVE Count(p, t, t + WINDOW) <= 2 * MAX_RESTARTS
  <2>1. PICK e : e = t + WINDOW /\ e \in Int /\ t \in Int
    BY <1>1, SMT
  <2>2. Count(q, t, e) \in Nat /\ Count(q, t, e) <= 2 * MAX_RESTARTS
    BY <1>1, <1>2, <2>1, CountFinite
  <2>3. CASE now \notin t .. e
    BY <1>1, <1>4, <2>1, <2>2, <2>3, CountAppend, SMT
  <2>4. CASE now \in t .. e
    <3>1. Count(p, t, e) = Count(q, t, e) + 1
      BY <1>1, <1>4, <2>1, <2>4, CountAppend, SMT
    <3>2. Count(q, t, e) <= Count(q, t, b) + Count(q, w, MaxTime)
      BY <1>1, <1>3, <1>6, <2>1, CountCut, SMT
    <3>3. a <= t
      BY <1>1, <1>6, <2>1, <2>4, SMT
    <3>4. \A k \in DOMAIN q : q[k] \in t .. b => q[k] \in a .. b
      BY <1>3, <1>6, <2>1, <3>3, SMTT(20)
    <3>5. Count(q, t, b) <= Count(q, a, b)
      BY <1>1, <1>6, <2>1, <3>4, CountWithin
    <3>6. Count(q, t, b) \in Nat
      BY <1>1, <1>6, <2>1, CountFinite
    <3>7. Count(q, t, e) + 1 <= MAX_RESTARTS + (c + 1)
      <4> DEFINE n1 == Count(q, t, e)  n2 == Count(q, t, b)
                 n3 == Count(q, a, b)  n4 == Count(q, w, MaxTime)
      <4>1. n1 \in Nat /\ n2 \in Nat /\ n3 \in Nat /\ n4 \in Nat
        BY <1>7, <2>2, <3>6
      <4>2. n1 <= n2 + n4 /\ n2 <= n3 /\ n3 <= MAX_RESTARTS /\ n4 <= c
        BY <1>2, <1>7, <3>2, <3>5
      <4> HIDE DEF n1, n2, n3, n4
      <4>3. n1 + 1 <= MAX_RESTARTS + (c + 1)
        BY <1>1, <4>1, <4>2, SMT
      <4> QED BY <4>3 DEF n1
    <3>8. MAX_RESTARTS + (c + 1) <= 2 * MAX_RESTARTS
      BY <1>1, SMT
    <3>9. Count(p, t, e) <= 2 * MAX_RESTARTS
      BY <1>1, <2>2, <3>1, <3>7, <3>8, SMT
    <3> QED BY <2>1, <3>9
  <2> QED BY <2>3, <2>4
<1>11. w <= now
  BY <1>1
<1>12. Spread(p, w, c + 1)
  BY <1>5, <1>6, <1>8, <1>9, <1>10, <1>11 DEF Spread
<1> QED BY <1>4, <1>12
-----------------------------------------------------------------------------
\* The queue of deaths

LEMMA QueuedAppend ==
    ASSUME NEW q \in Seq(Tids \X Reasons), NEW t \in Tids, NEW x \in Reasons
    PROVE  /\ Append(q, <<t, x>>) \in Seq(Tids \X Reasons)
           /\ Queued(Append(q, <<t, x>>)) = Queued(q) \cup {t}
           /\ Append(q, <<t, x>>) # << >>
<1>0. PICK d : d = <<t, x>>
  OBVIOUS
<1>1. PICK p : p = Append(q, d) /\ d \in Tids \X Reasons /\ d[1] = t
  BY <1>0
<1>2. /\ p \in Seq(Tids \X Reasons) /\ Len(p) = Len(q) + 1 /\ p[Len(q) + 1] = d
      /\ \A k \in 1 .. Len(q) : p[k] = q[k]
  BY <1>1, SMT
<1>3. DOMAIN q = 1 .. Len(q) /\ Len(q) \in Nat /\ DOMAIN p = 1 .. Len(q) + 1
  BY <1>2, SMT
<1>4. \A k \in DOMAIN p : k \in DOMAIN q \/ k = Len(q) + 1
  BY <1>3, SMT
<1>5. \A k \in DOMAIN q : k \in DOMAIN p /\ p[k] = q[k]
  BY <1>2, <1>3, SMT
<1>6. Len(q) + 1 \in DOMAIN p /\ p[Len(q) + 1][1] = t
  BY <1>1, <1>2, <1>3, SMT
<1>7. Queued(p) = Queued(q) \cup {t}
  <2>1. \A k \in DOMAIN p : p[k][1] \in Queued(q) \cup {t}
    BY <1>4, <1>5, <1>6 DEF Queued
  <2>2. \A k \in DOMAIN q : q[k][1] \in Queued(p)
    BY <1>5 DEF Queued
  <2>3. t \in Queued(p)
    BY <1>6 DEF Queued
  <2>4. \A u \in Queued(p) : u \in Queued(q) \cup {t}
    BY <2>1 DEF Queued
  <2>5. \A u \in Queued(q) : u \in Queued(p)
    BY <2>2 DEF Queued
  <2> QED BY <2>3, <2>4, <2>5
<1>8. p # << >>
  BY <1>2, <1>3, SMT
<1> QED BY <1>0, <1>1, <1>2, <1>7, <1>8

LEMMA QueuedPop ==
    ASSUME NEW q \in Seq(Tids \X Reasons), q # << >>
    PROVE  /\ Head(q) \in Tids \X Reasons /\ Tail(q) \in Seq(Tids \X Reasons)
           /\ Queued(q) = Queued(Tail(q)) \cup {Head(q)[1]}
<1>1. PICK h, p : h = Head(q) /\ p = Tail(q)
  OBVIOUS
<1>2. /\ h = q[1] /\ h \in Tids \X Reasons /\ p \in Seq(Tids \X Reasons)
      /\ Len(p) = Len(q) - 1 /\ \A k \in 1 .. Len(p) : p[k] = q[k + 1]
  BY <1>1, SMT
<1>3. DOMAIN q = 1 .. Len(q) /\ Len(q) \in Nat /\ DOMAIN p = 1 .. Len(q) - 1 /\ Len(q) > 0
  BY <1>2, SMT
<1>4. \A k \in DOMAIN q : k = 1 \/ (k - 1 \in DOMAIN p /\ p[k - 1] = q[k])
  BY <1>2, <1>3, SMT
<1>5. \A k \in DOMAIN p : k + 1 \in DOMAIN q /\ p[k] = q[k + 1]
  BY <1>2, <1>3, SMT
<1>6. 1 \in DOMAIN q
  BY <1>3, SMT
<1>7. Queued(q) = Queued(p) \cup {h[1]}
  <2>1. \A k \in DOMAIN q : q[k][1] \in Queued(p) \cup {h[1]}
    BY <1>2, <1>4 DEF Queued
  <2>2. \A k \in DOMAIN p : p[k][1] \in Queued(q)
    BY <1>5 DEF Queued
  <2>3. h[1] \in Queued(q)
    BY <1>2, <1>6 DEF Queued
  <2>4. \A t \in Queued(q) : t \in Queued(p) \cup {h[1]}
    BY <2>1 DEF Queued
  <2>5. \A t \in Queued(p) : t \in Queued(q)
    BY <2>2 DEF Queued
  <2> QED BY <2>3, <2>4, <2>5
<1> QED BY <1>1, <1>2, <1>7

LEMMA QueuedNone == Queued(<< >>) = {}
  BY SMT DEF Queued

\* The restarts of no service change, and time only moves on.
LEMMA IntensityKept ==
    ASSUME TypeOK, Intensity, UNCHANGED <<restarts, window_start, restart_count>>,
           now' \in Nat, now <= now'
    PROVE  Intensity'
<1>1. \A s \in Services : window_start[s] \in Nat /\ now \in Nat
  BY SMT DEF TypeOK
<1>2. \A s \in Services : Spread(restarts[s], window_start[s], restart_count[s])
  BY DEF Intensity
<1> SUFFICES ASSUME NEW s \in Services
             PROVE  Spread(restarts[s], window_start[s], restart_count[s])'
  BY DEF Intensity
<1>3. window_start[s] <= now'
  BY <1>1, <1>2, SMT DEF Spread
<1> QED BY <1>2, <1>3 DEF Spread, Count

LEMMA InitInv == Init => IInv
<1> SUFFICES ASSUME Init PROVE IInv
  OBVIOUS
<1>1. TypeOK
  <2>1. << >> \in Seq(Tids \X Reasons) /\ << >> \in Seq(0 .. MaxTime)
    BY SMT
  <2>2. 0 \in 0 .. MaxTime /\ 0 \in 0 .. MAX_RESTARTS /\ 1 \in 1 .. MaxTid + 1
    BY Bounds, SMT
  <2> QED BY <2>1, <2>2, Bounds DEF Init, TypeOK, Reasons
<1>2. Identity
  BY QueuedNone DEF Init, Identity
<1>3. Progress /\ Watch /\ Registered
  BY SMT DEF Init, Progress, Watch, Registered
<1>4. Spread(<< >>, 0, 0)
  <2>1. /\ 0 <= now /\ << >> \in Seq(Int) /\ MaxTime \in Int /\ 0 \in Int
        /\ WINDOW \in Int /\ MAX_RESTARTS \in Nat
    BY Bounds, SMT DEF Init
  <2>2. \A lo, hi \in Int : Count(<< >>, lo, hi) = 0
    <3>1. \A lo, hi \in Int : {k \in DOMAIN << >> : << >>[k] \in lo .. hi} = {}
      BY SMT
    <3> QED BY <3>1, FS_EmptySet DEF Count
  <2>3. 0 - WINDOW \in Int /\ 0 - 1 \in Int /\ \A t \in 0 .. MaxTime : t \in Int /\ t + WINDOW \in Int
    BY <2>1, SMT
  <2>4. DOMAIN << >> = {}
    BY SMT
  <2> QED BY <2>1, <2>2, <2>3, <2>4, SMT DEF Spread
<1>5. Intensity
  BY <1>4 DEF Init, Intensity
<1> QED BY <1>1, <1>2, <1>3, <1>5 DEF IInv
-----------------------------------------------------------------------------
\* What the system calls do

\* The new task has an id that was not used before, and init's table names it.
LEMMA SpawnFacts ==
    ASSUME TypeOK, Identity, NEW s \in Services, Spawn(s)
    PROVE  /\ nid \in Tids /\ nid # None /\ nid \notin live /\ nid \notin Spawned
           /\ Spawned' = Spawned \cup {nid}
           /\ live' = live \cup {nid} /\ live' \subseteq Tids
           /\ nid' \in 1 .. MaxTid + 1
           /\ owner' \in [Tids -> Services \cup {None}] /\ owner'[nid] = s
           /\ \A t \in Tids : t # nid => owner'[t] = owner[t]
           /\ tids' \in [Services -> Tids \cup {None}] /\ tids'[s] = nid
           /\ \A x \in Services : x # s => tids'[x] = tids[x]
<1>1. /\ nid \in 1 .. MaxTid + 1 /\ nid <= MaxTid /\ nid' = nid + 1
      /\ live' = live \cup {nid} /\ owner' = [owner EXCEPT ![nid] = s]
      /\ tids' = [tids EXCEPT ![s] = nid]
      /\ live \subseteq Tids /\ live \subseteq Spawned
      /\ owner \in [Tids -> Services \cup {None}]
      /\ tids \in [Services -> Tids \cup {None}]
  BY DEF TypeOK, Identity, Spawn
<1>2. nid \in Tids /\ nid # None /\ nid' \in 1 .. MaxTid + 1
  BY <1>1, Bounds, SMT DEF Tids, None
<1>3. nid \notin Spawned /\ Spawned' = Spawned \cup {nid}
  BY <1>1, SMT DEF Spawned
<1> QED BY <1>1, <1>2, <1>3

LEMMA SpawnIdentity ==
    ASSUME TypeOK, Identity, NEW s \in Services, Spawn(s), tids[s] \notin live,
           UNCHANGED deaths, pc' \notin {"handle", "respawn"}
    PROVE  Identity'
<1>1. /\ nid \in Tids /\ nid # None /\ nid \notin live /\ nid \notin Spawned
      /\ Spawned' = Spawned \cup {nid}
      /\ live' = live \cup {nid} /\ live' \subseteq Tids
      /\ owner'[nid] = s
      /\ \A t \in Tids : t # nid => owner'[t] = owner[t]
      /\ tids'[s] = nid
      /\ \A x \in Services : x # s => tids'[x] = tids[x]
  BY SpawnFacts
<1>2. /\ live \subseteq Spawned
      /\ \A t \in live : owner[t] \in Services /\ tids[owner[t]] = t
      /\ \A x \in Services : tids[x] # None => tids[x] \in Spawned /\ owner[tids[x]] = x
      /\ Queued(deaths) \subseteq Spawned \ live
  BY DEF Identity
<1>3. tids \in [Services -> Tids \cup {None}]
  BY DEF TypeOK
<1>4. \A t \in live' : owner'[t] \in Services /\ tids'[owner'[t]] = t
  <2> TAKE t \in live'
  <2>1. CASE t = nid
    BY <1>1, <2>1
  <2>2. CASE t \in live /\ t # nid
    <3>1. owner'[t] = owner[t] /\ owner[t] \in Services /\ tids[owner[t]] = t
      BY <1>1, <1>2, <2>2
    <3>2. owner[t] # s
      BY <2>2, <3>1
    <3> QED BY <1>1, <3>1, <3>2
  <2> QED BY <1>1, <2>1, <2>2
<1>5. \A x \in Services : tids'[x] # None => tids'[x] \in Spawned' /\ owner'[tids'[x]] = x
  <2> TAKE x \in Services
  <2>1. CASE x = s
    BY <1>1, <2>1
  <2>2. CASE x # s
    BY <1>1, <1>2, <1>3, <2>2
  <2> QED BY <2>1, <2>2
<1>6. live' \subseteq Spawned' /\ Queued(deaths') \subseteq Spawned' \ live'
  BY <1>1, <1>2
<1> QED BY <1>4, <1>5, <1>6 DEF Identity

\* register() finds an entry.
LEMMA RegisterSets ==
    ASSUME TypeOK, NEW s \in Named, NEW t \in Tids, register(s, t)
    PROVE  /\ registry' \in [Named -> Tids \cup {None}] /\ registry'[s] = t
           /\ \A x \in Named : x # s => registry'[x] = registry[x]
<1>1. registry \in [Named -> Tids \cup {None}]
  BY DEF TypeOK
<1>2. ~ (/\ Cardinality({x \in Named : registry[x] # None}) >= MAX_SERVICES
         /\ registry[s] = None)
  BY RoomForAll
<1>3. registry' = [registry EXCEPT ![s] = t]
  BY <1>2 DEF register
<1> QED BY <1>1, <1>3

\* NotifyOnExit: the death of t is subscribed to, or queued because it has happened.
LEMMA NotifySets ==
    ASSUME TypeOK, Identity, Watch, NEW t \in Spawned, NotifyOnExit(t), UNCHANGED <<live, nid>>
    PROVE  /\ subs' \subseteq live /\ subs \subseteq subs'
           /\ deaths' \in Seq(Tids \X Reasons)
           /\ Queued(deaths) \subseteq Queued(deaths')
           /\ Queued(deaths') \subseteq Spawned \ live
           /\ t \in subs' \/ t \in Queued(deaths')
<1>1. /\ deaths \in Seq(Tids \X Reasons) /\ subs \subseteq live
      /\ Queued(deaths) \subseteq Spawned \ live
  BY DEF TypeOK, Identity, Watch
<1>2. t \in Tids
  BY Bounds, SMT DEF Spawned, Tids, TypeOK
<1>3. CASE t \in live
  BY <1>1, <1>3 DEF NotifyOnExit
<1>4. CASE t \notin live
  <2>1. deaths' = Append(deaths, <<t, 0>>) /\ subs' = subs
    BY <1>4 DEF NotifyOnExit
  <2>2. 0 \in Reasons
    BY DEF Reasons
  <2>3. deaths' \in Seq(Tids \X Reasons) /\ Queued(deaths') = Queued(deaths) \cup {t}
    BY <1>1, <1>2, <2>1, <2>2, QueuedAppend
  <2> QED BY <1>1, <1>4, <2>1, <2>3
<1> QED BY <1>3, <1>4
-----------------------------------------------------------------------------
\* Bring-up

LEMMA BootSpawnInv == ASSUME IInv, BootSpawn PROVE IInv'
<1>1. TypeOK /\ Identity /\ Progress /\ Watch /\ Registered /\ Intensity
  BY DEF IInv
<1>2. /\ pc = "spawn"
      /\ UNCHANGED <<why, registry, subs, deaths, now, dead, restart_count, window_start,
                     restarts>>
  BY DEF BootSpawn
<1>3. /\ i \in Services /\ \A s \in Services : s >= i => tids[s] = None
      /\ live \subseteq Spawned /\ \A s \in Services : s \in Int
      /\ subs \subseteq live
      /\ tids \in [Services -> Tids \cup {None}]
  BY <1>1, <1>2, Bounds, SMTT(20) DEF TypeOK, Progress, Identity, Watch
<1>4. tids[i] = None /\ None \notin live
  BY <1>3, SMT DEF Spawned, None
<1>5. Intensity'
  <2>1. now' \in Nat /\ now <= now'
    BY <1>1, <1>2, SMT DEF TypeOK
  <2> QED BY <1>1, <1>2, <2>1, IntensityKept
<1>6. ASSUME NextService("spawn", "subscribe")
      PROVE  /\ i' \in Services /\ pc' \in {"spawn", "subscribe"}
             /\ pc' = "spawn" => i' = i + 1
             /\ pc' = "subscribe" => i' = 1
  BY <1>3, <1>6, Bounds, SMT DEF NextService, Services
<1>7. CASE Spawn(i) /\ (IF i \in Named THEN pc' = "register" /\ UNCHANGED i
                                       ELSE NextService("spawn", "subscribe"))
  <2>1. /\ nid # None /\ nid \notin Spawned
        /\ live' = live \cup {nid} /\ live' \subseteq Tids
        /\ nid' \in 1 .. MaxTid + 1
        /\ owner' \in [Tids -> Services \cup {None}]
        /\ tids' \in [Services -> Tids \cup {None}] /\ tids'[i] = nid
        /\ \A x \in Services : x # i => tids'[x] = tids[x]
    BY <1>1, <1>3, <1>7, SpawnFacts
  <2>2. /\ i' \in Services
        /\ \/ pc' = "register" /\ i' = i /\ i \in Named
           \/ pc' = "spawn" /\ i' = i + 1 /\ i \notin Named
           \/ pc' = "subscribe" /\ i' = 1 /\ i \notin Named
    BY <1>3, <1>6, <1>7
  <2>3. TypeOK'
    BY <1>1, <1>2, <2>1, <2>2 DEF TypeOK
  <2>4. Identity'
    BY <1>1, <1>2, <1>3, <1>4, <1>7, <2>2, SpawnIdentity
  <2>5. Progress'
    BY <1>3, <2>1, <2>2, SMT DEF Progress
  <2>6. Watch'
    <3>1. \A s \in Services : Unwatched(s)'
      BY <2>2, SMT DEF Unwatched, Services
    <3> QED BY <1>2, <1>3, <2>1, <2>2, <3>1 DEF Watch
  <2>7. Registered'
    <3> SUFFICES ASSUME NEW s \in Named, tids'[s] \in live'
                 PROVE  registry'[s] = tids'[s] \/ Unregistered(s)'
      BY DEF Registered
    <3>1. CASE s = i
      BY <2>2, <3>1 DEF Unregistered
    <3>2. CASE s # i
      <4>1. s \in Services /\ tids'[s] = tids[s]
        BY <2>1, <3>2, Bounds
      <4>2. tids[s] \in live
        BY <1>1, <2>1, <4>1 DEF Identity
      <4>3. ~ Unregistered(s)
        BY <1>2 DEF Unregistered
      <4> QED BY <1>1, <1>2, <4>1, <4>2, <4>3 DEF Registered
    <3> QED BY <3>1, <3>2
  <2> QED BY <1>5, <2>3, <2>4, <2>5, <2>6, <2>7 DEF IInv
<1>8. CASE NextService("spawn", "subscribe") /\ UNCHANGED <<nid, live, owner, tids>>
  <2>1. /\ i' \in Services
        /\ \/ pc' = "spawn" /\ i' = i + 1
           \/ pc' = "subscribe" /\ i' = 1
    BY <1>6, <1>8
  <2>2. TypeOK'
    BY <1>1, <1>2, <1>8, <2>1 DEF TypeOK
  <2>3. Identity'
    BY <1>1, <1>2, <1>8, <2>1 DEF Identity, Spawned
  <2>4. Progress'
    BY <1>3, <1>8, <2>1, SMT DEF Progress
  <2>5. Watch'
    <3>1. \A s \in Services : Unwatched(s)'
      BY <2>1, SMT DEF Unwatched, Services
    <3> QED BY <1>2, <1>3, <1>8, <2>1, <3>1 DEF Watch
  <2>6. Registered'
    BY <1>1, <1>2, <1>8 DEF Registered, Unregistered
  <2> QED BY <1>5, <2>2, <2>3, <2>4, <2>5, <2>6 DEF IInv
<1> QED BY <1>7, <1>8 DEF BootSpawn

LEMMA BootRegisterInv == ASSUME IInv, BootRegister PROVE IInv'
<1>1. TypeOK /\ Identity /\ Progress /\ Watch /\ Registered /\ Intensity
  BY DEF IInv
<1>2. /\ pc = "register" /\ register(i, tids[i]) /\ NextService("spawn", "subscribe")
      /\ UNCHANGED <<live, why, subs, deaths, nid, owner, now, dead, tids,
                     restart_count, window_start, restarts>>
  BY DEF BootRegister
<1>3. /\ i \in Services /\ i \in Named /\ tids[i] \in Tids
      /\ \A s \in Services : s > i => tids[s] = None
      /\ \A s \in Services : s \in Int
      /\ subs \subseteq live
  BY <1>1, <1>2, Bounds, SMT DEF TypeOK, Progress, Watch
<1>4. /\ i' \in Services
      /\ \/ pc' = "spawn" /\ i' = i + 1
         \/ pc' = "subscribe" /\ i' = 1
  BY <1>2, <1>3, Bounds, SMT DEF NextService, Services
<1>5. /\ registry' \in [Named -> Tids \cup {None}] /\ registry'[i] = tids[i]
      /\ \A x \in Named : x # i => registry'[x] = registry[x]
  <2>1. PICK t \in Tids : t = tids[i]
    BY <1>3
  <2>2. register(i, t)
    BY <1>2, <2>1
  <2> QED BY <1>1, <1>3, <2>1, <2>2, RegisterSets
<1>6. TypeOK'
  BY <1>1, <1>2, <1>4, <1>5 DEF TypeOK
<1>7. Identity'
  BY <1>1, <1>2, <1>4 DEF Identity, Spawned
<1>8. Progress'
  BY <1>2, <1>3, <1>4, SMT DEF Progress
<1>9. Watch'
  <2>1. \A s \in Services : Unwatched(s)'
    BY <1>4, SMT DEF Unwatched, Services
  <2> QED BY <1>2, <1>3, <1>4, <2>1 DEF Watch
<1>10. Registered'
  BY <1>1, <1>2, <1>5 DEF Registered, Unregistered
<1>11. Intensity'
  <2>1. now' \in Nat /\ now <= now'
    BY <1>1, <1>2, SMT DEF TypeOK
  <2> QED BY <1>1, <1>2, <2>1, IntensityKept
<1> QED BY <1>6, <1>7, <1>8, <1>9, <1>10, <1>11 DEF IInv

LEMMA SubscribeInv == ASSUME IInv, Subscribe PROVE IInv'
<1>1. TypeOK /\ Identity /\ Progress /\ Watch /\ Registered /\ Intensity
  BY DEF IInv
<1>2. /\ pc = "subscribe" /\ NextService("subscribe", "recv")
      /\ UNCHANGED <<live, why, registry, nid, owner, now, dead, tids,
                     restart_count, window_start, restarts>>
      /\ IF tids[i] # None THEN NotifyOnExit(tids[i]) ELSE UNCHANGED <<subs, deaths>>
  BY DEF Subscribe
<1>3. /\ i \in Services /\ subs \subseteq live /\ \A s \in Services : s \in Int /\ s <= NSVC
      /\ deaths \in Seq(Tids \X Reasons) /\ Queued(deaths) \subseteq Spawned \ live
      /\ live \subseteq Tids
  BY <1>1, Bounds, SMT DEF TypeOK, Watch, Services, Identity
<1>4. /\ i' \in Services
      /\ \/ pc' = "subscribe" /\ i' = i + 1
         \/ pc' = "recv" /\ i' = 1 /\ i = NSVC
  BY <1>2, <1>3, Bounds, SMT DEF NextService, Services
<1>5. /\ subs' \subseteq live /\ subs \subseteq subs'
      /\ deaths' \in Seq(Tids \X Reasons)
      /\ Queued(deaths) \subseteq Queued(deaths')
      /\ Queued(deaths') \subseteq Spawned \ live
      /\ tids[i] # None => tids[i] \in subs' \/ tids[i] \in Queued(deaths')
  <2>1. CASE tids[i] = None
    BY <1>2, <1>3, <2>1
  <2>2. CASE tids[i] # None
    <3>1. PICK t \in Spawned : t = tids[i]
      BY <1>1, <1>3, <2>2 DEF Identity
    <3>2. NotifyOnExit(t) /\ UNCHANGED <<live, nid>>
      BY <1>2, <2>2, <3>1
    <3> QED BY <1>1, <3>1, <3>2, NotifySets
  <2> QED BY <2>1, <2>2
<1>6. TypeOK'
  BY <1>1, <1>2, <1>3, <1>4, <1>5 DEF TypeOK
<1>7. Identity'
  BY <1>1, <1>2, <1>4, <1>5 DEF Identity, Spawned
<1>8. Progress' /\ Registered'
  BY <1>1, <1>2, <1>4 DEF Progress, Registered, Unregistered
<1>9. Watch'
  <2>1. ASSUME NEW s \in Services, tids[s] # None PROVE (Noticed(tids[s]) \/ Unwatched(s))'
    <3>1. Noticed(tids[s]) \/ Unwatched(s)
      BY <1>1, <2>1 DEF Watch
    <3>2. CASE Noticed(tids[s])
      BY <1>2, <1>5, <3>2 DEF Noticed
    <3>3. CASE s = i
      BY <1>2, <1>5, <2>1, <3>3 DEF Noticed
    <3>4. CASE Unwatched(s) /\ s # i
      BY <1>2, <1>3, <1>4, <3>4, SMT DEF Unwatched
    <3> QED BY <3>1, <3>2, <3>3, <3>4
  <2> QED BY <1>2, <1>4, <1>5, <2>1 DEF Watch
<1>10. Intensity'
  <2>1. now' \in Nat /\ now <= now'
    BY <1>1, <1>2, SMT DEF TypeOK
  <2> QED BY <1>1, <1>2, <2>1, IntensityKept
<1> QED BY <1>6, <1>7, <1>8, <1>9, <1>10 DEF IInv
-----------------------------------------------------------------------------
\* The supervision loop

LEMMA RecvInv == ASSUME IInv, Recv PROVE IInv'
<1>1. TypeOK /\ Identity /\ Progress /\ Watch /\ Registered /\ Intensity
  BY DEF IInv
<1>2. /\ pc = "recv"
      /\ UNCHANGED <<live, why, registry, subs, nid, owner, now, i, tids,
                     restart_count, window_start, restarts>>
  BY DEF Recv
<1>3. Intensity'
  <2>1. now' \in Nat /\ now <= now'
    BY <1>1, <1>2, SMT DEF TypeOK
  <2> QED BY <1>1, <1>2, <2>1, IntensityKept
<1>4. /\ subs \subseteq live /\ deaths \in Seq(Tids \X Reasons)
      /\ Queued(deaths) \subseteq Spawned \ live
      /\ \A s \in Services : tids[s] # None =>
            tids[s] \in subs \/ tids[s] \in Queued(deaths)
  BY <1>1, <1>2 DEF TypeOK, Watch, Identity, Noticed, Unwatched
<1>5. CASE deaths # << >>
  <2>1. dead' = Head(deaths) /\ deaths' = Tail(deaths) /\ pc' = "handle"
    BY <1>5 DEF Recv
  <2>2. /\ dead' \in Tids \X Reasons /\ deaths' \in Seq(Tids \X Reasons)
        /\ Queued(deaths) = Queued(deaths') \cup {dead'[1]}
    BY <1>4, <1>5, <2>1, QueuedPop
  <2>3. TypeOK'
    <3>1. pc' = "handle"
      BY <2>1
    <3> QED BY <1>1, <1>2, <2>2, <3>1 DEF TypeOK
  <2>4. Identity'
    BY <1>1, <1>2, <1>4, <2>2 DEF Identity, Spawned
  <2>5. Progress' /\ Registered'
    BY <1>1, <1>2, <2>1 DEF Progress, Registered, Unregistered
  <2>6. Watch'
    BY <1>2, <1>4, <2>1, <2>2 DEF Watch, Noticed
  <2> QED BY <1>3, <2>3, <2>4, <2>5, <2>6 DEF IInv
<1>6. CASE deaths = << >>
  <2>1. pc' = "parked" /\ UNCHANGED <<dead, deaths>>
    BY <1>6 DEF Recv
  <2>2. TypeOK'
    BY <1>1, <1>2, <2>1 DEF TypeOK
  <2>3. Identity' /\ Progress' /\ Registered'
    BY <1>1, <1>2, <2>1 DEF Identity, Spawned, Progress, Registered, Unregistered
  <2>4. Watch'
    BY <1>2, <1>4, <1>6, <2>1 DEF Watch, Noticed
  <2> QED BY <1>3, <2>2, <2>3, <2>4 DEF IInv
<1> QED BY <1>5, <1>6

\* init is done with the death of the task of s: the service stays down.
LEMMA GiveUpInv ==
    ASSUME IInv, NEW s \in Services, pc \in {"handle", "respawn"}, tids[s] = dead[1],
           tids' = [tids EXCEPT ![s] = None], pc' = "recv", i' \in Services, Intensity',
           restart_count' \in [Services -> 0 .. MAX_RESTARTS],
           window_start' \in [Services -> 0 .. MaxTime],
           UNCHANGED <<kernel, dead, now, restarts>>
    PROVE  IInv'
<1>1. TypeOK /\ Identity /\ Progress /\ Watch /\ Registered /\ Intensity
  BY DEF IInv
<1>2. UNCHANGED <<live, why, registry, subs, deaths, nid, owner>>
  BY DEF kernel
<1>3. /\ tids \in [Services -> Tids \cup {None}] /\ dead[1] \in Spawned \ live
      /\ subs \subseteq live
  BY <1>1 DEF TypeOK, Identity, Watch
<1>4. /\ tids'[s] = None /\ \A x \in Services : x # s => tids'[x] = tids[x]
      /\ tids' \in [Services -> Tids \cup {None}]
  BY <1>3
<1>5. TypeOK'
  BY <1>1, <1>2, <1>4 DEF TypeOK
<1>6. \A x \in Services : x # s /\ tids[x] # None => tids[x] # dead[1]
  BY <1>1, <1>3, SMTT(20) DEF Identity
<1>7. Identity'
  <2>1. \A t \in live : owner[t] \in Services /\ owner[t] # s /\ tids[owner[t]] = t
    BY <1>1, <1>3, SMT DEF Identity
  <2> QED BY <1>1, <1>2, <1>4, <2>1, SMTT(20) DEF Identity, Spawned
<1>8. Progress'
  BY DEF Progress
<1>9. Watch'
  <2>1. ASSUME NEW x \in Services, tids'[x] # None PROVE Noticed(tids[x])'
    <3>1. x # s /\ tids'[x] = tids[x] /\ tids[x] # dead[1]
      BY <1>4, <1>6, <2>1
    <3>2. Noticed(tids[x]) \/ Unwatched(x)
      BY <1>1, <2>1, <3>1 DEF Watch
    <3> QED BY <1>2, <3>1, <3>2, SMT DEF Noticed, Unwatched
  <2> QED BY <1>2, <1>3, <2>1 DEF Watch
<1>10. Registered'
  <2>1. ASSUME NEW x \in Named, tids'[x] \in live' PROVE registry'[x] = tids'[x]
    <3>1. x \in Services /\ None \notin live
      BY <1>1, Bounds, SMT DEF Identity, Spawned, None
    <3>2. tids'[x] = tids[x] /\ tids[x] \in live
      BY <1>2, <1>4, <2>1, <3>1
    <3> QED BY <1>1, <1>2, <3>2 DEF Registered, Unregistered
  <2> QED BY <2>1 DEF Registered
<1> QED BY <1>5, <1>7, <1>8, <1>9, <1>10 DEF IInv

\* A death that is counted, with or without a restart, keeps the restarts of s spread.
LEMMA CountedIntensity ==
    ASSUME IInv, NEW s \in Services, NEW count,
           count = IF WindowOver(s) THEN 0 ELSE restart_count[s],
           window_start' = [window_start EXCEPT ![s] = IF WindowOver(s) THEN now ELSE @],
           UNCHANGED now,
           \/ /\ restart_count' = [restart_count EXCEPT ![s] = count]
              /\ UNCHANGED restarts
           \/ /\ count < MAX_RESTARTS
              /\ restart_count' = [restart_count EXCEPT ![s] = count + 1]
              /\ restarts' = [restarts EXCEPT ![s] = Append(@, now)]
    PROVE  /\ Intensity'
           /\ restart_count' \in [Services -> 0 .. MAX_RESTARTS]
           /\ window_start' \in [Services -> 0 .. MaxTime]
           /\ restarts' \in [Services -> Seq(0 .. MaxTime)]
<1>1. /\ restart_count \in [Services -> 0 .. MAX_RESTARTS]
      /\ window_start \in [Services -> 0 .. MaxTime]
      /\ restarts \in [Services -> Seq(0 .. MaxTime)]
      /\ now \in 0 .. MaxTime /\ now \in Int
      /\ \A x \in Services : Spread(restarts[x], window_start[x], restart_count[x])
  BY SMT DEF IInv, TypeOK, Intensity
<1>2. PICK w, q : /\ w = IF WindowOver(s) THEN now ELSE window_start[s]
                  /\ q = restarts[s]
  OBVIOUS
<1>3. /\ w \in 0 .. MaxTime /\ q \in Seq(0 .. MaxTime) /\ count \in 0 .. MAX_RESTARTS
  BY <1>1, <1>2, Bounds, SMT
<1>4. Spread(q, w, count) /\ ~ (now - w > WINDOW)
  <2>1. CASE WindowOver(s)
    <3>1. Spread(q, now, 0)
      BY <1>1, <1>2, <1>3, <2>1, SpreadReset DEF WindowOver
    <3>2. w = now /\ count = 0
      BY <1>2, <2>1
    <3>3. ~ (now - now > WINDOW)
      BY <1>1, Bounds, SMT
    <3> QED BY <3>1, <3>2, <3>3
  <2>2. CASE ~ WindowOver(s)
    <3>1. w = window_start[s] /\ count = restart_count[s]
      BY <1>2, <2>2
    <3> QED BY <1>1, <1>2, <2>2, <3>1 DEF WindowOver
  <2> QED BY <2>1, <2>2
<1>5. /\ window_start' \in [Services -> 0 .. MaxTime] /\ window_start'[s] = w
      /\ \A x \in Services : x # s => window_start'[x] = window_start[x]
  BY <1>1, <1>2, <1>3
<1>6. /\ restart_count' \in [Services -> 0 .. MAX_RESTARTS]
      /\ restarts' \in [Services -> Seq(0 .. MaxTime)]
      /\ \A x \in Services : x # s => /\ restart_count'[x] = restart_count[x]
                                      /\ restarts'[x] = restarts[x]
      /\ Spread(restarts'[s], w, restart_count'[s])
  <2>1. CASE /\ restart_count' = [restart_count EXCEPT ![s] = count]
             /\ UNCHANGED restarts
    BY <1>1, <1>2, <1>3, <1>4, <2>1
  <2>2. CASE /\ count < MAX_RESTARTS
             /\ restart_count' = [restart_count EXCEPT ![s] = count + 1]
             /\ restarts' = [restarts EXCEPT ![s] = Append(@, now)]
    <3>1. Spread(Append(q, now), w, count + 1)
      BY <1>1, <1>3, <1>4, <2>2, SpreadAppend
    <3>2. Append(q, now) \in Seq(0 .. MaxTime) /\ count + 1 \in 0 .. MAX_RESTARTS
      BY <1>1, <1>3, <2>2, Bounds, SMTT(20)
    <3> QED BY <1>1, <1>2, <2>2, <3>1, <3>2
  <2> QED BY <2>1, <2>2
<1>7. Intensity'
  <2> SUFFICES ASSUME NEW x \in Services
               PROVE  Spread(restarts[x], window_start[x], restart_count[x])'
    BY DEF Intensity
  <2>1. Spread(restarts'[x], window_start'[x], restart_count'[x])
    BY <1>1, <1>5, <1>6
  <2> QED BY <2>1 DEF Spread, Count
<1> QED BY <1>5, <1>6, <1>7
LEMMA HandleInv == ASSUME IInv, Handle PROVE IInv'
<1>1. TypeOK /\ Identity /\ Progress /\ Watch /\ Registered /\ Intensity
  BY DEF IInv
<1>2. pc = "handle" /\ UNCHANGED <<kernel, dead, now>>
  BY DEF Handle
<1>3. UNCHANGED <<live, why, registry, subs, deaths, nid, owner>>
  BY <1>2 DEF kernel
<1>4. now' \in Nat /\ now <= now'
  BY <1>1, <1>2, SMT DEF TypeOK
<1>5. CASE /\ \A s \in Services : tids[s] # dead[1]
           /\ pc' = "recv"
           /\ UNCHANGED <<i, tids, restart_count, window_start, restarts>>
  <2>1. TypeOK'
    BY <1>1, <1>2, <1>3, <1>5 DEF TypeOK
  <2>2. Identity' /\ Progress'
    BY <1>1, <1>3, <1>5 DEF Identity, Spawned, Progress
  <2>3. Watch'
    BY <1>1, <1>2, <1>3, <1>5 DEF Watch, Noticed, Unwatched
  <2>4. Registered'
    BY <1>1, <1>2, <1>3, <1>5 DEF Registered, Unregistered
  <2>5. Intensity'
    BY <1>1, <1>4, <1>5, IntensityKept
  <2> QED BY <2>1, <2>2, <2>3, <2>4, <2>5 DEF IInv
<1>6. ASSUME NEW s \in Services, NEW count, tids[s] = dead[1], i' = s,
             count = IF WindowOver(s) THEN 0 ELSE restart_count[s],
             \/ /\ ~ ShouldRestart(s)
                /\ tids' = [tids EXCEPT ![s] = None]
                /\ pc' = "recv"
                /\ UNCHANGED <<restart_count, window_start, restarts>>
             \/ /\ ShouldRestart(s)
                /\ window_start' =
                       [window_start EXCEPT ![s] = IF WindowOver(s) THEN now ELSE @]
                /\ \/ /\ Storm(count)
                      /\ restart_count' = [restart_count EXCEPT ![s] = count]
                      /\ tids' = [tids EXCEPT ![s] = None]
                      /\ pc' = "recv"
                      /\ UNCHANGED restarts
                   \/ /\ ~ Storm(count)
                      /\ restart_count' = [restart_count EXCEPT ![s] = count + 1]
                      /\ restarts' = [restarts EXCEPT ![s] = Append(@, now)]
                      /\ pc' = "respawn"
                      /\ UNCHANGED tids
      PROVE  IInv'
  <2>1. CASE /\ tids' = [tids EXCEPT ![s] = None]
             /\ pc' = "recv"
             /\ UNCHANGED <<restart_count, window_start, restarts>>
    <3>1. Intensity'
      BY <1>1, <1>4, <2>1, IntensityKept
    <3>2. /\ restart_count' \in [Services -> 0 .. MAX_RESTARTS]
          /\ window_start' \in [Services -> 0 .. MaxTime]
      BY <1>1, <2>1 DEF TypeOK
    <3> QED BY <1>2, <1>6, <2>1, <3>1, <3>2, GiveUpInv
  <2>2. CASE /\ window_start' =
                    [window_start EXCEPT ![s] = IF WindowOver(s) THEN now ELSE @]
             /\ restart_count' = [restart_count EXCEPT ![s] = count]
             /\ tids' = [tids EXCEPT ![s] = None]
             /\ pc' = "recv"
             /\ UNCHANGED restarts
    <3>1. /\ Intensity'
          /\ restart_count' \in [Services -> 0 .. MAX_RESTARTS]
          /\ window_start' \in [Services -> 0 .. MaxTime]
      BY <1>2, <1>6, <2>2, CountedIntensity
    <3> QED BY <1>2, <1>6, <2>2, <3>1, GiveUpInv
  <2>3. CASE /\ ~ Storm(count)
             /\ window_start' =
                    [window_start EXCEPT ![s] = IF WindowOver(s) THEN now ELSE @]
             /\ restart_count' = [restart_count EXCEPT ![s] = count + 1]
             /\ restarts' = [restarts EXCEPT ![s] = Append(@, now)]
             /\ pc' = "respawn"
             /\ UNCHANGED tids
    <3>0. i' = s /\ tids[s] = dead[1] /\ pc' = "respawn" /\ UNCHANGED tids
      BY <1>6, <2>3
    <3>1. count < MAX_RESTARTS
      <4>1. restart_count \in [Services -> 0 .. MAX_RESTARTS]
        BY <1>1 DEF TypeOK
      <4> QED BY <1>6, <2>3, <4>1, Bounds, SMTT(20) DEF Storm
    <3>2. /\ Intensity'
          /\ restart_count' \in [Services -> 0 .. MAX_RESTARTS]
          /\ window_start' \in [Services -> 0 .. MaxTime]
          /\ restarts' \in [Services -> Seq(0 .. MaxTime)]
      BY <1>2, <1>6, <2>3, <3>1, CountedIntensity
    <3>3. TypeOK'
      <4>1. i' \in Services /\ tids' \in [Services -> Tids \cup {None}]
        BY <1>1, <3>0 DEF TypeOK
      <4>2. pc' \in {"handle", "respawn"}
        BY <3>0
      <4> QED BY <1>1, <1>2, <1>3, <3>2, <4>1, <4>2 DEF TypeOK
    <3>4. Identity' /\ Progress'
      <4>1. Identity'
        BY <1>1, <1>2, <1>3, <3>0 DEF Identity, Spawned
      <4>2. Progress'
        BY <3>0, <1>2 DEF Progress
      <4> QED BY <4>1, <4>2
    <3>5. Watch'
      BY <1>1, <1>2, <1>3, <3>0 DEF Watch, Noticed, Unwatched
    <3>6. Registered'
      BY <1>1, <1>2, <1>3, <2>3 DEF Registered, Unregistered
    <3> QED BY <3>2, <3>3, <3>4, <3>5, <3>6 DEF IInv
  <2> QED BY <1>6, <2>1, <2>2, <2>3
<1>7. CASE \E s \in Services : tids[s] = dead[1]
  <2>1. PICK s \in Services :
             /\ tids[s] = dead[1]
             /\ i' = s
             /\ LET count == IF WindowOver(s) THEN 0 ELSE restart_count[s] IN
                \/ /\ ~ ShouldRestart(s)
                   /\ tids' = [tids EXCEPT ![s] = None]
                   /\ pc' = "recv"
                   /\ UNCHANGED <<restart_count, window_start, restarts>>
                \/ /\ ShouldRestart(s)
                   /\ window_start' =
                          [window_start EXCEPT ![s] = IF WindowOver(s) THEN now ELSE @]
                   /\ \/ /\ Storm(count)
                         /\ restart_count' = [restart_count EXCEPT ![s] = count]
                         /\ tids' = [tids EXCEPT ![s] = None]
                         /\ pc' = "recv"
                         /\ UNCHANGED restarts
                      \/ /\ ~ Storm(count)
                         /\ restart_count' = [restart_count EXCEPT ![s] = count + 1]
                         /\ restarts' = [restarts EXCEPT ![s] = Append(@, now)]
                         /\ pc' = "respawn"
                         /\ UNCHANGED tids
    BY <1>7 DEF Handle
  <2>2. PICK count : count = IF WindowOver(s) THEN 0 ELSE restart_count[s]
    OBVIOUS
  <2> QED BY <1>6, <2>1, <2>2
<1> QED BY <1>5, <1>7 DEF Handle

LEMMA RespawnInv == ASSUME IInv, Respawn PROVE IInv'
<1>1. TypeOK /\ Identity /\ Progress /\ Watch /\ Registered /\ Intensity
  BY DEF IInv
<1>2. /\ pc = "respawn"
      /\ UNCHANGED <<why, registry, subs, deaths, now, i, dead, restart_count,
                     window_start, restarts>>
  BY DEF Respawn
<1>3. /\ i \in Services /\ tids[i] = dead[1] /\ dead[1] \in Spawned \ live
      /\ subs \subseteq live /\ tids \in [Services -> Tids \cup {None}]
  BY <1>1, <1>2 DEF TypeOK, Progress, Identity, Watch
<1>4. Intensity'
  <2>1. now' \in Nat /\ now <= now'
    BY <1>1, <1>2, SMTT(20) DEF TypeOK
  <2> QED BY <1>1, <1>2, <2>1, IntensityKept
<1>5. CASE Spawn(i) /\ pc' = "rewatch"
  <2>1. /\ nid # None /\ nid \notin Spawned
        /\ live' = live \cup {nid} /\ live' \subseteq Tids
        /\ nid' \in 1 .. MaxTid + 1
        /\ owner' \in [Tids -> Services \cup {None}]
        /\ tids' \in [Services -> Tids \cup {None}] /\ tids'[i] = nid
        /\ \A x \in Services : x # i => tids'[x] = tids[x]
    BY <1>1, <1>3, <1>5, SpawnFacts
  <2>2. TypeOK'
    BY <1>1, <1>2, <1>5, <2>1 DEF TypeOK
  <2>3. Identity'
    BY <1>1, <1>2, <1>3, <1>5, SpawnIdentity
  <2>4. Progress'
    BY <1>2, <1>5, <2>1 DEF Progress
  <2>5. Watch'
    <3>1. ASSUME NEW x \in Services, tids'[x] # None
          PROVE  (Noticed(tids[x]) \/ Unwatched(x))'
      <4>1. CASE x = i
        BY <1>2, <1>5, <4>1 DEF Unwatched
      <4>2. CASE x # i
        <5>1. tids'[x] = tids[x] /\ tids[x] # dead[1]
          BY <1>1, <1>3, <2>1, <3>1, <4>2, SMTT(20) DEF Identity
        <5>2. Noticed(tids[x])
          BY <1>1, <1>2, <3>1, <5>1 DEF Watch, Unwatched
        <5> QED BY <1>2, <5>1, <5>2 DEF Noticed
      <4> QED BY <4>1, <4>2
    <3> QED BY <1>2, <1>3, <1>5, <2>1, <3>1 DEF Watch
  <2>6. Registered'
    <3>1. ASSUME NEW x \in Named, tids'[x] \in live'
          PROVE  (registry[x] = tids[x] \/ Unregistered(x))'
      <4>1. CASE x = i
        BY <1>2, <1>5, <4>1 DEF Unregistered
      <4>2. CASE x # i
        <5>1. x \in Services /\ tids'[x] = tids[x] /\ tids[x] \in live
          BY <1>1, <2>1, <3>1, <4>2, Bounds DEF Identity
        <5> QED BY <1>1, <1>2, <5>1 DEF Registered, Unregistered
      <4> QED BY <4>1, <4>2
    <3> QED BY <3>1 DEF Registered
  <2> QED BY <1>4, <2>2, <2>3, <2>4, <2>5, <2>6 DEF IInv
<1>6. CASE /\ tids' = [tids EXCEPT ![i] = None]
           /\ pc' = "recv"
           /\ UNCHANGED <<nid, live, owner>>
  <2>1. /\ restart_count' \in [Services -> 0 .. MAX_RESTARTS]
        /\ window_start' \in [Services -> 0 .. MaxTime]
    BY <1>1, <1>2 DEF TypeOK
  <2>2. UNCHANGED <<kernel, dead, now, restarts>>
    BY <1>2, <1>6 DEF kernel
  <2> QED BY <1>2, <1>3, <1>4, <1>6, <2>1, <2>2, GiveUpInv
<1> QED BY <1>5, <1>6 DEF Respawn
LEMMA RewatchInv == ASSUME IInv, Rewatch PROVE IInv'
<1>1. TypeOK /\ Identity /\ Progress /\ Watch /\ Registered /\ Intensity
  BY DEF IInv
<1>2. /\ pc = "rewatch" /\ NotifyOnExit(tids[i])
      /\ pc' = IF i \in Named THEN "reregister" ELSE "recv"
      /\ UNCHANGED <<live, why, registry, nid, owner, now, i, dead, tids,
                     restart_count, window_start, restarts>>
  BY DEF Rewatch
<1>3. i \in Services /\ tids[i] # None /\ live \subseteq Tids
  BY <1>1, <1>2 DEF TypeOK, Progress
<1>4. /\ subs' \subseteq live /\ subs \subseteq subs'
      /\ deaths' \in Seq(Tids \X Reasons)
      /\ Queued(deaths) \subseteq Queued(deaths')
      /\ Queued(deaths') \subseteq Spawned \ live
      /\ tids[i] \in subs' \/ tids[i] \in Queued(deaths')
  <2>1. PICK t \in Spawned : t = tids[i]
    BY <1>1, <1>3 DEF Identity
  <2>2. NotifyOnExit(t) /\ UNCHANGED <<live, nid>>
    BY <1>2, <2>1
  <2> QED BY <1>1, <2>1, <2>2, NotifySets
<1>5. TypeOK'
  BY <1>1, <1>2, <1>3, <1>4 DEF TypeOK
<1>6. Identity'
  BY <1>1, <1>2, <1>4 DEF Identity, Spawned
<1>7. Progress'
  BY <1>2, <1>3 DEF Progress
<1>8. Watch'
  <2>1. ASSUME NEW s \in Services, tids[s] # None PROVE Noticed(tids[s])'
    <3>1. Noticed(tids[s]) \/ Unwatched(s)
      BY <1>1, <2>1 DEF Watch
    <3> QED BY <1>2, <1>4, <3>1 DEF Noticed, Unwatched
  <2> QED BY <1>2, <1>4, <2>1 DEF Watch
<1>9. Registered'
  BY <1>1, <1>2 DEF Registered, Unregistered
<1>10. Intensity'
  <2>1. now' \in Nat /\ now <= now'
    BY <1>1, <1>2, SMTT(20) DEF TypeOK
  <2> QED BY <1>1, <1>2, <2>1, IntensityKept
<1> QED BY <1>5, <1>6, <1>7, <1>8, <1>9, <1>10 DEF IInv

LEMMA ReregisterInv == ASSUME IInv, Reregister PROVE IInv'
<1>1. TypeOK /\ Identity /\ Progress /\ Watch /\ Registered /\ Intensity
  BY DEF IInv
<1>2. /\ pc = "reregister" /\ register(i, tids[i]) /\ pc' = "recv"
      /\ UNCHANGED <<live, why, subs, deaths, nid, owner, now, i, dead, tids,
                     restart_count, window_start, restarts>>
  BY DEF Reregister
<1>3. i \in Services /\ i \in Named /\ tids[i] \in Tids
  BY <1>1, <1>2 DEF TypeOK, Progress
<1>4. /\ registry' \in [Named -> Tids \cup {None}] /\ registry'[i] = tids[i]
      /\ \A x \in Named : x # i => registry'[x] = registry[x]
  <2>1. PICK t \in Tids : t = tids[i]
    BY <1>3
  <2>2. register(i, t)
    BY <1>2, <2>1
  <2> QED BY <1>1, <1>3, <2>1, <2>2, RegisterSets
<1>5. TypeOK'
  BY <1>1, <1>2, <1>4 DEF TypeOK
<1>6. Identity' /\ Progress'
  BY <1>1, <1>2 DEF Identity, Spawned, Progress
<1>7. Watch'
  BY <1>1, <1>2 DEF Watch, Noticed, Unwatched
<1>8. Registered'
  BY <1>1, <1>2, <1>4 DEF Registered, Unregistered
<1>9. Intensity'
  <2>1. now' \in Nat /\ now <= now'
    BY <1>1, <1>2, SMT DEF TypeOK
  <2> QED BY <1>1, <1>2, <2>1, IntensityKept
<1> QED BY <1>5, <1>6, <1>7, <1>8, <1>9 DEF IInv

-----------------------------------------------------------------------------
\* Time, and the deaths of services between any two system calls of init

LEMMA TickInv == ASSUME IInv, Tick \/ UNCHANGED vars PROVE IInv'
<1>1. TypeOK /\ Identity /\ Progress /\ Watch /\ Registered /\ Intensity
  BY DEF IInv
<1>2. /\ UNCHANGED <<live, why, registry, subs, deaths, nid, owner, pc, i, dead, tids,
                     restart_count, window_start, restarts>>
      /\ now' = now \/ (now < MaxTime /\ now' = now + 1)
  BY DEF Tick, vars, kernel, init
<1>3. now' \in 0 .. MaxTime /\ now' \in Nat /\ now <= now'
  BY <1>1, <1>2, Bounds, SMTT(20) DEF TypeOK
<1>4. TypeOK'
  BY <1>1, <1>2, <1>3 DEF TypeOK
<1>5. Identity' /\ Progress'
  BY <1>1, <1>2 DEF Identity, Spawned, Progress
<1>6. Watch' /\ Registered'
  BY <1>1, <1>2 DEF Watch, Noticed, Unwatched, Registered, Unregistered
<1>7. Intensity'
  BY <1>1, <1>2, <1>3, IntensityKept
<1> QED BY <1>4, <1>5, <1>6, <1>7 DEF IInv

LEMMA DieInv == ASSUME IInv, NEW t \in Tids, NEW x \in Reasons, Die(t, x) PROVE IInv'
<1>1. TypeOK /\ Identity /\ Progress /\ Watch /\ Registered /\ Intensity
  BY DEF IInv
<1>2. /\ t \in live /\ live' = live \ {t} /\ why' = [why EXCEPT ![t] = x]
      /\ clear_tid(t) /\ subs' = subs \ {t}
      /\ UNCHANGED <<nid, owner, i, tids, restart_count, window_start, restarts, now>>
  BY DEF Die
<1>3. /\ deaths \in Seq(Tids \X Reasons) /\ subs \subseteq live /\ live \subseteq Spawned
      /\ live \subseteq Tids /\ Queued(deaths) \subseteq Spawned \ live
      /\ why \in [Tids -> Reasons] /\ registry \in [Named -> Tids \cup {None}]
      /\ pc = "parked" => deaths = << >>
  BY <1>1 DEF TypeOK, Watch, Identity
<1>4. /\ registry' \in [Named -> Tids \cup {None}]
      /\ \A s \in Named : registry[s] # t => registry'[s] = registry[s]
  BY <1>2, <1>3 DEF clear_tid
<1>5. /\ why' \in [Tids -> Reasons] /\ live' \subseteq Tids /\ subs' \subseteq live'
      /\ live' \subseteq Spawned
  BY <1>2, <1>3
<1>6. Intensity'
  <2>1. now' \in Nat /\ now <= now'
    BY <1>1, <1>2, SMTT(20) DEF TypeOK
  <2> QED BY <1>1, <1>2, <2>1, IntensityKept
<1>7. ASSUME ~ (pc \in {"register", "rewatch", "reregister"}) \/ pc' = pc PROVE Registered'
  <2>1. ASSUME NEW s \in Named, tids[s] \in live'
        PROVE  (registry[s] = tids[s] \/ Unregistered(s))'
    <3>1. tids[s] \in live /\ tids[s] # t
      BY <1>2, <2>1
    <3>2. registry[s] = tids[s] \/ Unregistered(s)
      BY <1>1, <3>1 DEF Registered
    <3> QED BY <1>2, <1>4, <1>7, <3>1, <3>2 DEF Unregistered
  <2> QED BY <1>2, <2>1 DEF Registered
<1>8. CASE t \in subs /\ pc = "parked"
  <2>1. dead' = <<t, x>> /\ pc' = "handle" /\ UNCHANGED deaths
    BY <1>8 DEF Die
  <2>2. dead' \in Tids \X Reasons /\ dead'[1] = t
    BY <2>1
  <2>3. TypeOK'
    BY <1>1, <1>2, <1>4, <1>5, <2>1, <2>2 DEF TypeOK
  <2>4. Identity'
    BY <1>1, <1>2, <1>3, <1>5, <2>1, <2>2 DEF Identity, Spawned
  <2>5. Progress'
    BY <2>1 DEF Progress
  <2>6. Watch'
    <3>1. ASSUME NEW s \in Services, tids[s] # None PROVE Noticed(tids[s])'
      <4>1. tids[s] \in subs \/ tids[s] \in Queued(deaths)
        BY <1>1, <1>8, <3>1 DEF Watch, Noticed, Unwatched
      <4> QED BY <1>2, <2>1, <2>2, <4>1 DEF Noticed
    <3> QED BY <1>2, <1>5, <2>1, <3>1 DEF Watch
  <2>7. Registered'
    BY <1>7, <1>8
  <2> QED BY <1>6, <2>3, <2>4, <2>5, <2>6, <2>7 DEF IInv
<1>9. CASE ~ (t \in subs /\ pc = "parked")
  <2>1. /\ deaths' = IF t \in subs THEN Append(deaths, <<t, x>>) ELSE deaths
        /\ UNCHANGED <<dead, pc>>
    BY <1>9 DEF Die
  <2>2. /\ deaths' \in Seq(Tids \X Reasons)
        /\ t \in subs => Queued(deaths') = Queued(deaths) \cup {t}
        /\ t \notin subs => deaths' = deaths
    BY <1>3, <2>1, QueuedAppend
  <2>3. TypeOK'
    BY <1>1, <1>2, <1>4, <1>5, <2>1, <2>2 DEF TypeOK
  <2>4. Identity'
    <3>1. Queued(deaths') \subseteq Spawned \ live'
      BY <1>2, <1>3, <2>2
    <3> QED BY <1>1, <1>2, <1>5, <2>1, <3>1 DEF Identity, Spawned
  <2>5. Progress'
    BY <1>1, <1>2, <2>1 DEF Progress
  <2>6. Watch'
    <3>1. ASSUME NEW s \in Services, tids[s] # None
          PROVE  (Noticed(tids[s]) \/ Unwatched(s))'
      <4>1. Noticed(tids[s]) \/ Unwatched(s)
        BY <1>1, <3>1 DEF Watch
      <4>2. CASE Unwatched(s)
        BY <1>2, <2>1, <4>2 DEF Unwatched
      <4>3. CASE Noticed(tids[s])
        BY <1>2, <2>1, <2>2, <4>3 DEF Noticed
      <4> QED BY <4>1, <4>2, <4>3
    <3>2. pc' = "parked" => deaths' = << >>
      BY <1>3, <1>9, <2>1, <2>2
    <3> QED BY <1>2, <1>5, <3>1, <3>2 DEF Watch
  <2>7. Registered'
    BY <1>7, <2>1
  <2> QED BY <1>6, <2>3, <2>4, <2>5, <2>6, <2>7 DEF IInv
<1> QED BY <1>8, <1>9

LEMMA NextInv == ASSUME IInv, [Next]_vars PROVE IInv'
<1>1. CASE InitStep
  BY <1>1, BootSpawnInv, BootRegisterInv, SubscribeInv, RecvInv, HandleInv, RespawnInv,
     RewatchInv, ReregisterInv DEF InitStep
<1>2. CASE Tick \/ UNCHANGED vars
  BY <1>2, TickInv
<1>3. ASSUME NEW t \in Tids, NEW x \in Reasons, Die(t, x) PROVE IInv'
  BY <1>3, DieInv
<1> QED BY <1>1, <1>2, <1>3 DEF Next

-----------------------------------------------------------------------------
\* Whenever a service dies between two system calls of init's bring-up and
\* supervision loops, what init knows of it and what the kernel will tell it agree.
THEOREM Invariant == Spec => []IInv
<1>1. Init => IInv
  BY InitInv
<1>2. IInv /\ [Next]_vars => IInv'
  BY NextInv
<1> QED BY <1>1, <1>2, PTL DEF Spec

\* No death is missed, at whatever point of bring-up or restart it falls: when init is
\* parked in Recv, every service in its table is alive, watched, and registered.
THEOREM NoDeathMissed == Spec => []SupervisedWhenIdle
<1>1. IInv => SupervisedWhenIdle
  <2> SUFFICES ASSUME IInv, pc = "parked", NEW s \in Services, tids[s] # None
               PROVE  /\ tids[s] \in live \cap subs
                      /\ s \in Named => registry[s] = tids[s]
    BY DEF SupervisedWhenIdle
  <2>1. TypeOK /\ Watch /\ Registered
    BY DEF IInv
  <2>2. tids[s] \in live \cap subs
    BY <2>1, QueuedNone DEF Watch, Noticed, Unwatched
  <2> QED BY <2>1, <2>2 DEF Registered, Unregistered
<1> QED BY <1>1, Invariant, PTL

\* A service never runs twice and none runs without init's table naming it: init
\* respawns only what the kernel has reported dead.
THEOREM NeverTwoInstances == Spec => []OneInstance
<1>1. IInv => OneInstance
  BY DEF IInv, Identity, OneInstance
<1> QED BY <1>1, Invariant, PTL

\* Every WINDOW + 1 ticks in a row hold at most twice the limit.
RestartsBounded ==
    \A s \in Services, t \in 0 .. MaxTime :
        Cardinality({k \in DOMAIN restarts[s] : restarts[s][k] \in t .. t + WINDOW})
            <= 2 * MAX_RESTARTS

\* The limit of a sliding window, which the comments promise, does not hold
\* (RestartsWithinLimit); the fixed windows of the supervision loop still bound the
\* restarts in every interval of RESTART_WINDOW_TICKS, wherever it lies, by twice
\* MAX_RESTARTS_PER_WINDOW.
THEOREM RestartIntensity == Spec => []RestartsBounded
<1>1. IInv => RestartsBounded
  BY DEF IInv, Intensity, Spread, Count, RestartsBounded
<1> QED BY <1>1, Invariant, PTL
=============================================================================
