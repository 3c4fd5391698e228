--------------------------- MODULE HotSwapProofs ---------------------------
(***************************************************************************)
(* Proofs about HotSwap, for any clients, any depth of the queue and any   *)
(* number of requests: nobody is left waiting for a dead task, some cell   *)
(* can serve unless one was killed, until the drain nothing that was       *)
(* accepted is lost, requests are applied at most once and in order, and   *)
(* the two cells run side by side only if the old one's child has ended.   *)
(*                                                                         *)
(* None of the five is inductive alone.  The invariant adds, by part: what *)
(* each task can be doing in each phase of the swap (Phases), whom a       *)
(* blocked task waits for and where its cell resumes (Waiting), that what  *)
(* a buffer still holds after its handler ran has been applied (Buffers),  *)
(* and that wherever a request is on its way (a blocked sender, a buffer,  *)
(* the queue) it is later than what its client has had applied and than    *)
(* what is ahead of it (Order).                                            *)
(***************************************************************************)
EXTENDS HotSwap, TLAPS

\* what each task can be doing, by phase of the swap; nobody learns of the new cell
Phases ==
    /\ st[New] \in {"gone", "ready", "recv", "send"}
    /\ st[Orc] \in {"ready", "send"}
    /\ st[Child] \in {"gone", "ready"}
    /\ \A c \in Clients : st[c] \in {"ready", "send", "recv"}
    /\ opc \in {"idle", "stash", "failed"} => st[New] = "gone"
    /\ opc \in {"idle", "stash", "failed"} => st[Old] # "frozen" /\ pend = << >>
    /\ opc \in {"ready", "abandoned"} =>
          st[Old] \in {"frozen", "gone"} \/ st[Child] = "gone"
    /\ opc = "done" => st[Old] = "gone"
    /\ st[Old] \in {"gone", "recv"} => pend = << >>
    /\ reg \in {Old, 0}
    /\ \A c \in Clients : dst[c] \in {Old, 0}

\* no cell ends by itself, and the old one only where the new one is
Alive ==
    ~ crashed => /\ st[Old] = "gone" => opc = "done"
                 /\ opc \in {"ready", "abandoned", "done"} => st[New] # "gone"

\* a blocked client waits for the old cell, the orchestrator for the cell it has
\* sent its event to, and that one is there; a cell waits for the sender of what it
\* has handled, or for its child in the middle of its handler
Waiting ==
    /\ \A c \in Clients : st[c] = "send" =>
          to[c] = Old /\ st[Old] # "gone" /\ cn[c] > 0
    /\ st[Orc] = "send" => opc \in {"stash", "ready"}
    /\ st[Orc] = "send" /\ opc = "stash" => to[Orc] = Old /\ st[Old] # "gone"
    /\ st[Orc] = "send" /\ opc = "ready" => to[Orc] = New /\ st[New] # "gone"
    /\ \A x \in Cells : st[x] = "send" => kont[x] = "loop" /\ to[x] \in Clients \cup {Orc}
    /\ st[Old] = "wait" => st[Child] # "gone" /\ Old \in waiters /\ kont[Old] = "handle"
    /\ (opc # "failed" /\ Old \in waiters /\ st[Old] # "gone") =>
          st[Old] \in {"wait", "frozen"} /\ kont[Old] = "handle"

\* a cell that waits for a message, or is about to answer it, has applied it
Buffers ==
    /\ opc # "done" => buf[New] \notin Requests
    /\ \A x \in Cells : st[x] = "recv" => kont[x] = "parked"
    /\ \A x \in Cells : kont[x] = "reply" => buf[x] \in Requests \cup {Junk}
    /\ \A x \in Cells :
          (kont[x] \in {"loop", "reply"} \/ st[x] = "recv") =>
              (buf[x] \in Requests => buf[x] \in Range(hist))

Issued(r) == r[2] <= cn[r[1]]

AllIssued ==
    /\ \A j \in DOMAIN hist : Issued(hist[j])
    /\ \A x \in Cells : buf[x] \in Requests => Issued(buf[x])
    /\ \A j \in DOMAIN pend : Issued(pend[j])

Before(q, r) == q[1] = r[1] => q[2] < r[2]

\* of its client, nothing that was sent with r or after it has been applied
NotYet(r) == \A j \in DOMAIN hist : Before(hist[j], r)

\* x has not handled the request in its buffer, and may yet
Handling(x) ==
    /\ buf[x] \in Requests
    /\ (kont[x] = "handle" /\ st[x] # "gone") \/ (kont[x] = "parked" /\ st[x] = "ready")

\* what is on its way is later than what was applied and than what is ahead of it
Order ==
    opc # "failed" =>
        /\ \A x \in Cells : Handling(x) => NotYet(buf[x])
        /\ \A j \in DOMAIN pend : NotYet(pend[j])
        /\ \A c \in Clients : st[c] = "send" => NotYet(Req(c, cn[c]))
        /\ \A x \in Cells : Handling(x) => \A j \in DOMAIN pend : Before(buf[x], pend[j])
        /\ \A j, k \in DOMAIN pend : j < k => Before(pend[j], pend[k])
        /\ \A c \in Clients : st[c] = "send" =>
              /\ \A x \in Cells : Handling(x) => Before(buf[x], Req(c, cn[c]))
              /\ \A j \in DOMAIN pend : Before(pend[j], Req(c, cn[c]))

IInv ==
    /\ TypeOK /\ Phases /\ Alive /\ Waiting /\ Buffers /\ AllIssued
    /\ KeptUntilDrain /\ Order /\ InOrderOnce

\* The old cell runs beside the new one only once a child it waited for has ended.
SideBySide ==
    (st[New] # "gone" /\ st[Old] \notin {"frozen", "gone"}) => st[Child] = "gone"

\* a leaf that names no prover is Zenon's
USE ZenonT(30)

-----------------------------------------------------------------------------
\* Requests and events

\* A request is its client and its number, and an event of the swap is neither.
LEMMA Message ==
    /\ \A r \in Requests : r[1] \in Clients /\ r[2] \in 1 .. MaxReq
    /\ \A c \in Clients, n \in 1 .. MaxReq :
          Req(c, n) \in Requests /\ Req(c, n)[1] = c /\ Req(c, n)[2] = n
    /\ \A m \in {Snapshot, Restore, Junk, Nothing} : m \notin Requests /\ m \in Messages
    /\ Requests \subseteq Messages
<1>1. \A c \in Clients : c # 0
  BY TasksAssumption DEF Tasks
<1> QED BY <1>1, SMT DEF Requests, Req, Snapshot, Restore, Junk, Nothing, Messages

\* The parts of the system are different tasks.
LEMMA Parts ==
    /\ Old \in Cells /\ New \in Cells /\ Old # New /\ Old # 0 /\ New # 0
    /\ \A x \in Cells : /\ x \in {Old, New} /\ x \in Tasks
                        /\ x # Orc /\ x # Child /\ x \notin Clients
    /\ Orc \in Tasks /\ Orc \notin Clients /\ Orc # Child
    /\ Child \in Tasks /\ Child \notin Clients
    /\ Clients \subseteq Tasks
    /\ \A t \in Tasks : t \in Cells \/ t = Orc \/ t = Child \/ t \in Clients
  BY TasksAssumption DEF Tasks, Cells

\* Nothing is in the empty queue, and what is in a queue is a request.
LEMMA Elements ==
    ASSUME NEW S, NEW q \in Seq(S)
    PROVE  /\ << >> \in Seq(S) /\ Len(<< >>) = 0 /\ DOMAIN << >> = {}
           /\ Len(q) \in Nat /\ DOMAIN q = 1 .. Len(q)
           /\ \A k \in DOMAIN q : q[k] \in S
           /\ q # << >> => 1 \in DOMAIN q /\ Head(q) = q[1]
  BY SMT

\* A request goes to the end of the queue and moves none.
LEMMA Longer ==
    ASSUME NEW S, NEW q \in Seq(S), NEW v \in S, NEW p, p = Append(q, v)
    PROVE  /\ p \in Seq(S) /\ Len(p) = Len(q) + 1 /\ DOMAIN p = 1 .. Len(q) + 1
           /\ \A k \in 1 .. Len(q) : p[k] = q[k]
           /\ p[Len(q) + 1] = v
  BY SMT

-----------------------------------------------------------------------------
LEMMA InitInv == Init => IInv
<1> SUFFICES ASSUME Init PROVE IInv
  OBVIOUS
<1> USE Parts, Message
<1>1. TypeOK
  <2>1. 0 \in 0 .. MaxReq /\ 0 <= DEPTH
    BY DepthAssumption, SMT
  <2>2. << >> \in Seq(Requests) /\ Len(<< >>) = 0
    BY SMT
  <2> QED BY <2>1, <2>2 DEF Init, TypeOK, NoStash, TaskState, Kont
<1>2. Phases /\ Alive /\ Waiting
  BY SMT DEF Init, Phases, Alive, Waiting
<1>3. Buffers
  BY DEF Init, Buffers
<1>4. AllIssued /\ Order /\ InOrderOnce
  BY SMT DEF Init, AllIssued, Order, InOrderOnce, Handling
<1>5. KeptUntilDrain
  BY DEF Init, KeptUntilDrain
<1> QED BY <1>1, <1>2, <1>3, <1>4, <1>5 DEF IInv

\* Three properties follow from what the tasks are doing in each phase.
LEMMA PhasesSuffice ==
    Phases /\ Alive /\ Waiting /\ TypeOK => NobodyStuck /\ SomeoneServes /\ SideBySide
<1> SUFFICES ASSUME Phases, Alive, Waiting, TypeOK
             PROVE  NobodyStuck /\ SomeoneServes /\ SideBySide
  OBVIOUS
<1>1. SomeoneServes /\ SideBySide
  BY DEF Phases, Alive, TypeOK, SomeoneServes, SideBySide
<1>2. ASSUME NEW t \in Tasks, st[t] = "send" PROVE st[to[t]] # "gone"
  <2>1. CASE t \in Cells
    <3>1. to[t] \in Clients \/ to[t] = Orc
      BY <1>2, <2>1 DEF Waiting
    <3> QED BY <3>1 DEF Phases
  <2>2. CASE t \notin Cells
    BY <1>2, <2>2, Parts DEF Phases, Waiting
  <2> QED BY <2>1, <2>2
<1>3. NobodyStuck
  BY <1>2 DEF Phases, Waiting, NobodyStuck
<1> QED BY <1>1, <1>3

-----------------------------------------------------------------------------
\* One lemma per action

LEMMA ResumeInv ==
    ASSUME IInv, NEW x \in Cells, Resume(x)
    PROVE  IInv'
<1>1. TypeOK /\ Phases /\ Alive /\ Waiting /\ Buffers /\ AllIssued
      /\ KeptUntilDrain /\ Order /\ InOrderOnce
  BY DEF IInv
<1>2. /\ st[x] = "ready" /\ kont[x] = "parked"
      /\ kont' = [kont EXCEPT ![x] = "handle"]
      /\ UNCHANGED <<st, to, waiters, buf, app, pend, stash, hotswap_ready, opc, reg, dst,
                     cn, acc, hist, crashed>>
  BY DEF Resume
<1>3. kont \in [Cells -> Kont]
  BY <1>1 DEF TypeOK
<1>4. TypeOK'
  BY <1>1, <1>2 DEF TypeOK, Kont
<1>5. Phases' /\ Alive'
  BY <1>1, <1>2 DEF Phases, Alive
<1>6. Waiting'
  BY <1>1, <1>2, <1>3, Parts DEF Waiting
<1>7. Buffers'
  BY <1>1, <1>2, <1>3 DEF Buffers
<1>8. AllIssued' /\ InOrderOnce'
  BY <1>1, <1>2 DEF AllIssued, Issued, InOrderOnce
<1>9. \A y \in Cells : Handling(y)' <=> Handling(y)
  BY <1>2, <1>3 DEF Handling
<1>10. Order'
  BY <1>1, <1>2, <1>9 DEF Order, NotYet
<1>11. KeptUntilDrain'
  BY <1>1, <1>2, <1>3 DEF KeptUntilDrain, Taken
<1> QED BY <1>4, <1>5, <1>6, <1>7, <1>8, <1>10, <1>11 DEF IInv

LEMMA ReadyTimeoutInv == ASSUME IInv, ReadyTimeout PROVE IInv'
<1>1. TypeOK /\ Phases /\ Alive /\ Waiting /\ Buffers /\ AllIssued
      /\ KeptUntilDrain /\ Order /\ InOrderOnce
  BY DEF IInv
<1>2. /\ opc = "ready" /\ st[Orc] = "ready" /\ opc' = "abandoned"
      /\ UNCHANGED <<st, to, waiters, kont, buf, app, pend, stash, hotswap_ready, reg, dst,
                     cn, acc, hist, crashed>>
  BY DEF ReadyTimeout
<1>3. TypeOK'
  BY <1>1, <1>2 DEF TypeOK
<1>4. Phases' /\ Alive' /\ Waiting'
  BY <1>1, <1>2, SMTT(20) DEF Phases, Alive, Waiting
<1>5. Buffers'
  BY <1>1, <1>2 DEF Buffers
<1>6. AllIssued' /\ InOrderOnce'
  BY <1>1, <1>2 DEF AllIssued, Issued, InOrderOnce
<1>7. Order'
  BY <1>1, <1>2 DEF Order, NotYet, Handling
<1>8. KeptUntilDrain'
  BY <1>1, <1>2 DEF KeptUntilDrain, Taken
<1> QED BY <1>3, <1>4, <1>5, <1>6, <1>7, <1>8 DEF IInv

\* What is accepted when Send returns is a request.
LEMMA CurrentType ==
    ASSUME TypeOK, NEW T, \A c \in T \cap Clients : cn[c] > 0
    PROVE  Current(T) \subseteq Requests
<1>1. \A c \in T \cap Clients : cn[c] \in 1 .. MaxReq
  BY DepthAssumption, SMT DEF TypeOK
<1> QED BY <1>1, Message, SMTT(20) DEF Current

\* A death that is not the swap's, of a cell that runs or of one that is Frozen:
\* who was blocked on it is woken, and nobody else changes.
LEMMA DeathInv ==
    ASSUME IInv, NEW x \in Cells, st[x] # "gone", exit_task(x, st),
           pend' = IF x = Old THEN << >> ELSE pend,
           crashed' = TRUE,
           UNCHANGED <<kont, buf, app, stash, hotswap_ready, opc, dst, cn, hist>>
    PROVE  IInv'
<1>1. TypeOK /\ Phases /\ Waiting /\ Buffers /\ AllIssued
      /\ KeptUntilDrain /\ Order /\ InOrderOnce
  BY DEF IInv
<1>2. /\ st' = [t \in Tasks |-> IF t = x THEN "gone"
                                ELSE IF t \in BlockedOn(x) THEN "ready" ELSE st[t]]
      /\ to' = [t \in Tasks |-> IF t \in BlockedOn(x) THEN 0 ELSE to[t]]
      /\ waiters' = waiters
      /\ reg' = IF reg = x THEN 0 ELSE reg
      /\ acc' = acc \cup Current(BlockedOn(x))
  <2>1. x # Child /\ WaitersOf(x) = {}
    BY Parts DEF WaitersOf
  <2>2. BlockedOn(x) \cup WaitersOf(x) = BlockedOn(x)
    BY <2>1
  <2> QED BY <2>1, <2>2 DEF exit_task
<1>3. \A t \in Tasks : t \in BlockedOn(x) <=> (st[t] = "send" /\ to[t] = x)
  BY DEF BlockedOn
<1>4. Current(BlockedOn(x)) \subseteq Requests
  BY <1>1, <1>3, CurrentType, Parts DEF Waiting
<1>5. \A t \in Tasks : /\ st'[t] \in {"gone", "ready", st[t]}
                       /\ st'[t] = "gone" <=> (t = x \/ st[t] = "gone")
                       /\ st'[t] = "send" => st[t] = "send" /\ to[t] # x /\ to'[t] = to[t]
                       /\ st'[t] = "ready" => st[t] \in {"ready", "send"}
                       /\ st'[t] = "recv" => st[t] = "recv"
                       /\ st'[t] = "wait" => st[t] = "wait"
                       /\ st'[t] = "frozen" => st[t] = "frozen"
  BY <1>2, <1>3, Parts
<1>6. \A y \in Cells : st'[y] \in {"gone", st[y]} /\ st'[Child] = st[Child]
  <2>1. \A y \in Cells : y \notin BlockedOn(x)
    BY <1>1, <1>3, Parts, SMTT(20) DEF Waiting
  <2>2. Child \notin BlockedOn(x)
    BY <1>1, <1>3, Parts DEF Phases
  <2> QED BY <1>2, <2>1, <2>2, Parts
<1>7. TypeOK'
  <2>1. pend' \in Seq(Requests) /\ Len(pend') <= DEPTH
    BY <1>1, DepthAssumption, SMT DEF TypeOK
  <2>2. st' \in [Tasks -> TaskState]
    BY <1>1, <1>2 DEF TypeOK, TaskState
  <2>3. to' \in [Tasks -> Tasks \cup {0}] /\ reg' \in Cells \cup {0}
    BY <1>1, <1>2 DEF TypeOK
  <2> QED BY <1>1, <1>2, <1>4, <2>1, <2>2, <2>3 DEF TypeOK
<1>8. Phases'
  <2>1. pend' = << >> \/ pend' = pend
    OBVIOUS
  <2>2. st'[Old] \in {"gone", "recv"} => pend' = << >>
    BY <1>1, <1>5, Parts DEF Phases
  <2>3. reg' \in {Old, 0}
    BY <1>1, <1>2 DEF Phases
  <2>4. \A c \in Clients : st'[c] \in {"ready", "send", "recv"}
    BY <1>1, <1>5, Parts, SMTT(20) DEF Phases
  <2>5. st'[Orc] \in {"ready", "send"}
    BY <1>1, <1>5, Parts DEF Phases
  <2> QED BY <1>1, <1>6, <2>1, <2>2, <2>3, <2>4, <2>5, Parts DEF Phases
<1>9. Waiting' /\ Alive'
  <2>1. Alive'
    BY DEF Alive
  <2>2. \A y \in Cells : st'[y] = "send" => kont[y] = "loop" /\ to'[y] \in Clients \cup {Orc}
    BY <1>1, <1>5, Parts DEF Waiting
  <2> QED BY <1>1, <1>2, <1>5, <1>6, <2>1, <2>2, Parts, SMTT(20) DEF Waiting
<1>10. Buffers'
  BY <1>1, <1>5, Parts DEF Buffers
<1>11. AllIssued' /\ InOrderOnce'
  BY <1>1, SMT DEF AllIssued, Issued, InOrderOnce
<1>12. Order'
  <2>1. \A y \in Cells : Handling(y)' => Handling(y)
    BY <1>6, Parts DEF Handling
  <2>2. pend' = pend \/ DOMAIN pend' = {}
    BY SMT
  <2>3. \A c \in Clients : st'[c] = "send" => st[c] = "send"
    BY <1>5, Parts
  <2> QED BY <1>1, <2>1, <2>2, <2>3 DEF Order, NotYet
<1>13. KeptUntilDrain'
  BY DEF KeptUntilDrain
<1> QED BY <1>7, <1>8, <1>9, <1>10, <1>11, <1>12, <1>13 DEF IInv

LEMMA KillInv == ASSUME IInv, NEW x \in Cells, Kill(x) PROVE IInv'
  BY DeathInv DEF Kill

LEMMA HeartbeatKillInv == ASSUME IInv, HeartbeatKill PROVE IInv'
  BY DeathInv, Parts DEF HeartbeatKill

\* The child ends: if the old cell waits for it, or did when it was frozen, it is
\* Ready and goes on in its handler.
LEMMA ChildExitInv == ASSUME IInv, ChildExit PROVE IInv'
<1>1. TypeOK /\ Phases /\ Alive /\ Waiting /\ Buffers /\ AllIssued
      /\ KeptUntilDrain /\ Order /\ InOrderOnce
  BY DEF IInv
<1>2. st \in [Tasks -> TaskState] /\ to \in [Tasks -> Tasks \cup {0}] /\ waiters \subseteq {Old}
      /\ acc \subseteq Requests
  BY <1>1 DEF TypeOK
<1>3. UNCHANGED <<kont, buf, app, pend, stash, hotswap_ready, opc, dst, cn, hist, crashed>>
  BY DEF ChildExit
<1>4. BlockedOn(Child) = {}
  <2> SUFFICES ASSUME NEW t \in Tasks, st[t] = "send", to[t] = Child PROVE FALSE
    BY DEF BlockedOn
  <2>1. CASE t \in Cells
    BY <1>1, <2>1, Parts DEF Waiting
  <2>2. CASE t \in Clients \/ t = Orc
    BY <1>1, <2>2, Parts DEF Waiting
  <2>3. CASE t = Child
    BY <1>1, <2>3 DEF Phases
  <2> QED BY <2>1, <2>2, <2>3, Parts
<1> DEFINE W == {t \in waiters : st[t] # "gone"}
<1>5. /\ st' = [t \in Tasks |-> IF t = Child THEN "gone"
                                ELSE IF t \in W THEN "ready" ELSE st[t]]
      /\ to' = [t \in Tasks |-> IF t \in W THEN 0 ELSE to[t]]
      /\ waiters' = {} /\ reg' = reg /\ acc' = acc
  <2>1. BlockedOn(Child) \cup WaitersOf(Child) = W
    BY <1>4 DEF WaitersOf
  <2>2. Current(BlockedOn(Child)) = {}
    BY <1>4 DEF Current
  <2>3. reg # Child
    BY <1>1, Parts, TasksAssumption, SMT DEF Phases, Tasks
  <2> QED BY <2>1, <2>2, <2>3 DEF ChildExit, exit_task
<1>6. /\ st'[Child] = "gone" /\ st'[New] = st[New] /\ st'[Orc] = st[Orc]
      /\ to'[Orc] = to[Orc] /\ to'[New] = to[New]
      /\ \A c \in Clients : st'[c] = st[c] /\ to'[c] = to[c]
      /\ st'[Old] = IF Old \in waiters /\ st[Old] # "gone" THEN "ready" ELSE st[Old]
      /\ (st'[Old] = "send" => to'[Old] = to[Old])
  BY <1>2, <1>5, Parts
<1>7. TypeOK'
  <2>1. st' \in [Tasks -> TaskState] /\ to' \in [Tasks -> Tasks \cup {0}]
    BY <1>2, <1>5 DEF TaskState
  <2> QED BY <1>1, <1>3, <1>5, <2>1 DEF TypeOK
<1>8. Phases' /\ Alive'
  <2>1. st'[Old] \in {"ready", st[Old]} /\ (st'[Old] = "gone" <=> st[Old] = "gone")
    BY <1>6
  <2>2. UNCHANGED <<reg, dst, pend, opc, crashed>>
    BY <1>3, <1>5
  <2>3. Phases'
    BY <1>1, <1>6, <2>1, <2>2 DEF Phases
  <2> QED BY <1>1, <1>6, <2>1, <2>2, <2>3 DEF Alive
<1>9. Waiting'
  <2>1. st'[Old] # "wait"
    BY <1>1, <1>6 DEF Waiting
  <2>2. \A y \in Cells : st'[y] = "send" => st[y] = "send" /\ to'[y] = to[y]
    BY <1>6, Parts
  <2>3. (st'[Old] = "gone" => st[Old] = "gone") /\ waiters' = {}
    <3>1. waiters' = {}
      BY <1>5
    <3> QED BY <1>6, <3>1
  <2>4. /\ kont' = kont /\ opc' = opc /\ cn' = cn
        /\ st'[New] = st[New] /\ st'[Orc] = st[Orc] /\ to'[Orc] = to[Orc]
        /\ \A c \in Clients : st'[c] = st[c] /\ to'[c] = to[c]
    BY <1>3, <1>6
  <2> QED BY <1>1, <2>1, <2>2, <2>3, <2>4, SMTT(20) DEF Waiting
<1>10. Buffers'
  BY <1>1, <1>3, <1>6, Parts, SMTT(20) DEF Buffers
<1>11. AllIssued' /\ InOrderOnce'
  BY <1>1, <1>3 DEF AllIssued, Issued, InOrderOnce
<1>12. Order'
  <2> SUFFICES ASSUME opc # "failed" PROVE Order'
    BY <1>3 DEF Order
  <2>1. \A y \in Cells : Handling(y)' => Handling(y)
    <3>1. Handling(New)' => Handling(New)
      BY <1>3, <1>6 DEF Handling
    <3>2. CASE Old \in waiters /\ st[Old] # "gone"
      BY <1>1, <1>3, <1>6, <3>1, <3>2, Parts DEF Handling, Waiting
    <3>3. CASE ~ (Old \in waiters /\ st[Old] # "gone")
      BY <1>3, <1>6, <3>1, <3>3, Parts DEF Handling
    <3> QED BY <3>2, <3>3
  <2> QED BY <1>1, <1>3, <1>6, <2>1 DEF Order, NotYet
<1>13. KeptUntilDrain'
  <2>1. \A y \in Cells : st[y] # "gone" => st'[y] # "gone"
    BY <1>6, Parts
  <2> QED BY <1>1, <1>3, <1>5, <2>1 DEF KeptUntilDrain, Taken
<1> QED BY <1>7, <1>8, <1>9, <1>10, <1>11, <1>12, <1>13 DEF IInv

\* The old cell waits for its child, in its handler.
LEMMA WaitInv == ASSUME IInv, Wait PROVE IInv'
<1>1. TypeOK /\ Phases /\ Alive /\ Waiting /\ Buffers /\ AllIssued
      /\ KeptUntilDrain /\ Order /\ InOrderOnce
  BY DEF IInv
<1>2. /\ st[Old] = "ready" /\ kont[Old] = "handle" /\ st[Child] # "gone"
      /\ st' = [st EXCEPT ![Old] = "wait"]
      /\ waiters' = {Old}
      /\ UNCHANGED <<to, kont, buf, app, pend, stash, hotswap_ready, opc, reg, dst, cn,
                     acc, hist, crashed>>
  BY DEF Wait
<1>3. st \in [Tasks -> TaskState]
  BY <1>1 DEF TypeOK
<1>4. st'[Old] = "wait" /\ \A t \in Tasks : t # Old => st'[t] = st[t]
  BY <1>2, <1>3, Parts
<1>5. TypeOK'
  BY <1>1, <1>2 DEF TypeOK, TaskState
<1>6. Phases' /\ Alive'
  BY <1>1, <1>2, <1>4, Parts DEF Phases, Alive
<1>7. Waiting'
  BY <1>1, <1>2, <1>4, Parts DEF Waiting
<1>8. Buffers'
  BY <1>1, <1>2, <1>4, Parts DEF Buffers
<1>9. AllIssued' /\ InOrderOnce'
  BY <1>1, <1>2 DEF AllIssued, Issued, InOrderOnce
<1>10. Order'
  <2>1. \A y \in Cells : Handling(y)' => Handling(y)
    BY <1>2, <1>4, Parts DEF Handling
  <2>2. \A c \in Clients : st'[c] = st[c]
    BY <1>4, Parts
  <2> QED BY <1>1, <1>2, <2>1, <2>2 DEF Order, NotYet
<1>11. KeptUntilDrain'
  <2>1. \A y \in Cells : st[y] # "gone" => st'[y] # "gone"
    BY <1>4, Parts
  <2> QED BY <1>1, <1>2, <2>1 DEF KeptUntilDrain, Taken
<1> QED BY <1>5, <1>6, <1>7, <1>8, <1>9, <1>10, <1>11 DEF IInv

LEMMA StartSwapInv == ASSUME IInv, StartSwap PROVE IInv'
<1>1. TypeOK /\ Phases /\ Alive /\ Waiting /\ Buffers /\ AllIssued
      /\ KeptUntilDrain /\ Order /\ InOrderOnce
  BY DEF IInv
<1>2. /\ opc = "idle" /\ st[Old] # "gone" /\ opc' = "stash"
      /\ reg' = IF reg = Old THEN 0 ELSE reg
      /\ UNCHANGED <<waiters, kont, app, pend, stash, hotswap_ready, dst, cn, acc, hist,
                     crashed>>
  BY DEF StartSwap
<1>3. /\ st \in [Tasks -> TaskState] /\ to \in [Tasks -> Tasks \cup {0}]
      /\ buf \in [Cells -> Messages]
  BY <1>1 DEF TypeOK
<1>4. CASE st[Old] = "recv"
  <2>1. /\ st' = [st EXCEPT ![Old] = "ready"]
        /\ buf' = [buf EXCEPT ![Old] = Snapshot]
        /\ to' = to
    BY <1>4 DEF StartSwap
  <2>2. /\ st'[Old] = "ready" /\ \A t \in Tasks : t # Old => st'[t] = st[t]
        /\ buf'[Old] = Snapshot /\ buf'[New] = buf[New] /\ buf' \in [Cells -> Messages]
    BY <1>3, <2>1, Parts, Message, SMTT(20)
  <2>3. TypeOK'
    BY <1>1, <1>2, <2>1, <2>2, Parts DEF TypeOK, TaskState
  <2>4. Phases' /\ Alive'
    BY <1>1, <1>2, <1>4, <2>2, Parts DEF Phases, Alive
  <2>5. Waiting'
    BY <1>1, <1>2, <1>4, <2>1, <2>2, Parts DEF Waiting
  <2>6. Buffers'
    <3>1. kont[Old] = "parked"
      BY <1>1, <1>4, Parts DEF Buffers
    <3>2. Snapshot \notin Requests
      BY Message
    <3>3. \A x \in Cells : x = Old \/ (buf'[x] = buf[x] /\ st'[x] = st[x])
      BY <2>2, Parts
    <3> QED BY <1>1, <1>2, <2>2, <3>1, <3>2, <3>3, Parts DEF Buffers
  <2>7. AllIssued' /\ InOrderOnce'
    BY <1>1, <1>2, <2>2, Parts, Message, SMTT(20) DEF AllIssued, Issued, InOrderOnce
  <2>8. \A y \in Cells : Handling(y)' => Handling(y) /\ buf'[y] = buf[y]
    BY <1>2, <2>2, Parts, Message DEF Handling
  <2>9. \A c \in Clients : st'[c] = st[c]
    BY <2>2, Parts
  <2>10. Order'
    BY <1>1, <1>2, <2>8, <2>9 DEF Order, NotYet
  <2>11. \A r \in Requests : Taken(r) => Taken(r)'
    BY <1>1, <1>2, <1>4, <2>2, Parts, SMT DEF Taken, Buffers
  <2>12. KeptUntilDrain'
    BY <1>1, <1>2, <2>11 DEF KeptUntilDrain, TypeOK
  <2> QED BY <2>3, <2>4, <2>5, <2>6, <2>7, <2>10, <2>12 DEF IInv
<1>5. CASE st[Old] # "recv"
  <2>1. /\ st' = [st EXCEPT ![Orc] = "send"]
        /\ to' = [to EXCEPT ![Orc] = Old]
        /\ buf' = buf
    BY <1>5 DEF StartSwap
  <2>2. /\ st'[Orc] = "send" /\ to'[Orc] = Old
        /\ \A t \in Tasks : t # Orc => st'[t] = st[t] /\ to'[t] = to[t]
    BY <1>3, <2>1, Parts
  <2>3. TypeOK'
    BY <1>1, <1>2, <2>1, Parts DEF TypeOK, TaskState
  <2>4. Phases' /\ Alive'
    BY <1>1, <1>2, <2>2, Parts DEF Phases, Alive
  <2>5. Waiting'
    BY <1>1, <1>2, <2>2, Parts DEF Waiting
  <2>6. \A y \in Cells : st'[y] = st[y]
    BY <2>2, Parts
  <2>7. \A c \in Clients : st'[c] = st[c]
    BY <2>2, Parts
  <2>8. Buffers'
    BY <1>1, <1>2, <2>1, <2>6 DEF Buffers
  <2>9. AllIssued' /\ InOrderOnce'
    BY <1>1, <1>2, <2>1 DEF AllIssued, Issued, InOrderOnce
  <2>10. Order'
    BY <1>1, <1>2, <2>1, <2>6, <2>7, SMTT(20) DEF Order, NotYet, Handling
  <2>11. KeptUntilDrain'
    BY <1>1, <1>2, <2>1, <2>6 DEF KeptUntilDrain, Taken
  <2> QED BY <2>3, <2>4, <2>5, <2>8, <2>9, <2>10, <2>11 DEF IInv
<1> QED BY <1>4, <1>5

LEMMA PollStashInv == ASSUME IInv, PollStash PROVE IInv'
<1>1. TypeOK /\ Phases /\ Alive /\ Waiting /\ Buffers /\ AllIssued
      /\ KeptUntilDrain /\ Order /\ InOrderOnce
  BY DEF IInv
<1>2. /\ opc = "stash" /\ st[Orc] = "ready"
      /\ UNCHANGED <<waiters, kont, buf, app, pend, stash, hotswap_ready, reg, dst, cn, acc,
                     hist, crashed>>
  BY DEF PollStash
<1>3. AllIssued'
  BY <1>1, <1>2 DEF AllIssued, Issued
<1>4. st \in [Tasks -> TaskState] /\ to \in [Tasks -> Tasks \cup {0}]
  BY <1>1 DEF TypeOK
<1>5. pend = << >> /\ DOMAIN pend = {}
  BY <1>1, <1>2, Elements DEF Phases, TypeOK
<1>6. CASE /\ st' = [FreezeOld EXCEPT ![New] = "ready", ![Orc] = "send"]
           /\ to' = [to EXCEPT ![Old] = 0, ![Orc] = New]
           /\ opc' = "ready"
  <2>1. /\ st' \in [Tasks -> TaskState] /\ to' \in [Tasks -> Tasks \cup {0}]
        /\ st'[Old] = IF st[Old] = "gone" THEN "gone" ELSE "frozen"
        /\ st'[New] = "ready" /\ st'[Orc] = "send" /\ to'[Orc] = New
        /\ st'[Child] = st[Child]
        /\ \A c \in Clients : st'[c] = st[c] /\ to'[c] = to[c]
    BY <1>4, <1>6, Parts DEF FreezeOld, TaskState
  <2>2. /\ st'[Old] \in {"gone", "frozen"} /\ (st'[Old] = "gone" <=> st[Old] = "gone")
    BY <2>1
  <2>3. TypeOK'
    BY <1>1, <1>2, <1>6, <2>1 DEF TypeOK
  <2>4. Phases' /\ Alive'
    BY <1>1, <1>2, <1>5, <1>6, <2>1, <2>2 DEF Phases, Alive
  <2>5. Waiting'
    <3>1. \A y \in Cells : st'[y] # "send"
      BY <2>1, <2>2, Parts
    <3>2. (Old \in waiters' /\ st'[Old] # "gone") => st'[Old] = "frozen" /\ kont'[Old] = "handle"
      BY <1>1, <1>2, <2>2 DEF Waiting
    <3>3. st'[Old] # "wait"
      BY <2>2
    <3>4. \A c \in Clients : st'[c] = "send" => to'[c] = Old /\ st'[Old] # "gone" /\ cn'[c] > 0
      BY <1>1, <1>2, <2>1, <2>2 DEF Waiting
    <3>5. opc' = "ready" /\ to'[Orc] = New /\ st'[New] = "ready"
      BY <1>6, <2>1
    <3> QED BY <3>1, <3>2, <3>3, <3>4, <3>5 DEF Waiting
  <2>6. Buffers'
    BY <1>1, <1>2, <1>6, <2>1, <2>2, Parts, SMTT(20) DEF Buffers
  <2>7. InOrderOnce'
    BY <1>1, <1>2 DEF InOrderOnce
  <2>8. \A y \in Cells : Handling(y)' => Handling(y)
    BY <1>1, <1>2, <2>1, <2>2, Parts DEF Handling, Buffers
  <2>9. Order'
    BY <1>1, <1>2, <1>5, <2>1, <2>8 DEF Order, NotYet
  <2>10. KeptUntilDrain'
    BY <1>1, <1>2, <1>5, <2>1, <2>2, Parts, SMTT(20) DEF KeptUntilDrain, Taken
  <2> QED BY <1>3, <2>3, <2>4, <2>5, <2>6, <2>7, <2>9, <2>10 DEF IInv
<1>7. CASE Rollback /\ opc' = "failed" /\ to' = [to EXCEPT ![Old] = 0]
  <2>1. /\ st' \in [Tasks -> TaskState] /\ to' \in [Tasks -> Tasks \cup {0}]
        /\ st'[Old] = IF st[Old] = "gone" THEN "gone" ELSE "ready"
        /\ \A t \in Tasks \ {Old} : st'[t] = st[t] /\ to'[t] = to[t]
    BY <1>4, <1>7, Parts DEF Rollback, FreezeOld, TaskState
  <2>2. st'[Old] \in {"gone", "ready"} /\ (st'[Old] = "gone" <=> st[Old] = "gone")
    BY <2>1
  <2>3. TypeOK'
    BY <1>1, <1>2, <1>7, <2>1 DEF TypeOK
  <2>4. Phases' /\ Alive'
    BY <1>1, <1>2, <1>7, <2>1, <2>2, Parts DEF Phases, Alive
  <2>5. Waiting'
    BY <1>1, <1>2, <1>7, <2>1, <2>2, Parts DEF Waiting
  <2>6. Buffers'
    BY <1>1, <1>2, <1>7, <2>1, <2>2, Parts DEF Buffers
  <2>7. InOrderOnce' /\ Order'
    BY <1>7 DEF InOrderOnce, Order
  <2>8. KeptUntilDrain'
    BY <1>1, <1>2, <1>5, <2>1, <2>2, Parts, SMTT(20) DEF KeptUntilDrain, Taken
  <2> QED BY <1>3, <2>3, <2>4, <2>5, <2>6, <2>7, <2>8 DEF IInv
<1> QED BY <1>6, <1>7 DEF PollStash

LEMMA FinishInv == ASSUME IInv, Finish PROVE IInv'
<1>1. TypeOK /\ Phases /\ Alive /\ Waiting /\ Buffers /\ AllIssued
      /\ KeptUntilDrain /\ Order /\ InOrderOnce
  BY DEF IInv
<1> DEFINE drained == st[New] = "recv" /\ pend # << >>
           s == IF drained THEN [st EXCEPT ![New] = "ready"] ELSE st
<1>2. /\ opc = "ready" /\ st[Orc] = "ready" /\ st[New] # "gone"
      /\ exit_task(Old, s)
      /\ buf' = IF drained THEN [buf EXCEPT ![New] = Head(pend)] ELSE buf
      /\ pend' = << >> /\ stash' = NoStash /\ opc' = "done"
      /\ UNCHANGED <<kont, app, hotswap_ready, dst, cn, hist, crashed>>
  BY DEF Finish
<1>3. /\ st' = [t \in Tasks |-> IF t = Old THEN "gone"
                                ELSE IF t \in BlockedOn(Old) THEN "ready" ELSE s[t]]
      /\ to' = [t \in Tasks |-> IF t \in BlockedOn(Old) THEN 0 ELSE to[t]]
      /\ waiters' = waiters
      /\ reg' = IF reg = Old THEN 0 ELSE reg
      /\ acc' = acc \cup Current(BlockedOn(Old))
  <2> HIDE DEF s, drained
  <2>1. Old # Child /\ WaitersOf(Old) = {}
    BY Parts DEF WaitersOf
  <2>2. BlockedOn(Old) \cup WaitersOf(Old) = BlockedOn(Old)
    BY <2>1
  <2> QED BY <1>2, <2>1, <2>2 DEF exit_task
<1>4. st \in [Tasks -> TaskState] /\ to \in [Tasks -> Tasks \cup {0}]
      /\ buf \in [Cells -> Messages]
  BY <1>1 DEF TypeOK
<1>5. \A t \in Tasks : t \in BlockedOn(Old) <=> (st[t] = "send" /\ to[t] = Old)
  BY DEF BlockedOn
<1>6. Current(BlockedOn(Old)) \subseteq Requests
  BY <1>1, <1>5, CurrentType, Parts DEF Waiting
<1>7. /\ New \notin BlockedOn(Old) /\ Orc \notin BlockedOn(Old) /\ Child \notin BlockedOn(Old)
      /\ \A c \in Clients : c \in BlockedOn(Old) <=> st[c] = "send"
  BY <1>1, <1>2, <1>5, Parts, SMTT(20) DEF Phases, Waiting
<1>8. /\ st'[Old] = "gone" /\ st'[Orc] = "ready" /\ st'[Child] = st[Child]
      /\ st'[New] = IF drained THEN "ready" ELSE st[New]
      /\ to'[New] = to[New]
      /\ \A c \in Clients : st'[c] = IF st[c] = "send" THEN "ready" ELSE st[c]
  BY <1>2, <1>3, <1>4, <1>7, Parts
<1>9. drained => Head(pend) = pend[1] /\ pend[1] \in Requests /\ 1 \in DOMAIN pend
  BY <1>1, Elements DEF TypeOK
<1>10. /\ buf' \in [Cells -> Messages] /\ buf'[Old] = buf[Old]
       /\ buf'[New] = IF drained THEN pend[1] ELSE buf[New]
  BY <1>2, <1>4, <1>9, Message, Parts, SMT
<1>11. st' \in [Tasks -> TaskState]
  BY <1>3, <1>4 DEF TaskState
<1>12. (drained => st[New] = "recv" /\ kont[New] = "parked") /\ DOMAIN pend' = {}
  BY <1>1, <1>2, Parts, Elements DEF Buffers, TypeOK
<1> HIDE DEF s, drained
<1>13. TypeOK'
  <2>1. pend' \in Seq(Requests) /\ Len(pend') <= DEPTH
    BY <1>2, DepthAssumption, SMT
  <2>2. to' \in [Tasks -> Tasks \cup {0}] /\ reg' \in Cells \cup {0}
    BY <1>1, <1>3 DEF TypeOK
  <2>3. stash' \in [there : BOOLEAN, state : SUBSET Requests]
    BY <1>2 DEF NoStash
  <2> QED BY <1>1, <1>2, <1>3, <1>6, <1>10, <1>11, <2>1, <2>2, <2>3 DEF TypeOK
<1>14. Phases' /\ Alive'
  <2>1. st'[New] \in {"ready", "recv", "send"}
    BY <1>1, <1>2, <1>8 DEF Phases
  <2>2. \A c \in Clients : st'[c] \in {"ready", "recv"}
    BY <1>1, <1>8 DEF Phases
  <2>3. reg' \in {Old, 0}
    BY <1>1, <1>3 DEF Phases
  <2> QED BY <1>1, <1>2, <1>8, <2>1, <2>2, <2>3 DEF Phases, Alive
<1>15. Waiting'
  <2>1. \A c \in Clients : st'[c] # "send"
    BY <1>1, <1>8 DEF Phases
  <2>2. st'[New] = "send" => st[New] = "send" /\ to'[New] = to[New] /\ kont'[New] = kont[New]
    BY <1>2, <1>8
  <2> QED BY <1>1, <1>8, <2>1, <2>2, Parts DEF Waiting
<1>16. Buffers'
  BY <1>1, <1>2, <1>8, <1>9, <1>10, <1>12, Parts, SMTT(20) DEF Buffers
<1>17. AllIssued' /\ InOrderOnce'
  <2>1. \A x \in Cells : buf'[x] \in Requests => Issued(buf[x])'
    <3>1. buf'[New] \in Requests => Issued(buf'[New])
      BY <1>1, <1>9, <1>10, Parts DEF AllIssued
    <3>2. buf'[Old] \in Requests => Issued(buf'[Old])
      BY <1>1, <1>10, Parts DEF AllIssued
    <3> QED BY <1>2, <3>1, <3>2, Parts DEF Issued
  <2> QED BY <1>1, <1>2, <1>12, <2>1 DEF AllIssued, Issued, InOrderOnce
<1>18. \A x \in Cells : Handling(x)' => x = New /\ drained
  BY <1>1, <1>2, <1>8, <1>10, Parts DEF Handling, Buffers
<1>19. Order'
  <2>1. \A c \in Clients : st'[c] # "send"
    BY <1>1, <1>8 DEF Phases
  <2>2. drained => NotYet(pend[1])
    BY <1>1, <1>2, <1>9 DEF Order
  <2>3. \A x \in Cells : Handling(x)' => NotYet(buf[x])'
    BY <1>2, <1>10, <1>18, <2>2 DEF NotYet
  <2> QED BY <1>12, <2>1, <2>3 DEF Order
<1>20. KeptUntilDrain'
  BY <1>2 DEF KeptUntilDrain
<1> QED BY <1>13, <1>14, <1>15, <1>16, <1>17, <1>19, <1>20 DEF IInv

\* what is applied last is in the history, after what was there
LEMMA Applied ==
    ASSUME hist \in Seq(Requests), NEW r \in Requests, hist' = Append(hist, r)
    PROVE  /\ hist' \in Seq(Requests)
           /\ Range(hist') = Range(hist) \cup {r}
           /\ \A j \in DOMAIN hist' : \/ (j \in DOMAIN hist /\ hist'[j] = hist[j])
                                      \/ (j = Len(hist) + 1 /\ hist'[j] = r)
           /\ DOMAIN hist' = 1 .. Len(hist) + 1 /\ DOMAIN hist = 1 .. Len(hist)
           /\ Len(hist) \in Nat
<1>1. /\ hist' \in Seq(Requests) /\ Len(hist') = Len(hist) + 1
      /\ \A j \in 1 .. Len(hist) : hist'[j] = hist[j]
      /\ hist'[Len(hist) + 1] = r
  BY Longer, SMT
<1>2. DOMAIN hist = 1 .. Len(hist) /\ Len(hist) \in Nat
      /\ DOMAIN hist' = 1 .. Len(hist) + 1
  BY <1>1, Elements
<1>3. \A j \in DOMAIN hist' : \/ (j \in DOMAIN hist /\ hist'[j] = hist[j])
                              \/ (j = Len(hist) + 1 /\ hist'[j] = r)
  <2> TAKE j \in DOMAIN hist'
  <2>1. CASE j \in 1 .. Len(hist)
    BY <1>1, <1>2, <2>1
  <2>2. CASE j = Len(hist) + 1
    BY <1>1, <2>2
  <2> QED BY <1>2, <2>1, <2>2, SMT
<1>4. \A j \in DOMAIN hist : j \in DOMAIN hist' /\ hist'[j] = hist[j]
  BY <1>1, <1>2, SMT
<1>5. Len(hist) + 1 \in DOMAIN hist'
  BY <1>1, <1>2, SMT
<1>6. Range(hist') = Range(hist) \cup {r}
  BY <1>1, <1>3, <1>4, <1>5, SMT DEF Range
<1> QED BY <1>1, <1>2, <1>3, <1>6

\* The handler runs on a request: it is the latest of its client.
LEMMA HandleRequestInv ==
    ASSUME IInv, NEW x \in Cells,
           st[x] = "ready", kont[x] = "handle", buf[x] \in Requests,
           kont' = [kont EXCEPT ![x] = "reply"],
           app' = [app EXCEPT ![x] = @ \cup {buf[x]}],
           hist' = Append(hist, buf[x]),
           UNCHANGED <<stash, hotswap_ready, st, to, waiters, buf, pend, opc, reg, dst, cn,
                       acc, crashed>>
    PROVE  IInv'
<1>1. TypeOK /\ Phases /\ Alive /\ Waiting /\ Buffers /\ AllIssued
      /\ KeptUntilDrain /\ Order /\ InOrderOnce
  BY DEF IInv
<1>2. hist \in Seq(Requests) /\ kont \in [Cells -> Kont]
      /\ app \in [Cells -> SUBSET Requests] /\ cn \in [Clients -> 0 .. MaxReq]
  BY <1>1 DEF TypeOK
<1> DEFINE r == buf[x]
<1>3. /\ hist' \in Seq(Requests)
      /\ Range(hist') = Range(hist) \cup {r}
      /\ \A j \in DOMAIN hist' : \/ (j \in DOMAIN hist /\ hist'[j] = hist[j])
                                 \/ (j = Len(hist) + 1 /\ hist'[j] = r)
      /\ DOMAIN hist' = 1 .. Len(hist) + 1 /\ DOMAIN hist = 1 .. Len(hist)
      /\ Len(hist) \in Nat
  BY <1>2, Applied
<1>4. /\ kont' \in [Cells -> Kont]
      /\ kont'[x] = "reply" /\ \A y \in Cells : y # x => kont'[y] = kont[y]
      /\ app' \in [Cells -> SUBSET Requests]
  BY <1>2 DEF Kont
<1>5. TypeOK'
  BY <1>1, <1>3, <1>4 DEF TypeOK
<1>6. Phases' /\ Alive'
  BY <1>1 DEF Phases, Alive
<1>7. Waiting'
  BY <1>1, <1>4, Parts DEF Waiting
<1>8. Buffers'
  BY <1>1, <1>3, <1>4 DEF Buffers
<1>9. AllIssued'
  BY <1>1, <1>3 DEF AllIssued, Issued
<1>10. Handling(x)
  BY DEF Handling
<1>11. opc = "done" \/ x = Old
  BY <1>1, Parts DEF Buffers
<1>12. opc = "done" => st[Old] = "gone" /\ pend = << >>
  BY <1>1 DEF Phases
<1>13. \A y \in Cells : ~ Handling(y)'
  <2>1. ~ Handling(x)'
    BY <1>4 DEF Handling
  <2>2. CASE x = Old
    <3>1. opc # "done"
      BY <1>12, <2>2
    <3>2. ~ Handling(New)'
      BY <1>1, <3>1 DEF Handling, Buffers
    <3> QED BY <2>1, <2>2, <3>2, Parts
  <2>3. CASE x = New
    <3>1. st[Old] = "gone"
      BY <1>11, <1>12, <2>3, Parts
    <3>2. ~ Handling(Old)'
      BY <3>1 DEF Handling
    <3> QED BY <2>1, <2>3, <3>2, Parts
  <2> QED BY <2>2, <2>3, Parts
<1>14. opc # "failed" => NotYet(r)
  BY <1>1, <1>10 DEF Order
<1>15. InOrderOnce'
  <2> SUFFICES ASSUME opc # "failed", NEW j \in DOMAIN hist', NEW k \in DOMAIN hist',
                      j < k, hist'[j][1] = hist'[k][1]
               PROVE  hist'[j][2] < hist'[k][2]
    BY DEF InOrderOnce
  <2>1. j \in DOMAIN hist /\ hist'[j] = hist[j]
    BY <1>3, SMT
  <2>2. CASE k \in DOMAIN hist /\ hist'[k] = hist[k]
    BY <1>1, <2>1, <2>2 DEF InOrderOnce
  <2>3. CASE hist'[k] = r
    BY <1>14, <2>1, <2>3 DEF NotYet, Before
  <2> QED BY <1>3, <2>2, <2>3
<1>16. ASSUME NEW q, NotYet(q), Before(r, q) PROVE \A j \in DOMAIN hist' : Before(hist'[j], q)
  BY <1>3, <1>16 DEF NotYet
<1>17. opc # "failed" => \A j \in DOMAIN pend' : NotYet(pend[j])'
  BY <1>1, <1>10, <1>16 DEF Order, NotYet
<1>18. ASSUME opc # "failed", NEW c \in Clients, st[c] = "send"
       PROVE  NotYet(Req(c, cn[c]))'
  <2>1. NotYet(Req(c, cn[c])) /\ Before(r, Req(c, cn[c]))
    BY <1>1, <1>10, <1>18 DEF Order
  <2> QED BY <1>16, <2>1 DEF NotYet, Req
<1>19. Order'
  BY <1>1, <1>13, <1>17, <1>18 DEF Order
<1>20. \A q \in Requests : Taken(q) => Taken(q)'
  BY <1>3, <1>4 DEF Taken
<1>21. KeptUntilDrain'
  BY <1>1, <1>20 DEF KeptUntilDrain, TypeOK
<1> QED BY <1>5, <1>6, <1>7, <1>8, <1>9, <1>15, <1>19, <1>21 DEF IInv

\* The handler runs on an event of the swap, or on junk: no request is touched.
LEMMA HandleEventInv ==
    ASSUME IInv, NEW x \in Cells,
           st[x] = "ready", kont[x] = "handle", buf[x] \notin Requests,
           NEW k \in {"loop", "reply"}, k = "reply" => buf[x] = Junk,
           kont' = [kont EXCEPT ![x] = k],
           app' \in [Cells -> SUBSET Requests],
           stash' \in [there : BOOLEAN, state : SUBSET Requests],
           hotswap_ready' \in BOOLEAN,
           UNCHANGED <<hist, st, to, waiters, buf, pend, opc, reg, dst, cn, acc, crashed>>
    PROVE  IInv'
<1>1. TypeOK /\ Phases /\ Alive /\ Waiting /\ Buffers /\ AllIssued
      /\ KeptUntilDrain /\ Order /\ InOrderOnce
  BY DEF IInv
<1>2. /\ kont \in [Cells -> Kont] /\ acc \subseteq Requests
      /\ kont' \in [Cells -> Kont]
      /\ kont'[x] = k /\ \A y \in Cells : y # x => kont'[y] = kont[y]
  BY <1>1 DEF TypeOK, Kont
<1>3. TypeOK'
  BY <1>1, <1>2 DEF TypeOK
<1>4. Phases' /\ Alive'
  BY <1>1 DEF Phases, Alive
<1>5. Waiting'
  BY <1>1, <1>2, Parts DEF Waiting
<1>6. Buffers'
  BY <1>1, <1>2 DEF Buffers
<1>7. AllIssued' /\ InOrderOnce'
  BY <1>1 DEF AllIssued, Issued, InOrderOnce
<1>8. \A y \in Cells : Handling(y)' => Handling(y)
  BY <1>2 DEF Handling
<1>9. Order'
  BY <1>1, <1>8 DEF Order, NotYet
<1>10. \A q \in Requests : Taken(q) => Taken(q)'
  BY <1>2, SMT DEF Taken
<1>11. KeptUntilDrain'
  BY <1>1, <1>2, <1>10 DEF KeptUntilDrain
<1> QED BY <1>3, <1>4, <1>5, <1>6, <1>7, <1>9, <1>11 DEF IInv

LEMMA HandleInv == ASSUME IInv, NEW x \in Cells, Handle(x) PROVE IInv'
<1>1. /\ st[x] = "ready" /\ kont[x] = "handle"
      /\ UNCHANGED <<st, to, waiters, buf, pend, opc, reg, dst, cn, acc, crashed>>
  BY DEF Handle
<1>2. /\ app \in [Cells -> SUBSET Requests] /\ hotswap_ready \in BOOLEAN
      /\ stash \in [there : BOOLEAN, state : SUBSET Requests]
  BY DEF IInv, TypeOK
<1>3. CASE /\ buf[x] \in Requests
           /\ app' = [app EXCEPT ![x] = @ \cup {buf[x]}]
           /\ hist' = Append(hist, buf[x])
           /\ kont' = [kont EXCEPT ![x] = "reply"]
           /\ UNCHANGED <<stash, hotswap_ready>>
  BY <1>1, <1>3, HandleRequestInv
<1>4. CASE /\ buf[x] = Snapshot
           /\ stash' \in {stash, [there |-> TRUE, state |-> app[x]]}
           /\ kont' = [kont EXCEPT ![x] = "loop"]
           /\ UNCHANGED <<app, hist, hotswap_ready>>
  <2>1. [there |-> TRUE, state |-> app[x]] \in [there : BOOLEAN, state : SUBSET Requests]
    BY <1>2
  <2>2. stash' \in [there : BOOLEAN, state : SUBSET Requests]
    BY <1>2, <1>4, <2>1
  <2>3. buf[x] \notin Requests
    BY <1>4, Message
  <2> QED BY <1>1, <1>2, <1>4, <2>2, <2>3, HandleEventInv
<1>5. CASE /\ buf[x] = Restore
           /\ app' = IF stash.there THEN [app EXCEPT ![x] = stash.state] ELSE app
           /\ stash' = NoStash
           /\ hotswap_ready' = TRUE
           /\ kont' = [kont EXCEPT ![x] = "loop"]
           /\ UNCHANGED hist
  <2>1. app' \in [Cells -> SUBSET Requests]
    BY <1>2, <1>5
  <2>2. stash' \in [there : BOOLEAN, state : SUBSET Requests]
    BY <1>5 DEF NoStash
  <2>3. buf[x] \notin Requests
    BY <1>5, Message
  <2> QED BY <1>1, <1>5, <2>1, <2>2, <2>3, HandleEventInv
<1>6. CASE /\ buf[x] \in {Junk, Nothing}
           /\ \E k \in {"loop"} \cup (IF buf[x] = Junk THEN {"reply"} ELSE {}) :
                 kont' = [kont EXCEPT ![x] = k]
           /\ UNCHANGED <<app, hist, stash, hotswap_ready>>
  <2>1. PICK k \in {"loop", "reply"} : (k = "reply" => buf[x] = Junk)
                                       /\ kont' = [kont EXCEPT ![x] = k]
    BY <1>6
  <2>2. buf[x] \notin Requests
    BY <1>6, Message
  <2> QED BY <1>1, <1>2, <1>6, <2>1, <2>2, HandleEventInv
<1> QED BY <1>3, <1>4, <1>5, <1>6 DEF Handle

\* The cell answers: the sender is woken, or the cell blocks on it.
LEMMA ReplyInv == ASSUME IInv, NEW x \in Cells, Reply(x) PROVE IInv'
<1>1. TypeOK /\ Phases /\ Alive /\ Waiting /\ Buffers /\ AllIssued
      /\ KeptUntilDrain /\ Order /\ InOrderOnce
  BY DEF IInv
<1>2. /\ st[x] = "ready" /\ kont[x] = "reply"
      /\ kont' = [kont EXCEPT ![x] = "loop"]
      /\ UNCHANGED <<waiters, buf, app, pend, stash, hotswap_ready, opc, reg, dst, cn,
                     acc, hist, crashed>>
  BY DEF Reply
<1>3. /\ st \in [Tasks -> TaskState] /\ to \in [Tasks -> Tasks \cup {0}]
      /\ kont \in [Cells -> Kont] /\ acc \subseteq Requests
  BY <1>1 DEF TypeOK
<1>4. PICK u : u = Sender(x)
  OBVIOUS
<1>5. u \in Clients \cup {Orc}
  <2>1. buf[x] \in Requests \/ buf[x] = Junk
    BY <1>1, <1>2 DEF Buffers
  <2>2. buf[x] \in Requests => buf[x] # Junk /\ buf[x][1] \in Clients
    BY Message
  <2> QED BY <1>4, <2>1, <2>2 DEF Sender
<1>6. /\ kont'[x] = "loop" /\ \A y \in Cells : y # x => kont'[y] = kont[y]
      /\ kont' \in [Cells -> Kont]
  BY <1>2, <1>3 DEF Kont
<1>7. /\ st' \in [Tasks -> TaskState] /\ to' \in [Tasks -> Tasks \cup {0}]
      /\ \A t \in Tasks : t # x /\ t # u => st'[t] = st[t]
      /\ \A t \in Tasks : t # x => to'[t] = to[t]
      /\ st'[u] \in {"ready", st[u]} /\ (st'[u] = "send" <=> st[u] = "send")
      /\ st'[x] \in {"ready", "send"} /\ (st'[x] = "send" => to'[x] = u)
  <2>1. u \in Tasks /\ u # x
    BY <1>5, Parts
  <2>2. CASE st[u] = "recv"
    <3>1. st' = [st EXCEPT ![u] = "ready"] /\ to' = to
      BY <1>4, <2>2 DEF Reply
    <3> QED BY <1>2, <1>3, <2>1, <2>2, <3>1, Parts DEF TaskState
  <2>3. CASE st[u] # "recv"
    <3>1. st' = [st EXCEPT ![x] = "send"] /\ to' = [to EXCEPT ![x] = u]
      BY <1>4, <2>3 DEF Reply
    <3> QED BY <1>2, <1>3, <2>1, <3>1, Parts DEF TaskState
  <2> QED BY <2>2, <2>3
<1>8. /\ \A c \in Clients : /\ st'[c] \in {"ready", st[c]} /\ to'[c] = to[c]
                            /\ (st'[c] = "send" <=> st[c] = "send")
      /\ st'[Orc] \in {"ready", st[Orc]} /\ (st'[Orc] = "send" <=> st[Orc] = "send")
      /\ to'[Orc] = to[Orc] /\ st'[Child] = st[Child]
      /\ \A y \in Cells : y # x => st'[y] = st[y] /\ to'[y] = to[y]
  BY <1>5, <1>7, Parts
<1>9. TypeOK'
  BY <1>1, <1>2, <1>6, <1>7 DEF TypeOK
<1>10. st'[x] # "gone" /\ st'[x] # "frozen" /\ st'[x] # "wait" /\ st'[x] # "recv"
  BY <1>7
<1>11. Phases' /\ Alive'
  <2>1. \A y \in Cells : /\ st'[y] \in {"ready", "send", st[y]}
                         /\ (st'[y] = "gone" <=> st[y] = "gone")
                         /\ (st'[y] = "frozen" <=> st[y] = "frozen")
    BY <1>2, <1>7, <1>8, <1>10
  <2>2. st'[New] \in {"gone", "ready", "recv", "send"}
    BY <1>1, <2>1, Parts DEF Phases
  <2> QED BY <1>1, <1>2, <1>8, <2>1, <2>2, Parts, SMTT(20) DEF Phases, Alive
<1>12. Waiting'
  <2>1. \A y \in Cells : st'[y] = "gone" <=> st[y] = "gone"
    BY <1>2, <1>8, <1>10
  <2>2. \A y \in Cells : st'[y] = "send" => kont'[y] = "loop" /\ to'[y] \in Clients \cup {Orc}
    BY <1>1, <1>5, <1>6, <1>7, <1>8, SMTT(20) DEF Waiting
  <2>3. x # Old => st'[Old] = st[Old] /\ kont'[Old] = kont[Old]
    BY <1>6, <1>8, Parts
  <2>4. x = Old => st'[Old] # "wait" /\ (Old \in waiters => opc = "failed")
    BY <1>1, <1>2, <1>10 DEF Waiting
  <2>5. (st'[Old] = "wait" => st'[Child] # "gone" /\ Old \in waiters /\ kont'[Old] = "handle")
        /\ ((opc # "failed" /\ Old \in waiters /\ st'[Old] # "gone") =>
              st'[Old] \in {"wait", "frozen"} /\ kont'[Old] = "handle")
    BY <1>1, <1>8, <2>3, <2>4 DEF Waiting
  <2>6. UNCHANGED <<waiters, opc, cn>> /\ (st'[New] = "gone" <=> st[New] = "gone")
        /\ (st'[Old] = "gone" <=> st[Old] = "gone")
    BY <1>2, <2>1, Parts
  <2> QED BY <1>1, <1>8, <2>2, <2>5, <2>6, SMTT(20) DEF Waiting
<1>13. Buffers'
  BY <1>1, <1>2, <1>6, <1>8, <1>10, SMTT(20) DEF Buffers
<1>14. AllIssued' /\ InOrderOnce'
  BY <1>1, <1>2 DEF AllIssued, Issued, InOrderOnce
<1>15. Order'
  <2>1. \A y \in Cells : Handling(y)' => Handling(y)
    BY <1>2, <1>6, <1>8 DEF Handling
  <2> QED BY <1>1, <1>2, <1>8, <2>1 DEF Order, NotYet
<1>16. KeptUntilDrain'
  <2>1. buf[x] \in Requests => buf[x] \in Range(hist)
    BY <1>1, <1>2 DEF Buffers
  <2>2. \A q \in Requests : Taken(q) => Taken(q)'
    BY <1>2, <1>6, <1>8, <2>1, SMTT(20) DEF Taken
  <2> QED BY <1>1, <1>2, <1>3, <2>2 DEF KeptUntilDrain
<1> QED BY <1>9, <1>11, <1>12, <1>13, <1>14, <1>15, <1>16 DEF IInv

\* A client looks for a reply: a cell that was blocked on it goes on, or it is parked.
LEMMA ClientRecvInv == ASSUME IInv, NEW c \in Clients, ClientRecv(c) PROVE IInv'
<1>1. TypeOK /\ Phases /\ Alive /\ Waiting /\ Buffers /\ AllIssued
      /\ KeptUntilDrain /\ Order /\ InOrderOnce
  BY DEF IInv
<1>2. UNCHANGED <<waiters, kont, buf, app, pend, stash, hotswap_ready, opc, reg, dst, cn,
                  acc, hist, crashed>>
  BY DEF ClientRecv
<1>3. st \in [Tasks -> TaskState] /\ to \in [Tasks -> Tasks \cup {0}] /\ st[c] = "ready"
  BY <1>1 DEF TypeOK, ClientRecv
<1>4. /\ st' \in [Tasks -> TaskState] /\ to' \in [Tasks -> Tasks \cup {0}]
      /\ \A t \in Tasks : st'[t] = "send" => st[t] = "send" /\ to'[t] = to[t]
      /\ \A y \in Cells : st'[y] = st[y] \/ (st[y] = "send" /\ st'[y] = "ready")
      /\ \A d \in Clients : st'[d] = st[d] \/ st'[d] = "recv"
      /\ st'[Orc] = st[Orc] /\ st'[Child] = st[Child]
  <2>1. CASE \E u \in BlockedOn(c) :
                  /\ st' = Woken(u)
                  /\ to' = [t \in Tasks |-> IF Woken(u)[t] = "send" THEN to[t] ELSE 0]
    <3>0. PICK u \in BlockedOn(c) :
             /\ st' = Woken(u)
             /\ to' = [t \in Tasks |-> IF Woken(u)[t] = "send" THEN to[t] ELSE 0]
      BY <2>1
    <3>1. u \in Tasks /\ st[u] = "send" /\ to[u] = c
      BY DEF BlockedOn
    <3>2. u \in Cells
      <4>1. c # Old /\ c # New
        BY Parts
      <4>2. u # Child /\ u \notin Clients
        BY <1>1, <3>1, <4>1 DEF Phases, Waiting
      <4>3. u # Orc
        BY <1>1, <3>1, <4>1 DEF Waiting
      <4> QED BY <3>1, <4>2, <4>3, Parts
    <3>3. st'[u] = "ready" /\ (\A t \in Tasks : t # u => st'[t] = st[t])
          /\ st' \in [Tasks -> TaskState]
      BY <1>3, <3>0, <3>1 DEF Woken, TaskState
    <3>4. to' \in [Tasks -> Tasks \cup {0}] /\ \A t \in Tasks : st'[t] = "send" => to'[t] = to[t]
      BY <1>3, <3>0
    <3> QED BY <3>1, <3>2, <3>3, <3>4, Parts
  <2>2. CASE st' = [st EXCEPT ![c] = "recv"] /\ to' = to
    BY <1>3, <2>2, Parts DEF TaskState
  <2> QED BY <2>1, <2>2 DEF ClientRecv
<1>5. TypeOK'
  BY <1>1, <1>2, <1>4 DEF TypeOK
<1>6. \A y \in Cells : /\ st'[y] = "gone" <=> st[y] = "gone"
                       /\ st'[y] = "frozen" <=> st[y] = "frozen"
                       /\ st'[y] = "wait" <=> st[y] = "wait"
                       /\ st'[y] = "recv" <=> st[y] = "recv"
                       /\ st'[y] \in {"ready", st[y]}
  BY <1>4
<1>7. Phases' /\ Alive'
  <2>1. st'[New] \in {"gone", "ready", "recv", "send"}
    BY <1>1, <1>6, Parts DEF Phases
  <2>2. \A d \in Clients : st'[d] \in {"ready", "send", "recv"}
    BY <1>1, <1>4 DEF Phases
  <2> QED BY <1>1, <1>2, <1>4, <1>6, <2>1, <2>2, Parts, SMTT(20) DEF Phases, Alive
<1>8. Waiting'
  <2>1. \A y \in Cells : st'[y] = "send" => kont[y] = "loop" /\ to'[y] \in Clients \cup {Orc}
    BY <1>1, <1>4, Parts DEF Waiting
  <2>2. \A d \in Clients : st'[d] = "send" => to'[d] = Old /\ st'[Old] # "gone" /\ cn[d] > 0
    BY <1>1, <1>4, <1>6, Parts, SMTT(20) DEF Waiting
  <2>3. st'[Orc] = "send" => st[Orc] = "send" /\ to'[Orc] = to[Orc]
    BY <1>4, Parts
  <2>4. (opc # "failed" /\ Old \in waiters /\ st'[Old] # "gone") =>
              st'[Old] \in {"wait", "frozen"} /\ kont[Old] = "handle"
    BY <1>1, <1>6, Parts DEF Waiting
  <2>5. st'[Old] = "wait" => st'[Child] # "gone" /\ Old \in waiters /\ kont[Old] = "handle"
    BY <1>1, <1>4, <1>6, Parts DEF Waiting
  <2>6. (st'[New] = "gone" <=> st[New] = "gone") /\ (st'[Old] = "gone" <=> st[Old] = "gone")
    BY <1>6, Parts
  <2> QED BY <1>1, <1>2, <2>1, <2>2, <2>3, <2>4, <2>5, <2>6 DEF Waiting
<1>9. Buffers'
  BY <1>1, <1>2, <1>6 DEF Buffers
<1>10. AllIssued' /\ InOrderOnce'
  BY <1>1, <1>2 DEF AllIssued, Issued, InOrderOnce
<1>11. Order'
  <2>1. \A y \in Cells : Handling(y)' => Handling(y)
    <3> SUFFICES ASSUME NEW y \in Cells, Handling(y)' PROVE Handling(y)
      OBVIOUS
    <3>1. CASE st'[y] = st[y]
      BY <1>2, <3>1 DEF Handling
    <3>2. CASE st[y] = "send"
      BY <1>1, <1>2, <3>2 DEF Handling, Waiting
    <3> QED BY <1>4, <3>1, <3>2
  <2>2. \A d \in Clients : st'[d] = "send" => st[d] = "send"
    BY <1>4, Parts
  <2> QED BY <1>1, <1>2, <2>1, <2>2 DEF Order, NotYet
<1>12. KeptUntilDrain'
  BY <1>1, <1>2, <1>6 DEF KeptUntilDrain, Taken
<1> QED BY <1>5, <1>7, <1>8, <1>9, <1>10, <1>11, <1>12 DEF IInv

\* Nobody is blocked on the cell: it parks.
LEMMA ParkInv ==
    ASSUME IInv, NEW x \in Cells, st[x] = "ready", kont[x] = "loop",
           x = Old => pend = << >>,
           st' = [st EXCEPT ![x] = "recv"],
           kont' = [kont EXCEPT ![x] = "parked"],
           UNCHANGED <<waiters, buf, to, acc, app, pend, stash, hotswap_ready, opc, reg,
                       dst, cn, hist, crashed>>
    PROVE  IInv'
<1>1. TypeOK /\ Phases /\ Alive /\ Waiting /\ Buffers /\ AllIssued
      /\ KeptUntilDrain /\ Order /\ InOrderOnce
  BY DEF IInv
<1>2. /\ kont \in [Cells -> Kont] /\ st \in [Tasks -> TaskState]
      /\ acc \subseteq Requests /\ x \in Tasks
  BY <1>1, Parts DEF TypeOK
<1>3. /\ st'[x] = "recv" /\ \A t \in Tasks : t # x => st'[t] = st[t]
      /\ kont'[x] = "parked" /\ \A y \in Cells : y # x => kont'[y] = kont[y]
  BY <1>2
<1>4. TypeOK'
  BY <1>1, <1>2 DEF TypeOK, TaskState, Kont
<1>5. \A c \in Clients : st'[c] = st[c]
  BY <1>3, Parts
<1>6. Phases' /\ Alive'
  BY <1>1, <1>3, <1>5, Parts, SMTT(20) DEF Phases, Alive
<1>7. Waiting'
  <2>1. st'[Orc] = st[Orc] /\ st'[Child] = st[Child]
    BY <1>3, Parts
  <2>2. \A y \in Cells : /\ st'[y] = "gone" <=> st[y] = "gone"
                         /\ st'[y] \in {"wait", "send"} => st'[y] = st[y] /\ kont'[y] = kont[y]
    BY <1>3, Parts
  <2>3. (opc # "failed" /\ Old \in waiters /\ st'[Old] # "gone") =>
              st'[Old] \in {"wait", "frozen"} /\ kont'[Old] = "handle"
    BY <1>1, <1>3, Parts DEF Waiting
  <2>4. st'[Old] = "wait" => st[Child] # "gone" /\ Old \in waiters /\ kont'[Old] = "handle"
    BY <1>1, <2>2, Parts DEF Waiting
  <2>5. (st'[New] = "gone" <=> st[New] = "gone") /\ (st'[Old] = "gone" <=> st[Old] = "gone")
    BY <2>2, Parts
  <2>6. \A y \in Cells : st'[y] = "send" => kont'[y] = "loop" /\ to[y] \in Clients \cup {Orc}
    BY <1>1, <2>2, SMTT(20) DEF Waiting
  <2> QED BY <1>1, <1>5, <2>1, <2>3, <2>4, <2>5, <2>6, SMTT(20) DEF Waiting
<1>8. Buffers'
  BY <1>1, <1>3, Parts, SMTT(20) DEF Buffers
<1>9. AllIssued' /\ InOrderOnce'
  BY <1>1 DEF AllIssued, Issued, InOrderOnce
<1>10. \A y \in Cells : Handling(y)' => Handling(y)
  BY <1>3, Parts DEF Handling
<1>11. Order'
  BY <1>1, <1>5, <1>10 DEF Order, NotYet
<1>12. \A q \in Requests : Taken(q) => Taken(q)'
  BY <1>3, Parts, SMT DEF Taken
<1>13. KeptUntilDrain'
  BY <1>1, <1>2, <1>12 DEF KeptUntilDrain
<1> QED BY <1>4, <1>6, <1>7, <1>8, <1>9, <1>11, <1>13 DEF IInv

\* The message of the blocked sender t is taken and the sender is woken.
LEMMA TakeInv ==
    ASSUME IInv, NEW x \in Cells, st[x] = "ready", kont[x] = "loop",
           x = Old => pend = << >>,
           NEW t \in BlockedOn(x), Take(x, t),
           UNCHANGED <<waiters, app, pend, stash, hotswap_ready, opc, reg, dst, cn, hist,
                       crashed>>
    PROVE  IInv'
<1>0. PICK m \in Sent(t) : buf' = [buf EXCEPT ![x] = m]
  BY DEF Take
<1>1. TypeOK /\ Phases /\ Alive /\ Waiting /\ Buffers /\ AllIssued
      /\ KeptUntilDrain /\ Order /\ InOrderOnce
  BY DEF IInv
<1>2. /\ kont \in [Cells -> Kont] /\ st \in [Tasks -> TaskState]
      /\ buf \in [Cells -> Messages] /\ acc \subseteq Requests
      /\ cn \in [Clients -> 0 .. MaxReq] /\ to \in [Tasks -> Tasks \cup {0}]
  BY <1>1 DEF TypeOK
<1>3. t \in Tasks /\ st[t] = "send" /\ to[t] = x
  BY DEF BlockedOn
<1>4. t \notin Cells /\ t # Child /\ (t = Orc \/ t \in Clients)
  BY <1>1, <1>3, Parts DEF Phases, Waiting
<1>5. t \in Clients => /\ x = Old /\ cn[t] \in 1 .. MaxReq
                       /\ m = Req(t, cn[t]) /\ m \in Requests /\ m[1] = t /\ m[2] = cn[t]
  <2> SUFFICES ASSUME t \in Clients
               PROVE  /\ x = Old /\ cn[t] \in 1 .. MaxReq
                      /\ m = Req(t, cn[t]) /\ m \in Requests /\ m[1] = t /\ m[2] = cn[t]
    OBVIOUS
  <2>1. x = Old /\ cn[t] \in 1 .. MaxReq
    BY <1>1, <1>2, <1>3, DepthAssumption, SMT DEF Waiting
  <2>2. m = Req(t, cn[t])
    BY Parts DEF Sent
  <2> QED BY <2>1, <2>2, Message
<1>6. t = Orc => m \in Messages /\ m \notin Requests
  BY Message, SMT DEF Sent
<1>7. m \in Messages
  BY <1>4, <1>5, <1>6, Message
<1>8. Current({t}) \subseteq Requests /\ \A q \in Current({t}) : q = m
  BY <1>4, <1>5, Parts DEF Current
<1>9. /\ st'[t] = "ready" /\ \A u \in Tasks : u # t => st'[u] = st[u]
      /\ kont'[x] = "handle" /\ \A y \in Cells : y # x => kont'[y] = kont[y]
      /\ buf'[x] = m /\ \A y \in Cells : y # x => buf'[y] = buf[y]
      /\ \A y \in Cells : st'[y] = st[y]
      /\ acc' = acc \cup Current({t})
  BY <1>0, <1>2, <1>3, <1>4, Parts, SMTT(20) DEF Take, Woken
<1>10. \A u \in Tasks : st'[u] = "send" => st[u] = "send" /\ to'[u] = to[u] /\ u # t
  BY <1>9, <1>2, <1>3 DEF Take, Woken
<1>11. TypeOK'
  <2>1. /\ kont' \in [Cells -> Kont] /\ st' \in [Tasks -> TaskState]
        /\ buf' \in [Cells -> Messages] /\ acc' \subseteq Requests
        /\ to' \in [Tasks -> Tasks \cup {0}]
    BY <1>0, <1>2, <1>3, <1>7, <1>8 DEF Take, Woken, TaskState, Kont
  <2> QED BY <1>1, <2>1 DEF TypeOK
<1>12. st'[Child] = st[Child] /\ st'[Orc] \in {"ready", st[Orc]}
       /\ \A c \in Clients : st'[c] \in {"ready", st[c]}
  BY <1>4, <1>9, Parts
<1>13. Phases' /\ Alive'
  BY <1>1, <1>9, <1>12, Parts DEF Phases, Alive
<1>14. Waiting'
  <2>1. \A y \in Cells : st'[y] = "send" => y # x /\ st[y] = "send" /\ to'[y] = to[y]
    BY <1>9, <1>10, Parts
  <2>2. st[Old] = "wait" => Old # x
    OBVIOUS
  <2>3. (opc # "failed" /\ Old \in waiters /\ st[Old] # "gone") => Old # x
    BY <1>1 DEF Waiting
  <2>4. \A c \in Clients : st'[c] = "send" => st[c] = "send" /\ to'[c] = to[c]
    BY <1>10, Parts
  <2>5. st'[Orc] = "send" => st[Orc] = "send" /\ to'[Orc] = to[Orc]
    BY <1>10, Parts
  <2>6. \A y \in Cells : y # x => kont'[y] = kont[y]
    BY <1>9
  <2>7. st'[Old] = st[Old] /\ st'[New] = st[New]
    BY <1>9, Parts
  <2>8. \A y \in Cells : st'[y] = "send" => kont'[y] = "loop" /\ to'[y] \in Clients \cup {Orc}
    BY <1>1, <2>1, <2>6 DEF Waiting
  <2>9. st'[Old] = "wait" => st[Child] # "gone" /\ Old \in waiters /\ kont'[Old] = "handle"
    BY <1>1, <2>2, <2>6, <2>7, Parts DEF Waiting
  <2>10. (opc # "failed" /\ Old \in waiters /\ st'[Old] # "gone") =>
              st'[Old] \in {"wait", "frozen"} /\ kont'[Old] = "handle"
    BY <1>1, <2>3, <2>6, <2>7, Parts DEF Waiting
  <2> QED BY <1>1, <1>12, <2>4, <2>5, <2>7, <2>8, <2>9, <2>10, SMTT(20) DEF Waiting
<1>15. Buffers'
  <2>1. m \in Requests => x = Old
    BY <1>4, <1>5, <1>6
  <2> QED BY <1>1, <1>9, <2>1, Parts, SMTT(20) DEF Buffers
<1>16. AllIssued' /\ InOrderOnce'
  <2>1. m \in Requests => m[2] <= cn[m[1]]
    BY <1>4, <1>5, <1>6, DepthAssumption, SMT
  <2> QED BY <1>1, <1>9, <2>1, SMTT(20) DEF AllIssued, Issued, InOrderOnce
<1>17. Order'
  <2> SUFFICES ASSUME opc # "failed" PROVE Order'
    BY DEF Order
  <2>1. \A y \in Cells : Handling(y)' => \/ (y # x /\ Handling(y) /\ buf'[y] = buf[y])
                                         \/ (y = x /\ t \in Clients /\ buf'[y] = m)
    BY <1>4, <1>6, <1>9 DEF Handling
  <2>2. t \in Clients => NotYet(m) /\ DOMAIN pend = {}
    <3>1. t \in Clients => DOMAIN pend = {}
      BY <1>1, <1>5, Elements DEF TypeOK
    <3> QED BY <1>1, <1>3, <1>5, <3>1 DEF Order
  <2>3. \A y \in Cells : Handling(y)' => NotYet(buf[y])'
    BY <1>1, <2>1, <2>2 DEF Order, NotYet
  <2>4. \A y \in Cells : Handling(y)' => \A j \in DOMAIN pend : Before(buf'[y], pend[j])
    BY <1>1, <2>1, <2>2 DEF Order
  <2>5. ASSUME NEW c \in Clients, st'[c] = "send"
        PROVE  /\ NotYet(Req(c, cn[c]))'
               /\ \A j \in DOMAIN pend : Before(pend[j], Req(c, cn[c]))
               /\ c # t /\ st[c] = "send"
    <3>1. st[c] = "send" /\ c # t
      BY <1>10, <2>5, Parts
    <3>2. NotYet(Req(c, cn[c])) /\ \A j \in DOMAIN pend : Before(pend[j], Req(c, cn[c]))
      BY <1>1, <3>1 DEF Order
    <3> QED BY <3>1, <3>2 DEF NotYet
  <2>6. ASSUME NEW c \in Clients, NEW y \in Cells, st'[c] = "send", Handling(y)'
        PROVE  Before(buf'[y], Req(c, cn[c]))
    <3>1. st[c] = "send" /\ c # t /\ cn[c] \in 1 .. MaxReq
      BY <1>1, <1>2, <2>5, <2>6, DepthAssumption, SMT DEF Waiting
    <3>2. CASE Handling(y) /\ buf'[y] = buf[y]
      BY <1>1, <3>1, <3>2 DEF Order
    <3>3. CASE t \in Clients /\ buf'[y] = m
      BY <1>5, <3>1, <3>3, Message, SMTT(20) DEF Before
    <3> QED BY <2>1, <2>6, <3>2, <3>3
  <2>7. \A j \in DOMAIN pend : NotYet(pend[j])'
    BY <1>1 DEF Order, NotYet
  <2> QED BY <1>1, <2>3, <2>4, <2>5, <2>6, <2>7 DEF Order
<1>18. KeptUntilDrain'
  <2>1. \A q \in Requests : Taken(q) => Taken(q)'
    <3> TAKE q \in Requests
    <3>1. CASE q \in Range(hist)
      BY <3>1 DEF Taken
    <3>2. ASSUME NEW y \in Cells, buf[y] = q, kont[y] # "loop", st[y] # "gone"
          PROVE  Taken(q)'
      BY <1>9, <3>2 DEF Taken
    <3> QED BY <3>1, <3>2 DEF Taken
  <2>2. \A q \in Current({t}) : Taken(q)'
    BY <1>8, <1>9 DEF Taken
  <2> QED BY <1>1, <1>2, <1>9, <2>1, <2>2 DEF KeptUntilDrain
<1> QED BY <1>11, <1>13, <1>14, <1>15, <1>16, <1>17, <1>18 DEF IInv

\* Without its head the queue has the others, in their order.
LEMMA Shorter ==
    ASSUME pend \in Seq(Requests), pend # << >>, pend' = Tail(pend)
    PROVE  /\ pend' \in Seq(Requests) /\ Len(pend') = Len(pend) - 1 /\ Len(pend) \in Nat
           /\ \A k \in DOMAIN pend' : /\ k \in Int /\ k + 1 \in DOMAIN pend
                                      /\ pend'[k] = pend[k + 1] /\ 1 < k + 1
           /\ \A k \in DOMAIN pend : k # 1 => \E j \in DOMAIN pend' : pend'[j] = pend[k]
           /\ Head(pend) = pend[1] /\ 1 \in DOMAIN pend /\ pend[1] \in Requests
<1>1. /\ pend' \in Seq(Requests) /\ Len(pend') = Len(pend) - 1 /\ Len(pend) \in Nat
      /\ DOMAIN pend' = 1 .. Len(pend) - 1 /\ DOMAIN pend = 1 .. Len(pend)
      /\ Head(pend) = pend[1] /\ 1 \in DOMAIN pend /\ pend[1] \in Requests
  BY SMT
<1>2. \A k \in 1 .. Len(pend) - 1 : pend'[k] = pend[k + 1]
  BY SMT
<1>3. \A k \in DOMAIN pend' : /\ k \in Int /\ k + 1 \in DOMAIN pend
                              /\ pend'[k] = pend[k + 1] /\ 1 < k + 1
  BY <1>1, <1>2, SMT
<1>4. ASSUME NEW k \in DOMAIN pend, k # 1 PROVE \E j \in DOMAIN pend' : pend'[j] = pend[k]
  <2>1. k - 1 \in DOMAIN pend' /\ (k - 1) + 1 = k
    BY <1>1, <1>4, SMT
  <2> QED BY <1>3, <2>1
<1> QED BY <1>1, <1>3, <1>4

\* The first message that was queued while the cell was Frozen is taken.
LEMMA DrainInv ==
    ASSUME IInv, st[Old] = "ready", kont[Old] = "loop", pend # << >>,
           buf' = [buf EXCEPT ![Old] = Head(pend)],
           pend' = Tail(pend),
           kont' = [kont EXCEPT ![Old] = "handle"],
           UNCHANGED <<st, to, acc, waiters, app, stash, hotswap_ready, opc, reg, dst, cn,
                       hist, crashed>>
    PROVE  IInv'
<1>1. TypeOK /\ Phases /\ Alive /\ Waiting /\ Buffers /\ AllIssued
      /\ KeptUntilDrain /\ Order /\ InOrderOnce
  BY DEF IInv
<1>2. /\ kont \in [Cells -> Kont] /\ buf \in [Cells -> Messages] /\ acc \subseteq Requests
      /\ pend \in Seq(Requests) /\ Len(pend) <= DEPTH
  BY <1>1 DEF TypeOK
<1>3. /\ pend' \in Seq(Requests) /\ Len(pend') = Len(pend) - 1 /\ Len(pend) \in Nat
      /\ \A k \in DOMAIN pend' : /\ k \in Int /\ k + 1 \in DOMAIN pend
                                 /\ pend'[k] = pend[k + 1] /\ 1 < k + 1
      /\ \A k \in DOMAIN pend : k # 1 => \E j \in DOMAIN pend' : pend'[j] = pend[k]
      /\ Head(pend) = pend[1] /\ 1 \in DOMAIN pend /\ pend[1] \in Requests
  BY <1>2, Shorter
<1>4. /\ kont' \in [Cells -> Kont] /\ buf' \in [Cells -> Messages]
      /\ kont'[Old] = "handle" /\ kont'[New] = kont[New]
      /\ buf'[Old] = pend[1] /\ buf'[New] = buf[New]
  <2>1. Head(pend) \in Messages /\ Head(pend) = pend[1]
    BY <1>3, Message, SMTT(20)
  <2>2. kont' \in [Cells -> Kont] /\ kont'[Old] = "handle" /\ kont'[New] = kont[New]
    BY <1>2, Parts DEF Kont
  <2>3. /\ buf' \in [Cells -> Messages]
        /\ buf'[Old] = Head(pend) /\ buf'[New] = buf[New]
    BY <1>2, <2>1, Parts
  <2> QED BY <2>1, <2>2, <2>3
<1>5. TypeOK'
  <2>1. Len(pend') <= DEPTH
    BY <1>2, <1>3, DepthAssumption, SMT
  <2> QED BY <1>1, <1>3, <1>4, <2>1 DEF TypeOK
<1>6. opc \notin {"idle", "stash", "failed", "done"}
  BY <1>1 DEF Phases
<1>7. Phases' /\ Alive'
  BY <1>1, <1>6 DEF Phases, Alive
<1>8. Waiting'
  <2>1. \A y \in Cells : st[y] = "send" => kont'[y] = "loop" /\ to[y] \in Clients \cup {Orc}
    BY <1>1, <1>4, Parts DEF Waiting
  <2> QED BY <1>1, <2>1 DEF Waiting
<1>9. Buffers'
  BY <1>1, <1>4, Parts, SMTT(20) DEF Buffers
<1>10. AllIssued' /\ InOrderOnce'
  <2>1. \A j \in DOMAIN pend' : Issued(pend[j])'
    BY <1>1, <1>3, SMTT(20) DEF AllIssued, Issued
  <2>2. \A y \in Cells : buf'[y] \in Requests => Issued(buf[y])'
    BY <1>1, <1>3, <1>4, Parts, SMTT(20) DEF AllIssued, Issued
  <2> QED BY <1>1, <2>1, <2>2 DEF AllIssued, Issued, InOrderOnce
<1>11. Order'
  <2>1. \A y \in Cells : Handling(y)' => y = Old /\ buf'[y] = pend[1]
    BY <1>1, <1>4, <1>6, Parts DEF Handling, Buffers
  <2>2. \A y \in Cells : Handling(y)' => NotYet(buf[y])'
    BY <1>1, <1>3, <1>6, <2>1 DEF Order, NotYet
  <2>3. \A j \in DOMAIN pend' : NotYet(pend[j])'
    BY <1>1, <1>3, <1>6 DEF Order, NotYet
  <2>4. \A c \in Clients : st[c] = "send" => NotYet(Req(c, cn[c]))'
    BY <1>1, <1>6 DEF Order, NotYet
  <2>5. \A j \in DOMAIN pend' : Before(pend[1], pend'[j])
    BY <1>1, <1>3, <1>6 DEF Order
  <2>6. ASSUME NEW j \in DOMAIN pend', NEW k \in DOMAIN pend', j < k
        PROVE  Before(pend'[j], pend'[k])
    <3>1. j + 1 < k + 1
      BY <1>3, <2>6, SMT
    <3> QED BY <1>1, <1>3, <1>6, <3>1, SMTT(20) DEF Order
  <2>7. \A c \in Clients : st[c] = "send" => \A j \in DOMAIN pend : Before(pend[j], Req(c, cn[c]))
    BY <1>1, <1>6 DEF Order
  <2>8. \A c \in Clients : st[c] = "send" =>
           /\ Before(pend[1], Req(c, cn[c]))
           /\ \A j \in DOMAIN pend' : Before(pend'[j], Req(c, cn[c]))
    BY <1>3, <2>7
  <2> QED BY <2>1, <2>2, <2>3, <2>4, <2>5, <2>6, <2>8 DEF Order
<1>12. KeptUntilDrain'
  <2>1. \A q \in Requests : Taken(q) => Taken(q)'
    BY <1>4, Parts, SMT DEF Taken
  <2>2. \A q \in Range(pend) : q \in Range(pend') \/ q = pend[1]
    <3> TAKE q \in Range(pend)
    <3>1. PICK k \in DOMAIN pend : q = pend[k]
      BY DEF Range
    <3>2. CASE k = 1
      BY <3>1, <3>2
    <3>3. CASE k # 1
      <4>1. PICK j \in DOMAIN pend' : pend'[j] = pend[k]
        BY <1>3, <3>3
      <4> QED BY <3>1, <4>1 DEF Range
    <3> QED BY <3>2, <3>3
  <2>3. \A q \in Requests : q = pend[1] => Taken(q)'
    BY <1>4, Parts DEF Taken
  <2> QED BY <1>1, <1>2, <2>1, <2>2, <2>3 DEF KeptUntilDrain
<1> QED BY <1>5, <1>7, <1>8, <1>9, <1>10, <1>11, <1>12 DEF IInv

LEMMA RecvInv == ASSUME IInv, NEW x \in Cells, Recv(x) PROVE IInv'
<1>1. /\ st[x] = "ready" /\ kont[x] = "loop"
      /\ UNCHANGED <<waiters, app, stash, hotswap_ready, opc, reg, dst, cn, hist, crashed>>
  BY DEF Recv
<1>2. CASE x = Old /\ pend # << >>
  BY <1>1, <1>2, DrainInv DEF Recv
<1>3. CASE ~ (x = Old /\ pend # << >>)
  <2>1. Receive(x) /\ pend' = pend /\ (x = Old => pend = << >>)
    BY <1>3 DEF Recv
  <2>2. CASE BlockedOn(x) # {}
    <3>1. PICK t \in BlockedOn(x) : Take(x, t)
      BY <2>1, <2>2 DEF Receive
    <3> QED BY <1>1, <2>1, <3>1, TakeInv
  <2>3. CASE BlockedOn(x) = {}
    BY <1>1, <2>1, <2>3, ParkInv DEF Receive
  <2> QED BY <2>2, <2>3
<1> QED BY <1>2, <1>3

\* The client that is refused forgets its cache and nothing else changes.
LEMMA ForgetInv ==
    ASSUME IInv, NEW c \in Clients, Forget(c),
           UNCHANGED <<waiters, kont, app, stash, hotswap_ready, opc, reg, hist, crashed>>
    PROVE  IInv'
<1>1. TypeOK /\ Phases /\ Alive /\ Waiting /\ Buffers /\ AllIssued
      /\ KeptUntilDrain /\ Order /\ InOrderOnce
  BY DEF IInv
<1>2. UNCHANGED <<st, to, buf, pend, cn, acc>>
  BY DEF Forget
<1>3. /\ dst' \in [Clients -> Cells \cup {0}]
      /\ \A d \in Clients : dst'[d] \in {0, dst[d]}
  BY <1>1 DEF TypeOK, Forget
<1>4. TypeOK'
  BY <1>1, <1>2, <1>3 DEF TypeOK
<1>5. Phases' /\ Alive' /\ Waiting'
  BY <1>1, <1>2, <1>3, SMTT(20) DEF Phases, Alive, Waiting
<1>6. Buffers' /\ AllIssued' /\ InOrderOnce'
  BY <1>1, <1>2 DEF Buffers, AllIssued, Issued, InOrderOnce
<1>7. Order'
  BY <1>1, <1>2 DEF Order, NotYet, Handling
<1>8. KeptUntilDrain'
  BY <1>1, <1>2 DEF KeptUntilDrain, Taken
<1> QED BY <1>4, <1>5, <1>6, <1>7, <1>8 DEF IInv

\* The next request of a client: nothing of that client is as late.
LEMMA NextRequest ==
    ASSUME IInv, NEW c \in Clients, st[c] = "ready", cn[c] < MaxReq,
           cn' = [cn EXCEPT ![c] = @ + 1],
           NEW r, r = Req(c, cn[c] + 1), UNCHANGED hist
    PROVE  /\ r \in Requests /\ r[1] = c /\ r[2] = cn[c] + 1
           /\ cn[c] \in Nat /\ cn'[c] = cn[c] + 1 /\ cn' \in [Clients -> 0 .. MaxReq]
           /\ \A d \in Clients : d # c => cn'[d] = cn[d]
           /\ NotYet(r)'
           /\ \A q \in Requests : Issued(q) => Issued(q)' /\ q[2] \in Int
           /\ \A q \in Requests : Issued(q) => Before(q, r)
           /\ Issued(r)'
           /\ \A j \in DOMAIN hist : hist[j] \in Requests
<1>1. TypeOK /\ AllIssued
  BY DEF IInv
<1>2. cn \in [Clients -> 0 .. MaxReq] /\ hist \in Seq(Requests)
  BY <1>1 DEF TypeOK
<1>3. /\ cn[c] \in Nat /\ cn'[c] = cn[c] + 1 /\ cn[c] + 1 \in 1 .. MaxReq
      /\ cn' \in [Clients -> 0 .. MaxReq]
      /\ \A d \in Clients : d # c => cn'[d] = cn[d]
  BY <1>2, DepthAssumption, SMT
<1>4. r \in Requests /\ r[1] = c /\ r[2] = cn[c] + 1
  BY <1>3, Message, SMT
<1>5. \A q \in Requests : q[1] \in Clients /\ q[2] \in Int
  BY Message, SMT
<1>6. \A q \in Requests : Issued(q) => Issued(q)'
  BY <1>2, <1>3, <1>5, SMT DEF Issued
<1>7. \A q \in Requests : Issued(q) => Before(q, r)
  BY <1>3, <1>4, <1>5, SMT DEF Issued, Before
<1>8. \A j \in DOMAIN hist : hist[j] \in Requests
  BY <1>2, Elements
<1>9. NotYet(r)'
  BY <1>1, <1>7, <1>8 DEF NotYet, AllIssued
<1>10. Issued(r)'
  BY <1>3, <1>4, SMT DEF Issued
<1> QED BY <1>3, <1>4, <1>5, <1>6, <1>7, <1>8, <1>9, <1>10

\* The old cell is Frozen and its queue has room.
LEMMA QueuedInv ==
    ASSUME IInv, NEW c \in Clients, st[c] = "ready", cn[c] < MaxReq,
           NEW r, r = Req(c, cn[c] + 1), Queue(c, Old, r), Len(pend) < DEPTH,
           UNCHANGED <<waiters, kont, app, stash, hotswap_ready, opc, reg, hist, crashed>>
    PROVE  IInv'
<1>1. TypeOK /\ Phases /\ Alive /\ Waiting /\ Buffers /\ AllIssued
      /\ KeptUntilDrain /\ Order /\ InOrderOnce
  BY DEF IInv
<1>2. /\ pend \in Seq(Requests) /\ Len(pend) \in Nat /\ DOMAIN pend = 1 .. Len(pend)
      /\ \A j \in DOMAIN pend : pend[j] \in Requests
  BY <1>1, Elements DEF TypeOK
<1>3. /\ st[Old] = "frozen" /\ acc' = acc \cup {r}
      /\ UNCHANGED <<dst, st, to, buf>>
      /\ pend' = Append(pend, r) /\ cn' = [cn EXCEPT ![c] = @ + 1]
  BY <1>2, DepthAssumption, SMT DEF Queue
<1>4. /\ r \in Requests /\ cn[c] \in Nat /\ cn'[c] = cn[c] + 1
      /\ cn' \in [Clients -> 0 .. MaxReq]
      /\ \A d \in Clients : d # c => cn'[d] = cn[d]
      /\ NotYet(r)' /\ Issued(r)'
      /\ \A q \in Requests : Issued(q) => Issued(q)' /\ q[2] \in Int
      /\ \A q \in Requests : Issued(q) => Before(q, r)
      /\ r[1] = c /\ r[2] = cn[c] + 1
      /\ \A j \in DOMAIN hist : hist[j] \in Requests
  BY <1>3, NextRequest
<1>5. /\ pend' \in Seq(Requests) /\ Len(pend') = Len(pend) + 1
      /\ DOMAIN pend' = 1 .. Len(pend) + 1
      /\ \A j \in 1 .. Len(pend) : pend'[j] = pend[j]
      /\ pend'[Len(pend) + 1] = r
  BY <1>2, <1>3, <1>4, Longer, SMTT(20)
<1>6. \A j \in DOMAIN pend' : \/ j \in DOMAIN pend /\ pend'[j] = pend[j]
                              \/ j = Len(pend) + 1 /\ pend'[j] = r
  BY <1>2, <1>5, SMT
<1>7. TypeOK'
  <2>1. Len(pend') <= DEPTH
    BY <1>2, <1>5, DepthAssumption, SMT
  <2>2. acc' \subseteq Requests
    BY <1>1, <1>3, <1>4 DEF TypeOK
  <2> QED BY <1>1, <1>3, <1>4, <1>5, <2>1, <2>2 DEF TypeOK
<1>8. Phases' /\ Alive' /\ Buffers' /\ InOrderOnce'
  BY <1>1, <1>3 DEF Phases, Alive, Buffers, InOrderOnce
<1>9. Waiting'
  BY <1>1, <1>3, <1>4 DEF Waiting
<1>10. AllIssued'
  <2>1. \A j \in DOMAIN pend' : Issued(pend[j])'
    BY <1>1, <1>2, <1>4, <1>6 DEF AllIssued, Issued
  <2>2. \A x \in Cells : buf[x] \in Requests => Issued(buf[x])'
    BY <1>1, <1>3, <1>4 DEF AllIssued, Issued
  <2>3. \A j \in DOMAIN hist : Issued(hist[j])'
    BY <1>1, <1>4 DEF AllIssued, Issued
  <2> QED BY <1>3, <2>1, <2>2, <2>3 DEF AllIssued
<1>11. Order'
  <2> SUFFICES ASSUME opc # "failed" PROVE Order'
    BY DEF Order
  <2>1. \A j \in DOMAIN pend' : NotYet(pend[j])'
    BY <1>1, <1>4, <1>6 DEF Order, NotYet
  <2>2. \A y \in Cells : Handling(y)' <=> Handling(y)
    BY <1>3 DEF Handling
  <2>3. \A y \in Cells : Handling(y) =>
           /\ NotYet(buf[y])'
           /\ \A j \in DOMAIN pend' : Before(buf[y], pend'[j])
    <3>1. \A y \in Cells : Handling(y) => Before(buf[y], r)
      BY <1>1, <1>4 DEF Handling, AllIssued
    <3> QED BY <1>1, <1>3, <1>6, <3>1, SMTT(20) DEF Order, NotYet
  <2>4. ASSUME NEW j \in DOMAIN pend', NEW k \in DOMAIN pend', j < k
        PROVE  Before(pend'[j], pend'[k])
    <3>1. j \in DOMAIN pend /\ pend'[j] = pend[j] /\ pend[j] \in Requests
      BY <1>2, <1>5, <2>4, SMT
    <3>2. Before(pend[j], r)
      BY <1>1, <1>4, <3>1 DEF AllIssued
    <3> QED BY <1>1, <1>6, <2>4, <3>1, <3>2 DEF Order
  <2>5. \A d \in Clients : st[d] = "send" =>
           d # c /\ Req(d, cn[d])' = Req(d, cn[d]) /\ Before(r, Req(d, cn[d]))
    BY <1>4 DEF Req, Before
  <2>6. ASSUME NEW d \in Clients, st[d] = "send"
        PROVE  /\ NotYet(Req(d, cn[d]))'
               /\ \A x \in Cells : Handling(x) => Before(buf[x], Req(d, cn[d]))
               /\ \A j \in DOMAIN pend' : Before(pend'[j], Req(d, cn[d]))
    <3>1. Req(d, cn[d])' = Req(d, cn[d]) /\ Before(r, Req(d, cn[d]))
      BY <2>5, <2>6
    <3>2. /\ NotYet(Req(d, cn[d]))
          /\ \A x \in Cells : Handling(x) => Before(buf[x], Req(d, cn[d]))
          /\ \A j \in DOMAIN pend : Before(pend[j], Req(d, cn[d]))
      BY <1>1, <2>6 DEF Order
    <3> QED BY <1>6, <3>1, <3>2 DEF NotYet
  <2>7. \A d \in Clients : st[d] = "send" => Req(d, cn[d])' = Req(d, cn[d])
    BY <2>5
  <2> QED BY <1>3, <2>1, <2>2, <2>3, <2>4, <2>6, <2>7 DEF Order
<1>12. KeptUntilDrain'
  <2>1. \A q : q \in Range(pend) => q \in Range(pend')
    BY <1>2, <1>5, SMT DEF Range
  <2>2. r \in Range(pend')
    BY <1>2, <1>5, SMT DEF Range
  <2>3. \A q \in acc' : q \in acc \/ q = r
    BY <1>3
  <2> QED BY <1>1, <1>3, <2>1, <2>2, <2>3 DEF KeptUntilDrain, Taken
<1> QED BY <1>7, <1>8, <1>9, <1>10, <1>11, <1>12 DEF IInv

\* The old cell waits in Recv: the message is delivered.
LEMMA DeliveredInv ==
    ASSUME IInv, NEW c \in Clients, st[c] = "ready", cn[c] < MaxReq,
           NEW r, r = Req(c, cn[c] + 1), Deliver(c, Old, r),
           UNCHANGED <<waiters, kont, app, stash, hotswap_ready, opc, reg, hist, crashed>>
    PROVE  IInv'
<1>1. TypeOK /\ Phases /\ Alive /\ Waiting /\ Buffers /\ AllIssued
      /\ KeptUntilDrain /\ Order /\ InOrderOnce
  BY DEF IInv
<1>2. /\ cn' = [cn EXCEPT ![c] = @ + 1] /\ acc' = acc \cup {r}
      /\ st[Old] = "recv" /\ UNCHANGED <<to, pend>>
  BY DEF Deliver
<1>3. /\ r \in Requests /\ cn[c] \in Nat /\ cn'[c] = cn[c] + 1
      /\ cn' \in [Clients -> 0 .. MaxReq]
      /\ \A d \in Clients : d # c => cn'[d] = cn[d]
      /\ NotYet(r)' /\ Issued(r)'
      /\ \A q \in Requests : Issued(q) => Issued(q)' /\ q[2] \in Int
      /\ r[1] = c /\ r[2] = cn[c] + 1
      /\ \A j \in DOMAIN hist : hist[j] \in Requests
  BY <1>2, NextRequest
<1>4. /\ st \in [Tasks -> TaskState]
      /\ buf \in [Cells -> Messages] /\ dst \in [Clients -> Cells \cup {0}]
      /\ acc \subseteq Requests
  BY <1>1 DEF TypeOK
<1>5. /\ st'[Old] = "ready" /\ \A t \in Tasks : t # Old => st'[t] = st[t]
      /\ \A d \in Clients : st'[d] = st[d]
      /\ st'[New] = st[New] /\ st'[Orc] = st[Orc] /\ st'[Child] = st[Child]
      /\ st' \in [Tasks -> TaskState]
  BY <1>4, Parts DEF Deliver, TaskState
<1>6. /\ buf'[Old] = r /\ buf'[New] = buf[New] /\ buf' \in [Cells -> Messages]
  BY <1>3, <1>4, Parts, Message, SMT DEF Deliver
<1>7. /\ \A d \in Clients : dst'[d] \in {Old, dst[d]}
      /\ dst' \in [Clients -> Cells \cup {0}]
  BY <1>4, Parts DEF Deliver
<1>8. pend = << >> /\ DOMAIN pend = {} /\ opc # "done" /\ kont[Old] = "parked"
  BY <1>1, <1>2, Parts, Elements DEF Phases, TypeOK, Buffers
<1>9. TypeOK'
  <2>1. acc' \subseteq Requests
    BY <1>2, <1>3, <1>4
  <2> QED BY <1>1, <1>2, <1>3, <1>5, <1>6, <1>7, <2>1 DEF TypeOK
<1>10. Phases' /\ Alive'
  <2>1. \A d \in Clients : dst'[d] \in {Old, 0}
    BY <1>1, <1>7 DEF Phases
  <2> QED BY <1>1, <1>2, <1>5, <1>8, <2>1 DEF Phases, Alive
<1>11. Waiting'
  <2>1. \A d \in Clients : st'[d] = "send" => to[d] = Old /\ cn'[d] > 0
    BY <1>1, <1>3, <1>5, SMTT(20) DEF Waiting
  <2>2. Old \in waiters => opc = "failed"
    BY <1>1, <1>2 DEF Waiting
  <2>3. \A y \in Cells : st'[y] = "send" => kont[y] = "loop" /\ to[y] \in Clients \cup {Orc}
    BY <1>1, <1>5, Parts DEF Waiting
  <2> QED BY <1>1, <1>2, <1>5, <2>1, <2>2, <2>3 DEF Waiting
<1>12. Buffers'
  BY <1>1, <1>5, <1>6, <1>8, Parts DEF Buffers
<1>13. AllIssued' /\ InOrderOnce'
  <2>1. \A x \in Cells : buf'[x] \in Requests => Issued(buf[x])'
    <3>1. Issued(buf[Old])'
      BY <1>3, <1>6 DEF Issued
    <3>2. buf'[New] \in Requests => Issued(buf[New])'
      BY <1>1, <1>3, <1>6, Parts DEF AllIssued, Issued
    <3> QED BY <3>1, <3>2, Parts
  <2>2. \A j \in DOMAIN hist : Issued(hist[j])'
    BY <1>1, <1>3 DEF AllIssued, Issued
  <2>3. InOrderOnce'
    BY <1>1 DEF InOrderOnce
  <2> QED BY <1>2, <1>8, <2>1, <2>2, <2>3 DEF AllIssued
<1>14. Order'
  <2> SUFFICES ASSUME opc # "failed" PROVE Order'
    BY DEF Order
  <2>1. ~ Handling(New)'
    BY <1>1, <1>6, <1>8 DEF Handling, Buffers
  <2>2. \A x \in Cells : Handling(x)' => x = Old /\ buf'[x] = r
    BY <1>6, <2>1, Parts
  <2>3. \A x \in Cells : Handling(x)' => NotYet(buf[x])'
    BY <1>3, <2>2 DEF NotYet
  <2>4. ASSUME NEW d \in Clients, st'[d] = "send"
        PROVE  /\ NotYet(Req(d, cn[d]))'
               /\ \A x \in Cells : Handling(x)' => Before(buf[x], Req(d, cn[d]))'
    <3>1. st[d] = "send" /\ d # c
      BY <1>5, <2>4
    <3>2. Req(d, cn[d])' = Req(d, cn[d]) /\ Req(d, cn[d])[1] = d
      BY <1>3, <3>1, SMT DEF Req
    <3>3. NotYet(Req(d, cn[d]))'
      BY <1>1, <3>1, <3>2 DEF Order, NotYet
    <3> QED BY <1>3, <2>2, <3>1, <3>2, <3>3 DEF Before
  <2> QED BY <1>2, <1>8, <2>3, <2>4 DEF Order
<1>15. KeptUntilDrain'
  <2>1. \A q \in Requests : Taken(q) => Taken(q)'
    BY <1>1, <1>2, <1>5, <1>6, Parts, SMT DEF Taken, Buffers
  <2>2. Taken(r)'
    BY <1>5, <1>6, <1>8, Parts DEF Taken
  <2>3. \A q \in acc' : q \in acc \/ q = r
    BY <1>2
  <2> QED BY <1>1, <1>2, <1>4, <2>1, <2>2, <2>3 DEF KeptUntilDrain
<1> QED BY <1>9, <1>10, <1>11, <1>12, <1>13, <1>14, <1>15 DEF IInv

\* The old cell is doing something else: the client blocks.
LEMMA BlockInv ==
    ASSUME IInv, NEW c \in Clients, st[c] = "ready", cn[c] < MaxReq,
           Block(c, Old),
           UNCHANGED <<waiters, kont, app, stash, hotswap_ready, opc, reg, hist, crashed>>
    PROVE  IInv'
<1>0. UNCHANGED <<buf, pend, acc>> /\ st[Old] # "gone"
  BY DEF Block
<1>1. TypeOK /\ Phases /\ Alive /\ Waiting /\ Buffers /\ AllIssued
      /\ KeptUntilDrain /\ Order /\ InOrderOnce
  BY DEF IInv
<1>2. PICK r : r = Req(c, cn[c] + 1)
  OBVIOUS
<1>3. /\ r \in Requests /\ cn[c] \in Nat /\ cn'[c] = cn[c] + 1
      /\ cn' \in [Clients -> 0 .. MaxReq]
      /\ \A d \in Clients : d # c => cn'[d] = cn[d]
      /\ NotYet(r)'
      /\ \A q \in Requests : Issued(q) => Issued(q)' /\ q[2] \in Int
      /\ \A q \in Requests : Issued(q) => Before(q, r)
      /\ r[1] = c /\ r[2] = cn[c] + 1
      /\ \A j \in DOMAIN hist : hist[j] \in Requests
  BY <1>2, NextRequest DEF Block
<1>4. /\ st \in [Tasks -> TaskState]
      /\ dst \in [Clients -> Cells \cup {0}] /\ to \in [Tasks -> Tasks \cup {0}]
      /\ pend \in Seq(Requests) /\ acc \subseteq Requests
  BY <1>1 DEF TypeOK
<1>5. /\ st'[c] = "send" /\ \A t \in Tasks : t # c => st'[t] = st[t] /\ to'[t] = to[t]
      /\ to'[c] = Old
      /\ \A d \in Clients : dst'[d] \in {Old, dst[d]}
      /\ \A x \in Cells : st'[x] = st[x] /\ to'[x] = to[x]
      /\ st'[Orc] = st[Orc] /\ to'[Orc] = to[Orc] /\ st'[Child] = st[Child]
      /\ st'[Old] = st[Old] /\ st'[New] = st[New]
  BY <1>4, Parts DEF Block
<1>6. TypeOK'
  <2>1. /\ st' \in [Tasks -> TaskState]
        /\ dst' \in [Clients -> Cells \cup {0}] /\ to' \in [Tasks -> Tasks \cup {0}]
    BY <1>4, Parts DEF Block, TaskState
  <2> QED BY <1>0, <1>1, <1>3, <2>1 DEF TypeOK
<1>7. \A d \in Clients : d # c => st'[d] = st[d] /\ to'[d] = to[d]
  BY <1>5, Parts
<1>8. Phases' /\ Alive'
  <2>1. \A d \in Clients : dst'[d] \in {Old, 0} /\ st'[d] \in {"ready", "send", "recv"}
    BY <1>1, <1>5, <1>7 DEF Phases
  <2> QED BY <1>0, <1>1, <1>5, <2>1 DEF Phases, Alive
<1>9. Waiting'
  <2>1. \A d \in Clients : st'[d] = "send" => to'[d] = Old /\ cn'[d] > 0
    BY <1>1, <1>3, <1>5, <1>7, SMTT(20) DEF Waiting
  <2> QED BY <1>0, <1>1, <1>5, <2>1, SMTT(20) DEF Waiting
<1>10. Buffers' /\ InOrderOnce'
  BY <1>0, <1>1, <1>5, SMTT(20) DEF Buffers, InOrderOnce
<1>11. \A j \in DOMAIN pend : pend[j] \in Requests
  BY <1>4, Elements
<1>12. AllIssued'
  <2>1. \A j \in DOMAIN pend : Issued(pend[j])'
    BY <1>0, <1>1, <1>3, <1>11 DEF AllIssued, Issued
  <2>2. \A j \in DOMAIN hist : Issued(hist[j])'
    BY <1>1, <1>3 DEF AllIssued, Issued
  <2>3. \A x \in Cells : buf[x] \in Requests => Issued(buf[x])'
    BY <1>0, <1>1, <1>3 DEF AllIssued, Issued
  <2> QED BY <1>0, <2>1, <2>2, <2>3 DEF AllIssued
<1>13. Order'
  <2> SUFFICES ASSUME opc # "failed" PROVE Order'
    BY DEF Order
  <2>1. \A x \in Cells : Handling(x)' <=> Handling(x)
    BY <1>0, <1>5 DEF Handling
  <2>2. /\ \A x \in Cells : Handling(x)' => NotYet(buf[x])'
        /\ \A x \in Cells : Handling(x)' => \A j \in DOMAIN pend : Before(buf[x], pend[j])
        /\ \A j \in DOMAIN pend : NotYet(pend[j])'
        /\ \A j, k \in DOMAIN pend : j < k => Before(pend[j], pend[k])
    BY <1>0, <1>1, <2>1 DEF Order, NotYet
  <2>3. Req(c, cn[c])' = r
    BY <1>2, <1>3 DEF Req
  <2>4. ASSUME NEW d \in Clients, st'[d] = "send"
        PROVE  /\ NotYet(Req(d, cn[d]))'
               /\ \A x \in Cells : Handling(x)' => Before(buf[x], Req(d, cn[d])')
               /\ \A j \in DOMAIN pend : Before(pend[j], Req(d, cn[d])')
    <3>1. CASE d = c
      <4>1. Req(d, cn[d])' = r
        BY <2>3, <3>1 DEF Req
      <4>2. \A x \in Cells : Handling(x)' => Before(buf[x], r)
        BY <1>1, <1>3, <2>1 DEF Handling, AllIssued
      <4>3. \A j \in DOMAIN pend : Before(pend[j], r)
        BY <1>1, <1>3, <1>11 DEF AllIssued
      <4> QED BY <1>3, <4>1, <4>2, <4>3 DEF NotYet
    <3>2. CASE d # c
      <4>1. st[d] = "send" /\ Req(d, cn[d])' = Req(d, cn[d])
        BY <1>3, <1>7, <2>4, <3>2 DEF Req
      <4> QED BY <1>1, <2>1, <4>1 DEF Order, NotYet
    <3> QED BY <3>1, <3>2
  <2> QED BY <1>0, <2>2, <2>4 DEF Order
<1>14. KeptUntilDrain'
  <2>1. \A q \in Requests : Taken(q) => Taken(q)'
    BY <1>0, <1>5 DEF Taken
  <2> QED BY <1>0, <1>1, <1>4, <2>1 DEF KeptUntilDrain
<1> QED BY <1>6, <1>8, <1>9, <1>10, <1>12, <1>13, <1>14 DEF IInv

LEMMA ClientSendInv == ASSUME IInv, NEW c \in Clients, ClientSend(c) PROVE IInv'
<1> DEFINE x == IF dst[c] # 0 THEN dst[c] ELSE reg
           r == Req(c, cn[c] + 1)
<1>1. /\ st[c] = "ready" /\ cn[c] < MaxReq /\ x # 0
      /\ UNCHANGED <<waiters, kont, app, stash, hotswap_ready, opc, reg, hist, crashed>>
  BY DEF ClientSend
<1>2. x = Old
  BY <1>1 DEF IInv, Phases
<1>3. \/ st[Old] = "gone" /\ Forget(c)
      \/ Queue(c, Old, r)
      \/ Deliver(c, Old, r)
      \/ Block(c, Old)
  BY <1>2 DEF ClientSend
<1> HIDE DEF x
<1>4. ASSUME Forget(c) PROVE IInv'
  BY <1>1, <1>4, ForgetInv
<1>5. CASE Queue(c, Old, r)
  <2>1. CASE Len(pend) < DEPTH
    BY <1>1, <1>5, <2>1, QueuedInv
  <2>2. CASE ~ (Len(pend) < DEPTH)
    <3>1. Forget(c)
      BY <1>5, <2>2 DEF Queue
    <3> QED BY <1>4, <3>1
  <2> QED BY <2>1, <2>2
<1>6. CASE Deliver(c, Old, r)
  BY <1>1, <1>6, DeliveredInv
<1>7. CASE Block(c, Old)
  BY <1>1, <1>7, BlockInv
<1> QED BY <1>3, <1>4, <1>5, <1>6, <1>7

LEMMA StutterInv == ASSUME IInv, UNCHANGED vars PROVE IInv'
<1>1. TypeOK /\ Phases /\ Alive /\ Waiting /\ Buffers /\ AllIssued
      /\ KeptUntilDrain /\ Order /\ InOrderOnce
  BY DEF IInv
<1>2. UNCHANGED <<st, to, waiters, kont, buf, app, pend, stash, hotswap_ready, opc, reg,
                  dst, cn, acc, hist, crashed>>
  BY DEF vars
<1>3. TypeOK'
  BY <1>1, <1>2 DEF TypeOK
<1>4. Phases' /\ Alive' /\ Waiting' /\ Buffers'
  BY <1>1, <1>2, SMTT(20) DEF Phases, Alive, Waiting, Buffers
<1>5. AllIssued' /\ InOrderOnce'
  BY <1>1, <1>2 DEF AllIssued, Issued, InOrderOnce
<1>6. Order' /\ KeptUntilDrain'
  BY <1>1, <1>2 DEF Order, NotYet, Handling, KeptUntilDrain, Taken
<1> QED BY <1>3, <1>4, <1>5, <1>6 DEF IInv

LEMMA NextInv == ASSUME IInv, [Next]_vars PROVE IInv'
<1>1. ASSUME NEW x \in Cells, CellStep(x) \/ Kill(x) PROVE IInv'
  BY <1>1, RecvInv, ResumeInv, HandleInv, ReplyInv, KillInv DEF CellStep
<1>2. ASSUME NEW c \in Clients, ClientSend(c) \/ ClientRecv(c) PROVE IInv'
  BY <1>2, ClientSendInv, ClientRecvInv
<1>3. CASE Wait \/ ChildExit
  BY <1>3, WaitInv, ChildExitInv
<1>4. CASE StartSwap \/ HeartbeatKill
  BY <1>4, StartSwapInv, HeartbeatKillInv
<1>5. CASE OrcStep
  BY <1>5, PollStashInv, FinishInv, ReadyTimeoutInv DEF OrcStep
<1>6. CASE UNCHANGED vars
  BY <1>6, StutterInv
<1> QED BY <1>1, <1>2, <1>3, <1>4, <1>5, <1>6 DEF Next

-----------------------------------------------------------------------------
\* Whatever fails and whoever is killed at any point of the five steps of hotswap(),
\* each task is where its phase allows, who is blocked is blocked on a task that is
\* there, and each request on its way is later than what its client had applied.
THEOREM Invariant == Spec => []IInv
<1>1. Init => IInv
  BY InitInv
<1>2. IInv /\ [Next]_vars => IInv'
  BY NextInv
<1> QED BY <1>1, <1>2, PTL DEF Spec

\* The two cells run side by side only where the death of its child has made the
\* Frozen old cell Ready: exit_task wakes a waiter in whatever state it is
\* (scheduler.rs:387-393).  While the child lives, from the spawn of the new cell on
\* the old one is Frozen or gone, whatever fails (hotswap.rs, steps 1b to 5).
THEOREM OnlyItsChildWakesIt == Spec => []SideBySide
<1>1. IInv => SideBySide
  BY PhasesSuffice DEF IInv
<1> QED BY <1>1, Invariant, PTL

\* Every exit of the swap, and every death, wakes who was blocked on the task that
\* ends, and once the HotSwap call is over the orchestrator is Ready.
THEOREM NobodyLeftBlocked == Spec => []NobodyStuck
<1>1. IInv => NobodyStuck
  BY PhasesSuffice DEF IInv
<1> QED BY <1>1, Invariant, PTL

\* No failure of the swap itself leaves the service without a cell: the old one is
\* Frozen only while the new one is there, and is ended only for it.
THEOREM OneCellIsLeft == Spec => []SomeoneServes
<1>1. IInv => SomeoneServes
  BY PhasesSuffice DEF IInv
<1> QED BY <1>1, Invariant, PTL

\* Until step 5 drains the queue, a request whose Send returned success has been
\* applied, is about to be, or is queued, also where the Frozen cell is woken.
THEOREM AcceptedAreKept == Spec => []KeptUntilDrain
<1>1. IInv => KeptUntilDrain
  BY DEF IInv
<1> QED BY <1>1, Invariant, PTL

\* Across the queue and the change of cells the requests of a client are applied in
\* the order it sent them and none twice, as long as the swap is not rolled back.
THEOREM AppliedInOrder == Spec => []InOrderOnce
<1>1. IInv => InOrderOnce
  BY DEF IInv
<1> QED BY <1>1, Invariant, PTL
=============================================================================
