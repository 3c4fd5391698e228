------------------------------ MODULE HotSwap ------------------------------
(***************************************************************************)
(* The live replacement of a cell (kernel/src/cell/hotswap.rs) while       *)
(* clients keep sending to it: the orchestrating task inside the HotSwap   *)
(* call, the old and the new cell in the event loop of ostd::app, the      *)
(* queue of a Frozen task and the state stash.  One swap, one hart.        *)
(*                                                                         *)
(* The orchestrator runs from one yield_cpu to the next in one action.     *)
(* Its two events are sent with send_to, which on a target that is not in  *)
(* Recv puts the orchestrator in Sending and returns; the message then is  *)
(* a buffer in a stack frame that is gone, so what the target copies is    *)
(* the event or junk.  Time is not counted: a poll that finds nothing may  *)
(* find its deadline passed.                                               *)
(*                                                                         *)
(* The state of a cell is the set of requests it has applied.  A handler   *)
(* replies to a request with a blocking Send, and the old cell's may wait  *)
(* for a child it has spawned.  A client may read replies or not.  The     *)
(* Reply call, which makes its target Ready in whatever state it is, is    *)
(* left out: no cell uses it.                                              *)
(***************************************************************************)
EXTENDS Integers, Sequences, Functions

CONSTANTS
    Old, New, Orc,  \* the tasks of the two cells and of the orchestrator
    Child,          \* a task that the old cell has spawned
    Clients,        \* the tasks of the clients
    DEPTH,          \* HOTSWAP_MSG_QUEUE_DEPTH
    MaxReq          \* bound: requests of one client

Cells == {Old, New}
Tasks == Cells \cup {Orc, Child} \cup Clients

\* the ids of tasks are positive, and no task has two of the parts
ASSUME TasksAssumption ==
    /\ Tasks \subseteq Nat \ {0}
    /\ Old # New /\ Orc \notin Cells /\ Child \notin Cells \cup {Orc}
    /\ Clients \cap (Cells \cup {Orc, Child}) = {}
ASSUME DepthAssumption == DEPTH \in Nat /\ MaxReq \in Nat

VARIABLES
    st,        \* state of a task, "gone": not in the task table
    to,        \* target of a task in Sending, 0 otherwise
    waiters,   \* of the child
    kont,      \* a cell is at the top of its loop, parked in Recv, in the handler, or
               \* about to reply
    buf,       \* recv_buf of a cell
    app,       \* the requests a cell has applied to its state
    pend,      \* pending_msgs of the old cell
    stash,     \* what is stashed under the key of the swap
    hotswap_ready,
    opc,       \* where the orchestrator is
    reg,       \* the task the service id resolves to, 0: none
    dst,       \* the task a client has cached, 0: none
    cn,        \* requests a client has issued
    acc,       \* the requests whose Send returned success
    hist,      \* the requests applied by either cell, in order
    crashed    \* a cell was killed from outside the swap

vars == <<st, to, waiters, kont, buf, app, pend, stash, hotswap_ready, opc, reg, dst, cn,
          acc, hist, crashed>>

Req(c, n) == <<c, n>>
Requests == {Req(c, n) : c \in Clients, n \in 1 .. MaxReq}
Snapshot == <<0, 1>>
Restore == <<0, 2>>
Junk == <<0, 3>>
Nothing == <<0, 0>>
Messages == Requests \cup {Snapshot, Restore, Junk, Nothing}

NoStash == [there |-> FALSE, state |-> {}]

TaskState == {"gone", "ready", "recv", "send", "wait", "frozen"}
Kont == {"loop", "parked", "handle", "reply"}

TypeOK ==
    /\ st \in [Tasks -> TaskState]
    /\ to \in [Tasks -> Tasks \cup {0}]
    /\ waiters \subseteq {Old}
    /\ kont \in [Cells -> Kont]
    /\ buf \in [Cells -> Messages]
    /\ app \in [Cells -> SUBSET Requests]
    /\ pend \in Seq(Requests) /\ Len(pend) <= DEPTH
    /\ stash \in [there : BOOLEAN, state : SUBSET Requests]
    /\ opc \in {"idle", "stash", "ready", "done", "failed", "abandoned"}
    /\ reg \in Cells \cup {0}
    /\ dst \in [Clients -> Cells \cup {0}]
    /\ cn \in [Clients -> 0 .. MaxReq]
    /\ acc \subseteq Requests /\ hist \in Seq(Requests)
    /\ hotswap_ready \in BOOLEAN /\ crashed \in BOOLEAN

Init ==
    /\ st = [t \in Tasks |-> IF t = New THEN "gone" ELSE "ready"]
    /\ to = [t \in Tasks |-> 0] /\ waiters = {}
    /\ kont = [x \in Cells |-> "loop"]
    /\ buf = [x \in Cells |-> Nothing]
    /\ app = [x \in Cells |-> {}]
    /\ pend = << >> /\ hist = << >>
    /\ stash = NoStash
    /\ hotswap_ready = FALSE /\ crashed = FALSE
    /\ opc = "idle"
    /\ reg = Old
    /\ dst = [c \in Clients |-> Old]
    /\ cn = [c \in Clients |-> 0]
    /\ acc = {}

-----------------------------------------------------------------------------
\* Pieces of the kernel

BlockedOn(x) == {t \in Tasks : st[t] = "send" /\ to[t] = x}

\* the requests of a set of clients whose Send is now over
Current(T) == {Req(c, cn[c]) : c \in T \cap Clients}

\* Mutation of exit_task: tasks blocked in Send to x are forgotten.
exit_task_silent(x, s) ==
    /\ st' = [s EXCEPT ![x] = "gone"]
    /\ reg' = IF reg = x THEN 0 ELSE reg
    /\ UNCHANGED <<to, waiters, acc>>

\* those of the waiters of x that are in the task table, in whatever state
WaitersOf(x) == IF x = Child THEN {t \in waiters : st[t] # "gone"} ELSE {}

\* exit_task(x): tasks blocked in Send to x are woken, and their Send returns 0;
\* then those that wait for x are made Ready, a Frozen one too.  s is the state
\* table before it, with what the caller has already changed
exit_task(x, s) ==
    LET W == BlockedOn(x) \cup WaitersOf(x) IN
    /\ st' = [t \in Tasks |-> IF t = x THEN "gone" ELSE IF t \in W THEN "ready" ELSE s[t]]
    /\ to' = [t \in Tasks |-> IF t \in W THEN 0 ELSE to[t]]
    /\ waiters' = IF x = Child THEN {} ELSE waiters
    /\ reg' = IF reg = x THEN 0 ELSE reg
    /\ acc' = acc \cup Current(BlockedOn(x))

-----------------------------------------------------------------------------
\* A cell in AppContext::run

\* what is copied from the buffer of a blocked sender
Sent(t) == IF t = Orc THEN {IF opc = "stash" THEN Snapshot ELSE Restore, Junk}
           ELSE {Req(t, cn[t])}

Woken(t) == [st EXCEPT ![t] = "ready"]

\* the message of the blocked sender t is copied and t is woken
Take(x, t) ==
    /\ \E m \in Sent(t) : buf' = [buf EXCEPT ![x] = m]
    /\ st' = Woken(t)
    /\ to' = [u \in Tasks |-> IF Woken(t)[u] = "send" THEN to[u] ELSE 0]
    /\ acc' = acc \cup Current({t})
    /\ kont' = [kont EXCEPT ![x] = "handle"]

\* ipc_recv
Receive(x) ==
    \/ \E t \in BlockedOn(x) : (\A u \in BlockedOn(x) : t <= u) /\ Take(x, t)
    \/ /\ BlockedOn(x) = {}
       /\ st' = [st EXCEPT ![x] = "recv"]
       /\ kont' = [kont EXCEPT ![x] = "parked"]
       /\ UNCHANGED <<buf, to, acc>>

\* Recv: the first of the messages queued while x was Frozen, else that of the
\* blocked sender with the lowest id, else x is parked
Recv(x) ==
    /\ st[x] = "ready" /\ kont[x] = "loop"
    /\ IF x = Old /\ pend # << >>
       THEN /\ buf' = [buf EXCEPT ![x] = Head(pend)]
            /\ pend' = Tail(pend)
            /\ kont' = [kont EXCEPT ![x] = "handle"]
            /\ UNCHANGED <<st, to, acc>>
       ELSE Receive(x) /\ UNCHANGED pend
    /\ UNCHANGED <<waiters, app, stash, hotswap_ready, opc, reg, dst, cn, hist, crashed>>

\* a task parked in Recv was made Ready: Recv returns and the loop handles what is
\* in recv_buf
Resume(x) ==
    /\ st[x] = "ready" /\ kont[x] = "parked"
    /\ kont' = [kont EXCEPT ![x] = "handle"]
    /\ UNCHANGED <<st, to, waiters, buf, app, pend, stash, hotswap_ready, opc, reg,
                   dst, cn, acc, hist, crashed>>

\* the handler: a request changes the state and is to be answered; Snapshot
\* stashes the state, unless the cell has no ViStateTransfer or the stash is full;
\* Restore takes it and reports ready; junk is ignored or answered, as it parses
Handle(x) ==
    /\ st[x] = "ready" /\ kont[x] = "handle"
    /\ \/ /\ buf[x] \in Requests
          /\ app' = [app EXCEPT ![x] = @ \cup {buf[x]}]
          /\ hist' = Append(hist, buf[x])
          /\ kont' = [kont EXCEPT ![x] = "reply"]
          /\ UNCHANGED <<stash, hotswap_ready>>
       \/ /\ buf[x] = Snapshot
          /\ stash' \in {stash, [there |-> TRUE, state |-> app[x]]}
          /\ kont' = [kont EXCEPT ![x] = "loop"]
          /\ UNCHANGED <<app, hist, hotswap_ready>>
       \/ /\ buf[x] = Restore
          /\ app' = IF stash.there THEN [app EXCEPT ![x] = stash.state] ELSE app
          /\ stash' = NoStash
          /\ hotswap_ready' = TRUE
          /\ kont' = [kont EXCEPT ![x] = "loop"]
          /\ UNCHANGED hist
       \/ /\ buf[x] \in {Junk, Nothing}
          /\ \E k \in {"loop"} \cup (IF buf[x] = Junk THEN {"reply"} ELSE {}) :
                kont' = [kont EXCEPT ![x] = k]
          /\ UNCHANGED <<app, hist, stash, hotswap_ready>>
    /\ UNCHANGED <<st, to, waiters, buf, pend, opc, reg, dst, cn, acc, crashed>>

\* the sender of what is in recv_buf
Sender(x) == IF buf[x] = Junk THEN Orc ELSE buf[x][1]

\* ctx.send to the sender: it is in Recv, or x blocks until it is
Reply(x) ==
    /\ st[x] = "ready" /\ kont[x] = "reply"
    /\ kont' = [kont EXCEPT ![x] = "loop"]
    /\ IF st[Sender(x)] = "recv"
       THEN st' = [st EXCEPT ![Sender(x)] = "ready"] /\ UNCHANGED to
       ELSE st' = [st EXCEPT ![x] = "send"] /\ to' = [to EXCEPT ![x] = Sender(x)]
    /\ UNCHANGED <<waiters, buf, app, pend, stash, hotswap_ready, opc, reg, dst, cn,
                   acc, hist, crashed>>

\* the handler of the old cell waits for its child before it goes on
Wait ==
    /\ st[Old] = "ready" /\ kont[Old] = "handle" /\ st[Child] # "gone"
    /\ st' = [st EXCEPT ![Old] = "wait"]
    /\ waiters' = {Old}
    /\ UNCHANGED <<to, kont, buf, app, pend, stash, hotswap_ready, opc, reg, dst, cn,
                   acc, hist, crashed>>

-----------------------------------------------------------------------------
\* A client that caches the task it resolved

\* Mutation of Queue: the message is dropped when the queue is full.
QueueDrops(c, x, r) ==
    /\ st[x] = "frozen"
    /\ pend' = IF Len(pend) >= DEPTH THEN pend ELSE Append(pend, r)
    /\ acc' = acc \cup {r}
    /\ cn' = [cn EXCEPT ![c] = @ + 1]
    /\ UNCHANGED <<dst, st, to, buf>>

\* Mutation of Queue: the message goes to the front.
QueueFront(c, x, r) ==
    /\ st[x] = "frozen" /\ Len(pend) < DEPTH
    /\ pend' = <<r>> \o pend
    /\ cn' = [cn EXCEPT ![c] = @ + 1]
    /\ acc' = acc \cup {r}
    /\ UNCHANGED <<dst, st, to, buf>>

\* the Send fails and the client resolves the name again before the next one
Forget(c) ==
    /\ dst' = [dst EXCEPT ![c] = 0]
    /\ UNCHANGED <<st, to, buf, pend, cn, acc>>

\* the Frozen branch of ipc_send: the message is queued, or refused when the
\* queue is full
Queue(c, x, r) ==
    /\ st[x] = "frozen"
    /\ \/ /\ Len(pend) < DEPTH
          /\ pend' = Append(pend, r)
          /\ cn' = [cn EXCEPT ![c] = @ + 1]
          /\ acc' = acc \cup {r}
          /\ UNCHANGED <<dst, st, to, buf>>
       \/ Len(pend) >= DEPTH /\ Forget(c)

\* x waits in Recv: the message is copied and x woken
Deliver(c, x, r) ==
    /\ st[x] = "recv"
    /\ st' = [st EXCEPT ![x] = "ready"]
    /\ buf' = [buf EXCEPT ![x] = r]
    /\ cn' = [cn EXCEPT ![c] = @ + 1]
    /\ acc' = acc \cup {r}
    /\ dst' = [dst EXCEPT ![c] = x]
    /\ UNCHANGED <<to, pend>>

\* x is doing something else: the client blocks until x takes the message
Block(c, x) ==
    /\ st[x] \in {"ready", "send", "wait"}
    /\ st' = [st EXCEPT ![c] = "send"]
    /\ to' = [to EXCEPT ![c] = x]
    /\ cn' = [cn EXCEPT ![c] = @ + 1]
    /\ dst' = [dst EXCEPT ![c] = x]
    /\ UNCHANGED <<buf, pend, acc>>

\* Send to the cached task, or to the one the registry names now
ClientSend(c) ==
    /\ st[c] = "ready" /\ cn[c] < MaxReq
    /\ LET x == IF dst[c] # 0 THEN dst[c] ELSE reg
           r == Req(c, cn[c] + 1) IN
       /\ x # 0
       /\ \/ st[x] = "gone" /\ Forget(c)
          \/ Queue(c, x, r)
          \/ Deliver(c, x, r)
          \/ Block(c, x)
    /\ UNCHANGED <<waiters, kont, app, stash, hotswap_ready, opc, reg, hist, crashed>>

\* Recv of a client that has sent something: a reply is waiting, or c is parked
ClientRecv(c) ==
    /\ st[c] = "ready" /\ cn[c] > 0
    /\ \/ \E x \in BlockedOn(c) :
             /\ \A u \in BlockedOn(c) : x <= u
             /\ st' = Woken(x)
             /\ to' = [u \in Tasks |-> IF Woken(x)[u] = "send" THEN to[u] ELSE 0]
       \/ /\ BlockedOn(c) = {}
          /\ st' = [st EXCEPT ![c] = "recv"]
          /\ UNCHANGED to
    /\ UNCHANGED <<waiters, kont, buf, app, pend, stash, hotswap_ready, opc, reg, dst, cn,
                   acc, hist, crashed>>

-----------------------------------------------------------------------------
\* The orchestrator

\* Steps 1 and 2: out of the registry; the Snapshot event to the old cell
StartSwap ==
    /\ opc = "idle" /\ st[Old] # "gone"
    /\ reg' = IF reg = Old THEN 0 ELSE reg
    /\ opc' = "stash"
    /\ IF st[Old] = "recv"
       THEN /\ st' = [st EXCEPT ![Old] = "ready"]
            /\ buf' = [buf EXCEPT ![Old] = Snapshot]
            /\ UNCHANGED to
       ELSE /\ st' = [st EXCEPT ![Orc] = "send"]
            /\ to' = [to EXCEPT ![Orc] = Old]
            /\ UNCHANGED buf
    /\ UNCHANGED <<waiters, kont, app, pend, stash, hotswap_ready, dst, cn, acc, hist,
                   crashed>>

\* Step 1b: set_task_frozen, if the old cell is still there
FreezeOld == IF st[Old] = "gone" THEN st ELSE [st EXCEPT ![Old] = "frozen"]

\* Mutation of Rollback: the old cell stays Frozen.
RollbackFrozen == st' = FreezeOld

\* unfreeze_task: whatever it was waiting for, the old cell is Ready again
Rollback == st' = [FreezeOld EXCEPT ![Old] = IF @ = "frozen" THEN "ready" ELSE @]

\* the poll of the stash: the state is there, or the deadline has passed and the
\* swap goes on without it; then steps 1b, 3, and the Restore event of step 4
PollStash ==
    /\ opc = "stash" /\ st[Orc] = "ready"
    /\ \/ /\ st' = [FreezeOld EXCEPT ![New] = "ready", ![Orc] = "send"]
          /\ to' = [to EXCEPT ![Old] = 0, ![Orc] = New]
          /\ opc' = "ready"
       \/ /\ Rollback                                       \* the spawn fails
          /\ to' = [to EXCEPT ![Old] = 0]
          /\ opc' = "failed"
    /\ UNCHANGED <<waiters, kont, buf, app, pend, stash, hotswap_ready, reg, dst, cn, acc,
                   hist, crashed>>

\* Step 5: the queue is taken and sent to the new cell as long as that is in Recv,
\* which it is for the first message at most; then the old cell is ended
Finish ==
    /\ opc = "ready" /\ st[Orc] = "ready"
    /\ hotswap_ready /\ st[New] # "gone"
    /\ IF st[New] = "recv" /\ pend # << >>
       THEN /\ exit_task(Old, [st EXCEPT ![New] = "ready"])
            /\ buf' = [buf EXCEPT ![New] = Head(pend)]
       ELSE /\ exit_task(Old, st)
            /\ UNCHANGED buf
    /\ pend' = << >>
    /\ stash' = NoStash
    /\ opc' = "done"
    /\ UNCHANGED <<kont, app, hotswap_ready, dst, cn, hist, crashed>>

\* the deadline of the readiness poll passes: the old cell stays Frozen
ReadyTimeout ==
    /\ opc = "ready" /\ st[Orc] = "ready"
    /\ ~ (hotswap_ready /\ st[New] # "gone")
    /\ opc' = "abandoned"
    /\ UNCHANGED <<st, to, waiters, kont, buf, app, pend, stash, hotswap_ready, reg, dst,
                   cn, acc, hist, crashed>>

-----------------------------------------------------------------------------
\* Deaths that are not the swap's: a fault or an exit of the running cell, a
\* ForceExit (refused for a Frozen cell); the heartbeat sweep looks at no state

Kill(x) ==
    /\ st[x] \in {"ready", "recv", "send", "wait"}
    /\ exit_task(x, st)
    /\ pend' = IF x = Old THEN << >> ELSE pend
    /\ crashed' = TRUE
    /\ UNCHANGED <<kont, buf, app, stash, hotswap_ready, opc, dst, cn, hist>>

\* the old cell had armed its heartbeat
HeartbeatKill ==
    /\ st[Old] = "frozen"
    /\ exit_task(Old, st)
    /\ pend' = << >>
    /\ crashed' = TRUE
    /\ UNCHANGED <<kont, buf, app, stash, hotswap_ready, opc, dst, cn, hist>>

ChildExit ==
    /\ st[Child] # "gone"
    /\ exit_task(Child, st)
    /\ UNCHANGED <<kont, buf, app, pend, stash, hotswap_ready, opc, dst, cn, hist, crashed>>

CellStep(x) == Recv(x) \/ Resume(x) \/ Handle(x) \/ Reply(x)

OrcStep == PollStash \/ Finish \/ ReadyTimeout

Next ==
    \/ \E x \in Cells : CellStep(x) \/ Kill(x)
    \/ \E c \in Clients : ClientSend(c) \/ ClientRecv(c)
    \/ Wait \/ ChildExit
    \/ StartSwap \/ OrcStep \/ HeartbeatKill

Spec == Init /\ [][Next]_vars

-----------------------------------------------------------------------------

\* No task is blocked in Send or Wait on a task that is gone, and the orchestrator
\* waits for nobody once the call is over: every exit of the swap wakes who was
\* blocked on it.
NobodyStuck ==
    /\ \A t \in Tasks : st[t] = "send" => st[to[t]] # "gone"
    /\ st[Old] = "wait" => st[Child] # "gone" /\ Old \in waiters
    /\ opc \in {"done", "failed", "abandoned"} => st[Orc] = "ready"

\* Unless a cell is killed, there is always one that can serve: the old one is not
\* left Frozen without the new one, by no failure of the swap, and it is ended
\* only when the new one is there.
SomeoneServes ==
    crashed \/ st[Old] \notin {"frozen", "gone"} \/ st[New] # "gone"

\* r has been applied, or a live cell is about to handle it
Taken(r) ==
    r \in Range(hist) \/ \E x \in Cells : buf[x] = r /\ kont[x] # "loop" /\ st[x] # "gone"

\* Until step 5 nothing that was accepted is lost: a request whose Send returned
\* success has been applied, is about to be, or is in the queue of the old cell,
\* also after a roll-back and when the end of its child makes the Frozen cell run.
KeptUntilDrain ==
    (opc # "done" /\ ~ crashed) => \A r \in acc : Taken(r) \/ r \in Range(pend)

\* A request is applied at most once, and those of one client in the order they
\* were sent, across the queue and the change of cells, whoever is killed.  After a
\* roll-back it no longer holds: the old cell's Recv returns without a message and
\* the loop handles the last one again.
InOrderOnce ==
    opc # "failed" =>
        \A j, k \in DOMAIN hist :
            (j < k /\ hist[j][1] = hist[k][1]) => hist[j][2] < hist[k][2]

\* hotswap-guide.md:17: "No messages are lost during the swap".  After a swap
\* that succeeded, what was accepted has been applied or is about to be.
NoMessageLost == (opc = "done" /\ ~ crashed) => \A r \in acc : Taken(r)
=============================================================================
