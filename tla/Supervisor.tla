----------------------------- MODULE Supervisor -----------------------------
(***************************************************************************)
(* The supervisor of the system services (cells/tools/init/src/main.rs)    *)
(* and the kernel's table of well-known services that it fills             *)
(* (kernel/src/cell/service_registry.rs).                                  *)
(*                                                                         *)
(* Services run between any two system calls of init and may die there, so *)
(* one system call of init, with the computation up to the next one, is    *)
(* one action.  Of the kernel's task table the module keeps which services *)
(* are alive, init's death subscriptions and its pending_deaths; Ipc has   *)
(* the rest.  No cell sends messages to init (none in the repository       *)
(* does), so what its Recv returns is a death.                             *)
(*                                                                         *)
(* The services are numbered in the order they are spawned: the shell,     *)
(* which has no service id, comes last.                                    *)
(***************************************************************************)
EXTENDS Integers, Sequences, FiniteSets

CONSTANTS
    NSVC,         \* number of supervised services
    Named,        \* the services with a well-known service id
    Policy,       \* per service: "Permanent", "Transient" or "Temporary"
    MAX_SERVICES, \* capacity of the service registry
    MAX_RESTARTS, \* MAX_RESTARTS_PER_WINDOW
    WINDOW,       \* RESTART_WINDOW_TICKS
    MaxTid,       \* bound: task ids are 1 .. MaxTid, never reused
    MaxTime       \* bound: the last tick

Services == 1 .. NSVC
Tids == 1 .. MaxTid

\* usize::MAX, the exit reason of a killed cell; 0 is a clean exit.  The id 0
\* stands for the None of an Option<usize>.
MAX == -1
Reasons == {0, MAX}
None == 0

ASSUME ServicesAssumption ==
    /\ NSVC \in Nat \ {0} /\ Named \subseteq Services
    /\ Policy \in [Services -> {"Permanent", "Transient", "Temporary"}]
ASSUME BoundsAssumption ==
    /\ {MAX_SERVICES, MAX_RESTARTS, WINDOW, MaxTid, MaxTime} \subseteq Nat
    /\ Cardinality(Named) <= MAX_SERVICES

VARIABLES
    live,           \* the service tasks in the task table
    why,            \* exit reason of the dead ones
    registry,       \* REGISTRY: service id -> task id, None when not there
    subs,           \* the tasks init is subscribed to in DEATH_SUBSCRIBERS
    deaths,         \* pending_deaths of init
    nid,            \* next_task_id
    now,            \* the tick counter sys_get_time reads
    pc,             \* the next system call of init
    i,              \* the service init is working on
    dead,           \* what Recv returned: the dead task and its reason
    tids,           \* init's own table of live tasks
    restart_count,
    window_start,
    restarts,       \* the ticks at which each service was restarted
    owner           \* the service each task was spawned for

kernel == <<live, why, registry, subs, deaths, nid, owner>>
init == <<pc, i, dead, tids, restart_count, window_start, restarts>>
vars == <<kernel, init, now>>

TypeOK ==
    /\ live \subseteq Tids
    /\ why \in [Tids -> Reasons]
    /\ registry \in [Named -> Tids \cup {None}]
    /\ subs \subseteq Tids
    /\ deaths \in Seq(Tids \X Reasons)
    /\ nid \in 1 .. MaxTid + 1
    /\ now \in 0 .. MaxTime
    /\ pc \in {"spawn", "register", "subscribe", "recv", "parked", "handle",
               "respawn", "rewatch", "reregister"}
    /\ i \in Services
    /\ dead \in (Tids \cup {None}) \X Reasons
    /\ tids \in [Services -> Tids \cup {None}]
    /\ restart_count \in [Services -> 0 .. MAX_RESTARTS]
    /\ window_start \in [Services -> 0 .. MaxTime]
    /\ restarts \in [Services -> Seq(0 .. MaxTime)]
    /\ owner \in [Tids -> Services \cup {None}]

Init ==
    /\ live = {} /\ subs = {} /\ deaths = << >>
    /\ why = [t \in Tids |-> 0]
    /\ registry = [s \in Named |-> None]
    /\ nid = 1 /\ now = 0
    /\ pc = "spawn" /\ i = 1 /\ dead = <<None, 0>>
    /\ tids = [s \in Services |-> None]
    /\ restart_count = [s \in Services |-> 0]
    /\ window_start = [s \in Services |-> 0]
    /\ restarts = [s \in Services |-> << >>]
    /\ owner = [t \in Tids |-> None]

-----------------------------------------------------------------------------
\* The kernel side of the system calls

\* service_registry::register: an id that is not there yet needs a free entry
register(s, t) ==
    registry' = IF /\ Cardinality({x \in Named : registry[x] # None}) >= MAX_SERVICES
                   /\ registry[s] = None
                THEN registry
                ELSE [registry EXCEPT ![s] = t]

\* service_registry::clear_tid
clear_tid(t) ==
    registry' = [s \in Named |-> IF registry[s] = t THEN None ELSE registry[s]]

\* SpawnFromPath succeeds
Spawn(s) ==
    /\ nid <= MaxTid
    /\ nid' = nid + 1
    /\ live' = live \cup {nid}
    /\ owner' = [owner EXCEPT ![nid] = s]
    /\ tids' = [tids EXCEPT ![s] = nid]

\* Mutation of NotifyOnExit: a task that is already dead is subscribed to.
NotifyOnExitBlind(t) ==
    /\ subs' = subs \cup {t}
    /\ UNCHANGED deaths

\* Mutation of NotifyOnExit: the death is queued whether or not t is alive.
NotifyOnExitEager(t) ==
    /\ subs' = subs \cup {t}
    /\ deaths' = Append(deaths, <<t, 0>>)

\* NotifyOnExit: a task that is already dead is reported with reason 0
NotifyOnExit(t) ==
    IF t \in live
    THEN subs' = subs \cup {t} /\ UNCHANGED deaths
    ELSE deaths' = Append(deaths, <<t, 0>>) /\ UNCHANGED subs

\* exit_task on a service, from its own exit or from a kill
Die(t, r) ==
    /\ t \in live
    /\ live' = live \ {t}
    /\ why' = [why EXCEPT ![t] = r]
    /\ clear_tid(t)
    /\ subs' = subs \ {t}
    /\ IF t \in subs /\ pc = "parked"
       THEN dead' = <<t, r>> /\ pc' = "handle" /\ UNCHANGED deaths
       ELSE /\ deaths' = IF t \in subs THEN Append(deaths, <<t, r>>) ELSE deaths
            /\ UNCHANGED <<dead, pc>>
    /\ UNCHANGED <<nid, owner, i, tids, restart_count, window_start, restarts, now>>

Tick ==
    /\ now < MaxTime
    /\ now' = now + 1
    /\ UNCHANGED <<kernel, init>>

-----------------------------------------------------------------------------
\* init: bring-up

\* the next service of a loop over all of them, or the loop's end
NextService(loop, end) ==
    IF i < NSVC THEN i' = i + 1 /\ pc' = loop ELSE i' = 1 /\ pc' = end

BootSpawn ==
    /\ pc = "spawn"
    /\ \/ /\ Spawn(i)
          /\ IF i \in Named
             THEN pc' = "register" /\ UNCHANGED i
             ELSE NextService("spawn", "subscribe")
       \/ /\ NextService("spawn", "subscribe")          \* no such cell: skipped
          /\ UNCHANGED <<nid, live, owner, tids>>
    /\ UNCHANGED <<why, registry, subs, deaths, now, dead, restart_count,
                   window_start, restarts>>

BootRegister ==
    /\ pc = "register"
    /\ register(i, tids[i])
    /\ NextService("spawn", "subscribe")
    /\ UNCHANGED <<live, why, subs, deaths, nid, owner, now, dead, tids,
                   restart_count, window_start, restarts>>

\* one round of the loop over tids after all services are up
Subscribe ==
    /\ pc = "subscribe"
    /\ IF tids[i] # None THEN NotifyOnExit(tids[i]) ELSE UNCHANGED <<subs, deaths>>
    /\ NextService("subscribe", "recv")
    /\ UNCHANGED <<live, why, registry, nid, owner, now, dead, tids,
                   restart_count, window_start, restarts>>

-----------------------------------------------------------------------------
\* init: the supervision loop

Recv ==
    /\ pc = "recv"
    /\ IF deaths # << >>
       THEN dead' = Head(deaths) /\ deaths' = Tail(deaths) /\ pc' = "handle"
       ELSE pc' = "parked" /\ UNCHANGED <<dead, deaths>>
    /\ UNCHANGED <<live, why, registry, subs, nid, owner, now, i, tids,
                   restart_count, window_start, restarts>>

ShouldRestart(s) ==
    CASE Policy[s] = "Temporary" -> FALSE
      [] Policy[s] = "Transient" -> dead[2] # 0
      [] Policy[s] = "Permanent" -> TRUE

\* the intensity window of s ended before now
WindowOver(s) == now - window_start[s] > WINDOW

\* the service has had its restarts
Storm(count) == count >= MAX_RESTARTS

\* Which service died, whether it is to be restarted, and whether too often
Handle ==
    /\ pc = "handle"
    /\ \/ /\ \A s \in Services : tids[s] # dead[1]
          /\ pc' = "recv"
          /\ UNCHANGED <<i, tids, restart_count, window_start, restarts>>
       \/ \E s \in Services :
          /\ tids[s] = dead[1]
          /\ \A x \in 1 .. s - 1 : tids[x] # dead[1]
          /\ i' = s
          /\ LET count == IF WindowOver(s) THEN 0 ELSE restart_count[s] IN
             \/ /\ ~ ShouldRestart(s)
                /\ tids' = [tids EXCEPT ![s] = None]
                /\ pc' = "recv"
                /\ UNCHANGED <<restart_count, window_start, restarts>>
             \/ /\ ShouldRestart(s)
                /\ window_start' =
                       [window_start EXCEPT ![s] = IF WindowOver(s) THEN now ELSE @]
                /\ \/ /\ Storm(count)
                      /\ restart_count' = [restart_count EXCEPT ![s] = count]
                      /\ tids' = [tids EXCEPT ![s] = None]
                      /\ pc' = "recv"
                      /\ UNCHANGED restarts
                   \/ /\ ~ Storm(count)
                      /\ restart_count' = [restart_count EXCEPT ![s] = count + 1]
                      /\ restarts' = [restarts EXCEPT ![s] = Append(@, now)]
                      /\ pc' = "respawn"
                      /\ UNCHANGED tids
    /\ UNCHANGED <<kernel, dead, now>>

Respawn ==
    /\ pc = "respawn"
    /\ \/ Spawn(i) /\ pc' = "rewatch"
       \/ /\ tids' = [tids EXCEPT ![i] = None]          \* the spawn fails
          /\ pc' = "recv"
          /\ UNCHANGED <<nid, live, owner>>
    /\ UNCHANGED <<why, registry, subs, deaths, now, i, dead, restart_count,
                   window_start, restarts>>

Rewatch ==
    /\ pc = "rewatch"
    /\ NotifyOnExit(tids[i])
    /\ pc' = IF i \in Named THEN "reregister" ELSE "recv"
    /\ UNCHANGED <<live, why, registry, nid, owner, now, i, dead, tids,
                   restart_count, window_start, restarts>>

\* Mutation of Reregister: the restarted service is not registered again.
ReregisterSkipped ==
    /\ pc = "reregister"
    /\ pc' = "recv"
    /\ UNCHANGED <<kernel, now, i, dead, tids, restart_count, window_start, restarts>>

Reregister ==
    /\ pc = "reregister"
    /\ register(i, tids[i])
    /\ pc' = "recv"
    /\ UNCHANGED <<live, why, subs, deaths, nid, owner, now, i, dead, tids,
                   restart_count, window_start, restarts>>

InitStep ==
    \/ BootSpawn \/ BootRegister \/ Subscribe
    \/ Recv \/ Handle \/ Respawn \/ Rewatch \/ Reregister

Next == InitStep \/ Tick \/ \E t \in Tids, r \in Reasons : Die(t, r)

\* init runs whenever it is not parked: the ready queues are served round robin
\* within a priority, and the services block in Recv.
Spec == Init /\ [][Next]_vars /\ WF_vars(InitStep)

-----------------------------------------------------------------------------

\* When init has nothing left to do (it is parked in Recv), every service it
\* believes to be up is alive, watched, and the one clients resolve: no death,
\* at whatever point of bring-up or restart it fell, has been missed.
SupervisedWhenIdle ==
    pc = "parked" =>
        \A s \in Services : tids[s] # None =>
            /\ tids[s] \in live \cap subs
            /\ s \in Named => registry[s] = tids[s]

\* A service never runs twice, and none runs without init knowing it: init
\* respawns a service only after the death of the task it names.
OneInstance ==
    \A t \in live : tids[owner[t]] = t

\* What the comment on MAX_RESTARTS_PER_WINDOW says of init: any WINDOW ticks in
\* a row hold at most MAX_RESTARTS restarts of one service.
RestartsWithinLimit ==
    \A s \in Services, t \in 0 .. MaxTime :
        Cardinality({k \in DOMAIN restarts[s] : restarts[s][k] \in t .. t + WINDOW - 1})
            <= MAX_RESTARTS

\* A service that is down comes back as the registered, live provider, or init
\* has given up on it: by policy, after a storm, or because the spawn failed.
ProviderReturns ==
    \A s \in Named :
        (tids[s] # None /\ tids[s] \notin live)
            ~> (tids[s] = None \/ (tids[s] \in live /\ registry[s] = tids[s]))
=============================================================================
