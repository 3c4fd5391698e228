--------------------------- MODULE ServiceClient ---------------------------
(***************************************************************************)
(* A client cell that calls a supervised service through the caching       *)
(* handle ServiceRef (libs/ostd/src/service.rs), while services die and    *)
(* are restarted (Supervisor).  The services answer requests: they         *)
(* receive, and send the answer back.  Send is the rendezvous of Ipc: it   *)
(* delivers to a service parked in Recv, blocks on a busy one, and fails   *)
(* when the task is not in the table; a blocked Send whose target dies is  *)
(* woken and returns as if delivered.  HotSwap has what a swap does to a   *)
(* client.                                                                 *)
(***************************************************************************)
EXTENDS Supervisor

CONSTANTS
    Svc,       \* the service the client calls
    TRIES      \* lookups of one resolve, 8 in the code

ASSUME ClientAssumption == Svc \in Named /\ TRIES \in Nat \ {0}

VARIABLES
    cpc,       \* the next system call of the client
    cached,    \* cached_tid
    tries,     \* lookups of this resolve so far
    holder     \* the service task that holds the client's request, or None

client == <<cpc, cached, tries, holder>>
allvars == <<vars, client>>

ClientTypeOK ==
    /\ cpc \in {"idle", "lookup", "send", "blocked", "recv"}
    /\ cached \in Tids \cup {None}
    /\ tries \in 0 .. TRIES - 1
    /\ holder \in Tids \cup {None}

ClientInit ==
    /\ Init
    /\ cpc = "idle" /\ cached = None /\ tries = 0 /\ holder = None

\* call is entered: resolve returns the cached task, or starts to look it up
Call ==
    /\ cpc = "idle"
    /\ cpc' = IF cached # None THEN "send" ELSE "lookup"
    /\ UNCHANGED <<vars, cached, tries, holder>>

LastTry == tries + 1 = TRIES

\* one round of resolve: a lookup, and a yield when there is no provider;
\* after the last round call returns NotFound
Lookup ==
    /\ cpc = "lookup"
    /\ \/ /\ registry[Svc] # None
          /\ cached' = registry[Svc]
          /\ cpc' = "send"
          /\ tries' = 0
       \/ /\ registry[Svc] = None
          /\ tries' = IF LastTry THEN 0 ELSE tries + 1
          /\ cpc' = IF LastTry THEN "idle" ELSE "lookup"
          /\ UNCHANGED cached
    /\ UNCHANGED <<vars, holder>>

\* Mutation of Send: the cache survives a failed send.
SendKeepsCache ==
    /\ cpc = "send"
    /\ \/ /\ cached \notin live
          /\ cpc' = "idle"
          /\ UNCHANGED holder
       \/ cached \in live /\ cpc' = "recv" /\ holder' = cached
       \/ cached \in live /\ cpc' = "blocked" /\ UNCHANGED holder
    /\ UNCHANGED <<vars, tries, cached>>

\* sys_send: the task is gone and the cache is dropped; or the service was in
\* Recv; or it was busy
Send ==
    /\ cpc = "send"
    /\ \/ /\ cached \notin live
          /\ cached' = None
          /\ cpc' = "idle"
          /\ UNCHANGED holder
       \/ /\ cached \in live
          /\ cpc' = "recv"
          /\ holder' = cached
          /\ UNCHANGED cached
       \/ /\ cached \in live
          /\ cpc' = "blocked"
          /\ UNCHANGED <<cached, holder>>
    /\ UNCHANGED <<vars, tries>>

\* the service comes to its Recv and takes the blocked request
ServiceRecv ==
    /\ cpc = "blocked"
    /\ cached \in live
    /\ cpc' = "recv"
    /\ holder' = cached
    /\ UNCHANGED <<vars, cached, tries>>

\* the service sends its answer, which ends the client's sys_recv
ServiceReply ==
    /\ cpc = "recv"
    /\ holder \in live
    /\ cpc' = "idle"
    /\ holder' = None
    /\ UNCHANGED <<vars, cached, tries>>

\* exit_task(t) wakes a client blocked in Send to t, which goes on to Recv
Wake(t) ==
    /\ cpc' = IF cpc = "blocked" /\ cached = t THEN "recv" ELSE cpc
    /\ holder' = IF holder = t THEN None ELSE holder
    /\ UNCHANGED <<cached, tries>>

ServiceDies(t, r) == Die(t, r) /\ Wake(t)

ClientStep == Call \/ Lookup \/ Send

ServiceStep == ServiceRecv \/ ServiceReply

ClientNext ==
    \/ (InitStep \/ Tick) /\ UNCHANGED client
    \/ ClientStep
    \/ ServiceStep
    \/ \E t \in Tids, r \in Reasons : ServiceDies(t, r)

\* init, the client and a live service that has work are scheduled in turn
ClientSpec ==
    /\ ClientInit /\ [][ClientNext]_allvars
    /\ WF_allvars(InitStep /\ UNCHANGED client)
    /\ WF_allvars(ClientStep) /\ WF_allvars(ServiceStep)

-----------------------------------------------------------------------------

\* A client that is not inside a system call when its service dies drops the dead
\* task from its cache by its next send, and so reconnects.
StaleCacheDropped ==
    \A t \in Tids :
        (cached = t /\ t \notin live /\ cpc \in {"idle", "send"}) ~> cached # t

=============================================================================
