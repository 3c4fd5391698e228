------------------------------- MODULE MCIpc -------------------------------
(***************************************************************************)
(* Instances of Ipc for TLC: which system calls the cells may make.        *)
(***************************************************************************)
EXTENDS Ipc

\* Messages, Wait and supervision by task 1
PlainCalls ==
    [t \in Tids |-> CASE t = 1 -> {"Send", "Recv"}
                      [] t = 2 -> {"Send", "Recv", "Wait"}
                      [] OTHER -> {"TryRecv", "Wait"}]

\* Deadlines and heartbeats, beside the calls that wake a task whose handler does
\* not wait (Reply) or park one that runs on (SendGather, RecvScatter)
TimedCalls ==
    [t \in Tids |-> IF t \in SpawnCap
                    THEN {"Spawn", "RecvTimeout", "RecvScatter", "SendGather"}
                    ELSE {"Send", "Reply", "RecvTimeout", "SetTimer", "Heartbeat"}]
=============================================================================
