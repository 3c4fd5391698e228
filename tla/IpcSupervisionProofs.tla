------------------------ MODULE IpcSupervisionProofs ------------------------
(***************************************************************************)
(* Proofs about what a supervisor is told and what Recv returns, for any   *)
(* number of tasks.  They hold for cells that keep to some of the system   *)
(* calls; each theorem names the calls it excludes.                        *)
(*                                                                         *)
(* The invariants build on each other and on EInv of IpcProofs.  CInv adds *)
(* what is left for a task that waits inside a handler, and the account of *)
(* the deaths it is owed.  DInv adds what the queued notifications name.   *)
(***************************************************************************)
EXTENDS IpcProofs

\* a leaf that names no prover is Zenon's
USE ZenonT(30)
-----------------------------------------------------------------------------
(* Supervision: cells that block where they wait, and use no RecvTimeout *)

\* RecvTimeout does not take the exit reason its caller was woken with.
Plain == Blocking /\ \A t \in Tids : "RecvTimeout" \notin Allow[t]

\* What a parked task was left with: a receiver has no deadline; a reason is
\* stashed exactly while a receiver that was woken by a death has not run yet, and
\* current_caller still names the dead task; a receiver that was woken otherwise
\* has in its buffer the message of its caller, or of one that has died since.
Framed(t) ==
    /\ kont[t] # "recvt"
    /\ st[t] = "Recv" => kont[t] = "recv" /\ dl[t] = None
    /\ st[t] = "Sending" => kont[t] = "send"
    /\ woke[t] = "death" <=> xr[t] # None
    /\ xr[t] # None => /\ kont[t] = "recv" /\ st[t] \in {"Ready", "Running"}
                       /\ cc[t] \in Tids /\ ~Live(cc[t]) /\ cc[t] < nid
    /\ kont[t] = "recv" /\ st[t] # "Recv" /\ xr[t] = None =>
         \/ cc[t] # None /\ buf[t] = Msg(cc[t])
         \/ cc[t] = None /\ \E s \in Tids : buf[t] = Msg(s) /\ ~Live(s) /\ s < nid

\* Nobody watches a dead task, and an id not given out yet watches nobody.
Listed(w, d) == ~Live(d) \/ w >= nid => subs[d][w] = 0

\* What w is still owed for d is accounted for.
Conserved(w, d) ==
    Live(w) \/ w >= nid =>
        owed[w][d] = subs[d][w] + Notices(deaths[w], d)
                     + (IF xr[w] # None /\ cc[w] = d THEN 1 ELSE 0)

Accounts == \A w, d \in Tids : Listed(w, d) /\ Conserved(w, d)
CInv == EInv /\ (\A t \in Tids : Framed(t)) /\ Accounts

LEMMA InitCInv == Init => CInv
<1> SUFFICES ASSUME Init PROVE CInv
  OBVIOUS
<1>1. EInv
  BY InitIInv, InitExact DEF EInv
<1>2. ASSUME NEW t \in Tids PROVE Framed(t)
  BY DEF Init, Framed
<1>3. ASSUME NEW w \in Tids, NEW d \in Tids PROVE Listed(w, d) /\ Conserved(w, d)
  <2>1. subs[d][w] = 0 /\ owed[w][d] = 0 /\ deaths[w] = << >> /\ xr[w] = None
    BY DEF Init, Zero
  <2>2. owed[w][d] = subs[d][w] + Notices(deaths[w], d)
                     + (IF xr[w] # None /\ cc[w] = d THEN 1 ELSE 0)
    BY <2>1, NoticesEmpty, SMT
  <2> QED
    BY <2>1, <2>2 DEF Listed, Conserved
<1> QED
  BY <1>1, <1>2, <1>3 DEF CInv, Accounts

\* The parts of the record of u that Framed is about are as they were.
Untouched(u) ==
    /\ st'[u] = st[u] /\ dl'[u] = dl[u] /\ cc'[u] = cc[u] /\ xr'[u] = xr[u]
    /\ kont'[u] = kont[u] /\ woke'[u] = woke[u] /\ buf'[u] = buf[u]

\* Ids that were given out and are gone stay gone.
StillDead == nid \in Int /\ nid' \in Int /\ nid <= nid'
             /\ \A d \in Tids : d < nid /\ ~Live(d) => ~Live(d)'

LEMMA FramedKept ==
    ASSUME NEW u \in Tids, Framed(u), Untouched(u), StillDead
    PROVE  Framed(u)'
<1>1. \A s \in Tids : s < nid => s < nid'
  BY SMT DEF StillDead, Tids
<1>2. \A s \in Tids : s < nid /\ ~Live(s) => ~Live(s)' /\ s < nid'
  BY <1>1 DEF StillDead
<1>3. /\ kont'[u] # "recvt"
      /\ st'[u] = "Recv" => kont'[u] = "recv" /\ dl'[u] = None
      /\ st'[u] = "Sending" => kont'[u] = "send"
      /\ woke'[u] = "death" <=> xr'[u] # None
  BY DEF Framed, Untouched
<1>4. xr'[u] # None => /\ kont'[u] = "recv" /\ st'[u] \in {"Ready", "Running"}
                       /\ cc'[u] \in Tids /\ ~Live(cc[u])' /\ cc'[u] < nid'
  BY <1>2 DEF Framed, Untouched
<1>5. kont'[u] = "recv" /\ st'[u] # "Recv" /\ xr'[u] = None =>
         \/ cc'[u] # None /\ buf'[u] = Msg(cc'[u])
         \/ cc'[u] = None /\ \E s \in Tids : buf'[u] = Msg(s) /\ ~Live(s)' /\ s < nid'
  BY <1>2 DEF Framed, Untouched
<1> QED
  BY <1>3, <1>4, <1>5 DEF Framed, Live, Untouched, Msg

\* A task that has no reason stashed, and is not inside a Recv that has ended
LEMMA FramedFresh ==
    ASSUME NEW u \in Tids, xr'[u] = None, woke'[u] # "death", kont'[u] # "recvt",
           st'[u] = "Recv" => kont'[u] = "recv" /\ dl'[u] = None,
           st'[u] = "Sending" => kont'[u] = "send",
           kont'[u] = "recv" => st'[u] = "Recv"
    PROVE  Framed(u)'
  BY DEF Framed

\* Steps in which nobody is born or dies, and nobody is told anything
LEMMA AccountsKept ==
    ASSUME CInv, UNCHANGED <<deaths, owed, subs, nid>>,
           \A u \in Tids : st'[u] = "Gone" <=> st[u] = "Gone",
           \A u \in Tids : xr'[u] = xr[u] /\ (xr[u] # None => cc'[u] = cc[u])
    PROVE  Accounts'
<1>1. ASSUME NEW w \in Tids, NEW d \in Tids PROVE Listed(w, d)' /\ Conserved(w, d)'
  <2>1. Listed(w, d) /\ Conserved(w, d)
    BY DEF CInv, Accounts
  <2>2. Listed(w, d)'
    BY <2>1 DEF Listed, Live
  <2>3. (xr'[w] # None /\ cc'[w] = d) <=> (xr[w] # None /\ cc[w] = d)
    OBVIOUS
  <2>4. Conserved(w, d)'
    BY <2>1, <2>3 DEF Conserved, Live, Notices, Naming
  <2> QED
    BY <2>2, <2>4
<1> QED
  BY <1>1 DEF Accounts

\* The same, when the hart's round goes on: nobody's frames change but t's.
LEMMA NobodyBorn ==
    ASSUME CInv, nid' = nid, \A u \in Tids : st'[u] = "Gone" <=> st[u] = "Gone"
    PROVE  StillDead
  BY SMT DEF StillDead, CInv, EInv, IInv, TypeOK, Live

\* The task that enters a system call has no reason stashed.
LEMMA EntersPlain ==
    ASSUME CInv, NEW t \in Tids, NEW sc, Enter(t, sc)
    PROVE  /\ st[t] = "Running" /\ xr[t] = None /\ woke[t] # "death" /\ kont[t] = "user"
           /\ cpu = "user" /\ cur = t
  BY EntersRunning DEF CInv, Framed, Enter

\* Steps in which only t's own record and frames change, and t has just entered.
LEMMA OwnStep ==
    ASSUME CInv, NEW t \in Tids, Framed(t)', st[t] = "Running", st'[t] # "Gone",
           xr[t] = None, UNCHANGED <<deaths, owed, subs, nid, xr>>,
           \A u \in Tids \ {t} : Untouched(u)
    PROVE  (\A u \in Tids : Framed(u))' /\ Accounts'
<1>1. \A u \in Tids : st'[u] = "Gone" <=> st[u] = "Gone"
  BY DEF Untouched
<1>2. StillDead
  BY <1>1, NobodyBorn
<1>3. ASSUME NEW u \in Tids PROVE Framed(u)'
  BY <1>2, FramedKept DEF CInv
<1>4. \A u \in Tids : xr'[u] = xr[u] /\ (xr[u] # None => cc'[u] = cc[u])
  BY DEF Untouched
<1>5. Accounts'
  BY <1>1, <1>4, AccountsKept
<1> QED
  BY <1>3, <1>5

LEMMA QuietCounts ==
    ASSUME CInv, UNCHANGED <<st, dl, cc, xr, kont, woke, buf, deaths, owed, subs, nid>>
    PROVE  (\A u \in Tids : Framed(u))' /\ Accounts'
<1>1. StillDead
  BY NobodyBorn
<1>2. ASSUME NEW u \in Tids PROVE Framed(u)'
  BY <1>1, FramedKept DEF CInv, Untouched
<1>3. Accounts'
  BY AccountsKept
<1> QED
  BY <1>2, <1>3

LEMMA DeliverCounts ==
    ASSUME CInv, NEW t \in Tids \cup {0}, NEW d \in Tids, Deliver(t, d), UNCHANGED hart
    PROVE  (\A u \in Tids : Framed(u))' /\ Accounts'
<1>0. t # None
  BY SMT DEF Tids, None
<1>1. Framed(d) /\ st[d] = "Recv" /\ kont[d] = "recv" /\ xr[d] = None
  BY DEF CInv, Framed, Deliver
<1>2. /\ st \in [Tids -> States] /\ cc \in [Tids -> Callers]
      /\ dl \in [Tids -> Nat \cup {None}] /\ woke \in [Tids -> Wakes]
      /\ buf \in [Tids -> Bufs]
  BY DEF CInv, EInv, IInv, TypeOK
<1>3. /\ st' = [st EXCEPT ![d] = "Ready"] /\ cc' = [cc EXCEPT ![d] = t]
      /\ dl' = [dl EXCEPT ![d] = None] /\ buf' = [buf EXCEPT ![d] = Msg(t)]
      /\ woke' = [woke EXCEPT ![d] = "msg"]
      /\ UNCHANGED <<kont, xr, deaths, owed, subs, nid>>
  BY <1>1 DEF Deliver, Fill, Ended, hart
<1>4. /\ st'[d] = "Ready" /\ cc'[d] = t /\ buf'[d] = Msg(t) /\ woke'[d] = "msg"
      /\ \A u \in Tids \ {d} : Untouched(u)
  BY <1>2, <1>3 DEF Untouched
<1>5. \A u \in Tids : st'[u] = "Gone" <=> st[u] = "Gone"
  BY <1>1, <1>4 DEF Untouched
<1>6. StillDead
  BY <1>3, <1>5, NobodyBorn
<1>7. ASSUME NEW u \in Tids PROVE Framed(u)'
  <2>1. CASE u = d
    BY <1>0, <1>1, <1>3, <1>4, <2>1 DEF Framed
  <2>2. CASE u # d
    BY <1>4, <1>6, <2>2, FramedKept DEF CInv
  <2> QED
    BY <2>1, <2>2
<1>8. \A u \in Tids : xr'[u] = xr[u] /\ (xr[u] # None => cc'[u] = cc[u])
  BY <1>1, <1>3, <1>4 DEF Untouched
<1>9. Accounts'
  BY <1>3, <1>5, <1>8, AccountsKept
<1> QED
  BY <1>7, <1>9

\* A handler that parks its task, in Send, Recv, Wait or a sleep
LEMMA ParkCounts ==
    ASSUME CInv, NEW t \in Tids, NEW sc, Enter(t, sc), NEW k, NEW s, NEW e, Park(t, k),
           st' = [st EXCEPT ![t] = s], dl' = [dl EXCEPT ![t] = e],
           <<s, k>> \in {<<"Sending", "send">>, <<"Recv", "recv">>,
                         <<"Waiting", "wait">>, <<"Sleeping", "sleep">>},
           s = "Recv" => e = None,
           UNCHANGED <<cc, xr, deaths, subs, owed>>
    PROVE  (\A u \in Tids : Framed(u))' /\ Accounts'
<1>1. st[t] = "Running" /\ xr[t] = None
  BY EntersPlain
<1>2. /\ st \in [Tids -> States] /\ dl \in [Tids -> Nat \cup {None}]
      /\ woke \in [Tids -> Wakes] /\ kont \in [Tids -> Konts]
      /\ buf \in [Tids -> Bufs]
  BY DEF CInv, EInv, IInv, TypeOK
<1>3. /\ kont' = [kont EXCEPT ![t] = k] /\ woke' = [woke EXCEPT ![t] = "none"]
      /\ buf' = [buf EXCEPT ![t] = NoMsg] /\ nid' = nid
  BY DEF Park
<1>4. /\ st'[t] = s /\ dl'[t] = e /\ kont'[t] = k /\ woke'[t] = "none"
      /\ \A u \in Tids \ {t} : Untouched(u)
  BY <1>2, <1>3 DEF Untouched
<1>5. \/ s = "Sending" /\ k = "send"
      \/ s = "Recv" /\ k = "recv"
      \/ s = "Waiting" /\ k = "wait"
      \/ s = "Sleeping" /\ k = "sleep"
  BY SMT
<1>6. Framed(t)'
  BY <1>1, <1>4, <1>5, FramedFresh
<1> QED
  BY <1>1, <1>3, <1>4, <1>5, <1>6, OwnStep

LEMMA TakeFromCounts ==
    ASSUME CInv, NEW t \in Tids, NEW sc, Enter(t, sc), NEW op, Senders(t) # {},
           TakeFrom(t, Lowest(Senders(t)), op)
    PROVE  (\A u \in Tids : Framed(u))' /\ Accounts'
<1>0. PICK s : s = Lowest(Senders(t))
  OBVIOUS
<1>1. s \in Tids /\ st[s] = "Sending"
  BY <1>0, LowestIn DEF Senders
<1>2. kont[s] = "send" /\ xr[s] = None
  BY <1>1 DEF CInv, Framed
<1>3. xr[t] = None /\ kont[t] = "user" /\ woke[t] # "death" /\ st[t] = "Running"
  BY EntersPlain
<1>4. /\ st' = [st EXCEPT ![s] = "Ready"] /\ cc' = [cc EXCEPT ![t] = s]
      /\ woke' = [woke EXCEPT ![s] = "taken"]
      /\ UNCHANGED <<dl, xr, kont, buf, deaths, owed, subs, nid>>
  BY <1>0, <1>2 DEF TakeFrom, Ended, hart
<1>5. /\ st \in [Tids -> States] /\ cc \in [Tids -> Callers]
      /\ woke \in [Tids -> Wakes]
  BY DEF CInv, EInv, IInv, TypeOK
<1>6. /\ st'[s] = "Ready" /\ woke'[s] = "taken"
      /\ \A u \in Tids : u # s => st'[u] = st[u] /\ woke'[u] = woke[u]
      /\ \A u \in Tids : u # t => cc'[u] = cc[u]
  BY <1>1, <1>4, <1>5
<1>7. \A u \in Tids : st'[u] = "Gone" <=> st[u] = "Gone"
  BY <1>1, <1>6
<1>8. StillDead
  BY <1>4, <1>7, NobodyBorn
<1>9. ASSUME NEW u \in Tids PROVE Framed(u)'
  <2>1. CASE u = s
    BY <1>2, <1>4, <1>6, <2>1, FramedFresh
  <2>2. CASE u = t /\ u # s
    BY <1>3, <1>4, <1>6, <2>2, FramedFresh
  <2>3. CASE u # s /\ u # t
    BY <1>4, <1>6, <1>8, <2>3, FramedKept DEF CInv, Untouched
  <2> QED
    BY <2>1, <2>2, <2>3
<1>10. \A u \in Tids : xr'[u] = xr[u] /\ (xr[u] # None => cc'[u] = cc[u])
  BY <1>3, <1>4, <1>6
<1>11. Accounts'
  BY <1>4, <1>7, <1>10, AccountsKept
<1> QED
  BY <1>9, <1>11

LEMMA TakeDeathCounts ==
    ASSUME CInv, NEW t \in Tids, deaths[t] # << >>,
           deaths' = [deaths EXCEPT ![t] = Tail(@)],
           owed' = [owed EXCEPT ![t][Head(deaths[t])[1]] = @ - 1],
           UNCHANGED <<st, dl, cc, xr, subs, nid, kont, woke, buf>>
    PROVE  (\A u \in Tids : Framed(u))' /\ Accounts'
<1>1. StillDead
  BY NobodyBorn
<1>2. ASSUME NEW u \in Tids PROVE Framed(u)'
  BY <1>1, FramedKept DEF CInv, Untouched
<1>3. PICK D : D = Tids \X (Nat \cup {MAX})
  OBVIOUS
<1>4. deaths \in [Tids -> Seq(D)] /\ owed \in [Tids -> [Tids -> Int]]
  BY <1>3 DEF CInv, EInv, IInv, TypeOK
<1>5. Head(deaths[t]) \in D
  BY <1>4, QueueShrinks
<1>6. PICK h : h = Head(deaths[t])[1]
  OBVIOUS
<1>7. h \in Tids
  BY <1>3, <1>5, <1>6
<1>8. ASSUME NEW w \in Tids, NEW d \in Tids PROVE Listed(w, d)' /\ Conserved(w, d)'
  <2>1. Listed(w, d) /\ Conserved(w, d)
    BY DEF CInv, Accounts
  <2>2. Listed(w, d)'
    BY <2>1 DEF Listed, Live
  <2>3. CASE w # t
    <3>1. deaths'[w] = deaths[w] /\ owed'[w] = owed[w]
      BY <1>4, <2>3
    <3> QED
      BY <2>1, <2>2, <3>1 DEF Conserved, Live
  <2>4. CASE w = t
    <3>1. deaths'[w] = Tail(deaths[w])
      BY <1>4, <2>4
    <3>2. owed'[w][d] = owed[w][d] - (IF h = d THEN 1 ELSE 0) /\ owed[w][d] \in Int
      BY <1>4, <1>6, <1>7, <2>4, SMTT(20)
    <3>3. Notices(deaths'[w], d) = Notices(deaths[w], d) - (IF h = d THEN 1 ELSE 0)
      BY <1>4, <1>6, <2>4, <3>1, NoticesTail
    <3>4. Notices(deaths[w], d) \in Nat /\ subs[d][w] \in Nat
      BY <1>4, NamingFinite DEF CInv, EInv, IInv, TypeOK
    <3>5. PICK x \in {0, 1} : x = IF xr[w] # None /\ cc[w] = d THEN 1 ELSE 0
      BY SMT
    <3>6. Live(w) \/ w >= nid => owed[w][d] = subs[d][w] + Notices(deaths[w], d) + x
      BY <2>1, <3>5 DEF Conserved
    <3>7. Live(w) \/ w >= nid => owed'[w][d] = subs[d][w] + Notices(deaths'[w], d) + x
      BY <3>2, <3>3, <3>4, <3>6, SMTT(20)
    <3> QED
      BY <2>2, <3>5, <3>7 DEF Conserved, Live
  <2> QED
    BY <2>3, <2>4
<1> QED
  BY <1>2, <1>8 DEF Accounts

LEMMA NotifyCounts ==
    ASSUME CInv, NEW t \in Tids, NEW d \in Tids, NotifyOnExit(t, d)
    PROVE  (\A u \in Tids : Framed(u))' /\ Accounts'
<1>0. UNCHANGED <<st, dl, cc, xr, nid, kont, woke, buf>>
  BY DEF NotifyOnExit, Return, hart, frames
<1>1. StillDead
  BY <1>0, NobodyBorn
<1>2. ASSUME NEW u \in Tids PROVE Framed(u)'
  BY <1>0, <1>1, FramedKept DEF CInv, Untouched
<1>3. PICK D : D = Tids \X (Nat \cup {MAX})
  OBVIOUS
<1>4. /\ deaths \in [Tids -> Seq(D)] /\ owed \in [Tids -> [Tids -> Int]]
      /\ subs \in [Tids -> [Tids -> Nat]]
  BY <1>3 DEF CInv, EInv, IInv, TypeOK
<1>5. /\ Live(t) /\ owed' = [owed EXCEPT ![t][d] = @ + 1]
      /\ \/ /\ Live(d) /\ subs' = [subs EXCEPT ![d][t] = @ + 1]
            /\ UNCHANGED deaths
         \/ /\ ~Live(d) /\ deaths' = [deaths EXCEPT ![t] = Append(@, <<d, 0>>)]
            /\ UNCHANGED subs
  BY DEF NotifyOnExit, Enter
<1>6. ~(t >= nid)
  BY <1>5 DEF CInv, EInv, IInv, Safety, FreshInv, Live
<1>7. \A w, e \in Tids : owed'[w][e] = owed[w][e] + (IF w = t /\ e = d THEN 1 ELSE 0)
  <2>1. owed' = [owed EXCEPT ![t][d] = @ + 1] /\ owed \in [Tids -> [Tids -> Int]]
    BY <1>4, <1>5
  <2>2. \A w, e \in Tids : [owed EXCEPT ![t][d] = @ + 1][w][e]
                              = owed[w][e] + (IF w = t /\ e = d THEN 1 ELSE 0)
    <3>1. owed \in [Tids -> [Tids -> Int]]
      BY <1>4
    <3> QED
      BY <3>1, OneMore, SMTT(20)
  <2> QED
    BY <2>1, <2>2
<1>8. \A w, e \in Tids :
         /\ subs[e][w] \in Nat /\ Notices(deaths[w], e) \in Nat
         /\ owed[w][e] \in Int
  BY <1>4, NamingFinite
<1>9. /\ \A w, e \in Tids : (w # t \/ e # d) =>
            subs'[e][w] = subs[e][w] /\ Notices(deaths'[w], e) = Notices(deaths[w], e)
      /\ subs'[d][t] + Notices(deaths'[t], d) = subs[d][t] + Notices(deaths[t], d) + 1
      /\ Live(d) \/ subs'[d][t] = subs[d][t]
  <2>1. CASE Live(d) /\ subs' = [subs EXCEPT ![d][t] = @ + 1] /\ UNCHANGED deaths
    <3>1. /\ \A w, e \in Tids : (w # t \/ e # d) => subs'[e][w] = subs[e][w]
          /\ subs'[d][t] = subs[d][t] + 1
      BY <1>4, <2>1, SMTT(20)
    <3>2. deaths' = deaths
      BY <2>1
    <3>3. subs'[d][t] + Notices(deaths[t], d) = subs[d][t] + Notices(deaths[t], d) + 1
      BY <1>8, <3>1, SMTT(20)
    <3> QED
      BY <2>1, <3>1, <3>2, <3>3
  <2>2. CASE ~Live(d) /\ deaths' = [deaths EXCEPT ![t] = Append(@, <<d, 0>>)]
             /\ UNCHANGED subs
    <3>1. /\ \A w \in Tids : w # t => deaths'[w] = deaths[w]
          /\ deaths'[t] = Append(deaths[t], <<d, 0>>)
      BY <1>4, <2>2
    <3>2. PICK z \in D : z = <<d, 0>> /\ z[1] = d
      <4>1. <<d, 0>> \in D /\ <<d, 0>>[1] = d
        BY <1>3
      <4> QED
        BY <4>1
    <3>3. /\ Notices(deaths'[t], d) = Notices(deaths[t], d) + 1
          /\ \A e \in Tids : e # d => Notices(deaths'[t], e) = Notices(deaths[t], e)
      <4>1. \A e : Notices(Append(deaths[t], z), e)
                     = Notices(deaths[t], e) + (IF z[1] = e THEN 1 ELSE 0)
        <5>1. deaths[t] \in Seq(D)
          BY <1>4
        <5> QED
          BY <5>1, NoticesAppend
      <4>2. \A e \in Tids : Notices(deaths[t], e) + 0 = Notices(deaths[t], e)
        BY <1>8, SMTT(20)
      <4> QED
        BY <3>1, <3>2, <4>1, <4>2
    <3>4. subs' = subs
      BY <2>2
    <3>5. subs[d][t] + Notices(deaths'[t], d) = subs[d][t] + Notices(deaths[t], d) + 1
      BY <1>8, <3>3, SMTT(20)
    <3> QED
      BY <3>1, <3>3, <3>4, <3>5
  <2> QED
    BY <1>5, <2>1, <2>2
<1>10. ASSUME NEW w \in Tids, NEW e \in Tids PROVE Listed(w, e)' /\ Conserved(w, e)'
  <2>1. Listed(w, e) /\ Conserved(w, e)
    BY DEF CInv, Accounts
  <2>2. Listed(w, e)'
    BY <1>0, <1>6, <1>9, <2>1 DEF Listed, Live
  <2>3. PICK x \in {0, 1} : x = IF xr[w] # None /\ cc[w] = e THEN 1 ELSE 0
    BY SMT
  <2>4. Live(w) \/ w >= nid => owed[w][e] = subs[e][w] + Notices(deaths[w], e) + x
    BY <2>1, <2>3 DEF Conserved
  <2>5. subs'[e][w] \in Int /\ Notices(deaths'[w], e) \in Int
    <3>1. subs' \in [Tids -> [Tids -> Nat]] /\ deaths' \in [Tids -> Seq(D)]
      BY <1>3, NotifyOnExitInv DEF CInv, EInv, IInv, TypeOK
    <3>2. subs'[e][w] \in Nat /\ Notices(deaths'[w], e) \in Nat
      BY <3>1, NamingFinite
    <3> QED
      BY <3>2, SMTT(20)
  <2>6. Live(w) \/ w >= nid => owed'[w][e] = subs'[e][w] + Notices(deaths'[w], e) + x
    <3>1. CASE w = t /\ e = d
      BY <1>7, <1>8, <1>9, <2>4, <2>5, <3>1, SMTT(20)
    <3>2. CASE ~(w = t /\ e = d)
      BY <1>7, <1>8, <1>9, <2>4, <2>5, <3>2, SMTT(20)
    <3> QED
      BY <3>1, <3>2
  <2> QED
    BY <1>0, <2>2, <2>3, <2>6 DEF Conserved, Live
<1> QED
  BY <1>2, <1>10 DEF Accounts

LEMMA SpawnCounts ==
    ASSUME CInv, NEW t \in Tids, Spawn(t)
    PROVE  (\A u \in Tids : Framed(u))' /\ Accounts'
<1>1. nid \in Tids /\ nid' = nid + 1 /\ nid >= nid
  <2>1. nid \in 1 .. N + 1
    BY DEF CInv, EInv, IInv, TypeOK
  <2>2. nid <= N /\ nid' = nid + 1
    BY DEF Spawn
  <2> QED
    BY <2>1, <2>2, TidsAssumption, SMT DEF Tids
<1>2. /\ st' = [st EXCEPT ![nid] = "Ready"]
      /\ UNCHANGED <<dl, cc, xr, deaths, subs, kont, woke, buf, owed>>
  BY DEF Spawn, frames
<1>3. st[nid] = "Gone" /\ st \in [Tids -> States]
  BY <1>1 DEF CInv, EInv, IInv, Safety, FreshInv, TypeOK
<1>4. st'[nid] = "Ready" /\ \A u \in Tids \ {nid} : st'[u] = st[u]
  BY <1>1, <1>2, <1>3
<1>5. StillDead
  <2>1. \A d \in Tids : d < nid => d # nid
    BY <1>1, SMT DEF Tids
  <2>2. nid \in Int /\ nid' \in Int /\ nid <= nid'
    BY <1>1, SMTT(20) DEF Tids
  <2> QED
    BY <1>4, <2>1, <2>2 DEF StillDead, Live
<1>6. xr[nid] = None /\ kont[nid] # "recvt" /\ woke[nid] # "death"
  BY <1>1, <1>3 DEF CInv, Framed
<1>7. ASSUME NEW u \in Tids PROVE Framed(u)'
  <2>1. CASE u = nid
    <3>1. /\ kont[nid] = "recv" =>
                 \/ cc[nid] # None /\ buf[nid] = Msg(cc[nid])
                 \/ cc[nid] = None /\ \E s \in Tids : buf[nid] = Msg(s) /\ ~Live(s) /\ s < nid
      BY <1>1, <1>3, <1>6 DEF CInv, Framed
    <3>2. \A s \in Tids : ~Live(s) /\ s < nid => ~Live(s)' /\ s < nid'
      <4>1. \A s \in Tids : s < nid => s < nid'
        BY <1>1, SMTT(20) DEF Tids
      <4> QED
        BY <1>5, <4>1 DEF StillDead
    <3> QED
      BY <1>2, <1>4, <1>6, <2>1, <3>1, <3>2 DEF Framed, Live
  <2>2. CASE u # nid
    BY <1>2, <1>4, <1>5, <2>2, FramedKept DEF CInv, Untouched
  <2> QED
    BY <2>1, <2>2
<1>8. \A u \in Tids : u >= nid' => u >= nid
  BY <1>1, SMT DEF Tids
<1>9. ASSUME NEW w \in Tids, NEW d \in Tids PROVE Listed(w, d)' /\ Conserved(w, d)'
  <2>1. Listed(w, d) /\ Conserved(w, d)
    BY DEF CInv, Accounts
  <2>2. Listed(w, d)'
    BY <1>2, <1>3, <1>4, <1>8, <2>1 DEF Listed, Live
  <2>3. Live(w)' \/ w >= nid' => Live(w) \/ w >= nid
    BY <1>1, <1>4, <1>8 DEF Live
  <2> QED
    BY <1>2, <2>1, <2>2, <2>3 DEF Conserved
<1> QED
  BY <1>7, <1>9 DEF Accounts

\* A death: what is removed from the lists of x is queued, or stashed.
LEMMA ExitCounts ==
    ASSUME CInv, NEW x \in Tids, NEW reason \in Nat \cup {MAX}, Live(x),
           exit_task(x, reason), nid' = nid
    PROVE  (\A u \in Tids : Framed(u))' /\ Accounts'
<1> DEFINE woken == StuckSenders(x) \cup LiveWaiters(x) \cup ParkedWatchers(x)
<1>1. reason # None /\ x < nid /\ x # None
  <2>1. ~(x >= nid)
    BY DEF CInv, EInv, IInv, Safety, FreshInv, Live
  <2>2. nid \in Int
    BY SMT DEF CInv, EInv, IInv, TypeOK
  <2>3. x < nid
    BY <2>1, <2>2, SMTT(20) DEF Tids
  <2> QED
    BY <2>3, Values
<1>2. \A t \in Tids : st'[t] = "Gone" <=> st[t] = "Gone" \/ t = x
  BY ExitStates DEF CInv, EInv
<1>3. StillDead
  <2>1. nid \in Int /\ nid <= nid
    BY SMTT(20) DEF CInv, EInv, IInv, TypeOK
  <2> QED
    BY <1>2, <2>1 DEF StillDead, Live
<1>4. \A t \in Tids :
         /\ cc'[t] = IF t \in ParkedWatchers(x) THEN x
                     ELSE IF t = x \/ cc[t] = x THEN None ELSE cc[t]
         /\ xr'[t] = IF t \in ParkedWatchers(x) THEN reason
                     ELSE IF t = x THEN None ELSE xr[t]
         /\ st'[t] = IF t = x THEN "Gone" ELSE IF t \in woken THEN "Ready" ELSE st[t]
         /\ dl'[t] = IF t = x \/ t \in woken THEN None ELSE dl[t]
         /\ woke'[t] = IF t \in LiveWaiters(x) THEN "exit"
                       ELSE IF t \in StuckSenders(x) THEN "gone"
                       ELSE IF t \in ParkedWatchers(x) THEN "death"
                       ELSE IF t = x THEN "none" ELSE woke[t]
  BY DEF exit_task
<1>5. /\ \A t \in Tids \ {x} : kont'[t] = kont[t] /\ buf'[t] = buf[t]
      /\ kont'[x] = "user"
  <2>1. kont' = [kont EXCEPT ![x] = "user"] /\ buf' = [buf EXCEPT ![x] = NoMsg]
    BY DEF exit_task
  <2>2. /\ kont \in [Tids -> Konts]
        /\ buf \in [Tids -> Bufs]
    BY DEF CInv, EInv, IInv, TypeOK
  <2> QED
    BY <2>1, <2>2
<1>6. \A t \in Tids :
         /\ t \in StuckSenders(x) => st[t] = "Sending" /\ t # x
         /\ t \in ParkedWatchers(x) => st[t] = "Recv" /\ t # x /\ t \notin LiveWaiters(x)
         /\ t \in LiveWaiters(x) => t # x /\ Live(t) /\ waiters[x][t] > 0
  BY DEF StuckSenders, ParkedWatchers, LiveWaiters
<1>7. \A t \in Tids : t \in LiveWaiters(x) => st[t] = "Waiting"
  <2> SUFFICES ASSUME NEW t \in Tids, t \in LiveWaiters(x), st[t] # "Waiting" PROVE FALSE
    OBVIOUS
  <2>1. Single(t) /\ Live(t)
    BY <1>6 DEF CInv, EInv, Exact
  <2>2. waiters[x][t] = 0
    BY <2>1 DEF Single
  <2>3. ~(0 > 0)
    BY SMT
  <2> QED
    BY <1>6, <2>2, <2>3
<1> HIDE DEF woken
<1>8. ASSUME NEW t \in Tids PROVE Framed(t)'
  <2>1. Framed(t)
    BY DEF CInv
  <2>2. CASE t = x
    BY <1>4, <1>5, <1>6, <2>2, FramedFresh
  <2>3. CASE t \in ParkedWatchers(x)
    <3>1. st[t] = "Recv" /\ t # x /\ t \notin LiveWaiters(x) /\ t \notin StuckSenders(x)
      BY <1>6, <2>3
    <3>2. t \in woken
      BY <2>3 DEF woken
    <3>3. kont'[t] = "recv"
      BY <1>5, <2>1, <3>1 DEF Framed
    <3>4. /\ xr'[t] = reason /\ woke'[t] = "death" /\ cc'[t] = x /\ st'[t] = "Ready"
      BY <1>4, <2>3, <3>1, <3>2
    <3>5. ~Live(x)'
      BY <1>2 DEF Live
    <3> QED
      BY <1>1, <3>3, <3>4, <3>5 DEF Framed, Live
  <2>4. CASE t # x /\ t \notin ParkedWatchers(x)
    <3>1. kont'[t] = kont[t] /\ buf'[t] = buf[t] /\ xr'[t] = xr[t]
      BY <1>4, <1>5, <2>4
    <3>2. cc'[t] = IF cc[t] = x THEN None ELSE cc[t]
      BY <1>4, <2>4
    <3>3. st'[t] \in {st[t], "Ready"} /\ (st'[t] = st[t] => dl'[t] \in {dl[t], None})
      BY <1>4, <2>4
    <3>4. st[t] = "Recv" => st'[t] = "Recv" \/ st'[t] = "Ready"
      BY <3>3
    <3>5. xr[t] # None => woke'[t] = "death" /\ cc'[t] = cc[t] /\ st'[t] \in {"Ready", "Running"}
      <4> SUFFICES ASSUME xr[t] # None
                   PROVE  woke'[t] = "death" /\ cc'[t] = cc[t] /\ st'[t] \in {"Ready", "Running"}
        OBVIOUS
      <4>1. st[t] \in {"Ready", "Running"} /\ woke[t] = "death" /\ ~Live(cc[t])
        BY <2>1 DEF Framed
      <4>2. t \notin LiveWaiters(x) /\ t \notin StuckSenders(x)
        BY <1>6, <1>7, <4>1
      <4> QED
        BY <1>4, <2>4, <3>2, <3>3, <4>1, <4>2
    <3>6. xr[t] = None => woke'[t] # "death"
      BY <1>4, <2>1, <2>4 DEF Framed
    <3>7. st'[t] = "Recv" => kont[t] = "recv" /\ dl'[t] = None
      BY <1>4, <2>1, <2>4 DEF Framed
    <3>8. st'[t] = "Sending" => kont[t] = "send"
      BY <2>1, <3>3 DEF Framed
    <3>9. xr[t] # None => /\ kont[t] = "recv" /\ cc'[t] \in Tids
                          /\ ~Live(cc[t])' /\ cc'[t] < nid'
      BY <1>3, <2>1, <3>5 DEF Framed, StillDead
    <3>10. kont[t] = "recv" /\ st'[t] # "Recv" /\ xr[t] = None =>
              \/ cc'[t] # None /\ buf[t] = Msg(cc'[t])
              \/ cc'[t] = None /\ \E s \in Tids : buf[t] = Msg(s) /\ ~Live(s)' /\ s < nid'
      <4> SUFFICES ASSUME kont[t] = "recv", st'[t] # "Recv", xr[t] = None
                   PROVE  \/ cc'[t] # None /\ buf[t] = Msg(cc'[t])
                          \/ cc'[t] = None /\ \E s \in Tids :
                                buf[t] = Msg(s) /\ ~Live(s)' /\ s < nid'
        OBVIOUS
      <4>1. st[t] # "Recv"
        <5> SUFFICES ASSUME st[t] = "Recv" PROVE FALSE
          OBVIOUS
        <5>1. t \notin LiveWaiters(x) /\ t \notin StuckSenders(x)
          BY <1>6, <1>7
        <5> QED
          BY <1>4, <2>4, <5>1 DEF woken
      <4>2. \/ cc[t] # None /\ buf[t] = Msg(cc[t])
            \/ cc[t] = None /\ \E s \in Tids : buf[t] = Msg(s) /\ ~Live(s) /\ s < nid
        BY <2>1, <4>1 DEF Framed
      <4>3. CASE cc[t] = x
        <5>1. ~Live(x)'
          BY <1>2 DEF Live
        <5> QED
          BY <1>1, <3>2, <4>2, <4>3, <5>1
      <4>4. CASE cc[t] # x
        BY <1>3, <3>2, <4>2, <4>4 DEF StillDead
      <4> QED
        BY <4>3, <4>4
    <3>11. kont[t] # "recvt"
      BY <2>1 DEF Framed
    <3> QED
      BY <3>1, <3>5, <3>6, <3>7, <3>8, <3>9, <3>10, <3>11 DEF Framed, Live
  <2> QED
    BY <2>2, <2>3, <2>4
<1>9. PICK D : D = Tids \X (Nat \cup {MAX})
  OBVIOUS
<1>10. /\ deaths \in [Tids -> Seq(D)] /\ owed \in [Tids -> [Tids -> Int]]
       /\ subs \in [Tids -> [Tids -> Nat]]
  BY <1>9 DEF CInv, EInv, IInv, TypeOK
<1>11. PICK e \in D : e = <<x, reason>> /\ e[1] = x
  <2>1. <<x, reason>> \in D /\ <<x, reason>>[1] = x
    BY <1>9
  <2> QED
    BY <2>1
<1>12. \A w, d \in Tids : subs'[d][w] = IF d = x THEN 0 ELSE subs[d][w]
  <2>1. subs' = [subs EXCEPT ![x] = Zero]
    BY DEF exit_task
  <2> QED
    BY <1>10, <2>1 DEF Zero
<1>13. \A w \in Tids \ {x} : owed'[w] = owed[w]
  <2>1. owed' = [owed EXCEPT ![x] = Zero]
    BY DEF exit_task
  <2> QED
    BY <1>10, <2>1
<1>14. ASSUME NEW w \in Tids, w # x, NEW d \in Tids
       PROVE  Notices(deaths'[w], d)
                = Notices(deaths[w], d) + (IF x = d THEN QueuedDeaths(x, w) ELSE 0)
  <2>1. deaths[w] \in Seq(D) /\ QueuedDeaths(x, w) \in Nat
    BY <1>10, Counts DEF CInv, EInv, IInv
  <2>2. deaths'[w] = deaths[w] \o [i \in 1 .. QueuedDeaths(x, w) |-> e]
    BY <1>11, <1>14 DEF exit_task
  <2>3. PICK k \in Nat : k = QueuedDeaths(x, w)
    BY <2>1
  <2>4. PICK r : r = [i \in 1 .. k |-> e]
    OBVIOUS
  <2>5. PICK q \in Seq(D) : q = deaths[w]
    BY <2>1
  <2>6. /\ e[1] = d => Notices(q \o r, d) = Notices(q, d) + k
        /\ e[1] # d => Notices(q \o r, d) = Notices(q, d) + 0
    BY <2>4, NoticesConcat, SMTT(20)
  <2> QED
    BY <1>11, <2>2, <2>3, <2>4, <2>5, <2>6
<1>15. ASSUME NEW w \in Tids, NEW d \in Tids PROVE Listed(w, d)' /\ Conserved(w, d)'
  <2>1. Listed(w, d) /\ Conserved(w, d) /\ Listed(w, x) /\ Framed(w)
    BY DEF CInv, Accounts
  <2>2. Listed(w, d)'
    BY <1>2, <1>12, <2>1 DEF Listed, Live
  <2>3. w # x /\ (Live(w)' \/ w >= nid') => Live(w) \/ w >= nid
    BY <1>2 DEF Live
  <2>4. ~(Live(x)' \/ x >= nid')
    BY <1>1, <1>2, SMTT(20) DEF Live, Tids, CInv, EInv, IInv, TypeOK
  <2>5. ASSUME w # x, Live(w) \/ w >= nid
        PROVE  owed'[w][d] = subs'[d][w] + Notices(deaths'[w], d)
                             + (IF xr'[w] # None /\ cc'[w] = d THEN 1 ELSE 0)
    <3>1. owed'[w][d] = subs[d][w] + Notices(deaths[w], d)
                        + (IF xr[w] # None /\ cc[w] = d THEN 1 ELSE 0)
      BY <1>13, <2>1, <2>5 DEF Conserved
    <3>2. /\ subs[d][w] \in Nat /\ Notices(deaths[w], d) \in Nat
          /\ QueuedDeaths(x, w) \in Nat
      BY <1>10, NamingFinite, Counts DEF CInv, EInv, IInv
    <3>3. Notices(deaths'[w], d)
            = Notices(deaths[w], d) + (IF x = d THEN QueuedDeaths(x, w) ELSE 0)
      BY <1>14, <2>5
    <3>4. xr[w] # None => cc[w] # x
      BY <2>1 DEF Framed
    <3>5. CASE w \in ParkedWatchers(x)
      <4>1. /\ xr[w] = None /\ xr'[w] = reason /\ cc'[w] = x
            /\ st[w] = "Recv"
        BY <1>4, <1>6, <2>1, <3>5 DEF Framed
      <4>2. QueuedDeaths(x, w) = subs[x][w] - 1
        BY <2>5, <3>5, <4>1 DEF QueuedDeaths, Live
      <4>3. CASE d = x
        BY <1>1, <1>12, <3>1, <3>2, <3>3, <4>1, <4>2, <4>3, SMTT(20)
      <4>4. CASE d # x
        BY <1>1, <1>12, <3>1, <3>2, <3>3, <4>1, <4>4, SMTT(20)
      <4> QED
        BY <4>3, <4>4
    <3>6. CASE w \notin ParkedWatchers(x)
      <4>1. /\ xr'[w] = xr[w] /\ (xr[w] # None => cc'[w] = cc[w])
        BY <1>4, <2>5, <3>4, <3>6
      <4>2. QueuedDeaths(x, w) = IF Live(w) THEN subs[x][w] - 0 ELSE 0
        BY <2>5, <3>6 DEF QueuedDeaths
      <4>3. ~Live(w) => subs[x][w] = 0
        BY <2>1, <2>5 DEF Listed
      <4>4. (xr'[w] # None /\ cc'[w] = d) <=> (xr[w] # None /\ cc[w] = d)
        BY <4>1
      <4>5. CASE d = x
        BY <1>12, <3>1, <3>2, <3>3, <3>4, <4>2, <4>3, <4>4, <4>5, SMTT(20)
      <4>6. CASE d # x
        BY <1>12, <3>1, <3>2, <3>3, <4>4, <4>6, SMTT(20)
      <4> QED
        BY <4>5, <4>6
    <3> QED
      BY <3>5, <3>6
  <2>6. Conserved(w, d)'
    BY <2>3, <2>4, <2>5 DEF Conserved
  <2> QED
    BY <2>2, <2>6
<1> QED
  BY <1>8, <1>15 DEF Accounts

LEMMA TickCounts ==
    ASSUME CInv, Tick
    PROVE  (\A u \in Tids : Framed(u))' /\ Accounts'
<1>1. \A t \in Tids :
         /\ st'[t] = IF Elapsed(t) THEN "Ready" ELSE st[t]
         /\ dl'[t] = IF Elapsed(t) \/ dl[t] = None THEN None ELSE dl[t] - 1
         /\ woke'[t] = IF Elapsed(t) THEN "timeout" ELSE woke[t]
  BY DEF Tick
<1>2. UNCHANGED <<cc, xr, deaths, subs, nid, kont, buf, owed>>
  BY DEF Tick
<1>3. \A t \in Tids : Elapsed(t) => st[t] = "Sleeping"
  BY DEF Elapsed, CInv, Framed
<1>4. \A u \in Tids : st'[u] = "Gone" <=> st[u] = "Gone"
  BY <1>1, <1>3
<1>5. ASSUME NEW t \in Tids PROVE Framed(t)'
  <2>1. Framed(t)
    BY DEF CInv
  <2>2. /\ st'[t] = "Recv" => st[t] = "Recv" /\ (dl[t] = None => dl'[t] = None)
        /\ st'[t] = "Sending" => st[t] = "Sending"
        /\ st[t] = "Recv" => st'[t] = "Recv"
    BY <1>1, <1>3
  <2>3. xr[t] # None => st'[t] = st[t] /\ woke'[t] = "death"
    BY <1>1, <1>3, <2>1 DEF Framed
  <2>4. woke'[t] = "death" => woke[t] = "death"
    BY <1>1
  <2>5. \A s \in Tids : ~Live(s) => ~Live(s)'
    BY <1>4 DEF Live
  <2>6. /\ kont[t] # "recvt"
        /\ st[t] = "Recv" => kont[t] = "recv" /\ dl[t] = None
        /\ st[t] = "Sending" => kont[t] = "send"
        /\ woke[t] = "death" <=> xr[t] # None
        /\ xr[t] # None => /\ kont[t] = "recv" /\ st[t] \in {"Ready", "Running"}
                           /\ cc[t] \in Tids /\ ~Live(cc[t]) /\ cc[t] < nid
        /\ kont[t] = "recv" /\ st[t] # "Recv" /\ xr[t] = None =>
             \/ cc[t] # None /\ buf[t] = Msg(cc[t])
             \/ cc[t] = None /\ \E s \in Tids : buf[t] = Msg(s) /\ ~Live(s) /\ s < nid
    BY <2>1 DEF Framed
  <2>7. xr[t] # None => ~Live(cc[t])'
    BY <1>2, <2>5, <2>6
  <2>8. kont[t] = "recv" /\ st'[t] # "Recv" /\ xr[t] = None =>
             \/ cc[t] # None /\ buf[t] = Msg(cc[t])
             \/ cc[t] = None /\ \E s \in Tids : buf[t] = Msg(s) /\ ~Live(s)' /\ s < nid
    BY <2>2, <2>5, <2>6
  <2> QED
    BY <1>2, <2>2, <2>3, <2>4, <2>6, <2>7, <2>8 DEF Framed
<1>6. Accounts'
  BY <1>2, <1>4, AccountsKept
<1> QED
  BY <1>5, <1>6

\* A round changes Ready and Running tasks into Running and Ready ones.
LEMMA PickCounts ==
    ASSUME CInv, Pick
    PROVE  (\A u \in Tids : Framed(u))' /\ Accounts'
<1>1. UNCHANGED <<cc, xr, deaths, subs, nid, kont, woke, buf, owed>>
  BY DEF Pick, frames
<1>2. \A u \in Tids :
         \/ st'[u] = st[u] /\ dl'[u] = dl[u]
         \/ {st[u], st'[u]} \subseteq {"Ready", "Running"}
  <2>1. ASSUME NEW n \in Tids, Requeued[n] > 0,
               st' = [t \in Tids |-> IF t = n /\ Live(n) THEN "Running"
                                     ELSE IF Preempted /\ t = cur THEN "Ready"
                                     ELSE st[t]],
               dl' = [dl EXCEPT ![n] = None], NEW u \in Tids
        PROVE  \/ st'[u] = st[u] /\ dl'[u] = dl[u]
               \/ {st[u], st'[u]} \subseteq {"Ready", "Running"}
    <3>1. dl \in [Tids -> Nat \cup {None}]
      BY DEF CInv, EInv, IInv, TypeOK
    <3>2. st[n] = "Ready" \/ (Preempted /\ n = cur)
      <4>1. ready[n] = IF st[n] = "Ready" THEN 1 ELSE 0
        BY DEF CInv, EInv, Exact, Single
      <4>2. Requeued[n] = ready[n] + (IF Preempted /\ n = cur THEN 1 ELSE 0)
        BY DEF Requeued
      <4> QED
        BY <2>1, <4>1, <4>2, SMTT(20)
    <3>3. CASE u = n
      BY <2>1, <3>2, <3>3 DEF Preempted, Live
    <3>4. CASE u # n
      BY <2>1, <3>1, <3>4 DEF Preempted
    <3> QED
      BY <3>3, <3>4
  <2>2. CASE UNCHANGED <<st, dl>>
    BY <2>2
  <2> QED
    BY <2>1, <2>2 DEF Pick
<1>3. \A u \in Tids : st'[u] = "Gone" <=> st[u] = "Gone"
  BY <1>2
<1>4. StillDead
  BY <1>1, <1>3, NobodyBorn
<1>5. ASSUME NEW u \in Tids PROVE Framed(u)'
  <2>1. Framed(u)
    BY DEF CInv
  <2>2. CASE st'[u] = st[u] /\ dl'[u] = dl[u]
    BY <1>1, <1>4, <2>1, <2>2, FramedKept DEF Untouched
  <2>3. CASE st[u] \in {"Ready", "Running"} /\ st'[u] \in {"Ready", "Running"}
    <3>1. /\ kont[u] # "recvt"
          /\ woke[u] = "death" <=> xr[u] # None
          /\ xr[u] # None => /\ kont[u] = "recv"
                             /\ cc[u] \in Tids /\ ~Live(cc[u]) /\ cc[u] < nid
          /\ kont[u] = "recv" /\ xr[u] = None =>
               \/ cc[u] # None /\ buf[u] = Msg(cc[u])
               \/ cc[u] = None /\ \E s \in Tids : buf[u] = Msg(s) /\ ~Live(s) /\ s < nid
      BY <2>1, <2>3 DEF Framed
    <3>2. \A s \in Tids : ~Live(s) => ~Live(s)'
      BY <1>3 DEF Live
    <3>3. /\ xr[u] # None => ~Live(cc[u])'
          /\ kont[u] = "recv" /\ xr[u] = None =>
               \/ cc[u] # None /\ buf[u] = Msg(cc[u])
               \/ cc[u] = None /\ \E s \in Tids : buf[u] = Msg(s) /\ ~Live(s)' /\ s < nid
      BY <1>1, <3>1, <3>2
    <3> QED
      BY <1>1, <2>3, <3>1, <3>3 DEF Framed
  <2> QED
    BY <1>2, <2>2, <2>3
<1>6. Accounts'
  BY <1>1, <1>3, AccountsKept
<1> QED
  BY <1>5, <1>6

\* A handler that goes on after yield_cpu: its frame is gone, and a receiver that
\* was woken by a death has been told.
LEMMA ResumptionCounts ==
    ASSUME CInv, NEW t \in Tids, Resumption(t)
    PROVE  (\A u \in Tids : Framed(u))' /\ Accounts'
<1>1. PICK k, op, r, b : Resume(t, k, op, r, b) /\ k \in {"send", "wait", "sleep", "recv", "recvt"}
  BY DEF Resumption, ResumeSend, ResumeWait, ResumeTimer, ResumeRecv, ResumeRecvTimeout
<1>2. /\ cpu = "user" /\ cur = t /\ kont[t] = k
      /\ kont' = [kont EXCEPT ![t] = "user"]
      /\ buf' = [buf EXCEPT ![t] = NoMsg]
      /\ woke' = [woke EXCEPT ![t] = "none"]
      /\ UNCHANGED <<st, dl, cc, deaths, subs, nid>>
  BY <1>1 DEF Resume, queues, hart
<1>3. /\ kont \in [Tids -> Konts] /\ woke \in [Tids -> Wakes]
      /\ buf \in [Tids -> Bufs]
      /\ xr \in [Tids -> Nat \cup {None, MAX}] /\ owed \in [Tids -> [Tids -> Int]]
  BY DEF CInv, EInv, IInv, TypeOK
<1>4. /\ kont'[t] = "user" /\ woke'[t] = "none"
      /\ \A u \in Tids \ {t} : kont'[u] = kont[u] /\ woke'[u] = woke[u] /\ buf'[u] = buf[u]
  BY <1>2, <1>3
<1>5. st[t] = "Running" /\ Live(t) /\ k # "recvt"
  <2>1. st[t] = "Running"
    <3>1. t # 0
      BY SMT DEF Tids
    <3> QED
      BY <1>2, <3>1 DEF CInv, EInv, Exact, CurRuns
  <2>2. kont[t] # "recvt"
    BY DEF CInv, Framed
  <2> QED
    BY <1>2, <2>1, <2>2 DEF Live
<1>6. /\ xr'[t] = None /\ \A u \in Tids \ {t} : xr'[u] = xr[u]
      /\ IF xr[t] # None THEN owed' = [owed EXCEPT ![t][cc[t]] = @ - 1] ELSE owed' = owed
  <2>1. Framed(t)
    BY DEF CInv
  <2>2. CASE k # "recv"
    <3>1. xr[t] = None
      BY <1>2, <2>1, <2>2 DEF Framed
    <3>2. UNCHANGED <<xr, owed>>
      BY <1>2, <1>5, <2>2 DEF Resumption, ResumeSend, ResumeWait, ResumeTimer,
                              ResumeRecv, ResumeRecvTimeout, Resume
    <3> QED
      BY <3>1, <3>2
  <2>3. CASE k = "recv"
    <3>1. xr' = [xr EXCEPT ![t] = None] /\ Told(t)
      BY <1>2, <2>3 DEF Resumption, ResumeSend, ResumeWait, ResumeTimer,
                        ResumeRecv, ResumeRecvTimeout, Resume
    <3>2. xr[t] # None <=> woke[t] = "death" /\ cc[t] \in Tids
      BY <2>1 DEF Framed
    <3> QED
      BY <1>3, <3>1, <3>2 DEF Told
  <2> QED
    BY <2>2, <2>3
<1>7. StillDead
  BY <1>2, NobodyBorn
<1>8. ASSUME NEW u \in Tids PROVE Framed(u)'
  <2>1. CASE u = t
    BY <1>2, <1>4, <1>5, <1>6, <2>1, FramedFresh
  <2>2. CASE u # t
    BY <1>2, <1>4, <1>6, <1>7, <2>2, FramedKept DEF CInv, Untouched
  <2> QED
    BY <2>1, <2>2
<1>9. PICK D : D = Tids \X (Nat \cup {MAX})
  OBVIOUS
<1>10. deaths \in [Tids -> Seq(D)] /\ subs \in [Tids -> [Tids -> Nat]]
  BY <1>9 DEF CInv, EInv, IInv, TypeOK
<1>11. ASSUME NEW w \in Tids, NEW d \in Tids PROVE Listed(w, d)' /\ Conserved(w, d)'
  <2>1. Listed(w, d) /\ Conserved(w, d)
    BY DEF CInv, Accounts
  <2>2. Listed(w, d)'
    BY <1>2, <2>1 DEF Listed, Live
  <2>3. CASE w # t \/ xr[t] = None
    <3>1. owed'[w] = owed[w] /\ xr'[w] = xr[w]
      BY <1>3, <1>6, <2>3
    <3> QED
      BY <1>2, <2>1, <2>2, <3>1 DEF Conserved, Live
  <2>4. CASE w = t /\ xr[t] # None
    <3>1. cc[t] \in Tids
      BY <2>4 DEF CInv, Framed
    <3>2. owed'[t][d] = owed[t][d] - (IF cc[t] = d THEN 1 ELSE 0)
      <4>1. owed[t][d] \in Int /\ owed[t][d] - 0 = owed[t][d]
        BY <1>3, SMTT(20)
      <4>2. owed' = [owed EXCEPT ![t][cc[t]] = @ - 1]
        BY <1>6, <2>4
      <4>3. CASE cc[t] = d
        BY <1>3, <4>2, <4>3
      <4>4. CASE cc[t] # d
        BY <1>3, <3>1, <4>1, <4>2, <4>4
      <4> QED
        BY <4>3, <4>4
    <3>3. subs[d][t] \in Nat /\ Notices(deaths[t], d) \in Nat
      BY <1>10, NamingFinite
    <3>4. owed[t][d] = subs[d][t] + Notices(deaths[t], d) + (IF cc[t] = d THEN 1 ELSE 0)
      BY <1>5, <2>1, <2>4 DEF Conserved
    <3>5. owed'[t][d] = subs[d][t] + Notices(deaths[t], d) + 0
      BY <3>2, <3>3, <3>4, SMTT(20)
    <3> QED
      BY <1>2, <1>6, <2>2, <2>4, <3>5 DEF Conserved
  <2> QED
    BY <2>3, <2>4
<1> QED
  BY <1>8, <1>11 DEF Accounts

LEMMA NextCInv ==
    ASSUME Plain
    PROVE  CInv /\ [Next]_vars => CInv'
<1> DEFINE G == (\A u \in Tids : Framed(u))' /\ Accounts'
<1>0. SUFFICES ASSUME CInv, [Next]_vars PROVE G
  BY NextExact DEF CInv, Plain
<1> USE DEF queues, hart, frames, task
<1> HIDE DEF G
<1>1. ASSUME UNCHANGED <<st, dl, cc, xr, kont, woke, buf, deaths, owed, subs, nid>>
      PROVE  G
  BY <1>0, <1>1, QuietCounts DEF G
<1>2. ASSUME NEW x \in Tids, NEW e \in Nat \cup {MAX}, Live(x), exit_task(x, e), nid' = nid
      PROVE  G
  BY <1>0, <1>2, ExitCounts DEF G
<1>3. ASSUME NEW t \in Tids, NEW d \in Tids, Send(t, d) PROVE G
  <2>1. CASE Return("Send", MAX) /\ UNCHANGED <<task, queues, frames, owed>>
    BY <1>1, <2>1 DEF Return
  <2>2. CASE Deliver(t, d) /\ Return("Send", 0)
    BY <1>0, <2>2, DeliverCounts DEF Return, G
  <2>3. CASE BlockInSend(t, d) /\ Park(t, "send")
    BY <1>0, <1>3, <2>3, ParkCounts DEF Send, BlockInSend, G
  <2> QED
    BY <1>3, <2>1, <2>2, <2>3 DEF Send
<1>4. ASSUME NEW t \in Tids, NEW p \in Tids, Wait(t, p) PROVE G
  <2>1. CASE Return("Wait", MAX) /\ UNCHANGED <<task, queues, frames, owed>>
    BY <1>1, <2>1 DEF Return
  <2>2. CASE ~(Return("Wait", MAX) /\ UNCHANGED <<task, queues, frames, owed>>)
    <3>1. /\ Enter(t, "Wait") /\ Park(t, "wait")
          /\ st' = [st EXCEPT ![t] = "Waiting"] /\ dl' = [dl EXCEPT ![t] = None]
          /\ UNCHANGED <<cc, xr, deaths, subs, owed>>
      BY <1>4, <2>2 DEF Wait
    <3> QED
      BY <1>0, <3>1, ParkCounts DEF G
  <2> QED
    BY <2>1, <2>2
<1>5. ASSUME NEW t \in Tids, Recv(t) PROVE G
  <2>1. CASE deaths[t] # << >>
    <3>1. /\ deaths' = [deaths EXCEPT ![t] = Tail(@)]
          /\ owed' = [owed EXCEPT ![t][Head(deaths[t])[1]] = @ - 1]
          /\ UNCHANGED <<st, dl, cc, xr, subs, nid, kont, woke, buf>>
      BY <1>5, <2>1 DEF Recv
    <3> QED
      BY <1>0, <2>1, <3>1, TakeDeathCounts DEF G
  <2>2. CASE Senders(t) # {} /\ TakeFrom(t, Lowest(Senders(t)), "Recv")
    BY <1>0, <1>5, <2>2, TakeFromCounts DEF Recv, G
  <2>3. CASE BlockInRecv(t, None) /\ Park(t, "recv")
    BY <1>0, <1>5, <2>3, ParkCounts DEF Recv, BlockInRecv, G
  <2> QED
    BY <1>5, <2>1, <2>2, <2>3 DEF Recv
<1>6. ASSUME NEW t \in Tids, TryRecv(t) PROVE G
  <2>1. CASE Senders(t) # {} /\ TakeFrom(t, Lowest(Senders(t)), "TryRecv")
    BY <1>0, <1>6, <2>1, TakeFromCounts DEF TryRecv, G
  <2>2. CASE Return("TryRecv", 0) /\ UNCHANGED <<task, queues, frames, owed>>
    BY <1>1, <2>2 DEF Return
  <2> QED
    BY <1>6, <2>1, <2>2 DEF TryRecv
<1>7. ASSUME NEW t \in Tids, NEW i, SetTimer(t, i) PROVE G
  BY <1>0, <1>7, ParkCounts DEF SetTimer, G
<1>8. ASSUME NEW t \in Tids, NEW i, Yield(t) \/ Heartbeat(t, i) PROVE G
  BY <1>1, <1>8 DEF Yield, Heartbeat, Return
<1>9. ASSUME NEW t \in Tids, NEW x \in Tids, ForceExit(t, x) PROVE G
  <2>1. CASE Live(x) /\ exit_task(x, MAX)
    BY <1>2, <1>9, <2>1 DEF ForceExit, Return
  <2>2. CASE UNCHANGED <<task, queues, frames, owed>>
    BY <1>1, <1>9, <2>2 DEF ForceExit, Return
  <2> QED
    BY <1>9, <2>1, <2>2 DEF ForceExit
<1>10. ASSUME NEW t \in Tids, NEW c \in Codes, Exit(t, c) \/ Fault(t) PROVE G
  <2>1. c \in Nat
    BY ValuesAssumption
  <2> QED
    BY <1>2, <1>10, <2>1 DEF Exit, Fault, Enter
<1>11. ASSUME NEW t \in Tids, Fault(t) PROVE G
  BY <1>2, <1>11 DEF Fault, Enter
<1>12. CASE KillHung
  <2>1. Lowest(Hung) \in Hung
    BY <1>12, LowestIn DEF KillHung, Hung
  <2>2. Lowest(Hung) \in Tids /\ Live(Lowest(Hung))
    BY <2>1 DEF Hung
  <2> QED
    BY <1>2, <1>12, <2>2 DEF KillHung
<1>13. CASE WatchdogKill
  <2>1. cur \in Tids /\ Live(cur)
    BY <1>0, <1>13 DEF WatchdogKill, Preempted, Live, CInv, EInv, IInv, TypeOK
  <2> QED
    BY <1>2, <1>13, <2>1 DEF WatchdogKill
<1>14. ASSUME NEW t \in Tids, NEW d PROVE ~RecvTimeout(t, d)
  BY DEF Plain, RecvTimeout, Enter, Syscalls
<1>15. ASSUME NEW t \in Tids, Handler(t) PROVE G
  <2>1. ASSUME NEW d \in Tids,
               Send(t, d) \/ SendGather(t, d) \/ Wait(t, d)
                   \/ NotifyOnExit(t, d) \/ ForceExit(t, d)
        PROVE  G
    BY <1>0, <1>3, <1>4, <1>9, <2>1, NotMade, NotifyCounts DEF Plain, G
  <2>2. ASSUME NEW i \in Timeouts,
               RecvTimeout(t, i) \/ SetTimer(t, i) \/ Heartbeat(t, i)
        PROVE  G
    BY <1>7, <1>8, <1>14, <2>2
  <2>3. ASSUME NEW c \in Codes, Reply(t, c) \/ Exit(t, c)
        PROVE  G
    BY <1>10, <2>3, NotMade DEF Plain
  <2>4. CASE Recv(t) \/ TryRecv(t) \/ RecvScatter(t)
    BY <1>5, <1>6, <2>4, NotMade DEF Plain
  <2>5. CASE Yield(t) \/ Spawn(t) \/ Fault(t)
    BY <1>0, <1>8, <1>11, <2>5, SpawnCounts DEF G
  <2> QED
    BY <1>15, <2>1, <2>2, <2>3, <2>4, <2>5 DEF Handler
<1>16. ASSUME NEW t \in Tids, Resumption(t) PROVE G
  BY <1>0, <1>16, ResumptionCounts DEF G
<1>17. CASE Tick \/ Pick
  BY <1>0, <1>17, TickCounts, PickCounts DEF G
<1>18. ASSUME NEW d \in Input, KernelSend(d) PROVE G
  BY <1>0, <1>18, DeliverCounts, InputAssumption DEF KernelSend, G
<1>19. CASE UNCHANGED vars
  BY <1>1, <1>19 DEF vars
<1> QED
  BY <1>0, <1>12, <1>13, <1>15, <1>16, <1>17, <1>18, <1>19 DEF Next, Kernel

\* Where no cell makes Reply, SendGather, RecvScatter or RecvTimeout, a supervisor
\* is told of each death it asked about with NotifyOnExit exactly as often as it
\* asked, whenever and however the task died (exit_task, notify_on_exit, Recv).
THEOREM DeathsAccountedFor == ASSUME Plain PROVE Spec => []DeathsConserved
<1>1. CInv /\ [Next]_vars => CInv'
  BY NextCInv
<1>2. CInv => DeathsConserved
  <2> SUFFICES ASSUME CInv, NEW w \in Tids, NEW d \in Tids, Live(w)
               PROVE  owed[w][d] = (IF Live(d) THEN subs[d][w] ELSE 0)
                                   + Notices(deaths[w], d)
                                   + (IF xr[w] # None /\ cc[w] = d THEN 1 ELSE 0)
    BY DEF DeathsConserved
  <2>1. Listed(w, d) /\ Conserved(w, d)
    BY DEF CInv, Accounts
  <2>2. subs[d][w] = IF Live(d) THEN subs[d][w] ELSE 0
    BY <2>1 DEF Listed
  <2> QED
    BY <2>1, <2>2 DEF Conserved
<1> QED
  BY <1>1, <1>2, InitCInv, PTL DEF Spec

-----------------------------------------------------------------------------
(* What Recv returns *)

\* The tasks of the system are those it starts with.
Static == Plain /\ \A t \in Tids : "Spawn" \notin Allow[t]

\* A queued notification names a task that is dead.
Named == \A w \in Tids : \A i \in 1 .. Len(deaths[w]) : ~Live(deaths[w][i][1])
DInv == CInv /\ Named /\ PayloadMatches

LEMMA OpOf ==
    /\ \A op, r, w, b : Out(op, r, w, b).op = op
    /\ NoOut.op = "none"
  BY SMT DEF Out, NoOut

\* A step that revives nobody and queues no death
LEMMA NamedKept ==
    ASSUME DInv, \A u \in Tids : st[u] = "Gone" => st'[u] = "Gone", deaths' = deaths
    PROVE  Named'
<1>1. ASSUME NEW w \in Tids, NEW i \in 1 .. Len(deaths[w])
      PROVE  st'[deaths[w][i][1]] = "Gone"
  <2>1. deaths[w] \in Seq(Tids \X (Nat \cup {MAX}))
    BY DEF DInv, CInv, EInv, IInv, TypeOK
  <2>2. deaths[w][i][1] \in Tids
    BY <2>1, SMTT(20)
  <2>3. st[deaths[w][i][1]] = "Gone"
    BY DEF DInv, Named, Live
  <2> QED
    BY <2>2, <2>3
<1> QED
  BY <1>1 DEF Named, Live

\* A step that, besides, returns from no Recv
LEMMA SaysNothing ==
    ASSUME DInv, \A u \in Tids : st[u] = "Gone" => st'[u] = "Gone",
           deaths' = deaths, out'.op # "Recv"
    PROVE  Named' /\ PayloadMatches'
  BY NamedKept DEF PayloadMatches

\* exit_task queues deaths of x only, who is dead then.
LEMMA ExitNamed ==
    ASSUME DInv, NEW x \in Tids, NEW reason, exit_task(x, reason), out'.op # "Recv"
    PROVE  Named' /\ PayloadMatches'
<1>1. \A u \in Tids : st'[u] = "Gone" <=> st[u] = "Gone" \/ u = x
  BY ExitStates DEF DInv, CInv, EInv
<1>2. ASSUME NEW w \in Tids, NEW i \in 1 .. Len(deaths'[w])
      PROVE  st'[deaths'[w][i][1]] = "Gone"
  <2>1. PICK q : q = [j \in 1 .. QueuedDeaths(x, w) |-> <<x, reason>>]
    OBVIOUS
  <2>2. deaths'[w] = IF w = x THEN << >> ELSE deaths[w] \o q
    BY <2>1 DEF exit_task
  <2>3. PICK c : c = QueuedDeaths(x, w)
    OBVIOUS
  <2>4. deaths[w] \in Seq(Tids \X (Nat \cup {MAX}))
    BY DEF DInv, CInv, EInv, IInv, TypeOK
  <2>5. c \in Nat
    <3>1. TypeOK
      BY DEF DInv, CInv, EInv, IInv
    <3> QED
      BY <2>3, <3>1, Counts
  <2>6. /\ Len(q) = c /\ \A j \in 1 .. c : q[j] = <<x, reason>>
        /\ q \in Seq({<<x, reason>>})
    BY <2>1, <2>3, <2>5, SMTT(20)
  <2>7. CASE w = x
    BY <2>2, <2>7, SMTT(20)
  <2>8. CASE w # x
    <3>1. deaths'[w] = deaths[w] \o q
      BY <2>2, <2>8
    <3>2. \/ i \in 1 .. Len(deaths[w]) /\ deaths'[w][i] = deaths[w][i]
          \/ deaths'[w][i] = <<x, reason>>
      BY <2>4, <2>5, <2>6, <3>1, SMTT(20)
    <3>3. CASE i \in 1 .. Len(deaths[w]) /\ deaths'[w][i] = deaths[w][i]
      <4>1. deaths[w][i][1] \in Tids
        BY <2>4, <3>3, SMTT(20)
      <4>2. st[deaths[w][i][1]] = "Gone"
        BY <3>3 DEF DInv, Named, Live
      <4> QED
        BY <1>1, <3>3, <4>1, <4>2
    <3>4. CASE deaths'[w][i] = <<x, reason>>
      <4>1. <<x, reason>>[1] = x
        BY SMT
      <4> QED
        BY <1>1, <3>4, <4>1
    <3> QED
      BY <3>2, <3>3, <3>4
  <2> QED
    BY <2>7, <2>8
<1>3. Named'
  BY <1>2 DEF Named, Live
<1> QED
  BY <1>3 DEF PayloadMatches

\* The notification that NotifyOnExit of a dead task queues at once
LEMMA NotifyNamed ==
    ASSUME DInv, NEW t \in Tids, NEW d \in Tids, NotifyOnExit(t, d)
    PROVE  Named' /\ PayloadMatches'
<1>1. st' = st /\ out'.op # "Recv"
  BY DEF NotifyOnExit, Return, Out
<1>2. CASE deaths' = deaths
  BY <1>1, <1>2, SaysNothing
<1>3. CASE ~Live(d) /\ deaths' = [deaths EXCEPT ![t] = Append(@, <<d, 0>>)]
  <2>1. deaths \in [Tids -> Seq(Tids \X (Nat \cup {MAX}))]
    BY DEF DInv, CInv, EInv, IInv, TypeOK
  <2>2. ASSUME NEW w \in Tids, NEW i \in 1 .. Len(deaths'[w])
        PROVE  ~Live(deaths'[w][i][1])
    <3>1. deaths[w] \in Seq(Tids \X (Nat \cup {MAX}))
      BY <2>1
    <3>2. deaths'[w] = IF w = t THEN Append(deaths[w], <<d, 0>>) ELSE deaths[w]
      BY <1>3, <2>1
    <3>3. \/ i \in 1 .. Len(deaths[w]) /\ deaths'[w][i] = deaths[w][i]
          \/ deaths'[w][i] = <<d, 0>>
      BY <3>1, <3>2, SMTT(20)
    <3>4. <<d, 0>>[1] = d
      BY SMT
    <3> QED
      BY <1>3, <3>3, <3>4 DEF DInv, Named
  <2> QED
    BY <1>1, <2>2 DEF Named, Live, PayloadMatches
<1> QED
  BY <1>2, <1>3 DEF NotifyOnExit

\* Recv: the oldest notification, or the message of the lowest sender
LEMMA RecvSays ==
    ASSUME DInv, NEW t \in Tids, Recv(t)
    PROVE  Named' /\ PayloadMatches'
<1>1. CASE deaths[t] # << >>
  <2>1. /\ out' = Out("Recv", Head(deaths[t])[1], "none", Death(Head(deaths[t])[2]))
        /\ deaths' = [deaths EXCEPT ![t] = Tail(@)] /\ st' = st
    BY <1>1 DEF Recv
  <2>2. deaths \in [Tids -> Seq(Tids \X (Nat \cup {MAX}))]
    BY DEF DInv, CInv, EInv, IInv, TypeOK
  <2>3. deaths[t] \in Seq(Tids \X (Nat \cup {MAX}))
    BY <2>2
  <2>4. ASSUME NEW w \in Tids, NEW i \in 1 .. Len(deaths'[w])
        PROVE  ~Live(deaths'[w][i][1])
    <3>1. deaths'[w] = IF w = t THEN Tail(deaths[w]) ELSE deaths[w]
      BY <2>1, <2>2
    <3>2. PICK j \in 1 .. Len(deaths[w]) : deaths'[w][i] = deaths[w][j]
      <4>1. CASE w = t
        <5>1. i + 1 \in 1 .. Len(deaths[t]) /\ Tail(deaths[t])[i] = deaths[t][i + 1]
          BY <1>1, <2>3, <3>1, <4>1, SMTT(20)
        <5> QED
          BY <3>1, <4>1, <5>1
      <4>2. CASE w # t
        BY <3>1, <4>2
      <4> QED
        BY <4>1, <4>2
    <3> QED
      BY <3>2 DEF DInv, Named
  <2>5. Named'
    BY <2>1, <2>4 DEF Named, Live
  <2>6. /\ Head(deaths[t]) = deaths[t][1] /\ 1 \in 1 .. Len(deaths[t])
        /\ deaths[t][1][1] \in Tids /\ deaths[t][1][1] # 0
    BY <1>1, <2>3, SMTT(20) DEF Tids
  <2>7. ~Live(deaths[t][1][1])
    BY <2>6 DEF DInv, Named
  <2>8. Death(Head(deaths[t])[2])[1] = "death"
    BY SMT DEF Death
  <2>9. out'.ret = deaths[t][1][1] /\ out'.buf[1] = "death"
    BY <2>1, <2>6, <2>8 DEF Out
  <2>10. ~Live(out.ret)'
    BY <2>1, <2>7, <2>9 DEF Live
  <2> QED
    BY <2>5, <2>6, <2>9, <2>10 DEF PayloadMatches
<1>2. CASE Senders(t) # {} /\ TakeFrom(t, Lowest(Senders(t)), "Recv")
  <2>1. PICK s : s = Lowest(Senders(t))
    OBVIOUS
  <2>2. s \in Senders(t)
    BY <1>2, <2>1, LowestIn DEF Senders
  <2>3. s \in Tids /\ st[s] = "Sending"
    BY <2>2 DEF Senders
  <2>4. kont[s] = "send"
    BY <2>3 DEF DInv, CInv, Framed
  <2>5. out' = Out("Recv", s, "none", Msg(s))
    BY <1>2, <2>1, <2>4 DEF TakeFrom, Payload
  <2>6. out'.ret = s /\ out'.buf = Msg(s)
    BY <2>5 DEF Out
  <2>7. s # 0
    BY <2>3, SMT DEF Tids
  <2>8. PayloadMatches'
    BY <2>6, <2>7 DEF PayloadMatches
  <2>9. st' = [st EXCEPT ![s] = "Ready"] /\ deaths' = deaths
    BY <1>2, <2>1 DEF TakeFrom
  <2>10. \A u \in Tids : st[u] = "Gone" => st'[u] = "Gone"
    BY <2>3, <2>9 DEF DInv, CInv, EInv, IInv, TypeOK
  <2> QED
    BY <2>8, <2>9, <2>10, NamedKept
<1>3. CASE BlockInRecv(t, None) /\ Park(t, "recv")
  <2>1. /\ st' = [st EXCEPT ![t] = "Recv"] /\ deaths' = deaths /\ out' = NoOut /\ Live(t)
    BY <1>3 DEF BlockInRecv, Park, Recv, Enter
  <2>2. \A u \in Tids : st[u] = "Gone" => st'[u] = "Gone"
    BY <2>1 DEF DInv, CInv, EInv, IInv, TypeOK, Live
  <2> QED
    BY <2>1, <2>2, SaysNothing DEF NoOut
<1> QED
  BY <1>1, <1>2, <1>3 DEF Recv

\* A Recv that was parked returns what it was left with.
LEMMA ResumptionSays ==
    ASSUME DInv, NEW t \in Tids, Resumption(t)
    PROVE  Named' /\ PayloadMatches'
<1>1. st' = st /\ deaths' = deaths
  BY DEF Resumption, ResumeSend, ResumeWait, ResumeTimer, ResumeRecv, ResumeRecvTimeout,
         Resume
<1>2. CASE out'.op # "Recv"
  BY <1>1, <1>2, SaysNothing
<1>3. CASE out'.op = "Recv"
  <2>1. ResumeRecv(t)
    <3>1. ASSUME NEW k, NEW op, NEW r, NEW b, Resume(t, k, op, r, b) PROVE op = "Recv"
      <4>1. out' = Out(op, r, woke[t], b)
        BY <3>1 DEF Resume
      <4> QED
        BY <1>3, <4>1, OpOf, SMTT(20)
    <3>2. ~ResumeSend(t) /\ ~ResumeWait(t)
      BY <3>1 DEF ResumeSend, ResumeWait
    <3>3. ~ResumeTimer(t) /\ ~ResumeRecvTimeout(t)
      BY <3>1 DEF ResumeTimer, ResumeRecvTimeout
    <3> QED
      BY <3>2, <3>3 DEF Resumption
  <2>2. /\ cpu = "user" /\ cur = t /\ kont[t] = "recv"
        /\ out' = Out("Recv", Orzero(cc[t]), woke[t],
                      IF xr[t] = None THEN buf[t] ELSE Death(xr[t]))
    BY <2>1 DEF ResumeRecv, Resume
  <2>3. out'.ret = Orzero(cc[t])
        /\ out'.buf = IF xr[t] = None THEN buf[t] ELSE Death(xr[t])
    BY <2>2 DEF Out
  <2>4. st[t] = "Running"
    <3>1. t # 0
      BY SMT DEF Tids
    <3> QED
      BY <2>2, <3>1 DEF DInv, CInv, EInv, Exact, CurRuns
  <2>5. Framed(t)
    BY DEF DInv, CInv
  <2>6. cc[t] # None => cc[t] \in Tids \cup {0} /\ out'.ret = cc[t]
    <3>1. cc[t] \in Tids \cup {0, None}
      BY DEF DInv, CInv, EInv, IInv, TypeOK, Callers
    <3> QED
      BY <2>3, <3>1 DEF Orzero
  <2>7. cc[t] = None => out'.ret = 0
    BY <2>3 DEF Orzero
  <2>8. None \notin Tids /\ 0 \notin Tids
    BY Values
  <2>9. CASE xr[t] # None
    <3>1. cc[t] \in Tids /\ ~Live(cc[t])
      BY <2>5, <2>9 DEF Framed
    <3>2. out'.buf = Death(xr[t])
      BY <2>3, <2>9
    <3>3. out'.buf[1] = "death"
      BY <3>2, SMTT(20) DEF Death
    <3>4. out'.ret # 0 /\ ~Live(out.ret)'
      BY <1>1, <2>6, <2>8, <3>1 DEF Live
    <3> QED
      BY <1>1, <3>3, <3>4, NamedKept DEF PayloadMatches
  <2>10. CASE xr[t] = None /\ cc[t] # None
    <3>1. buf[t] = Msg(cc[t])
      BY <2>2, <2>4, <2>5, <2>10 DEF Framed
    <3>2. out'.buf = Msg(out'.ret)
      BY <2>3, <2>6, <2>10, <3>1
    <3> QED
      BY <1>1, <3>2, NamedKept DEF PayloadMatches
  <2>11. CASE xr[t] = None /\ cc[t] = None
    <3>1. PICK s \in Tids : buf[t] = Msg(s) /\ ~Live(s)
      BY <2>2, <2>4, <2>5, <2>11 DEF Framed
    <3>2. out'.ret = 0 /\ out'.buf = Msg(s) /\ ~Live(s)'
      BY <1>1, <2>3, <2>7, <2>11, <3>1 DEF Live
    <3> QED
      BY <1>1, <3>2, NamedKept DEF PayloadMatches
  <2> QED
    BY <2>9, <2>10, <2>11
<1> QED
  BY <1>2, <1>3

LEMMA NextDInv ==
    ASSUME Static
    PROVE  DInv /\ [Next]_vars => DInv'
<1> DEFINE G == Named' /\ PayloadMatches'
<1>0. SUFFICES ASSUME DInv, [Next]_vars PROVE G
  BY NextCInv DEF DInv, Static
<1> HIDE DEF G
<1>1. ASSUME \A u \in Tids : st[u] = "Gone" => st'[u] = "Gone",
             deaths' = deaths, out'.op # "Recv"
      PROVE  G
  BY <1>0, <1>1, SaysNothing DEF G
<1>2. ASSUME NEW x \in Tids, NEW e, exit_task(x, e), out'.op # "Recv"
      PROVE  G
  BY <1>0, <1>2, ExitNamed DEF G
<1>3. st \in [Tids -> States]
  BY <1>0 DEF DInv, CInv, EInv, IInv, TypeOK
<1>4. ASSUME NEW t \in Tids, NEW s, st[t] # "Gone", s # "Gone", st' = [st EXCEPT ![t] = s]
      PROVE  \A u \in Tids : st[u] = "Gone" => st'[u] = "Gone"
  BY <1>3, <1>4
<1>5. ASSUME NEW t \in Tids, NEW d \in Tids, Send(t, d) PROVE G
  <2>1. CASE Return("Send", MAX) /\ UNCHANGED task
    BY <1>1, <2>1 DEF Return, Out, task
  <2>2. CASE Deliver(t, d) /\ Return("Send", 0)
    BY <1>1, <1>4, <2>2 DEF Deliver, Return, Out
  <2>3. CASE BlockInSend(t, d) /\ Park(t, "send")
    <3>1. st[t] # "Gone"
      BY <1>5 DEF Send, Enter, Live
    <3> QED
      BY <1>1, <1>4, <2>3, <3>1 DEF BlockInSend, Park, NoOut
  <2> QED
    BY <1>5, <2>1, <2>2, <2>3 DEF Send
<1>6. ASSUME NEW t \in Tids, NEW p \in Tids, Wait(t, p) PROVE G
  <2>1. st[t] # "Gone"
    BY <1>6 DEF Wait, Enter, Live
  <2>2. CASE Return("Wait", MAX) /\ UNCHANGED task
    BY <1>1, <2>2 DEF Return, Out, task
  <2>3. CASE st' = [st EXCEPT ![t] = "Waiting"] /\ Park(t, "wait") /\ deaths' = deaths
    BY <1>1, <1>4, <2>1, <2>3 DEF Park, NoOut
  <2> QED
    BY <1>6, <2>2, <2>3 DEF Wait
<1>7. ASSUME NEW t \in Tids, TryRecv(t) PROVE G
  <2>1. CASE Senders(t) # {} /\ TakeFrom(t, Lowest(Senders(t)), "TryRecv")
    <3>1. PICK s : s = Lowest(Senders(t))
      OBVIOUS
    <3>2. s \in Senders(t)
      BY <2>1, <3>1, LowestIn DEF Senders
    <3>3. s \in Tids /\ st[s] # "Gone"
      BY <3>2 DEF Senders
    <3>4. /\ st' = [st EXCEPT ![s] = "Ready"] /\ deaths' = deaths
          /\ \E b : out' = Out("TryRecv", s, "none", b)
      BY <2>1, <3>1 DEF TakeFrom
    <3>5. out'.op # "Recv"
      BY <3>4, OpOf, SMTT(20)
    <3> QED
      BY <1>1, <1>4, <3>3, <3>4, <3>5
  <2>2. CASE Return("TryRecv", 0) /\ UNCHANGED task
    BY <1>1, <2>2 DEF Return, Out, task
  <2> QED
    BY <1>7, <2>1, <2>2 DEF TryRecv
<1>8. ASSUME NEW t \in Tids, NEW i, SetTimer(t, i) PROVE G
  <2>1. st[t] # "Gone"
    BY <1>8 DEF SetTimer, Enter, Live
  <2>2. st' = [st EXCEPT ![t] = "Sleeping"] /\ out' = NoOut /\ deaths' = deaths
    BY <1>8 DEF SetTimer, Park
  <2> QED
    BY <1>1, <1>4, <2>1, <2>2 DEF NoOut
<1>9. ASSUME NEW t \in Tids, NEW i, Yield(t) \/ Heartbeat(t, i) PROVE G
  <2>1. UNCHANGED <<st, deaths>>
    BY <1>9 DEF Yield, Heartbeat, task
  <2>2. out'.op # "Recv"
    <3>1. out' = NoOut \/ out' = Out("Heartbeat", 0, "none", NoMsg)
      BY <1>9 DEF Yield, Heartbeat, Return
    <3> QED
      BY <3>1, OpOf, SMTT(20)
  <2> QED
    BY <1>1, <2>1, <2>2
<1>10. ASSUME NEW t \in Tids, NEW x \in Tids, ForceExit(t, x) PROVE G
  <2>1. out'.op # "Recv"
    BY <1>10 DEF ForceExit, Return, Out
  <2>2. CASE exit_task(x, MAX)
    BY <1>2, <2>1, <2>2
  <2>3. CASE UNCHANGED task
    BY <1>1, <2>1, <2>3 DEF task
  <2> QED
    BY <1>10, <2>2, <2>3 DEF ForceExit
<1>11. ASSUME NEW t \in Tids, NEW c, Exit(t, c) \/ Fault(t) PROVE G
  <2>1. PICK e : exit_task(t, e) /\ out' = NoOut
    BY <1>11 DEF Exit, Fault
  <2> QED
    BY <1>2, <2>1 DEF NoOut
<1>12. CASE KillHung
  <2>1. Lowest(Hung) \in Hung
    BY <1>12, LowestIn DEF KillHung, Hung
  <2>2. Lowest(Hung) \in Tids
    BY <2>1 DEF Hung
  <2> QED
    BY <1>2, <1>12, <2>2 DEF KillHung, NoOut
<1>13. CASE WatchdogKill
  <2>1. cur \in Tids
    BY <1>0, <1>13 DEF WatchdogKill, Preempted, DInv, CInv, EInv, IInv, TypeOK
  <2> QED
    BY <1>2, <1>13, <2>1 DEF WatchdogKill, NoOut
<1>14. ASSUME NEW t \in Tids, NEW d PROVE ~RecvTimeout(t, d) /\ ~Spawn(t)
  BY DEF Static, Plain, RecvTimeout, Spawn, Enter, Syscalls
<1>15. ASSUME NEW t \in Tids, Handler(t) PROVE G
  <2>1. ASSUME NEW d \in Tids,
               Send(t, d) \/ SendGather(t, d) \/ Wait(t, d)
                   \/ NotifyOnExit(t, d) \/ ForceExit(t, d)
        PROVE  G
    BY <1>0, <1>5, <1>6, <1>10, <2>1, NotMade, NotifyNamed DEF Static, Plain, G
  <2>2. ASSUME NEW i \in Timeouts,
               RecvTimeout(t, i) \/ SetTimer(t, i) \/ Heartbeat(t, i)
        PROVE  G
    BY <1>8, <1>9, <1>14, <2>2
  <2>3. ASSUME NEW c \in Codes, Reply(t, c) \/ Exit(t, c)
        PROVE  G
    BY <1>11, <2>3, NotMade DEF Static, Plain
  <2>4. CASE Recv(t) \/ TryRecv(t) \/ RecvScatter(t)
    BY <1>0, <1>7, <2>4, NotMade, RecvSays DEF Static, Plain, G
  <2>5. CASE Yield(t) \/ Spawn(t) \/ Fault(t)
    BY <1>9, <1>11, <1>14, <2>5
  <2> QED
    BY <1>15, <2>1, <2>2, <2>3, <2>4, <2>5 DEF Handler
<1>16. ASSUME NEW t \in Tids, Resumption(t) PROVE G
  BY <1>0, <1>16, ResumptionSays DEF G
<1>17. CASE Tick
  BY <1>1, <1>17 DEF Tick, Elapsed, NoOut
<1>18. CASE Pick
  <2>1. deaths' = deaths /\ out' = NoOut
    BY <1>18 DEF Pick
  <2>2. \A u \in Tids : st[u] = "Gone" => st'[u] = "Gone"
    BY <1>18 DEF Pick, Preempted, Live
  <2> QED
    BY <1>1, <2>1, <2>2 DEF NoOut
<1>19. ASSUME NEW d \in Input, KernelSend(d) PROVE G
  <2>1. d \in Tids /\ st[d] # "Gone" /\ st' = [st EXCEPT ![d] = "Ready"]
    BY <1>19, InputAssumption DEF KernelSend, Deliver
  <2>2. deaths' = deaths /\ out' = NoOut
    BY <1>19 DEF KernelSend, Deliver
  <2> QED
    BY <1>1, <1>4, <2>1, <2>2 DEF NoOut
<1>20. CASE UNCHANGED vars
  <2>1. UNCHANGED <<st, deaths, out>>
    BY <1>20 DEF vars, task
  <2> QED
    BY <1>0, <2>1 DEF DInv, Named, PayloadMatches, Live, G
<1> QED
  BY <1>0, <1>12, <1>13, <1>15, <1>16, <1>17, <1>18, <1>19, <1>20 DEF Next, Kernel

\* Where, besides, no task is spawned, what Recv returns is what it put in the
\* buffer: the message of the task it names, or the exit reason of a dead task; it
\* returns 0 only with a message of the kernel, or of a sender that died before the
\* receiver ran (ipc_recv, ipc_send, exit_task, which clears current_caller).
THEOREM RecvReturnsWhatItNames == ASSUME Static PROVE Spec => []PayloadMatches
<1>1. DInv /\ [Next]_vars => DInv'
  BY NextDInv
<1>2. Init => DInv
  <2> SUFFICES ASSUME Init PROVE DInv
    OBVIOUS
  <2>1. ASSUME NEW w \in Tids PROVE deaths[w] = << >> /\ 1 .. Len(<< >>) = {}
    BY SMT DEF Init
  <2>2. Named
    BY <2>1 DEF Named
  <2>3. PayloadMatches
    BY DEF Init, NoOut, PayloadMatches
  <2> QED
    BY <2>2, <2>3, InitCInv DEF DInv
<1>3. DInv => PayloadMatches
  BY DEF DInv
<1> QED
  BY <1>1, <1>2, <1>3, PTL DEF Spec
=============================================================================
