-------------------------- MODULE OrchestratorProofs --------------------------
(***************************************************************************)
(* The orchestrator keeps live claims, records only what its own threads   *)
(* ran, leaves nothing running when it ends by itself, keeps its limit,    *)
(* and is a client of the queue: for any crates, workers, limits, starts   *)
(* and faults.                                                             *)
(*                                                                         *)
(* A worker's step is first reduced to what it does to that worker's pc,   *)
(* job and registration, and to the queue (WorkerEffect); each part of the *)
(* invariant is then proved from seven effects, not from thirteen actions. *)
(***************************************************************************)
EXTENDS Orchestrator, ProbeQueueProofs, FiniteSetTheorems, WellFoundedInduction

Registered == {"run", "grow", "rerun", "shrink", "record", "settle"}

\* Without a process there are no threads.
NoThreads == proc # "up" => \A w \in Workers : Gone(w)

\* INFLIGHT is exactly what the threads between Register and Settle work on.
InflightExact ==
    \A w \in Workers :
        inflight[w] = IF pc[w] \in Registered THEN job[w].crate ELSE None

\* A thread that probes has a crate, and if the claim is still its own, the
\* attempt is the one it claimed.
JobOK ==
    \A w \in Workers :
        /\ pc[w] \in Probing =>
              /\ job[w].crate \in Probes
              /\ Holds(w, job[w].crate) => job[w].attempt = probe[job[w].crate].attempts
        /\ pc[w] \in {"shrink", "record"} => job[w].status \in Reported

\* LiveClaimsKept, and why: until STOP, a claim is at most a tick old, and one
\* that is has been registered and its renewal is due or on its way.
LeaseOK(w) ==
    LET p == job[w].crate
    IN  /\ Holds(w, p)
        /\ ~stop =>
              \/ probe[p].age = 0
              \/ probe[p].age = 1 /\ pc[w] # "claimed" /\ (maint.due \/ <<w, p>> \in maint.todo)

LeasesOK == maint.connected => \A w \in Workers : pc[w] \in Probing => LeaseOK(w)

\* Until something fails, every running row is a live thread's.
RunningOwned ==
    faults = 0 => \A p \in Probes : probe[p].state = "running" =>
        \E w \in Workers : probe[p].by = w /\ pc[w] \in Probing /\ job[w].crate = p

OInv ==
    /\ OrchTypeOK
    /\ NoThreads
    /\ InflightExact
    /\ JobOK
    /\ LeasesOK
    /\ RunningOwned

-----------------------------------------------------------------------------
(***************************************************************************)
(* What each function of the queue does to the rows.                       *)
(***************************************************************************)
LEMMA ClaimRows ==
    ASSUME TypeOK, NEW w \in Workers, NEW q \in Queues, NEW r \in Probes, ClaimProbe(w, q, r)
    PROVE  /\ probe[r].state = "pending"
           /\ probe'[r].state = "running" /\ probe'[r].by = w /\ probe'[r].age = 0
           /\ probe'[r].attempts = probe[r].attempts + 1
           /\ \A p \in Probes \ {r} : probe'[p] = probe[p]
           /\ results' = results
<1>1. probe'[r] = Claimed(probe[r], w, q) /\ probe[r] \in ProbeRow
  BY DEF ClaimProbe, TypeOK
<1>2. probe'[r].age = 0
  BY <1>1 DEF Claimed, ProbeRow
<1> QED BY <1>1, <1>2, ClaimedRow DEF ClaimProbe, IsHead, Pending, TypeOK

LEMMA CompleteRows ==
    ASSUME TypeOK, NEW w \in Workers, NEW r \in Probes, NEW s \in Statuses,
           CompleteProbe(r, w, s)
    PROVE  /\ Holds(w, r) /\ probe'[r].state # "running"
           /\ \A p \in Probes \ {r} : probe'[p] = probe[p] /\ results'[p] = results[p]
<1> DEFINE st == StateAfter(s, probe[r].attempts)
<1>1. probe'[r] = Reporting(r, st) /\ probe[r] \in ProbeRow /\ Holds(w, r)
  BY DEF CompleteProbe, TypeOK, Reporting
<1>2. st \in {"pending", "done", "exhausted"}
  BY RowType, ReportStates
<1>3. probe'[r].state = st
  BY <1>1, <1>2, ReportingRow DEF States
<1> QED BY <1>1, <1>2, <1>3 DEF CompleteProbe, TypeOK

LEMMA TouchRows ==
    ASSUME TypeOK, NEW w \in Workers, NEW ids \in SUBSET Probes, TouchProbes(w, ids),
           NEW p \in Probes
    PROVE  /\ probe'[p].state = probe[p].state /\ probe'[p].by = probe[p].by
           /\ probe'[p].attempts = probe[p].attempts
           /\ IF p \in ids /\ Holds(w, p) THEN probe'[p].age = 0 ELSE probe'[p] = probe[p]
           /\ results' = results
<1>1. probe[p] \in ProbeRow
  BY DEF TypeOK
<1>2. CASE p \in ids /\ Holds(w, p)
  <2>1. probe'[p] = [probe[p] EXCEPT !.age = 0]
    BY <1>2 DEF TouchProbes
  <2> QED BY <1>1, <1>2, <2>1 DEF TouchProbes, ProbeRow
<1>3. CASE ~(p \in ids /\ Holds(w, p))
  BY <1>3 DEF TouchProbes
<1> QED BY <1>2, <1>3

LEMMA SweepRows ==
    ASSUME TypeOK, NEW t, NEW swept \in SUBSET Probes, SweepStale(t, swept), NEW p \in Probes
    PROVE  /\ IF p \in swept THEN Stale(p, t) /\ probe'[p].state # "running"
                             ELSE probe'[p] = probe[p]
           /\ results' = results
<1>1. CASE p \in swept
  <2>1. probe'[p] = Released(probe[p], StateReclaimed(probe[p].attempts))
    BY <1>1 DEF SweepStale
  <2>2. StateReclaimed(probe[p].attempts) \in {"exhausted", "pending"}
    BY DEF StateReclaimed
  <2> QED BY <1>1, <2>1, <2>2, ReleasedRow DEF SweepStale, States, TypeOK
<1>2. CASE p \notin swept
  BY <1>2 DEF SweepStale
<1> QED BY <1>1, <1>2

LEMMA TickRows ==
    ASSUME TypeOK, Tick, NEW p \in Probes
    PROVE  /\ probe'[p].state = probe[p].state /\ probe'[p].by = probe[p].by
           /\ probe'[p].attempts = probe[p].attempts
           /\ probe'[p].age \in {probe[p].age, probe[p].age + 1}
           /\ results' = results
<1>1. probe[p] \in ProbeRow /\ probe'[p] = Older(probe[p])
  BY DEF TypeOK, Tick
<1> QED BY <1>1 DEF Older, ProbeRow, Tick

-----------------------------------------------------------------------------
(***************************************************************************)
(* What a worker's step does.                                              *)
(***************************************************************************)

\* The other workers, the heartbeat and the process stay as they are.
OthersStay(w) ==
    /\ pc' = [v \in Workers |-> IF v = w THEN pc'[w] ELSE pc[v]]
    /\ job' = [v \in Workers |-> IF v = w THEN job'[w] ELSE job[v]]
    /\ inflight' = [v \in Workers |-> IF v = w THEN inflight'[w] ELSE inflight[v]]
    /\ UNCHANGED <<maint, proc, stop, starts>>
    /\ proc = "up"
    /\ faults' \in {faults, faults + 1}

Lookout == {"loop", "claim", "other", "idle", "exited", "dead"}

\* Before a claim and after a probe nothing is in hand.
IdleEffect(w) ==
    /\ pc[w] \in {"boot", "loop", "claim", "other", "idle", "upkeep"} /\ pc'[w] \in Lookout
    /\ UNCHANGED <<queueVars, job, inflight>>

ClaimEffect(w) ==
    \E q \in Queues, p \in Probes :
        /\ pc[w] \in {"claim", "other"} /\ pc'[w] = "claimed"
        /\ ClaimProbe(w, q, p)
        /\ job'[w].crate = p /\ job'[w].attempt = probe[p].attempts + 1
        /\ UNCHANGED <<inflight, faults>>

\* claim_probe commits and its reply is lost: the thread dies of it.
LostEffect(w) ==
    \E q \in Queues, p \in Probes :
        /\ pc[w] \in {"claim", "other"} /\ pc'[w] = "dead"
        /\ ClaimProbe(w, q, p)
        /\ faults' = faults + 1
        /\ UNCHANGED <<job, inflight>>

RegisterEffect(w) ==
    /\ pc[w] = "claimed" /\ pc'[w] = "run"
    /\ inflight'[w] = job[w].crate
    /\ UNCHANGED <<queueVars, job, faults>>

ProbeEffect(w) ==
    /\ pc[w] \in {"run", "grow", "rerun", "shrink"}
    /\ pc'[w] \in {"grow", "rerun", "shrink", "record", "settle"}
    /\ job'[w].crate = job[w].crate /\ job'[w].attempt = job[w].attempt
    /\ pc'[w] \in {"shrink", "record"} => job'[w].status \in Reported
    /\ IF pc'[w] = "settle" THEN faults' = faults + 1 ELSE faults' = faults
    /\ UNCHANGED <<queueVars, inflight>>

RecordEffect(w) ==
    /\ pc[w] = "record" /\ pc'[w] = "settle"
    /\ UNCHANGED <<job, inflight>>
    /\ \/ CompleteProbe(job[w].crate, w, job[w].status)
       \/ UNCHANGED queueVars /\ (Holds(w, job[w].crate) => faults' = faults + 1)

SettleEffect(w) ==
    /\ pc[w] = "settle" /\ pc'[w] = "upkeep"
    /\ inflight'[w] = None
    /\ UNCHANGED <<queueVars, faults>>

WorkerEffect(w) ==
    /\ OthersStay(w)
    /\ \/ IdleEffect(w) \/ ClaimEffect(w) \/ LostEffect(w) \/ RegisterEffect(w)
       \/ ProbeEffect(w) \/ RecordEffect(w) \/ SettleEffect(w)

LEMMA WorkerEffects ==
    ASSUME OrchTypeOK, JobOK, NEW w \in Workers, Worker(w)
    PROVE  WorkerEffect(w)
<1>t. /\ pc \in [Workers -> Places]
      /\ job \in [Workers -> [crate : Probes \cup {None}, attempt : Nat,
                              status : Statuses \cup {None}, in : {"none", "small", "big"}]]
      /\ inflight \in [Workers -> Probes \cup {None}]
  BY DEF OrchTypeOK
<1>g. \A place : Go(w, place) =>
         pc'[w] = place /\ pc' = [v \in Workers |-> IF v = w THEN pc'[w] ELSE pc[v]]
  BY <1>t DEF Go
<1>j. UNCHANGED job => job' = [v \in Workers |-> IF v = w THEN job'[w] ELSE job[v]]
  BY <1>t
<1>i. UNCHANGED inflight =>
         inflight' = [v \in Workers |-> IF v = w THEN inflight'[w] ELSE inflight[v]]
  BY <1>t
<1>s. \A s : Found(w, s) =>
         /\ job'[w].crate = job[w].crate /\ job'[w].attempt = job[w].attempt
         /\ job'[w].status = s
         /\ job' = [v \in Workers |-> IF v = w THEN job'[w] ELSE job[v]]
  <2> SUFFICES ASSUME NEW s, Found(w, s)
               PROVE  /\ job'[w].crate = job[w].crate /\ job'[w].attempt = job[w].attempt
                      /\ job'[w].status = s
                      /\ job' = [v \in Workers |-> IF v = w THEN job'[w] ELSE job[v]]
    OBVIOUS
  <2>1. job'[w] = [job[w] EXCEPT !.status = s, !.in = container[w]]
    BY <1>t DEF Found
  <2>2. job' = [v \in Workers |-> IF v = w THEN job'[w] ELSE job[v]]
    BY <1>t DEF Found
  <2>3. job[w] \in [crate : Probes \cup {None}, attempt : Nat,
                   status : Statuses \cup {None}, in : {"none", "small", "big"}]
    BY <1>t
  <2> QED BY <2>1, <2>2, <2>3
<1>r. \A kind : Raises(w, kind) =>
         faults' = faults + 1 /\ Go(w, "settle") /\ UNCHANGED job
  BY DEF Raises, Fault
<1>e. \A s \in StatusesIn(container[w]) : s \in Reported
  BY OrchestratorAssumption DEF StatusesIn
<1> USE DEF At, mainVars, queueVars, WorkerEffect, OthersStay
<1>1. CASE Boot(w)
  BY <1>1, <1>g, <1>j, <1>i DEF Boot, Fault, IdleEffect, Lookout
<1>2. CASE Loop(w)
  BY <1>2, <1>g, <1>j, <1>i DEF Loop, IdleEffect, Lookout
<1>3. ASSUME NEW here \in {"claim", "other"}, NEW q \in Queues, NEW miss \in {"other", "idle"},
             Claim(w, here, q, miss)
      PROVE  WorkerEffect(w)
  <2>1. CASE (\E p \in Probes : Takes(w, q, p)) /\ UNCHANGED faults
    <3>1. PICK p \in Probes : Takes(w, q, p)
      BY <2>1
    <3>2. /\ job'[w].crate = p /\ job'[w].attempt = probe[p].attempts + 1
          /\ job' = [v \in Workers |-> IF v = w THEN job'[w] ELSE job[v]]
      BY <1>t, <3>1 DEF Takes, NoJob
    <3>3. ClaimEffect(w)
      BY <1>3, <1>g, <2>1, <3>1, <3>2 DEF Claim, Takes, AfterClaim, ClaimEffect
    <3> QED BY <1>3, <1>g, <1>i, <2>1, <3>1, <3>2, <3>3 DEF Claim, Takes
  <2>2. CASE Drained(w) /\ Go(w, miss) /\ UNCHANGED <<queueVars, job, faults>>
    BY <1>3, <1>g, <1>j, <1>i, <2>2 DEF Claim, IdleEffect, Lookout
  <2>3. CASE Fault("claim") /\ Go(w, "dead") /\ UNCHANGED job /\ UNCHANGED queueVars
    BY <1>3, <1>g, <1>j, <1>i, <2>3 DEF Claim, Fault, IdleEffect, Lookout
  <2>4. CASE /\ Fault("claim") /\ Go(w, "dead") /\ UNCHANGED job
             /\ \E p \in Probes : ClaimProbe(w, q, p)
    <3>1. LostEffect(w)
      BY <1>3, <1>g, <2>4 DEF Claim, Fault, LostEffect
    <3> QED BY <1>3, <1>g, <1>j, <1>i, <2>4, <3>1 DEF Claim, Fault
  <2> QED BY <1>3, <2>1, <2>2, <2>3, <2>4 DEF Claim
<1>q. Turn(w) \in Queues /\ Other(Turn(w)) \in Queues
  <2>1. turn[w] + 1 \in 1..Len(QueueCycle)
    BY OrchestratorAssumption, LenProperties DEF OrchTypeOK
  <2>2. QueueCycle[turn[w] + 1] \in Queues
    BY <2>1, OrchestratorAssumption, ElementOfSeq
  <2> QED BY <2>2, OrchestratorAssumption DEF Turn, Other, Queues
<1>4. CASE ClaimTurn(w)
  BY <1>3, <1>4, <1>q DEF ClaimTurn
<1>5. CASE ClaimOther(w)
  BY <1>3, <1>5, <1>q DEF ClaimOther
<1>6. CASE WakeUp(w)
  BY <1>6, <1>g, <1>j, <1>i DEF WakeUp, IdleEffect, Lookout
<1>7. CASE Register(w)
  BY <1>7, <1>t, <1>g, <1>j DEF Register, RegisterEffect
<1>8. CASE Run(w)
  BY <1>8, <1>g, <1>j, <1>i, <1>s, <1>r, <1>e DEF Run, ProbeEffect
<1>9. CASE Grow(w)
  BY <1>9, <1>g, <1>j, <1>i, <1>r DEF Grow, ProbeEffect
<1>10. CASE Rerun(w)
  BY <1>10, <1>g, <1>j, <1>i, <1>s, <1>r, <1>e DEF Rerun, ProbeEffect
<1>11. CASE Shrink(w)
  BY <1>11, <1>g, <1>j, <1>i, <1>r DEF Shrink, ProbeEffect, JobOK
<1>12. CASE Record(w)
  <2>1. faults' \in {faults, faults + 1}
    BY <1>12 DEF Record, Fault
  <2>2. RecordEffect(w)
    BY <1>12, <1>g DEF Record, Fault, RecordEffect
  <2> QED BY <1>12, <1>g, <1>j, <1>i, <2>1, <2>2 DEF Record
<1>13. CASE Settle(w)
  BY <1>13, <1>t, <1>g DEF Settle, Unregistered, SettleEffect
<1>14. CASE Upkeep(w)
  BY <1>14, <1>g, <1>j, <1>i DEF Upkeep, Fault, IdleEffect, Lookout
<1> QED BY <1>1, <1>2, <1>4, <1>5, <1>6, <1>7, <1>8, <1>9, <1>10, <1>11, <1>12, <1>13, <1>14
        DEF Worker

\* A step of the process is a step of the queue, or none.
LEMMA QueueSteps ==
    ASSUME OrchTypeOK, JobOK, [OrchNext]_vars
    PROVE  [QueueNext]_queueVars
<1>1. CASE UNCHANGED vars
  BY <1>1 DEF vars, queueVars
<1>2. CASE Start \/ SetStop \/ Finish \/ Kill \/ Beat \/ LoseHeartbeat \/ LoseSweeper
  BY <1>2 DEF Start, StartWith, SetStop, Finish, Kill, Beat, LoseHeartbeat, LoseSweeper, queueVars
<1>3. CASE Resume
  BY <1>3 DEF Resume, StartWith, QueueNext
<1>4. CASE Sweep
  BY <1>4 DEF Sweep, SweepAfter, QueueNext
<1>5. CASE OrchTick
  BY <1>5 DEF OrchTick, QueueNext
<1>6. ASSUME NEW w \in Workers, NEW p \in Probes, Renew(w, p) PROVE [QueueNext]_queueVars
  <2>1. {p} \in SUBSET Probes
    OBVIOUS
  <2> QED BY <1>6, <2>1 DEF Renew, QueueNext
<1>7. ASSUME NEW w \in Workers, Worker(w) PROVE [QueueNext]_queueVars
  <2>1. WorkerEffect(w)
    BY <1>7, WorkerEffects
  <2>2. CASE ClaimEffect(w) \/ LostEffect(w)
    BY <2>2 DEF ClaimEffect, LostEffect, QueueNext
  <2>3. CASE RecordEffect(w)
    <3>1. job[w].crate \in Probes /\ job[w].status \in Reported
      BY <2>3 DEF RecordEffect, JobOK, Probing
    <3> QED BY <2>3, <3>1 DEF RecordEffect, QueueNext
  <2>4. CASE IdleEffect(w) \/ RegisterEffect(w) \/ ProbeEffect(w) \/ SettleEffect(w)
    BY <2>4 DEF IdleEffect, RegisterEffect, ProbeEffect, SettleEffect
  <2> QED BY <2>1, <2>2, <2>3, <2>4 DEF WorkerEffect
<1> QED BY <1>1, <1>2, <1>3, <1>4, <1>5, <1>6, <1>7 DEF OrchNext

-----------------------------------------------------------------------------
(***************************************************************************)
(* The type invariant.                                                     *)
(***************************************************************************)
Sizes == {"none", "small", "big"}

Jobs == [crate : Probes \cup {None}, attempt : Nat, status : Statuses \cup {None}, in : Sizes]

\* Of the thirteen actions of a worker.
LEMMA WorkerTypes ==
    ASSUME OrchTypeOK, JobOK, NEW w \in Workers, Worker(w)
    PROVE  /\ tokens' \in Nat \cup {None}
           /\ pc' \in [Workers -> Places]
           /\ turn' \in [Workers -> 0..(Len(QueueCycle) - 1)]
           /\ job' \in [Workers -> Jobs]
           /\ inflight' \in [Workers -> Probes \cup {None}]
           /\ container' \in [Workers -> Sizes]
           /\ faults' \in 0..MaxFaults
<1>t. /\ tokens \in Nat \cup {None} /\ pc \in [Workers -> Places]
      /\ turn \in [Workers -> 0..(Len(QueueCycle) - 1)]
      /\ job \in [Workers -> Jobs]
      /\ inflight \in [Workers -> Probes \cup {None}]
      /\ container \in [Workers -> Sizes]
      /\ faults \in 0..MaxFaults
  BY DEF OrchTypeOK, Jobs, Sizes
<1>e. WorkerEffect(w)
  BY WorkerEffects
<1>1. pc' \in [Workers -> Places]
  <2>1. pc'[w] \in Places
    BY <1>e DEF WorkerEffect, IdleEffect, ClaimEffect, LostEffect, RegisterEffect, ProbeEffect,
       RecordEffect, SettleEffect, Lookout, Places
  <2> QED BY <1>t, <1>e, <2>1 DEF WorkerEffect, OthersStay
<1>2. faults' \in 0..MaxFaults
  <2>1. \A kind : Fault(kind) => faults' \in 0..MaxFaults
    BY <1>t, OrchestratorAssumption DEF Fault
  <2> QED BY <1>t, <2>1 DEF Worker, Boot, Loop, ClaimTurn, ClaimOther, Claim, WakeUp, Register,
          Run, Raises, Grow, Rerun, Shrink, Record, Settle, Upkeep
<1>3. tokens' \in Nat \cup {None}
  <2>1. CASE Loop(w)
    BY <1>t, <2>1, OrchestratorAssumption DEF Loop, LimitReached
  <2>2. CASE ~Loop(w)
    <3>1. tokens' = tokens
      BY <2>2 DEF Worker, Boot, ClaimTurn, ClaimOther, Claim, WakeUp, Register,
          Run, Raises, Grow, Rerun, Shrink, Record, Settle, Upkeep, mainVars
    <3> QED BY <1>t, <3>1
  <2> QED BY <2>1, <2>2
<1>4. turn' \in [Workers -> 0..(Len(QueueCycle) - 1)]
  <2>1. CASE Settle(w)
    <3>1. Len(QueueCycle) \in Nat \ {0}
      BY OrchestratorAssumption, EmptySeq, LenProperties
    <3>2. turn[w] + 1 \in Nat
      BY <1>t, <3>1
    <3>3. (turn[w] + 1) % Len(QueueCycle) \in 0..(Len(QueueCycle) - 1)
      BY <3>1, <3>2
    <3> QED BY <1>t, <2>1, <3>3 DEF Settle
  <2>2. CASE ~Settle(w)
    <3>1. turn' = turn
      BY <2>2 DEF Worker, Boot, Loop, ClaimTurn, ClaimOther, Claim, WakeUp, Register,
          Run, Raises, Grow, Rerun, Shrink, Record, Upkeep, mainVars
    <3> QED BY <1>t, <3>1
  <2> QED BY <2>1, <2>2
<1>5. container' \in [Workers -> Sizes]
  <2>1. \A size \in Sizes : Recycles(w, size) => container' \in [Workers -> Sizes]
    BY <1>t DEF Recycles
  <2>2. RecycleFails(w) => container' \in [Workers -> Sizes]
    BY <1>t, <2>1 DEF RecycleFails, Sizes
  <2> QED BY <1>t, <2>1, <2>2 DEF Worker, Boot, Loop, ClaimTurn, ClaimOther, Claim, WakeUp,
          Register, Run, Grow, Rerun, Shrink, Record, Settle, Upkeep, Sizes
<1>6. inflight' \in [Workers -> Probes \cup {None}]
  <2>1. inflight'[w] \in Probes \cup {None}
    BY <1>t, <1>e DEF WorkerEffect, IdleEffect, ClaimEffect, LostEffect, RegisterEffect,
       ProbeEffect,
       RecordEffect, SettleEffect, Jobs
  <2> QED BY <1>t, <1>e, <2>1 DEF WorkerEffect, OthersStay
<1>7. job' \in [Workers -> Jobs]
  <2>1. NoJob \in Jobs
    BY DEF NoJob, Jobs, Sizes
  <2>2. \A s \in StatusesIn(container[w]) : Found(w, s) => job' \in [Workers -> Jobs]
    <3>1. \A s \in StatusesIn(container[w]) : s \in Statuses
      BY OrchestratorAssumption, QueueAssumption DEF StatusesIn
    <3>2. ASSUME NEW s \in StatusesIn(container[w]), Found(w, s)
          PROVE  job' \in [Workers -> Jobs]
      <4>1. [job[w] EXCEPT !.status = s, !.in = container[w]] \in Jobs
        BY <1>t, <3>1 DEF Jobs
      <4> QED BY <1>t, <3>2, <4>1 DEF Found
    <3> QED BY <3>2
  <2>3. \A q, p : p \in Probes /\ Takes(w, q, p) => job' \in [Workers -> Jobs]
    <3>1. ASSUME NEW p \in Probes PROVE [NoJob EXCEPT !.crate = p,
       !.attempt = probe[p].attempts + 1] \in Jobs
      <4>1. probe[p].attempts + 1 \in Nat
        BY RowType DEF OrchTypeOK
      <4> QED BY <4>1 DEF NoJob, Jobs, Sizes
    <3> QED BY <1>t, <3>1 DEF Takes
  <2>4. CASE ClaimTurn(w) \/ ClaimOther(w)
    BY <1>t, <2>3, <2>4 DEF ClaimTurn, ClaimOther, Claim
  <2> QED BY <1>t, <2>1, <2>2, <2>4 DEF Worker, Boot, Loop, WakeUp,
          Register, Run, Raises, Grow, Rerun, Shrink, Record, Settle, Upkeep
<1> QED BY <1>1, <1>2, <1>3, <1>4, <1>5, <1>6, <1>7

\* The steps of the process and its maintenance threads.
LEMMA ProcessTypes ==
    ASSUME OrchTypeOK, InflightExact, [OrchNext]_vars, ~(\E w \in Workers : Worker(w))
    PROVE  /\ tokens' \in Nat \cup {None}
           /\ pc' \in [Workers -> Places]
           /\ turn' \in [Workers -> 0..(Len(QueueCycle) - 1)]
           /\ job' \in [Workers -> Jobs]
           /\ inflight' \in [Workers -> Probes \cup {None}]
           /\ container' \in [Workers -> Sizes]
           /\ faults' \in 0..MaxFaults
<1>t. /\ tokens \in Nat \cup {None} /\ pc \in [Workers -> Places]
      /\ turn \in [Workers -> 0..(Len(QueueCycle) - 1)]
      /\ job \in [Workers -> Jobs]
      /\ inflight \in [Workers -> Probes \cup {None}]
      /\ container \in [Workers -> Sizes]
      /\ faults \in 0..MaxFaults
  BY DEF OrchTypeOK, Jobs, Sizes
<1>n. NoJob \in Jobs /\ 0 \in 0..(Len(QueueCycle) - 1) /\ Limit \in Nat \cup {None}
  <2>1. Len(QueueCycle) \in Nat \ {0}
    BY OrchestratorAssumption, EmptySeq, LenProperties
  <2> QED BY <2>1, OrchestratorAssumption DEF NoJob, Jobs, Sizes
<1>f. \A kind : Fault(kind) => faults' \in 0..MaxFaults
  BY <1>t, OrchestratorAssumption DEF Fault
<1>1. CASE Start \/ Resume
  BY <1>t, <1>n, <1>1 DEF Start, Resume, StartWith, Places
<1>2. CASE SetStop \/ Finish
  BY <1>t, <1>2 DEF SetStop, Finish, Sizes
<1>3. CASE Kill
  BY <1>t, <1>n, <1>f, <1>3 DEF Kill, Places
<1>4. CASE Beat \/ Sweep \/ OrchTick \/ (\E w \in Workers, p \in Probes : Renew(w, p))
  BY <1>t, <1>4 DEF Beat, Sweep, OrchTick, Renew, mainVars, threadVars
<1>5. CASE LoseHeartbeat \/ LoseSweeper
  BY <1>t, <1>f, <1>5 DEF LoseHeartbeat, LoseSweeper, mainVars, threadVars
<1>6. CASE UNCHANGED vars
  BY <1>t, <1>6 DEF vars
<1> QED BY <1>1, <1>2, <1>3, <1>4, <1>5, <1>6 DEF OrchNext

\* What is the same for all steps: the flags and the heartbeat's snapshot.
LEMMA FlagTypes ==
    ASSUME OrchTypeOK, JobOK, [OrchNext]_vars
    PROVE  /\ proc' \in {"down", "up", "finished"} /\ stop' \in BOOLEAN
           /\ starts' \in 0..MaxStarts
           /\ maint' \in [due : BOOLEAN, todo : SUBSET (Workers \X Probes), connected : BOOLEAN,
                          sweeping : BOOLEAN]
<1> DEFINE Snapshots == SUBSET (Workers \X Probes)
           Maints == [due : BOOLEAN, todo : Snapshots, connected : BOOLEAN, sweeping : BOOLEAN]
<1>t. /\ proc \in {"down", "up", "finished"} /\ stop \in BOOLEAN /\ starts \in 0..MaxStarts
      /\ maint \in Maints
  BY DEF OrchTypeOK
<1>z. {} \in Snapshots /\ maint.todo \in Snapshots
  BY <1>t
<1>w. \A beat : maint.todo \ {beat} \in Snapshots
  BY <1>z
<1>b. {<<w, inflight[w]>> : w \in {v \in Workers : inflight[v] # None}} \in Snapshots
  <2>1. \A w \in Workers : inflight[w] # None => <<w, inflight[w]>> \in Workers \X Probes
    BY DEF OrchTypeOK
  <2> QED BY <2>1, Zenon
<1> SUFFICES /\ proc' \in {"down", "up", "finished"} /\ stop' \in BOOLEAN
             /\ starts' \in 0..MaxStarts /\ maint' \in Maints
  OBVIOUS
<1> HIDE DEF Snapshots
<1>n. /\ Unmaintained \in Maints
      /\ [Unmaintained EXCEPT !.connected = TRUE, !.sweeping = TRUE] \in Maints
      /\ [maint EXCEPT !.due = FALSE, !.todo = {}] \in Maints
  BY <1>t, <1>z DEF Unmaintained
<1>1. CASE Start \/ Resume
  <2>1. starts' \in 0..MaxStarts
    BY <1>t, <1>1, OrchestratorAssumption DEF Start, Resume, StartWith
  <2> HIDE DEF Maints
  <2> QED BY <1>1, <1>n, <2>1 DEF Start, Resume, StartWith
<1>2. CASE SetStop \/ Finish \/ Kill
  <2> HIDE DEF Maints
  <2> QED BY <1>t, <1>n, <1>2 DEF SetStop, Finish, Kill
<1>3. CASE Beat
  BY <1>t, <1>b, <1>3 DEF Beat, mainVars
<1>4. CASE Sweep \/ LoseHeartbeat \/ LoseSweeper
  BY <1>t, <1>4 DEF Sweep, LoseHeartbeat, LoseSweeper, mainVars
<1>5. CASE OrchTick
  <2>1. Maintained \in BOOLEAN
    BY <1>t DEF Maintained
  <2> QED BY <1>t, <1>5, <2>1 DEF OrchTick, mainVars
<1>6. ASSUME NEW w \in Workers, Worker(w)
      PROVE  UNCHANGED <<maint, proc, stop, starts>>
  BY <1>6, WorkerEffects DEF WorkerEffect, OthersStay
<1>7. CASE UNCHANGED vars
  BY <1>t, <1>7 DEF vars
<1>8. ASSUME NEW w \in Workers, NEW p \in Probes, Renew(w, p)
      PROVE  UNCHANGED mainVars /\ maint' \in Maints
  BY <1>t, <1>w, <1>8 DEF Renew
<1> HIDE DEF Maints
<1> QED BY <1>t, <1>1, <1>2, <1>3, <1>4, <1>5, <1>6, <1>7, <1>8 DEF OrchNext, mainVars

LEMMA OrchTypeStep ==
    ASSUME OrchTypeOK, InflightExact, JobOK, [OrchNext]_vars
    PROVE  OrchTypeOK'
<1>1. TypeOK'
  BY QueueSteps, TypeStep DEF OrchTypeOK
<1> QED BY <1>1, WorkerTypes, ProcessTypes, FlagTypes DEF OrchTypeOK, Jobs, Sizes

-----------------------------------------------------------------------------
(***************************************************************************)
(* The other parts of the invariant.                                       *)
(***************************************************************************)
LEMMA NoThreadsStep ==
    ASSUME OrchTypeOK, JobOK, NoThreads, [OrchNext]_vars
    PROVE  NoThreads'
<1>1. CASE Start \/ Resume \/ SetStop
  BY <1>1 DEF Start, Resume, StartWith, SetStop, NoThreads
<1>2. CASE Finish \/ Kill
  BY <1>2 DEF Finish, Kill, NoThreads, Gone
<1>3. CASE Beat \/ Sweep \/ LoseHeartbeat \/ LoseSweeper \/ OrchTick \/ UNCHANGED vars
           \/ (\E w \in Workers, p \in Probes : Renew(w, p))
  BY <1>3 DEF Beat, Sweep, LoseHeartbeat, LoseSweeper, OrchTick, Renew, vars, mainVars, threadVars,
     NoThreads, Gone
<1>4. ASSUME NEW w \in Workers, Worker(w) PROVE NoThreads'
  BY <1>4, WorkerEffects DEF WorkerEffect, OthersStay, NoThreads
<1> QED BY <1>1, <1>2, <1>3, <1>4 DEF OrchNext

LEMMA InflightStep ==
    ASSUME OrchTypeOK, JobOK, InflightExact, [OrchNext]_vars
    PROVE  InflightExact'
<1>1. CASE Start \/ Resume \/ Kill
  BY <1>1 DEF Start, Resume, StartWith, Kill, InflightExact, Registered
<1>2. CASE SetStop \/ Finish \/ Beat \/ Sweep \/ LoseHeartbeat \/ LoseSweeper \/ OrchTick
           \/ UNCHANGED vars
           \/ (\E w \in Workers, p \in Probes : Renew(w, p))
  BY <1>2 DEF SetStop, Finish, Beat, Sweep, LoseHeartbeat, LoseSweeper, OrchTick, Renew, vars,
     threadVars,
     InflightExact
<1>3. ASSUME NEW w \in Workers, Worker(w) PROVE InflightExact'
  <2> SUFFICES ASSUME NEW v \in Workers
               PROVE  inflight'[v] = IF pc'[v] \in Registered THEN job'[v].crate ELSE None
    BY DEF InflightExact
  <2>1. WorkerEffect(w)
    BY <1>3, WorkerEffects
  <2>2. CASE v # w
    BY <2>1, <2>2 DEF WorkerEffect, OthersStay, InflightExact
  <2>3. CASE v = w
    BY <2>1, <2>3 DEF WorkerEffect, IdleEffect, ClaimEffect, LostEffect, RegisterEffect,
       ProbeEffect,
       RecordEffect, SettleEffect, Lookout, InflightExact, Registered
  <2> QED BY <2>2, <2>3
<1> QED BY <1>1, <1>2, <1>3 DEF OrchNext

\* Nobody but a worker itself, with a claim, puts a row into its name.
LEMMA NoNewClaim ==
    ASSUME OrchTypeOK, JobOK, [OrchNext]_vars,
           NEW v \in Workers, pc[v] \in Probing, NEW p \in Probes, Holds(v, p)'
    PROVE  Holds(v, p) /\ probe'[p].attempts = probe[p].attempts
<1>0. TypeOK
  BY DEF OrchTypeOK
<1>1. CASE UNCHANGED queueVars
  BY <1>1 DEF queueVars, Holds
<1>2. CASE Resume \/ Sweep
  <2>1. PICK t \in Nat, swept \in SUBSET Probes : SweepStale(t, swept)
    BY <1>2, QueueAssumption DEF Resume, StartWith, Sweep, SweepAfter
  <2> QED BY <1>0, <2>1, SweepRows DEF Holds
<1>3. CASE OrchTick
  BY <1>0, <1>3, TickRows DEF OrchTick, Holds
<1>4. ASSUME NEW w \in Workers, NEW r \in Probes, Renew(w, r)
      PROVE  Holds(v, p) /\ probe'[p].attempts = probe[p].attempts
  <2>1. CASE TouchProbes(w, {r})
    <3>1. {r} \in SUBSET Probes
      OBVIOUS
    <3> QED BY <1>0, <2>1, <3>1, TouchRows DEF Holds
  <2> QED BY <1>1, <1>4, <2>1 DEF Renew
<1>5. ASSUME NEW w \in Workers, Worker(w)
      PROVE  Holds(v, p) /\ probe'[p].attempts = probe[p].attempts
  <2>1. WorkerEffect(w)
    BY <1>5, WorkerEffects
  <2>2. CASE ClaimEffect(w) \/ LostEffect(w)
    <3>1. PICK q \in Queues, r \in Probes : ClaimProbe(w, q, r)
      BY <2>2 DEF ClaimEffect, LostEffect
    <3>2. v # w
      BY <2>2 DEF ClaimEffect, LostEffect, Probing
    <3> QED BY <1>0, <3>1, <3>2, ClaimRows DEF Holds
  <2>3. CASE RecordEffect(w)
    <3>1. job[w].crate \in Probes /\ job[w].status \in Statuses
      BY <2>3, QueueAssumption DEF RecordEffect, JobOK, Probing
    <3> QED BY <1>0, <1>1, <2>3, <3>1, CompleteRows DEF RecordEffect, Holds
  <2>4. CASE IdleEffect(w) \/ RegisterEffect(w) \/ ProbeEffect(w) \/ SettleEffect(w)
    BY <1>1, <2>4 DEF IdleEffect, RegisterEffect, ProbeEffect, SettleEffect
  <2> QED BY <2>1, <2>2, <2>3, <2>4 DEF WorkerEffect
<1>6. CASE Start \/ SetStop \/ Finish \/ Kill \/ Beat \/ LoseHeartbeat \/ LoseSweeper
           \/ UNCHANGED vars
  BY <1>1, <1>6 DEF Start, StartWith, SetStop, Finish, Kill, Beat, LoseHeartbeat, LoseSweeper,
     vars, queueVars
<1> QED BY <1>2, <1>3, <1>4, <1>5, <1>6 DEF OrchNext

LEMMA JobStep ==
    ASSUME OrchTypeOK, JobOK, [OrchNext]_vars
    PROVE  JobOK'
<1>1. CASE Start \/ Resume \/ Kill
  BY <1>1 DEF Start, Resume, StartWith, Kill, JobOK, Probing
<1>2. CASE UNCHANGED <<pc, job>>
  BY <1>2, NoNewClaim DEF JobOK, Holds
<1>3. CASE SetStop \/ Finish \/ Beat \/ Sweep \/ LoseHeartbeat \/ LoseSweeper \/ OrchTick
           \/ UNCHANGED vars
           \/ (\E w \in Workers, p \in Probes : Renew(w, p))
  BY <1>2, <1>3 DEF SetStop, Finish, Beat, Sweep, LoseHeartbeat, LoseSweeper, OrchTick, Renew,
     vars, threadVars
<1>4. ASSUME NEW w \in Workers, Worker(w), NEW v \in Workers
      PROVE  /\ pc'[v] \in Probing =>
                   /\ job'[v].crate \in Probes
                   /\ Holds(v, job[v].crate)' => job'[v].attempt = probe'[job'[v].crate].attempts
             /\ pc'[v] \in {"shrink", "record"} => job'[v].status \in Reported
  <2>1. WorkerEffect(w)
    BY <1>4, WorkerEffects
  <2>2. CASE v # w
    <3>1. pc'[v] = pc[v] /\ job'[v] = job[v]
      BY <2>1, <2>2 DEF WorkerEffect, OthersStay
    <3> QED BY <3>1, NoNewClaim DEF JobOK, Holds
  <2>3. CASE v = w /\ ClaimEffect(w)
    <3>1. PICK q \in Queues, p \in Probes :
             /\ pc'[w] = "claimed" /\ ClaimProbe(w, q, p)
             /\ job'[w].crate = p /\ job'[w].attempt = probe[p].attempts + 1
      BY <2>3 DEF ClaimEffect
    <3> QED BY <2>3, <3>1, ClaimRows DEF OrchTypeOK
  <2>4. CASE v = w /\ (RegisterEffect(w) \/ ProbeEffect(w))
    <3>1. /\ pc[w] \in Probing /\ job'[w].crate = job[w].crate
          /\ job'[w].attempt = job[w].attempt
          /\ pc'[w] \in {"shrink", "record"} => job'[w].status \in Reported
      BY <2>4 DEF RegisterEffect, ProbeEffect, Probing
    <3> QED BY <2>4, <3>1, NoNewClaim DEF JobOK, Holds
  <2>5. CASE v = w /\ (IdleEffect(w) \/ LostEffect(w) \/ RecordEffect(w) \/ SettleEffect(w))
    BY <2>5 DEF IdleEffect, LostEffect, RecordEffect, SettleEffect, Lookout, Probing
  <2> QED BY <2>1, <2>2, <2>3, <2>4, <2>5 DEF WorkerEffect
<1> QED BY <1>1, <1>3, <1>4 DEF OrchNext, JobOK

\* Whoever holds a row keeps it through the steps of all other workers.
LEMMA OthersLeave ==
    ASSUME OrchTypeOK, JobOK, NEW w \in Workers, NEW v \in Workers, WorkerEffect(w),
           NEW p \in Probes, Holds(v, p), v # w \/ pc[w] # "record"
    PROVE  probe'[p] = probe[p]
<1>1. CASE ClaimEffect(w) \/ LostEffect(w)
  <2>1. PICK q \in Queues, r \in Probes : ClaimProbe(w, q, r)
    BY <1>1 DEF ClaimEffect, LostEffect
  <2> QED BY <2>1, ClaimRows DEF OrchTypeOK, Holds
<1>2. CASE RecordEffect(w)
  <2>1. job[w].crate \in Probes /\ job[w].status \in Statuses
    BY <1>2, QueueAssumption DEF RecordEffect, JobOK, Probing
  <2>2. CASE CompleteProbe(job[w].crate, w, job[w].status)
    BY <1>2, <2>1, <2>2, CompleteRows DEF OrchTypeOK, Holds, RecordEffect
  <2> QED BY <1>2, <2>2 DEF RecordEffect, queueVars
<1>3. CASE IdleEffect(w) \/ RegisterEffect(w) \/ ProbeEffect(w) \/ SettleEffect(w)
  BY <1>3 DEF IdleEffect, RegisterEffect, ProbeEffect, SettleEffect, queueVars
<1> QED BY <1>1, <1>2, <1>3 DEF WorkerEffect

LEMMA LeaseWorker ==
    ASSUME OInv, NEW w \in Workers, Worker(w), NEW v \in Workers, maint.connected,
           pc'[v] \in Probing
    PROVE  LeaseOK(v)'
<1>1. /\ WorkerEffect(w) /\ maint' = maint /\ stop' = stop
      /\ v # w => pc'[v] = pc[v] /\ job'[v] = job[v]
  BY WorkerEffects DEF OInv, WorkerEffect, OthersStay
<1>2. CASE v # w \/ RegisterEffect(w) \/ ProbeEffect(w)
  <2> DEFINE p == job[v].crate
  <2>1. /\ pc[v] \in Probing /\ job'[v].crate = p
        /\ v # w \/ pc[w] # "record"
        /\ pc'[v] = "claimed" => pc[v] = "claimed"
    BY <1>1, <1>2 DEF RegisterEffect, ProbeEffect, Probing
  <2>2. LeaseOK(v) /\ p \in Probes
    BY <2>1 DEF OInv, LeasesOK, JobOK
  <2>3. probe'[p] = probe[p]
    BY <1>1, <2>1, <2>2, OthersLeave DEF OInv, LeaseOK
  <2> QED BY <1>1, <2>1, <2>2, <2>3 DEF LeaseOK, Holds
<1>3. CASE v = w /\ ClaimEffect(w)
  <2>1. PICK q \in Queues, p \in Probes : ClaimProbe(w, q, p) /\ job'[w].crate = p
    BY <1>3 DEF ClaimEffect
  <2> QED BY <1>3, <2>1, ClaimRows DEF LeaseOK, Holds, OInv, OrchTypeOK
<1>4. CASE v = w /\ (IdleEffect(w) \/ LostEffect(w) \/ RecordEffect(w) \/ SettleEffect(w))
  BY <1>4 DEF IdleEffect, LostEffect, RecordEffect, SettleEffect, Lookout, Probing
<1> QED BY <1>1, <1>2, <1>3, <1>4 DEF WorkerEffect

\* The heartbeat's rounds, the sweeps and the ticks: the heart of the matter.
LEMMA LeaseKept ==
    ASSUME OInv, NEW v \in Workers, maint.connected, pc[v] \in Probing,
           \/ Beat \/ Sweep \/ OrchTick \/ (\E w \in Workers, r \in Probes : Renew(w, r))
    PROVE  LeaseOK(v)'
<1> DEFINE p == job[v].crate
<1>1. /\ p \in Probes /\ LeaseOK(v) /\ TypeOK /\ proc = "up" /\ stop \in BOOLEAN
      /\ pc[v] # "claimed" => inflight[v] = p
  BY DEF OInv, JobOK, LeasesOK, OrchTypeOK, NoThreads, Gone, Probing, InflightExact, Registered
<1>2. /\ pc' = pc /\ job' = job /\ stop' = stop
  BY DEF Beat, Sweep, OrchTick, Renew, mainVars, threadVars
<1>3. CASE Beat
  <2>1. pc[v] # "claimed" => <<v, p>> \in maint'.todo
    <3>1. maint'.todo = {<<w, inflight[w]>> : w \in {u \in Workers : inflight[u] # None}}
      BY <1>3 DEF Beat, OInv, OrchTypeOK
    <3> QED BY <1>1, <3>1, OrchestratorAssumption
  <2>2. probe' = probe
    BY <1>3 DEF Beat, queueVars
  <2> QED BY <1>1, <1>2, <2>1, <2>2 DEF LeaseOK, Holds
<1>4. CASE Sweep
  <2>1. /\ ~stop /\ maint' = maint
        /\ SweepStale(LeaseTimeout, {r \in Probes : Stale(r, LeaseTimeout)})
    BY <1>4 DEF Sweep, Maintained, SweepAfter
  <2>2. ~Stale(p, LeaseTimeout)
    BY <1>1, <2>1, OrchestratorAssumption, QueueAssumption DEF LeaseOK, Stale
  <2>3. probe'[p] = probe[p]
    BY <1>1, <2>1, <2>2, SweepRows
  <2> QED BY <1>1, <1>2, <2>1, <2>3 DEF LeaseOK, Holds
<1>5. CASE OrchTick
  <2>1. ~stop => maint.todo = {} /\ ~maint.due /\ pc[v] # "claimed" /\ maint'.due
    BY <1>1, <1>5 DEF OrchTick, Maintained, OInv, OrchTypeOK
  <2>2. /\ probe'[p].state = probe[p].state /\ probe'[p].by = probe[p].by
        /\ probe'[p].age \in {probe[p].age, probe[p].age + 1}
    BY <1>1, <1>5, TickRows DEF OrchTick
  <2>3. ~stop => probe[p].age = 0
    BY <1>1, <2>1 DEF LeaseOK
  <2> QED BY <1>1, <1>2, <2>1, <2>2, <2>3 DEF LeaseOK, Holds
<1>6. ASSUME NEW w \in Workers, NEW r \in Probes, Renew(w, r) PROVE LeaseOK(v)'
  <2>1. /\ maint'.todo = maint.todo \ {<<w, r>>} /\ maint'.due = maint.due
        /\ TouchProbes(w, {r}) /\ {r} \in SUBSET Probes
    BY <1>6 DEF Renew, OInv, OrchTypeOK
  <2>2. /\ Holds(v, p)'
        /\ IF w = v /\ r = p THEN probe'[p].age = 0 ELSE probe'[p] = probe[p]
    <3>1. /\ probe'[p].state = probe[p].state /\ probe'[p].by = probe[p].by
          /\ IF p \in {r} /\ Holds(w, p) THEN probe'[p].age = 0 ELSE probe'[p] = probe[p]
      BY <1>1, <2>1, TouchRows
    <3>2. Holds(v, p) /\ (w # v => ~Holds(w, p))
      BY <1>1 DEF LeaseOK, Holds
    <3>3. Holds(v, p)'
      BY <1>2, <3>1, <3>2 DEF Holds
    <3> QED BY <3>1, <3>2, <3>3
  <2>3. CASE w = v /\ r = p
    BY <1>2, <2>2, <2>3 DEF LeaseOK, Holds
  <2>4. CASE ~(w = v /\ r = p)
    <3>1. <<v, p>> # <<w, r>>
      BY <2>4
    <3> QED BY <1>1, <1>2, <2>1, <2>2, <2>4, <3>1 DEF LeaseOK, Holds
  <2> QED BY <2>3, <2>4
<1> QED BY <1>3, <1>4, <1>5, <1>6

LEMMA LeaseStep ==
    ASSUME OInv, [OrchNext]_vars
    PROVE  LeasesOK'
<1> SUFFICES ASSUME NEW v \in Workers, maint'.connected, pc'[v] \in Probing
             PROVE  LeaseOK(v)'
  BY DEF LeasesOK
<1>1. CASE Start \/ Resume \/ Kill
  BY <1>1 DEF Start, Resume, StartWith, Kill, Unmaintained, Probing
<1>2. CASE Finish
  BY <1>2 DEF Finish, Gone, Probing
<1>3. CASE SetStop
  <2>1. LeaseOK(v)
    BY <1>3 DEF SetStop, OInv, LeasesOK
  <2> QED BY <1>3, <2>1 DEF SetStop, LeaseOK, Holds, queueVars
<1>4. CASE Beat \/ Sweep \/ OrchTick \/ (\E w \in Workers, r \in Probes : Renew(w, r))
  <2>1. pc' = pc /\ maint'.connected = maint.connected
    BY <1>4 DEF Beat, Sweep, OrchTick, Renew, threadVars, OInv, OrchTypeOK
  <2> QED BY <1>4, <2>1, LeaseKept
<1>5. CASE LoseHeartbeat
  BY <1>5 DEF LoseHeartbeat, OInv, OrchTypeOK
<1>8. CASE LoseSweeper
  <2>1. /\ maint' = [maint EXCEPT !.sweeping = FALSE]
        /\ maint \in [due : BOOLEAN, todo : SUBSET (Workers \X Probes), connected : BOOLEAN,
                     sweeping : BOOLEAN]
        /\ UNCHANGED <<probe, stop, pc, job>>
    BY <1>8 DEF LoseSweeper, OInv, OrchTypeOK, queueVars, mainVars, threadVars
  <2>2. maint'.due = maint.due /\ maint'.todo = maint.todo /\ maint'.connected = maint.connected
    BY <2>1
  <2>3. LeaseOK(v)
    BY <2>1, <2>2 DEF OInv, LeasesOK
  <2> QED BY <2>1, <2>2, <2>3 DEF LeaseOK, Holds
<1>6. ASSUME NEW w \in Workers, Worker(w) PROVE LeaseOK(v)'
  <2>1. maint' = maint
    BY <1>6, WorkerEffects DEF OInv, WorkerEffect, OthersStay
  <2> QED BY <1>6, <2>1, LeaseWorker
<1>7. CASE UNCHANGED vars
  <2>1. LeaseOK(v)
    BY <1>7 DEF vars, OInv, LeasesOK
  <2> QED BY <1>7, <2>1 DEF vars, LeaseOK, Holds
<1> QED BY <1>1, <1>2, <1>3, <1>4, <1>5, <1>6, <1>7, <1>8 DEF OrchNext

\* A row that is running was running before, in the same name, or is claimed now.
LEMMA RunningBefore ==
    ASSUME TypeOK, [QueueNext]_queueVars, NEW p \in Probes, probe'[p].state = "running",
           \A w \in Workers, q \in Queues : ~ClaimProbe(w, q, p)
    PROVE  probe[p].state = "running" /\ probe'[p].by = probe[p].by
<1>1. CASE UNCHANGED queueVars
  BY <1>1 DEF queueVars
<1>2. ASSUME NEW w \in Workers, NEW q \in Queues, NEW r \in Probes, ClaimProbe(w, q, r)
      PROVE  probe[p].state = "running" /\ probe'[p].by = probe[p].by
  BY <1>2, ClaimRows
<1>3. ASSUME NEW w \in Workers, NEW ids \in SUBSET Probes, TouchProbes(w, ids)
      PROVE  probe[p].state = "running" /\ probe'[p].by = probe[p].by
  BY <1>3, TouchRows
<1>4. ASSUME NEW w \in Workers, NEW r \in Probes, NEW s \in Reported, CompleteProbe(r, w, s)
      PROVE  probe[p].state = "running" /\ probe'[p].by = probe[p].by
  BY <1>4, CompleteRows, QueueAssumption
<1>5. ASSUME NEW t \in {0, LeaseTimeout}, NEW swept \in SUBSET Probes, SweepStale(t, swept)
      PROVE  probe[p].state = "running" /\ probe'[p].by = probe[p].by
  BY <1>5, SweepRows
<1>6. CASE Tick
  BY <1>6, TickRows
<1> QED BY <1>1, <1>2, <1>3, <1>4, <1>5, <1>6 DEF QueueNext

LEMMA RunningStep ==
    ASSUME OInv, [OrchNext]_vars
    PROVE  RunningOwned'
<1> DEFINE Owns(w, p) == probe[p].by = w /\ pc[w] \in Probing /\ job[w].crate = p
<1> SUFFICES ASSUME NEW p \in Probes, probe'[p].state = "running", faults' = 0
             PROVE  \E w \in Workers : Owns(w, p)'
  BY DEF RunningOwned
<1>0. /\ faults = 0 /\ faults \in Nat /\ TypeOK /\ [QueueNext]_queueVars
  <2>1. faults \in Nat
    BY OrchestratorAssumption DEF OInv, OrchTypeOK
  <2>2. faults' \in {faults, faults + 1}
    <3>1. \A w \in Workers : Worker(w) => faults' \in {faults, faults + 1}
      BY WorkerEffects DEF OInv, WorkerEffect, OthersStay
    <3> QED BY <3>1 DEF OrchNext, Start, Resume, StartWith, SetStop, Finish, Kill, Beat, Renew,
            LoseHeartbeat, LoseSweeper, Sweep, OrchTick, Fault, vars
  <2>3. [QueueNext]_queueVars
    BY QueueSteps DEF OInv
  <2> QED BY <2>1, <2>2, <2>3 DEF OInv, OrchTypeOK
<1>1. ASSUME NEW w \in Workers, ClaimEffect(w), OthersStay(w), probe[p].state = "pending"
      PROVE  Owns(w, p)'
  <2>1. PICK r \in Probes, u \in Queues :
           pc'[w] = "claimed" /\ ClaimProbe(w, u, r) /\ job'[w].crate = r
    BY <1>1 DEF ClaimEffect
  <2>2. r = p
    BY <1>0, <1>1, <2>1, ClaimRows
  <2> QED BY <1>0, <2>1, <2>2, ClaimRows DEF Probing
<1>2. CASE \A w \in Workers, q \in Queues : ~ClaimProbe(w, q, p)
  <2>1. probe[p].state = "running" /\ probe'[p].by = probe[p].by
    BY <1>0, <1>2, RunningBefore
  <2>2. PICK w \in Workers : Owns(w, p)
    BY <1>0, <2>1 DEF OInv, RunningOwned
  <2>3. CASE Start \/ Resume \/ Finish
    BY <2>2, <2>3 DEF Start, Resume, StartWith, Finish, OInv, NoThreads, Gone, Probing
  <2>4. CASE Kill
    BY <1>0, <2>4 DEF Kill, Fault
  <2>5. CASE SetStop \/ Beat \/ LoseHeartbeat \/ LoseSweeper \/ Sweep \/ OrchTick \/ UNCHANGED vars
             \/ (\E v \in Workers, r \in Probes : Renew(v, r))
    BY <2>1, <2>2, <2>5 DEF SetStop, Beat, LoseHeartbeat, LoseSweeper, Sweep, OrchTick, Renew,
       threadVars, vars
  <2>6. ASSUME NEW v \in Workers, Worker(v) PROVE Owns(w, p)'
    <3>1. WorkerEffect(v)
      BY <2>6, WorkerEffects DEF OInv
    <3>2. CASE v # w
      BY <2>1, <2>2, <3>1, <3>2 DEF WorkerEffect, OthersStay
    <3>3. CASE v = w /\ RecordEffect(w)
      <4>1. Holds(w, p) /\ job[w].crate = p
        BY <2>1, <2>2 DEF Holds
      <4>2. CompleteProbe(p, w, job[w].status)
        BY <1>0, <3>3, <4>1 DEF RecordEffect
      <4>3. job[w].status \in Statuses
        BY <3>3, QueueAssumption DEF RecordEffect, OInv, JobOK
      <4> QED BY <1>0, <4>2, <4>3, CompleteRows
    <3>4. CASE v = w /\ (RegisterEffect(w) \/ ProbeEffect(w))
      BY <1>0, <2>1, <2>2, <3>4 DEF RegisterEffect, ProbeEffect, Probing
    <3>5. CASE v = w /\ (IdleEffect(w) \/ ClaimEffect(w) \/ LostEffect(w) \/ SettleEffect(w))
      BY <2>2, <3>5 DEF IdleEffect, ClaimEffect, LostEffect, SettleEffect, Probing
    <3> QED BY <3>1, <3>2, <3>3, <3>4, <3>5 DEF WorkerEffect
  <2> QED BY <2>3, <2>4, <2>5, <2>6 DEF OrchNext
<1>3. CASE \E w \in Workers, q \in Queues : ClaimProbe(w, q, p)
  <2>1. PICK v \in Workers, q \in Queues : ClaimProbe(v, q, p)
    BY <1>3
  <2>2. probe[p].state = "pending"
    BY <2>1 DEF ClaimProbe, IsHead, Pending
  <2>3. CASE UNCHANGED queueVars
    BY <2>2, <2>3 DEF queueVars
  <2>4. CASE Resume \/ Sweep
    <3>1. PICK t \in Nat, swept \in SUBSET Probes : SweepStale(t, swept)
      BY <2>4, QueueAssumption DEF Resume, StartWith, Sweep, SweepAfter
    <3> QED BY <1>0, <2>2, <3>1, SweepRows
  <2>5. CASE OrchTick
    BY <1>0, <2>2, <2>5, TickRows DEF OrchTick
  <2>6. ASSUME NEW w \in Workers, NEW r \in Probes, Renew(w, r)
        PROVE  \E u \in Workers : Owns(u, p)'
    <3>1. CASE TouchProbes(w, {r})
      <4>1. {r} \in SUBSET Probes
        OBVIOUS
      <4> QED BY <1>0, <2>2, <3>1, <4>1, TouchRows
    <3> QED BY <2>3, <2>6, <3>1 DEF Renew
  <2>7. ASSUME NEW w \in Workers, Worker(w)
        PROVE  \E u \in Workers : Owns(u, p)'
    <3>1. WorkerEffect(w)
      BY <2>7, WorkerEffects DEF OInv
    <3>2. CASE ClaimEffect(w)
      BY <1>1, <2>2, <3>1, <3>2 DEF WorkerEffect
    <3>5. CASE LostEffect(w)
      BY <1>0, <3>5 DEF LostEffect
    <3>3. CASE RecordEffect(w)
      <4>1. job[w].crate \in Probes /\ job[w].status \in Statuses
        BY <3>3, QueueAssumption DEF RecordEffect, OInv, JobOK, Probing
      <4> QED BY <1>0, <2>2, <2>3, <3>3, <4>1, CompleteRows DEF RecordEffect
    <3>4. CASE IdleEffect(w) \/ RegisterEffect(w) \/ ProbeEffect(w) \/ SettleEffect(w)
      BY <2>3, <3>4 DEF IdleEffect, RegisterEffect, ProbeEffect, SettleEffect
    <3> QED BY <3>1, <3>2, <3>3, <3>4, <3>5 DEF WorkerEffect
  <2>8. CASE Start \/ SetStop \/ Finish \/ Kill \/ Beat \/ LoseHeartbeat \/ LoseSweeper
             \/ UNCHANGED vars
    BY <2>3, <2>8 DEF Start, StartWith, SetStop, Finish, Kill, Beat, LoseHeartbeat, LoseSweeper,
       vars, queueVars
  <2> QED BY <2>4, <2>5, <2>6, <2>7, <2>8 DEF OrchNext
<1> QED BY <1>2, <1>3

-----------------------------------------------------------------------------
(***************************************************************************)
(* The invariant.                                                          *)
(***************************************************************************)
LEMMA OrchStarts == OrchInit => OInv
<1> SUFFICES ASSUME OrchInit PROVE OInv
  OBVIOUS
<1>1. TypeOK
  BY TypeInit DEF OrchInit
<1>2. \A w \in Workers : pc[w] = "dead" /\ inflight[w] = None
  BY DEF OrchInit
<1>3. OrchTypeOK
  <2>1. 0 \in 0..(Len(QueueCycle) - 1)
    <3>1. Len(QueueCycle) \in Nat \ {0}
      BY OrchestratorAssumption, EmptySeq, LenProperties
    <3> QED BY <3>1
  <2>2. NoJob \in [crate : Probes \cup {None}, attempt : Nat,
                   status : Statuses \cup {None}, in : {"none", "small", "big"}]
    BY DEF NoJob
  <2>3. /\ job = [w \in Workers |-> NoJob]
        /\ maint = [due |-> FALSE, todo |-> {}, connected |-> FALSE, sweeping |-> FALSE]
    BY DEF OrchInit, Unmaintained
  <2>4. /\ maint \in [due : BOOLEAN, todo : SUBSET (Workers \X Probes), connected : BOOLEAN,
                     sweeping : BOOLEAN]
        /\ job \in [Workers -> [crate : Probes \cup {None}, attempt : Nat,
                                status : Statuses \cup {None}, in : {"none", "small", "big"}]]
    BY <2>2, <2>3
  <2>5. /\ proc \in {"down", "up", "finished"} /\ stop \in BOOLEAN
        /\ tokens \in Nat \cup {None}
        /\ faults \in 0..MaxFaults /\ starts \in 0..MaxStarts
    <3>1. 0 \in 0..MaxFaults /\ 0 \in 0..MaxStarts
      BY OrchestratorAssumption
    <3>2. Limit \in Nat \cup {None}
      BY OrchestratorAssumption
    <3> QED BY <3>1, <3>2 DEF OrchInit
  <2>6. /\ pc \in [Workers -> Places]
        /\ turn \in [Workers -> 0..(Len(QueueCycle) - 1)]
        /\ inflight \in [Workers -> Probes \cup {None}]
        /\ container \in [Workers -> {"none", "small", "big"}]
    BY <2>1 DEF OrchInit, Places
  <2> QED BY <1>1, <2>4, <2>5, <2>6 DEF OrchTypeOK
<1>4. RunningOwned
  BY DEF OrchInit, QueueInit, NewRow, RunningOwned
<1>5. NoThreads /\ InflightExact /\ JobOK /\ LeasesOK
  BY <1>2 DEF NoThreads, InflightExact, JobOK, LeasesOK, Gone, Registered, Probing
<1> QED BY <1>3, <1>4, <1>5 DEF OInv

LEMMA OrchStep == OInv /\ [OrchNext]_vars => OInv'
<1> SUFFICES ASSUME OInv, [OrchNext]_vars PROVE OInv'
  OBVIOUS
<1>1. OrchTypeOK /\ NoThreads /\ InflightExact /\ JobOK
  BY DEF OInv
<1> QED BY <1>1, OrchTypeStep, NoThreadsStep, InflightStep, JobStep, LeaseStep, RunningStep DEF OInv

LEMMA OrchInvariance == OrchSpec => []OInv
BY OrchStarts, OrchStep, PTL DEF OrchSpec

-----------------------------------------------------------------------------
(***************************************************************************)
(* What the process guarantees.                                            *)
(***************************************************************************)

\* The threads of worker_loop, heartbeat_loop and main keep the types of their
\* variables and of the tables, through every error, kill and restart.
THEOREM OrchTypeCorrect == OrchSpec => []OrchTypeOK
<1>1. OInv => OrchTypeOK
  BY DEF OInv
<1> QED BY <1>1, OrchInvariance, PTL

\* Whatever a live worker of worker_loop has claimed stays its own until it
\* reports, while the heartbeat's connection works, for any lease of more than
\* one tick: its age is at most a tick, and the beat that renews it is due.
THEOREM LeaseCorrect == OrchSpec => []LiveClaimsKept
<1>1. OInv => LiveClaimsKept
  BY DEF OInv, LeasesOK, LeaseOK, LiveClaimsKept
<1> QED BY <1>1, OrchInvariance, PTL

\* INFLIGHT lists the crates of the threads between worker_loop's add and its
\* finally clause, so the heartbeat renews no abandoned claim.
THEOREM InflightCorrect == OrchSpec => []InflightIsOwn
<1>1. OInv => InflightIsOwn
  BY DEF OInv, InflightExact, InflightIsOwn, Registered
<1> QED BY <1>1, OrchInvariance, PTL

\* When main returns and no call failed, no crate is left running.
THEOREM ExitCorrect == OrchSpec => []CleanExit
<1>1. OInv => CleanExit
  BY DEF OInv, RunningOwned, NoThreads, Gone, Probing, CleanExit
<1> QED BY <1>1, OrchInvariance, PTL

\* complete_probe's guard on claimed_by is enough: the row that takes a result is
\* on the very attempt the reporting thread claimed, though the guard does not
\* mention attempts and a worker's name outlives its process.
THEOREM AttemptCorrect == OrchSpec => OwnAttemptRecorded
<1> DEFINE Own(p) == \E w \in Workers :
              /\ pc[w] = "record" /\ job[w].crate = p
              /\ job[w].attempt = probe[p].attempts
<1>1. ASSUME OInv, [OrchNext]_vars, NEW p \in Probes, results'[p] # results[p]
      PROVE  Own(p)
  <2>0. TypeOK
    BY <1>1 DEF OInv, OrchTypeOK
  <2>1. CASE Resume \/ Sweep \/ OrchTick \/ (\E w \in Workers, r \in Probes : Renew(w, r))
    BY <1>1, <2>1 DEF Resume, StartWith, Sweep, OrchTick, Renew, SweepStale, Tick, TouchProbes,
       queueVars
  <2>2. CASE Start \/ SetStop \/ Finish \/ Kill \/ Beat \/ LoseHeartbeat \/ LoseSweeper
             \/ UNCHANGED vars
    BY <1>1, <2>2 DEF Start, StartWith, SetStop, Finish, Kill, Beat, LoseHeartbeat, LoseSweeper,
       vars, queueVars
  <2>3. ASSUME NEW w \in Workers, Worker(w) PROVE Own(p)
    <3>1. WorkerEffect(w)
      BY <1>1, <2>3, WorkerEffects DEF OInv
    <3>2. CASE RecordEffect(w)
      <4>1. job[w].crate \in Probes /\ job[w].status \in Statuses
        BY <1>1, <3>2, QueueAssumption DEF RecordEffect, OInv, JobOK, Probing
      <4>2. CompleteProbe(job[w].crate, w, job[w].status)
        BY <1>1, <3>2 DEF RecordEffect, queueVars
      <4>3. job[w].crate = p /\ Holds(w, p)
        BY <1>1, <2>0, <4>1, <4>2, CompleteRows
      <4> QED BY <1>1, <3>2, <4>3 DEF RecordEffect, OInv, JobOK, Probing
    <3>3. CASE \/ IdleEffect(w) \/ ClaimEffect(w) \/ LostEffect(w) \/ RegisterEffect(w)
               \/ ProbeEffect(w) \/ SettleEffect(w)
      BY <1>1, <3>3 DEF IdleEffect, ClaimEffect, LostEffect, RegisterEffect, ProbeEffect,
         SettleEffect,
         ClaimProbe, queueVars
    <3> QED BY <3>1, <3>2, <3>3 DEF WorkerEffect
  <2> QED BY <1>1, <2>1, <2>2, <2>3 DEF OrchNext
<1>2. OInv /\ [OrchNext]_vars => [\A p \in Probes : results'[p] # results[p] => Own(p)]_vars
  BY <1>1
<1> QED BY <1>2, OrchInvariance, PTL DEF OrchSpec, OwnAttemptRecorded

\* The process is a client of the queue and no more: whatever its threads do,
\* the rows take only the steps of the four functions and of time, so that
\* everything proved of QueueSpec holds of the process as well.
THEOREM ClientCorrect == OrchSpec => QueueSpec
<1>1. OrchInit => QueueInit
  BY DEF OrchInit
<1>2. OInv /\ [OrchNext]_vars => [QueueNext]_queueVars
  BY QueueSteps DEF OInv
<1> QED BY <1>1, <1>2, OrchInvariance, PTL DEF OrchSpec, QueueSpec

-----------------------------------------------------------------------------
(***************************************************************************)
(* The limiter.  ClaimsMade is a fold over the rows: that one claim adds   *)
(* one to it is proved by induction on the number of rows counted.         *)
(***************************************************************************)
Chosen(s) == CHOOSE p \in s : TRUE

\* sum is the function the fold is defined by.
Sums(sum, rows) ==
    sum = [s \in SUBSET Probes |->
              IF s = {} THEN 0 ELSE rows[Chosen(s)].attempts + sum[s \ {Chosen(s)}]]

Folded == ClaimsMade = (CHOOSE sum : Sums(sum, probe))[Probes]

LEMMA SumUnfold == Folded
BY DEF Folded, ClaimsMade, MapThenSumSet, MapThenFoldSet, Sums, Chosen

\* A set of numbers that holds 0 and, with a number, the next one, holds them all.
LEMMA NatSetInduction ==
    ASSUME NEW T, 0 \in T, \A n \in Nat : n \in T => n + 1 \in T
    PROVE  Nat \subseteq T
<1> DEFINE B == Nat \ T
<1>1. SUFFICES ASSUME B # {} PROVE FALSE
  OBVIOUS
<1>2. PICK n \in B : \A m \in B : <<m, n>> \notin OpToRel(<, Nat)
  <2>1. IsWellFoundedOn(OpToRel(<, Nat), Nat)
    BY NatLessThanWellFounded
  <2>2. B \subseteq Nat
    OBVIOUS
  <2> HIDE DEF B
  <2> QED BY <1>1, <2>1, <2>2, WFMin
<1>3. n # 0
  OBVIOUS
<1>4. n - 1 \in Nat /\ n - 1 < n
  BY <1>3
<1>5. n - 1 \notin B
  BY <1>2, <1>4 DEF OpToRel
<1> QED BY <1>4, <1>5

\* Without its chosen row a set of rows is smaller by one.
LEMMA Smaller ==
    ASSUME NEW s \in SUBSET Probes
    PROVE  /\ Cardinality(s) \in Nat
           /\ Cardinality(s) = 0 <=> s = {}
           /\ s # {} => /\ Chosen(s) \in s /\ s \ {Chosen(s)} \in SUBSET Probes
                        /\ Cardinality(s \ {Chosen(s)}) = Cardinality(s) - 1
<1>1. IsFiniteSet(s)
  BY OrchestratorAssumption, FS_Subset
<1>2. Cardinality(s) \in Nat /\ (Cardinality(s) = 0 <=> s = {})
  BY <1>1, FS_CardinalityType, FS_EmptySet
<1>3. ASSUME s # {} PROVE Chosen(s) \in s
  BY <1>3 DEF Chosen
<1>4. ASSUME s # {} PROVE Cardinality(s \ {Chosen(s)}) = Cardinality(s) - 1
  BY <1>1, <1>3, <1>4, FS_RemoveElement
<1> QED BY <1>2, <1>3, <1>4

LEMMA SumExists == \A rows : \E sum : Sums(sum, rows)
<1> TAKE rows
<1> DEFINE UpTo(n) == {s \in SUBSET Probes : Cardinality(s) <= n}
           Part(sum, n) == sum = [s \in UpTo(n) |->
              IF s = {} THEN 0 ELSE rows[Chosen(s)].attempts + sum[s \ {Chosen(s)}]]
           T == {n \in Nat : \E sum : Part(sum, n)}
<1>0. \A s \in SUBSET Probes : Cardinality(s) \in Nat /\ (Cardinality(s) = 0 <=> s = {})
  BY Smaller
<1>1. 0 \in T
  <2>1. PICK sum : sum = [s \in UpTo(0) |-> 0]
    OBVIOUS
  <2>2. \A s \in UpTo(0) : s = {}
    BY <1>0
  <2>3. Part(sum, 0)
    BY <2>1, <2>2
  <2> QED BY <2>3
<1>2. ASSUME NEW n \in Nat, n \in T PROVE n + 1 \in T
  <2>1. PICK g : Part(g, n)
    BY <1>2
  <2>2. PICK h : h = [s \in UpTo(n + 1) |->
            IF Cardinality(s) <= n THEN g[s]
            ELSE rows[Chosen(s)].attempts + g[s \ {Chosen(s)}]]
    OBVIOUS
  <2>3. ASSUME NEW s \in UpTo(n + 1)
        PROVE  h[s] = IF s = {} THEN 0 ELSE rows[Chosen(s)].attempts + h[s \ {Chosen(s)}]
    <3>1. CASE s = {}
      <4>1. Cardinality(s) = 0
        BY <1>0, <3>1
      <4>2. s \in UpTo(n) /\ Cardinality(s) <= n
        BY <4>1
      <4>3. g[s] = 0
        BY <2>1, <3>1, <4>2
      <4>4. h[s] = g[s]
        BY <2>2, <4>2
      <4> QED BY <3>1, <4>3, <4>4
    <3>2. CASE s # {}
      <4>1. PICK r : r = s \ {Chosen(s)}
        OBVIOUS
      <4>2. r \in SUBSET Probes /\ Cardinality(r) = Cardinality(s) - 1 /\ Cardinality(s) \in Nat
        BY <3>2, <4>1, Smaller
      <4>3. r \in UpTo(n) /\ r \in UpTo(n + 1) /\ Cardinality(r) <= n
        BY <4>2
      <4>4. h[r] = g[r]
        BY <2>2, <4>3
      <4>5. CASE Cardinality(s) <= n
        BY <2>1, <2>2, <3>2, <4>1, <4>4, <4>5
      <4>6. CASE ~(Cardinality(s) <= n)
        BY <2>2, <3>2, <4>1, <4>4, <4>6
      <4> QED BY <4>5, <4>6
    <3> QED BY <3>1, <3>2
  <2>4. h = [s \in UpTo(n + 1) |-> h[s]]
    BY <2>2
  <2>5. Part(h, n + 1)
    <3> DEFINE Value(s) == IF s = {} THEN 0
                          ELSE rows[Chosen(s)].attempts + h[s \ {Chosen(s)}]
    <3>1. \A s \in UpTo(n + 1) : h[s] = Value(s)
      BY <2>3
    <3> HIDE DEF UpTo, Value
    <3>2. h = [s \in UpTo(n + 1) |-> Value(s)]
      BY <2>4, <3>1
    <3> QED BY <3>2, Zenon DEF Value
  <2> HIDE DEF Part
  <2> QED BY <2>5
<1> HIDE DEF T
<1>3. Nat \subseteq T
  BY <1>1, <1>2, NatSetInduction
<1>4. PICK n \in Nat : n = Cardinality(Probes)
  BY OrchestratorAssumption, FS_CardinalityType
<1>5. PICK sum : Part(sum, n)
  BY <1>3 DEF T
<1>6. UpTo(n) = SUBSET Probes
  <2>1. ASSUME NEW s \in SUBSET Probes PROVE Cardinality(s) <= n
    BY <1>4, OrchestratorAssumption, FS_Subset
  <2> QED BY <2>1
<1>7. Sums(sum, rows)
  BY <1>5, <1>6 DEF Sums
<1> QED BY <1>7

\* One more attempt of one row is one more in the sum.
LEMMA SumSteps ==
    ASSUME NEW rows, NEW rows2, NEW claimed,
           \A p \in Probes : /\ rows[p].attempts \in Nat
                             /\ rows2[p].attempts =
                                   rows[p].attempts + (IF p = claimed THEN 1 ELSE 0),
           NEW f, Sums(f, rows), NEW g, Sums(g, rows2)
    PROVE  /\ f[Probes] \in Nat
           /\ g[Probes] = f[Probes] + (IF claimed \in Probes THEN 1 ELSE 0)
<1> DEFINE More(s) == /\ f[s] \in Nat
                      /\ g[s] = f[s] + (IF claimed \in s THEN 1 ELSE 0)
           T == {n \in Nat : \A s \in SUBSET Probes : Cardinality(s) = n => More(s)}
<1>1. 0 \in T
  <2>1. f[{}] = 0 /\ g[{}] = 0
    BY DEF Sums
  <2>2. \A s \in SUBSET Probes : Cardinality(s) = 0 => s = {}
    BY Smaller
  <2>3. More({})
    BY <2>1
  <2> HIDE DEF More
  <2> QED BY <2>2, <2>3
<1>2. ASSUME NEW n \in Nat, n \in T PROVE n + 1 \in T
  <2> SUFFICES ASSUME NEW s \in SUBSET Probes, Cardinality(s) = n + 1 PROVE More(s)
    OBVIOUS
  <2>1. PICK p, r : p = Chosen(s) /\ r = s \ {p}
    OBVIOUS
  <2>2. s # {} /\ p \in s /\ r \in SUBSET Probes /\ Cardinality(r) = n
    BY <2>1, Smaller
  <2>3. More(r)
    BY <1>2, <2>2
  <2>4. f[s] = rows[p].attempts + f[r] /\ g[s] = rows2[p].attempts + g[r]
    BY <2>1, <2>2 DEF Sums
  <2>5. rows[p].attempts \in Nat
        /\ rows2[p].attempts = rows[p].attempts + (IF p = claimed THEN 1 ELSE 0)
    BY <2>2
  <2>6. f[s] \in Nat
    BY <2>3, <2>4, <2>5
  <2>7. CASE p = claimed
    <3>1. claimed \in s /\ claimed \notin r
      BY <2>1, <2>2, <2>7
    <3> QED BY <2>3, <2>4, <2>5, <2>6, <2>7, <3>1
  <2>8. CASE p # claimed
    <3>1. claimed \in s <=> claimed \in r
      BY <2>1, <2>8
    <3> QED BY <2>3, <2>4, <2>5, <2>6, <2>8, <3>1
  <2> QED BY <2>7, <2>8
<1> HIDE DEF T
<1>3. Nat \subseteq T
  BY <1>1, <1>2, NatSetInduction
<1>4. Cardinality(Probes) \in Nat
  BY OrchestratorAssumption, FS_CardinalityType
<1>5. More(Probes)
  BY <1>3, <1>4 DEF T
<1> QED BY <1>5

\* The sum is a number, and zero before the first claim.
LEMMA NothingSummed ==
    ASSUME NEW rows, \A p \in Probes : rows[p].attempts = 0, NEW f, Sums(f, rows)
    PROVE  f[Probes] = 0
<1> DEFINE T == {n \in Nat : \A s \in SUBSET Probes : Cardinality(s) = n => f[s] = 0}
<1>1. 0 \in T
  <2>1. f[{}] = 0
    BY DEF Sums
  <2>2. \A s \in SUBSET Probes : Cardinality(s) = 0 => s = {}
    BY Smaller
  <2> QED BY <2>1, <2>2
<1>2. ASSUME NEW n \in Nat, n \in T PROVE n + 1 \in T
  <2> SUFFICES ASSUME NEW s \in SUBSET Probes, Cardinality(s) = n + 1 PROVE f[s] = 0
    OBVIOUS
  <2>1. PICK p, r : p = Chosen(s) /\ r = s \ {p}
    OBVIOUS
  <2>2. s # {} /\ p \in s /\ r \in SUBSET Probes /\ Cardinality(r) = n
    BY <2>1, Smaller
  <2>3. f[r] = 0 /\ rows[p].attempts = 0
    BY <1>2, <2>2
  <2>4. f[s] = rows[p].attempts + f[r]
    BY <2>1, <2>2 DEF Sums
  <2> QED BY <2>3, <2>4
<1> HIDE DEF T
<1>3. Nat \subseteq T
  BY <1>1, <1>2, NatSetInduction
<1>4. Cardinality(Probes) \in Nat
  BY OrchestratorAssumption, FS_CardinalityType
<1> QED BY <1>3, <1>4 DEF T

LEMMA SumIsNumber ==
    ASSUME TypeOK
    PROVE  ClaimsMade \in Nat
<1>1. PICK rows : rows = probe
  OBVIOUS
<1>2. PICK f : f = CHOOSE sum : Sums(sum, rows)
  OBVIOUS
<1>3. Sums(f, rows) /\ ClaimsMade = f[Probes]
  BY <1>1, <1>2, SumExists, SumUnfold DEF Folded
<1>4. \A p \in Probes : rows[p].attempts \in Nat /\ p # None
  BY <1>1, RowType, OrchestratorAssumption
<1>5. f[Probes] \in Nat
  <2>1. PICK rows2, nobody : rows2 = rows /\ nobody = None
    OBVIOUS
  <2>2. \A p \in Probes : /\ rows[p].attempts \in Nat
                          /\ rows2[p].attempts = rows[p].attempts + (IF p = nobody THEN 1 ELSE 0)
    <3> SUFFICES ASSUME NEW p \in Probes
                 PROVE  /\ rows[p].attempts \in Nat
                        /\ rows2[p].attempts = rows[p].attempts + (IF p = nobody THEN 1 ELSE 0)
      OBVIOUS
    <3>1. rows[p].attempts \in Nat /\ p # nobody
      BY <1>4, <2>1
    <3> QED BY <2>1, <3>1
  <2>3. PICK g : g = f
    OBVIOUS
  <2>4. Sums(g, rows2)
    BY <1>3, <2>1, <2>3
  <2>5. f[Probes] \in Nat /\ g[Probes] = f[Probes] + (IF nobody \in Probes THEN 1 ELSE 0)
    <3>1. Sums(f, rows)
      BY <1>3
    <3> QED BY <2>2, <2>4, <3>1, SumSteps
  <2> QED BY <2>5
<1> QED BY <1>3, <1>5

\* A claim adds one to the sum, and nothing else changes it.
Counted == IF \E w \in Workers, q \in Queues, p \in Probes : ClaimProbe(w, q, p)
           THEN ClaimsMade' = ClaimsMade + 1 ELSE ClaimsMade' = ClaimsMade

LEMMA AttemptsSteps ==
    ASSUME TypeOK, [QueueNext]_queueVars
    PROVE  ClaimsMade \in Nat /\ Counted
<1>1. PICK rows, rows2 : rows = probe /\ rows2 = probe'
  OBVIOUS
<1>2. PICK f : f = CHOOSE sum : Sums(sum, rows)
  OBVIOUS
<1>3. PICK g : g = CHOOSE sum : Sums(sum, rows2)
  OBVIOUS
<1>4. Sums(f, rows) /\ Sums(g, rows2)
  BY <1>2, <1>3, SumExists
<1>5. ClaimsMade = f[Probes]
  BY <1>1, <1>2, SumUnfold DEF Folded
<1>6. ClaimsMade' = (CHOOSE sum : Sums(sum, probe'))[Probes]
  <2>1. Folded'
    BY SumUnfold, PTL
  <2> QED BY <2>1 DEF Folded
<1>7. ClaimsMade' = g[Probes]
  BY <1>1, <1>3, <1>6
<1>8. \A p \in Probes : probe[p].attempts \in Nat
  BY RowType
<1>9. CASE \E w \in Workers, q \in Queues, p \in Probes : ClaimProbe(w, q, p)
  <2>1. PICK w \in Workers, q \in Queues, r \in Probes : ClaimProbe(w, q, r)
    BY <1>9
  <2>2. \A p \in Probes : /\ rows[p].attempts \in Nat
                          /\ rows2[p].attempts = rows[p].attempts + (IF p = r THEN 1 ELSE 0)
    BY <1>1, <1>8, <2>1, ClaimRows
  <2>3. f[Probes] \in Nat /\ g[Probes] = f[Probes] + 1
    BY <1>4, <2>2, SumSteps
  <2> QED BY <1>5, <1>7, <1>9, <2>3 DEF Counted
<1>10. CASE ~\E w \in Workers, q \in Queues, p \in Probes : ClaimProbe(w, q, p)
  <2>1. ASSUME NEW p \in Probes PROVE probe'[p].attempts = probe[p].attempts
    <3>1. CASE UNCHANGED queueVars
      BY <3>1 DEF queueVars
    <3>2. CASE \E w \in Workers, ids \in SUBSET Probes : TouchProbes(w, ids)
      BY <3>2, TouchRows
    <3>3. ASSUME NEW w \in Workers, NEW r \in Probes, NEW s \in Reported, CompleteProbe(r, w, s)
          PROVE  probe'[p].attempts = probe[p].attempts
      <4>1. s \in Statuses
        BY QueueAssumption
      <4>2. CASE p = r
        <5>1. probe'[p] = Reporting(p, StateAfter(s, probe[p].attempts)) /\ probe[p] \in ProbeRow
          BY <3>3, <4>2 DEF CompleteProbe, TypeOK, Reporting
        <5>2. StateAfter(s, probe[p].attempts) \in States
          BY <1>8, <4>1, ReportStates DEF States
        <5> QED BY <5>1, <5>2, ReportingRow
      <4>3. CASE p # r
        BY <3>3, <4>1, <4>3, CompleteRows
      <4> QED BY <4>2, <4>3
    <3>4. ASSUME NEW t, NEW swept \in SUBSET Probes, SweepStale(t, swept)
          PROVE  probe'[p].attempts = probe[p].attempts
      <4>1. CASE p \in swept
        <5>1. probe'[p] = Released(probe[p], StateReclaimed(probe[p].attempts))
              /\ probe[p] \in ProbeRow
          BY <3>4, <4>1 DEF SweepStale, TypeOK
        <5>2. StateReclaimed(probe[p].attempts) \in States
          BY DEF StateReclaimed, States
        <5> QED BY <5>1, <5>2, ReleasedRow
      <4>2. CASE p \notin swept
        BY <3>4, <4>2 DEF SweepStale
      <4> QED BY <4>1, <4>2
    <3>5. CASE Tick
      BY <3>5, TickRows
    <3> QED BY <1>10, <3>1, <3>2, <3>3, <3>4, <3>5 DEF QueueNext
  <2>2. PICK nobody : nobody \notin Probes
    BY OrchestratorAssumption
  <2>3. \A p \in Probes : /\ rows[p].attempts \in Nat
                          /\ rows2[p].attempts = rows[p].attempts + (IF p = nobody THEN 1 ELSE 0)
    BY <1>1, <1>8, <2>1, <2>2
  <2>4. f[Probes] \in Nat /\ g[Probes] = f[Probes] + 0
    BY <1>4, <2>2, <2>3, SumSteps
  <2> QED BY <1>5, <1>7, <1>10, <2>4 DEF Counted
<1> QED BY <1>9, <1>10, SumIsNumber

\* The threads that have taken a token and not claimed yet.
Entering == {w \in Workers : pc[w] \in {"claim", "other"}}

\* What has been claimed, may still be claimed or is about to be is no more than
\* what all the starts of the process were given.
LimitInv ==
    /\ tokens = None <=> Limit = None
    /\ Limit # None =>
          IF proc = "up" THEN ClaimsMade + tokens + Cardinality(Entering) <= Limit * starts
                         ELSE ClaimsMade <= Limit * starts

LEMMA LimitStarts == OrchInit => LimitInv
<1> SUFFICES ASSUME OrchInit, Limit # None PROVE ClaimsMade <= Limit * starts
  BY DEF OrchInit, LimitInv
<1>1. PICK rows : rows = probe
  OBVIOUS
<1>2. PICK f : f = CHOOSE sum : Sums(sum, rows)
  OBVIOUS
<1>3. Sums(f, rows)
  BY <1>2, SumExists
<1>4. ClaimsMade = f[Probes]
  BY <1>1, <1>2, SumUnfold DEF Folded
<1>5. \A p \in Probes : rows[p].attempts = 0
  BY <1>1 DEF OrchInit, QueueInit, NewRow
<1>6. f[Probes] = 0
  BY <1>3, <1>5, NothingSummed
<1>7. Limit \in Nat /\ starts = 0
  BY OrchestratorAssumption DEF OrchInit
<1> QED BY <1>4, <1>6, <1>7

\* Nobody but a thread that passes the limiter takes a token.
LEMMA TokenSteps ==
    ASSUME OrchTypeOK, JobOK, NEW w \in Workers, Worker(w)
    PROVE  \/ /\ ~LimitReached /\ pc[w] = "loop" /\ pc'[w] = "claim" /\ UNCHANGED queueVars
              /\ tokens' = IF tokens = None THEN None ELSE tokens - 1
           \/ UNCHANGED tokens /\ (pc'[w] \in {"claim", "other"} => w \in Entering)
<1>t. pc \in [Workers -> Places]
  BY DEF OrchTypeOK
<1>1. CASE Loop(w)
  BY <1>1, <1>t DEF Loop, At, Go
<1>2. CASE ClaimTurn(w) \/ ClaimOther(w)
  BY <1>2, <1>t DEF ClaimTurn, ClaimOther, Claim, At, Entering, mainVars
<1>3. CASE ~(Loop(w) \/ ClaimTurn(w) \/ ClaimOther(w))
  <2>1. UNCHANGED tokens
    BY <1>3 DEF Worker, Boot, WakeUp, Register, Run, Grow, Rerun, Shrink, Record, Settle, Upkeep,
       mainVars
  <2>2. pc'[w] \notin {"claim", "other"}
    BY <1>3, <1>t DEF Worker, Boot, WakeUp, Register, Run, Grow, Rerun, Shrink, Record, Settle,
       Upkeep, Raises, Go
  <2> QED BY <2>1, <2>2
<1> QED BY <1>1, <1>2, <1>3

LEMMA LimitStep ==
    ASSUME OrchTypeOK, JobOK, LimitInv, [OrchNext]_vars
    PROVE  LimitInv'
<1>0. /\ TypeOK /\ tokens \in Nat \cup {None} /\ starts \in Nat
      /\ pc \in [Workers -> Places] /\ None \notin Nat
  BY OrchestratorAssumption DEF OrchTypeOK
<1>1. ClaimsMade \in Nat /\ Counted
  BY <1>0, QueueSteps, AttemptsSteps
<1>2. \A S \in SUBSET Workers : IsFiniteSet(S) /\ Cardinality(S) \in Nat
  BY OrchestratorAssumption, FS_Subset, FS_CardinalityType
<1>3. Limit \in Nat \cup {None}
  BY OrchestratorAssumption
<1>q. ASSUME NEW w \in Workers, NEW q \in Queues, NEW p \in Probes, ClaimProbe(w, q, p)
      PROVE  probe' # probe
  BY <1>0, <1>q, ClaimRows
<1>4. CASE \/ SetStop \/ Beat \/ LoseHeartbeat \/ LoseSweeper \/ Sweep \/ OrchTick \/ UNCHANGED vars
           \/ (\E w \in Workers, p \in Probes : Renew(w, p))
  <2>1. UNCHANGED <<tokens, pc, proc, starts>>
    BY <1>4 DEF SetStop, Beat, LoseHeartbeat, LoseSweeper, Sweep, OrchTick, Renew, vars,
       mainVars, threadVars
  <2>2. ASSUME NEW w \in Workers, NEW q \in Queues, NEW r \in Probes, ClaimProbe(w, q, r)
        PROVE  FALSE
    <3>1. probe[r].state = "pending" /\ probe'[r].state = "running"
      BY <1>0, <2>2, ClaimRows
    <3>2. CASE SetStop \/ Beat \/ LoseHeartbeat \/ LoseSweeper \/ UNCHANGED vars
      BY <3>1, <3>2 DEF SetStop, Beat, LoseHeartbeat, LoseSweeper, queueVars, vars
    <3>3. CASE Sweep
      BY <1>0, <3>1, <3>3, SweepRows DEF Sweep
    <3>4. CASE OrchTick
      BY <1>0, <3>1, <3>4, TickRows DEF OrchTick
    <3>5. ASSUME NEW v \in Workers, NEW p \in Probes, Renew(v, p)
          PROVE  FALSE
      <4>1. TouchProbes(v, {p}) \/ UNCHANGED queueVars
        BY <3>5 DEF Renew
      <4> QED BY <1>0, <3>1, <4>1, TouchRows DEF queueVars
    <3> QED BY <1>4, <3>2, <3>3, <3>4, <3>5
  <2>3. ClaimsMade' = ClaimsMade
    BY <1>1, <2>2 DEF Counted
  <2> QED BY <2>1, <2>3 DEF LimitInv, Entering
<1>5. CASE Start \/ Resume
  <2>1. /\ proc # "up" /\ proc' = "up" /\ tokens' = Limit /\ starts' = starts + 1
        /\ pc' = [w \in Workers |-> "boot"]
    BY <1>5 DEF Start, Resume, StartWith
  <2>2. ASSUME NEW w \in Workers, NEW q \in Queues, NEW r \in Probes, ClaimProbe(w, q, r)
        PROVE  FALSE
    <3>1. probe[r].state = "pending" /\ probe'[r].state = "running"
      BY <1>0, <2>2, ClaimRows
    <3>2. CASE Start
      BY <3>1, <3>2 DEF Start, StartWith, queueVars
    <3>3. CASE Resume
      BY <1>0, <3>1, <3>3, SweepRows DEF Resume, StartWith
    <3> QED BY <1>5, <3>2, <3>3
  <2>3. ClaimsMade' = ClaimsMade
    BY <1>1, <2>2 DEF Counted
  <2>4. Entering' = {}
    BY <2>1 DEF Entering
  <2>5. Cardinality(Entering') = 0
    BY <2>4, FS_EmptySet
  <2>6. ASSUME Limit # None
        PROVE  ClaimsMade' + tokens' + Cardinality(Entering') <= Limit * starts'
    <3>1. Limit \in Nat /\ ClaimsMade <= Limit * starts
      BY <1>3, <2>1, <2>6 DEF LimitInv
    <3>2. Limit * (starts + 1) = Limit * starts + Limit /\ Limit * starts \in Nat
      BY <1>0, <3>1
    <3> QED BY <1>1, <2>1, <2>3, <2>5, <3>1, <3>2
  <2> QED BY <2>1, <2>6 DEF LimitInv
<1>6. CASE Finish \/ Kill
  <2>1. proc = "up" /\ proc' # "up" /\ UNCHANGED <<queueVars, tokens, starts>>
    BY <1>6 DEF Finish, Kill
  <2>2. ClaimsMade' = ClaimsMade
    BY <1>1, <1>q, <2>1 DEF Counted, queueVars
  <2>3. ASSUME Limit # None PROVE ClaimsMade <= Limit * starts
    <3>1. /\ ClaimsMade + tokens + Cardinality(Entering) <= Limit * starts
          /\ tokens \in Nat /\ Cardinality(Entering) \in Nat /\ Limit * starts \in Nat
      BY <1>0, <1>2, <1>3, <2>1, <2>3 DEF LimitInv, Entering
    <3> QED BY <1>1, <3>1
  <2> QED BY <2>1, <2>2, <2>3 DEF LimitInv
<1>7. ASSUME NEW w \in Workers, Worker(w) PROVE LimitInv'
  <2>1. WorkerEffect(w)
    BY <1>7, WorkerEffects
  <2>2. /\ proc = "up" /\ UNCHANGED <<proc, starts>>
        /\ \A v \in Workers \ {w} : pc'[v] = pc[v]
    BY <2>1 DEF WorkerEffect, OthersStay
  <2>3. CASE /\ ~LimitReached /\ pc[w] = "loop" /\ pc'[w] = "claim" /\ UNCHANGED queueVars
             /\ tokens' = IF tokens = None THEN None ELSE tokens - 1
    <3>1. ClaimsMade' = ClaimsMade
      BY <1>1, <1>q, <2>3 DEF Counted, queueVars
    <3>2. w \notin Entering /\ Entering' = Entering \cup {w}
      BY <2>2, <2>3 DEF Entering
    <3>3. IsFiniteSet(Entering) /\ Cardinality(Entering) \in Nat
      BY <1>2 DEF Entering
    <3>4. Cardinality(Entering') = Cardinality(Entering) + 1
      BY <3>2, <3>3, FS_AddElement
    <3>5. ASSUME Limit # None
          PROVE  /\ tokens' # None
                 /\ ClaimsMade' + tokens' + Cardinality(Entering') <= Limit * starts
      <4>1. /\ ClaimsMade + tokens + Cardinality(Entering) <= Limit * starts
            /\ tokens \in Nat /\ Limit * starts \in Nat
        BY <1>0, <1>3, <2>2, <3>5 DEF LimitInv
      <4>2. tokens' = tokens - 1 /\ tokens > 0
        BY <1>0, <2>3, <4>1 DEF LimitReached
      <4>3. tokens' \in Nat
        BY <4>1, <4>2
      <4> QED BY <1>0, <1>1, <3>1, <3>3, <3>4, <4>1, <4>2, <4>3
    <3> QED BY <2>2, <2>3, <3>5 DEF LimitInv
  <2>4. CASE UNCHANGED tokens /\ (pc'[w] \in {"claim", "other"} => w \in Entering)
    <3>1. Entering' \subseteq Entering
      BY <2>2, <2>4 DEF Entering
    <3>2. Cardinality(Entering') <= Cardinality(Entering) /\ Cardinality(Entering') \in Nat
          /\ Cardinality(Entering) \in Nat
      BY <1>2, <3>1, FS_Subset DEF Entering
    <3>3. ClaimsMade' + Cardinality(Entering') <= ClaimsMade + Cardinality(Entering)
          /\ ClaimsMade' \in Nat
      <4>1. CASE ClaimEffect(w) \/ LostEffect(w)
        <5>1. w \in Entering /\ Entering' = Entering \ {w}
          BY <2>2, <4>1 DEF ClaimEffect, LostEffect, Entering
        <5>2. Cardinality(Entering') = Cardinality(Entering) - 1
          BY <1>2, <5>1, FS_RemoveElement DEF Entering
        <5>3. ClaimsMade' = ClaimsMade + 1
          BY <1>1, <4>1 DEF ClaimEffect, LostEffect, Counted
        <5> QED BY <1>1, <3>2, <5>2, <5>3
      <4>2. CASE ~(ClaimEffect(w) \/ LostEffect(w))
        <5>1. ASSUME NEW v \in Workers, NEW q \in Queues, NEW r \in Probes, ClaimProbe(v, q, r)
              PROVE  FALSE
          <6>1. probe[r].state = "pending" /\ probe'[r].state = "running"
            BY <1>0, <5>1, ClaimRows
          <6>2. CASE RecordEffect(w)
            <7>1. job[w].crate \in Probes /\ job[w].status \in Statuses
              BY <6>2, QueueAssumption DEF RecordEffect, JobOK, Probing
            <7> QED BY <1>0, <6>1, <6>2, <7>1, CompleteRows DEF RecordEffect, queueVars
          <6>3. CASE ~RecordEffect(w)
            BY <2>1, <4>2, <6>1, <6>3 DEF WorkerEffect, IdleEffect, RegisterEffect, ProbeEffect,
               SettleEffect, queueVars
          <6> QED BY <6>2, <6>3
        <5>2. ClaimsMade' = ClaimsMade
          BY <1>1, <5>1 DEF Counted
        <5> QED BY <1>1, <3>2, <5>2
      <4> QED BY <4>1, <4>2
    <3>4. ASSUME Limit # None
          PROVE  ClaimsMade' + tokens' + Cardinality(Entering') <= Limit * starts
      <4>1. /\ ClaimsMade + tokens + Cardinality(Entering) <= Limit * starts
            /\ tokens \in Nat /\ Limit * starts \in Nat
        BY <1>0, <1>3, <2>2, <3>4 DEF LimitInv
      <4> QED BY <1>1, <2>4, <3>2, <3>3, <4>1
    <3> QED BY <2>2, <2>4, <3>4 DEF LimitInv
  <2> QED BY <1>7, <2>3, <2>4, TokenSteps
<1> QED BY <1>4, <1>5, <1>6, <1>7 DEF OrchNext

\* --limit N: all threads together claim at most N crates per start of the
\* process, with any number of threads and whatever raises: a token is taken
\* under the limiter's lock before the claim, and never given back.
THEOREM LimitCorrect == OrchSpec => []LimitKept
<1>1. OInv /\ LimitInv /\ [OrchNext]_vars => LimitInv'
  BY LimitStep DEF OInv
<1>2. OInv /\ LimitInv => LimitKept
  <2> SUFFICES ASSUME OInv, LimitInv, Limit # None PROVE ClaimsMade <= Limit * starts
    BY DEF LimitKept
  <2>1. TypeOK /\ tokens \in Nat /\ starts \in Nat /\ Limit \in Nat
    BY OrchestratorAssumption DEF OInv, OrchTypeOK, LimitInv
  <2>2. ClaimsMade \in Nat
    BY <2>1, SumIsNumber
  <2>3. Cardinality(Entering) \in Nat
    BY OrchestratorAssumption, FS_Subset, FS_CardinalityType DEF Entering
  <2>4. Limit * starts \in Nat
    BY <2>1
  <2> QED BY <2>1, <2>2, <2>3, <2>4 DEF LimitInv
<1> QED BY <1>1, <1>2, LimitStarts, OrchInvariance, PTL DEF OrchSpec
=============================================================================
