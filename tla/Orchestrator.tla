----------------------------- MODULE Orchestrator -----------------------------
(***************************************************************************)
(* One orchestrator process over the queue of ProbeQueue: the worker       *)
(* threads, the heartbeat and sweeper threads, the limiter, the signal     *)
(* that stops them, and the container each worker drives; the process may  *)
(* be killed at any time and started again.                                *)
(*                                                                         *)
(* A worker thread is the program counter pc[w]; the values name the call  *)
(* it is about to make in worker_loop.  Every such call may take any time  *)
(* or raise, which is why INFLIGHT, the leases and the sweeper exist.      *)
(*                                                                         *)
(* Abstractions.  run_probe is one step that yields a status, any of       *)
(* Reported in a running container.  Whether a probe count is a multiple   *)
(* of GC_EVERY or RECYCLE_EVERY is left open.  Calls that raise are        *)
(* bounded by MaxFaults, starts of the process by MaxStarts.               *)
(***************************************************************************)
EXTENDS ProbeQueue, FiniteSets, FiniteSetsExt

CONSTANTS
    QueueCycle,   \* QUEUE_CYCLE
    ForceQueue,   \* --queue, or None
    Limit,        \* --limit, or None; main takes a limit of 0 for none
    Faults,       \* the kinds of call that may raise in this instance
    MaxFaults,    \* bound: how many of them do
    MaxStarts,    \* bound: starts of the process
    MayStop       \* whether SIGINT, SIGTERM or --minutes may set STOP

FaultKinds == {"boot", "claim", "run", "recycle", "gc", "record", "heartbeat", "sweep",
               "kill"}

\* The lease is longer than a tick, and a tick longer than HEARTBEAT_SEC.  The
\* table has finitely many rows, and --workers threads are started.
ASSUME OrchestratorAssumption ==
    /\ IsFiniteSet(Probes) /\ IsFiniteSet(Workers)
    /\ LeaseTimeout > 1 /\ "excluded_resolve" \in Reported
    /\ QueueCycle \in Seq(Queues) /\ QueueCycle # <<>>
    /\ ForceQueue \in Queues \cup {None}
    /\ None \notin Nat /\ None \notin Probes
    /\ Limit \in (Nat \ {0}) \cup {None}
    /\ Faults \subseteq FaultKinds
    /\ MaxFaults \in Nat /\ MaxStarts \in Nat /\ MayStop \in BOOLEAN

VARIABLES
    proc,        \* the process: "down", "up", or "finished" once main returned
    stop,        \* STOP
    tokens,      \* what Limiter.n has left, or None
    pc,          \* where each worker thread is
    turn,        \* each worker's n, modulo the length of QueueCycle
    job,         \* the claim a worker thread works on
    inflight,    \* INFLIGHT: the crate each worker registered, or None
    container,   \* each worker's container: "none", "small" or "big"
    maint,       \* the heartbeat thread: whether a beat is due, the renewals
                 \* left of the beat's snapshot, whether its connection works;
                 \* the sweeper thread: whether its connection works
    faults, starts

mainVars == <<proc, stop, tokens, starts>>
vars == <<probe, results, proc, stop, tokens, pc, turn, job, inflight, container,
          maint, faults, starts>>

Places == {"boot", "loop", "claim", "other", "idle", "claimed", "run", "grow",
           "rerun", "shrink", "record", "settle", "upkeep", "exited", "dead"}

\* A job: the crate, which attempt of it was claimed, the status found for it
\* (None before) and the container it was found in.
NoJob == [crate |-> None, attempt |-> 0, status |-> None, in |-> "none"]

\* No maintenance thread runs.
Unmaintained == [due |-> FALSE, todo |-> {}, connected |-> FALSE, sweeping |-> FALSE]

Gone(w) == pc[w] \in {"exited", "dead"}

OrchInit ==
    /\ QueueInit
    /\ proc = "down" /\ stop = FALSE /\ tokens = Limit /\ starts = 0
    /\ pc = [w \in Workers |-> "dead"]
    /\ turn = [w \in Workers |-> 0]
    /\ job = [w \in Workers |-> NoJob]
    /\ inflight = [w \in Workers |-> None]
    /\ container = [w \in Workers |-> "none"]
    /\ maint = Unmaintained
    /\ faults = 0

-----------------------------------------------------------------------------
(***************************************************************************)
(* The process: resume.sh, main, the signal handler, kill -9.              *)
(***************************************************************************)

\* Start, or start again.  resume.sh first reclaims every running row; the
\* plain command line does not.
StartWith(Sweep) ==
    /\ proc # "up" /\ starts < MaxStarts
    /\ Sweep
    /\ proc' = "up" /\ stop' = FALSE /\ tokens' = Limit /\ starts' = starts + 1
    /\ pc' = [w \in Workers |-> "boot"]
    /\ turn' = [w \in Workers |-> 0]
    /\ job' = [w \in Workers |-> NoJob]
    /\ inflight' = [w \in Workers |-> None]
    /\ maint' = [Unmaintained EXCEPT !.connected = TRUE, !.sweeping = TRUE]
    /\ UNCHANGED <<container, faults>>

Start  == StartWith(UNCHANGED queueVars)
Resume == StartWith(SweepStale(0, {p \in Probes : Stale(p, 0)}))

SetStop ==
    /\ MayStop /\ proc = "up" /\ ~stop
    /\ stop' = TRUE
    /\ UNCHANGED <<queueVars, proc, tokens, starts, pc, turn, job, inflight,
                   container, maint, faults>>

\* main joins the workers and destroys the containers.
Finish ==
    /\ proc = "up" /\ \A w \in Workers : Gone(w)
    /\ proc' = "finished"
    /\ container' = [w \in Workers |-> "none"]
    /\ maint' = [maint EXCEPT !.due = FALSE, !.todo = {}]
    /\ UNCHANGED <<queueVars, stop, tokens, starts, pc, turn, job, inflight, faults>>

Fault(kind) ==
    /\ kind \in Faults /\ faults < MaxFaults
    /\ faults' = faults + 1

Kill ==
    /\ proc = "up" /\ Fault("kill")
    /\ proc' = "down"
    /\ pc' = [w \in Workers |-> "dead"]
    /\ job' = [w \in Workers |-> NoJob]
    /\ inflight' = [w \in Workers |-> None]
    /\ maint' = Unmaintained
    /\ UNCHANGED <<queueVars, stop, tokens, starts, turn, container>>

-----------------------------------------------------------------------------
(***************************************************************************)
(* worker_loop.                                                            *)
(***************************************************************************)
At(w, place) == proc = "up" /\ pc[w] = place
Go(w, place) == pc' = [pc EXCEPT ![w] = place]

\* create_worker and connect; a failure ends the thread.
Boot(w) ==
    /\ At(w, "boot")
    /\ \/ /\ Go(w, "loop")
          /\ container' = [container EXCEPT ![w] = "small"]
          /\ UNCHANGED faults
       \/ /\ Fault("boot") /\ Go(w, "dead")
          /\ container' = [container EXCEPT ![w] = "none"]
    /\ UNCHANGED <<queueVars, mainVars, turn, job, inflight, maint>>

\* Mutant: the limiter lets one probe too many through.
LimitReached_OffByOne == tokens # None /\ tokens + 1 <= 0

LimitReached == tokens # None /\ tokens <= 0

\* Mutant: a worker that sees STOP after its claim leaves at once.
AfterClaim_LeavesOnStop == IF stop THEN "exited" ELSE "claimed"

\* A worker that has claimed goes on, also when STOP was set meanwhile.
AfterClaim == "claimed"

Loop(w) ==
    /\ At(w, "loop")
    /\ IF stop \/ LimitReached
       THEN Go(w, "exited") /\ UNCHANGED tokens
       ELSE /\ Go(w, "claim")
            /\ tokens' = IF tokens = None THEN None ELSE tokens - 1
    /\ UNCHANGED <<queueVars, proc, stop, starts, turn, job, inflight, container,
                   maint, faults>>

Turn(w)  == IF ForceQueue # None THEN ForceQueue ELSE QueueCycle[turn[w] + 1]
Other(q) == IF q = "popular" THEN "random" ELSE "popular"

\* complete_probe locks the row before it looks whether the claim is still held:
\* a report that comes late may hold a row that is pending again.
PassedOver(w, p) == \E v \in Workers \ {w} : pc[v] = "record" /\ job[v].crate = p

\* Nothing to claim: FOR UPDATE SKIP LOCKED passes over the rows held locked.  One
\* that another claim holds is as good as claimed.
Drained(w) == \A p \in Probes : Pending(p) => PassedOver(w, p)

Takes(w, q, p) ==
    /\ ClaimProbe(w, q, p)
    /\ job' = [job EXCEPT ![w] = [NoJob EXCEPT !.crate = p,
                                               !.attempt = probe[p].attempts + 1]]
    /\ Go(w, AfterClaim)

\* claim_probe on queue q; without a row the worker goes to miss.  An error is
\* not caught: it ends the thread.  If only the reply is lost, the row is running
\* in the name of a worker that never works on it.
Claim(w, here, q, miss) ==
    /\ At(w, here)
    /\ \/ (\E p \in Probes : Takes(w, q, p)) /\ UNCHANGED faults
       \/ Drained(w) /\ Go(w, miss) /\ UNCHANGED <<queueVars, job, faults>>
       \/ /\ Fault("claim") /\ Go(w, "dead") /\ UNCHANGED job
          /\ UNCHANGED queueVars \/ (\E p \in Probes : ClaimProbe(w, q, p))
    /\ UNCHANGED <<mainVars, turn, inflight, container, maint>>

ClaimTurn(w)  == Claim(w, "claim", Turn(w), "other")
ClaimOther(w) == Claim(w, "other", Other(Turn(w)), "idle")

\* STOP.wait(15), after which the worker looks again.
WakeUp(w) ==
    /\ At(w, "idle")
    /\ Go(w, IF stop THEN "exited" ELSE "loop")
    /\ UNCHANGED <<queueVars, mainVars, turn, job, inflight, container, maint, faults>>

Register(w) ==
    /\ At(w, "claimed")
    /\ inflight' = [inflight EXCEPT ![w] = job[w].crate]
    /\ Go(w, "run")
    /\ UNCHANGED <<queueVars, mainVars, turn, job, container, maint, faults>>

\* Whatever raises between the claim and the result is caught and printed; the
\* row stays running until the sweeper finds it.
Raises(w, kind) ==
    Fault(kind) /\ Go(w, "settle") /\ UNCHANGED job

\* run_probe in the worker's container.  Without a container every exec fails,
\* no phase prints its JSON line, and that is taken for a failed resolution.
StatusesIn(size) == IF size = "none" THEN {"excluded_resolve"} ELSE Reported

\* A resource failure is retried once on a big container.
RetriesBig(status) == status = "excluded_resource"

Found(w, s) ==
    job' = [job EXCEPT ![w] = [@ EXCEPT !.status = s, !.in = container[w]]]

Run(w) ==
    /\ At(w, "run")
    /\ \/ \E s \in StatusesIn(container[w]) :
             /\ Found(w, s)
             /\ Go(w, IF RetriesBig(s) THEN "grow" ELSE "record")
             /\ UNCHANGED faults
       \/ Raises(w, "run")
    /\ UNCHANGED <<queueVars, mainVars, turn, inflight, container, maint>>

Rerun(w) ==
    /\ At(w, "rerun")
    /\ \/ \E s \in StatusesIn(container[w]) :
             Found(w, s) /\ Go(w, "shrink") /\ UNCHANGED faults
       \/ Raises(w, "run")
    /\ UNCHANGED <<queueVars, mainVars, turn, inflight, container, maint>>

\* recycle_worker: stop, rm, create.  When it raises, the old container may be
\* gone without a new one.
Recycles(w, size) == container' = [container EXCEPT ![w] = size]

RecycleFails(w) == \E size \in {container[w], "none"} : Recycles(w, size)

Grow(w) ==
    /\ At(w, "grow")
    /\ \/ Recycles(w, "big") /\ Go(w, "rerun") /\ UNCHANGED <<job, faults>>
       \/ Raises(w, "recycle") /\ RecycleFails(w)
    /\ UNCHANGED <<queueVars, mainVars, turn, inflight, maint>>

Shrink(w) ==
    /\ At(w, "shrink")
    /\ \/ Recycles(w, "small") /\ Go(w, "record") /\ UNCHANGED <<job, faults>>
       \/ Raises(w, "recycle") /\ RecycleFails(w)
    /\ UNCHANGED <<queueVars, mainVars, turn, inflight, maint>>

\* record_result.  It raises when the claim was lost; the connection may also
\* fail, before the commit or after it.
Record(w) ==
    /\ At(w, "record")
    /\ Go(w, "settle")
    /\ \/ CompleteProbe(job[w].crate, w, job[w].status) /\ UNCHANGED faults
       \/ ~Holds(w, job[w].crate) /\ UNCHANGED <<queueVars, faults>>
       \/ /\ Fault("record")
          /\ CompleteProbe(job[w].crate, w, job[w].status) \/ UNCHANGED queueVars
    /\ UNCHANGED <<mainVars, turn, job, inflight, container, maint>>

\* Mutant: only a recorded probe leaves INFLIGHT (no finally).
Unregistered_IfRecorded(w) ==
    IF Holds(w, job[w].crate) THEN inflight ELSE [inflight EXCEPT ![w] = None]

\* The finally clause: the worker leaves INFLIGHT however the probe ended.
Unregistered(w) == [inflight EXCEPT ![w] = None]

Settle(w) ==
    /\ At(w, "settle")
    /\ inflight' = Unregistered(w)
    /\ job' = [job EXCEPT ![w] = NoJob]
    /\ turn' = [turn EXCEPT ![w] = (@ + 1) % Len(QueueCycle)]
    /\ Go(w, "upkeep")
    /\ UNCHANGED <<queueVars, mainVars, container, maint, faults>>

\* Every GC_EVERY probes a gc, every RECYCLE_EVERY a new container; neither is
\* inside the try, so an error ends the thread.
Upkeep(w) ==
    /\ At(w, "upkeep")
    /\ \/ Go(w, "loop") /\ UNCHANGED <<container, faults>>
       \/ Go(w, "loop") /\ Recycles(w, "small") /\ UNCHANGED faults
       \/ Fault("gc") /\ Go(w, "dead") /\ UNCHANGED container
       \/ Fault("recycle") /\ Go(w, "dead") /\ RecycleFails(w)
    /\ UNCHANGED <<queueVars, mainVars, turn, job, inflight, maint>>

Worker(w) ==
    \/ Boot(w) \/ Loop(w) \/ ClaimTurn(w) \/ ClaimOther(w) \/ WakeUp(w)
    \/ Register(w) \/ Run(w) \/ Grow(w) \/ Rerun(w) \/ Shrink(w) \/ Record(w)
    \/ Settle(w) \/ Upkeep(w)

-----------------------------------------------------------------------------
(***************************************************************************)
(* heartbeat_loop, sweep_loop and the passing of time.                     *)
(***************************************************************************)
threadVars == <<pc, turn, job, inflight, container>>

\* Both loops end when STOP is set, while workers still finish their probes.
Maintained == proc = "up" /\ ~stop

\* A beat copies INFLIGHT under its lock, and then renews from the copy.
Beat ==
    /\ Maintained /\ maint.due
    /\ maint' = [maint EXCEPT !.due = FALSE,
                    !.todo = {<<w, inflight[w]>> : w \in {v \in Workers : inflight[v] # None}}]
    /\ UNCHANGED <<queueVars, mainVars, threadVars, faults>>

\* An error is swallowed, and the connection is never opened again.
Renew(w, p) ==
    /\ <<w, p>> \in maint.todo
    /\ maint' = [maint EXCEPT !.todo = @ \ {<<w, p>>}]
    /\ IF maint.connected THEN TouchProbes(w, {p}) ELSE UNCHANGED queueVars
    /\ UNCHANGED <<mainVars, threadVars, faults>>

LoseHeartbeat ==
    /\ proc = "up" /\ maint.connected /\ Fault("heartbeat")
    /\ maint' = [maint EXCEPT !.connected = FALSE]
    /\ UNCHANGED <<queueVars, mainVars, threadVars>>

\* Mutant: no margin between the heartbeat's interval and the lease.
SweepAfter_NoMargin == 1

\* SWEEP_TIMEOUT.
SweepAfter == LeaseTimeout

\* sweep_loop.  It has one connection, swallows every error, and never connects
\* again: once the connection is lost, nothing is swept before the next start.
Sweep ==
    /\ Maintained /\ maint.sweeping
    /\ \E p \in Probes : Stale(p, SweepAfter)
    /\ SweepStale(SweepAfter, {p \in Probes : Stale(p, SweepAfter)})
    /\ UNCHANGED <<mainVars, threadVars, maint, faults>>

LoseSweeper ==
    /\ proc = "up" /\ maint.sweeping /\ Fault("sweep")
    /\ maint' = [maint EXCEPT !.sweeping = FALSE]
    /\ UNCHANGED <<queueVars, mainVars, threadVars>>

\* A tick of the lease clock is longer than HEARTBEAT_SEC: the heartbeat, while
\* it runs, beats between two ticks, and a worker that has claimed registers.
OrchTick ==
    /\ maint.todo = {} /\ (Maintained => ~maint.due)
    /\ \A w \in Workers : pc[w] # "claimed"
    /\ Tick
    /\ maint' = [maint EXCEPT !.due = Maintained]
    /\ UNCHANGED <<mainVars, threadVars, faults>>

-----------------------------------------------------------------------------
OrchNext ==
    \/ Start \/ Resume \/ SetStop \/ Finish \/ Kill
    \/ \E w \in Workers : Worker(w)
    \/ Beat
    \/ \E w \in Workers, p \in Probes : Renew(w, p)
    \/ LoseHeartbeat \/ LoseSweeper
    \/ Sweep
    \/ OrchTick

OrchSpec == OrchInit /\ [][OrchNext]_vars

\* Every call of a worker thread returns or raises (its phases have timeouts),
\* the maintenance threads run while they have a connection, time passes, and
\* the operator starts again a process that has ended.  No fairness is owed to
\* faults or to STOP, and nobody restarts a process that is up.
Fairness ==
    /\ \A w \in Workers : WF_vars(Worker(w))
    /\ WF_vars(Beat) /\ WF_vars(\E w \in Workers, p \in Probes : Renew(w, p))
    /\ WF_vars(Sweep) /\ WF_vars(OrchTick)
    /\ WF_vars(Start \/ Resume) /\ WF_vars(Finish)

FairOrchSpec == OrchSpec /\ Fairness

-----------------------------------------------------------------------------
OrchTypeOK ==
    /\ TypeOK
    /\ proc \in {"down", "up", "finished"} /\ stop \in BOOLEAN
    /\ tokens \in Nat \cup {None}
    /\ pc \in [Workers -> Places]
    /\ turn \in [Workers -> 0..(Len(QueueCycle) - 1)]
    /\ job \in [Workers -> [crate : Probes \cup {None}, attempt : Nat,
                            status : Statuses \cup {None}, in : {"none", "small", "big"}]]
    /\ inflight \in [Workers -> Probes \cup {None}]
    /\ container \in [Workers -> {"none", "small", "big"}]
    /\ maint \in [due : BOOLEAN, todo : SUBSET (Workers \X Probes), connected : BOOLEAN,
                 sweeping : BOOLEAN]
    /\ faults \in 0..MaxFaults /\ starts \in 0..MaxStarts

Probing == {"claimed", "run", "grow", "rerun", "shrink", "record"}

\* As long as the heartbeat's connection works, a live worker keeps its claim
\* until it reports: however long a probe and its retry take, and whatever the
\* sweeper does, no other worker is handed the same crate meanwhile.  It holds
\* also while the process shuts down, when nobody renews but nobody sweeps.
LiveClaimsKept ==
    maint.connected =>
        \A w \in Workers : pc[w] \in Probing => Holds(w, job[w].crate)

\* A result is recorded by the thread that ran this very attempt: a worker whose
\* claim was swept and handed out again reports nothing, also when the crate is
\* running once more.
OwnAttemptRecorded ==
    [][\A p \in Probes :
        results'[p] # results[p] =>
            \E w \in Workers :
                /\ pc[w] = "record" /\ job[w].crate = p
                /\ job[w].attempt = probe[p].attempts]_vars

ClaimsMade == MapThenSumSet(LAMBDA p : probe[p].attempts, Probes)

\* --limit N runs at most N probes per start, with any number of threads.
LimitKept == Limit # None => ClaimsMade <= Limit * starts

\* A process that ends by itself, by its limit or by SIGINT leaves no crate
\* running, if no call failed: what was in flight was finished.
CleanExit ==
    proc = "finished" /\ faults = 0 =>
        \A p \in Probes : probe[p].state # "running"

\* INFLIGHT lists what the workers work on and nothing else, so the heartbeat
\* never keeps alive a claim that its worker has abandoned.
InflightIsOwn ==
    \A w \in Workers : inflight[w] # None =>
        inflight[w] = job[w].crate /\ pc[w] \in {"run", "grow", "rerun", "shrink",
                                                 "record", "settle"}

\* A crate is running, and no thread works on it.
Abandoned(p) ==
    /\ probe[p].state = "running"
    /\ ~\E w \in Workers : pc[w] \in Probing /\ job[w].crate = p

\* Nobody will take an abandoned claim back: the process goes on, without a
\* sweeper.
Stranded(p) == Abandoned(p) /\ proc = "up" /\ ~maint.sweeping

\* Every crate is settled in the end, whatever call raises, a thread dies of, or
\* kills the process, as long as it is started again.  The one exception is a
\* worker that fails after its claim in a process whose sweeper has lost its
\* connection.
EventuallySettled ==
    \A p \in Probes : <>[](probe[p].state \in {"done", "exhausted"} \/ Stranded(p))

\* "excluded_resolve" and every other verdict is found in a container: a probe
\* that had none to run in ends in a harness error, which is retried.
VerdictFromContainer ==
    [][\A p \in Probes : results'[p] # results[p] =>
          \/ Latest(p)'.status = "harness_error"
          \/ \E w \in Workers : job[w].crate = p /\ job[w].in # "none"]_vars
=============================================================================
