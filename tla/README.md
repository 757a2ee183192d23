# rust-noasync-survey: formal models, model checking and proofs

The survey compiles every crate of crates.io with a Rust toolchain that refuses
async syntax, and publishes the share that survives. A PostgreSQL cluster holds
the work queue and the results, one orchestrator process runs worker threads
that drive containers, and a dashboard follows the results. This directory
models that machinery in TLA+, checks it with TLC and proves its safety with
TLAPS. Everything is written from the source; line numbers are in
`PROJECT.json` ("map").

## 1. Inventory

| Component (source) | State | Operations | Modules |
|---|---|---|---|
| Work queue and history (`sql/01_noasync_schema.sql`) | `probe` (state, claim, lease, attempts), `probe_result` (append-only, one current row per crate) | `claim_probe`, `touch_probes`, `complete_probe`, `sweep_stale` | `ProbeQueue`, `ProbeQueueTxn`, `ProbeQueueProofs`, `ProbeQueueTxnProofs` |
| Queue population (`sql/02_populate_probes.sql`) | `pop_rank`, `rand_key` | one INSERT | `QueueInit` |
| Database access (`db.py`) | a connection per thread | the calls above, `record_result`, toolchain ids | `ProbeQueue`, `Classify` |
| Orchestrator process (`orchestrator/orchestrator.py`) | `STOP`, `INFLIGHT`, `Limiter`, worker threads, heartbeat, sweeper | `worker_loop`, `heartbeat_loop`, `sweep_loop`, `main` | `Orchestrator`, `OrchestratorProofs` |
| Probe pipeline (`run_probe`) | `FETCH_SEM`, the spool, the outcome | fetch, check, control, the retry on a big container | `RunProbe`, `RunProbeProofs` |
| Classification (`orchestrator/classify.py`) | none | `scan_first_error`, `classify_fork`, `classify_control` | `Classify`, `RunProbeProofs` |
| Exec wrapper (`orchestrator/runner.py`) | a client process, two drain threads, the spool file | `exec_phase`, `exec_simple` | `ExecPhase`, `ExecPhaseProofs` |
| In-container driver (`probe/probe.sh`) | the shared crate cache, `/work/src`, target directories | fetch, check, control, gc | `ExecPhase`, `RunProbe` |
| Container lifecycle (`orchestrator/lifecycle.py`) | one container and volume per worker | create, recycle, destroy | part of `Orchestrator`, `RunProbe`, `ExecPhase` |
| Resume script (`resume.sh`) | none | reclaiming sweep, then start | `Orchestrator` |
| Dashboard server (`dashboard.py`) | hub of client queues, LISTEN connection | listener loop, broadcast, event stream, `fetch_stats`, `browse_crates` | `Dashboard`, `DashboardProofs`, `Browse`, `BrowseProofs` |
| Dashboard page (`dashboard.py`, JavaScript) | the payload shown; the selection, search box, timer, pager | `onmessage`, `loadBrowse`, `renderBrowse`, `browseBy` | `Dashboard`, `Browse`, `BrowseProofs` |
| Estimator queries (`dashboard.py`) | none | counts, buckets, watermark and sample | `Stats`, `StatsProofs` |
| Image build, fixtures, smoke seed, claim test, screenshots | none | run by hand | not modelled |

Interactions. Worker threads, the heartbeat, the sweeper and psql share nothing
in the database but the two tables, and call the four functions on connections
of their own. Inside the process they share `STOP`, `INFLIGHT`, the limiter and
the fetch semaphore. A worker drives one container through `container exec`;
the containers share a directory of downloaded crates, and a container keeps
its sources and its spool from one probe to the next. Every commit of
`complete_probe` and every sweep that found something sends a NOTIFY, on which
the dashboard rereads everything and broadcasts it; each broadcast makes a page
ask for the head of its drill-down again.

What is hard:

- *Concurrency.* Claims race for the head of two queues over the same rows
  (`FOR UPDATE SKIP LOCKED`); a sweep, a heartbeat and a completion race for
  one row; a heartbeat renews from a snapshot of `INFLIGHT`; two drains append
  to one list; containers download the same crate; cargo reports errors in any
  order; the listener's drain races with the next NOTIFY; answers overtake each
  other on the way to the page.
- *Failure.* Any call of a worker may raise, with or without a handler around
  it; the process may be killed; the server may crash; the heartbeat and
  the sweeper never reconnect; a recycle may leave no container; a kill may
  miss the script it is meant for, or time out itself; an exec client may end
  before its script; the VM or a compiler may die in the middle of a build;
  notifications are lost with the connection.
- *Time.* Leases against heartbeats and sweeps, nested timeouts around a check,
  probes that take up to half an hour while the process shuts down, a debounce
  timer that fires after the selection has changed, eight queries of one
  payload that see eight states.

What makes each part correct, in a sentence each:

- *Queue*: a crate is handed out at most `max_attempts` times and given up only
  then; exactly its newest result is current; it is done exactly when that
  result is a verdict; each queue claims a prefix of its order.
- *Transactions*: four interleaved functions are as good as four atomic ones,
  and a crash of the server costs no more than the order of the claims.
- *Estimator*: the sample has no holes and never forgets a crate, and the
  counts of one payload add up.
- *Orchestrator*: no live worker loses its claim; only the thread that ran an
  attempt reports it; the limit is kept; every crate is settled in the end as
  long as the sweeper has its connection.
- *Probe*: no crate counts for or against the fork except for what the fork
  does with its code; no fetch slot is lost.
- *Exec*: a crate is judged by its own sources and its own messages, and
  `exec_phase` always ends.
- *Dashboard*: no notified commit is missed, a slow page loses old payloads and
  the newest only in one race, and open pages end up current, the
  statistics and the drill-down alike.

## 2. Modules

`ProbeQueue` is the specification of what the database promises. Its state is
`probe[p]` (the queue columns of a row) and `results[p]` (the crate's results,
oldest first); each SQL function is one action. It is *open*: any client may
call any function at any time, so what holds here holds for lost, late,
duplicated and concurrent callers, and for two orchestrators that overlap.
`claimed_at` is kept as an age in ticks.

`ProbeQueueTxn` runs the same functions as PostgreSQL does: snapshot, row locks
one by one, recheck of the latest row version, writes at the commit. `txn[s]`
is what each connection's transaction is doing. It *refines* `ProbeQueue`
(`IsAtomic`): a claim takes effect when it locks its row, everything else at
its commit; a locked pending row is shown to the abstract queue as claimed.
`ServerCrash` loses every open transaction. A lost claim may have been skipped
past by another, so the refinement is stated up to the first crash, and what is
left after it is `CommittedCalls`: the queue without its claim order.

`Stats` is `ProbeQueue` with what the dashboard's queries select from it: the
rows behind each count, the watermark, the sample of the estimate.

`Orchestrator` is the process over `ProbeQueue`: `pc[w]` names the call each
worker thread is about to make, `job`, `inflight`, `container`, `maint` (what the
heartbeat and the sweeper have), `tokens` and `stop` are its data; every database
call is the action of `ProbeQueue`. The two maintenance threads may each lose
their one connection. A claim may commit and lose its reply, and may find a
pending row locked by a late report. Start, `resume.sh`, signals and `kill -9` are
actions. A probe is one step that yields any status of `Reported`.

`Classify` holds the pure part of a probe's outcome: the scan of the message
stream as a fold, the verdicts, the recorded columns. `RunProbe` opens the probe
that `Orchestrator` takes as one step. Here a crate is a record of ground truth,
what compiling each of its packages does on the fork and on stock Rust, and cargo,
the network and the VM are an external part that may answer in every way that
truth allows: any order of errors, a build cut short in either container, a build
script whose compiler is killed, a VM that dies with the spool half written. The
properties compare the recorded row with the truth. `cut` and `starved` are
history variables: whether a check ran out of time or memory, and whether it took
a build script with it.

`ExecPhase` opens the execs that `RunProbe` takes as one step: `host[w]` is the
worker's call, `vm[w]` the scripts that run in its container, wanted or not,
`src[w]` and `spool[w]` what they leave behind, `cache` the shared downloads.
Its timeouts may fire at any moment. A script is left behind when a kill fails
or when the client ends by itself (`ClientLost`), which looks like an exit;
`tainted` and `failures` are history variables that remember it.

`Dashboard` is the listener thread, the hub's queues of two payloads, and for
each page a handler thread and what the page shows. The database is a version
number; a payload is the version that was current when its first query ran.
The history variable `dropped` names the pages whose last payload was lost
between `queue.Full` and `get_nowait` (`Evict` of a queue that is empty by then).

`Browse` is the drill-down: the selection `B`, the box and its timer, requests
in flight with the stage each has reached, and the answer rendered last. What
the crates are is left out; `Size` says how many there are in each version,
and `Shrinking` which lists may lose some: that of the harness errors, from
which a retry takes the crates it judges.

`MC*` modules only give the constants their values.

```
ProbeQueue <- ProbeQueueTxn (implements it)        Classify <- RunProbe <- RunProbeProofs
   ^--- ProbeQueueProofs                           ExecPhase <- ExecPhaseProofs
   |       ^--- ProbeQueueTxnProofs                Dashboard <- DashboardProofs
   |       ^--- StatsProofs                        Browse <- BrowseProofs
   |       ^--- OrchestratorProofs
   ^--- Stats, Orchestrator
```

A module of proofs extends the module it is about, and those of the queue's
clients extend `ProbeQueueProofs` as well.

## 3. Runs

| Run | Instance | What it shows |
|---|---|---|
| `queue` | 3 crates whose two orders disagree, 2 workers, 2 attempts, lease 2 ticks | types, `CurrentIsLatest`, `AttemptsAccounted`, `DoneIffJudged`, `RetryBudget`, `FinishedRows`, `ClaimOrder`, `HistoryOnlyGrows`; `SampleHasNoHoles`, `SampleOnlyGrows`, `LaterQueriesCatchUp` of `Stats` |
| `queue_txn` | 2 connections, 2 workers, 2 crates, 2 attempts, lease 1 tick, 1 crash of the server | `IsAtomic`, a refinement, and `CommittedCalls` |
| `orch` | 2 worker threads, 2 crates, limit of 2 per start, 2 starts, STOP, one fault of claim, run, record, heartbeat, kill | types, `LiveClaimsKept`, `OwnAttemptRecorded`, `LimitKept`, `CleanExit`, `InflightIsOwn` |
| `orch_live` | 1 crate, 2 workers, `--queue popular`, any two faults of nine kinds, 3 starts | `EventuallySettled`, under fairness |
| `probe` | 9 kinds of crates with 2 dependencies, 2 workers, 1 fetch slot, any two faults of nine kinds | `CountedAsFork`, `ControlRecorded`, `SlotsConserved`; a deadlock would be a lost slot |
| `exec` | 1 worker, 2 crates, 2 lines of output, 1 script left behind, downloads by other containers | `OwnSource`, `OwnSpool`, `CacheTrusted`, and `ExecEnds` under fairness |
| `dashboard` | 1 page, 3 commits, 2 faults | `FreshWhenIdle`, `MissedOnlyInRace`, and `EventuallyFresh` under fairness |
| `browse` | 2 lists (one is `harness_error`), 2 texts, 2 orders, pages of 2 rows, 3 or 4 crates, 2 requests in flight, 3 user actions, 1 commit, 1 failed request | `RangeCovered`, `SearchFollowsBox`, and `HeadLive` under fairness |
| `orch_verdict`, `exec_answer`, `probe_stock`, `probe_timeout` | small | each violates one statement of the documentation, see section 6 |

Why the bounds are enough. *Queue*: an order violation needs a claimed row, a
passed-over row and a third that was retried; two attempts give a first, a last
and a retry; statuses matter only as survived, failed or harness error.
*Transactions*: every conflict of the four functions is between two transactions
over one row, and `SKIP LOCKED` needs a second row to skip to; one crash is enough
to lose a claim that another has passed. *Orchestrator*: a lost claim needs the
worker that lost it, another that takes it, the sweeper and a late heartbeat; one
limit of two is contended by two threads; two starts give one restart with old
claims under the same names. The safety run reports an exclusion, a resource
failure and a harness error: to the process a verdict is a verdict, and these are
all it tells apart. The liveness run has one crate, since a crate's fate depends
on others only by using up workers, and one start more than there are faults that
end the process. *Probe*: two dependencies are needed for a chain (an error is
hidden behind another) and for a pair (errors race); workers interact only through
the semaphore, so one slot and two workers show it; the second fault strikes the
retry that the first one caused; a heavy or long crate may also do all that its
light one does, so that nine kinds cover the light canary, the light async crate
and the plain sync one. *Exec*: containers share nothing but the cache, whose
other users are `others`, so one worker is enough; evidence gets mixed up between
two crates; two lines tell a hole from a leftover; one script left behind may
linger in every later phase. *Dashboard*: pages interact only through the order of
the broadcast, so one page is enough; the queue holds two payloads, so three
commits and the greeting overflow it; two faults give a lost connection and a
failed query together. *Browse*: two requests can overtake each other; four rows
in pages of two make a full second page, and three a short one; the list of the
harness errors falls from three rows to two; three actions give a keystroke, a
click before its timer and a page turn.

What the models assume, beyond the abstractions each module's header names:

- A tick is longer than `HEARTBEAT_SEC` (60 s): the heartbeat comes round
  between two ticks unless its connection is gone, and a worker registers what
  it claimed within a tick. The lease of 15 minutes is then more than one tick
  (`LeaseTimeout > 1`; the run takes 2), which is all that `LiveClaimsKept` needs.
- A transaction ends within a tick. Committed data survive a crash.
- One orchestrator process runs at a time in `Orchestrator`. Two that overlap
  are covered as far as the tables go, by the openness of `ProbeQueue`.
- No two rows share a `rand_key` (`RandKeysDiffer`): the keys are doubles drawn
  by `random()`.
- The crates of a survey, the worker threads of a process and the packages of a
  build are finitely many; a database session or a page is not the value `None`.
- A `curl` or `tar` that outlives its script has no further effect: its file is
  its own, and the next fetch removes the directory it works in.
- The fork and stock Rust are deterministic, and stock never refuses async.

Fairness. `FairOrchSpec`: worker threads take steps because each of their calls
returns or raises (phases have timeouts, `STOP.wait(15)` ends); the heartbeat
and time go on; the operator starts a process that is down, and nobody restarts
one that is up. The sweeper sweeps while it has its connection. Once it has lost
that (`LoseSweeper`), the code promises nothing for a crate whose worker fails
after its claim: the row stays running as long as the process lives.
`EventuallySettled` excuses just these crates (`Stranded`), and no longer once
the process has ended. That calls end is itself checked, one level down:
`ExecEnds` of `ExecPhase` needs weak fairness of nothing but the worker thread's
own steps and timeouts, whatever scripts, clients, pipes and kills do.
`Dashboard`: both kinds of threads run, notifications arrive, EventSource
connects again. `Browse`: requests are served, payloads keep coming (the
listener broadcasts one every `HEARTBEAT`), and the timer fires; the last two
are strongly fair because the model's bound on requests in flight, which a
browser does not have, may hold them up in between. All other fairness is weak,
and none is assumed of faults, STOP, users or the survey. Deadlock is checked in
every run: none of the programs stops but by a step of its own, and the idle and
tick steps stay possible.

## 4. Proofs

Eight modules hold proofs, and between them every safety property and action
property that a passing run checks is a theorem: it holds for all values of the
constants that satisfy the named assumption. `PROJECT.json` lists the theorems.
Every inductive invariant was itself model-checked on the run's instance first.

**`ProbeQueueProofs`** (`QueueAssumption`: any crates, workers, ranks, lease,
attempts): `QueueSpec` implies the type invariant, the six invariants and the
action property `HistoryOnlyGrows`.

- *Reduction to rows.* `RowSteps`: whatever the step, each row either ages, is
  claimed, is completed or is reclaimed (`TablesStep`). The one-row invariants
  are then proved by these four cases, not by five actions times all rows, and
  hold whichever pending row a claim takes. Only `ClaimOrder` needs
  `HeadsClaimed`: a claim takes the head of its queue.
- *The inductive invariant* `IInv` is the six invariants of a row (`RowsInv`)
  and `ClaimOrder`. They are not inductive one by one: `RetryBudget` needs
  `AttemptsAccounted` (an attempt number never exceeds the maximum, so "not
  below" is "equal"); `DoneIffJudged` needs the type to know that a recorded
  status is the newest; `ClaimOrder` needs `AttemptsAccounted`, since a row that
  a queue claimed has an attempt and is no longer fresh, and the head of the
  queue comes before every fresh row that is left.
- *Data lemmas*: `ReportAppends` and `RetireKeeps` say what recording a result
  does to the sequence of results, with no induction: retiring is pointwise.

**`ProbeQueueTxnProofs`** (also `SessionsAssumption`): the interleaved
transactions refine the atomic queue.

- `AtomicCorrect`: `TxnSpec` implies `IsAtomic`, under the mapping that shows a
  row locked by a claim as claimed. `SessionAtomic` takes the session's steps
  one by one: a claim that locks its row is the abstract claim, its commit a
  stutter; any other transaction stutters until it commits.
- `CommittedCorrect`: `TxnSpec` implies `CommittedCalls`, crashes included. From
  it follow `CommittedRowsCorrect` and `CommittedHistoryCorrect`: the invariants
  of the rows hold of the committed tables under every interleaving and
  through every crash, because `RowsInv` asks of a step no more than `TablesStep`.
- *The inductive invariant* `TxnInv` is the argument of two-phase locking. A
  lock is held by exactly the transaction whose record says so (`LocksHeld`), and
  nobody else writes a locked row, so what the holder found under the lock is
  still true when it commits (`RowsReady`: a claim's row is pending, a touched
  row still its worker's, a swept one still stale). The head of the queue needs
  `FreshSeen`: until a crash, a crate never claimed is in the snapshot of every
  claim in progress, hence a claim that skips locked rows skips no such crate.

**`StatsProofs`** (also `RandKeysDiffer`): the three properties of `Stats`,
from `IInv`. A `done` row never changes, so the watermark never falls and what
counts goes on counting; whatever lies below the watermark comes before a row
the random queue handed out, hence by `ClaimOrder` is not fresh, hence was
claimed. Distinct keys are needed where two rows could tie with the watermark.

**`OrchestratorProofs`** (`OrchestratorAssumption`: finitely many crates and
workers, any limits, queue cycle, starts and faults): `OrchTypeOK`,
`LiveClaimsKept`, `InflightIsOwn`, `CleanExit`, `OwnAttemptRecorded` and
`LimitKept`, and `ClientCorrect`: `OrchSpec` implies `QueueSpec`, so all that is
proved of the queue holds of the composed system.

- *Reduction to effects.* `WorkerEffects`: each of the thirteen actions of a
  worker, fault or not, is one of seven things as far as the worker's place, job,
  registration and the rows are concerned. `ClaimRows`, `CompleteRows`,
  `TouchRows`, `SweepRows` and `TickRows` say the same of the queue's actions.
- *The inductive invariant* `OInv`. `InflightExact` turns `InflightIsOwn` into
  an equation, so that a beat's snapshot is known to hold every registered
  claim. `LeaseOK` says why no live claim is swept: until STOP its age is 0, or
  it is 1 and a renewal is due or in the snapshot that is left to do. A tick
  needs an empty snapshot and no beat due, so it finds age 0 only; a sweep
  needs an age of `LeaseTimeout`, which is more than 1. `JobOK` gives
  `OwnAttemptRecorded`: as long as a row is running in a worker's name, it is
  on the attempt that worker claimed, because nobody else claims in that name
  (`NoNewClaim`). `RunningOwned` gives `CleanExit`: until something fails, a
  running row has a live thread.
- *The limiter.* `LimitKept` counts the claims in the database, but a claim is
  made later than its token is taken and a token may be lost with its process.
  `LimitInv` adds up, while the process is up, the claims made, the tokens left
  and the threads between token and claim; a kill drops the last two. The claims
  are a fold over the rows (`ClaimsMade`), so `SumExists` and `SumSteps` say that
  it is defined and rises by one with one row, by induction on the number of
  rows (`NatSetInduction`).

**`RunProbeProofs`** (`RunProbeAssumption`, finitely many workers and packages):

- `SlotsCorrect`: the invariant counts the workers that fetch; every step that
  touches a slot moves one worker into or out of that set (`SlotsStep`), and
  all others leave both alone (`SlotsElsewhere`).
- `ControlCorrect`: `ControlRecorded` alone is not inductive. `ControlInv` adds
  that no control has run before the control step, that an outcome in hand has a
  control's status exactly when one ran, and that nothing is recorded before
  the report. It rests on what the verdicts can be (`ForkStatus`,
  `ControlStatus`) and never looks into what cargo answers.
- `ScanCorrect`: for every stream of messages, `scan_first_error` returns the
  first compiler error (or none, if there is none) and the success of the last
  build-finished message: by induction on the stream, through the fold.
- `CountedCorrect` and `ProbeTypeCorrect`: `ProbeInv` says of each worker
  what its verdict may rest on. An answer to the check is one that the crate's
  truth on the fork allows (`Answers`); a crate gets to the control only if the
  fork's answer left it in doubt (`Doubtful`); and what is to be recorded is
  justified before it is. `AnswerKinds` sorts the answers (killed, timed out,
  signature in stderr, finished, broken off), `ForkJudged` and `ControlJudged`
  take each kind through `classify_fork` and `classify_control`.

**`ExecPhaseProofs`** (`ExecAssumption`: any workers, crates, lines and scripts
left behind): `CacheTrusted`, `OwnSource`, `OwnSpool` and `ExecTypeOK`. All but
the cache is one worker's own, so the invariant is one formula over a worker's
variables (`WorkerOK`), and a step of another worker leaves it. `OwnSource` and
`OwnSpool` alone do not say where sources and lines come from. `Clean` does: in a
container where no script was left behind, the only script is the one the call
waits for, its crate's directory is whole once it is past the extraction, and it
writes at the end of the spool. `Placed` ties what a call does to where it is, so
that a check follows a fetch that said ok. `CacheInv` adds that no file of the
cache is ever torn and that scripts past the download find theirs. Where one was
left behind scripts pile up, yet (`OneClient`) at most one of them has the present
call's client, and only while the call waits for it.

**`DashboardProofs`** (the assumption of `Dashboard`: any pages, versions and
faults): the type invariant, `FreshWhenIdle` and `MissedOnlyInRace`. Both speak
of a listener at rest, and say nothing while it works; the invariants `Fresh`
and `Newest` carry them through the round: from the queries on, a newer version is
announced by a notification that has not been drained, and from the broadcast
on, each queue that got the payload holds it last or has been emptied by its
page, unless the payload was dropped.

**`BrowseProofs`** (`BrowseAssumption`: any lists, texts, page size and slots, and
any sizes that never fall in a list outside `Shrinking`): `BrowseTypeOK`,
`RangeCovered` and `SearchFollowsBox`. `RangeCovered` speaks of the answer on the
page; `Covered` carries it there: a total that was counted is covered by the table
as it is now, if its list only grows, and once the rows are selected, by the table
they were selected from. A list that may shrink is covered as long as no commit
lies between the two. That the offset stays a multiple of the page takes a little
arithmetic (`OnePageApart`).

How induction over data was done: the library's induction theorems take an
operator as a parameter, which no installed prover instantiates, so
`NatSetInduction` states induction for sets of numbers, from the well-foundedness
of `<`, and a fold is unfolded through the recursive function it is chosen to be.

Only model-checked: all liveness (`EventuallySettled`, `ExecEnds`,
`EventuallyFresh`, `HeadLive`), since the prover handles neither fairness nor
ENABLED, and the statements of section 6, which are violated.

## 5. Not modelled

- Layout and texts of the page, and the paths of `do_GET` that keep no state;
  `top_blamed`, `recent` and `workers`, which are displayed and related to
  nothing.
- The interval of the estimate: real arithmetic. What the formula is fed, the
  sample, is in `Stats`.
- `toolchain` and `import_meta` rows (written once per start),
  `probe_diagnostics` and the other texts (data).
- `gc` and `clean` of `probe.sh` remove target directories, which cargo fills
  again; `netoff-verify` is run by hand.
- `verify_claims.py` drives `claim_probe` with one fixed set of clients and
  asserts disjointness and prefixes; `IsAtomic`, `AttemptsAccounted` and
  `ClaimOrder` state that for any clients. `smoke_seed.py` and the image build
  are scripts run by hand without concurrency.
- `fixtures_run.py` is a test driver over `run_probe`, one crate after another,
  without the queue. (`orchestrator.py:269` calls `fixtures_run.run`, but the file defines
  `main` only: `--fixtures` ends in an AttributeError.)
- Two orchestrator processes at once: the tables are covered (section 3), the
  containers that both would create under the same names are not.

## 6. Disagreements between code and documentation

Each of these is a run whose property TLC finds violated:

1. `orch_verdict`: a worker whose recycle failed goes on without a container,
   and its crates become `excluded_resolve`, a verdict.
2. `exec_answer`: the two drains of a fetch append to one list; if the JSON
   answer arrives between a block of stderr and the rest of its line,
   `_last_json` misses it, and a crate that was fetched becomes
   `excluded_resolve`.
3. `probe_stock`: "survival among crates that actually build on today's stable Rust"
   (README.md:30). An async failure needs no control, so a crate with a dependency
   that stock Rust rejects is counted if its async error is printed first. This is the
   shortest counterexample; without that crate TLC finds others. A control that runs
   out of memory excludes a crate that stock builds. "oom" anywhere in stderr is an
   out-of-memory, so a crate is excluded for depending on one named like bloom. And
   with the fault `deps`, one failed download of a dependency excludes its crate as
   one that "won't even resolve".
4. `probe_timeout`: the inner timeout of `probe.sh` always comes first, so a slow
   check is a harness error and never reaches "one retry on a big container".

Two more are named in properties that hold, as what they except. `sweep_loop` never
reconnects: once its connection is lost, "reclaims a dead worker's probes after 15
min" (README.md:174) is not kept (`EventuallySettled`). And a build script whose
compiler is killed for want of memory looks like a broken one: if the control gets
through, the crate is a `fail_other`, although the fork compiles it
(`CountedAsFork`).

Plain readings of the code, which need no run: "run until both queues drain"
(orchestrator.py:8, resume.sh:5), but idle workers poll for ever; "process 5000
more probes then stop" (resume.sh:7), but a round that finds no row uses up a
token; "past its lease" (resume.sh:25), but `sweep_stale('0 seconds')` takes
back every running row.

What holds nevertheless is `CountedAsFork`: what is counted is true of the fork,
with the one exception just named. The rest of the above loses crates from the
sample, or, in the first case of 3, counts a crate that should have been excluded.

## 7. Plan

Done: the queue, its transactions and the estimator over it; the orchestrator;
the probe with its classification and its execs; the dashboard and its
drill-down; proofs of every safety property of these.
Left, in this order:

1. The lines between the levels as theorems: a probe of `RunProbe` reports what
   `Orchestrator` assumes of one, and `exec_phase` of `ExecPhase` answers what
   `RunProbe` assumes of it where no script was left behind.
2. The leads-to steps inside the liveness properties that are plain safety (a
   variant that falls with every step of `exec_phase`).
3. `CargoBuild`: a parallel build of a dependency graph, refining the answers
   (`Builds`) that `RunProbe` assumes of cargo.
4. Two overlapping orchestrator processes over the same container names.
