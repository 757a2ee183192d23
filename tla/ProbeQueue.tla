------------------------------ MODULE ProbeQueue ------------------------------
(***************************************************************************)
(* The work queue and the result history kept in PostgreSQL: the tables    *)
(* noasync.probe and noasync.probe_result and the four functions through   *)
(* which the workers, the heartbeat and the sweeper use them.  Each        *)
(* function call is one transaction, hence one action; ProbeQueueTxn opens *)
(* the transactions and shows that this is what they amount to.            *)
(*                                                                         *)
(* The specification is open: any client may call any function at any      *)
(* time, also a worker that lost its claim or died.  What is proved here   *)
(* holds whatever the orchestrator does.                                   *)
(*                                                                         *)
(* Abstractions.  claimed_at is kept as the lease's age, in ticks and      *)
(* capped at LeaseTimeout, above which ages are not told apart.  Of a      *)
(* result only its status and its is_current flag are kept.  A call that   *)
(* raises changes no row, so it is no step of this module; the NOTIFY that *)
(* follows a commit is the dashboard's input.                              *)
(***************************************************************************)
EXTENDS Naturals, Sequences

CONSTANTS
    Probes,        \* rows of noasync.probe, one per crate
    Workers,       \* worker names, the values of claimed_by
    None,          \* SQL NULL, for claimed_by and claimed_via
    MaxAttempts,   \* max_attempts (3 in the schema)
    LeaseTimeout,  \* sweep_stale's timeout, in ticks
    PopRank,       \* pop_rank of each probe, 1 = most downloaded
    RandKey,       \* rand_key of each probe
    Reported       \* the statuses the callers report

Queues   == {"popular", "random"}
States   == {"pending", "running", "done", "exhausted"}
Statuses == {"pass", "pass_trivial", "fail_async_direct", "fail_async_dep",
             "fail_other", "excluded_broken", "excluded_resolve",
             "excluded_resource", "harness_error"}

ASSUME QueueAssumption ==
    /\ None \notin Workers /\ None \notin Queues
    /\ MaxAttempts \in Nat \ {0}
    /\ LeaseTimeout \in Nat \ {0}
    /\ PopRank \in [Probes -> Nat]
    /\ RandKey \in [Probes -> Nat]
    /\ Reported \subseteq Statuses

VARIABLES
    probe,     \* noasync.probe: the queue columns of each row
    results    \* noasync.probe_result: the rows of each probe, oldest first

queueVars == <<probe, results>>

ProbeRow  == [state : States, via : Queues \cup {None}, by : Workers \cup {None},
              age : 0..LeaseTimeout, attempts : Nat, finished : BOOLEAN]
ResultRow == [status : Statuses, current : BOOLEAN]

NewRow == [state |-> "pending", via |-> None, by |-> None, age |-> 0,
           attempts |-> 0, finished |-> FALSE]

QueueInit ==
    /\ probe = [p \in Probes |-> NewRow]
    /\ results = [p \in Probes |-> <<>>]

-----------------------------------------------------------------------------
(***************************************************************************)
(* claim_probe.                                                            *)
(***************************************************************************)

\* The order in which a queue hands out its rows.
Key(q, p) == IF q = "popular" THEN PopRank[p] ELSE RandKey[p]

Pending(p) == probe[p].state = "pending"

\* A pending row that no transaction ever claimed.  Nothing but a claim locks
\* it, and it is in every snapshot, so a claim never passes it over.
Fresh(p) == Pending(p) /\ probe[p].attempts = 0

\* Mutant: both queues ordered by pop_rank.
IsHead_ByRankOnly(q, p) ==
    /\ Pending(p)
    /\ \A r \in Probes : Fresh(r) => PopRank[p] <= PopRank[r]

\* ORDER BY ... LIMIT 1 FOR UPDATE SKIP LOCKED: the head of the queue, among
\* the rows this transaction sees and finds unlocked.  It may miss a row that
\* went back to pending after its snapshot, or that a late complete_probe
\* holds locked; all of those have been claimed before.
IsHead(q, p) ==
    /\ Pending(p)
    /\ \A r \in Probes : Fresh(r) => Key(q, p) <= Key(q, r)

\* Mutant: a claim that does not count as an attempt.
Claimed_Uncounted(row, w, q) ==
    [row EXCEPT !.state = "running", !.via = q, !.by = w, !.age = 0]

Claimed(row, w, q) ==
    [row EXCEPT !.state = "running", !.via = q, !.by = w, !.age = 0,
                !.attempts = @ + 1]

ClaimProbe(w, q, p) ==
    /\ IsHead(q, p)
    /\ probe' = [probe EXCEPT ![p] = Claimed(@, w, q)]
    /\ UNCHANGED results

-----------------------------------------------------------------------------
(***************************************************************************)
(* touch_probes, complete_probe, sweep_stale.                              *)
(***************************************************************************)

\* Mutant: any running row passes, whoever claimed it.
Holds_AnyWorker(w, p) == probe[p].state = "running"

\* The claim a caller must hold: the row is running in its name.
Holds(w, p) == probe[p].state = "running" /\ probe[p].by = w

TouchProbes(w, ids) ==
    /\ probe' = [p \in Probes |->
                    IF p \in ids /\ Holds(w, p) THEN [probe[p] EXCEPT !.age = 0]
                                                ELSE probe[p]]
    /\ UNCHANGED results

\* Mutant: out of attempts, a harness error settles the row as done.
StateAfter_NeverGivesUp(status, attempts) ==
    IF status = "harness_error" /\ attempts < MaxAttempts THEN "pending" ELSE "done"

\* Where a result sends the row: only a harness error is retried.
StateAfter(status, attempts) ==
    CASE status = "harness_error" /\ attempts < MaxAttempts -> "pending"
      [] status = "harness_error" /\ attempts >= MaxAttempts -> "exhausted"
      [] OTHER -> "done"

\* Mutant: the claim stays on the row.
Released_KeepsClaim(row, st) == [row EXCEPT !.state = st]

Released(row, st) == [row EXCEPT !.state = st, !.by = None, !.age = 0]

\* Mutant: the earlier results stay current.
Retire_Forgotten(rows) == rows

\* UPDATE probe_result SET is_current = false.
Retire(rows) == [i \in 1..Len(rows) |-> [rows[i] EXCEPT !.current = FALSE]]

\* The history with a new current result, INSERTed after the others retire.
Recorded(rows, status) ==
    Append(Retire(rows), [status |-> status, current |-> TRUE])

\* Mutant: finished_at is stamped by every result.
FinishedAs_Always(st) == TRUE

\* Whether the new state stamps finished_at; any other clears it.
FinishedAs(st) == st \in {"done", "exhausted"}

CompleteProbe(p, w, status) ==
    LET st == StateAfter(status, probe[p].attempts)
    IN  /\ Holds(w, p)
        /\ results' = [results EXCEPT ![p] = Recorded(@, status)]
        /\ probe' = [probe EXCEPT
              ![p] = [Released(@, st) EXCEPT !.finished = FinishedAs(st)]]

\* Mutant: staleness without the test on the state; a NULL claimed_at is age 0.
Stale_AnyState(p, timeout) == probe[p].age >= timeout

Stale(p, timeout) == probe[p].state = "running" /\ probe[p].age >= timeout

\* Mutant: the bound is off by one.
StateReclaimed_OffByOne(attempts) ==
    IF attempts > MaxAttempts THEN "exhausted" ELSE "pending"

\* Out of attempts, a reclaimed row is exhausted: finished_at stays NULL.
StateReclaimed(attempts) ==
    IF attempts >= MaxAttempts THEN "exhausted" ELSE "pending"

\* FOR UPDATE SKIP LOCKED: the stale rows another transaction holds locked
\* stay out of the swept set.
SweepStale(timeout, swept) ==
    /\ \A p \in swept : Stale(p, timeout)
    /\ probe' = [p \in Probes |->
                    IF p \in swept
                    THEN Released(probe[p], StateReclaimed(probe[p].attempts))
                    ELSE probe[p]]
    /\ UNCHANGED results

\* Time passes: every lease grows older.
Older(row) ==
    IF row.state = "running" /\ row.age < LeaseTimeout
    THEN [row EXCEPT !.age = @ + 1] ELSE row

Tick ==
    /\ probe' = [p \in Probes |-> Older(probe[p])]
    /\ UNCHANGED results

-----------------------------------------------------------------------------
\* sweep_stale is called with SWEEP_TIMEOUT, and with '0 seconds' by resume.sh.
QueueNext ==
    \/ \E w \in Workers, q \in Queues, p \in Probes : ClaimProbe(w, q, p)
    \/ \E w \in Workers, ids \in SUBSET Probes : TouchProbes(w, ids)
    \/ \E w \in Workers, p \in Probes, s \in Reported : CompleteProbe(p, w, s)
    \/ \E t \in {0, LeaseTimeout}, swept \in SUBSET Probes : SweepStale(t, swept)
    \/ Tick

QueueSpec == QueueInit /\ [][QueueNext]_queueVars

-----------------------------------------------------------------------------
\* The type invariant: every row satisfies the CHECKs of its table.
TypeOK ==
    /\ probe \in [Probes -> ProbeRow]
    /\ results \in [Probes -> Seq(ResultRow)]
    /\ \A p \in Probes : (probe[p].state = "running") <=> (probe[p].by # None)

Latest(p) == results[p][Len(results[p])]

Judged(p) == results[p] # <<>> /\ Latest(p).status # "harness_error"

\* At most one result of a crate is current, and it is the newest one: what
\* current_results joins is the last word on every crate, through retries,
\* sweeps and late workers.  The partial unique index only says "at most one".
CurrentIsLatest ==
    \A p \in Probes : \A i \in DOMAIN results[p] :
        results[p][i].current <=> i = Len(results[p])

\* Every result was paid for by a claim of its own, a claim yields one result at
\* most, and no crate is claimed more than max_attempts times.
AttemptsAccounted ==
    \A p \in Probes :
        /\ Len(results[p]) + (IF probe[p].state = "running" THEN 1 ELSE 0)
              <= probe[p].attempts
        /\ probe[p].attempts <= MaxAttempts

\* done means judged, and judged means done: the newest result is a verdict on
\* the crate exactly when the queue will never hand the crate out again.  A
\* sweep or a second worker cannot reopen a judged crate, and a crate whose
\* last word is a harness error is never counted as done.
DoneIffJudged ==
    \A p \in Probes : (probe[p].state = "done") <=> Judged(p)

\* A crate waits for a claim only while it has attempts left, and is given up
\* only when it has none: no crate is handed out once too often, none is given
\* up early, whether its attempts ended in harness errors or in sweeps.
RetryBudget ==
    \A p \in Probes :
        /\ probe[p].state = "pending" => probe[p].attempts < MaxAttempts
        /\ probe[p].state = "exhausted" => probe[p].attempts = MaxAttempts

\* finished_at is set exactly on the rows whose last attempt reported: it is set
\* on every done row, and an exhausted row without it was given up by the
\* sweeper.  It never survives a retry, so the throughput never counts a row
\* that is back in the queue.
FinishedRows ==
    \A p \in Probes :
        /\ probe[p].state = "done" => probe[p].finished
        /\ probe[p].finished =>
              /\ probe[p].state \in {"done", "exhausted"}
              /\ Len(results[p]) > 0

\* The rows a queue has claimed come before every row never claimed, in that
\* queue's order, whatever the other queue, the retries and the sweeps did in
\* between (the prefix test of verify_claims.py).  The dashboard's estimate
\* rests on it: up to the random queue's watermark the sample has no holes.
ClaimOrder ==
    \A q \in Queues : \A r, p \in Probes :
        (probe[r].via = q /\ Fresh(p)) => Key(q, r) <= Key(q, p)

IsPrefixByStatus(old, new) ==
    /\ Len(old) <= Len(new)
    /\ \A i \in 1..Len(old) : old[i].status = new[i].status

\* The history is append-only: no step removes a result or changes what it says,
\* a step records one result at most, and done and exhausted are for good, with
\* the results they were reached with.
HistoryOnlyGrows ==
    [][\A p \in Probes :
        /\ IsPrefixByStatus(results[p], results'[p])
        /\ Len(results'[p]) <= Len(results[p]) + 1
        /\ probe[p].state \in {"done", "exhausted"} =>
              /\ probe'[p] = probe[p]
              /\ results'[p] = results[p]]_queueVars

=============================================================================
