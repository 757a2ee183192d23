---------------------------- MODULE ProbeQueueTxn ----------------------------
(***************************************************************************)
(* The functions of ProbeQueue as PostgreSQL runs them: each call is a     *)
(* READ COMMITTED transaction of several steps (a snapshot, row locks, the *)
(* writes, the commit), and the transactions of different connections      *)
(* interleave.  probe and results are what is committed; a transaction's   *)
(* writes appear at its commit.                                            *)
(*                                                                         *)
(* The module shows that the calls are nevertheless as atomic as           *)
(* ProbeQueue says: a claim takes effect when it locks its row, any other  *)
(* call when it commits.  The server may crash and recover: then every     *)
(* open transaction is lost, with the claims others have skipped past.     *)
(*                                                                         *)
(* Abstractions.  A transaction is over within a tick of the lease clock.  *)
(* A client that dies in a call leaves a statement that still commits.     *)
(***************************************************************************)
EXTENDS ProbeQueue, FiniteSets

CONSTANTS
    Sessions,    \* the connections: one per worker thread, heartbeat, sweeper, psql
    MaxCrashes   \* bound: crashes of the server

\* NULL is no connection.
ASSUME SessionsAssumption == None \notin Sessions /\ MaxCrashes \in Nat

VARIABLES
    lock,     \* the session whose transaction holds the row lock, or None
    txn,      \* what each session's transaction is doing
    crashes

txnVars == <<probe, results, lock, txn, crashes>>

Idle == [op |-> "none"]

TxnInit ==
    /\ QueueInit
    /\ lock = [p \in Probes |-> None]
    /\ txn = [s \in Sessions |-> Idle]
    /\ crashes = 0

Locks(s, ps) == lock' = [p \in Probes |-> IF p \in ps THEN s ELSE lock[p]]
Unlocks(ps)  == Locks(None, ps)
Runs(s, t)   == txn' = [txn EXCEPT ![s] = t]

-----------------------------------------------------------------------------
(***************************************************************************)
(* claim_probe: SELECT ... FOR UPDATE SKIP LOCKED, then UPDATE, then the   *)
(* commit.  The rows come in key order from the statement's snapshot.      *)
(***************************************************************************)
ClaimBegin(s, w, q) ==
    /\ txn[s] = Idle
    /\ Runs(s, [op |-> "claim", w |-> w, q |-> q,
                todo |-> {p \in Probes : Pending(p)}])
    /\ UNCHANGED <<probe, results, lock>>

NextInLine(s, p) ==
    /\ txn[s].op = "claim"
    /\ p \in txn[s].todo
    /\ \A r \in txn[s].todo : Key(txn[s].q, p) <= Key(txn[s].q, r)

\* Mutant: the snapshot's version of the row is trusted.
Claimable_Snapshot(p) == lock[p] = None

\* The row is free, and its latest version still satisfies the WHERE clause.
Claimable(p) == lock[p] = None /\ Pending(p)

ClaimSkip(s, p) ==
    /\ NextInLine(s, p) /\ ~Claimable(p)
    /\ Runs(s, [txn[s] EXCEPT !.todo = @ \ {p}])
    /\ UNCHANGED <<probe, results, lock>>

ClaimLock(s, p) ==
    /\ NextInLine(s, p) /\ Claimable(p)
    /\ Locks(s, {p})
    /\ Runs(s, [op |-> "claimed", w |-> txn[s].w, q |-> txn[s].q, p |-> p])
    /\ UNCHANGED <<probe, results>>

\* No row: the function returns the empty table.
ClaimNone(s) ==
    /\ txn[s].op = "claim" /\ txn[s].todo = {}
    /\ Runs(s, Idle)
    /\ UNCHANGED <<probe, results, lock>>

ClaimCommit(s) ==
    /\ txn[s].op = "claimed"
    /\ probe' = [probe EXCEPT ![txn[s].p] = Claimed(@, txn[s].w, txn[s].q)]
    /\ Unlocks({txn[s].p})
    /\ Runs(s, Idle)
    /\ UNCHANGED results

-----------------------------------------------------------------------------
(***************************************************************************)
(* complete_probe: SELECT ... FOR UPDATE waits for the lock and then holds *)
(* it, also while it finds that the claim is lost and raises.  A client    *)
(* completes what it once claimed, so the row has an attempt.              *)
(***************************************************************************)
CompleteLock(s, p, w, status) ==
    /\ txn[s] = Idle
    /\ probe[p].attempts > 0
    /\ lock[p] = None
    /\ Locks(s, {p})
    /\ Runs(s, [op |-> "complete", w |-> w, p |-> p, status |-> status])
    /\ UNCHANGED <<probe, results>>

CompleteCommit(s) ==
    /\ txn[s].op = "complete"
    /\ CompleteProbe(txn[s].p, txn[s].w, txn[s].status)
    /\ Unlocks({txn[s].p})
    /\ Runs(s, Idle)

CompleteRaise(s) ==
    /\ txn[s].op = "complete"
    /\ ~Holds(txn[s].w, txn[s].p)
    /\ Unlocks({txn[s].p})
    /\ Runs(s, Idle)
    /\ UNCHANGED <<probe, results>>

-----------------------------------------------------------------------------
(***************************************************************************)
(* touch_probes: one UPDATE that waits for the row's lock and then looks   *)
(* at the row's latest version.  The heartbeat passes one row a call.      *)
(***************************************************************************)
TouchLock(s, w, p) ==
    /\ txn[s] = Idle
    /\ lock[p] = None /\ Holds(w, p)
    /\ Locks(s, {p})
    /\ Runs(s, [op |-> "touch", w |-> w, p |-> p])
    /\ UNCHANGED <<probe, results>>

TouchCommit(s) ==
    /\ txn[s].op = "touch"
    /\ TouchProbes(txn[s].w, {txn[s].p})
    /\ Unlocks({txn[s].p})
    /\ Runs(s, Idle)

-----------------------------------------------------------------------------
(***************************************************************************)
(* sweep_stale: the stale rows of the snapshot, each locked if it is free  *)
(* and its latest version is still stale, skipped otherwise.               *)
(***************************************************************************)
SweepBegin(s, t) ==
    /\ txn[s] = Idle
    /\ Runs(s, [op |-> "sweep", timeout |-> t, got |-> {},
                todo |-> {p \in Probes : Stale(p, t)}])
    /\ UNCHANGED <<probe, results, lock>>

\* Mutant: no FOR UPDATE, a row that changed since the snapshot is swept too.
Sweepable_Snapshot(p, t) == TRUE

Sweepable(p, t) == lock[p] = None /\ Stale(p, t)

SweepScan(s, p) ==
    /\ txn[s].op = "sweep" /\ p \in txn[s].todo
    /\ IF Sweepable(p, txn[s].timeout)
       THEN /\ Locks(s, {p})
            /\ Runs(s, [txn[s] EXCEPT !.todo = @ \ {p}, !.got = @ \cup {p}])
       ELSE /\ Runs(s, [txn[s] EXCEPT !.todo = @ \ {p}])
            /\ UNCHANGED lock
    /\ UNCHANGED <<probe, results>>

SweepCommit(s) ==
    /\ txn[s].op = "sweep" /\ txn[s].todo = {}
    /\ probe' = [p \in Probes |->
                    IF p \in txn[s].got
                    THEN Released(probe[p], StateReclaimed(probe[p].attempts))
                    ELSE probe[p]]
    /\ Unlocks(txn[s].got)
    /\ Runs(s, Idle)
    /\ UNCHANGED results

TxnTick ==
    /\ \A s \in Sessions : txn[s] = Idle
    /\ Tick
    /\ UNCHANGED <<lock, txn>>

\* Mutant: complete_probe's statements commit one by one, the result first.
Recovered_HalfCompleted ==
    /\ results' = [p \in Probes |->
          IF \E s \in Sessions : txn[s].op = "complete" /\ txn[s].p = p /\ Holds(txn[s].w, p)
          THEN Recorded(results[p], "pass") ELSE results[p]]
    /\ UNCHANGED probe

\* PostgreSQL recovers to what was committed.
Recovered == UNCHANGED queueVars

\* Row locks die with the server.
ServerCrash ==
    /\ crashes < MaxCrashes /\ crashes' = crashes + 1
    /\ lock' = [p \in Probes |-> None]
    /\ txn' = [s \in Sessions |-> Idle]
    /\ Recovered

-----------------------------------------------------------------------------
SessionStep(s) ==
    \/ \E w \in Workers, q \in Queues : ClaimBegin(s, w, q)
    \/ \E p \in Probes : ClaimSkip(s, p) \/ ClaimLock(s, p)
    \/ ClaimNone(s)
    \/ ClaimCommit(s)
    \/ \E w \in Workers, p \in Probes, r \in Reported : CompleteLock(s, p, w, r)
    \/ CompleteCommit(s)
    \/ CompleteRaise(s)
    \/ \E w \in Workers, p \in Probes : TouchLock(s, w, p)
    \/ TouchCommit(s)
    \/ \E t \in {0, LeaseTimeout} : SweepBegin(s, t)
    \/ \E p \in Probes : SweepScan(s, p)
    \/ SweepCommit(s)

TxnNext ==
    \/ ((\E s \in Sessions : SessionStep(s)) \/ TxnTick) /\ UNCHANGED crashes
    \/ ServerCrash

TxnSpec == TxnInit /\ [][TxnNext]_txnVars

-----------------------------------------------------------------------------
\* The claim in progress that holds a row's lock.
Claiming(p) ==
    {s \in Sessions : lock[p] = s /\ txn[s].op = "claimed" /\ txn[s].p = p}

\* The table as the atomic queue has it: a row locked by a claim is claimed.
ClaimedTable ==
    [p \in Probes |->
        IF Claiming(p) = {} THEN probe[p]
        ELSE LET s == CHOOSE s \in Claiming(p) : TRUE
             IN  Claimed(probe[p], txn[s].w, txn[s].q)]

Atomic == INSTANCE ProbeQueue WITH probe <- ClaimedTable

\* Row locks, SKIP LOCKED and the recheck of the latest row version make the
\* interleaved transactions equivalent to atomic calls, as long as the server
\* does not crash: no two claims take the same attempt of a crate, no claim
\* passes over a crate never claimed, no sweep takes a row that was renewed,
\* completed or reclaimed meanwhile, and a completion that finds its claim lost
\* changes nothing.
IsAtomic ==
    /\ Atomic!QueueInit
    /\ [][crashes' = 0 => [Atomic!QueueNext]_<<ClaimedTable, results>>]_txnVars

\* The queue but for its order: a claim takes any pending row.
UnorderedNext ==
    \/ \E w \in Workers, q \in Queues, p \in Probes :
          /\ Pending(p)
          /\ probe' = [probe EXCEPT ![p] = Claimed(@, w, q)]
          /\ UNCHANGED results
    \/ \E w \in Workers, ids \in SUBSET Probes : TouchProbes(w, ids)
    \/ \E w \in Workers, p \in Probes, r \in Reported : CompleteProbe(p, w, r)
    \/ \E t \in {0, LeaseTimeout}, swept \in SUBSET Probes : SweepStale(t, swept)
    \/ Tick

\* Whenever the server crashes, what is committed is what some calls did, one
\* after the other: a lost transaction leaves no half of itself, neither a claim
\* nor a result.  All that a crash may cost is the order of the claims: a crate
\* that others skipped past may be left behind, never claimed.
CommittedCalls == QueueInit /\ [][UnorderedNext]_queueVars
=============================================================================
