-------------------------- MODULE ProbeQueueTxnProofs --------------------------
(***************************************************************************)
(* The interleaved transactions of ProbeQueueTxn implement the atomic      *)
(* calls of ProbeQueue, for every set of crates, workers and connections.  *)
(*                                                                         *)
(* The argument is the one of two-phase locking.  A transaction holds      *)
(* exactly the locks its record says (LocksHeld); a row somebody holds     *)
(* locked is changed by nobody else, so what the holder read of it when it *)
(* took the lock is still true when it commits (RowsReady).  The order of  *)
(* the claims needs more: a crate never claimed is in the snapshot of      *)
(* every claim in progress, because nothing but a claim ever removes it    *)
(* from the pending rows (FreshSeen).                                      *)
(***************************************************************************)
EXTENDS ProbeQueueTxn, ProbeQueueProofs

\* The transactions a session may be in.
Txns ==
    {Idle}
    \cup [op : {"claim"}, w : Workers, q : Queues, todo : SUBSET Probes]
    \cup [op : {"claimed"}, w : Workers, q : Queues, p : Probes]
    \cup [op : {"complete"}, w : Workers, p : Probes, status : Reported]
    \cup [op : {"touch"}, w : Workers, p : Probes]
    \cup [op : {"sweep"}, timeout : {0, LeaseTimeout}, got : SUBSET Probes,
          todo : SUBSET Probes]

TxnTypeOK ==
    /\ lock \in [Probes -> Sessions \cup {None}]
    /\ txn \in [Sessions -> Txns]
    /\ crashes \in Nat

\* A running row was paid for.
Paid == \A p \in Probes : probe[p].state = "running" => probe[p].attempts > 0

\* The rows whose locks a transaction holds.
HeldBy(t) ==
    CASE t.op \in {"claimed", "complete", "touch"} -> {t.p}
      [] t.op = "sweep" -> t.got
      [] OTHER -> {}

LocksHeld ==
    \A s \in Sessions, p \in Probes : lock[p] = s <=> p \in HeldBy(txn[s])

\* What a transaction found when it took its locks.
Ready(t) ==
    /\ t.op = "claimed" => Pending(t.p)
    /\ t.op = "complete" => probe[t.p].attempts > 0
    /\ t.op = "touch" => Holds(t.w, t.p)
    /\ t.op = "sweep" => \A p \in t.got : Stale(p, t.timeout)

RowsReady == \A s \in Sessions : Ready(txn[s])

\* A crate never claimed, nor about to be, is in every claim's snapshot.
FreshSeen ==
    crashes = 0 =>
        \A s \in Sessions, p \in Probes :
            txn[s].op = "claim" /\ Fresh(p) /\ Claiming(p) = {} => p \in txn[s].todo

\* The inductive invariant.
TxnInv ==
    /\ TypeOK
    /\ TxnTypeOK
    /\ Paid
    /\ LocksHeld
    /\ RowsReady
    /\ FreshSeen

-----------------------------------------------------------------------------
(***************************************************************************)
(* The transactions' records.                                              *)
(***************************************************************************)

\* The fields of each kind of transaction, and the locks it holds.
LEMMA TxnKinds ==
    ASSUME NEW t \in Txns
    PROVE  /\ t.op = "claim" =>
                 t.w \in Workers /\ t.q \in Queues /\ t.todo \subseteq Probes
           /\ t.op = "claimed" => t.w \in Workers /\ t.q \in Queues /\ t.p \in Probes
           /\ t.op = "complete" => t.w \in Workers /\ t.p \in Probes /\ t.status \in Reported
           /\ t.op = "touch" => t.w \in Workers /\ t.p \in Probes
           /\ t.op = "sweep" => /\ t.timeout \in {0, LeaseTimeout}
                                /\ t.got \subseteq Probes /\ t.todo \subseteq Probes
           /\ t.op \in {"claimed", "complete", "touch"} => HeldBy(t) = {t.p}
           /\ t.op = "sweep" => HeldBy(t) = t.got
           /\ t.op \in {"none", "claim"} => HeldBy(t) = {}
           /\ t = Idle <=> t.op = "none"
           /\ HeldBy(t) \subseteq Probes
<1>1. CASE t = Idle
  BY <1>1 DEF Idle, HeldBy
<1>2. CASE t \in [op : {"claim"}, w : Workers, q : Queues, todo : SUBSET Probes]
  BY <1>2 DEF Idle, HeldBy
<1>3. CASE t \in [op : {"claimed"}, w : Workers, q : Queues, p : Probes]
  BY <1>3 DEF Idle, HeldBy
<1>4. CASE t \in [op : {"complete"}, w : Workers, p : Probes, status : Reported]
  BY <1>4 DEF Idle, HeldBy
<1>5. CASE t \in [op : {"touch"}, w : Workers, p : Probes]
  BY <1>5 DEF Idle, HeldBy
<1>6. CASE t \in [op : {"sweep"}, timeout : {0, LeaseTimeout}, got : SUBSET Probes,
                  todo : SUBSET Probes]
  BY <1>6 DEF Idle, HeldBy
<1> QED BY <1>1, <1>2, <1>3, <1>4, <1>5, <1>6 DEF Txns

\* The records of the claims in progress, and of the sweeps.
LEMMA TxnShapes ==
    ASSUME NEW t \in Txns
    PROVE  /\ t.op = "claim" =>
                 t \in [op : {"claim"}, w : Workers, q : Queues, todo : SUBSET Probes]
           /\ t.op = "sweep" =>
                 t \in [op : {"sweep"}, timeout : {0, LeaseTimeout}, got : SUBSET Probes,
                        todo : SUBSET Probes]
BY DEF Txns, Idle

-----------------------------------------------------------------------------
(***************************************************************************)
(* What a session's step does: its transaction takes and releases only its *)
(* own locks, takes only free ones, writes only the rows it holds, and     *)
(* finds ready the rows it then holds.                                     *)
(***************************************************************************)

Moves(s, t) ==
    /\ t \in Txns
    /\ txn' = [txn EXCEPT ![s] = t]
    /\ lock' = [p \in Probes |-> IF p \in HeldBy(t) THEN s
                                 ELSE IF p \in HeldBy(txn[s]) THEN None ELSE lock[p]]
    /\ \A p \in HeldBy(t) : p \in HeldBy(txn[s]) \/ lock[p] = None
    /\ \A p \in Probes : p \notin HeldBy(txn[s]) => probe'[p] = probe[p]
    /\ Ready(t)'

\* A step that takes and releases no lock.
LEMMA NoLocks ==
    ASSUME TxnTypeOK, LocksHeld, NEW s \in Sessions, NEW t \in Txns,
           HeldBy(t) = HeldBy(txn[s]),
           txn' = [txn EXCEPT ![s] = t], UNCHANGED <<probe, lock>>, Ready(t)'
    PROVE  Moves(s, t)
<1>1. lock' = [p \in Probes |-> IF p \in HeldBy(t) THEN s
                                ELSE IF p \in HeldBy(txn[s]) THEN None ELSE lock[p]]
  BY DEF TxnTypeOK, LocksHeld
<1> QED BY <1>1 DEF Moves

\* A step that takes the free locks of some rows, beside those held.
LEMMA TakesLocks ==
    ASSUME TxnTypeOK, LocksHeld, NEW s \in Sessions, NEW t \in Txns, NEW p \in Probes,
           HeldBy(t) = HeldBy(txn[s]) \cup {p}, lock[p] = None,
           txn' = [txn EXCEPT ![s] = t], Locks(s, {p}), UNCHANGED probe, Ready(t)'
    PROVE  Moves(s, t)
<1>1. lock' = [r \in Probes |-> IF r \in HeldBy(t) THEN s
                                ELSE IF r \in HeldBy(txn[s]) THEN None ELSE lock[r]]
  BY DEF TxnTypeOK, LocksHeld, Locks
<1> QED BY <1>1 DEF Moves

\* A step that ends the transaction.
LEMMA Ends ==
    ASSUME TxnTypeOK, NEW s \in Sessions,
           txn' = [txn EXCEPT ![s] = Idle], Unlocks(HeldBy(txn[s])),
           \A p \in Probes : p \notin HeldBy(txn[s]) => probe'[p] = probe[p]
    PROVE  Moves(s, Idle)
<1>1. Idle \in Txns /\ Idle.op = "none"
  BY DEF Txns, Idle
<1>2. HeldBy(Idle) = {} /\ Ready(Idle)'
  BY <1>1, TxnKinds DEF Ready
<1>3. lock' = [p \in Probes |-> IF p \in HeldBy(Idle) THEN s
                                ELSE IF p \in HeldBy(txn[s]) THEN None ELSE lock[p]]
  BY <1>2 DEF Unlocks, Locks
<1> QED BY <1>1, <1>2, <1>3 DEF Moves

LEMMA ClaimMoves ==
    ASSUME TxnInv, NEW s \in Sessions,
           \/ \E w \in Workers, q \in Queues : ClaimBegin(s, w, q)
           \/ \E p \in Probes : ClaimSkip(s, p) \/ ClaimLock(s, p)
           \/ ClaimNone(s)
           \/ ClaimCommit(s)
    PROVE  \E t : Moves(s, t)
<1>0. TxnTypeOK /\ LocksHeld /\ txn[s] \in Txns /\ probe \in [Probes -> ProbeRow]
  BY DEF TxnInv, TxnTypeOK, TypeOK
<1>1. ASSUME NEW w \in Workers, NEW q \in Queues, ClaimBegin(s, w, q)
      PROVE  \E t : Moves(s, t)
  <2>1. PICK t : t = [op |-> "claim", w |-> w, q |-> q, todo |-> {p \in Probes : Pending(p)}]
    OBVIOUS
  <2>2. t \in Txns /\ t.op = "claim"
    BY <2>1 DEF Txns
  <2>3. HeldBy(t) = {} /\ HeldBy(txn[s]) = {}
    BY <1>0, <1>1, <2>2, TxnKinds DEF ClaimBegin
  <2> QED BY <1>0, <1>1, <2>1, <2>2, <2>3, NoLocks DEF ClaimBegin, Runs, Ready
<1>2. ASSUME NEW p \in Probes, ClaimSkip(s, p)
      PROVE  \E t : Moves(s, t)
  <2>1. PICK t : t = [txn[s] EXCEPT !.todo = @ \ {p}]
    OBVIOUS
  <2>2. txn[s].op = "claim"
    BY <1>2 DEF ClaimSkip, NextInLine
  <2>3. t \in Txns /\ t.op = "claim"
    BY <1>0, <2>1, <2>2, TxnShapes DEF Txns
  <2>4. HeldBy(t) = {} /\ HeldBy(txn[s]) = {}
    BY <1>0, <2>2, <2>3, TxnKinds
  <2> QED BY <1>0, <1>2, <2>1, <2>3, <2>4, NoLocks DEF ClaimSkip, Runs, Ready
<1>3. ASSUME NEW p \in Probes, ClaimLock(s, p)
      PROVE  \E t : Moves(s, t)
  <2>0. txn[s].op = "claim"
    BY <1>3 DEF ClaimLock, NextInLine
  <2>1. PICK t : t = [op |-> "claimed", w |-> txn[s].w, q |-> txn[s].q, p |-> p]
    OBVIOUS
  <2>2. t \in Txns /\ t.op = "claimed" /\ t.p = p
    BY <1>0, <2>0, <2>1, TxnKinds DEF Txns
  <2>3. HeldBy(t) = {p} /\ HeldBy(txn[s]) = {}
    BY <1>0, <2>0, <2>2, TxnKinds
  <2>4. Ready(t)'
    BY <1>3, <2>2 DEF ClaimLock, Claimable, Pending, Ready
  <2> QED BY <1>0, <1>3, <2>1, <2>2, <2>3, <2>4, TakesLocks
          DEF ClaimLock, Claimable, Runs
<1>4. CASE ClaimNone(s)
  <2>1. HeldBy(txn[s]) = {}
    BY <1>0, <1>4, TxnKinds DEF ClaimNone
  <2>2. Unlocks(HeldBy(txn[s]))
    BY <1>0, <1>4, <2>1 DEF ClaimNone, Unlocks, Locks, TxnTypeOK
  <2> QED BY <1>0, <1>4, <2>2, Ends DEF ClaimNone, Runs
<1>5. CASE ClaimCommit(s)
  <2>1. HeldBy(txn[s]) = {txn[s].p}
    BY <1>0, <1>5, TxnKinds DEF ClaimCommit
  <2> QED BY <1>0, <1>5, <2>1, Ends DEF ClaimCommit, Runs
<1> QED BY <1>1, <1>2, <1>3, <1>4, <1>5

LEMMA CompleteMoves ==
    ASSUME TxnInv, NEW s \in Sessions,
           \/ \E w \in Workers, p \in Probes, r \in Reported : CompleteLock(s, p, w, r)
           \/ CompleteCommit(s)
           \/ CompleteRaise(s)
    PROVE  \E t : Moves(s, t)
<1>0. TxnTypeOK /\ LocksHeld /\ txn[s] \in Txns /\ probe \in [Probes -> ProbeRow]
  BY DEF TxnInv, TxnTypeOK, TypeOK
<1>1. ASSUME NEW w \in Workers, NEW p \in Probes, NEW r \in Reported,
             CompleteLock(s, p, w, r)
      PROVE  \E t : Moves(s, t)
  <2>1. PICK t : t = [op |-> "complete", w |-> w, p |-> p, status |-> r]
    OBVIOUS
  <2>2. t \in Txns /\ t.op = "complete" /\ t.p = p
    BY <2>1 DEF Txns
  <2>3. HeldBy(t) = {p} /\ HeldBy(txn[s]) = {}
    BY <1>0, <1>1, <2>2, TxnKinds DEF CompleteLock
  <2>4. Ready(t)'
    BY <1>1, <2>2 DEF CompleteLock, Ready
  <2> QED BY <1>0, <1>1, <2>1, <2>2, <2>3, <2>4, TakesLocks DEF CompleteLock, Runs
<1>2. CASE CompleteCommit(s)
  <2>1. HeldBy(txn[s]) = {txn[s].p}
    BY <1>0, <1>2, TxnKinds DEF CompleteCommit
  <2> QED BY <1>0, <1>2, <2>1, Ends DEF CompleteCommit, CompleteProbe, Runs
<1>3. CASE CompleteRaise(s)
  <2>1. HeldBy(txn[s]) = {txn[s].p}
    BY <1>0, <1>3, TxnKinds DEF CompleteRaise
  <2> QED BY <1>0, <1>3, <2>1, Ends DEF CompleteRaise, Runs
<1> QED BY <1>1, <1>2, <1>3

LEMMA TouchMoves ==
    ASSUME TxnInv, NEW s \in Sessions,
           \/ \E w \in Workers, p \in Probes : TouchLock(s, w, p)
           \/ TouchCommit(s)
    PROVE  \E t : Moves(s, t)
<1>0. TxnTypeOK /\ LocksHeld /\ txn[s] \in Txns /\ probe \in [Probes -> ProbeRow]
  BY DEF TxnInv, TxnTypeOK, TypeOK
<1>1. ASSUME NEW w \in Workers, NEW p \in Probes, TouchLock(s, w, p)
      PROVE  \E t : Moves(s, t)
  <2>1. PICK t : t = [op |-> "touch", w |-> w, p |-> p]
    OBVIOUS
  <2>2. t \in Txns /\ t.op = "touch" /\ t.p = p /\ t.w = w
    BY <2>1 DEF Txns
  <2>3. HeldBy(t) = {p} /\ HeldBy(txn[s]) = {}
    BY <1>0, <1>1, <2>2, TxnKinds DEF TouchLock
  <2>4. Ready(t)'
    BY <1>1, <2>2 DEF TouchLock, Holds, Ready
  <2> QED BY <1>0, <1>1, <2>1, <2>2, <2>3, <2>4, TakesLocks DEF TouchLock, Runs
<1>2. CASE TouchCommit(s)
  <2>1. HeldBy(txn[s]) = {txn[s].p}
    BY <1>0, <1>2, TxnKinds DEF TouchCommit
  <2> QED BY <1>0, <1>2, <2>1, Ends DEF TouchCommit, TouchProbes, Runs
<1> QED BY <1>1, <1>2

LEMMA SweepMoves ==
    ASSUME TxnInv, NEW s \in Sessions,
           \/ \E t \in {0, LeaseTimeout} : SweepBegin(s, t)
           \/ \E p \in Probes : SweepScan(s, p)
           \/ SweepCommit(s)
    PROVE  \E t : Moves(s, t)
<1>0. TxnTypeOK /\ LocksHeld /\ txn[s] \in Txns /\ probe \in [Probes -> ProbeRow]
  BY DEF TxnInv, TxnTypeOK, TypeOK
<1>1. ASSUME NEW out \in {0, LeaseTimeout}, SweepBegin(s, out)
      PROVE  \E t : Moves(s, t)
  <2>1. PICK t : t = [op |-> "sweep", timeout |-> out, got |-> {},
                      todo |-> {p \in Probes : Stale(p, out)}]
    OBVIOUS
  <2>2. t \in Txns /\ t.op = "sweep" /\ t.got = {}
    BY <2>1 DEF Txns
  <2>3. HeldBy(t) = {} /\ HeldBy(txn[s]) = {}
    BY <1>0, <1>1, <2>2, TxnKinds DEF SweepBegin
  <2> QED BY <1>0, <1>1, <2>1, <2>2, <2>3, NoLocks DEF SweepBegin, Runs, Ready
<1>2. ASSUME NEW p \in Probes, SweepScan(s, p)
      PROVE  \E t : Moves(s, t)
  <2>0. /\ txn[s].op = "sweep" /\ p \in txn[s].todo
        /\ HeldBy(txn[s]) = txn[s].got
        /\ UNCHANGED probe
        /\ \A r \in txn[s].got : Stale(r, txn[s].timeout)
        /\ txn[s] \in [op : {"sweep"}, timeout : {0, LeaseTimeout}, got : SUBSET Probes,
                       todo : SUBSET Probes]
    BY <1>0, <1>2, TxnKinds, TxnShapes DEF SweepScan, TxnInv, RowsReady, Ready
  <2>1. CASE Sweepable(p, txn[s].timeout)
    <3>1. PICK t : t = [txn[s] EXCEPT !.todo = @ \ {p}, !.got = @ \cup {p}]
      OBVIOUS
    <3>2. /\ t \in [op : {"sweep"}, timeout : {0, LeaseTimeout}, got : SUBSET Probes,
                    todo : SUBSET Probes]
          /\ t.op = "sweep" /\ t.got = txn[s].got \cup {p} /\ t.timeout = txn[s].timeout
      BY <2>0, <3>1
    <3>3. t \in Txns
      BY <3>2 DEF Txns
    <3>4. HeldBy(t) = HeldBy(txn[s]) \cup {p}
      BY <2>0, <3>2, <3>3, TxnKinds
    <3>5. Ready(t)'
      BY <2>0, <2>1, <3>2 DEF Ready, Sweepable, Stale
    <3> QED BY <1>0, <1>2, <2>1, <3>1, <3>3, <3>4, <3>5, TakesLocks
            DEF SweepScan, Sweepable, Runs
  <2>2. CASE ~Sweepable(p, txn[s].timeout)
    <3>1. PICK t : t = [txn[s] EXCEPT !.todo = @ \ {p}]
      OBVIOUS
    <3>2. /\ t \in [op : {"sweep"}, timeout : {0, LeaseTimeout}, got : SUBSET Probes,
                    todo : SUBSET Probes]
          /\ t.op = "sweep" /\ t.got = txn[s].got /\ t.timeout = txn[s].timeout
      BY <2>0, <3>1
    <3>3. t \in Txns
      BY <3>2 DEF Txns
    <3>4. HeldBy(t) = HeldBy(txn[s])
      BY <2>0, <3>2, <3>3, TxnKinds
    <3>5. Ready(t)'
      BY <2>0, <3>2 DEF Ready, Stale
    <3> QED BY <1>0, <1>2, <2>2, <3>1, <3>3, <3>4, <3>5, NoLocks
            DEF SweepScan, Runs
  <2> QED BY <2>1, <2>2
<1>3. CASE SweepCommit(s)
  <2>1. HeldBy(txn[s]) = txn[s].got
    BY <1>0, <1>3, TxnKinds DEF SweepCommit
  <2> QED BY <1>0, <1>3, <2>1, Ends DEF SweepCommit, Runs
<1> QED BY <1>1, <1>2, <1>3

LEMMA SessionMoves ==
    ASSUME TxnInv, NEW s \in Sessions, SessionStep(s)
    PROVE  \E t : Moves(s, t)
BY ClaimMoves, CompleteMoves, TouchMoves, SweepMoves DEF SessionStep

\* No row is held by two transactions.
LEMMA HeldOnce ==
    ASSUME TxnInv, NEW s \in Sessions, NEW r \in Sessions, r # s,
           NEW p \in Probes, p \in HeldBy(txn[s])
    PROVE  p \notin HeldBy(txn[r])
BY DEF TxnInv, LocksHeld

LEMMA MovesTypes ==
    ASSUME TxnInv, NEW s \in Sessions, NEW t, Moves(s, t), crashes' = crashes
    PROVE  TxnTypeOK'
BY DEF TxnInv, TxnTypeOK, Moves

LEMMA MovesLocks ==
    ASSUME TxnInv, NEW s \in Sessions, NEW t, Moves(s, t)
    PROVE  LocksHeld'
<1> SUFFICES ASSUME NEW r \in Sessions, NEW p \in Probes
             PROVE  lock'[p] = r <=> p \in HeldBy(txn'[r])
  BY DEF LocksHeld, HeldBy
<1>0. /\ r # None /\ s # None
      /\ lock[p] = r <=> p \in HeldBy(txn[r])
      /\ lock[p] = s <=> p \in HeldBy(txn[s])
      /\ lock'[p] = IF p \in HeldBy(t) THEN s
                    ELSE IF p \in HeldBy(txn[s]) THEN None ELSE lock[p]
      /\ p \in HeldBy(t) => p \in HeldBy(txn[s]) \/ lock[p] = None
  BY SessionsAssumption DEF TxnInv, LocksHeld, Moves
<1>1. CASE r = s
  <2>1. txn'[r] = t
    BY <1>1 DEF Moves, TxnInv, TxnTypeOK
  <2> QED BY <1>0, <1>1, <2>1
<1>2. CASE r # s
  <2>1. txn'[r] = txn[r]
    BY <1>2 DEF Moves, TxnInv, TxnTypeOK
  <2> QED BY <1>0, <1>2, <2>1
<1> QED BY <1>1, <1>2

LEMMA MovesReady ==
    ASSUME TxnInv, NEW s \in Sessions, NEW t, Moves(s, t)
    PROVE  RowsReady'
<1> SUFFICES ASSUME NEW r \in Sessions
             PROVE  Ready(txn[r])'
  BY DEF RowsReady
<1>1. CASE r = s
  <2>1. txn'[r] = t
    BY <1>1 DEF Moves, TxnInv, TxnTypeOK
  <2> QED BY <2>1 DEF Moves, Ready, Pending, Holds, Stale
<1>2. CASE r # s
  <2>1. txn'[r] = txn[r] /\ txn[r] \in Txns
    BY <1>2 DEF Moves, TxnInv, TxnTypeOK
  <2>2. \A p \in HeldBy(txn[r]) : probe'[p] = probe[p]
    BY <1>2, <2>1, HeldOnce, TxnKinds DEF Moves
  <2>3. Ready(txn[r])
    BY DEF TxnInv, RowsReady
  <2>4. /\ txn[r].op \in {"claimed", "complete", "touch"} =>
              probe'[txn[r].p] = probe[txn[r].p]
        /\ txn[r].op = "sweep" => \A p \in txn[r].got : probe'[p] = probe[p]
    BY <2>1, <2>2, TxnKinds
  <2> QED BY <2>1, <2>3, <2>4 DEF Ready, Pending, Holds, Stale
<1> QED BY <1>1, <1>2

-----------------------------------------------------------------------------
(***************************************************************************)
(* What is committed.                                                      *)
(***************************************************************************)

\* A session commits a call of the queue, or nothing.
LEMMA SessionCommits ==
    ASSUME TxnInv, NEW s \in Sessions, SessionStep(s)
    PROVE  [UnorderedNext]_queueVars
<1>0. txn[s] \in Txns /\ Ready(txn[s])
  BY DEF TxnInv, TxnTypeOK, RowsReady
<1>1. CASE ClaimCommit(s)
  <2>1. /\ txn[s].w \in Workers /\ txn[s].q \in Queues /\ txn[s].p \in Probes
        /\ Pending(txn[s].p)
    BY <1>0, <1>1, TxnKinds DEF ClaimCommit, Ready
  <2> QED BY <1>1, <2>1 DEF ClaimCommit, UnorderedNext
<1>2. CASE CompleteCommit(s)
  <2>1. txn[s].w \in Workers /\ txn[s].p \in Probes /\ txn[s].status \in Reported
    BY <1>0, <1>2, TxnKinds DEF CompleteCommit
  <2> QED BY <1>2, <2>1 DEF CompleteCommit, UnorderedNext
<1>3. CASE TouchCommit(s)
  <2>1. txn[s].w \in Workers /\ {txn[s].p} \in SUBSET Probes
    BY <1>0, <1>3, TxnKinds DEF TouchCommit
  <2> QED BY <1>3, <2>1 DEF TouchCommit, UnorderedNext
<1>4. CASE SweepCommit(s)
  <2>1. /\ txn[s].timeout \in {0, LeaseTimeout} /\ txn[s].got \in SUBSET Probes
        /\ \A p \in txn[s].got : Stale(p, txn[s].timeout)
    BY <1>0, <1>4, TxnKinds DEF SweepCommit, Ready
  <2>2. SweepStale(txn[s].timeout, txn[s].got)
    BY <1>4, <2>1 DEF SweepCommit, SweepStale
  <2> QED BY <2>1, <2>2 DEF UnorderedNext
<1>5. CASE UNCHANGED <<probe, results>>
  BY <1>5 DEF queueVars
<1> QED BY <1>1, <1>2, <1>3, <1>4, <1>5
    DEF SessionStep, ClaimBegin, ClaimSkip, ClaimLock, ClaimNone, CompleteLock,
        CompleteRaise, TouchLock, SweepBegin, SweepScan

LEMMA CommitStep ==
    ASSUME TxnInv, [TxnNext]_txnVars
    PROVE  [UnorderedNext]_queueVars
BY SessionCommits
DEF TxnNext, TxnTick, ServerCrash, Recovered, UnorderedNext, txnVars, queueVars

\* A committed call does to each row what a call of the queue does.
LEMMA CommitTables ==
    ASSUME TypeOK, [UnorderedNext]_queueVars
    PROVE  TablesStep
<1>1. ASSUME NEW w \in Workers, NEW q \in Queues, NEW p \in Probes, Pending(p),
             probe' = [probe EXCEPT ![p] = Claimed(@, w, q)], UNCHANGED results
      PROVE  TablesStep
  <2>1. /\ probe' = [r \in Probes |-> probe'[r]]
        /\ results' = [r \in Probes |-> results'[r]]
    BY <1>1 DEF TypeOK
  <2>2. RowStep(p)
    BY <1>1 DEF TypeOK, Pending, RowStep, RowClaimed
  <2>3. ASSUME NEW r \in Probes, r # p PROVE RowStep(r)
    <3>1. probe'[r] = probe[r] /\ results'[r] = results[r]
      BY <1>1, <2>3 DEF TypeOK
    <3>2. probe[r] \in ProbeRow /\ probe[r].age \in 0..LeaseTimeout
      BY RowType
    <3> QED BY <3>1, <3>2, SameAge DEF RowStep, RowAges
  <2> QED BY <2>1, <2>2, <2>3 DEF TablesStep
<1>2. CASE [QueueNext]_queueVars
  BY <1>2, QueueTables
<1> QED BY <1>1, <1>2 DEF UnorderedNext, QueueNext

\* A committed call keeps the tables' types, and runs only rows it was paid for.
LEMMA CommitTypes ==
    ASSUME TypeOK, Paid, [UnorderedNext]_queueVars
    PROVE  TypeOK' /\ Paid'
<1>0. TablesStep
  BY CommitTables
<1>1. TypeOK'
  BY <1>0, TablesType
<1>2. ASSUME NEW p \in Probes, probe'[p].state = "running"
      PROVE  probe'[p].attempts > 0
  <2>1. probe[p].attempts \in Nat /\ (probe[p].state = "running" => probe[p].attempts > 0)
    BY RowType DEF Paid
  <2>2. CASE Keeps(p)
    BY <1>2, <2>1, <2>2 DEF Keeps
  <2>3. CASE Claims(p)
    BY <2>1, <2>3 DEF Claims
  <2>4. CASE \E s \in Statuses : Reports(p, s)
    BY <1>2, <2>1, <2>4, ReportStates DEF Reports
  <2>5. CASE Reclaims(p)
    BY <1>2, <2>5 DEF Reclaims, StateReclaimed
  <2> QED BY <1>0, <2>2, <2>3, <2>4, <2>5, Effects DEF Effect
<1> QED BY <1>1, <1>2 DEF Paid

-----------------------------------------------------------------------------
(***************************************************************************)
(* The crates never claimed.                                               *)
(***************************************************************************)

\* A row's claim in progress is that of the transaction that holds it locked.
LEMMA ClaimingIs ==
    ASSUME TxnTypeOK, LocksHeld, NEW p \in Probes
    PROVE  /\ lock[p] \in Sessions /\ txn[lock[p]].op = "claimed" =>
                 Claiming(p) = {lock[p]}
           /\ ~(lock[p] \in Sessions /\ txn[lock[p]].op = "claimed") =>
                 Claiming(p) = {}
<1>1. ASSUME lock[p] \in Sessions, txn[lock[p]].op = "claimed"
      PROVE  p = txn[lock[p]].p
  <2>1. txn[lock[p]] \in Txns /\ p \in HeldBy(txn[lock[p]])
    BY <1>1 DEF TxnTypeOK, LocksHeld
  <2> QED BY <1>1, <2>1, TxnKinds
<1> QED BY <1>1 DEF Claiming

\* Only a claim locks a row that was never claimed.
LEMMA FreshUnlocked ==
    ASSUME TxnInv, NEW p \in Probes, Fresh(p), Claiming(p) = {}
    PROVE  lock[p] = None
<1> SUFFICES ASSUME lock[p] \in Sessions PROVE FALSE
  BY DEF TxnInv, TxnTypeOK
<1> DEFINE t == txn[lock[p]]
<1>1. t \in Txns /\ p \in HeldBy(t) /\ Ready(t)
  BY DEF TxnInv, TxnTypeOK, LocksHeld, RowsReady
<1>2. t.op # "claimed"
  BY ClaimingIs DEF TxnInv
<1>3. t.op = "complete" \/ t.op = "touch" \/ t.op = "sweep"
  BY <1>1, <1>2 DEF HeldBy
<1>4. probe[p].state = "pending" /\ probe[p].attempts = 0
  BY DEF Fresh, Pending
<1> HIDE DEF t
<1> QED BY <1>1, <1>3, <1>4, TxnKinds DEF Ready, Holds, Stale

\* A committed call makes no row fresh.
LEMMA FreshCommit ==
    ASSUME TypeOK, Paid, [UnorderedNext]_queueVars, NEW p \in Probes, Fresh(p)'
    PROVE  Fresh(p)
<1>0. probe[p].attempts \in Nat /\ (probe[p].state = "running" => probe[p].attempts > 0)
  BY RowType DEF Paid
<1>1. CASE Keeps(p)
  BY <1>1 DEF Keeps, Fresh, Pending
<1>2. CASE Claims(p)
  BY <1>2 DEF Claims, Fresh, Pending
<1>3. CASE \E s \in Statuses : Reports(p, s)
  BY <1>0, <1>3 DEF Reports, Fresh, Pending
<1>4. CASE Reclaims(p)
  BY <1>0, <1>4 DEF Reclaims, Fresh, Pending
<1> QED BY <1>1, <1>2, <1>3, <1>4, CommitTables, Effects DEF Effect

LEMMA FreshStep ==
    ASSUME TxnInv, NEW s \in Sessions, SessionStep(s), NEW t, Moves(s, t),
           TxnTypeOK', LocksHeld',
           NEW p \in Probes, Fresh(p)', Claiming(p)' = {}
    PROVE  Fresh(p) /\ Claiming(p) = {}
<1>1. Fresh(p)
  BY SessionCommits, FreshCommit DEF TxnInv
<1>2. ASSUME lock[p] \in Sessions, txn[lock[p]].op = "claimed", lock[p] # s
      PROVE  FALSE
  <2>1. p \in HeldBy(txn[lock[p]]) /\ p \notin HeldBy(txn[s])
    BY <1>2 DEF TxnInv, LocksHeld
  <2>2. lock[p] # None
    BY <1>2, SessionsAssumption
  <2>3. lock'[p] = lock[p] /\ txn'[lock[p]] = txn[lock[p]]
    BY <1>2, <2>1, <2>2 DEF Moves, TxnInv, TxnTypeOK
  <2>4. lock[p] \in Claiming(p)'
    <3>1. txn[lock[p]].p = p
      BY <1>2, <2>1, TxnKinds DEF TxnInv, TxnTypeOK
    <3> QED BY <1>2, <2>3, <3>1 DEF Claiming
  <2> QED BY <2>4
<1>3. ASSUME lock[p] = s, txn[s].op = "claimed"
      PROVE  FALSE
  <2>1. p = txn[s].p /\ txn[s].w \in Workers /\ txn[s].q \in Queues
    BY <1>3, TxnKinds DEF TxnInv, TxnTypeOK, LocksHeld
  <2>2. ClaimCommit(s)
    <3>1. txn[s] # Idle
      BY <1>3 DEF Idle
    <3>2. \A x \in Probes : ~ClaimSkip(s, x) /\ ~ClaimLock(s, x)
      BY <1>3 DEF ClaimSkip, ClaimLock, NextInLine
    <3>3. \A x \in Probes : ~SweepScan(s, x)
      BY <1>3 DEF SweepScan
    <3>4. /\ ~ClaimNone(s) /\ ~CompleteCommit(s) /\ ~CompleteRaise(s)
          /\ ~TouchCommit(s) /\ ~SweepCommit(s)
      BY <1>3 DEF ClaimNone, CompleteCommit, CompleteRaise, TouchCommit, SweepCommit
    <3>5. \A w \in Workers, x \in Probes, o \in Reported : ~CompleteLock(s, x, w, o)
      BY <3>1 DEF CompleteLock
    <3>6. \A w \in Workers, q \in Queues : ~ClaimBegin(s, w, q)
      BY <3>1 DEF ClaimBegin
    <3>7. /\ \A w \in Workers, x \in Probes : ~TouchLock(s, w, x)
          /\ \A o \in {0, LeaseTimeout} : ~SweepBegin(s, o)
      BY <3>1 DEF TouchLock, SweepBegin
    <3> QED BY <3>2, <3>3, <3>4, <3>5, <3>6, <3>7 DEF SessionStep
  <2>3. probe'[p] = Claimed(probe[p], txn[s].w, txn[s].q)
    BY <2>1, <2>2 DEF ClaimCommit, TxnInv, TypeOK
  <2>4. probe'[p].state = "running"
    BY <2>1, <2>3, RowType, ClaimedRow DEF TxnInv
  <2> QED BY <2>4 DEF Fresh, Pending
<1> QED BY <1>1, <1>2, <1>3, ClaimingIs DEF TxnInv

\* A claim's snapshot goes on holding the crates never claimed: the claim skips
\* a row that is locked or no longer pending, and those rows are neither.
LEMMA FreshSeenStep ==
    ASSUME TxnInv, NEW s \in Sessions, SessionStep(s), crashes' = crashes,
           NEW t, Moves(s, t), TxnTypeOK', LocksHeld'
    PROVE  FreshSeen'
<1> SUFFICES ASSUME crashes = 0, NEW r \in Sessions, NEW p \in Probes,
                    txn'[r].op = "claim", Fresh(p)', Claiming(p)' = {}
             PROVE  p \in txn'[r].todo
  BY DEF FreshSeen, Claiming, Fresh, Pending
<1>1. Fresh(p) /\ Claiming(p) = {}
  BY FreshStep
<1>2. \A z \in Sessions : txn[z].op = "claim" => p \in txn[z].todo
  BY <1>1 DEF TxnInv, FreshSeen
<1>3. CASE r # s
  <2>1. txn'[r] = txn[r]
    BY <1>3 DEF Moves, TxnInv, TxnTypeOK
  <2> QED BY <1>2, <2>1
<1>4. CASE r = s
  <2>0. txn \in [Sessions -> Txns] /\ txn[s] \in Txns
    BY DEF TxnInv, TxnTypeOK
  <2>1. ASSUME NEW w \in Workers, NEW q \in Queues, ClaimBegin(s, w, q)
        PROVE  p \in txn'[s].todo
    BY <1>1, <2>0, <2>1 DEF ClaimBegin, Runs, Fresh
  <2>2. ASSUME NEW x \in Probes, ClaimSkip(s, x)
        PROVE  p \in txn'[s].todo
    <3>1. p # x
      BY <1>1, <2>2, FreshUnlocked DEF ClaimSkip, Claimable, Fresh
    <3>2. txn[s].op = "claim"
      BY <2>2 DEF ClaimSkip, NextInLine
    <3>3. txn'[s] = [txn[s] EXCEPT !.todo = @ \ {x}]
      BY <2>0, <2>2 DEF ClaimSkip, Runs
    <3>4. txn[s] \in [op : {"claim"}, w : Workers, q : Queues, todo : SUBSET Probes]
      BY <2>0, <3>2, TxnShapes
    <3> QED BY <1>2, <3>1, <3>2, <3>3, <3>4
  <2>3. ASSUME NEW x \in Probes, SweepScan(s, x)
        PROVE  FALSE
    <3>1. txn[s] \in [op : {"sweep"}, timeout : {0, LeaseTimeout}, got : SUBSET Probes,
                      todo : SUBSET Probes]
      BY <2>0, <2>3, TxnShapes DEF SweepScan
    <3>2. \/ txn'[s] = [txn[s] EXCEPT !.todo = @ \ {x}, !.got = @ \cup {x}]
          \/ txn'[s] = [txn[s] EXCEPT !.todo = @ \ {x}]
      BY <2>0, <2>3 DEF SweepScan, Runs
    <3>3. txn'[s].op = "sweep"
      BY <3>1, <3>2
    <3> QED BY <1>4, <3>3
  <2>4. ASSUME txn'[s] = Idle PROVE FALSE
    BY <1>4, <2>4 DEF Idle
  <2>5. CASE \/ \E x \in Probes : ClaimLock(s, x)
             \/ \E w \in Workers, x \in Probes, o \in Reported : CompleteLock(s, x, w, o)
             \/ \E w \in Workers, x \in Probes : TouchLock(s, w, x)
             \/ \E o \in {0, LeaseTimeout} : SweepBegin(s, o)
    <3>1. ASSUME NEW x \in Probes, ClaimLock(s, x) PROVE txn'[s].op = "claimed"
      BY <2>0, <3>1 DEF ClaimLock, Runs
    <3>2. ASSUME NEW w \in Workers, NEW x \in Probes, NEW o \in Reported,
                 CompleteLock(s, x, w, o)
          PROVE  txn'[s].op = "complete"
      BY <2>0, <3>2 DEF CompleteLock, Runs
    <3>3. ASSUME NEW w \in Workers, NEW x \in Probes, TouchLock(s, w, x)
          PROVE  txn'[s].op = "touch"
      BY <2>0, <3>3 DEF TouchLock, Runs
    <3>4. ASSUME NEW o \in {0, LeaseTimeout}, SweepBegin(s, o)
          PROVE  txn'[s].op = "sweep"
      BY <2>0, <3>4 DEF SweepBegin, Runs
    <3> QED BY <1>4, <2>5, <3>1, <3>2, <3>3, <3>4
  <2>6. CASE ClaimNone(s) \/ ClaimCommit(s) \/ CompleteCommit(s) \/ CompleteRaise(s)
             \/ TouchCommit(s) \/ SweepCommit(s)
    BY <2>0, <2>4, <2>6 DEF ClaimNone, ClaimCommit, CompleteCommit, CompleteRaise,
       TouchCommit, SweepCommit, Runs
  <2> QED BY <1>4, <2>1, <2>2, <2>3, <2>5, <2>6 DEF SessionStep
<1> QED BY <1>3, <1>4

-----------------------------------------------------------------------------
(***************************************************************************)
(* The invariant.                                                          *)
(***************************************************************************)

LEMMA TxnInvInit == TxnInit => TxnInv
<1> SUFFICES ASSUME TxnInit PROVE TxnInv
  OBVIOUS
<1>1. Idle \in Txns /\ Idle.op = "none" /\ HeldBy(Idle) = {}
  BY DEF Txns, Idle, HeldBy
<1>2. TypeOK
  BY TypeInit DEF TxnInit
<1>3. TxnTypeOK
  BY <1>1 DEF TxnInit, TxnTypeOK
<1>4. Paid
  BY DEF TxnInit, QueueInit, NewRow, Paid
<1>5. LocksHeld
  BY <1>1, SessionsAssumption DEF TxnInit, LocksHeld
<1>6. RowsReady
  BY <1>1 DEF TxnInit, RowsReady, Ready
<1>7. FreshSeen
  BY <1>1 DEF TxnInit, FreshSeen
<1> QED BY <1>2, <1>3, <1>4, <1>5, <1>6, <1>7 DEF TxnInv

LEMMA TxnInvStep == TxnInv /\ [TxnNext]_txnVars => TxnInv'
<1> SUFFICES ASSUME TxnInv, [TxnNext]_txnVars PROVE TxnInv'
  OBVIOUS
<1>0. TypeOK' /\ Paid'
  BY CommitStep, CommitTypes DEF TxnInv
<1>1. ASSUME NEW s \in Sessions, SessionStep(s), crashes' = crashes
      PROVE  TxnInv'
  <2>1. PICK t : Moves(s, t)
    BY <1>1, SessionMoves
  <2>2. TxnTypeOK' /\ LocksHeld' /\ RowsReady'
    BY <1>1, <2>1, MovesTypes, MovesLocks, MovesReady
  <2>3. FreshSeen'
    BY <1>1, <2>1, <2>2, FreshSeenStep
  <2> QED BY <1>0, <2>2, <2>3 DEF TxnInv
<1>2. CASE TxnTick /\ crashes' = crashes
  <2>1. UNCHANGED <<lock, txn, crashes>> /\ \A s \in Sessions : txn[s] = Idle
    BY <1>2 DEF TxnTick
  <2>2. TxnTypeOK'
    BY <2>1 DEF TxnInv, TxnTypeOK
  <2>3. LocksHeld'
    BY <2>1 DEF TxnInv, LocksHeld, HeldBy
  <2>4. RowsReady'
    BY <2>1 DEF RowsReady, Ready, Idle
  <2>5. FreshSeen'
    BY <2>1 DEF FreshSeen, Idle
  <2> QED BY <1>0, <2>2, <2>3, <2>4, <2>5 DEF TxnInv
<1>3. CASE ServerCrash
  <2>1. Idle \in Txns /\ Idle.op = "none" /\ HeldBy(Idle) = {}
    BY DEF Txns, Idle, HeldBy
  <2>2. TxnTypeOK'
    BY <1>3, <2>1 DEF ServerCrash, TxnInv, TxnTypeOK
  <2>3. LocksHeld'
    <3> SUFFICES ASSUME NEW s \in Sessions, NEW p \in Probes
                 PROVE  lock'[p] = s <=> p \in HeldBy(txn'[s])
      BY DEF LocksHeld, HeldBy
    <3> QED BY <1>3, <2>1, SessionsAssumption DEF ServerCrash
  <2>4. RowsReady'
    BY <1>3, <2>1 DEF ServerCrash, RowsReady, Ready
  <2>5. FreshSeen'
    BY <1>3 DEF ServerCrash, FreshSeen, TxnInv, TxnTypeOK
  <2> QED BY <1>0, <2>2, <2>3, <2>4, <2>5 DEF TxnInv
<1>4. CASE UNCHANGED txnVars
  <2>1. UNCHANGED <<probe, results, lock, txn, crashes>>
    BY <1>4 DEF txnVars
  <2>2. TxnTypeOK' /\ LocksHeld'
    BY <2>1 DEF TxnInv, TxnTypeOK, LocksHeld, HeldBy
  <2>3. RowsReady'
    BY <2>1 DEF TxnInv, RowsReady, Ready, Pending, Holds, Stale
  <2>4. FreshSeen'
    BY <2>1 DEF TxnInv, FreshSeen, Fresh, Pending, Claiming
  <2> QED BY <1>0, <2>2, <2>3, <2>4 DEF TxnInv
<1> QED BY <1>1, <1>2, <1>3, <1>4 DEF TxnNext

LEMMA TxnInvariance == TxnSpec => []TxnInv
BY TxnInvInit, TxnInvStep, PTL DEF TxnSpec

\* What is committed is always what some calls did one after the other, with a
\* crash of the server at any moment: no transaction leaves a half of itself.
THEOREM CommittedCorrect == TxnSpec => CommittedCalls
<1>1. TxnInit => QueueInit
  BY DEF TxnInit
<1>2. TxnInv /\ [TxnNext]_txnVars => [UnorderedNext]_queueVars
  BY CommitStep
<1> QED BY <1>1, <1>2, TxnInvariance, PTL DEF TxnSpec, CommittedCalls

LEMMA CommittedInvariance == CommittedCalls => []RowsInv
<1>1. QueueInit => RowsInv
  BY InvInit DEF IInv
<1>2. RowsInv /\ [UnorderedNext]_queueVars => RowsInv'
  BY CommitTables, RowsInvStep DEF RowsInv
<1> QED BY <1>1, <1>2, PTL DEF CommittedCalls

\* The invariants of the rows are not the atomic calls' alone: whatever the row
\* locks let interleave, and whenever the server crashes, what is committed has
\* one claim per result and no more claims than max_attempts, one current
\* result per crate, and a state that agrees with both.
THEOREM CommittedRowsCorrect ==
    TxnSpec => [](/\ CurrentIsLatest /\ AttemptsAccounted /\ DoneIffJudged
                  /\ RetryBudget /\ FinishedRows)
<1>1. RowsInv => /\ CurrentIsLatest /\ AttemptsAccounted /\ DoneIffJudged
                 /\ RetryBudget /\ FinishedRows
  BY DEF RowsInv
<1> QED BY <1>1, CommittedCorrect, CommittedInvariance, PTL

\* No crash loses a committed result or reopens a crate that was settled.
THEOREM CommittedHistoryCorrect == TxnSpec => HistoryOnlyGrows
<1>1. RowsInv /\ [UnorderedNext]_queueVars => [\A p \in Probes : HistoryGrows(p)]_queueVars
  BY HistoryStep, CommitTables DEF RowsInv
<1> QED BY <1>1, CommittedCorrect, CommittedInvariance, PTL
        DEF CommittedCalls, HistoryOnlyGrows, HistoryGrows

-----------------------------------------------------------------------------
(***************************************************************************)
(* The refinement.  The table as the atomic queue has it, row by row.      *)
(***************************************************************************)

ClaimInProgress(p) == lock[p] \in Sessions /\ txn[lock[p]].op = "claimed"

View(p) ==
    IF ClaimInProgress(p) THEN Claimed(probe[p], txn[lock[p]].w, txn[lock[p]].q)
                            ELSE probe[p]

LEMMA TableIs == TxnTypeOK /\ LocksHeld => ClaimedTable = [p \in Probes |-> View(p)]
<1> SUFFICES ASSUME TxnTypeOK, LocksHeld, NEW p \in Probes
             PROVE  View(p) = IF Claiming(p) = {} THEN probe[p]
                              ELSE LET s == CHOOSE s \in Claiming(p) : TRUE
                                   IN  Claimed(probe[p], txn[s].w, txn[s].q)
  BY DEF ClaimedTable
<1>1. CASE ClaimInProgress(p)
  <2>1. Claiming(p) = {lock[p]}
    BY <1>1, ClaimingIs DEF ClaimInProgress
  <2>2. (CHOOSE s \in Claiming(p) : TRUE) = lock[p]
    BY <2>1
  <2> QED BY <1>1, <2>1, <2>2 DEF View
<1>2. CASE ~ClaimInProgress(p)
  <2>1. Claiming(p) = {}
    BY <1>2, ClaimingIs DEF ClaimInProgress
  <2> QED BY <1>2, <2>1 DEF View
<1> QED BY <1>1, <1>2

LEMMA TableNext ==
    (TxnTypeOK /\ LocksHeld => ClaimedTable = [p \in Probes |-> View(p)])'
BY TableIs, PTL

\* The operators on rows are the same in both tables.
LEMMA SameOperators ==
    /\ Atomic!Queues = Queues
    /\ \A q, p : Atomic!Key(q, p) = Key(q, p)
    /\ \A row, w, q : Atomic!Claimed(row, w, q) = Claimed(row, w, q)
    /\ \A row, st : Atomic!Released(row, st) = Released(row, st)
    /\ \A s, n : Atomic!StateAfter(s, n) = StateAfter(s, n)
    /\ \A n : Atomic!StateReclaimed(n) = StateReclaimed(n)
    /\ \A st : Atomic!FinishedAs(st) = FinishedAs(st)
    /\ \A rows, s : Atomic!Recorded(rows, s) = Recorded(rows, s)
    /\ \A row : Atomic!Older(row) = Older(row)
    /\ Atomic!NewRow = NewRow
BY DEF Atomic!Queues, Queues, Atomic!Key, Key, Atomic!Claimed, Claimed, Atomic!Released,
       Released, Atomic!StateAfter, StateAfter, Atomic!StateReclaimed, StateReclaimed,
       Atomic!FinishedAs, FinishedAs, Atomic!Recorded, Recorded, Atomic!Retire, Retire,
       Atomic!Older, Older, Atomic!NewRow, NewRow

\* A row keeps its view if its claim, its lock and what is committed stay.
LEMMA ViewElsewhere ==
    ASSUME TxnInv, NEW s \in Sessions, NEW t, Moves(s, t), NEW p \in Probes,
           p \notin HeldBy(txn[s]), p \notin HeldBy(t)
    PROVE  View(p)' = View(p)
<1>1. lock[p] # s /\ lock'[p] = lock[p] /\ probe'[p] = probe[p]
  BY DEF TxnInv, LocksHeld, Moves
<1>2. lock[p] \in Sessions => txn'[lock[p]] = txn[lock[p]]
  BY <1>1 DEF TxnInv, TxnTypeOK, Moves
<1> QED BY <1>1, <1>2 DEF View, ClaimInProgress

\* A row that a transaction holds, other than a claim, is as committed.
LEMMA ViewHeld ==
    ASSUME TxnInv, NEW s \in Sessions, NEW t, Moves(s, t), NEW p \in Probes,
           txn[s].op # "claimed", t.op # "claimed",
           p \in HeldBy(txn[s]) \/ p \in HeldBy(t)
    PROVE  View(p) = probe[p] /\ View(p)' = probe'[p]
<1>0. txn'[s] = t /\ None \notin Sessions
  BY SessionsAssumption DEF TxnInv, TxnTypeOK, Moves
<1>1. lock[p] = s \/ lock[p] = None
  BY DEF TxnInv, LocksHeld, Moves
<1>2. lock'[p] = s \/ lock'[p] = None
  BY DEF TxnInv, LocksHeld, Moves
<1> QED BY <1>0, <1>1, <1>2 DEF View, ClaimInProgress

\* A step that commits nothing and neither begins nor ends a claim's hold of a
\* row changes nothing in the atomic queue.
LEMMA QuietStep ==
    ASSUME TxnInv, TxnInv', NEW s \in Sessions, NEW t, Moves(s, t),
           txn[s].op # "claimed", t.op # "claimed", UNCHANGED <<probe, results>>
    PROVE  UNCHANGED <<ClaimedTable, results>>
<1>1. \A p \in Probes : View(p)' = View(p)
  BY ViewElsewhere, ViewHeld
<1>2. /\ ClaimedTable = [p \in Probes |-> View(p)]
      /\ ClaimedTable' = [p \in Probes |-> View(p)']
  BY TableIs, TableNext DEF TxnInv
<1> QED BY <1>1, <1>2

\* A claim takes effect when it locks its row.
LEMMA ClaimLockStep ==
    ASSUME TxnInv, TxnInv', NEW s \in Sessions, NEW p \in Probes, ClaimLock(s, p),
           crashes = 0
    PROVE  Atomic!ClaimProbe(txn[s].w, txn[s].q, p) /\ txn[s].w \in Workers
           /\ txn[s].q \in Queues
<1> DEFINE w == txn[s].w
           q == txn[s].q
<1>0. /\ txn[s].op = "claim" /\ txn[s] \in Txns /\ txn \in [Sessions -> Txns]
      /\ p \in txn[s].todo /\ lock[p] = None /\ Pending(p)
      /\ \A r \in txn[s].todo : Key(q, p) <= Key(q, r)
      /\ UNCHANGED <<probe, results>>
  BY DEF ClaimLock, NextInLine, Claimable, TxnInv, TxnTypeOK
<1>1. w \in Workers /\ q \in Queues
  BY <1>0, TxnKinds
<1>2. /\ lock' = [r \in Probes |-> IF r = p THEN s ELSE lock[r]]
      /\ txn' = [txn EXCEPT ![s] = [op |-> "claimed", w |-> w, q |-> q, p |-> p]]
  BY DEF ClaimLock, Locks, Runs
<1>3. /\ ClaimedTable = [r \in Probes |-> View(r)]
      /\ ClaimedTable' = [r \in Probes |-> View(r)']
  BY TableIs, TableNext DEF TxnInv
<1>4. View(p) = probe[p]
  BY <1>0, SessionsAssumption DEF View, ClaimInProgress
<1>5. View(p)' = Claimed(probe[p], w, q)
  BY <1>0, <1>2 DEF View, ClaimInProgress
<1>6. ASSUME NEW r \in Probes, r # p PROVE View(r)' = View(r)
  <2>1. lock'[r] = lock[r] /\ probe'[r] = probe[r]
    BY <1>0, <1>2, <1>6
  <2>2. lock[r] # s
    <3>1. HeldBy(txn[s]) = {}
      BY <1>0, TxnKinds
    <3> QED BY <3>1 DEF TxnInv, LocksHeld
  <2>3. lock[r] \in Sessions => txn'[lock[r]] = txn[lock[r]]
    BY <1>0, <1>2, <2>2
  <2> QED BY <2>1, <2>3 DEF View, ClaimInProgress
<1>7. ClaimedTable' = [ClaimedTable EXCEPT ![p] = Claimed(@, w, q)]
  <2>1. ClaimedTable[p] = probe[p]
    BY <1>3, <1>4
  <2> QED BY <1>3, <1>5, <1>6, <2>1
<1>8. ASSUME NEW r \in Probes, ClaimedTable[r].state = "pending",
             ClaimedTable[r].attempts = 0
      PROVE  Key(q, p) <= Key(q, r)
  <2>1. ~ClaimInProgress(r)
    <3>1. SUFFICES ASSUME ClaimInProgress(r) PROVE FALSE
      OBVIOUS
    <3>2. txn[lock[r]] \in Txns /\ txn[lock[r]].op = "claimed"
      BY <1>0, <3>1 DEF ClaimInProgress
    <3>3. txn[lock[r]].w \in Workers /\ txn[lock[r]].q \in Queues
      BY <3>2, TxnKinds
    <3>4. probe[r] \in ProbeRow
      BY RowType DEF TxnInv
    <3>5. View(r).state = "running"
      BY <3>1, <3>3, <3>4, ClaimedRow DEF View
    <3> QED BY <1>3, <1>8, <3>5
  <2>2. Fresh(r)
    BY <1>3, <1>8, <2>1 DEF View, Fresh, Pending
  <2>3. Claiming(r) = {}
    BY <2>1, ClaimingIs DEF ClaimInProgress, TxnInv
  <2>4. r \in txn[s].todo
    BY <1>0, <2>2, <2>3 DEF TxnInv, FreshSeen
  <2> QED BY <1>0, <2>4
<1>9. Atomic!IsHead(q, p)
  <2>1. Atomic!Pending(p)
    BY <1>0, <1>3, <1>4 DEF Atomic!Pending, Pending
  <2>2. ASSUME NEW r \in Probes, Atomic!Fresh(r)
        PROVE  Atomic!Key(q, p) <= Atomic!Key(q, r)
    BY <1>8, <2>2, SameOperators DEF Atomic!Fresh, Atomic!Pending
  <2> QED BY <2>1, <2>2 DEF Atomic!IsHead
<1> QED BY <1>0, <1>1, <1>7, <1>9, SameOperators DEF Atomic!ClaimProbe

\* Its commit only shows what was decided.
LEMMA ClaimCommitStep ==
    ASSUME TxnInv, TxnInv', NEW s \in Sessions, ClaimCommit(s), NEW t, Moves(s, t)
    PROVE  UNCHANGED <<ClaimedTable, results>>
<1>c. PICK c : c = txn[s].p
  OBVIOUS
<1>0. /\ txn[s].op = "claimed" /\ txn[s] \in Txns /\ txn \in [Sessions -> Txns]
      /\ UNCHANGED results /\ probe \in [Probes -> ProbeRow]
  BY DEF ClaimCommit, TxnInv, TxnTypeOK, TypeOK
<1>1. c \in Probes /\ HeldBy(txn[s]) = {c} /\ lock[c] = s
  BY <1>0, <1>c, TxnKinds DEF TxnInv, LocksHeld
<1>2. View(c) = Claimed(probe[c], txn[s].w, txn[s].q)
  BY <1>0, <1>1 DEF View, ClaimInProgress
<1>3. lock'[c] = None /\ probe'[c] = Claimed(probe[c], txn[s].w, txn[s].q)
  BY <1>0, <1>1, <1>c DEF ClaimCommit, Unlocks, Locks
<1>4. View(c)' = probe'[c]
  BY <1>3, SessionsAssumption DEF View, ClaimInProgress
<1>5. t = Idle
  BY <1>0 DEF ClaimCommit, Runs, Moves
<1>6. HeldBy(t) = {}
  BY <1>5 DEF Idle, HeldBy
<1>7. \A p \in Probes : View(p)' = View(p)
  BY <1>1, <1>2, <1>3, <1>4, <1>6, ViewElsewhere
<1> QED BY <1>0, <1>7, TableIs, TableNext DEF TxnInv

\* Any other call takes effect when it commits: what it writes, it writes to the
\* atomic queue, and it leaves the other rows as they are there.
LEMMA CommitView ==
    ASSUME TxnInv, TxnInv', NEW s \in Sessions, txn[s].op \in {"complete", "touch", "sweep"},
           NEW t, Moves(s, t), t = Idle
    PROVE  /\ ClaimedTable = [p \in Probes |-> ClaimedTable[p]]
           /\ ClaimedTable' = [p \in Probes |-> ClaimedTable'[p]]
           /\ \A p \in HeldBy(txn[s]) :
                 p \in Probes /\ ClaimedTable[p] = probe[p] /\ ClaimedTable'[p] = probe'[p]
           /\ \A p \in Probes \ HeldBy(txn[s]) : ClaimedTable'[p] = ClaimedTable[p]
<1>1. /\ ClaimedTable = [p \in Probes |-> View(p)]
      /\ ClaimedTable' = [p \in Probes |-> View(p)']
  BY TableIs, TableNext DEF TxnInv
<1>2. t.op = "none" /\ HeldBy(t) = {}
  BY DEF Idle, HeldBy
<1>3. HeldBy(txn[s]) \subseteq Probes
  BY TxnKinds DEF TxnInv, TxnTypeOK
<1>4. \A p \in HeldBy(txn[s]) : View(p) = probe[p] /\ View(p)' = probe'[p]
  BY <1>2, <1>3, ViewHeld
<1>5. \A p \in Probes \ HeldBy(txn[s]) : View(p)' = View(p)
  BY <1>2, ViewElsewhere
<1> QED BY <1>1, <1>3, <1>4, <1>5

LEMMA CompleteCommitStep ==
    ASSUME TxnInv, TxnInv', NEW s \in Sessions, CompleteCommit(s), NEW t, Moves(s, t)
    PROVE  Atomic!QueueNext
<1>0. /\ txn[s].op = "complete" /\ txn[s] \in Txns /\ txn \in [Sessions -> Txns]
      /\ CompleteProbe(txn[s].p, txn[s].w, txn[s].status)
      /\ probe \in [Probes -> ProbeRow]
  BY DEF CompleteCommit, TxnInv, TxnTypeOK, TypeOK
<1>1. PICK p, w, r : p = txn[s].p /\ w = txn[s].w /\ r = txn[s].status
  OBVIOUS
<1>2. p \in Probes /\ w \in Workers /\ r \in Reported /\ HeldBy(txn[s]) = {p}
  BY <1>0, <1>1, TxnKinds
<1>3. t = Idle
  BY <1>0 DEF CompleteCommit, Runs, Moves
<1>4. /\ ClaimedTable = [x \in Probes |-> ClaimedTable[x]]
      /\ ClaimedTable' = [x \in Probes |-> ClaimedTable'[x]]
      /\ ClaimedTable[p] = probe[p] /\ ClaimedTable'[p] = probe'[p]
      /\ \A x \in Probes \ {p} : ClaimedTable'[x] = ClaimedTable[x]
  BY <1>0, <1>2, <1>3, CommitView
<1>5. CompleteProbe(p, w, r)
  BY <1>0, <1>1
<1>6. probe'[p] = [Released(probe[p], StateAfter(r, probe[p].attempts))
                     EXCEPT !.finished = FinishedAs(StateAfter(r, probe[p].attempts))]
  BY <1>0, <1>2, <1>5 DEF CompleteProbe
<1>7. ClaimedTable' =
        [ClaimedTable EXCEPT
          ![p] = [Released(@, StateAfter(r, probe[p].attempts))
                    EXCEPT !.finished = FinishedAs(StateAfter(r, probe[p].attempts))]]
  BY <1>2, <1>4, <1>6
<1>8. Atomic!CompleteProbe(p, w, r)
  <2>1. Atomic!Holds(w, p)
    BY <1>4, <1>5 DEF CompleteProbe, Holds, Atomic!Holds
  <2>2. results' = [results EXCEPT ![p] = Atomic!Recorded(@, r)]
    BY <1>5, SameOperators DEF CompleteProbe
  <2> QED BY <1>4, <1>7, <2>1, <2>2, SameOperators DEF Atomic!CompleteProbe
<1> QED BY <1>2, <1>8 DEF Atomic!QueueNext

LEMMA TouchCommitStep ==
    ASSUME TxnInv, TxnInv', NEW s \in Sessions, TouchCommit(s), NEW t, Moves(s, t)
    PROVE  Atomic!QueueNext
<1>0. /\ txn[s].op = "touch" /\ txn[s] \in Txns /\ txn \in [Sessions -> Txns]
      /\ TouchProbes(txn[s].w, {txn[s].p})
  BY DEF TouchCommit, TxnInv, TxnTypeOK
<1>1. PICK p, w : p = txn[s].p /\ w = txn[s].w
  OBVIOUS
<1>2. p \in Probes /\ w \in Workers /\ HeldBy(txn[s]) = {p}
  BY <1>0, <1>1, TxnKinds
<1>3. t = Idle
  BY <1>0 DEF TouchCommit, Runs, Moves
<1>4. /\ ClaimedTable' = [x \in Probes |-> ClaimedTable'[x]]
      /\ ClaimedTable[p] = probe[p] /\ ClaimedTable'[p] = probe'[p]
      /\ \A x \in Probes \ {p} : ClaimedTable'[x] = ClaimedTable[x]
  BY <1>0, <1>2, <1>3, CommitView
<1>5. /\ probe'[p] = IF Holds(w, p) THEN [probe[p] EXCEPT !.age = 0] ELSE probe[p]
      /\ UNCHANGED results
  BY <1>0, <1>1, <1>2 DEF TouchProbes
<1>6. Atomic!TouchProbes(w, {p})
  BY <1>2, <1>4, <1>5 DEF Atomic!TouchProbes, Atomic!Holds, Holds
<1> QED BY <1>2, <1>6 DEF Atomic!QueueNext

LEMMA SweepCommitStep ==
    ASSUME TxnInv, TxnInv', NEW s \in Sessions, SweepCommit(s), NEW t, Moves(s, t)
    PROVE  Atomic!QueueNext
<1>0. /\ txn[s].op = "sweep" /\ txn[s] \in Txns /\ txn \in [Sessions -> Txns]
      /\ Ready(txn[s])
  BY DEF SweepCommit, TxnInv, TxnTypeOK, RowsReady
<1>1. PICK out, swept : out = txn[s].timeout /\ swept = txn[s].got
  OBVIOUS
<1>2. /\ out \in {0, LeaseTimeout} /\ swept \in SUBSET Probes /\ HeldBy(txn[s]) = swept
      /\ \A p \in swept : Stale(p, out)
  BY <1>0, <1>1, TxnKinds DEF Ready
<1>3. t = Idle
  BY <1>0 DEF SweepCommit, Runs, Moves
<1>4. /\ ClaimedTable' = [x \in Probes |-> ClaimedTable'[x]]
      /\ \A p \in swept : ClaimedTable[p] = probe[p] /\ ClaimedTable'[p] = probe'[p]
      /\ \A x \in Probes \ swept : ClaimedTable'[x] = ClaimedTable[x]
  BY <1>0, <1>2, <1>3, CommitView
<1>5. /\ \A p \in swept : probe'[p] = Released(probe[p], StateReclaimed(probe[p].attempts))
      /\ UNCHANGED results
  BY <1>1, <1>2 DEF SweepCommit
<1>6. Atomic!SweepStale(out, swept)
  <2>1. \A p \in swept : Atomic!Stale(p, out)
    BY <1>2, <1>4 DEF Atomic!Stale, Stale
  <2>2. \A p \in swept : ClaimedTable'[p] =
            Atomic!Released(ClaimedTable[p], Atomic!StateReclaimed(ClaimedTable[p].attempts))
    BY <1>4, <1>5, SameOperators
  <2> QED BY <1>4, <1>5, <2>1, <2>2 DEF Atomic!SweepStale
<1> QED BY <1>2, <1>6 DEF Atomic!QueueNext

LEMMA TickStep ==
    ASSUME TxnInv, TxnInv', TxnTick
    PROVE  Atomic!QueueNext
<1>1. /\ \A s \in Sessions : txn[s] = Idle
      /\ probe' = [p \in Probes |-> Older(probe[p])]
      /\ UNCHANGED <<results, lock, txn>>
  BY DEF TxnTick, Tick
<1>2. \A p \in Probes : View(p) = probe[p] /\ View(p)' = probe'[p]
  BY <1>1 DEF View, ClaimInProgress, Idle
<1>3. /\ ClaimedTable = [p \in Probes |-> View(p)]
      /\ ClaimedTable' = [p \in Probes |-> View(p)']
  BY TableIs, TableNext DEF TxnInv
<1>4. ClaimedTable' = [p \in Probes |-> Atomic!Older(ClaimedTable[p])]
  BY <1>1, <1>2, <1>3, SameOperators
<1> QED BY <1>1, <1>4 DEF Atomic!Tick, Atomic!QueueNext

-----------------------------------------------------------------------------
\* A session that is in no claim's hold of a row, and enters none, commits
\* nothing unless it commits another call.
LEMMA SessionAtomic ==
    ASSUME TxnInv, TxnInv', NEW s \in Sessions, SessionStep(s), crashes = 0
    PROVE  [Atomic!QueueNext]_<<ClaimedTable, results>>
<1>0. PICK t : Moves(s, t)
  BY SessionMoves
<1>t. txn'[s] = t /\ txn \in [Sessions -> Txns] /\ txn[s] \in Txns
  BY <1>0 DEF Moves, TxnInv, TxnTypeOK
<1>i. Idle.op = "none"
  BY DEF Idle
<1>1. ASSUME NEW p \in Probes, ClaimLock(s, p)
      PROVE  Atomic!QueueNext
  BY <1>1, ClaimLockStep, SameOperators DEF Atomic!QueueNext
<1>2. CASE ClaimCommit(s)
  BY <1>0, <1>2, ClaimCommitStep
<1>3. CASE CompleteCommit(s)
  BY <1>0, <1>3, CompleteCommitStep
<1>4. CASE TouchCommit(s)
  BY <1>0, <1>4, TouchCommitStep
<1>5. CASE SweepCommit(s)
  BY <1>0, <1>5, SweepCommitStep
<1>q. ASSUME txn[s].op # "claimed", txn'[s].op # "claimed", UNCHANGED <<probe, results>>
      PROVE  UNCHANGED <<ClaimedTable, results>>
  BY <1>0, <1>t, <1>q, QuietStep
<1>6. ASSUME NEW w \in Workers, NEW q \in Queues, ClaimBegin(s, w, q)
      PROVE  UNCHANGED <<ClaimedTable, results>>
  <2>1. txn'[s].op = "claim"
    BY <1>t, <1>6 DEF ClaimBegin, Runs
  <2> QED BY <1>i, <1>q, <1>6, <2>1 DEF ClaimBegin
<1>7. ASSUME NEW p \in Probes, ClaimSkip(s, p)
      PROVE  UNCHANGED <<ClaimedTable, results>>
  <2>1. txn[s].op = "claim"
    BY <1>7 DEF ClaimSkip, NextInLine
  <2>2. txn'[s] = [txn[s] EXCEPT !.todo = @ \ {p}]
    BY <1>t, <1>7 DEF ClaimSkip, Runs
  <2>3. txn'[s].op = "claim"
    BY <1>t, <2>1, <2>2, TxnShapes
  <2> QED BY <1>q, <1>7, <2>1, <2>3 DEF ClaimSkip
<1>8. CASE ClaimNone(s)
  BY <1>t, <1>i, <1>q, <1>8 DEF ClaimNone, Runs
<1>9. ASSUME NEW w \in Workers, NEW p \in Probes, NEW r \in Reported,
             CompleteLock(s, p, w, r)
      PROVE  UNCHANGED <<ClaimedTable, results>>
  <2>1. txn'[s].op = "complete"
    BY <1>t, <1>9 DEF CompleteLock, Runs
  <2> QED BY <1>i, <1>q, <1>9, <2>1 DEF CompleteLock
<1>10. CASE CompleteRaise(s)
  BY <1>t, <1>i, <1>q, <1>10 DEF CompleteRaise, Runs
<1>11. ASSUME NEW w \in Workers, NEW p \in Probes, TouchLock(s, w, p)
       PROVE  UNCHANGED <<ClaimedTable, results>>
  <2>1. txn'[s].op = "touch"
    BY <1>t, <1>11 DEF TouchLock, Runs
  <2> QED BY <1>i, <1>q, <1>11, <2>1 DEF TouchLock
<1>12. ASSUME NEW o \in {0, LeaseTimeout}, SweepBegin(s, o)
       PROVE  UNCHANGED <<ClaimedTable, results>>
  <2>1. txn'[s].op = "sweep"
    BY <1>t, <1>12 DEF SweepBegin, Runs
  <2> QED BY <1>i, <1>q, <1>12, <2>1 DEF SweepBegin
<1>13. ASSUME NEW p \in Probes, SweepScan(s, p)
       PROVE  UNCHANGED <<ClaimedTable, results>>
  <2>1. txn[s].op = "sweep"
    BY <1>13 DEF SweepScan
  <2>2. \/ txn'[s] = [txn[s] EXCEPT !.todo = @ \ {p}, !.got = @ \cup {p}]
        \/ txn'[s] = [txn[s] EXCEPT !.todo = @ \ {p}]
    BY <1>t, <1>13 DEF SweepScan, Runs
  <2>3. txn'[s].op = "sweep"
    BY <1>t, <2>1, <2>2, TxnShapes
  <2> QED BY <1>q, <1>13, <2>1, <2>3 DEF SweepScan
<1> QED BY <1>1, <1>2, <1>3, <1>4, <1>5, <1>6, <1>7, <1>8, <1>9, <1>10, <1>11, <1>12, <1>13
        DEF SessionStep

LEMMA AtomicInit == TxnInit => Atomic!QueueInit
<1> SUFFICES ASSUME TxnInit PROVE Atomic!QueueInit
  OBVIOUS
<1>1. ClaimedTable = [p \in Probes |-> View(p)]
  BY TxnInvInit, TableIs DEF TxnInv
<1>2. \A p \in Probes : View(p) = NewRow
  BY SessionsAssumption DEF TxnInit, QueueInit, View, ClaimInProgress
<1> QED BY <1>1, <1>2, SameOperators DEF Atomic!QueueInit, TxnInit, QueueInit

LEMMA AtomicStep ==
    TxnInv /\ TxnInv' /\ [TxnNext]_txnVars =>
        (crashes' = 0 => [Atomic!QueueNext]_<<ClaimedTable, results>>)
<1> SUFFICES ASSUME TxnInv, TxnInv', [TxnNext]_txnVars, crashes' = 0
             PROVE  [Atomic!QueueNext]_<<ClaimedTable, results>>
  OBVIOUS
<1>1. CASE (\E s \in Sessions : SessionStep(s)) /\ UNCHANGED crashes
  BY <1>1, SessionAtomic
<1>2. CASE TxnTick /\ UNCHANGED crashes
  BY <1>2, TickStep
<1>3. CASE ServerCrash
  BY <1>3 DEF ServerCrash, TxnInv, TxnTypeOK
<1>4. CASE UNCHANGED txnVars
  <2>1. UNCHANGED <<probe, results, lock, txn>>
    BY <1>4 DEF txnVars
  <2>2. \A p \in Probes : View(p)' = View(p)
    BY <2>1 DEF View, ClaimInProgress
  <2> QED BY <2>1, <2>2, TableIs, TableNext DEF TxnInv
<1> QED BY <1>1, <1>2, <1>3, <1>4 DEF TxnNext

\* As long as the server does not crash, the interleaved transactions are the
\* atomic queue's calls: a claim where it locks its row, any other call where it
\* commits.  SKIP LOCKED passes over no crate that was never claimed.
THEOREM AtomicCorrect == TxnSpec => IsAtomic
<1>1. TxnInit => Atomic!QueueInit
  BY AtomicInit
<1>2. TxnInv /\ TxnInv' /\ [TxnNext]_txnVars =>
          [crashes' = 0 => [Atomic!QueueNext]_<<ClaimedTable, results>>]_txnVars
  BY AtomicStep
<1> QED BY <1>1, <1>2, TxnInvariance, PTL DEF TxnSpec, IsAtomic
=============================================================================
