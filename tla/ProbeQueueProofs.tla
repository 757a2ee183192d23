--------------------------- MODULE ProbeQueueProofs ---------------------------
(***************************************************************************)
(* The queue's invariants hold in every behaviour of QueueSpec, for every  *)
(* set of crates and workers and every bound.                              *)
(*                                                                         *)
(* All of them but ClaimOrder speak of one row, so the proof first reduces *)
(* a step of the queue to what it does to each row (RowStep): the row is   *)
(* claimed, completed, reclaimed, or at most its lease's age changes.      *)
(* They hold whichever pending row a claim takes; only ClaimOrder needs    *)
(* that it takes the head of its queue.                                    *)
(***************************************************************************)
EXTENDS ProbeQueue, SequenceTheorems, TLAPS

\* The inductive invariant: what is true of each row, and the order of the claims.
RowsInv ==
    /\ TypeOK
    /\ CurrentIsLatest
    /\ AttemptsAccounted
    /\ DoneIffJudged
    /\ RetryBudget
    /\ FinishedRows

IInv == RowsInv /\ ClaimOrder

-----------------------------------------------------------------------------
(***************************************************************************)
(* What a step does to one row.                                            *)
(***************************************************************************)

RowAges(p) ==
    /\ results'[p] = results[p]
    /\ \E a \in 0..LeaseTimeout : probe'[p] = [probe[p] EXCEPT !.age = a]
    /\ probe[p].state # "running" => probe'[p] = probe[p]

RowClaimed(p) ==
    /\ probe[p].state = "pending"
    /\ results'[p] = results[p]
    /\ \E w \in Workers, q \in Queues : probe'[p] = Claimed(probe[p], w, q)

Reporting(p, st) == [Released(probe[p], st) EXCEPT !.finished = FinishedAs(st)]

RowCompleted(p) ==
    /\ probe[p].state = "running"
    /\ \E s \in Statuses :
          /\ results'[p] = Recorded(results[p], s)
          /\ probe'[p] = Reporting(p, StateAfter(s, probe[p].attempts))

RowReclaimed(p) ==
    /\ probe[p].state = "running"
    /\ results'[p] = results[p]
    /\ probe'[p] = Released(probe[p], StateReclaimed(probe[p].attempts))

RowStep(p) == RowAges(p) \/ RowClaimed(p) \/ RowCompleted(p) \/ RowReclaimed(p)

\* A step of the tables, row by row.
TablesStep ==
    /\ probe' = [p \in Probes |-> probe'[p]]
    /\ results' = [p \in Probes |-> results'[p]]
    /\ \A p \in Probes : RowStep(p)

\* Every row is a record of its type.
LEMMA RowType ==
    ASSUME TypeOK, NEW p \in Probes
    PROVE  /\ probe[p] \in ProbeRow
           /\ results[p] \in Seq(ResultRow)
           /\ probe[p].attempts \in Nat
           /\ probe[p].age \in 0..LeaseTimeout
BY DEF TypeOK, ProbeRow

\* A row whose age is set to what it is is the same row.
LEMMA SameAge ==
    ASSUME NEW row \in ProbeRow
    PROVE  row = [row EXCEPT !.age = row.age]
BY DEF ProbeRow

LEMMA RowSteps ==
    ASSUME TypeOK, [QueueNext]_queueVars, NEW p \in Probes
    PROVE  RowStep(p)
<1> USE QueueAssumption
<1>0. probe[p] \in ProbeRow /\ probe[p].age \in 0..LeaseTimeout
  BY RowType
<1>s. ASSUME probe'[p] = probe[p], results'[p] = results[p]
      PROVE  RowAges(p)
  BY <1>0, <1>s, SameAge DEF RowAges
<1>1. CASE \E w \in Workers, q \in Queues, r \in Probes : ClaimProbe(w, q, r)
  <2>1. PICK w \in Workers, q \in Queues, r \in Probes : ClaimProbe(w, q, r)
    BY <1>1
  <2>2. CASE p = r
    BY <2>1, <2>2 DEF ClaimProbe, IsHead, Pending, RowStep, RowClaimed, TypeOK
  <2>3. CASE p # r
    BY <2>1, <2>3, <1>s DEF ClaimProbe, RowStep, TypeOK
  <2> QED BY <2>2, <2>3
<1>2. CASE \E w \in Workers, ids \in SUBSET Probes : TouchProbes(w, ids)
  <2>1. PICK w \in Workers, ids \in SUBSET Probes : TouchProbes(w, ids)
    BY <1>2
  <2>2. CASE p \in ids /\ Holds(w, p)
    BY <2>1, <2>2 DEF TouchProbes, Holds, RowStep, RowAges
  <2>3. CASE ~(p \in ids /\ Holds(w, p))
    BY <2>1, <2>3, <1>s DEF TouchProbes, RowStep
  <2> QED BY <2>2, <2>3
<1>3. CASE \E w \in Workers, r \in Probes, s \in Reported : CompleteProbe(r, w, s)
  <2>1. PICK w \in Workers, r \in Probes, s \in Reported : CompleteProbe(r, w, s)
    BY <1>3
  <2>2. CASE p = r
    BY <2>1, <2>2 DEF CompleteProbe, Holds, RowStep, RowCompleted, Reporting, TypeOK
  <2>3. CASE p # r
    BY <2>1, <2>3, <1>s DEF CompleteProbe, RowStep, TypeOK
  <2> QED BY <2>2, <2>3
<1>4. CASE \E t \in {0, LeaseTimeout}, swept \in SUBSET Probes : SweepStale(t, swept)
  <2>1. PICK t \in {0, LeaseTimeout}, swept \in SUBSET Probes : SweepStale(t, swept)
    BY <1>4
  <2>2. CASE p \in swept
    BY <2>1, <2>2 DEF SweepStale, Stale, RowStep, RowReclaimed
  <2>3. CASE p \notin swept
    BY <2>1, <2>3, <1>s DEF SweepStale, RowStep
  <2> QED BY <2>2, <2>3
<1>5. CASE Tick
  <2>1. CASE probe[p].state = "running" /\ probe[p].age < LeaseTimeout
    <3>1. probe[p].age + 1 \in 0..LeaseTimeout
      BY <1>0, <2>1
    <3>2. /\ probe'[p] = [probe[p] EXCEPT !.age = probe[p].age + 1]
          /\ results'[p] = results[p]
      BY <1>5, <2>1 DEF Tick, Older
    <3> QED BY <3>1, <3>2, <2>1 DEF RowStep, RowAges
  <2>2. CASE ~(probe[p].state = "running" /\ probe[p].age < LeaseTimeout)
    BY <1>5, <2>2, <1>s DEF Tick, Older, RowStep
  <2> QED BY <2>1, <2>2
<1>6. CASE UNCHANGED queueVars
  BY <1>6, <1>s DEF queueVars, RowStep
<1> QED BY <1>1, <1>2, <1>3, <1>4, <1>5, <1>6 DEF QueueNext

-----------------------------------------------------------------------------
(***************************************************************************)
(* What the operators return.                                              *)
(***************************************************************************)

\* Retiring a crate's results keeps them all, with what they say.
LEMMA RetireKeeps ==
    ASSUME NEW rows \in Seq(ResultRow)
    PROVE  /\ Retire(rows) \in Seq(ResultRow)
           /\ Len(Retire(rows)) = Len(rows)
           /\ \A i \in 1..Len(rows) :
                 /\ Retire(rows)[i].status = rows[i].status
                 /\ Retire(rows)[i].current = FALSE
<1>1. \A i \in 1..Len(rows) : rows[i] \in ResultRow
  BY ElementOfSeq
<1>2. \A i \in 1..Len(rows) : [rows[i] EXCEPT !.current = FALSE] \in ResultRow
  BY <1>1 DEF ResultRow
<1>3. Len(rows) \in Nat
  BY LenProperties
<1>4. Retire(rows) \in [1..Len(rows) -> ResultRow]
  BY <1>2 DEF Retire
<1>5. Retire(rows) \in Seq(ResultRow)
  BY <1>3, <1>4, SeqDef
<1>6. Len(Retire(rows)) = Len(rows)
  BY <1>3, <1>4, <1>5, LenProperties
<1>7. ASSUME NEW i \in 1..Len(rows)
      PROVE  /\ Retire(rows)[i].status = rows[i].status
             /\ Retire(rows)[i].current = FALSE
  BY <1>1 DEF Retire, ResultRow
<1> QED BY <1>5, <1>6, <1>7

\* A new result follows the retired ones and is the only current one.
LEMMA ReportAppends ==
    ASSUME NEW rows \in Seq(ResultRow), NEW s \in Statuses
    PROVE  /\ Recorded(rows, s) \in Seq(ResultRow)
           /\ Len(rows) \in Nat
           /\ Len(Recorded(rows, s)) = Len(rows) + 1
           /\ \A i \in 1..Len(rows) :
                 /\ Recorded(rows, s)[i].status = rows[i].status
                 /\ Recorded(rows, s)[i].current = FALSE
           /\ Recorded(rows, s)[Len(rows) + 1].status = s
           /\ Recorded(rows, s)[Len(rows) + 1].current = TRUE
<1>1. [status |-> s, current |-> TRUE] \in ResultRow
  BY DEF ResultRow
<1>2. /\ Retire(rows) \in Seq(ResultRow)
      /\ Len(Retire(rows)) = Len(rows)
      /\ Len(rows) \in Nat
  BY RetireKeeps, LenProperties
<1>3. /\ Recorded(rows, s) \in Seq(ResultRow)
      /\ Len(Recorded(rows, s)) = Len(rows) + 1
      /\ \A i \in 1..Len(rows) : Recorded(rows, s)[i] = Retire(rows)[i]
      /\ Recorded(rows, s)[Len(rows) + 1] = [status |-> s, current |-> TRUE]
  BY <1>1, <1>2 DEF Recorded
<1>4. ASSUME NEW i \in 1..Len(rows)
      PROVE  /\ Recorded(rows, s)[i].status = rows[i].status
             /\ Recorded(rows, s)[i].current = FALSE
  <2>1. Recorded(rows, s)[i] = Retire(rows)[i]
    BY <1>3
  <2> QED BY <2>1, RetireKeeps
<1>5. /\ Recorded(rows, s)[Len(rows) + 1].status = s
      /\ Recorded(rows, s)[Len(rows) + 1].current = TRUE
  BY <1>3
<1> QED BY <1>2, <1>3, <1>4, <1>5

\* A result sends the row on as the two bounds of the schema say.
LEMMA ReportStates ==
    ASSUME NEW s \in Statuses, NEW n \in Nat
    PROVE  /\ StateAfter(s, n) \in {"pending", "done", "exhausted"}
           /\ StateAfter(s, n) = "done" <=> s # "harness_error"
           /\ StateAfter(s, n) = "pending" => n < MaxAttempts
           /\ StateAfter(s, n) = "exhausted" => n >= MaxAttempts
BY QueueAssumption DEF StateAfter, Statuses

\* The fields of a claimed row.
LEMMA ClaimedRow ==
    ASSUME NEW row \in ProbeRow, NEW w \in Workers, NEW q \in Queues
    PROVE  LET new == Claimed(row, w, q)
           IN  /\ new \in ProbeRow
               /\ new.state = "running" /\ new.by = w /\ new.via = q
               /\ new.attempts = row.attempts + 1
               /\ new.finished = row.finished
<1>1. 0 \in 0..LeaseTimeout /\ "running" \in States
  BY QueueAssumption DEF States
<1>2. row.attempts \in Nat
  BY DEF ProbeRow
<1>3. row.attempts + 1 \in Nat
  BY <1>2
<1> QED BY <1>1, <1>3 DEF Claimed, ProbeRow

\* The fields of a released row.
LEMMA ReleasedRow ==
    ASSUME NEW row \in ProbeRow, NEW st \in States
    PROVE  LET new == Released(row, st)
           IN  /\ new \in ProbeRow
               /\ new.state = st /\ new.by = None /\ new.via = row.via
               /\ new.attempts = row.attempts
               /\ new.finished = row.finished
<1>1. 0 \in 0..LeaseTimeout
  BY QueueAssumption
<1> QED BY <1>1 DEF Released, ProbeRow

\* The fields of a row that reported.
LEMMA ReportingRow ==
    ASSUME NEW p \in Probes, NEW st \in States, probe[p] \in ProbeRow
    PROVE  LET new == Reporting(p, st)
           IN  /\ new \in ProbeRow
               /\ new.state = st /\ new.by = None /\ new.via = probe[p].via
               /\ new.attempts = probe[p].attempts
               /\ new.finished = (st \in {"done", "exhausted"})
<1>1. Released(probe[p], st) \in ProbeRow
  BY ReleasedRow
<1>2. (st \in {"done", "exhausted"}) \in BOOLEAN
  OBVIOUS
<1> QED BY <1>1, <1>2, ReleasedRow DEF Reporting, FinishedAs, ProbeRow

\* The fields of a row whose lease's age changed.
LEMMA AgedRow ==
    ASSUME NEW row \in ProbeRow, NEW a \in 0..LeaseTimeout
    PROVE  LET new == [row EXCEPT !.age = a]
           IN  /\ new \in ProbeRow
               /\ new.state = row.state /\ new.by = row.by /\ new.via = row.via
               /\ new.attempts = row.attempts
               /\ new.finished = row.finished
BY DEF ProbeRow

-----------------------------------------------------------------------------
(***************************************************************************)
(* The type invariant.                                                     *)
(***************************************************************************)

RowOK(row) == row \in ProbeRow /\ ((row.state = "running") <=> (row.by # None))

LEMMA RowTypeStep ==
    ASSUME TypeOK, NEW p \in Probes, RowStep(p)
    PROVE  RowOK(probe'[p]) /\ results'[p] \in Seq(ResultRow)
<1> USE QueueAssumption
<1>0. /\ RowOK(probe[p])
      /\ results[p] \in Seq(ResultRow)
      /\ probe[p].attempts \in Nat
  BY RowType DEF RowOK, TypeOK
<1>1. CASE RowAges(p)
  BY <1>0, <1>1, AgedRow DEF RowAges, RowOK
<1>2. CASE RowClaimed(p)
  BY <1>0, <1>2, ClaimedRow DEF RowClaimed, RowOK
<1>3. CASE RowCompleted(p)
  <2>1. PICK s \in Statuses :
          /\ results'[p] = Recorded(results[p], s)
          /\ probe'[p] = Reporting(p, StateAfter(s, probe[p].attempts))
    BY <1>3 DEF RowCompleted
  <2>2. results'[p] \in Seq(ResultRow)
    <3>1. Recorded(results[p], s) \in Seq(ResultRow)
      BY <1>0, ReportAppends
    <3> QED BY <2>1, <3>1
  <2>3. StateAfter(s, probe[p].attempts) \in {"pending", "done", "exhausted"}
    BY <1>0, ReportStates
  <2>4. RowOK(probe'[p])
    BY <1>0, <2>1, <2>3, ReportingRow DEF RowOK, States
  <2> QED BY <2>2, <2>4
<1>4. CASE RowReclaimed(p)
  <2>1. StateReclaimed(probe[p].attempts) \in {"pending", "exhausted"}
    BY DEF StateReclaimed
  <2> QED BY <1>0, <1>4, <2>1, ReleasedRow DEF RowReclaimed, RowOK, States
<1> QED BY <1>1, <1>2, <1>3, <1>4 DEF RowStep

\* A step of the queue is one of the tables.
LEMMA QueueTables ==
    ASSUME TypeOK, [QueueNext]_queueVars
    PROVE  TablesStep
<1>1. /\ probe' = [p \in Probes |-> probe'[p]]
      /\ results' = [p \in Probes |-> results'[p]]
  BY DEF TypeOK, QueueNext, queueVars, ClaimProbe, TouchProbes, CompleteProbe,
         SweepStale, Tick
<1> QED BY <1>1, RowSteps DEF TablesStep

LEMMA TablesType ==
    ASSUME TypeOK, TablesStep
    PROVE  TypeOK'
<1>1. \A p \in Probes : RowOK(probe'[p]) /\ results'[p] \in Seq(ResultRow)
  BY RowTypeStep DEF TablesStep
<1>2. probe' \in [Probes -> ProbeRow]
  BY <1>1 DEF RowOK, TablesStep
<1>3. results' \in [Probes -> Seq(ResultRow)]
  BY <1>1 DEF TablesStep
<1> QED BY <1>1, <1>2, <1>3 DEF TypeOK, RowOK

LEMMA TypeStep ==
    ASSUME TypeOK, [QueueNext]_queueVars
    PROVE  TypeOK'
BY QueueTables, TablesType

LEMMA TypeInit == QueueInit => TypeOK
BY QueueAssumption, EmptySeq DEF QueueInit, TypeOK, NewRow, ProbeRow, States

\* Every row of both tables keeps its type and its CHECKs, whatever the clients do.
THEOREM TypeCorrect == QueueSpec => []TypeOK
<1>1. TypeOK /\ [QueueNext]_queueVars => TypeOK'
  BY TypeStep
<1> QED BY <1>1, TypeInit, PTL DEF QueueSpec

-----------------------------------------------------------------------------
(***************************************************************************)
(* The inductive invariant.  A step's effect on one row, field by field.   *)
(***************************************************************************)

Keeps(p) ==
    /\ results'[p] = results[p]
    /\ probe'[p].state = probe[p].state
    /\ probe'[p].via = probe[p].via
    /\ probe'[p].attempts = probe[p].attempts
    /\ probe'[p].finished = probe[p].finished

Claims(p) ==
    /\ probe[p].state = "pending"
    /\ results'[p] = results[p]
    /\ probe'[p].state = "running"
    /\ probe'[p].via \in Queues
    /\ probe'[p].attempts = probe[p].attempts + 1
    /\ probe'[p].finished = probe[p].finished

Reports(p, s) ==
    /\ probe[p].state = "running"
    /\ results'[p] = Recorded(results[p], s)
    /\ probe'[p].state = StateAfter(s, probe[p].attempts)
    /\ probe'[p].via = probe[p].via
    /\ probe'[p].attempts = probe[p].attempts
    /\ probe'[p].finished = (probe'[p].state \in {"done", "exhausted"})

Reclaims(p) ==
    /\ probe[p].state = "running"
    /\ results'[p] = results[p]
    /\ probe'[p].state = StateReclaimed(probe[p].attempts)
    /\ probe'[p].via = probe[p].via
    /\ probe'[p].attempts = probe[p].attempts
    /\ probe'[p].finished = probe[p].finished

Effect(p) == Keeps(p) \/ Claims(p) \/ (\E s \in Statuses : Reports(p, s)) \/ Reclaims(p)

LEMMA Effects ==
    ASSUME TypeOK, TablesStep, NEW p \in Probes
    PROVE  Effect(p)
<1>0. probe[p] \in ProbeRow /\ probe[p].attempts \in Nat
  BY RowType
<1>1. CASE RowAges(p)
  BY <1>0, <1>1, AgedRow DEF RowAges, Effect, Keeps
<1>2. CASE RowClaimed(p)
  BY <1>0, <1>2, ClaimedRow DEF RowClaimed, Effect, Claims
<1>3. CASE RowCompleted(p)
  <2>1. PICK s \in Statuses :
          /\ results'[p] = Recorded(results[p], s)
          /\ probe'[p] = Reporting(p, StateAfter(s, probe[p].attempts))
    BY <1>3 DEF RowCompleted
  <2>2. StateAfter(s, probe[p].attempts) \in States
    BY <1>0, ReportStates DEF States
  <2>3. Reports(p, s)
    BY <1>0, <1>3, <2>1, <2>2, ReportingRow DEF RowCompleted, Reports
  <2> QED BY <2>3 DEF Effect
<1>4. CASE RowReclaimed(p)
  <2>1. StateReclaimed(probe[p].attempts) \in States
    BY DEF StateReclaimed, States
  <2> QED BY <1>0, <1>4, <2>1, ReleasedRow DEF RowReclaimed, Effect, Reclaims
<1> QED BY <1>1, <1>2, <1>3, <1>4 DEF TablesStep, RowStep

\* What a report leaves in the history.
LEMMA ReportHistory ==
    ASSUME TypeOK, NEW p \in Probes, NEW s \in Statuses, Reports(p, s)
    PROVE  /\ Len(results[p]) \in Nat
           /\ Len(results'[p]) = Len(results[p]) + 1
           /\ DOMAIN results'[p] = 1..Len(results'[p])
           /\ \A i \in 1..Len(results[p]) :
                 /\ results'[p][i].status = results[p][i].status
                 /\ results'[p][i].current = FALSE
           /\ results'[p][Len(results'[p])].status = s
           /\ results'[p][Len(results'[p])].current = TRUE
<1>1. results[p] \in Seq(ResultRow) /\ results'[p] = Recorded(results[p], s)
  BY RowType DEF Reports
<1>2. /\ Recorded(results[p], s) \in Seq(ResultRow)
      /\ Len(results[p]) \in Nat
      /\ Len(Recorded(results[p], s)) = Len(results[p]) + 1
      /\ \A i \in 1..Len(results[p]) :
            /\ Recorded(results[p], s)[i].status = results[p][i].status
            /\ Recorded(results[p], s)[i].current = FALSE
      /\ Recorded(results[p], s)[Len(results[p]) + 1].status = s
      /\ Recorded(results[p], s)[Len(results[p]) + 1].current = TRUE
  BY <1>1, ReportAppends, Zenon
<1>3. DOMAIN results'[p] = 1..Len(results'[p])
  BY <1>1, <1>2, LenProperties
<1> QED BY <1>1, <1>2, <1>3

LEMMA CurrentStep ==
    ASSUME RowsInv, TablesStep
    PROVE  CurrentIsLatest'
<1> SUFFICES ASSUME NEW p \in Probes, NEW i \in DOMAIN results'[p]
             PROVE  results'[p][i].current <=> i = Len(results'[p])
  BY DEF CurrentIsLatest
<1>1. CASE results'[p] = results[p]
  BY <1>1 DEF RowsInv, CurrentIsLatest
<1>2. ASSUME NEW s \in Statuses, Reports(p, s)
      PROVE  results'[p][i].current <=> i = Len(results'[p])
  <2>0. /\ Len(results[p]) \in Nat
        /\ Len(results'[p]) = Len(results[p]) + 1
        /\ i \in 1..Len(results'[p])
    BY <1>2, ReportHistory DEF RowsInv
  <2>1. i \in 1..Len(results[p]) \/ i = Len(results'[p])
    BY <2>0
  <2>2. i \in 1..Len(results[p]) => i # Len(results'[p])
    BY <2>0
  <2> QED BY <1>2, <2>1, <2>2, ReportHistory DEF RowsInv
<1> QED BY <1>1, <1>2, Effects DEF RowsInv, Effect, Keeps, Claims, Reclaims

LEMMA AttemptsStep ==
    ASSUME RowsInv, TablesStep
    PROVE  AttemptsAccounted'
<1> USE QueueAssumption
<1> SUFFICES ASSUME NEW p \in Probes
             PROVE  /\ Len(results'[p]) + (IF probe'[p].state = "running" THEN 1 ELSE 0)
                         <= probe'[p].attempts
                    /\ probe'[p].attempts <= MaxAttempts
  BY DEF AttemptsAccounted
<1>0. /\ probe[p].attempts \in Nat
      /\ Len(results[p]) \in Nat
      /\ Len(results[p]) + (IF probe[p].state = "running" THEN 1 ELSE 0)
            <= probe[p].attempts
      /\ probe[p].attempts <= MaxAttempts
      /\ probe[p].state = "pending" => probe[p].attempts < MaxAttempts
  BY RowType, LenProperties DEF RowsInv, AttemptsAccounted, RetryBudget
<1>1. CASE Keeps(p)
  BY <1>0, <1>1 DEF Keeps
<1>2. CASE Claims(p)
  BY <1>0, <1>2 DEF Claims
<1>3. CASE \E s \in Statuses : Reports(p, s)
  <2>1. PICK s \in Statuses : Reports(p, s)
    BY <1>3
  <2>2. Len(results'[p]) = Len(results[p]) + 1
    BY <2>1, ReportHistory DEF RowsInv
  <2>3. probe'[p].state # "running"
    BY <1>0, <2>1, ReportStates DEF Reports
  <2> QED BY <1>0, <2>1, <2>2, <2>3 DEF Reports
<1>4. CASE Reclaims(p)
  BY <1>0, <1>4 DEF Reclaims, StateReclaimed
<1> QED BY <1>1, <1>2, <1>3, <1>4, Effects DEF RowsInv, Effect

LEMMA DoneStep ==
    ASSUME RowsInv, TablesStep
    PROVE  DoneIffJudged'
<1> SUFFICES ASSUME NEW p \in Probes
             PROVE  (probe'[p].state = "done") <=> Judged(p)'
  BY DEF DoneIffJudged
<1>0. /\ probe[p].attempts \in Nat
      /\ (probe[p].state = "done") <=> Judged(p)
  BY RowType DEF RowsInv, DoneIffJudged
<1>1. CASE Keeps(p)
  BY <1>0, <1>1 DEF Keeps, Judged, Latest
<1>2. CASE Claims(p)
  BY <1>0, <1>2 DEF Claims, Judged, Latest
<1>3. CASE \E s \in Statuses : Reports(p, s)
  <2>1. PICK s \in Statuses : Reports(p, s)
    BY <1>3
  <2>2. /\ Len(results[p]) \in Nat
        /\ Len(results'[p]) = Len(results[p]) + 1
        /\ results'[p][Len(results'[p])].status = s
    BY <2>1, ReportHistory DEF RowsInv
  <2>3. results'[p] # <<>>
    BY <2>2, EmptySeq
  <2>4. Judged(p)' <=> s # "harness_error"
    BY <2>2, <2>3 DEF Judged, Latest
  <2> QED BY <1>0, <2>1, <2>4, ReportStates DEF Reports
<1>4. CASE Reclaims(p)
  BY <1>0, <1>4 DEF Reclaims, StateReclaimed, Judged, Latest
<1> QED BY <1>1, <1>2, <1>3, <1>4, Effects DEF RowsInv, Effect

LEMMA BudgetStep ==
    ASSUME RowsInv, TablesStep
    PROVE  RetryBudget'
<1> USE QueueAssumption
<1> SUFFICES ASSUME NEW p \in Probes
             PROVE  /\ probe'[p].state = "pending" => probe'[p].attempts < MaxAttempts
                    /\ probe'[p].state = "exhausted" => probe'[p].attempts = MaxAttempts
  BY DEF RetryBudget
<1>0. /\ probe[p].attempts \in Nat
      /\ probe[p].attempts <= MaxAttempts
      /\ probe[p].state = "pending" => probe[p].attempts < MaxAttempts
      /\ probe[p].state = "exhausted" => probe[p].attempts = MaxAttempts
  BY RowType DEF RowsInv, AttemptsAccounted, RetryBudget
<1>1. CASE Keeps(p)
  BY <1>0, <1>1 DEF Keeps
<1>2. CASE Claims(p)
  BY <1>0, <1>2 DEF Claims
<1>3. CASE \E s \in Statuses : Reports(p, s)
  <2>1. PICK s \in Statuses : Reports(p, s)
    BY <1>3
  <2>2. /\ probe'[p].state = "pending" => probe[p].attempts < MaxAttempts
        /\ probe'[p].state = "exhausted" => probe[p].attempts >= MaxAttempts
    BY <1>0, <2>1, ReportStates DEF Reports
  <2> QED BY <1>0, <2>1, <2>2 DEF Reports
<1>4. CASE Reclaims(p)
  BY <1>0, <1>4 DEF Reclaims, StateReclaimed
<1> QED BY <1>1, <1>2, <1>3, <1>4, Effects DEF RowsInv, Effect

LEMMA FinishedStep ==
    ASSUME RowsInv, TablesStep
    PROVE  FinishedRows'
<1> SUFFICES ASSUME NEW p \in Probes
             PROVE  /\ probe'[p].state = "done" => probe'[p].finished
                    /\ probe'[p].finished =>
                          /\ probe'[p].state \in {"done", "exhausted"}
                          /\ Len(results'[p]) > 0
  BY DEF FinishedRows
<1>0. /\ probe[p].state = "done" => probe[p].finished
      /\ probe[p].finished =>
            /\ probe[p].state \in {"done", "exhausted"}
            /\ Len(results[p]) > 0
  BY DEF RowsInv, FinishedRows
<1>1. CASE Keeps(p)
  BY <1>0, <1>1 DEF Keeps
<1>2. CASE Claims(p)
  BY <1>0, <1>2 DEF Claims
<1>3. CASE \E s \in Statuses : Reports(p, s)
  <2>1. PICK s \in Statuses : Reports(p, s)
    BY <1>3
  <2>2. Len(results[p]) \in Nat /\ Len(results'[p]) = Len(results[p]) + 1
    BY <2>1, ReportHistory DEF RowsInv
  <2>3. Len(results'[p]) > 0
    BY <2>2
  <2> QED BY <2>1, <2>3 DEF Reports
<1>4. CASE Reclaims(p)
  BY <1>0, <1>4 DEF Reclaims, StateReclaimed
<1> QED BY <1>1, <1>2, <1>3, <1>4, Effects DEF RowsInv, Effect

\* A claim takes the head of its queue.
LEMMA HeadsClaimed ==
    ASSUME TypeOK, [QueueNext]_queueVars, NEW r \in Probes
    PROVE  probe'[r].via = probe[r].via \/ IsHead(probe'[r].via, r)
<1>0. probe[r] \in ProbeRow /\ probe[r].attempts \in Nat
  BY RowType
<1>1. CASE \E w \in Workers, q \in Queues, p \in Probes : ClaimProbe(w, q, p)
  <2>1. PICK w \in Workers, q \in Queues, p \in Probes : ClaimProbe(w, q, p)
    BY <1>1
  <2>2. CASE r = p
    <3>1. probe'[r] = Claimed(probe[r], w, q) /\ IsHead(q, r)
      BY <2>1, <2>2 DEF ClaimProbe, TypeOK
    <3>2. probe'[r].via = q
      BY <1>0, <3>1, ClaimedRow
    <3> QED BY <3>1, <3>2
  <2>3. CASE r # p
    BY <2>1, <2>3 DEF ClaimProbe, TypeOK
  <2> QED BY <2>2, <2>3
<1>2. CASE \E w \in Workers, ids \in SUBSET Probes : TouchProbes(w, ids)
  BY <1>0, <1>2 DEF TouchProbes, ProbeRow
<1>3. CASE \E w \in Workers, p \in Probes, s \in Reported : CompleteProbe(p, w, s)
  <2>1. PICK p, st : probe' = [probe EXCEPT
                ![p] = [Released(@, st) EXCEPT !.finished = FinishedAs(st)]]
    BY <1>3 DEF CompleteProbe
  <2>2. [Released(probe[r], st) EXCEPT !.finished = FinishedAs(st)].via = probe[r].via
    BY <1>0 DEF Released, ProbeRow
  <2> QED BY <2>1, <2>2 DEF TypeOK
<1>4. CASE \E t \in {0, LeaseTimeout}, swept \in SUBSET Probes : SweepStale(t, swept)
  BY <1>0, <1>4 DEF SweepStale, Released, ProbeRow
<1>5. CASE Tick
  BY <1>0, <1>5 DEF Tick, Older, ProbeRow
<1>6. CASE UNCHANGED queueVars
  BY <1>6 DEF queueVars
<1> QED BY <1>1, <1>2, <1>3, <1>4, <1>5, <1>6 DEF QueueNext

LEMMA OrderStep ==
    ASSUME IInv, [QueueNext]_queueVars
    PROVE  ClaimOrder'
<1> SUFFICES ASSUME NEW q \in Queues, NEW r \in Probes, NEW p \in Probes,
                    probe'[r].via = q, Fresh(p)'
             PROVE  Key(q, r) <= Key(q, p)
  BY DEF ClaimOrder, Key
<1>0. /\ probe[p].attempts \in Nat
      /\ Len(results[p]) \in Nat
      /\ probe[p].state = "running" => probe[p].attempts > 0
  <2>1. probe[p].attempts \in Nat /\ Len(results[p]) \in Nat
    BY RowType, LenProperties DEF IInv, RowsInv
  <2>2. Len(results[p]) + (IF probe[p].state = "running" THEN 1 ELSE 0)
          <= probe[p].attempts
    BY DEF IInv, RowsInv, AttemptsAccounted
  <2>3. ASSUME probe[p].state = "running" PROVE probe[p].attempts > 0
    BY <2>1, <2>2, <2>3
  <2> QED BY <2>1, <2>3
<1>t. TablesStep
  BY QueueTables DEF IInv, RowsInv
<1>1. Fresh(p)
  <2>1. CASE Keeps(p)
    BY <2>1 DEF Keeps, Fresh, Pending
  <2>2. CASE Claims(p)
    BY <2>2 DEF Claims, Fresh, Pending
  <2>3. CASE \E s \in Statuses : Reports(p, s)
    BY <1>0, <2>3 DEF Reports, Fresh, Pending
  <2>4. CASE Reclaims(p)
    BY <1>0, <2>4 DEF Reclaims, Fresh, Pending
  <2> QED BY <2>1, <2>2, <2>3, <2>4, <1>t, Effects DEF IInv, RowsInv, Effect
<1>2. probe[r].via = q \/ IsHead(q, r)
  BY HeadsClaimed DEF IInv, RowsInv
<1>3. CASE probe[r].via = q
  BY <1>1, <1>3 DEF IInv, ClaimOrder
<1>4. CASE IsHead(q, r)
  BY <1>1, <1>4 DEF IsHead
<1> QED BY <1>2, <1>3, <1>4

LEMMA InvInit == QueueInit => IInv
<1> USE QueueAssumption
<1> SUFFICES ASSUME QueueInit PROVE IInv
  OBVIOUS
<1>1. ASSUME NEW p \in Probes
      PROVE  /\ probe[p].state = "pending" /\ probe[p].attempts = 0
             /\ probe[p].finished = FALSE /\ probe[p].via = None
             /\ results[p] = <<>>
  BY DEF QueueInit, NewRow
<1>2. 0 < MaxAttempts /\ 0 <= MaxAttempts
  OBVIOUS
<1>3. \A p \in Probes : Len(results[p]) = 0 /\ DOMAIN results[p] = 1..0
  BY <1>1, EmptySeq, LenProperties
<1>4. TypeOK
  BY TypeInit
<1>5. CurrentIsLatest
  BY <1>3 DEF CurrentIsLatest
<1>6. AttemptsAccounted
  <2> SUFFICES ASSUME NEW p \in Probes
               PROVE  /\ Len(results[p]) + (IF probe[p].state = "running" THEN 1 ELSE 0)
                           <= probe[p].attempts
                      /\ probe[p].attempts <= MaxAttempts
    BY DEF AttemptsAccounted
  <2>1. Len(results[p]) = 0 /\ probe[p].attempts = 0 /\ probe[p].state # "running"
    BY <1>1, <1>3
  <2> QED BY <1>2, <2>1
<1>7. DoneIffJudged
  BY <1>1 DEF DoneIffJudged, Judged
<1>8. RetryBudget
  <2> SUFFICES ASSUME NEW p \in Probes
               PROVE  probe[p].attempts < MaxAttempts /\ probe[p].state # "exhausted"
    BY DEF RetryBudget
  <2> QED BY <1>1, <1>2
<1>9. FinishedRows
  BY <1>1 DEF FinishedRows
<1>10. ClaimOrder
  BY <1>1 DEF ClaimOrder
<1> QED BY <1>4, <1>5, <1>6, <1>7, <1>8, <1>9, <1>10 DEF IInv, RowsInv

LEMMA RowsInvStep == RowsInv /\ TablesStep => RowsInv'
BY TablesType, CurrentStep, AttemptsStep, DoneStep, BudgetStep, FinishedStep DEF RowsInv

LEMMA InvStep == IInv /\ [QueueNext]_queueVars => IInv'
<1> SUFFICES ASSUME IInv, [QueueNext]_queueVars PROVE IInv'
  OBVIOUS
<1>1. RowsInv'
  BY QueueTables, RowsInvStep DEF IInv, RowsInv
<1>2. ClaimOrder'
  BY OrderStep
<1> QED BY <1>1, <1>2 DEF IInv

LEMMA Invariance == QueueSpec => []IInv
BY InvInit, InvStep, PTL DEF QueueSpec

-----------------------------------------------------------------------------
(***************************************************************************)
(* The invariants of ProbeQueue.                                           *)
(***************************************************************************)

\* One current result per crate, and it is the newest.
THEOREM CurrentCorrect == QueueSpec => []CurrentIsLatest
<1>1. IInv => CurrentIsLatest
  BY DEF IInv, RowsInv
<1> QED BY <1>1, Invariance, PTL

\* One claim per result, and never more than max_attempts of them.
THEOREM AttemptsCorrect == QueueSpec => []AttemptsAccounted
<1>1. IInv => AttemptsAccounted
  BY DEF IInv, RowsInv
<1> QED BY <1>1, Invariance, PTL

\* The crates that are done are the crates that were judged.
THEOREM DoneCorrect == QueueSpec => []DoneIffJudged
<1>1. IInv => DoneIffJudged
  BY DEF IInv, RowsInv
<1> QED BY <1>1, Invariance, PTL

\* A waiting crate has attempts left, a crate given up has none.
THEOREM BudgetCorrect == QueueSpec => []RetryBudget
<1>1. IInv => RetryBudget
  BY DEF IInv, RowsInv
<1> QED BY <1>1, Invariance, PTL

\* finished_at marks the rows whose last attempt reported, and no other.
THEOREM FinishedCorrect == QueueSpec => []FinishedRows
<1>1. IInv => FinishedRows
  BY DEF IInv, RowsInv
<1> QED BY <1>1, Invariance, PTL

\* What a queue has claimed is a prefix of it, up to the rows claimed before.
THEOREM OrderCorrect == QueueSpec => []ClaimOrder
<1>1. IInv => ClaimOrder
  BY DEF IInv
<1> QED BY <1>1, Invariance, PTL

\* What HistoryOnlyGrows says of a step, for one crate.
HistoryGrows(p) ==
    /\ IsPrefixByStatus(results[p], results'[p])
    /\ Len(results'[p]) <= Len(results[p]) + 1
    /\ probe[p].state \in {"done", "exhausted"} =>
          /\ probe'[p] = probe[p]
          /\ results'[p] = results[p]

LEMMA HistoryStep ==
    ASSUME RowsInv, TablesStep
    PROVE  \A p \in Probes : HistoryGrows(p)
<1> SUFFICES ASSUME NEW p \in Probes PROVE HistoryGrows(p)
  OBVIOUS
<1>0. results[p] \in Seq(ResultRow) /\ Len(results[p]) \in Nat
  BY RowType, LenProperties DEF RowsInv
<1>1. CASE results'[p] = results[p]
  <2>1. IsPrefixByStatus(results[p], results'[p])
    BY <1>0, <1>1 DEF IsPrefixByStatus
  <2>2. Len(results'[p]) <= Len(results[p]) + 1
    BY <1>0, <1>1
  <2>3. probe[p].state \in {"done", "exhausted"} => probe'[p] = probe[p]
    BY DEF TablesStep, RowStep, RowAges, RowClaimed, RowCompleted, RowReclaimed
  <2> QED BY <1>1, <2>1, <2>2, <2>3 DEF HistoryGrows
<1>2. CASE \E s \in Statuses : Reports(p, s)
  <2>1. PICK s \in Statuses : Reports(p, s)
    BY <1>2
  <2>2. /\ Len(results'[p]) = Len(results[p]) + 1
        /\ \A i \in 1..Len(results[p]) : results'[p][i].status = results[p][i].status
    BY <2>1, ReportHistory DEF RowsInv
  <2>3. IsPrefixByStatus(results[p], results'[p])
    BY <1>0, <2>2 DEF IsPrefixByStatus
  <2>4. probe[p].state \notin {"done", "exhausted"}
    BY <2>1 DEF Reports
  <2> QED BY <1>0, <2>2, <2>3, <2>4 DEF HistoryGrows
<1> QED BY <1>1, <1>2, Effects DEF RowsInv, Effect, Keeps, Claims, Reclaims

\* The history is append-only, and done and exhausted rows never change.
THEOREM HistoryCorrect == QueueSpec => HistoryOnlyGrows
<1>1. IInv /\ [QueueNext]_queueVars => [\A p \in Probes : HistoryGrows(p)]_queueVars
  BY HistoryStep, QueueTables DEF IInv, RowsInv
<1> QED BY <1>1, Invariance, PTL DEF QueueSpec, HistoryOnlyGrows, HistoryGrows
=============================================================================
