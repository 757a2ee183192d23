----------------------------- MODULE StatsProofs -----------------------------
(***************************************************************************)
(* What the dashboard reports of the queue is sound in every behaviour of  *)
(* QueueSpec, for every set of crates and workers and every bound.         *)
(*                                                                         *)
(* The three properties rest on two facts: a crate with a verdict is done, *)
(* and done rows never change again.  That the sample has no holes rests   *)
(* on the order of the random queue besides.                               *)
(***************************************************************************)
EXTENDS Stats, ProbeQueueProofs

\* A done row stays as it is, with its results.
LEMMA DoneStays ==
    ASSUME IInv, [QueueNext]_queueVars, NEW p \in Probes, probe[p].state = "done"
    PROVE  probe'[p] = probe[p] /\ results'[p] = results[p]
<1>1. RowStep(p)
  BY RowSteps DEF IInv, RowsInv
<1> QED BY <1>1 DEF RowStep, RowAges, RowClaimed, RowCompleted, RowReclaimed

\* A current result is the newest, so a crate with a verdict is done.
LEMMA VerdictIsDone ==
    ASSUME IInv, NEW statuses, "harness_error" \notin statuses,
           NEW p \in With(statuses)
    PROVE  p \in Probes /\ probe[p].state = "done"
<1>1. PICK i \in DOMAIN results[p] :
          results[p][i].current /\ results[p][i].status \in statuses
  BY DEF With
<1>2. p \in Probes
  BY DEF With
<1>3. i = Len(results[p])
  BY <1>1, <1>2 DEF IInv, RowsInv, CurrentIsLatest
<1>4. results[p] # <<>>
  BY <1>1
<1>5. Judged(p)
  BY <1>1, <1>3, <1>4 DEF Judged, Latest
<1> QED BY <1>2, <1>5 DEF IInv, RowsInv, DoneIffJudged

\* Conversely, a done crate has a current verdict.
LEMMA DoneHasVerdict ==
    ASSUME IInv, NEW p \in Probes, probe[p].state = "done"
    PROVE  p \in With(Verdicts)
<1>1. Judged(p) /\ results[p] \in Seq(ResultRow)
  BY RowType DEF IInv, RowsInv, DoneIffJudged
<1>2. Len(results[p]) \in DOMAIN results[p]
  BY <1>1 DEF Judged
<1>3. Latest(p).current /\ Latest(p).status \in Verdicts
  <2>1. Latest(p) \in ResultRow
    BY <1>1, <1>2 DEF Latest
  <2>2. Latest(p).current
    BY <1>2 DEF IInv, RowsInv, CurrentIsLatest, Latest
  <2> QED BY <1>1, <2>1, <2>2 DEF Judged, Verdicts, ResultRow
<1> QED BY <1>2, <1>3 DEF With, Latest

\* A crate keeps its verdict.
LEMMA VerdictStays ==
    ASSUME IInv, [QueueNext]_queueVars,
           NEW statuses, "harness_error" \notin statuses
    PROVE  With(statuses) \subseteq With(statuses)'
<1> SUFFICES ASSUME NEW p \in With(statuses) PROVE p \in With(statuses)'
  OBVIOUS
<1>1. p \in Probes /\ results'[p] = results[p]
  BY VerdictIsDone, DoneStays
<1> QED BY <1>1 DEF With

\* A draw stays drawn, so what is below the watermark stays below it.
LEMMA WatermarkStays ==
    ASSUME IInv, [QueueNext]_queueVars, NEW p \in Probes, BelowWatermark(p)
    PROVE  BelowWatermark(p)'
<1>1. PICK m \in Drawn : RandKey[p] <= RandKey[m]
  BY DEF BelowWatermark
<1>2. m \in Drawn'
  BY <1>1, DoneStays DEF Drawn
<1> QED BY <1>1, <1>2 DEF BelowWatermark

\* The sample of a set of verdicts only grows.
LEMMA SampleStays ==
    ASSUME IInv, [QueueNext]_queueVars,
           NEW statuses, "harness_error" \notin statuses
    PROVE  Sample(statuses) \subseteq Sample(statuses)'
<1> SUFFICES ASSUME NEW p \in Sample(statuses) PROVE p \in Sample(statuses)'
  OBVIOUS
<1>1. p \in With(statuses) /\ BelowWatermark(p)
  BY DEF Sample
<1>2. p \in With(statuses)'
  BY <1>1, VerdictStays
<1>3. p \in Probes
  BY <1>1 DEF With
<1>4. BelowWatermark(p)'
  BY <1>1, <1>3, WatermarkStays
<1> QED BY <1>2, <1>4 DEF Sample

-----------------------------------------------------------------------------
\* The random sample has no holes: below the watermark every crate was claimed.
THEOREM NoHolesCorrect == QueueSpec => []SampleHasNoHoles
<1>1. IInv => SampleHasNoHoles
  <2> SUFFICES ASSUME IInv, NEW p \in Probes, BelowWatermark(p)
               PROVE  \/ p \in With(Statuses)
                      \/ probe[p].attempts > 0 /\ probe[p].state # "done"
    BY DEF SampleHasNoHoles
  <2>1. PICK m \in Drawn : RandKey[p] <= RandKey[m]
    BY DEF BelowWatermark
  <2>2. CASE probe[p].state = "done"
    <3>1. p \in With(Verdicts)
      BY <2>2, DoneHasVerdict
    <3> QED BY <3>1 DEF With, Verdicts
  <2>3. CASE probe[p].state # "done"
    <3>1. /\ probe[p].attempts \in Nat /\ Len(results[p]) \in Nat
          /\ probe[p].state \in States
      BY RowType, LenProperties DEF IInv, RowsInv, ProbeRow
    <3>2. ~Fresh(p)
      <4> SUFFICES ASSUME Fresh(p) PROVE FALSE
        OBVIOUS
      <4>1. m \in Probes /\ probe[m].via = "random" /\ probe[m].state = "done"
        BY <2>1 DEF Drawn
      <4>2. Key("random", m) <= Key("random", p)
        BY <4>1 DEF IInv, RowsInv, ClaimOrder, Queues
      <4>3. RandKey[m] <= RandKey[p]
        BY <4>2 DEF Key
      <4>4. RandKey[m] \in Nat /\ RandKey[p] \in Nat
        BY <4>1, QueueAssumption
      <4>5. RandKey[m] = RandKey[p]
        BY <2>1, <4>3, <4>4
      <4> QED BY <2>3, <4>1, <4>5, RandKeysDiffer
    <3>3. probe[p].state = "running" => probe[p].attempts > 0
      <4>1. Len(results[p]) + (IF probe[p].state = "running" THEN 1 ELSE 0)
              <= probe[p].attempts
        BY DEF IInv, RowsInv, AttemptsAccounted
      <4> QED BY <3>1, <4>1
    <3>4. probe[p].state = "exhausted" => probe[p].attempts > 0
      BY QueueAssumption DEF IInv, RowsInv, RetryBudget
    <3>5. probe[p].state = "pending" => probe[p].attempts > 0
      BY <3>1, <3>2 DEF Fresh, Pending
    <3> QED BY <2>3, <3>1, <3>3, <3>4, <3>5 DEF States
  <2> QED BY <2>2, <2>3
<1> QED BY <1>1, Invariance, PTL

\* The estimate never forgets: neither the watermark nor a counted crate.
THEOREM SampleCorrect == QueueSpec => SampleOnlyGrows
<1> DEFINE Grows ==
        /\ \A p \in Probes : BelowWatermark(p) => BelowWatermark(p)'
        /\ Sample(Counting) \subseteq Sample(Counting)'
        /\ Sample(Survived) \subseteq Sample(Survived)'
<1>1. ASSUME IInv, [QueueNext]_queueVars
      PROVE  Grows
  <2>1. "harness_error" \notin Counting /\ "harness_error" \notin Survived
    BY DEF Counting, Survived
  <2>2. \A p \in Probes : BelowWatermark(p) => BelowWatermark(p)'
    BY <1>1, WatermarkStays
  <2>3. Sample(Counting) \subseteq Sample(Counting)'
    BY <1>1, <2>1, SampleStays
  <2>4. Sample(Survived) \subseteq Sample(Survived)'
    BY <1>1, <2>1, SampleStays
  <2> QED BY <2>2, <2>3, <2>4
<1>2. IInv /\ [QueueNext]_queueVars => [Grows]_queueVars
  BY <1>1
<1> QED BY <1>2, Invariance, PTL DEF QueueSpec, SampleOnlyGrows

\* What a query of a payload counted, the later queries still find.
THEOREM CatchUpCorrect == QueueSpec => LaterQueriesCatchUp
<1> DEFINE Agree ==
        /\ DoneRows \subseteq With(Verdicts)'
        /\ \A s \in Reported \cap Verdicts : With({s}) \subseteq With({s})'
        /\ \A cutoff \in {None} \cup {PopRank[p] : p \in Probes} :
              UpTo(cutoff, With(Survived)) \subseteq UpTo(None, With(Counting))'
<1>1. ASSUME IInv, [QueueNext]_queueVars
      PROVE  Agree
  <2>1. /\ "harness_error" \notin Verdicts /\ "harness_error" \notin Counting
        /\ Survived \subseteq Counting
    BY DEF Verdicts, Counting, Survived
  <2>2. DoneRows \subseteq With(Verdicts)'
    <3>1. DoneRows \subseteq With(Verdicts)
      BY <1>1, DoneHasVerdict DEF DoneRows, InState
    <3>2. With(Verdicts) \subseteq With(Verdicts)'
      BY <1>1, <2>1, VerdictStays
    <3> QED BY <3>1, <3>2
  <2>3. ASSUME NEW s \in Reported \cap Verdicts
        PROVE  With({s}) \subseteq With({s})'
    <3>1. "harness_error" \notin {s}
      BY <2>1
    <3> QED BY <1>1, <3>1, VerdictStays
  <2>4. ASSUME NEW cutoff, NEW p \in UpTo(cutoff, With(Survived))
        PROVE  p \in UpTo(None, With(Counting))'
    <3>1. p \in With(Counting)
      BY <2>1 DEF UpTo, With
    <3>2. p \in With(Counting)'
      BY <1>1, <2>1, <3>1, VerdictStays
    <3> QED BY <3>2 DEF UpTo
  <2> QED BY <2>2, <2>3, <2>4
<1>2. IInv /\ [QueueNext]_queueVars => [Agree]_queueVars
  BY <1>1
<1> QED BY <1>2, Invariance, PTL DEF QueueSpec, LaterQueriesCatchUp
=============================================================================
