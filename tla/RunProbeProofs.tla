---------------------------- MODULE RunProbeProofs ----------------------------
(***************************************************************************)
(* ProbeTypeOK, SlotsConserved, ControlRecorded and CountedAsFork in       *)
(* every behaviour of Spec, for every number of workers and slots, all     *)
(* crates and all faults; and what scan_first_error returns for every      *)
(* stream of messages.                                                     *)
(*                                                                         *)
(* SlotsConserved and ControlRecorded do not depend on what cargo answers: *)
(* their proofs never open Execs.  CountedAsFork is about just that.       *)
(***************************************************************************)
EXTENDS RunProbe, FiniteSetTheorems, SequenceTheorems, WellFoundedInduction, TLAPS

-----------------------------------------------------------------------------
(***************************************************************************)
(* FETCH_SEM.                                                              *)
(***************************************************************************)
Fetching == {w \in Workers : at[w] = "fetch"}

SlotsInv ==
    /\ slots \in Nat
    /\ at \in [Workers -> Places]
    /\ slots + Cardinality(Fetching) = FetchConcurrency

\* The invariant says what SlotsConserved says.
LEMMA SlotsImplied == SlotsInv => SlotsConserved
BY DEF SlotsInv, SlotsConserved, Quantify, Fetching

LEMMA SlotsInit == Init => SlotsInv
<1> SUFFICES ASSUME Init PROVE SlotsInv
  OBVIOUS
<1>1. Fetching = {}
  BY DEF Init, Fetching
<1>2. Cardinality(Fetching) = 0
  BY <1>1, FS_EmptySet
<1> QED BY <1>2, RunProbeAssumption DEF Init, SlotsInv, Places

\* A step that leaves the slots alone and does not enter or leave the fetch.
LEMMA SlotsElsewhere ==
    ASSUME SlotsInv, slots' = slots, NEW w \in Workers, at[w] # "fetch",
           NEW place \in Places, place # "fetch", Go(w, place)
    PROVE  SlotsInv'
<1>1. Fetching' = Fetching
  BY DEF SlotsInv, Go, Fetching
<1> QED BY <1>1 DEF SlotsInv, Go

LEMMA ReturnGoes ==
    ASSUME NEW w, NEW v, Return(w, v)
    PROVE  Go(w, "grow") \/ Go(w, "shrink") \/ Go(w, "report")
BY DEF Return

LEMMA SlotsStep == SlotsInv /\ [Next]_vars => SlotsInv'
<1> SUFFICES ASSUME SlotsInv, [Next]_vars PROVE SlotsInv'
  OBVIOUS
<1> USE DEF At
<1>1. CASE UNCHANGED vars
  BY <1>1 DEF SlotsInv, Fetching, vars
<1>2. ASSUME NEW w \in Workers, NEW c \in Crates, Begin(w, c) PROVE SlotsInv'
  <2>1. slots' = slots /\ at[w] # "fetch" /\ Go(w, "queued")
    BY <1>2 DEF Begin
  <2> QED BY <2>1, SlotsElsewhere DEF Places
<1>3. ASSUME NEW w \in Workers, Acquire(w) PROVE SlotsInv'
  <2>1. slots > 0 /\ slots' = slots - 1 /\ w \notin Fetching /\ Go(w, "fetch")
    BY <1>3 DEF Acquire, Fetching
  <2>2. Fetching' = Fetching \cup {w}
    BY <2>1 DEF SlotsInv, Go, Fetching
  <2>3. IsFiniteSet(Fetching)
    BY RunProbeAssumption, FS_Subset DEF Fetching
  <2>4. Cardinality(Fetching') = Cardinality(Fetching) + 1
    BY <2>1, <2>2, <2>3, FS_AddElement
  <2>5. Cardinality(Fetching) \in Nat
    BY <2>3, FS_CardinalityType
  <2> QED BY <2>1, <2>4, <2>5 DEF SlotsInv, Go, Places
<1>4. ASSUME NEW w \in Workers, Fetch(w) PROVE SlotsInv'
  <2>1. w \in Fetching /\ slots' = slots + 1
    BY <1>4 DEF Fetch, Fetching, Released
  <2>2. \E place \in Places \ {"fetch"} : Go(w, place)
    <3>1. ASSUME NEW reply, FetchEnds(w, reply)
          PROVE  Go(w, "check") \/ Go(w, "grow") \/ Go(w, "shrink") \/ Go(w, "report")
      BY <3>1, ReturnGoes DEF FetchEnds
    <3>2. CASE \E reply \in Replies(w) : FetchEnds(w, reply)
      BY <3>2, <3>1 DEF Places
    <3>3. CASE \E kind \in {"download", "corrupt", "deps", "hang", "vm"} :
                   FetchEnds(w, FaultyReply(kind))
      BY <3>3, <3>1 DEF Places
    <3>4. CASE Raise(w)
      BY <3>4 DEF Raise, Places
    <3> QED BY <1>4, <3>2, <3>3, <3>4 DEF Fetch
  <2>3. Fetching' = Fetching \ {w}
    BY <2>2 DEF SlotsInv, Go, Fetching
  <2>4. IsFiniteSet(Fetching)
    BY RunProbeAssumption, FS_Subset DEF Fetching
  <2>5. Cardinality(Fetching') = Cardinality(Fetching) - 1
    BY <2>1, <2>3, <2>4, FS_RemoveElement
  <2>6. Cardinality(Fetching) \in Nat
    BY <2>4, FS_CardinalityType
  <2> QED BY <2>1, <2>2, <2>5, <2>6 DEF SlotsInv, Go
<1>5. ASSUME NEW w \in Workers, Check(w) PROVE SlotsInv'
  <2>1. slots' = slots /\ at[w] # "fetch" /\ (Go(w, "meta") \/ Go(w, "idle"))
    BY <1>5 DEF Check, Raise
  <2> QED BY <2>1, SlotsElsewhere DEF Places
<1>6. ASSUME NEW w \in Workers, Meta(w) PROVE SlotsInv'
  <2>1. ASSUME NEW noTargets, Judge(w, noTargets)
        PROVE  Go(w, "control") \/ Go(w, "grow") \/ Go(w, "shrink") \/ Go(w, "report")
    BY <2>1, ReturnGoes DEF Judge
  <2>2. slots' = slots /\ at[w] # "fetch" /\ (Raise(w) \/ \E t : Judge(w, t))
    BY <1>6 DEF Meta
  <2>3. \E place \in Places \ {"fetch"} : Go(w, place)
    BY <2>1, <2>2 DEF Raise, Places
  <2> QED BY <2>2, <2>3, SlotsElsewhere
<1>7. ASSUME NEW w \in Workers, Control(w) PROVE SlotsInv'
  <2>1. slots' = slots /\ at[w] # "fetch" /\ (Raise(w) \/ \E v : Return(w, v))
    BY <1>7 DEF Control
  <2>2. \E place \in Places \ {"fetch"} : Go(w, place)
    BY <2>1, ReturnGoes DEF Raise, Places
  <2> QED BY <2>1, <2>2, SlotsElsewhere
<1>8. ASSUME NEW w \in Workers, Grow(w) \/ Shrink(w) PROVE SlotsInv'
  <2>1. /\ slots' = slots /\ at[w] # "fetch"
        /\ Go(w, "queued") \/ Go(w, "report") \/ Go(w, "idle")
    BY <1>8 DEF Grow, Shrink, RecycleFails
  <2> QED BY <2>1, SlotsElsewhere DEF Places
<1>9. ASSUME NEW w \in Workers, Report(w) PROVE SlotsInv'
  <2>1. slots' = slots /\ at[w] # "fetch" /\ Go(w, "idle")
    BY <1>9 DEF Report
  <2> QED BY <2>1, SlotsElsewhere DEF Places
<1>10. ASSUME NEW w \in Workers, Recycle(w) PROVE SlotsInv'
  BY <1>10 DEF Recycle, SlotsInv, Fetching
<1> QED BY <1>1, <1>2, <1>3, <1>4, <1>5, <1>6, <1>7, <1>8, <1>9, <1>10 DEF Next

\* No slot of FETCH_SEM is lost or made up, however fetches end.
THEOREM SlotsCorrect == Spec => []SlotsConserved
<1> QED BY SlotsInit, SlotsStep, SlotsImplied, PTL DEF Spec

-----------------------------------------------------------------------------
(***************************************************************************)
(* The control toolchain in the recorded row.                              *)
(***************************************************************************)

\* Before the control step no control has run; once an outcome is there, its
\* status tells whether one has; and nothing is recorded before the report.
ControlOf(w) ==
    /\ at[w] # "idle" => row[w] = NoRow
    /\ at[w] \in {"queued", "fetch", "check", "meta", "control"} => ~control[w]
    /\ at[w] \in {"shrink", "report"} => (verdict[w].status \in ControlStatuses <=> control[w])
    /\ row[w] # NoRow => (row[w].control <=> control[w])

IsFunction(f) == f = [w \in Workers |-> f[w]]

ControlInv ==
    /\ at \in [Workers -> Places] /\ control \in [Workers -> BOOLEAN]
    /\ IsFunction(verdict) /\ IsFunction(row)
    /\ \A w \in Workers : ControlOf(w)

\* Everything of w but its own variables is as before.
Alone(w) ==
    /\ at' \in [Workers -> Places] /\ control' \in [Workers -> BOOLEAN]
    /\ IsFunction(verdict)' /\ IsFunction(row)'
    /\ \A u \in Workers \ {w} :
          at'[u] = at[u] /\ control'[u] = control[u] /\ verdict'[u] = verdict[u]
          /\ row'[u] = row[u]

LEMMA StepOfOne ==
    ASSUME ControlInv, NEW w \in Workers, Alone(w), ControlOf(w)'
    PROVE  ControlInv'
<1>1. ASSUME NEW u \in Workers \ {w} PROVE ControlOf(u)'
  BY <1>1 DEF ControlInv, Alone, ControlOf
<1> QED BY <1>1 DEF ControlInv, Alone

\* The verdict on a fork's run asks for a control or is none of a control's.
LEMMA ForkStatus ==
    ASSUME NEW r, NEW noTargets
    PROVE  ClassifyFork(r, noTargets).status \notin ControlStatuses
BY DEF ClassifyFork, Verdict, UnexplainedFailure, ControlStatuses

\* A control's verdict is always one that names the control toolchain.
LEMMA ControlStatus ==
    ASSUME NEW r
    PROVE  ClassifyControl(r) \in ControlStatuses
BY DEF ClassifyControl, ControlStatuses

\* An outcome that agrees with control keeps the invariant.
LEMMA ReturnKeeps ==
    ASSUME ControlInv, NEW w \in Workers, NEW v, Return(w, v), UNCHANGED row,
           at[w] # "idle",
           control' = control \/ control' = [control EXCEPT ![w] = TRUE],
           v.status \in ControlStatuses <=> control'[w]
    PROVE  ControlInv'
<1>1. Go(w, "grow") \/ Go(w, "shrink") \/ Go(w, "report")
  BY ReturnGoes
<1>2. verdict' = [verdict EXCEPT ![w] = v]
  BY DEF Return
<1>3. Alone(w)
  BY <1>1, <1>2 DEF ControlInv, Alone, Go, Places, IsFunction
<1>4. verdict'[w] = v
  BY <1>2 DEF ControlInv, IsFunction
<1>5. ControlOf(w)'
  BY <1>1, <1>4 DEF ControlInv, ControlOf, Go
<1> QED BY <1>3, <1>5, StepOfOne

\* An exception before the report leaves no row.
LEMMA RaiseKeeps ==
    ASSUME ControlInv, NEW w \in Workers, at[w] # "idle", Go(w, "idle"),
           UNCHANGED <<control, verdict, row>>
    PROVE  ControlInv'
<1>1. Alone(w)
  BY DEF ControlInv, Alone, Go, Places, IsFunction
<1>2. ControlOf(w)'
  BY DEF ControlInv, ControlOf, Go
<1> QED BY <1>1, <1>2, StepOfOne

LEMMA ControlInit == Init => ControlInv
BY DEF Init, ControlInv, ControlOf, IsFunction, Places

LEMMA ControlStep == ControlInv /\ [Next]_vars => ControlInv'
<1> SUFFICES ASSUME ControlInv, [Next]_vars PROVE ControlInv'
  OBVIOUS
<1> USE DEF At
<1>1. CASE UNCHANGED vars
  BY <1>1 DEF ControlInv, ControlOf, IsFunction, vars, threadVars
<1>2. ASSUME NEW w \in Workers, NEW c \in Crates, Begin(w, c) PROVE ControlInv'
  <2>1. Alone(w)
    BY <1>2 DEF Begin, ControlInv, Alone, Go, Places, IsFunction
  <2>2. ControlOf(w)'
    BY <1>2 DEF Begin, ControlInv, ControlOf, Go, IsFunction
  <2> QED BY <2>1, <2>2, StepOfOne
<1>3. ASSUME NEW w \in Workers, Acquire(w) PROVE ControlInv'
  <2>1. Alone(w)
    BY <1>3 DEF Acquire, threadVars, ControlInv, Alone, Go, Places, IsFunction
  <2>2. ControlOf(w)'
    BY <1>3 DEF Acquire, threadVars, ControlInv, ControlOf, Go
  <2> QED BY <2>1, <2>2, StepOfOne
<1>4. ASSUME NEW w \in Workers, Fetch(w) PROVE ControlInv'
  <2>1. at[w] = "fetch" /\ row' = row /\ ~control[w]
    BY <1>4 DEF Fetch, ControlInv, ControlOf
  <2>2. ASSUME NEW reply, FetchEnds(w, reply) PROVE ControlInv'
    <3>1. control' = control
      BY <2>2 DEF FetchEnds
    <3>2. CASE reply = "ok"
      <4>1. Go(w, "check") /\ verdict' = verdict
        BY <2>2, <3>2 DEF FetchEnds
      <4>2. Alone(w)
        BY <2>1, <3>1, <4>1 DEF ControlInv, Alone, Go, Places, IsFunction
      <4>3. ControlOf(w)'
        BY <2>1, <3>1, <4>1 DEF ControlInv, ControlOf, Go
      <4> QED BY <4>2, <4>3, StepOfOne
    <3>3. CASE reply # "ok"
      <4>1. Return(w, Verdict(FetchStatus(reply), None))
        BY <2>2, <3>3 DEF FetchEnds
      <4>2. Verdict(FetchStatus(reply), None).status \notin ControlStatuses
        BY DEF Verdict, FetchStatus, ControlStatuses
      <4> QED BY <2>1, <3>1, <4>1, <4>2, ReturnKeeps
    <3> QED BY <3>2, <3>3
  <2>3. CASE Raise(w)
    BY <2>1, <2>3, RaiseKeeps DEF Raise, threadVars
  <2> QED BY <1>4, <2>2, <2>3 DEF Fetch
<1>5. ASSUME NEW w \in Workers, Check(w) PROVE ControlInv'
  <2>1. at[w] = "check" /\ UNCHANGED <<row, verdict, control>> /\ (Go(w, "meta") \/ Raise(w))
    BY <1>5 DEF Check, Raise, threadVars
  <2>2. CASE Raise(w)
    BY <2>1, <2>2, RaiseKeeps DEF Raise
  <2>3. CASE Go(w, "meta")
    <3>1. Alone(w)
      BY <2>1, <2>3 DEF ControlInv, Alone, Go, Places, IsFunction
    <3>2. ControlOf(w)'
      BY <2>1, <2>3 DEF ControlInv, ControlOf, Go
    <3> QED BY <3>1, <3>2, StepOfOne
  <2> QED BY <2>1, <2>2, <2>3
<1>6. ASSUME NEW w \in Workers, Meta(w) PROVE ControlInv'
  <2>1. at[w] = "meta" /\ row' = row /\ control' = control /\ ~control[w]
    BY <1>6 DEF Meta, Raise, threadVars, ControlInv, ControlOf
  <2>2. ASSUME NEW noTargets, Judge(w, noTargets) PROVE ControlInv'
    <3> DEFINE v == ClassifyFork(seen[w], noTargets)
    <3>1. CASE v.status = "NEEDS_CONTROL"
      <4>1. Go(w, "control") /\ verdict' = verdict
        BY <2>2, <3>1 DEF Judge
      <4>2. Alone(w)
        BY <2>1, <4>1 DEF ControlInv, Alone, Go, Places, IsFunction
      <4>3. ControlOf(w)'
        BY <2>1, <4>1 DEF ControlInv, ControlOf, Go
      <4> QED BY <4>2, <4>3, StepOfOne
    <3>2. CASE v.status # "NEEDS_CONTROL"
      <4>1. Return(w, v)
        BY <2>2, <3>2 DEF Judge
      <4> QED BY <2>1, <4>1, ForkStatus, ReturnKeeps
    <3> QED BY <3>1, <3>2
  <2>3. CASE Raise(w)
    BY <2>1, <2>3, RaiseKeeps DEF Raise, threadVars
  <2> QED BY <1>6, <2>2, <2>3 DEF Meta
<1>7. ASSUME NEW w \in Workers, Control(w) PROVE ControlInv'
  <2>1. at[w] = "control" /\ row' = row
    BY <1>7 DEF Control
  <2>2. CASE Raise(w)
    BY <2>1, <2>2, RaiseKeeps DEF Raise, threadVars
  <2>3. CASE ~Raise(w)
    <3>1. control' = [control EXCEPT ![w] = TRUE]
      BY <1>7, <2>3 DEF Control
    <3>2. PICK r : Return(w, Verdict(ClassifyControl(r), None))
      BY <1>7, <2>3 DEF Control
    <3>3. Verdict(ClassifyControl(r), None).status \in ControlStatuses
      BY ControlStatus DEF Verdict
    <3>4. control'[w] = TRUE
      BY <3>1 DEF ControlInv
    <3> QED BY <2>1, <3>1, <3>2, <3>3, <3>4, ReturnKeeps
  <2> QED BY <2>2, <2>3
<1>8. ASSUME NEW w \in Workers, Grow(w) PROVE ControlInv'
  <2>1. at[w] = "grow" /\ row' = row /\ verdict' = verdict
    BY <1>8 DEF Grow
  <2>2. CASE Go(w, "queued") /\ control' = [control EXCEPT ![w] = FALSE]
    <3>1. Alone(w)
      BY <2>1, <2>2 DEF ControlInv, Alone, Go, Places, IsFunction
    <3>2. ControlOf(w)'
      BY <2>1, <2>2 DEF ControlInv, ControlOf, Go
    <3> QED BY <3>1, <3>2, StepOfOne
  <2>3. CASE RecycleFails(w)
    BY <2>1, <2>3, RaiseKeeps DEF RecycleFails
  <2> QED BY <1>8, <2>2, <2>3 DEF Grow
<1>9. ASSUME NEW w \in Workers, Shrink(w) PROVE ControlInv'
  <2>1. at[w] = "shrink" /\ UNCHANGED <<row, verdict, control>>
    BY <1>9 DEF Shrink, RecycleFails
  <2>2. CASE Go(w, "report")
    <3>1. Alone(w)
      BY <2>1, <2>2 DEF ControlInv, Alone, Go, Places, IsFunction
    <3>2. ControlOf(w)'
      BY <2>1, <2>2 DEF ControlInv, ControlOf, Go
    <3> QED BY <3>1, <3>2, StepOfOne
  <2>3. CASE RecycleFails(w)
    BY <2>1, <2>3, RaiseKeeps DEF RecycleFails
  <2> QED BY <1>9, <2>2, <2>3 DEF Shrink
<1>10. ASSUME NEW w \in Workers, Report(w) PROVE ControlInv'
  <2>1. /\ at[w] = "report" /\ Go(w, "idle") /\ UNCHANGED <<verdict, control>>
        /\ row' = [row EXCEPT ![w] = RecordResult(verdict[w])]
    BY <1>10 DEF Report, threadVars
  <2>2. Alone(w)
    BY <2>1 DEF ControlInv, Alone, Go, Places, IsFunction
  <2>3. row'[w].control <=> verdict[w].status \in ControlStatuses
    BY <2>1 DEF ControlInv, IsFunction, RecordResult
  <2>4. ControlOf(w)'
    BY <2>1, <2>3 DEF ControlInv, ControlOf, Go
  <2> QED BY <2>2, <2>4, StepOfOne
<1>11. ASSUME NEW w \in Workers, Recycle(w) PROVE ControlInv'
  BY <1>11 DEF Recycle, ControlInv, ControlOf, IsFunction
<1> QED BY <1>1, <1>2, <1>3, <1>4, <1>5, <1>6, <1>7, <1>8, <1>9, <1>10, <1>11 DEF Next

\* The row names the control toolchain if and only if the run it reports had a
\* control run, whatever cargo said and whatever failed on the way.
THEOREM ControlCorrect == Spec => []ControlRecorded
<1>1. ControlInv => ControlRecorded
  BY DEF ControlInv, ControlOf, ControlRecorded
<1> QED BY <1>1, ControlInit, ControlStep, PTL DEF Spec

-----------------------------------------------------------------------------
\* A set of numbers that holds 0 and, with a number, the next one, holds them all.
LEMMA NatSetInduction ==
    ASSUME NEW T, 0 \in T, \A n \in Nat : n \in T => n + 1 \in T
    PROVE  Nat \subseteq T
<1> DEFINE B == Nat \ T
<1>1. SUFFICES ASSUME B # {} PROVE FALSE
  OBVIOUS
<1>2. PICK n \in B : \A m \in B : <<m, n>> \notin OpToRel(<, Nat)
  <2>1. IsWellFoundedOn(OpToRel(<, Nat), Nat)
    BY NatLessThanWellFounded
  <2>2. B \subseteq Nat
    OBVIOUS
  <2> HIDE DEF B
  <2> QED BY <1>1, <2>1, <2>2, WFMin
<1>3. n # 0
  OBVIOUS
<1>4. n - 1 \in Nat /\ n - 1 < n
  BY <1>3
<1>5. n - 1 \notin B
  BY <1>2, <1>4 DEF OpToRel
<1> QED BY <1>4, <1>5

-----------------------------------------------------------------------------
(***************************************************************************)
(* The scan of the message stream.  FoldLeft is defined by a function on   *)
(* the sets of positions; such a function exists, by induction on the      *)
(* length of the stream, and its values on 1..0, 1..1, 1..2, ... are what  *)
(* the loop of scan_first_error has found after each line.                 *)
(***************************************************************************)
Folds(iter, spool, n) ==
    iter = [s \in SUBSET (1..n) |->
               IF s = {} THEN NothingScanned ELSE ScanLine(iter[s \ {Max(s)}], spool[Max(s)])]

LEMMA ScanUnfold ==
    ASSUME NEW spool, NEW n \in Nat, DOMAIN spool = 1..n
    PROVE  ScanFirstError(spool) = (CHOOSE iter : Folds(iter, spool, n))[1..n]
BY DEF ScanFirstError, FoldLeft, MapThenFoldSet, Folds

LEMMA LastPosition ==
    ASSUME NEW n \in Nat, NEW s \in SUBSET (1..(n + 1)), n + 1 \in s
    PROVE  Max(s) = n + 1
<1>1. \A y \in s : n + 1 >= y
  OBVIOUS
<1>2. \A x \in s : (\A y \in s : x >= y) => x = n + 1
  OBVIOUS
<1> QED BY <1>1, <1>2 DEF Max

LEMMA FoldExists ==
    ASSUME NEW spool
    PROVE  \A n \in Nat : \E iter : Folds(iter, spool, n)
<1> DEFINE T == {n \in Nat : \E iter : Folds(iter, spool, n)}
<1>1. 0 \in T
  <2>1. Folds([s \in SUBSET (1..0) |-> NothingScanned], spool, 0)
    BY DEF Folds
  <2> QED BY <2>1
<1>2. ASSUME NEW n \in Nat, n \in T PROVE n + 1 \in T
  <2>1. PICK g : Folds(g, spool, n)
    BY <1>2
  <2>2. PICK h : h = [s \in SUBSET (1..(n + 1)) |->
            IF n + 1 \in s THEN ScanLine(g[s \ {n + 1}], spool[n + 1]) ELSE g[s]]
    OBVIOUS
  <2>3. ASSUME NEW s \in SUBSET (1..(n + 1))
        PROVE  h[s] = IF s = {} THEN NothingScanned
                      ELSE ScanLine(h[s \ {Max(s)}], spool[Max(s)])
    <3>1. CASE n + 1 \in s
      <4>1. Max(s) = n + 1
        BY <3>1, LastPosition
      <4>2. s \ {n + 1} \in SUBSET (1..(n + 1)) /\ n + 1 \notin s \ {n + 1}
        OBVIOUS
      <4>3. h[s \ {n + 1}] = g[s \ {n + 1}]
        BY <2>2, <4>2
      <4> QED BY <2>2, <3>1, <4>1, <4>3
    <3>2. CASE n + 1 \notin s
      <4>1. s \in SUBSET (1..n) /\ s \ {Max(s)} \in SUBSET (1..(n + 1))
            /\ n + 1 \notin s \ {Max(s)} /\ s \ {Max(s)} \in SUBSET (1..n)
        <5>1. ASSUME NEW x \in s PROVE x \in 1..n
          BY <3>2
        <5> QED BY <3>2, <5>1
      <4>2. h[s] = g[s] /\ h[s \ {Max(s)}] = g[s \ {Max(s)}]
        BY <2>2, <3>2, <4>1
      <4>3. g[s] = IF s = {} THEN NothingScanned
                   ELSE ScanLine(g[s \ {Max(s)}], spool[Max(s)])
        BY <2>1, <4>1 DEF Folds
      <4> QED BY <4>2, <4>3
    <3> QED BY <3>1, <3>2
  <2>4. Folds(h, spool, n + 1)
    BY <2>2, <2>3 DEF Folds
  <2> QED BY <2>4
<1> HIDE DEF T
<1>3. Nat \subseteq T
  BY <1>1, <1>2, NatSetInduction
<1> QED BY <1>3 DEF T

\* scan_first_error is its loop: what it has found after each line.
LEMMA ScanLoop ==
    ASSUME NEW spool \in Seq(Messages)
    PROVE  \E found :
              /\ found[0] = NothingScanned
              /\ \A k \in 0..(Len(spool) - 1) : found[k + 1] = ScanLine(found[k], spool[k + 1])
              /\ ScanFirstError(spool) = found[Len(spool)]
<1>1. PICK n \in Nat : n = Len(spool) /\ DOMAIN spool = 1..n
  BY LenProperties
<1>2. PICK iter : iter = CHOOSE i : Folds(i, spool, n)
  OBVIOUS
<1>3. Folds(iter, spool, n)
  BY <1>2, FoldExists
<1>4. PICK found : found = [k \in 0..n |-> iter[1..k]]
  OBVIOUS
<1>5. found[0] = NothingScanned
  BY <1>3, <1>4 DEF Folds
<1>6. ASSUME NEW k \in 0..(n - 1)
      PROVE  found[k + 1] = ScanLine(found[k], spool[k + 1])
  <2>1. k \in Nat /\ k + 1 \in 0..n /\ k \in 0..n /\ 1..(k + 1) \in SUBSET (1..n) /\ k + 1 \in 1..(k + 1)
    OBVIOUS
  <2>2. Max(1..(k + 1)) = k + 1
    BY <2>1, LastPosition
  <2>3. (1..(k + 1)) \ {k + 1} = 1..k
    BY <2>1
  <2>4. iter[1..(k + 1)] = ScanLine(iter[(1..(k + 1)) \ {Max(1..(k + 1))}], spool[Max(1..(k + 1))])
    BY <1>3, <2>1 DEF Folds
  <2> QED BY <1>4, <2>1, <2>2, <2>3, <2>4
<1>7. ScanFirstError(spool) = found[n]
  BY <1>1, <1>2, <1>4, ScanUnfold
<1> QED BY <1>1, <1>5, <1>6, <1>7

Scans == [pkg : Packages \cup {None}, ban : BOOLEAN, success : BOOLEAN \cup {None}]

\* The first compiler error among the first k lines, if there is one.
FirstError(spool, k, scan) ==
    IF \E i \in 1..k : spool[i].reason = "compiler-message"
    THEN \E i \in 1..k :
            /\ spool[i].reason = "compiler-message"
            /\ \A j \in 1..(i - 1) : spool[j].reason # "compiler-message"
            /\ scan.pkg = spool[i].package /\ scan.ban = spool[i].ban
    ELSE scan.pkg = None

\* What the last build-finished among them said, if there is one.
LastFinished(spool, k, scan) ==
    IF \E i \in 1..k : spool[i].reason = "build-finished"
    THEN \E i \in 1..k :
            /\ spool[i].reason = "build-finished"
            /\ \A j \in (i + 1)..k : spool[j].reason # "build-finished"
            /\ scan.success = spool[i].success
    ELSE scan.success = None

LEMMA ScanLineSays ==
    ASSUME NEW spool \in Seq(Messages), NEW k \in Nat, k + 1 \in 1..Len(spool),
           NEW scan \in Scans, FirstError(spool, k, scan), LastFinished(spool, k, scan)
    PROVE  LET next == ScanLine(scan, spool[k + 1])
           IN  next \in Scans /\ FirstError(spool, k + 1, next)
               /\ LastFinished(spool, k + 1, next)
<1> DEFINE msg == spool[k + 1]
           next == ScanLine(scan, msg)
<1>0. msg \in Messages
  BY ElementOfSeq
<1>r. 1..(k + 1) = (1..k) \cup {k + 1} /\ k + 1 \notin 1..k
  OBVIOUS
<1>1. CASE msg.reason = "build-finished"
  <2>1. msg.success \in BOOLEAN
    BY <1>0, <1>1 DEF Messages
  <2>2. next = [scan EXCEPT !.success = msg.success]
    BY <1>1 DEF ScanLine
  <2>3. next \in Scans /\ next.pkg = scan.pkg /\ next.ban = scan.ban
        /\ next.success = msg.success
    BY <2>1, <2>2 DEF Scans
  <2> HIDE DEF next
  <2>4. FirstError(spool, k + 1, next)
    BY <1>1, <1>r, <2>3 DEF FirstError
  <2>5. (k + 1 + 1)..(k + 1) = {}
    OBVIOUS
  <2>6. LastFinished(spool, k + 1, next)
    BY <1>1, <1>r, <2>3, <2>5 DEF LastFinished
  <2> QED BY <2>3, <2>4, <2>6 DEF next
<1>2. CASE msg.reason = "compiler-message"
  <2>1. msg.package \in Packages /\ msg.ban \in BOOLEAN
    BY <1>0, <1>2 DEF Messages
  <2>2. next = IF scan.pkg = None THEN [scan EXCEPT !.pkg = msg.package, !.ban = msg.ban] ELSE scan
    BY <1>2 DEF ScanLine
  <2>3. next \in Scans /\ next.success = scan.success
    BY <2>1, <2>2 DEF Scans
  <2>4. LastFinished(spool, k + 1, next)
    <3>1. CASE \E i \in 1..k : spool[i].reason = "build-finished"
      <4>1. PICK i \in 1..k :
              /\ spool[i].reason = "build-finished"
              /\ \A j \in (i + 1)..k : spool[j].reason # "build-finished"
              /\ scan.success = spool[i].success
        BY <3>1 DEF LastFinished
      <4>2. (i + 1)..(k + 1) = ((i + 1)..k) \cup {k + 1}
        OBVIOUS
      <4> HIDE DEF next
      <4> QED BY <1>2, <1>r, <2>3, <4>1, <4>2 DEF LastFinished
    <3>2. CASE ~\E i \in 1..k : spool[i].reason = "build-finished"
      <4> HIDE DEF next
      <4> QED BY <1>2, <1>r, <2>3, <3>2 DEF LastFinished
    <3> QED BY <3>1, <3>2
  <2>5. FirstError(spool, k + 1, next)
    <3>1. CASE \E i \in 1..k : spool[i].reason = "compiler-message"
      <4>1. PICK i \in 1..k :
              /\ spool[i].reason = "compiler-message"
              /\ \A j \in 1..(i - 1) : spool[j].reason # "compiler-message"
              /\ scan.pkg = spool[i].package /\ scan.ban = spool[i].ban
        BY <3>1 DEF FirstError
      <4>2. spool[i] \in Messages
        BY ElementOfSeq
      <4>3. scan.pkg # None
        BY <4>1, <4>2, PackagesAssumption DEF Messages
      <4>4. next = scan
        BY <2>2, <4>3
      <4> HIDE DEF next
      <4> QED BY <1>r, <4>1, <4>4 DEF FirstError
    <3>2. CASE ~\E i \in 1..k : spool[i].reason = "compiler-message"
      <4>1. scan.pkg = None
        BY <3>2 DEF FirstError
      <4>2. next.pkg = msg.package /\ next.ban = msg.ban
        BY <2>1, <2>2, <4>1 DEF Scans
      <4>3. (k + 1) - 1 = k
        OBVIOUS
      <4> HIDE DEF next
      <4> QED BY <1>2, <1>r, <3>2, <4>2, <4>3 DEF FirstError
    <3> QED BY <3>1, <3>2
  <2> QED BY <2>3, <2>4, <2>5
<1>3. msg.reason \in {"build-finished", "compiler-message"}
  BY <1>0 DEF Messages
<1> QED BY <1>1, <1>2, <1>3

\* scan_first_error returns the first compiler error of the stream and what its
\* last build-finished says, whatever else the stream holds.
THEOREM ScanCorrect ==
    ASSUME NEW spool \in Seq(Messages)
    PROVE  /\ ScanFirstError(spool) \in Scans
           /\ FirstError(spool, Len(spool), ScanFirstError(spool))
           /\ LastFinished(spool, Len(spool), ScanFirstError(spool))
<1>1. PICK found :
        /\ found[0] = NothingScanned
        /\ \A k \in 0..(Len(spool) - 1) : found[k + 1] = ScanLine(found[k], spool[k + 1])
        /\ ScanFirstError(spool) = found[Len(spool)]
  BY ScanLoop
<1>2. Len(spool) \in Nat
  BY LenProperties
<1> DEFINE Read(k) == /\ found[k] \in Scans
                      /\ FirstError(spool, k, found[k])
                      /\ LastFinished(spool, k, found[k])
           T == {k \in Nat : k <= Len(spool) => Read(k)}
<1>3. 0 \in T
  <2>1. NothingScanned \in Scans /\ NothingScanned.pkg = None /\ NothingScanned.success = None
    BY DEF NothingScanned, Scans
  <2>2. 1..0 = {}
    OBVIOUS
  <2> QED BY <1>1, <2>1, <2>2 DEF FirstError, LastFinished
<1>4. ASSUME NEW k \in Nat, k \in T PROVE k + 1 \in T
  <2> SUFFICES ASSUME k + 1 <= Len(spool) PROVE Read(k + 1)
    BY <1>4
  <2>1. Read(k)
    BY <1>2, <1>4
  <2>2. k \in 0..(Len(spool) - 1) /\ k + 1 \in 1..Len(spool)
    BY <1>2
  <2>3. found[k + 1] = ScanLine(found[k], spool[k + 1])
    BY <1>1, <2>2
  <2> QED BY <2>1, <2>2, <2>3, ScanLineSays
<1> HIDE DEF T
<1>5. Nat \subseteq T
  BY <1>3, <1>4, NatSetInduction
<1>6. Read(Len(spool))
  BY <1>2, <1>5 DEF T
<1> QED BY <1>1, <1>6

-----------------------------------------------------------------------------
(***************************************************************************)
(* What an exec of cargo check may answer, whatever the container.         *)
(***************************************************************************)
\* What the messages of an answer are about.
ErrorsOnly(spool, c, results) ==
    \A i \in 1..Len(spool) : spool[i].reason = "compiler-message" =>
        /\ spool[i].package \in Exposed(c, results)
        /\ spool[i].ban <=> results[spool[i].package] = "ban"

SeenOK(r) ==
    /\ r.exit \in Nat /\ r.timedOut \in BOOLEAN
    /\ r.spool \in Seq(Messages) /\ r.stderr \subseteq Signatures

VerdictOK(v) == v.status \in Statuses /\ v.blamed \in Packages \cup {None}

\* What the answers have in common: only a complete build exits with 0, only
\* exposed packages have errors, an error means that the crate does not build,
\* and a failed build script that, or that its compiler was killed.
Fits(x, c, results, killed) ==
    /\ SeenOK(x)
    /\ x.exit = 0 => Clean(results)
    /\ ErrorsOnly(x.spool, c, results)
    /\ (\E i \in 1..Len(x.spool) : x.spool[i].reason = "compiler-message") => ~Clean(results)
    /\ "script" \in x.stderr => ~Clean(results) \/ killed

\* Whether stock Rust is asked about a crate for a reason.
Doubtful(c, killed) == ~Clean(c.fork) \/ killed

\* What a worker has seen, concluded and recorded agrees with its crate.
Sound(w) ==
    /\ SeenOK(seen[w]) /\ VerdictOK(verdict[w])
    /\ row[w] = NoRow \/ row[w].status \in Statuses
    /\ at[w] # "idle" => row[w] = NoRow
    /\ at[w] = "meta" => Fits(seen[w], crate[w], crate[w].fork, starved[w])
    /\ at[w] = "control" => Doubtful(crate[w], starved[w])
    /\ at[w] \in {"shrink", "report"} =>
           Justified(crate[w], RecordResult(verdict[w]), starved[w])
    /\ Justified(crate[w], row[w], starved[w])

Bookkeeping ==
    /\ size \in [Workers -> {"small", "big", "none"}]
    /\ retried \in [Workers -> BOOLEAN] /\ control \in [Workers -> BOOLEAN]
    /\ cut \in [Workers -> BOOLEAN] /\ starved \in [Workers -> BOOLEAN]
    /\ faults \in 0..MaxFaults

\* The inductive invariant.
ProbeInv ==
    /\ Bookkeeping
    /\ at \in [Workers -> Places] /\ crate \in [Workers -> Crates]
    /\ IsFunction(seen) /\ IsFunction(verdict) /\ IsFunction(row)
    /\ \A w \in Workers : Sound(w)

\* The fields of the records (their Boolean fields are beyond SMT).
LEMMA EndedFields ==
    \A exit, spool, stderr :
       /\ Ended(exit, spool, stderr).exit = exit
       /\ Ended(exit, spool, stderr).timedOut = FALSE
       /\ Ended(exit, spool, stderr).spool = spool
       /\ Ended(exit, spool, stderr).stderr = stderr
BY DEF Ended

LEMMA KilledFields ==
    /\ ForceKilled(<<>>).exit = 9 /\ ForceKilled(<<>>).timedOut = TRUE
    /\ ForceKilled(<<>>).spool = <<>> /\ ForceKilled(<<>>).stderr = {}
BY DEF ForceKilled

LEMMA ErrorFields ==
    ASSUME NEW p, NEW b
    PROVE  Error(p, b).reason = "compiler-message" /\ Error(p, b).package = p /\ Error(p, b).ban = b
BY DEF Error

LEMMA EndedSeen ==
    \A exit \in Nat, spool \in Seq(Messages), stderr \in SUBSET Signatures :
       SeenOK(Ended(exit, spool, stderr))
<1> SUFFICES ASSUME NEW exit \in Nat, NEW spool \in Seq(Messages),
                    NEW stderr \in SUBSET Signatures
             PROVE  SeenOK(Ended(exit, spool, stderr))
  OBVIOUS
<1>1. PICK r : r = Ended(exit, spool, stderr)
  OBVIOUS
<1>2. r.timedOut = FALSE
  BY <1>1 DEF Ended
<1>3. r.timedOut \in BOOLEAN
  BY <1>2, Zenon
<1>4. r.exit = exit /\ r.spool = spool /\ r.stderr = stderr
  BY <1>1 DEF Ended
<1>5. SeenOK(r)
  BY <1>3, <1>4 DEF SeenOK
<1> QED BY <1>1, <1>5, Zenon

LEMMA NeededPackages ==
    ASSUME NEW c \in Crates, NEW results
    PROVE  Exposed(c, results) \subseteq Packages
BY DEF Exposed

\* The errors that arrive are those of exposed packages, also in a stream that
\* ends with build-finished.
LEMMA ErrorStream ==
    ASSUME NEW c \in Crates, NEW results, NEW failing \in SUBSET Exposed(c, results),
           NEW errors \in ErrorsOf(results, failing)
    PROVE  /\ errors \in Seq(Messages)
           /\ \A i \in 1..Len(errors) :
                 \E p \in Exposed(c, results) : errors[i] = Error(p, results[p] = "ban")
<1>1. PICK S : S = failing \ Scripts(results)
  OBVIOUS
<1>2. IsFiniteSet(S) /\ S \subseteq Packages /\ S \subseteq Exposed(c, results)
  BY <1>1, NeededPackages, PackagesAssumption, FS_Subset
<1>3. PICK n \in Nat : n = Cardinality(S)
  BY <1>2, FS_CardinalityType
<1>4. PICK order \in SetToSeqs(S) :
          errors = [i \in DOMAIN order |-> Error(order[i], results[order[i]] = "ban")]
  BY <1>1, Zenon DEF ErrorsOf
<1>5. order \in [1..n -> S]
  BY <1>3 DEF SetToSeqs
<1>6. \A i \in 1..n : /\ order[i] \in Exposed(c, results)
                      /\ Error(order[i], results[order[i]] = "ban") \in Messages
  BY <1>2, <1>5 DEF Error, Messages
<1>7. errors = [i \in 1..n |-> Error(order[i], results[order[i]] = "ban")]
  BY <1>4, <1>5
<1>8. errors \in Seq(Messages) /\ Len(errors) = n
  <2>1. errors \in [1..n -> Messages]
    BY <1>6, <1>7
  <2>2. errors \in Seq(Messages)
    BY <2>1, SeqDef
  <2> QED BY <2>1, <2>2, LenProperties
<1> QED BY <1>6, <1>7, <1>8

LEMMA ErrorSpool ==
    ASSUME NEW c \in Crates, NEW results, NEW failing \in SUBSET Exposed(c, results),
           NEW errors \in ErrorsOf(results, failing), NEW spool,
           \/ spool = errors
           \/ \E last \in Messages :
                 last.reason # "compiler-message" /\ spool = Append(errors, last)
    PROVE  spool \in Seq(Messages) /\ ErrorsOnly(spool, c, results)
<1>1. /\ errors \in Seq(Messages)
      /\ \A i \in 1..Len(errors) :
            \E p \in Exposed(c, results) : errors[i] = Error(p, results[p] = "ban")
  BY ErrorStream
<1>2. spool \in Seq(Messages)
  BY <1>1, AppendProperties
<1>3. ASSUME NEW i \in 1..Len(spool), spool[i].reason = "compiler-message"
      PROVE  i \in 1..Len(errors) /\ spool[i] = errors[i]
  <2>1. CASE spool = errors
    BY <1>3, <2>1
  <2>2. ASSUME NEW last \in Messages, last.reason # "compiler-message",
               spool = Append(errors, last)
        PROVE  i \in 1..Len(errors) /\ spool[i] = errors[i]
    <3>1. PICK n \in Nat : n = Len(errors)
      BY <1>1, LenProperties
    <3>2. /\ Len(spool) = n + 1 /\ spool[n + 1] = last
          /\ \A k \in 1..n : spool[k] = errors[k]
      BY <1>1, <2>2, <3>1, AppendProperties
    <3>3. i # n + 1
      BY <1>3, <2>2, <3>2
    <3> QED BY <3>1, <3>2, <3>3
  <2> QED BY <2>1, <2>2
<1>4. ASSUME NEW i \in 1..Len(spool), spool[i].reason = "compiler-message"
      PROVE  /\ spool[i].package \in Exposed(c, results)
             /\ spool[i].ban <=> results[spool[i].package] = "ban"
  <2>1. PICK p \in Exposed(c, results) : errors[i] = Error(p, results[p] = "ban")
    BY <1>1, <1>3, <1>4
  <2>2. PICK m : m = spool[i]
    OBVIOUS
  <2>3. m = Error(p, results[p] = "ban")
    BY <1>3, <1>4, <2>1, <2>2, Zenon
  <2>4. m.package = p /\ (m.ban <=> results[p] = "ban")
    BY <2>3, ErrorFields, Zenon
  <2> QED BY <2>2, <2>4
<1> QED BY <1>2, <1>4 DEF ErrorsOnly

\* build-finished is a message, and no error.
LEMMA FinishedMessage ==
    /\ Finished(TRUE) \in Messages /\ Finished(TRUE).reason # "compiler-message"
    /\ Finished(FALSE) \in Messages /\ Finished(FALSE).reason # "compiler-message"
BY DEF Finished, Messages

\* A stream of errors of which one is there says that the crate does not build.
LEMMA ErrorMeansFailure ==
    ASSUME NEW c \in Crates, NEW results, NEW spool, ErrorsOnly(spool, c, results),
           \E i \in 1..Len(spool) : spool[i].reason = "compiler-message"
    PROVE  ~Clean(results)
<1>1. PICK p : p \in Exposed(c, results)
  BY DEF ErrorsOnly
<1> QED BY <1>1 DEF Exposed, Clean

LEMMA SaysSignatures ==
    ASSUME NEW c, NEW signs \in SUBSET Signatures
    PROVE  /\ Says(c, signs) \in SUBSET Signatures
           /\ "script" \in Says(c, signs) <=> "script" \in signs
BY DEF Says, Signatures

\* An exec that ended by itself or with its VM.
LEMMA EndedFits ==
    ASSUME NEW c \in Crates, NEW results, NEW exit \in Nat, NEW spool \in Seq(Messages),
           NEW stderr \in SUBSET Signatures, NEW killed,
           ErrorsOnly(spool, c, results),
           exit = 0 => Clean(results),
           "script" \in stderr => ~Clean(results) \/ killed,
           NEW x, x = Ended(exit, spool, stderr)
    PROVE  Fits(x, c, results, killed)
<1>1. x.exit = exit /\ x.spool = spool /\ x.stderr = stderr
  BY EndedFields
<1>2. SeenOK(x)
  BY EndedSeen
<1>3. (\E i \in 1..Len(spool) : spool[i].reason = "compiler-message") => ~Clean(results)
  BY ErrorMeansFailure
<1> QED BY <1>1, <1>2, <1>3, Zenon DEF Fits

\* A stream without a message, or with only a build-finished.
LEMMA NoErrors ==
    ASSUME NEW c, NEW results
    PROVE  /\ <<>> \in Seq(Messages) /\ ErrorsOnly(<<>>, c, results)
           /\ \A last \in Messages : last.reason # "compiler-message" =>
                 <<last>> \in Seq(Messages) /\ ErrorsOnly(<<last>>, c, results)
<1>1. <<>> \in Seq(Messages) /\ ErrorsOnly(<<>>, c, results)
  BY DEF ErrorsOnly
<1>2. ASSUME NEW last \in Messages, last.reason # "compiler-message"
      PROVE  <<last>> \in Seq(Messages) /\ ErrorsOnly(<<last>>, c, results)
  BY <1>2 DEF ErrorsOnly
<1> QED BY <1>1, <1>2

LEMMA KilledFits ==
    ASSUME NEW c, NEW results, NEW killed
    PROVE  Fits(ForceKilled(<<>>), c, results, killed)
<1>1. PICK x : x = ForceKilled(<<>>)
  OBVIOUS
<1>2. x.exit = 9 /\ x.timedOut = TRUE /\ x.spool = <<>> /\ x.stderr = {}
  BY <1>1, KilledFields, Zenon
<1>3. /\ x.spool \in Seq(Messages)
      /\ ErrorsOnly(x.spool, c, results)
      /\ ~\E i \in 1..Len(x.spool) : x.spool[i].reason = "compiler-message"
  BY <1>2 DEF ErrorsOnly
<1>4. x.timedOut \in BOOLEAN
  BY <1>2, Zenon
<1>5. x.exit \in Nat /\ x.exit # 0 /\ x.stderr \subseteq Signatures /\ "script" \notin x.stderr
  BY <1>2
<1>6. SeenOK(x)
  BY <1>3, <1>4, <1>5, Zenon DEF SeenOK
<1>7. Fits(x, c, results, killed)
  BY <1>3, <1>5, <1>6, Zenon DEF Fits
<1> QED BY <1>1, <1>7, Zenon

\* A build that went to its end.
LEMMA BuildFits ==
    ASSUME NEW c \in Crates, NEW results, NEW x \in Builds(c, results), NEW killed
    PROVE  Fits(x, c, results, killed)
<1>1. PICK yes, no : yes = Finished(TRUE) /\ no = Finished(FALSE)
  OBVIOUS
<1>2. /\ yes \in Messages /\ yes.reason # "compiler-message"
      /\ no \in Messages /\ no.reason # "compiler-message"
  BY <1>1, FinishedMessage, Zenon
<1>3. \A signs \in SUBSET Signatures : /\ Says(c, signs) \in SUBSET Signatures
                                       /\ "script" \in Says(c, signs) <=> "script" \in signs
  BY SaysSignatures
<1>4. /\ {} \in SUBSET Signatures /\ {"resolve"} \in SUBSET Signatures
      /\ "script" \notin {} /\ "script" \notin {"resolve"}
  BY DEF Signatures
<1>5. 0 \in Nat /\ 101 \in Nat /\ 101 # 0
  OBVIOUS
<1>6. CASE x = Ended(0, <<Finished(TRUE)>>, Says(c, {})) /\ Clean(results)
  <2>1. <<yes>> \in Seq(Messages) /\ ErrorsOnly(<<yes>>, c, results)
    BY <1>2, NoErrors
  <2>2. x = Ended(0, <<yes>>, Says(c, {}))
    BY <1>1, <1>6, Zenon
  <2> QED BY <1>3, <1>4, <1>5, <1>6, <2>1, <2>2, EndedFits, Zenon
<1>7. CASE x = Ended(101, <<>>, Says(c, {"resolve"}))
  BY <1>3, <1>4, <1>5, <1>7, NoErrors, EndedFits, Zenon
<1>8. CASE x \in Failures(c, results) /\ ~Clean(results)
  <2>1. PICK failing \in SUBSET Exposed(c, results) :
          \E errors \in ErrorsOf(results, failing) :
            x = Ended(101, Append(errors, Finished(FALSE)),
                      Says(c, ScriptSigns(results, failing)))
    BY <1>8, Zenon DEF Failures
  <2>2. PICK errors \in ErrorsOf(results, failing) :
            x = Ended(101, Append(errors, Finished(FALSE)),
                      Says(c, ScriptSigns(results, failing)))
    BY <2>1
  <2>3. PICK spool, signs : spool = Append(errors, no) /\ signs = ScriptSigns(results, failing)
    OBVIOUS
  <2>4. spool \in Seq(Messages) /\ ErrorsOnly(spool, c, results)
    BY <1>2, <2>3, ErrorSpool
  <2>5. signs \in SUBSET Signatures
    BY <2>3 DEF ScriptSigns, Signatures
  <2>6. x = Ended(101, spool, Says(c, signs))
    BY <1>1, <2>2, <2>3, Zenon
  <2> QED BY <1>3, <1>5, <1>8, <2>4, <2>5, <2>6, EndedFits, Zenon
<1> QED BY <1>6, <1>7, <1>8, Zenon DEF Builds

\* A build that was cut short, and had printed errors so far.
LEMMA ShortFits ==
    ASSUME NEW c \in Crates, NEW results, NEW x \in CutShort(c, results)
    PROVE  Fits(x, c, results, "script" \in x.stderr)
<1>1. PICK errors \in ErrorsSoFar(c, results) : x \in OutOfMemory(c, errors) \cup OutOfTime(c, errors)
  <2>1. c.load \in Loads
    BY RunProbeAssumption DEF CrateRecords
  <2>2. PICK errors \in ErrorsSoFar(c, results) :
          x \in CASE c.load = "light" -> {}
                 [] c.load = "heavy" -> OutOfMemory(c, errors)
                 [] c.load = "long"  -> OutOfTime(c, errors)
    BY Zenon DEF CutShort
  <2> QED BY <2>1, <2>2 DEF Loads
<1>2. PICK failing \in SUBSET Exposed(c, results) : errors \in ErrorsOf(results, failing)
  BY DEF ErrorsSoFar
<1>3. PICK no, spool : no = Finished(FALSE) /\ spool = Append(errors, no)
  OBVIOUS
<1>4. no \in Messages /\ no.reason # "compiler-message"
  BY <1>3, FinishedMessage, Zenon
<1>5. /\ errors \in Seq(Messages) /\ ErrorsOnly(errors, c, results)
      /\ spool \in Seq(Messages) /\ ErrorsOnly(spool, c, results)
  BY <1>2, <1>3, <1>4, ErrorSpool
<1>6. \A signs \in SUBSET Signatures : Says(c, signs) \in SUBSET Signatures
  BY SaysSignatures
<1>7. /\ {} \in SUBSET Signatures /\ {"script"} \in SUBSET Signatures
      /\ 101 \in Nat /\ 124 \in Nat /\ 137 \in Nat /\ 101 # 0 /\ 124 # 0 /\ 137 # 0
  BY DEF Signatures
<1>8. \/ x = Ended(101, spool, Says(c, {}))
      \/ x = Ended(101, spool, Says(c, {"script"}))
      \/ x = Ended(137, errors, Says(c, {}))
      \/ x = Ended(124, errors, Says(c, {}))
  BY <1>1, <1>3, Zenon DEF OutOfMemory, OutOfTime
<1>9. ASSUME NEW exit \in Nat, exit # 0, NEW stream \in Seq(Messages),
             ErrorsOnly(stream, c, results), NEW stderr \in SUBSET Signatures,
             x = Ended(exit, stream, stderr)
      PROVE  Fits(x, c, results, "script" \in x.stderr)
  <2>1. x.stderr = stderr
    BY <1>9, EndedFields
  <2>2. "script" \in stderr => ~Clean(results) \/ "script" \in x.stderr
    BY <2>1
  <2>3. PICK killed : killed = ("script" \in x.stderr)
    OBVIOUS
  <2>4. "script" \in stderr => ~Clean(results) \/ killed
    BY <2>2, <2>3, Zenon
  <2>5. Fits(x, c, results, killed)
    BY <1>9, <2>4, EndedFits, Zenon
  <2> QED BY <2>3, <2>5, Zenon
<1>10. CASE x = Ended(101, spool, Says(c, {}))
  BY <1>5, <1>6, <1>7, <1>9, <1>10, Zenon
<1>11. CASE x = Ended(101, spool, Says(c, {"script"}))
  BY <1>5, <1>6, <1>7, <1>9, <1>11, Zenon
<1>12. CASE x = Ended(137, errors, Says(c, {}))
  BY <1>5, <1>6, <1>7, <1>9, <1>12, Zenon
<1>13. CASE x = Ended(124, errors, Says(c, {}))
  BY <1>5, <1>6, <1>7, <1>9, <1>13, Zenon
<1> QED BY <1>8, <1>10, <1>11, <1>12, <1>13

\* A build whose VM died, and had printed errors so far.
LEMMA LostFits ==
    ASSUME NEW c \in Crates, NEW results, NEW x \in LostVM(c, results), NEW killed
    PROVE  Fits(x, c, results, killed)
<1>1. PICK exit \in {1, 137}, errors \in ErrorsSoFar(c, results) : x = Ended(exit, errors, {})
  BY DEF LostVM
<1>2. PICK failing \in SUBSET Exposed(c, results) : errors \in ErrorsOf(results, failing)
  BY DEF ErrorsSoFar
<1>3. errors \in Seq(Messages) /\ ErrorsOnly(errors, c, results)
  BY <1>2, ErrorSpool
<1>4. exit \in Nat /\ exit # 0 /\ {} \in SUBSET Signatures /\ "script" \notin {}
  OBVIOUS
<1> QED BY <1>1, <1>3, <1>4, EndedFits, Zenon

\* An exec in any container.
LEMMA ExecFits ==
    ASSUME NEW w, crate[w] \in Crates, NEW results, NEW e \in Execs(w, results)
    PROVE  Fits(e.result, crate[w], results, Starved(e))
<1>1. PICK c, x : c = crate[w] /\ x = e.result
  OBVIOUS
<1>2. \A rs, short, kind : \A y \in Endings(rs, short, kind) :
          y.result \in rs /\ y.short = short
  <2> TAKE rs, short, kind
  <2> TAKE y \in Endings(rs, short, kind)
  <2>1. PICK a \in rs : y = [result |-> a, short |-> short, kind |-> kind]
    BY Zenon DEF Endings
  <2> QED BY <2>1
<1>3. CASE x \in Builds(c, results)
  BY <1>1, <1>3, BuildFits
<1>4. CASE x \in CutShort(c, results) /\ e.short
  <2>1. Fits(x, c, results, "script" \in x.stderr)
    BY <1>1, <1>4, ShortFits
  <2>2. Starved(e) <=> "script" \in x.stderr
    BY <1>1, <1>4 DEF Starved
  <2> QED BY <1>1, <2>1, <2>2, Zenon DEF Fits
<1>5. CASE x = ForceKilled(<<>>)
  BY <1>1, <1>5, KilledFits, Zenon
<1>6. CASE x \in LostVM(c, results)
  BY <1>1, <1>6, LostFits
<1>7. CASE x = Ended(1, <<>>, {})
  <2>1. 1 \in Nat /\ 1 # 0 /\ {} \in SUBSET Signatures /\ "script" \notin {}
    OBVIOUS
  <2> QED BY <1>1, <1>7, <2>1, NoErrors, EndedFits, Zenon
<1>8. \/ e \in Endings({Ended(1, <<>>, {})}, FALSE, "none")
      \/ e \in Endings(Builds(c, results), FALSE, "none")
      \/ e \in Endings(CutShort(c, results), TRUE, "none")
      \/ e \in Endings({ForceKilled(<<>>)}, TRUE, "stuck")
      \/ e \in Endings(LostVM(c, results), FALSE, "vm")
  BY <1>1, Zenon DEF Execs
<1>9. \/ x = Ended(1, <<>>, {}) \/ x \in Builds(c, results)
      \/ x \in CutShort(c, results) /\ e.short
      \/ x = ForceKilled(<<>>) \/ x \in LostVM(c, results)
  <2>1. CASE e \in Endings({Ended(1, <<>>, {})}, FALSE, "none")
    <3>1. x \in {Ended(1, <<>>, {})}
      BY <1>1, <1>2, <2>1, Zenon
    <3> QED BY <3>1, Zenon
  <2>2. CASE e \in Endings(Builds(c, results), FALSE, "none")
    BY <1>1, <1>2, <2>2, Zenon
  <2>3. CASE e \in Endings(CutShort(c, results), TRUE, "none")
    BY <1>1, <1>2, <2>3, Zenon
  <2>4. CASE e \in Endings({ForceKilled(<<>>)}, TRUE, "stuck")
    <3>1. x \in {ForceKilled(<<>>)}
      BY <1>1, <1>2, <2>4, Zenon
    <3> QED BY <3>1, Zenon
  <2>5. CASE e \in Endings(LostVM(c, results), FALSE, "vm")
    BY <1>1, <1>2, <2>5, Zenon
  <2> QED BY <1>8, <2>1, <2>2, <2>3, <2>4, <2>5, Zenon
<1> QED BY <1>3, <1>4, <1>5, <1>6, <1>7, <1>9

-----------------------------------------------------------------------------
(***************************************************************************)
(* What the classifier concludes from such an answer.                      *)
(***************************************************************************)
LEMMA VerdictFields ==
    \A status, blamed : Verdict(status, blamed).status = status /\ Verdict(status, blamed).blamed = blamed
BY DEF Verdict

\* The row's columns that Justified reads.
LEMMA RowColumns ==
    \A v : /\ RecordResult(v).status = v.status
           /\ v.status = "fail_async_direct" => RecordResult(v).blamed = Own
           /\ v.status = "fail_async_dep" => RecordResult(v).blamed = v.blamed
<1> TAKE v
<1>1. PICK named, byControl : /\ byControl = (v.status \in ControlStatuses)
                            /\ named = CASE v.status = "fail_async_direct" -> Own
                                         [] v.status = "fail_async_dep"    -> v.blamed
                                         [] OTHER                          -> None
  OBVIOUS
<1>2. RecordResult(v) = [status |-> v.status, blamed |-> named, control |-> byControl]
  BY <1>1, Zenon DEF RecordResult
<1>3. RecordResult(v).status = v.status /\ RecordResult(v).blamed = named
  BY <1>2
<1>4. /\ v.status = "fail_async_direct" => named = Own
      /\ v.status = "fail_async_dep" => named = v.blamed
  BY <1>1
<1> QED BY <1>3, <1>4

\* A verdict that is not in the denominator needs no justification.
LEMMA Uncounted ==
    \A c, status, blamed, killed :
       status \notin {"pass", "pass_trivial", "fail_other"} \cup AsyncStatuses
         => Justified(c, RecordResult(Verdict(status, blamed)), killed)
<1> SUFFICES ASSUME NEW c, NEW status, NEW blamed, NEW killed,
                    status \notin {"pass", "pass_trivial", "fail_other"} \cup AsyncStatuses,
                    NEW rec, rec = RecordResult(Verdict(status, blamed))
             PROVE  Justified(c, rec, killed)
  BY Zenon
<1>1. rec.status = status
  BY RowColumns, VerdictFields
<1> QED BY <1>1 DEF Justified

LEMMA ForkJudged ==
    ASSUME NEW c \in Crates, NEW r, NEW killed, Fits(r, c, c.fork, killed),
           NEW noTargets, noTargets => c.noTargets,
           NEW v, v = ClassifyFork(r, noTargets)
    PROVE  IF v.status = "NEEDS_CONTROL" THEN Doubtful(c, killed)
           ELSE VerdictOK(v) /\ Justified(c, RecordResult(v), killed)
<1> DEFINE Judged == IF v.status = "NEEDS_CONTROL" THEN Doubtful(c, killed)
                     ELSE VerdictOK(v) /\ Justified(c, RecordResult(v), killed)
<1>1. PICK spool, scan : spool = r.spool /\ scan = ScanFirstError(r.spool)
  OBVIOUS
<1>2. /\ spool \in Seq(Messages) /\ SeenOK(r)
      /\ ErrorsOnly(spool, c, c.fork)
      /\ r.exit = 0 => Clean(c.fork)
      /\ (\E i \in 1..Len(spool) : spool[i].reason = "compiler-message") => ~Clean(c.fork)
      /\ "script" \in r.stderr => ~Clean(c.fork) \/ killed
  BY <1>1, Zenon DEF Fits, SeenOK
<1>3. scan \in Scans /\ FirstError(spool, Len(spool), scan)
  BY <1>1, <1>2, ScanCorrect, Zenon
<1>4. scan.pkg \in Packages \cup {None}
  BY <1>3 DEF Scans
<1>5. CASE r.timedOut \/ Oom(r)
  <2>1. v = Verdict("excluded_resource", None)
    BY <1>5, Zenon DEF ClassifyFork
  <2>2. VerdictOK(v) /\ v.status = "excluded_resource"
    BY <2>1, VerdictFields DEF VerdictOK, Statuses
  <2>3. Justified(c, RecordResult(v), killed)
    BY <2>1, Uncounted DEF AsyncStatuses
  <2> QED BY <2>2, <2>3
<1> DEFINE Ran == ~(r.timedOut \/ Oom(r))
<1>6. CASE Ran /\ Succeeded(r, scan)
  <2>1. PICK status : status = IF noTargets THEN "pass_trivial" ELSE "pass"
    OBVIOUS
  <2>2. v = Verdict(status, None)
    BY <1>1, <1>6, <2>1, Zenon DEF ClassifyFork
  <2>3. Clean(c.fork)
    BY <1>2, <1>6 DEF Succeeded
  <2>4. VerdictOK(v) /\ v.status = status /\ status # "NEEDS_CONTROL"
    BY <2>1, <2>2, VerdictFields DEF VerdictOK, Statuses
  <2>5. RecordResult(v).status = status
    BY <2>4, RowColumns
  <2>6. Justified(c, RecordResult(v), killed)
    <3>1. PICK rec : rec = RecordResult(v)
      OBVIOUS
    <3>2. rec.status = status
      BY <2>5, <3>1
    <3>3. CASE noTargets
      <4>1. rec.status = "pass_trivial" /\ c.noTargets
        BY <2>1, <3>2, <3>3, Zenon
      <4>2. Justified(c, rec, killed)
        BY <2>3, <4>1 DEF Justified, AsyncStatuses
      <4> QED BY <3>1, <4>2, Zenon
    <3>4. CASE ~noTargets
      <4>1. rec.status = "pass"
        BY <2>1, <3>2, <3>4, Zenon
      <4>2. Justified(c, rec, killed)
        BY <2>3, <4>1 DEF Justified, AsyncStatuses
      <4> QED BY <3>1, <4>2, Zenon
    <3> QED BY <3>3, <3>4
  <2> QED BY <2>4, <2>6
<1> DEFINE Failed == Ran /\ ~Succeeded(r, scan)
<1>7. CASE Failed /\ scan.pkg = None
  <2>1. v = Verdict(UnexplainedFailure(r), None)
    BY <1>1, <1>7, Zenon DEF ClassifyFork
  <2>2. v.status = UnexplainedFailure(r) /\ v.blamed = None
    BY <2>1, VerdictFields
  <2>3. CASE "script" \in r.stderr
    BY <1>2, <2>2, <2>3 DEF UnexplainedFailure, Doubtful
  <2>4. CASE "script" \notin r.stderr
    <3>1. UnexplainedFailure(r) \in {"excluded_resolve", "harness_error"}
      BY <2>4 DEF UnexplainedFailure
    <3>2. VerdictOK(v) /\ v.status # "NEEDS_CONTROL"
      BY <2>2, <3>1 DEF VerdictOK, Statuses
    <3>3. Justified(c, RecordResult(v), killed)
      BY <2>1, <3>1, Uncounted DEF AsyncStatuses
    <3> QED BY <3>2, <3>3
  <2> QED BY <2>3, <2>4
<1>8. CASE Failed /\ scan.pkg # None
  <2>1. PICK i \in 1..Len(spool) : /\ spool[i].reason = "compiler-message"
                                   /\ scan.pkg = spool[i].package /\ scan.ban = spool[i].ban
    BY <1>3, <1>8 DEF FirstError
  <2>2. ~Clean(c.fork) /\ scan.pkg \in Exposed(c, c.fork)
    BY <1>2, <2>1 DEF ErrorsOnly
  <2>3. CASE ~scan.ban
    <3>1. v = Verdict("NEEDS_CONTROL", None)
      BY <1>1, <1>8, <2>3, Zenon DEF ClassifyFork
    <3> QED BY <2>2, <3>1, VerdictFields DEF Doubtful
  <2>4. CASE scan.ban
    <3>1. spool[i].ban
      BY <2>1, <2>4, Zenon
    <3>2. c.fork[scan.pkg] = "ban"
      BY <1>2, <2>1, <3>1 DEF ErrorsOnly
    <3>3. v = IF scan.pkg = Own THEN Verdict("fail_async_direct", None)
                                ELSE Verdict("fail_async_dep", scan.pkg)
      <4>1. SourceOf(scan.pkg) = "path" <=> scan.pkg = Own
        BY DEF SourceOf
      <4> QED BY <1>1, <1>8, <2>4, <4>1, Zenon DEF ClassifyFork
    <3>4. /\ v.status = IF scan.pkg = Own THEN "fail_async_direct" ELSE "fail_async_dep"
          /\ v.blamed = IF scan.pkg = Own THEN None ELSE scan.pkg
      BY <3>3, VerdictFields
    <3>5. VerdictOK(v) /\ v.status # "NEEDS_CONTROL"
      BY <1>4, <3>4 DEF VerdictOK, Statuses
    <3>6. RecordResult(v).status = v.status /\ RecordResult(v).blamed = scan.pkg
      BY <3>4, RowColumns
    <3>7. Justified(c, RecordResult(v), killed)
      BY <2>2, <3>2, <3>4, <3>6 DEF Justified, AsyncStatuses
    <3> QED BY <3>5, <3>7
  <2> QED BY <2>3, <2>4
<1> QED BY <1>5, <1>6, <1>7, <1>8

LEMMA ControlJudged ==
    ASSUME NEW c \in Crates, NEW r, NEW killed, NEW other,
           Fits(r, c, c.stock, other), Doubtful(c, killed),
           NEW v, v = Verdict(ClassifyControl(r), None)
    PROVE  VerdictOK(v) /\ Justified(c, RecordResult(v), killed)
<1>1. v.status = ClassifyControl(r) /\ v.blamed = None
  BY VerdictFields
<1>2. ClassifyControl(r) \in {"fail_other", "excluded_broken"}
  BY DEF ClassifyControl
<1>3. VerdictOK(v)
  BY <1>1, <1>2 DEF VerdictOK, Statuses
<1>4. RecordResult(v).status = v.status
  BY RowColumns
<1>5. CASE ClassifyControl(r) = "fail_other"
  <2>1. r.exit = 0
    BY <1>5 DEF ClassifyControl, Succeeded
  <2>2. Clean(c.stock)
    BY <2>1 DEF Fits
  <2> QED BY <1>1, <1>3, <1>4, <1>5, <2>2 DEF Justified, Doubtful, AsyncStatuses
<1>6. CASE ClassifyControl(r) = "excluded_broken"
  BY <1>1, <1>3, <1>4, <1>6 DEF Justified, AsyncStatuses
<1> QED BY <1>2, <1>5, <1>6

\* Nothing recorded claims nothing.
LEMMA NoRowJustified == \A c, killed : Justified(c, NoRow, killed) /\ NoRow.status = None
<1> TAKE c, killed
<1>1. NoRow.status = None
  BY RowColumns, VerdictFields DEF NoRow
<1> QED BY <1>1, PackagesAssumption DEF Justified, Statuses, AsyncStatuses

\* A fetch's verdict and the verdict of an exception are not in the denominator.
LEMMA FetchJudged ==
    \A c, reply, killed : /\ VerdictOK(Verdict(FetchStatus(reply), None))
                          /\ Justified(c, RecordResult(Verdict(FetchStatus(reply), None)), killed)
<1> TAKE c, reply, killed
<1>1. FetchStatus(reply) \in {"harness_error", "excluded_resolve"}
  BY DEF FetchStatus
<1>2. VerdictOK(Verdict(FetchStatus(reply), None))
  BY <1>1, VerdictFields DEF VerdictOK, Statuses
<1> QED BY <1>1, <1>2, Uncounted DEF AsyncStatuses

-----------------------------------------------------------------------------
(***************************************************************************)
(* The steps.                                                              *)
(***************************************************************************)
LEMMA BookkeepingStep == Bookkeeping /\ [Next]_vars => Bookkeeping'
<1> SUFFICES ASSUME Bookkeeping, [Next]_vars PROVE Bookkeeping'
  OBVIOUS
<1>1. ASSUME NEW kind, Fault(kind) PROVE faults' \in 0..MaxFaults
  BY <1>1, RunProbeAssumption DEF Bookkeeping, Fault
<1>2. ASSUME NEW w, Raise(w) PROVE Bookkeeping'
  BY <1>1, <1>2 DEF Bookkeeping, Raise, threadVars
<1>3. ASSUME NEW w, RecycleFails(w), UNCHANGED <<cut, starved>> PROVE Bookkeeping'
  BY <1>1, <1>3 DEF Bookkeeping, RecycleFails
<1>4. ASSUME NEW w, NEW kind, Strikes(w, kind)
      PROVE  faults' \in 0..MaxFaults /\ size' \in [Workers -> {"small", "big", "none"}]
  BY <1>1, <1>4 DEF Bookkeeping, Strikes
<1>5. CASE UNCHANGED vars
  BY <1>5 DEF Bookkeeping, vars, threadVars
<1>6. ASSUME NEW w \in Workers, NEW c \in Crates, Begin(w, c) PROVE Bookkeeping'
  BY <1>6 DEF Bookkeeping, Begin
<1>7. ASSUME NEW w \in Workers, Acquire(w) \/ Report(w) PROVE Bookkeeping'
  BY <1>7 DEF Bookkeeping, Acquire, Report, threadVars
<1>8. ASSUME NEW w \in Workers, Fetch(w) PROVE Bookkeeping'
  <2>1. ASSUME NEW reply, NEW kind, FetchEnds(w, reply), Strikes(w, kind)
        PROVE  Bookkeeping'
    BY <1>4, <2>1 DEF Bookkeeping, FetchEnds
  <2>2. CASE (\E reply \in Replies(w) : FetchEnds(w, reply)) /\ Strikes(w, "none")
    BY <2>1, <2>2
  <2>3. CASE \E kind \in {"download", "corrupt", "deps", "hang", "vm"} :
                Strikes(w, kind) /\ FetchEnds(w, FaultyReply(kind))
    BY <2>1, <2>3
  <2> QED BY <1>2, <1>8, <2>2, <2>3 DEF Fetch
<1>9. ASSUME NEW w \in Workers, Check(w), ~Raise(w) PROVE Bookkeeping'
  <2>1. PICK e : /\ Strikes(w, e.kind)
                 /\ cut' = [cut EXCEPT ![w] = @ \/ e.short]
                 /\ starved' = [starved EXCEPT ![w] = Starved(e)]
    BY <1>9 DEF Check
  <2>2. UNCHANGED <<retried, control>>
    BY <1>9 DEF Check
  <2>3. PICK late, killed : late = (cut[w] \/ e.short) /\ killed = Starved(e)
    OBVIOUS
  <2>4. late \in BOOLEAN /\ killed \in BOOLEAN
    BY <2>3, Zenon DEF Starved
  <2>5. cut' = [cut EXCEPT ![w] = late] /\ starved' = [starved EXCEPT ![w] = killed]
    BY <2>1, <2>3, Zenon
  <2> QED BY <1>4, <2>1, <2>2, <2>4, <2>5 DEF Bookkeeping
<1>10. ASSUME NEW w \in Workers, Meta(w), ~Raise(w) PROVE Bookkeeping'
  <2>1. UNCHANGED <<size, retried, control, cut, starved>>
    BY <1>10 DEF Meta
  <2>2. UNCHANGED faults \/ Fault("meta")
    BY <1>10 DEF Meta
  <2> QED BY <1>1, <2>1, <2>2 DEF Bookkeeping
<1>11. ASSUME NEW w \in Workers, Control(w), ~Raise(w) PROVE Bookkeeping'
  <2>1. control' = [control EXCEPT ![w] = TRUE] /\ UNCHANGED <<retried, cut, starved>>
    BY <1>11 DEF Control
  <2>2. PICK kind : Strikes(w, kind)
    BY <1>11 DEF Control
  <2> QED BY <1>4, <2>1, <2>2 DEF Bookkeeping
<1>12. ASSUME NEW w \in Workers, Grow(w) PROVE Bookkeeping'
  <2>1. CASE RecycleFails(w)
    BY <1>3, <1>12, <2>1 DEF Grow
  <2>2. CASE ~RecycleFails(w)
    BY <1>12, <2>2 DEF Bookkeeping, Grow
  <2> QED BY <2>1, <2>2
<1>13. ASSUME NEW w \in Workers, Shrink(w) PROVE Bookkeeping'
  <2>1. CASE RecycleFails(w)
    BY <1>3, <1>13, <2>1 DEF Shrink
  <2>2. CASE ~RecycleFails(w)
    BY <1>13, <2>2 DEF Bookkeeping, Shrink
  <2> QED BY <2>1, <2>2
<1>14. ASSUME NEW w \in Workers, Recycle(w) PROVE Bookkeeping'
  BY <1>14 DEF Bookkeeping, Recycle
<1> QED BY <1>2, <1>5, <1>6, <1>7, <1>8, <1>9, <1>10, <1>11, <1>12, <1>13, <1>14 DEF Next

\* What has been seen and concluded of another crate is as before.
LEMMA OneSound ==
    ASSUME ProbeInv, Bookkeeping', NEW w \in Workers, Sound(w)',
           at' \in [Workers -> Places], crate' \in [Workers -> Crates],
           IsFunction(seen)', IsFunction(verdict)', IsFunction(row)',
           \A u \in Workers \ {w} :
              /\ at'[u] = at[u] /\ crate'[u] = crate[u] /\ seen'[u] = seen[u]
              /\ verdict'[u] = verdict[u] /\ row'[u] = row[u] /\ starved'[u] = starved[u]
    PROVE  ProbeInv'
<1>1. ASSUME NEW u \in Workers \ {w} PROVE Sound(u)'
  BY <1>1 DEF ProbeInv, Sound
<1> QED BY <1>1 DEF ProbeInv

\* A worker moves on within its probe, with what it has seen and concluded.
LEMMA MovesOn ==
    ASSUME ProbeInv, Bookkeeping', NEW w \in Workers, UNCHANGED <<crate, row>>,
           at[w] # "idle", NEW place \in Places, Go(w, place),
           NEW s, seen' = [seen EXCEPT ![w] = s], SeenOK(s),
           NEW v, verdict' = [verdict EXCEPT ![w] = v], VerdictOK(v),
           NEW killed, starved' = [starved EXCEPT ![w] = killed],
           place = "meta" => Fits(s, crate[w], crate[w].fork, killed),
           place = "control" => Doubtful(crate[w], killed),
           place \in {"shrink", "report"} => Justified(crate[w], RecordResult(v), killed)
    PROVE  ProbeInv'
<1>1. /\ at' \in [Workers -> Places] /\ crate' \in [Workers -> Crates]
      /\ IsFunction(seen)' /\ IsFunction(verdict)' /\ IsFunction(row)'
  BY DEF ProbeInv, IsFunction, Go
<1>2. \A u \in Workers \ {w} :
         /\ at'[u] = at[u] /\ crate'[u] = crate[u] /\ seen'[u] = seen[u]
         /\ verdict'[u] = verdict[u] /\ row'[u] = row[u] /\ starved'[u] = starved[u]
  BY DEF ProbeInv, Bookkeeping, IsFunction, Go
<1>3. at'[w] = place /\ seen'[w] = s /\ verdict'[w] = v
  BY DEF ProbeInv, IsFunction, Go
<1>4. starved'[w] = killed
  BY Zenon DEF ProbeInv, Bookkeeping
<1>5. crate'[w] = crate[w] /\ row'[w] = NoRow
  BY DEF ProbeInv, Sound
<1>6. Justified(crate[w], NoRow, killed)
  BY NoRowJustified
<1>7. Sound(w)'
  BY <1>3, <1>4, <1>5, <1>6, Zenon DEF Sound
<1> QED BY <1>1, <1>2, <1>7, OneSound

LEMMA Unmoved ==
    ASSUME ProbeInv, NEW w \in Workers
    PROVE  /\ seen = [seen EXCEPT ![w] = seen[w]] /\ SeenOK(seen[w])
           /\ verdict = [verdict EXCEPT ![w] = verdict[w]] /\ VerdictOK(verdict[w])
           /\ starved = [starved EXCEPT ![w] = starved[w]]
BY DEF ProbeInv, Bookkeeping, IsFunction, Sound

\* An exception, or a recycling that fails, leaves the loop at its start.
LEMMA GivesUp ==
    ASSUME ProbeInv, Bookkeeping', NEW w \in Workers, at[w] # "idle", Go(w, "idle"),
           UNCHANGED <<crate, seen, verdict, starved, row>>
    PROVE  ProbeInv'
BY Unmoved, MovesOn DEF Places

\* An outcome is returned: again in the big container, or to the report.
LEMMA Returns ==
    ASSUME ProbeInv, Bookkeeping', NEW w \in Workers, UNCHANGED <<crate, starved, row>>,
           at[w] # "idle", NEW s, seen' = [seen EXCEPT ![w] = s], SeenOK(s),
           NEW v, Return(w, v), VerdictOK(v), Justified(crate[w], RecordResult(v), starved[w])
    PROVE  ProbeInv'
<1>1. PICK place \in {"grow", "shrink", "report"} : Go(w, place)
  BY ReturnGoes
<1>2. verdict' = [verdict EXCEPT ![w] = v]
  BY DEF Return
<1>3. place \in Places /\ place # "meta" /\ place # "control"
  BY DEF Places
<1>4. starved' = [starved EXCEPT ![w] = starved[w]]
  BY Unmoved
<1> QED BY <1>1, <1>2, <1>3, <1>4, MovesOn

LEMMA ProbeStep == ProbeInv /\ [Next]_vars => ProbeInv'
<1> SUFFICES ASSUME ProbeInv, [Next]_vars PROVE ProbeInv'
  OBVIOUS
<1> USE DEF At
<1>b. Bookkeeping'
  BY BookkeepingStep DEF ProbeInv
<1>f. \A r, c, results, killed : Fits(r, c, results, killed) => SeenOK(r)
  BY DEF Fits
<1>1. CASE UNCHANGED vars
  BY <1>1 DEF ProbeInv, Bookkeeping, IsFunction, Sound, vars, threadVars
<1>2. ASSUME NEW w \in Workers, NEW c \in Crates, Begin(w, c) PROVE ProbeInv'
  <2>1. /\ at' \in [Workers -> Places] /\ crate' \in [Workers -> Crates]
        /\ IsFunction(seen)' /\ IsFunction(verdict)' /\ IsFunction(row)'
    BY <1>2 DEF Begin, ProbeInv, IsFunction, Go, Places
  <2>2. \A u \in Workers \ {w} :
           /\ at'[u] = at[u] /\ crate'[u] = crate[u] /\ seen'[u] = seen[u]
           /\ verdict'[u] = verdict[u] /\ row'[u] = row[u] /\ starved'[u] = starved[u]
    BY <1>2 DEF Begin, ProbeInv, Bookkeeping, IsFunction, Go
  <2>3. /\ at'[w] = "queued" /\ seen'[w] = seen[w]
        /\ verdict'[w] = NoVerdict /\ row'[w] = NoRow /\ crate'[w] = c
    BY <1>2 DEF Begin, ProbeInv, IsFunction, Go
  <2>4. VerdictOK(NoVerdict)
    BY VerdictFields DEF VerdictOK, NoVerdict, Statuses
  <2>5. SeenOK(seen[w])
    BY Unmoved
  <2>6. Sound(w)'
    BY <2>3, <2>4, <2>5, NoRowJustified DEF Sound
  <2> QED BY <1>b, <2>1, <2>2, <2>6, OneSound
<1>3. ASSUME NEW w \in Workers, Acquire(w) PROVE ProbeInv'
  <2>1. at[w] # "idle" /\ Go(w, "fetch") /\ UNCHANGED <<crate, seen, verdict, starved, row>>
    BY <1>3 DEF Acquire, threadVars
  <2> QED BY <1>b, <2>1, Unmoved, MovesOn DEF Places
<1>4. ASSUME NEW w \in Workers, Fetch(w) PROVE ProbeInv'
  <2>1. ASSUME NEW reply, FetchEnds(w, reply) PROVE ProbeInv'
    <3>1. at[w] # "idle" /\ UNCHANGED <<crate, seen, starved, row>>
      BY <1>4, <2>1 DEF Fetch, FetchEnds
    <3>2. CASE reply = "ok"
      <4>1. Go(w, "check") /\ UNCHANGED verdict
        BY <2>1, <3>2 DEF FetchEnds
      <4> QED BY <1>b, <3>1, <4>1, Unmoved, MovesOn DEF Places
    <3>3. CASE reply # "ok"
      <4>1. Return(w, Verdict(FetchStatus(reply), None))
        BY <2>1, <3>3 DEF FetchEnds
      <4> QED BY <1>b, <3>1, <4>1, Unmoved, FetchJudged, Returns
    <3> QED BY <3>2, <3>3
  <2>2. CASE Raise(w)
    BY <1>4, <1>b, <2>2, GivesUp DEF Raise, Fetch, threadVars
  <2> QED BY <1>4, <2>1, <2>2 DEF Fetch
<1>5. ASSUME NEW w \in Workers, Check(w), ~Raise(w) PROVE ProbeInv'
  <2>1. PICK e \in Execs(w, crate[w].fork) : /\ seen' = [seen EXCEPT ![w] = e.result]
                                            /\ starved' = [starved EXCEPT ![w] = Starved(e)]
    BY <1>5 DEF Check
  <2>2. PICK s, killed : s = e.result /\ killed = Starved(e)
    OBVIOUS
  <2>3. Fits(s, crate[w], crate[w].fork, killed)
    <3>1. crate[w] \in Crates
      BY DEF ProbeInv
    <3> QED BY <2>1, <2>2, <3>1, ExecFits, Zenon
  <2>4. SeenOK(s)
    BY <1>f, <2>3
  <2>5. at[w] # "idle" /\ Go(w, "meta") /\ UNCHANGED <<crate, verdict, row>>
    BY <1>5 DEF Check
  <2>6. seen' = [seen EXCEPT ![w] = s] /\ starved' = [starved EXCEPT ![w] = killed]
    BY <2>1, <2>2, Zenon
  <2> QED BY <1>b, <2>3, <2>4, <2>5, <2>6, Unmoved, MovesOn DEF Places
<1>6. ASSUME NEW w \in Workers, Meta(w), ~Raise(w) PROVE ProbeInv'
  <2>1. /\ at[w] = "meta" /\ UNCHANGED <<crate, starved, row>>
        /\ seen' = [seen EXCEPT ![w] = NoResult]
    BY <1>6 DEF Meta
  <2>2. SeenOK(NoResult)
    BY <1>f, KilledFits DEF NoResult
  <2>3. PICK known \in BOOLEAN : Judge(w, known /\ size[w] # "none" /\ crate[w].noTargets)
    BY <1>6, Zenon DEF Meta
  <2>4. PICK noTargets : noTargets = (known /\ size[w] # "none" /\ crate[w].noTargets)
    OBVIOUS
  <2>5. Judge(w, noTargets)
    BY <2>3, <2>4, Zenon
  <2>6. noTargets => crate[w].noTargets
    BY <2>4, Zenon
  <2>7. PICK v : v = ClassifyFork(seen[w], noTargets)
    OBVIOUS
  <2>8. PICK c \in Crates : c = crate[w]
    BY DEF ProbeInv
  <2>9. PICK killed : killed = starved[w]
    OBVIOUS
  <2>10. Fits(seen[w], c, c.fork, killed)
    BY <2>1, <2>8, <2>9, Zenon DEF ProbeInv, Sound
  <2>11. noTargets => c.noTargets
    BY <2>6, <2>8, Zenon
  <2>12. IF v.status = "NEEDS_CONTROL" THEN Doubtful(c, killed)
         ELSE VerdictOK(v) /\ Justified(c, RecordResult(v), killed)
    BY <2>7, <2>10, <2>11, ForkJudged, Zenon
  <2>13. CASE v.status = "NEEDS_CONTROL"
    <3>1. Go(w, "control") /\ UNCHANGED verdict
      BY <2>5, <2>7, <2>13, Zenon DEF Judge
    <3> QED BY <1>b, <2>1, <2>2, <2>8, <2>9, <2>12, <2>13, <3>1, Unmoved, MovesOn DEF Places
  <2>14. CASE v.status # "NEEDS_CONTROL"
    <3>1. Return(w, v)
      BY <2>5, <2>7, <2>14, Zenon DEF Judge
    <3> QED BY <1>b, <2>1, <2>2, <2>8, <2>9, <2>12, <2>14, <3>1, Returns
  <2> QED BY <2>13, <2>14
<1>7. ASSUME NEW w \in Workers, Control(w), ~Raise(w) PROVE ProbeInv'
  <2>1. at[w] = "control" /\ UNCHANGED <<crate, seen, starved, row>>
    BY <1>7 DEF Control
  <2>2. PICK e \in Execs(w, crate[w].stock) :
          Return(w, Verdict(ClassifyControl(e.result), None))
    BY <1>7 DEF Control
  <2>3. PICK r, v : r = e.result /\ v = Verdict(ClassifyControl(r), None)
    OBVIOUS
  <2>4. PICK c \in Crates : c = crate[w]
    BY DEF ProbeInv
  <2>5. PICK killed : killed = starved[w]
    OBVIOUS
  <2>6. Fits(r, c, c.stock, Starved(e)) /\ Doubtful(c, killed)
    <3>1. Fits(r, c, c.stock, Starved(e))
      BY <2>2, <2>3, <2>4, ExecFits
    <3>2. Doubtful(crate[w], starved[w])
      BY <2>1 DEF ProbeInv, Sound
    <3> QED BY <2>4, <2>5, <3>1, <3>2, Zenon
  <2>7. VerdictOK(v) /\ Justified(c, RecordResult(v), killed)
    BY <2>3, <2>6, ControlJudged
  <2>8. Return(w, v)
    BY <2>2, <2>3
  <2> QED BY <1>b, <2>1, <2>4, <2>5, <2>7, <2>8, Unmoved, Returns
<1>8. ASSUME NEW w \in Workers, Grow(w) PROVE ProbeInv'
  <2>1. /\ at[w] # "idle" /\ UNCHANGED <<crate, seen, verdict, starved, row>>
        /\ Go(w, "queued") \/ Go(w, "idle")
    BY <1>8 DEF Grow, RecycleFails
  <2> QED BY <1>b, <2>1, Unmoved, MovesOn DEF Places
<1>9. ASSUME NEW w \in Workers, Shrink(w) PROVE ProbeInv'
  <2>1. /\ at[w] = "shrink" /\ UNCHANGED <<crate, seen, verdict, starved, row>>
        /\ Go(w, "report") \/ Go(w, "idle")
    BY <1>9 DEF Shrink, RecycleFails
  <2>2. Justified(crate[w], RecordResult(verdict[w]), starved[w])
    BY <2>1 DEF ProbeInv, Sound
  <2> QED BY <1>b, <2>1, <2>2, Unmoved, MovesOn DEF Places
<1>10. ASSUME NEW w \in Workers, Report(w) PROVE ProbeInv'
  <2>1. /\ at[w] = "report" /\ Go(w, "idle") /\ UNCHANGED <<crate, seen, verdict, starved>>
        /\ row' = [row EXCEPT ![w] = RecordResult(verdict[w])]
    BY <1>10 DEF Report, threadVars
  <2>2. /\ at' \in [Workers -> Places] /\ crate' \in [Workers -> Crates]
        /\ IsFunction(seen)' /\ IsFunction(verdict)' /\ IsFunction(row)'
    BY <2>1 DEF ProbeInv, IsFunction, Go, Places
  <2>3. \A u \in Workers \ {w} :
           /\ at'[u] = at[u] /\ crate'[u] = crate[u] /\ seen'[u] = seen[u]
           /\ verdict'[u] = verdict[u] /\ row'[u] = row[u] /\ starved'[u] = starved[u]
    BY <2>1 DEF ProbeInv, IsFunction, Go
  <2>4. PICK rec : rec = RecordResult(verdict[w])
    OBVIOUS
  <2>5. at'[w] = "idle" /\ row'[w] = rec
    BY <2>1, <2>4 DEF ProbeInv, IsFunction, Go
  <2>6. Justified(crate[w], rec, starved[w])
    BY <2>1, <2>4 DEF ProbeInv, Sound
  <2>7. rec.status \in Statuses
    BY <2>4, RowColumns, Unmoved DEF VerdictOK
  <2>8. Sound(w)'
    BY <2>1, <2>5, <2>6, <2>7, Unmoved DEF Sound
  <2> QED BY <1>b, <2>2, <2>3, <2>8, OneSound
<1>11. ASSUME NEW w \in Workers, Recycle(w) PROVE ProbeInv'
  BY <1>11, <1>b DEF Recycle, ProbeInv, IsFunction, Sound
<1>12. ASSUME NEW w \in Workers, Check(w) \/ Meta(w) \/ Control(w), Raise(w) PROVE ProbeInv'
  <2>1. /\ at[w] # "idle" /\ Go(w, "idle")
        /\ UNCHANGED <<crate, seen, verdict, starved, row>>
    BY <1>12 DEF Check, Meta, Control, Raise, threadVars
  <2> QED BY <1>b, <2>1, GivesUp
<1> QED BY <1>1, <1>2, <1>3, <1>4, <1>5, <1>6, <1>7, <1>8, <1>9, <1>10, <1>11, <1>12 DEF Next

LEMMA ProbeInit == Init => ProbeInv
<1> SUFFICES ASSUME Init PROVE ProbeInv
  OBVIOUS
<1>1. Bookkeeping
  BY RunProbeAssumption DEF Init, Bookkeeping
<1>2. /\ at \in [Workers -> Places] /\ crate \in [Workers -> Crates]
      /\ IsFunction(seen) /\ IsFunction(verdict) /\ IsFunction(row)
  <2>1. (CHOOSE c \in Crates : TRUE) \in Crates
    BY RunProbeAssumption
  <2> QED BY <2>1 DEF Init, IsFunction, Places
<1>3. SeenOK(NoResult)
  BY KilledFits DEF NoResult, Fits
<1>4. VerdictOK(NoVerdict)
  BY VerdictFields DEF VerdictOK, NoVerdict, Statuses
<1>5. ASSUME NEW w \in Workers PROVE Sound(w)
  <2>1. at[w] = "idle" /\ seen[w] = NoResult /\ verdict[w] = NoVerdict /\ row[w] = NoRow
    BY DEF Init
  <2> QED BY <1>3, <1>4, <2>1, NoRowJustified DEF Sound
<1> QED BY <1>1, <1>2, <1>5 DEF ProbeInv

\* The types of all that run_probe, the retry and FETCH_SEM keep.
THEOREM ProbeTypeCorrect == Spec => []ProbeTypeOK
<1>1. ProbeInv /\ SlotsInv => ProbeTypeOK
  <2> SUFFICES ASSUME ProbeInv, SlotsInv PROVE ProbeTypeOK
    OBVIOUS
  <2>1. slots \in 0..FetchConcurrency
    <3>1. Cardinality(Fetching) \in Nat
      BY RunProbeAssumption, FS_Subset, FS_CardinalityType DEF Fetching
    <3> QED BY <3>1, RunProbeAssumption DEF SlotsInv
  <2>2. ASSUME NEW w \in Workers
        PROVE  /\ SeenOK(seen[w]) /\ VerdictOK(verdict[w])
               /\ row[w] = NoRow \/ row[w].status \in Statuses
    BY DEF ProbeInv, Sound
  <2> QED BY <2>1, <2>2 DEF ProbeInv, Bookkeeping, ProbeTypeOK, SeenOK, VerdictOK
<1> QED BY <1>1, ProbeInit, ProbeStep, SlotsInit, SlotsStep, PTL DEF Spec

\* What is counted is true of the fork, whatever cargo, the network and the
\* containers do and however the workers interleave: a recorded pass was a complete
\* build, a blamed package was refused for its async syntax, and a fail_other
\* compiles on stock Rust and fails on the fork, unless its build script was killed
\* for want of memory in the check it is judged by.
THEOREM CountedCorrect == Spec => []CountedAsFork
<1>1. ProbeInv => CountedAsFork
  BY DEF ProbeInv, Sound, CountedAsFork
<1> QED BY <1>1, ProbeInit, ProbeStep, PTL DEF Spec
=============================================================================
