------------------------------- MODULE RunProbe -------------------------------
(***************************************************************************)
(* run_probe and the retry around it in worker_loop: fetch, check and, for *)
(* a failure that is not async, control, in several worker threads that    *)
(* share FETCH_SEM.  Each worker has one container.                        *)
(*                                                                         *)
(* The survey cannot see what a crate is; the model can.  A crate is a     *)
(* record of what compiling each of its packages does on the fork and on   *)
(* stock Rust, and the properties compare the row that is recorded with    *)
(* it.  What cargo and the network may make of a crate is the external     *)
(* part: the endings of a check, the replies of a fetch.                   *)
(*                                                                         *)
(* Abstractions.  A worker is handed any crate of Crates.  An exec that    *)
(* was killed or raised leaves nothing behind in the container.  Faults    *)
(* are bounded by MaxFaults.                                               *)
(***************************************************************************)
EXTENDS Classify, FiniteSetsExt

CONSTANTS
    Workers,
    FetchConcurrency,   \* FETCH_CONCURRENCY
    Crates,             \* the crates a worker may be handed
    Faults,             \* the kinds of fault in this instance
    MaxFaults           \* bound: how many of them strike

Results == {"ok", "ban", "error", "script", "refused"}
Loads   == {"light", "heavy", "long"}

\* fork, stock: what compiling each package does: it compiles, is refused for
\* async syntax, fails otherwise, or its build script fails; or cargo refuses to
\* start because of it (its rust-version, the lock file).  needs: which
\* dependency needs which (transitively closed; the crate needs all).  load:
\* whether memory or time may run out.  mentionsOom: whether some name cargo
\* prints contains "oom".
CrateRecords ==
    [resolves : BOOLEAN, fork : [Packages -> Results], stock : [Packages -> Results],
     needs : SUBSET (Packages \X Packages), noTargets : BOOLEAN, load : Loads,
     mentionsOom : BOOLEAN]

FaultKinds == {"download", "corrupt", "deps", "hang", "stuck", "vm", "meta", "raise",
               "recycle"}

ASSUME RunProbeAssumption ==
    /\ IsFiniteSet(Workers)
    /\ FetchConcurrency \in Nat \ {0}
    /\ Crates \subseteq CrateRecords /\ Crates # {}
    /\ \A c \in Crates, p \in Packages : c.stock[p] # "ban"
    /\ Faults \subseteq FaultKinds /\ MaxFaults \in Nat

VARIABLES
    slots,    \* FETCH_SEM
    at,       \* where each worker is in run_probe and the retry around it
    crate,    \* the crate it probes
    size,     \* its container: "small", "big" or "none"
    retried,  \* _retried, as the loop uses it: whether this is the second run
    seen,     \* the result of this run's check, until it is classified
    verdict,  \* the outcome this run returned
    control,  \* whether this run ran the control
    cut,      \* history: whether a check of this probe ran out of time or memory
    starved,  \* history: whether this run's check killed a build script's compiler
    row,      \* what was last recorded, until the next crate
    faults

threadVars == <<crate, size, retried, seen, verdict, control, cut, starved>>
vars == <<slots, at, threadVars, row, faults>>

Places == {"idle", "queued", "fetch", "check", "meta", "control", "grow", "shrink",
           "report"}

NoResult  == ForceKilled(<<>>)
NoVerdict == Verdict("harness_error", None)
NoRow     == RecordResult(Verdict(None, None))

Init ==
    /\ slots = FetchConcurrency
    /\ at = [w \in Workers |-> "idle"]
    /\ crate = [w \in Workers |-> CHOOSE c \in Crates : TRUE]
    /\ size = [w \in Workers |-> "small"]
    /\ retried = [w \in Workers |-> FALSE]
    /\ seen = [w \in Workers |-> NoResult]
    /\ verdict = [w \in Workers |-> NoVerdict]
    /\ control = [w \in Workers |-> FALSE]
    /\ cut = [w \in Workers |-> FALSE]
    /\ starved = [w \in Workers |-> FALSE]
    /\ row = [w \in Workers |-> NoRow]
    /\ faults = 0

-----------------------------------------------------------------------------
(***************************************************************************)
(* Cargo (external).  It builds dependencies before dependents, several    *)
(* packages at a time, and starts nothing new after a failure: the         *)
(* packages that fail in one build are some of those whose dependencies    *)
(* all compile, and their errors arrive in any order.                      *)
(***************************************************************************)
NeededBy(c, p) == IF p = Own THEN Packages \ {Own} ELSE {q \in Packages : <<p, q>> \in c.needs}

Refuses(results) == \E p \in Packages : results[p] = "refused"

Exposed(c, results) ==
    {p \in Packages : /\ results[p] # "ok" /\ ~Refuses(results)
                      /\ \A q \in NeededBy(c, p) : results[q] = "ok"}

Clean(results) == \A p \in Packages : results[p] = "ok"

Scripts(results) == {p \in Packages : results[p] = "script"}

\* The errors of some of the packages, as they arrive.
ErrorsOf(results, failing) ==
    {[i \in DOMAIN order |-> Error(order[i], results[order[i]] = "ban")] :
        order \in SetToSeqs(failing \ Scripts(results))}

\* What was printed when a build was cut short.
ErrorsSoFar(c, results) ==
    UNION {ErrorsOf(results, failing) : failing \in SUBSET Exposed(c, results)}

\* Names in cargo's output, and what it says of itself.
Says(c, signs) == (IF c.mentionsOom THEN {"oom"} ELSE {}) \cup signs

ScriptSigns(results, failing) ==
    IF failing \cap Scripts(results) # {} THEN {"script"} ELSE {}

Failures(c, results) ==
    UNION {{Ended(101, Append(errors, Finished(FALSE)), Says(c, ScriptSigns(results, failing))) :
                errors \in ErrorsOf(results, failing)} :
           failing \in (SUBSET Exposed(c, results)) \ {{}}}

Builds(c, results) ==
    IF Clean(results) THEN {Ended(0, <<Finished(TRUE)>>, Says(c, {}))}
    ELSE IF Refuses(results) THEN {Ended(101, <<>>, Says(c, {"resolve"}))}
    ELSE Failures(c, results)

\* probe.sh's own timeout, which is shorter than the client's in both containers,
\* ends cargo with exit code 124.
OutOfTime(c, errors) == {Ended(124, errors, Says(c, {}))}

\* The kernel kills rustc, or the compiler a build script runs, or the VM.
OutOfMemory(c, errors) ==
    {Ended(101, Append(errors, Finished(FALSE)), Says(c, {})),
     Ended(101, Append(errors, Finished(FALSE)), Says(c, {"script"})),
     Ended(137, errors, Says(c, {}))}

\* What may be cut short, in the big container as in the small one.
CutShort(c, results) ==
    UNION {CASE c.load = "light" -> {}
             [] c.load = "heavy" -> OutOfMemory(c, errors)
             [] c.load = "long"  -> OutOfTime(c, errors) : errors \in ErrorsSoFar(c, results)}

\* The VM dies: the client loses it, or is told of a SIGKILL.
LostVM(c, results) ==
    {Ended(exit, errors, {}) : exit \in {1, 137}, errors \in ErrorsSoFar(c, results)}

-----------------------------------------------------------------------------
(***************************************************************************)
(* The steps of run_probe.                                                 *)
(***************************************************************************)
At(w, place) == at[w] = place
Go(w, place) == at' = [at EXCEPT ![w] = place]

Fault(kind) == kind \in Faults /\ faults < MaxFaults /\ faults' = faults + 1

\* A crate is claimed.
Begin(w, c) ==
    /\ At(w, "idle")
    /\ Go(w, "queued")
    /\ crate' = [crate EXCEPT ![w] = c]
    /\ retried' = [retried EXCEPT ![w] = FALSE]
    /\ control' = [control EXCEPT ![w] = FALSE]
    /\ cut' = [cut EXCEPT ![w] = FALSE]
    /\ starved' = [starved EXCEPT ![w] = FALSE]
    /\ verdict' = [verdict EXCEPT ![w] = NoVerdict]
    /\ row' = [row EXCEPT ![w] = NoRow]
    /\ UNCHANGED <<slots, size, seen, faults>>

\* The retry and the recycling around it: what the loop does with an outcome.
RetriesBig(w, status) == status = "excluded_resource" /\ ~retried[w]

Return(w, v) ==
    /\ verdict' = [verdict EXCEPT ![w] = v]
    /\ Go(w, CASE RetriesBig(w, v.status) -> "grow"
               [] retried[w] -> "shrink"
               [] OTHER -> "report")

\* An exception leaves run_probe; the loop prints it and records nothing.
Raise(w) == Fault("raise") /\ Go(w, "idle") /\ UNCHANGED threadVars

Acquire(w) ==
    /\ At(w, "queued") /\ slots > 0
    /\ slots' = slots - 1
    /\ Go(w, "fetch")
    /\ UNCHANGED <<threadVars, row, faults>>

\* Mutant: the slot is given back only when the exec returns.
Released_NotOnRaise == IF \E w \in Workers : at[w] = "fetch" /\ at'[w] = "idle"
                       THEN slots ELSE slots + 1

\* with FETCH_SEM: the slot is given back however the exec ends.
Released == slots + 1

\* The fetch's JSON line: no line at all without a container; an unresolvable
\* crate and a dependency that did not download get the same answer.
Replies(w) ==
    IF size[w] = "none" THEN {"nothing"}
    ELSE IF crate[w].resolves THEN {"ok"} ELSE {"resolve/fetch failed"}

FaultyReply(kind) ==
    CASE kind = "download" -> "download failed"
      [] kind = "corrupt"  -> "corrupt crate"
      [] kind = "deps"     -> "resolve/fetch failed"
      [] kind = "hang"     -> "timed out"
      [] kind = "vm"       -> "nothing"

\* Mutant: a corrupt crate gets a status of its own, which the table has not.
FetchStatus_NewStatus(reply) ==
    IF reply \in {"timed out", "download failed"} THEN "harness_error"
    ELSE IF reply = "corrupt crate" THEN "excluded_corrupt" ELSE "excluded_resolve"

\* Only a failed download is marked transient.
FetchStatus(reply) ==
    IF reply \in {"timed out", "download failed"} THEN "harness_error" ELSE "excluded_resolve"

FetchEnds(w, reply) ==
    /\ IF reply = "ok" THEN Go(w, "check") /\ UNCHANGED verdict
                       ELSE Return(w, Verdict(FetchStatus(reply), None))
    /\ UNCHANGED <<crate, retried, seen, control, cut, starved>>

\* The container is gone after a fault of this kind.
Strikes(w, kind) ==
    /\ IF kind = "none" THEN UNCHANGED faults ELSE Fault(kind)
    /\ size' = IF kind = "vm" THEN [size EXCEPT ![w] = "none"] ELSE size

Fetch(w) ==
    /\ At(w, "fetch")
    /\ \/ (\E reply \in Replies(w) : FetchEnds(w, reply)) /\ Strikes(w, "none")
       \/ /\ size[w] # "none"
          /\ \E kind \in {"download", "corrupt", "deps", "hang", "vm"} :
                Strikes(w, kind) /\ FetchEnds(w, FaultyReply(kind))
       \/ Raise(w)
    /\ slots' = Released
    /\ UNCHANGED row

\* The endings of an exec of cargo check: by itself, cut short, hanging until the
\* client kills it, or with its VM; without a container it does not start.
Endings(rs, short, kind) == {[result |-> r, short |-> short, kind |-> kind] : r \in rs}

Execs(w, results) ==
    IF size[w] = "none" THEN Endings({Ended(1, <<>>, {})}, FALSE, "none")
    ELSE Endings(Builds(crate[w], results), FALSE, "none")
            \cup Endings(CutShort(crate[w], results), TRUE, "none")
            \cup Endings({ForceKilled(<<>>)}, TRUE, "stuck")
            \cup Endings(LostVM(crate[w], results), FALSE, "vm")

\* A build script failed in a check that was cut short.
Starved(e) == e.short /\ "script" \in e.result.stderr

Check(w) ==
    /\ At(w, "check")
    /\ \/ /\ \E e \in Execs(w, crate[w].fork) :
                /\ Strikes(w, e.kind)
                /\ seen' = [seen EXCEPT ![w] = e.result]
                /\ cut' = [cut EXCEPT ![w] = @ \/ e.short]
                /\ starved' = [starved EXCEPT ![w] = Starved(e)]
          /\ Go(w, "meta")
          /\ UNCHANGED <<crate, retried, verdict, control>>
       \/ Raise(w)
    /\ UNCHANGED <<slots, row>>

Judge(w, noTargets) ==
    LET v == ClassifyFork(seen[w], noTargets)
    IN  IF v.status = "NEEDS_CONTROL" THEN Go(w, "control") /\ UNCHANGED verdict
                                      ELSE Return(w, v)

\* _meta_no_targets, which says no when anything is wrong, then classify_fork.
Meta(w) ==
    /\ At(w, "meta")
    /\ \/ /\ \E known \in BOOLEAN :
                /\ IF known THEN UNCHANGED faults ELSE Fault("meta")
                /\ Judge(w, known /\ size[w] # "none" /\ crate[w].noTargets)
          /\ seen' = [seen EXCEPT ![w] = NoResult]
          /\ UNCHANGED <<crate, size, retried, control, cut, starved>>
       \/ Raise(w)
    /\ UNCHANGED <<slots, row>>

Control(w) ==
    /\ At(w, "control")
    /\ \/ /\ \E e \in Execs(w, crate[w].stock) :
                /\ Strikes(w, e.kind)
                /\ Return(w, Verdict(ClassifyControl(e.result), None))
          /\ control' = [control EXCEPT ![w] = TRUE]
          /\ UNCHANGED <<crate, retried, seen, cut, starved>>
       \/ Raise(w)
    /\ UNCHANGED <<slots, row>>

\* recycle_worker, before the second run and after it.  When it raises, the old
\* container is still there (`container stop` timed out) or gone without a new
\* one, and nothing is recorded.
RecycleFails(w) ==
    /\ Fault("recycle") /\ Go(w, "idle")
    /\ size' = [size EXCEPT ![w] = "none"] \/ UNCHANGED size
    /\ UNCHANGED <<retried, control>>

Grow(w) ==
    /\ At(w, "grow")
    /\ \/ /\ Go(w, "queued")
          /\ size' = [size EXCEPT ![w] = "big"]
          /\ retried' = [retried EXCEPT ![w] = TRUE]
          /\ control' = [control EXCEPT ![w] = FALSE]
          /\ UNCHANGED faults
       \/ RecycleFails(w)
    /\ UNCHANGED <<slots, crate, seen, verdict, cut, starved, row>>

Shrink(w) ==
    /\ At(w, "shrink")
    /\ \/ /\ Go(w, "report")
          /\ size' = [size EXCEPT ![w] = "small"]
          /\ UNCHANGED <<retried, control, faults>>
       \/ RecycleFails(w)
    /\ UNCHANGED <<slots, crate, seen, verdict, cut, starved, row>>

Report(w) ==
    /\ At(w, "report")
    /\ Go(w, "idle")
    /\ row' = [row EXCEPT ![w] = RecordResult(verdict[w])]
    /\ UNCHANGED <<slots, threadVars, faults>>

\* Every RECYCLE_EVERY probes the container is replaced.
Recycle(w) ==
    /\ At(w, "idle")
    /\ size' = [size EXCEPT ![w] = "small"]
    /\ UNCHANGED <<slots, at, crate, retried, seen, verdict, control, cut, starved, row,
                   faults>>

-----------------------------------------------------------------------------
Next ==
    \E w \in Workers :
        \/ \E c \in Crates : Begin(w, c)
        \/ Acquire(w) \/ Fetch(w) \/ Check(w) \/ Meta(w) \/ Control(w)
        \/ Grow(w) \/ Shrink(w) \/ Report(w) \/ Recycle(w)

Spec == Init /\ [][Next]_vars

-----------------------------------------------------------------------------
Messages == [reason : {"compiler-message"}, package : Packages, ban : BOOLEAN]
                \cup [reason : {"build-finished"}, success : BOOLEAN]

ProbeTypeOK ==
    /\ slots \in 0..FetchConcurrency
    /\ at \in [Workers -> Places]
    /\ crate \in [Workers -> Crates]
    /\ size \in [Workers -> {"small", "big", "none"}]
    /\ retried \in [Workers -> BOOLEAN] /\ control \in [Workers -> BOOLEAN]
    /\ cut \in [Workers -> BOOLEAN] /\ starved \in [Workers -> BOOLEAN]
    /\ \A w \in Workers :
          /\ seen[w].exit \in Nat /\ seen[w].timedOut \in BOOLEAN
          /\ seen[w].spool \in Seq(Messages) /\ seen[w].stderr \subseteq Signatures
          /\ verdict[w].status \in Statuses /\ verdict[w].blamed \in Packages \cup {None}
          /\ row[w] = NoRow \/ row[w].status \in Statuses
    /\ faults \in 0..MaxFaults

\* The fetch slots in use are the workers that fetch, and no slot is lost: at
\* most FETCH_CONCURRENCY crates are fetched at once and, with deadlock
\* checked, no worker waits for a slot nobody holds.
SlotsConserved == slots + Quantify(Workers, LAMBDA w : at[w] = "fetch") = FetchConcurrency

\* What a row in the denominator says of its crate.
Justified(c, r, killed) ==
    CASE r.status = "pass" -> Clean(c.fork)
      [] r.status = "pass_trivial" -> Clean(c.fork) /\ c.noTargets
      [] r.status \in AsyncStatuses ->
             /\ r.blamed \in Exposed(c, c.fork) /\ c.fork[r.blamed] = "ban"
             /\ r.status = "fail_async_direct" <=> r.blamed = Own
      [] r.status = "fail_other" -> Clean(c.stock) /\ (~Clean(c.fork) \/ killed)
      [] OTHER -> TRUE

\* What is counted is true of the fork: a pass was a complete build; the blamed
\* package was refused for its async syntax while all it needs compiled, and is
\* the crate itself exactly for a direct failure; a fail_other compiles on stock
\* Rust and fails on the fork, or else its build script was killed for want of
\* memory in the check it is judged by.  No other timeout, killed compiler, dead
\* VM or lost download is counted as something it is not.  Of stock Rust it says
\* nothing where no control runs.
CountedAsFork == \A w \in Workers : Justified(crate[w], row[w], starved[w])

\* "survival among crates that actually build on today's stable Rust": a crate that
\* is not to be tried again is counted, for or against the fork, exactly if it
\* builds on stock.
DenominatorIsStock ==
    \A w \in Workers : row[w].status \notin {None, "harness_error"} =>
        (row[w].status \in {"pass", "pass_trivial", "fail_other"} \cup AsyncStatuses
            <=> crate[w].resolves /\ Clean(crate[w].stock))

\* "the control toolchain ran iff we needed to disambiguate": the row names the
\* control toolchain if and only if the run it reports had a control run.
ControlRecorded ==
    \A w \in Workers : row[w] # NoRow => (row[w].control <=> control[w])

\* "lazy retry slot for timeout/OOM cases": a check that ran out of time or
\* memory is run again in the big container before anything is recorded.
BigSlotForTimeouts ==
    \A w \in Workers : row[w] # NoRow /\ cut[w] => retried[w]
=============================================================================
