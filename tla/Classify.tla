------------------------------- MODULE Classify -------------------------------
(***************************************************************************)
(* What the survey concludes from one run of cargo check: the scan of the  *)
(* message stream, the verdict on the fork's run and on the control's, and *)
(* the row record_result makes of it.  Pure operators, used by RunProbe.   *)
(*                                                                         *)
(* A package stands for its package id, and a compiler error for the       *)
(* package it is in and whether its text is BAN_MESSAGE.  Of stderr only   *)
(* the signatures the classifier looks for are kept.                       *)
(***************************************************************************)
EXTENDS Naturals, Sequences, FiniteSets, SequencesExt

CONSTANTS
    Packages,    \* the probed crate's own package and its dependencies
    Own,         \* the crate's own package
    None

\* db.STATUSES and its two subsets.
Statuses == {"pass", "pass_trivial", "fail_async_direct", "fail_async_dep", "fail_other",
             "excluded_broken", "excluded_resolve", "excluded_resource", "harness_error"}
ControlStatuses == {"fail_other", "excluded_broken"}
AsyncStatuses   == {"fail_async_direct", "fail_async_dep"}

\* A crate has finitely many dependencies, and NULL is neither a package nor a
\* status.
ASSUME PackagesAssumption ==
    /\ IsFiniteSet(Packages) /\ Own \in Packages
    /\ None \notin Packages /\ None \notin Statuses

-----------------------------------------------------------------------------
(***************************************************************************)
(* exec_phase's result: exit code, timed_out, the spool (a sequence of     *)
(* messages) and stderr (a set of signatures).                             *)
(***************************************************************************)
Error(pkg, ban)   == [reason |-> "compiler-message", package |-> pkg, ban |-> ban]
Finished(success) == [reason |-> "build-finished", success |-> success]

Signatures == {"script", "resolve", "oom"}

Ended(exit, spool, stderr) ==
    [exit |-> exit, timedOut |-> FALSE, spool |-> spool, stderr |-> stderr]

\* The client gave up waiting and killed the exec.
ForceKilled(spool) == [exit |-> 9, timedOut |-> TRUE, spool |-> spool, stderr |-> {}]

\* runner's oom: the exit code of a SIGKILL, or "oom" somewhere in stderr, which
\* also holds the names of the crates being checked.
Oom(r) == r.exit = 137 \/ "oom" \in r.stderr

-----------------------------------------------------------------------------
NothingScanned == [pkg |-> None, ban |-> FALSE, success |-> None]

\* One line of scan_first_error's loop: the first error wins.
ScanLine(scan, msg) ==
    IF msg.reason = "build-finished" THEN [scan EXCEPT !.success = msg.success]
    ELSE IF scan.pkg = None THEN [scan EXCEPT !.pkg = msg.package, !.ban = msg.ban]
    ELSE scan

ScanFirstError(spool) == FoldLeft(ScanLine, NothingScanned, spool)

\* What parse_package_id says of a package: the crate itself is a path, every
\* dependency comes from the registry.
SourceOf(pkg) == IF pkg = Own THEN "path" ELSE "registry"

\* Mutant: success is believed if either the exit code or the stream says so.
Succeeded_Either(r, scan) == r.exit = 0 \/ scan.success # FALSE

Succeeded(r, scan) == r.exit = 0 /\ scan.success # FALSE

Verdict(status, blamed) == [status |-> status, blamed |-> blamed]

\* Mutant: a failed build script is taken for a broken crate without a control.
UnexplainedFailure_NoControl(r) ==
    IF "script" \in r.stderr THEN "excluded_broken"
    ELSE IF "resolve" \in r.stderr THEN "excluded_resolve"
    ELSE "harness_error"

\* A failure without a compiler error: stderr decides.
UnexplainedFailure(r) ==
    IF "script" \in r.stderr THEN "NEEDS_CONTROL"
    ELSE IF "resolve" \in r.stderr THEN "excluded_resolve"
    ELSE "harness_error"

ClassifyFork(r, noTargets) ==
    LET scan == ScanFirstError(r.spool) IN
    IF r.timedOut \/ Oom(r) THEN Verdict("excluded_resource", None)
    ELSE IF Succeeded(r, scan)
         THEN Verdict(IF noTargets THEN "pass_trivial" ELSE "pass", None)
    ELSE IF scan.pkg = None THEN Verdict(UnexplainedFailure(r), None)
    ELSE IF ~scan.ban THEN Verdict("NEEDS_CONTROL", None)
    ELSE IF SourceOf(scan.pkg) = "path" THEN Verdict("fail_async_direct", None)
    ELSE Verdict("fail_async_dep", scan.pkg)

\* A control that ran out of time or memory has failed like any other.
ClassifyControl(r) ==
    IF Succeeded(r, ScanFirstError(r.spool)) THEN "fail_other" ELSE "excluded_broken"

\* The columns record_result fills: whom to blame, and whether the control
\* toolchain is named.
RecordResult(v) ==
    [status  |-> v.status,
     blamed  |-> CASE v.status = "fail_async_direct" -> Own
                   [] v.status = "fail_async_dep"    -> v.blamed
                   [] OTHER                          -> None,
     control |-> v.status \in ControlStatuses]
=============================================================================
