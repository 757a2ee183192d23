------------------------------- MODULE ExecPhase -------------------------------
(***************************************************************************)
(* exec_phase and the two scripts it runs for every crate: what RunProbe   *)
(* takes as one step is here a client process, two drain threads, a spool  *)
(* file and a script in a container, each at its own pace, and what        *)
(* remains of them when the client's patience ends.                        *)
(*                                                                         *)
(* The containers share the crate cache, into which others download at the *)
(* same time.  A container keeps /work/src over its probes and recycles.   *)
(*                                                                         *)
(* Abstractions.  Timeouts may fire at any moment.  The control phase is a *)
(* check with another spool.  A curl or tar whose script was killed may go *)
(* on, but not to any effect: curl's file is nobody's, and the next fetch  *)
(* removes the directory that tar works in.  A line of cargo's stream is   *)
(* the crate it was printed for, and all lines are equally long.           *)
(***************************************************************************)
EXTENDS Naturals, Sequences, FiniteSets, SequencesExt

CONSTANTS
    Workers, Crates, None,
    MaxLines,        \* bound: the lines a check prints
    MaxStragglers    \* bound: scripts left behind: kills that fail, clients that end alone

ASSUME ExecAssumption ==
    /\ None \notin Crates /\ None \notin {"fetch", "check"}
    /\ MaxLines \in Nat /\ MaxStragglers \in Nat

VARIABLES
    host,      \* each worker thread's exec_phase call
    vm,        \* the scripts that run in each container
    src,       \* /work/src: how much of each crate's directory is there
    spool,     \* each worker's spool file, line by line
    cache,     \* /cache/crates: "absent", "torn" or "whole"
    others,    \* the crates that containers beyond Workers are downloading
    tainted,   \* history: whether a script was left behind here since the last recycle
    failures   \* history: how often a script was left behind

vars == <<host, vm, src, spool, cache, others, tainted, failures>>

\* A call: where it is, the phase and crate, whether it timed out, whether its
\* client lives, what the script printed at its end, the last fetch's verdict.
Idle == [at |-> "idle", phase |-> None, crate |-> None, late |-> FALSE,
         client |-> FALSE, said |-> "nothing", verdict |-> None]

\* A script: the crate and step, the directory it compiles, its client ("exec"
\* is the one waited for, "stray" one left behind, "cut" none) and how much of
\* the spool that client has written.
Script(c, step) ==
    [crate |-> c, step |-> step, dir |-> None, client |-> "exec", off |-> 0]

Init ==
    /\ host = [w \in Workers |-> Idle]
    /\ vm = [w \in Workers |-> {}]
    /\ src = [w \in Workers |-> [c \in Crates |-> "none"]]
    /\ spool = [w \in Workers |-> <<>>]
    /\ cache = [c \in Crates |-> "absent"]
    /\ others = {}
    /\ tainted = [w \in Workers |-> FALSE]
    /\ failures = 0

-----------------------------------------------------------------------------
(***************************************************************************)
(* exec_phase, called by run_probe for the fetch and then for the check.   *)
(***************************************************************************)
At(w, place)  == host[w].at = place
Goes(w, call) == host' = [host EXCEPT ![w] = call]

\* Mutant: the spool is opened for appending.
Opened_Append(w) == spool[w]

\* open(spool_path, "wb"): the file is emptied, whoever else has it open.
Opened(w) == <<>>

Fetch(w, c) ==
    /\ At(w, "idle")
    /\ Goes(w, [Idle EXCEPT !.at = "wait", !.phase = "fetch", !.crate = c, !.client = TRUE])
    /\ vm' = [vm EXCEPT ![w] = @ \cup {Script(c, "look")}]
    /\ UNCHANGED <<src, spool, cache, others, tainted, failures>>

Check(w) ==
    /\ At(w, "check")
    /\ Goes(w, [Idle EXCEPT !.at = "wait", !.phase = "check", !.crate = host[w].crate,
                            !.client = TRUE])
    /\ vm' = [vm EXCEPT ![w] = @ \cup {Script(host[w].crate, "enter")}]
    /\ spool' = [spool EXCEPT ![w] = Opened(w)]
    /\ UNCHANGED <<src, cache, others, tainted, failures>>

\* p.wait returns, or its timeout fires first.
Waited(w) ==
    /\ At(w, "wait")
    /\ \/ ~host[w].client /\ Goes(w, [host[w] EXCEPT !.at = "join"])
       \/ host[w].client /\ Goes(w, [host[w] EXCEPT !.at = "kill", !.late = TRUE])
    /\ UNCHANGED <<vm, src, spool, cache, others, tainted, failures>>

\* Mutant: the pattern names cargo and rustc only, which a script runs last.
Killed_CargoOnly(s) == s.step \in {"resolve", "compile"}

\* pkill -f "cargo|rustc|probe.sh" matches every script, also a straggler.
Killed(s) == TRUE

\* The scripts a kill leaves behind keep their client, or lose it.
Left(scripts, client) ==
    {IF s.client = "exec" THEN [s EXCEPT !.client = client] ELSE s : s \in scripts}

Survivors(w, works) == IF works THEN {s \in vm[w] : ~Killed(s)} ELSE vm[w]

\* The kill failed, or nobody tried one: a script is left behind.
LeavesScript(w) ==
    /\ failures < MaxStragglers
    /\ failures' = failures + 1
    /\ tainted' = [tainted EXCEPT ![w] = TRUE]

\* The kill in the container works or not, which nobody looks at; then p.kill.
Kill(w) ==
    /\ At(w, "kill")
    /\ Goes(w, [host[w] EXCEPT !.at = "reap"])
    /\ \E works \in BOOLEAN :
          /\ vm' = [vm EXCEPT ![w] = Left(Survivors(w, works), "cut")]
          /\ IF works THEN UNCHANGED <<tainted, failures>> ELSE LeavesScript(w)
    /\ UNCHANGED <<src, spool, cache, others>>

\* subprocess.run(..., timeout=10) raises: exec_phase ends there, the client
\* lives on, and the worker goes on to its next crate.
KillRaises(w) ==
    /\ At(w, "kill")
    /\ Goes(w, Idle)
    /\ \E works \in BOOLEAN :
          /\ vm' = [vm EXCEPT ![w] = Left(Survivors(w, works), "stray")]
          /\ IF works THEN UNCHANGED <<tainted, failures>> ELSE LeavesScript(w)
    /\ UNCHANGED <<src, spool, cache, others>>

\* p.wait returns because the client ended by itself, its connection lost, while
\* the script goes on: nothing timed out, so nothing is killed.
ClientLost(w) ==
    /\ At(w, "wait") /\ host[w].client
    /\ Goes(w, [host[w] EXCEPT !.client = FALSE])
    /\ vm' = [vm EXCEPT ![w] = Left(@, "cut")]
    /\ LeavesScript(w)
    /\ UNCHANGED <<src, spool, cache, others>>

\* The killed client ends, at once or late.
ClientDies(w) ==
    /\ host[w].at \in {"reap", "join"} /\ host[w].client
    /\ Goes(w, [host[w] EXCEPT !.client = FALSE])
    /\ UNCHANGED <<vm, src, spool, cache, others, tainted, failures>>

\* p.wait(timeout=10) returns or gives up.
Reap(w) ==
    /\ At(w, "reap")
    /\ Goes(w, [host[w] EXCEPT !.at = "join"])
    /\ UNCHANGED <<vm, src, spool, cache, others, tainted, failures>>

\* Mutant: the drains are joined without a timeout.
JoinEnds_NoTimeout(w) == ~host[w].client

\* The drains end with the pipes; a join gives up after 5 s if those stay open.
JoinEnds(w) == ~host[w].client \/ host[w].late

\* The pieces the two drain threads append: stderr comes in blocks of 8192
\* bytes, the last of which may end inside a line, and stdout in one piece.
Sinks ==
    SetToSeqs({"lines", "stdout"}) \cup
    {s \in SetToSeqs({"block", "rest", "stdout"}) :
        SelectSeq(s, LAMBDA piece : piece # "stdout") = <<"block", "rest">>}

\* _last_json finds the answer if it begins a line.
LastJson(sink, said) ==
    IF \E i \in 1..Len(sink) : sink[i] = "stdout" /\ (i > 1 => sink[i - 1] # "block")
    THEN said ELSE "nothing"

\* Mutant: a fetch without an answer gets a status of its own.
AfterFetch_NewStatus(call, reply) ==
    IF call.late \/ reply = "transient" THEN [Idle EXCEPT !.verdict = "harness_error"]
    ELSE IF reply = "ok" THEN [call EXCEPT !.at = "check"]
    ELSE [Idle EXCEPT !.said = call.said, !.verdict = "no_answer"]

\* What run_probe makes of a fetch: no answer counts as a failed resolution.
AfterFetch(call, reply) ==
    IF call.late \/ reply = "transient" THEN [Idle EXCEPT !.verdict = "harness_error"]
    ELSE IF reply = "ok" THEN [call EXCEPT !.at = "check"]
    ELSE [Idle EXCEPT !.said = call.said, !.verdict = "excluded_resolve"]

Join(w) ==
    /\ At(w, "join") /\ JoinEnds(w)
    /\ IF host[w].phase = "fetch"
       THEN \E sink \in Sinks : Goes(w, AfterFetch(host[w], LastJson(sink, host[w].said)))
       ELSE Goes(w, [host[w] EXCEPT !.at = "scan"])
    /\ UNCHANGED <<vm, src, spool, cache, others, tainted, failures>>

\* scan_first_error reads the spool; the outcome is RunProbe's matter.
Scan(w) ==
    /\ At(w, "scan")
    /\ Goes(w, Idle)
    /\ UNCHANGED <<vm, src, spool, cache, others, tainted, failures>>

\* recycle_worker between two probes: what ran in the container is gone, its
\* volume stays.
Recycle(w) ==
    /\ At(w, "idle") /\ (vm[w] # {} \/ tainted[w])
    /\ vm' = [vm EXCEPT ![w] = {}]
    /\ tainted' = [tainted EXCEPT ![w] = FALSE]
    /\ UNCHANGED <<host, src, spool, cache, others, failures>>

-----------------------------------------------------------------------------
(***************************************************************************)
(* probe.sh: the steps of a script s.                                      *)
(***************************************************************************)
Steps(w, s, t) == vm' = [vm EXCEPT ![w] = (@ \ {s}) \cup {t}]

Moves(w, s, step) == Steps(w, s, [s EXCEPT !.step = step])

\* The script exits, and with it its client.
Exits(w, s, said) ==
    /\ vm' = [vm EXCEPT ![w] = @ \ {s}]
    /\ IF s.client = "exec" /\ host[w].at = "wait"
       THEN Goes(w, [host[w] EXCEPT !.client = FALSE, !.said = said])
       ELSE UNCHANGED host

\* Mutant: curl writes to the file of the cache itself.
Loading_InPlace(c) == [cache EXCEPT ![c] = "torn"]

\* curl writes to a file of its own, made by mktemp.
Loading(c) == cache

Look(w, s) ==
    /\ s.step = "look"
    /\ IF cache[s.crate] = "absent"
       THEN Moves(w, s, "load") /\ cache' = Loading(s.crate)
       ELSE Moves(w, s, "wipe") /\ UNCHANGED cache
    /\ UNCHANGED <<host, src, spool>>

\* The download fails, does not pass gzip -t, or is moved to its place.
Load(w, s) ==
    /\ s.step = "load"
    /\ \/ (\E said \in {"transient", "failed"} : Exits(w, s, said)) /\ UNCHANGED cache
       \/ Moves(w, s, "wipe") /\ cache' = [cache EXCEPT ![s.crate] = "whole"] /\ UNCHANGED host
    /\ UNCHANGED <<src, spool>>

\* rm -rf /work/src, then tar begins.
Wipe(w, s) ==
    /\ s.step = "wipe"
    /\ src' = [src EXCEPT ![w] = [c \in Crates |-> IF c = s.crate THEN "part" ELSE "none"]]
    /\ Moves(w, s, "untar")
    /\ UNCHANGED <<host, spool, cache>>

\* tar fails on a torn file, or when its directory was removed meanwhile.
Untar(w, s) ==
    /\ s.step = "untar"
    /\ IF cache[s.crate] = "whole" /\ src[w][s.crate] # "none"
       THEN /\ Moves(w, s, "resolve")
            /\ src' = [src EXCEPT ![w][s.crate] = "whole"]
            /\ UNCHANGED host
       ELSE Exits(w, s, "failed") /\ UNCHANGED src
    /\ UNCHANGED <<spool, cache>>

\* srcdir, or else the first directory there is.
Dirs(w, c) ==
    IF src[w][c] # "none" THEN {c} ELSE {d \in Crates : src[w][d] # "none"}

\* cargo fetch.
Resolve(w, s) ==
    /\ s.step = "resolve"
    /\ \/ Dirs(w, s.crate) # {} /\ Exits(w, s, "ok")
       \/ Exits(w, s, "failed")
    /\ UNCHANGED <<src, spool, cache>>

Enter(w, s) ==
    /\ s.step = "enter"
    /\ \/ /\ \E d \in Dirs(w, s.crate) : Steps(w, s, [s EXCEPT !.step = "compile", !.dir = d])
          /\ UNCHANGED host
       \/ Dirs(w, s.crate) = {} /\ Exits(w, s, "nothing")
    /\ UNCHANGED <<src, spool, cache>>

\* A write at the client's own offset; what was never written before it reads
\* as a hole.
Written(file, off, line) ==
    [i \in 1..(IF off + 1 > Len(file) THEN off + 1 ELSE Len(file)) |->
        IF i = off + 1 THEN line
        ELSE IF i <= Len(file) THEN file[i] ELSE None]

\* cargo prints a line, and the client, if there is one, writes it.
Writes(w, s) ==
    /\ s.step = "compile" /\ s.off < MaxLines
    /\ Steps(w, s, [s EXCEPT !.off = @ + 1])
    /\ spool' = IF s.client = "cut" THEN spool
                ELSE [spool EXCEPT ![w] = Written(@, s.off, s.dir)]
    /\ UNCHANGED <<host, src, cache>>

Compiled(w, s) ==
    /\ s.step = "compile"
    /\ Exits(w, s, "nothing")
    /\ UNCHANGED <<src, spool, cache>>

ScriptStep(w) ==
    /\ \E s \in vm[w] :
          \/ Look(w, s) \/ Load(w, s) \/ Wipe(w, s) \/ Untar(w, s) \/ Resolve(w, s)
          \/ Enter(w, s) \/ Writes(w, s) \/ Compiled(w, s)
    /\ UNCHANGED <<others, tainted, failures>>

\* The same download by another container.
OtherLooks(c) ==
    /\ cache[c] = "absent" /\ c \notin others
    /\ others' = others \cup {c}
    /\ cache' = Loading(c)

\* It is moved to its place, or fails its test or is killed.
OtherLoads(c) ==
    /\ c \in others
    /\ others' = others \ {c}
    /\ cache' = [cache EXCEPT ![c] = "whole"] \/ UNCHANGED cache

Other(c) ==
    /\ OtherLooks(c) \/ OtherLoads(c)
    /\ UNCHANGED <<host, vm, src, spool, tainted, failures>>

-----------------------------------------------------------------------------
Call(w) ==
    \/ Check(w) \/ Waited(w) \/ Kill(w) \/ KillRaises(w) \/ Reap(w) \/ Join(w)
    \/ Scan(w)

Next ==
    \/ \E w \in Workers :
          \/ \E c \in Crates : Fetch(w, c)
          \/ Call(w) \/ ClientLost(w) \/ ClientDies(w) \/ Recycle(w) \/ ScriptStep(w)
    \/ \E c \in Crates : Other(c)

Spec == Init /\ [][Next]_vars

\* The worker thread runs and its timeouts fire.  Nothing is assumed of what
\* runs in a container, of a client, of the network or of cargo.
FairSpec == Spec /\ \A w \in Workers : WF_vars(Call(w))

-----------------------------------------------------------------------------
ExecTypeOK ==
    /\ \A w \in Workers :
          /\ host[w].at \in {"idle", "wait", "kill", "reap", "join", "check", "scan"}
          /\ host[w].phase \in {None, "fetch", "check"}
          /\ host[w].crate \in Crates \cup {None}
          /\ host[w].verdict \in {None, "harness_error", "excluded_resolve"}
          /\ Cardinality({s \in vm[w] : s.client = "exec"}) <= 1
          /\ \A i \in DOMAIN spool[w] : spool[w][i] \in Crates \cup {None}
    /\ src \in [Workers -> [Crates -> {"none", "part", "whole"}]]
    /\ cache \in [Crates -> {"absent", "torn", "whole"}]
    /\ others \subseteq Crates
    /\ tainted \in [Workers -> BOOLEAN]
    /\ failures \in 0..MaxStragglers

\* What a check compiles is the crate it was called for, and all of it, however
\* the probes before it in this container ended; only a script left behind, by
\* a kill that failed or a client that ended alone, can put another crate's
\* sources, or parts of its own, in its place.
OwnSource ==
    \A w \in Workers : \A s \in vm[w] :
        (s.step = "compile" /\ s.client = "exec" /\ ~tainted[w]) =>
            s.dir = s.crate /\ src[w][s.crate] = "whole"

\* The messages a crate is judged by were printed for it: nothing of an earlier
\* probe is left in the spool and no earlier client still writes to it, unless
\* a script was left behind.
OwnSpool ==
    \A w \in Workers : At(w, "scan") /\ ~tainted[w] =>
        \A i \in DOMAIN spool[w] : spool[w][i] = host[w].crate

\* A crate that a fetch finds in the shared cache, or put there, is whole when
\* tar opens it, while other containers download the same crate and after
\* downloads that were killed halfway.
CacheTrusted ==
    \A w \in Workers : \A s \in vm[w] : s.step = "untar" => cache[s.crate] = "whole"

\* exec_phase returns or raises, whatever hangs: the script, the client, the
\* kill or the pipes.  On this rests the fairness assumed of worker threads.
ExecEnds == \A w \in Workers : At(w, "wait") ~> ~(host[w].at \in {"wait", "kill", "reap", "join"})

\* "won't even resolve": a crate whose fetch said it is there is not recorded
\* as one that does not resolve.
AnswerReachesHost ==
    \A w \in Workers : host[w].verdict = "excluded_resolve" => host[w].said # "ok"
=============================================================================
