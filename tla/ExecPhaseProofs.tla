--------------------------- MODULE ExecPhaseProofs ---------------------------
(***************************************************************************)
(* CacheTrusted, OwnSource, OwnSpool and ExecTypeOK in every behaviour of  *)
(* Spec, for any number of workers, crates, lines and scripts left behind. *)
(*                                                                         *)
(* A step of a call or a script touches one worker's container, so the     *)
(* invariant is one formula over the five variables of a worker, and the   *)
(* proof one lemma per action that establishes it again for that worker.   *)
(***************************************************************************)
EXTENDS ExecPhase, SequenceTheorems, FiniteSetTheorems, TLAPS

Places == {"idle", "wait", "kill", "reap", "join", "check", "scan"}

Calls == [at : Places, phase : {None, "fetch", "check"}, crate : Crates \cup {None},
          late : BOOLEAN, client : BOOLEAN, said : {"nothing", "ok", "transient", "failed"},
          verdict : {None, "harness_error", "excluded_resolve"}]

Fetching == {"look", "load", "wipe", "untar", "resolve"}
Checking == {"enter", "compile"}

Scripts == [crate : Crates, step : Fetching \cup Checking, dir : Crates \cup {None},
            client : {"exec", "stray", "cut"}, off : Nat]

Lines == Crates \cup {None}

Typed(h, ss, dirs, file) ==
    /\ h \in Calls
    /\ ss \subseteq Scripts
    /\ dirs \in [Crates -> {"none", "part", "whole"}]
    /\ file \in Seq(Lines)

\* In a container where no script was left behind, the only script is the one that the
\* call waits for, and what it found so far is the crate's own.
Clean(h, ss, dirs, file) ==
    /\ \A s, t \in ss : s = t
    /\ \A s \in ss :
          /\ h.at \in {"wait", "kill"} /\ h.client /\ h.said = "nothing"
          /\ s.client = "exec" /\ s.crate = h.crate
          /\ s.step \in Fetching => h.phase = "fetch"
          /\ s.step = "resolve" => dirs[s.crate] = "whole"
          /\ s.step \in Checking =>
                h.phase = "check" /\ dirs[s.crate] = "whole" /\ s.off = Len(file)
          /\ s.step = "compile" => s.dir = s.crate
    /\ h.phase = "fetch" /\ h.said = "ok" => h.crate \in Crates /\ dirs[h.crate] = "whole"
    /\ h.phase = "check" => \A i \in 1..Len(file) : file[i] = h.crate

\* Where a call is says what it is doing.
Placed(h) ==
    /\ h.at = "idle" <=> h.phase = None
    /\ h.at = "check" => h.phase = "fetch" /\ h.said = "ok"
    /\ h.at = "scan" => h.phase = "check"
    /\ h.at = "kill" => h.client
    /\ h.client => h.said = "nothing"
    /\ h.phase # None => h.crate \in Crates

WorkerOK(w) ==
    /\ Typed(host[w], vm[w], src[w], spool[w])
    /\ Placed(host[w])
    /\ ~tainted[w] => Clean(host[w], vm[w], src[w], spool[w])

Tables ==
    /\ host = [w \in Workers |-> host[w]]
    /\ vm = [w \in Workers |-> vm[w]]
    /\ src = [w \in Workers |-> src[w]]
    /\ spool = [w \in Workers |-> spool[w]]
    /\ tainted = [w \in Workers |-> tainted[w]]

\* The cache holds whole crates only, and a script that has got past the
\* download finds its own there.
CacheInv ==
    /\ cache \in [Crates -> {"absent", "whole"}]
    /\ \A w \in Workers : \A s \in vm[w] :
          s.step \in {"wipe", "untar", "resolve"} => cache[s.crate] = "whole"

Inv == Tables /\ CacheInv /\ \A w \in Workers : WorkerOK(w)

-----------------------------------------------------------------------------
\* A step that leaves the other workers alone keeps the tables and their part.
Elsewhere(w) ==
    /\ Tables'
    /\ \A v \in Workers \ {w} :
          /\ host'[v] = host[v] /\ vm'[v] = vm[v] /\ src'[v] = src[v]
          /\ spool'[v] = spool[v] /\ tainted'[v] = tainted[v]

LEMMA OthersKept ==
    ASSUME Inv, NEW w \in Workers, Elsewhere(w), WorkerOK(w)'
    PROVE  \A v \in Workers : WorkerOK(v)'
BY DEF Inv, Elsewhere, WorkerOK

LEMMA InvInit == Init => Inv
<1> SUFFICES ASSUME Init PROVE Inv
  OBVIOUS
<1>1. ASSUME NEW w \in Workers PROVE WorkerOK(w)
  <2>1. Typed(host[w], vm[w], src[w], spool[w])
    BY DEF Init, Typed, Idle, Calls, Places, Lines
  <2>2. Placed(host[w]) /\ Clean(host[w], vm[w], src[w], spool[w])
    BY ExecAssumption DEF Init, Placed, Clean, Idle
  <2> QED BY <2>1, <2>2 DEF WorkerOK
<1>2. Tables /\ CacheInv
  BY DEF Init, Tables, CacheInv
<1> QED BY <1>1, <1>2 DEF Inv

-----------------------------------------------------------------------------
(***************************************************************************)
(* exec_phase.                                                             *)
(***************************************************************************)
LEMMA FetchStep ==
    ASSUME Inv, NEW w \in Workers, NEW c \in Crates, Fetch(w, c)
    PROVE  Elsewhere(w) /\ WorkerOK(w)'
<1>0. WorkerOK(w) /\ Tables /\ host[w].at = "idle"
  BY DEF Inv, Fetch, At
<1> DEFINE h == [Idle EXCEPT !.at = "wait", !.phase = "fetch", !.crate = c, !.client = TRUE]
           s == Script(c, "look")
<1>1. /\ host'[w] = h /\ vm'[w] = vm[w] \cup {s}
      /\ src' = src /\ spool' = spool /\ tainted' = tainted
  BY <1>0 DEF Fetch, Goes, Tables
<1>2. Elsewhere(w)
  BY <1>0, <1>1 DEF Fetch, Goes, Tables, Elsewhere
<1>3. /\ h \in Calls /\ h.at = "wait" /\ h.phase = "fetch" /\ h.crate = c
      /\ h.client /\ h.said = "nothing"
  BY DEF Idle, Calls, Places
<1>4. s \in Scripts /\ s.step = "look" /\ s.client = "exec" /\ s.crate = c
  BY DEF Script, Scripts, Fetching
<1> HIDE DEF h, s
<1>5. Typed(h, vm'[w], src'[w], spool'[w])
  BY <1>0, <1>1, <1>3, <1>4 DEF WorkerOK, Typed
<1>6. Placed(h)
  BY ExecAssumption, <1>3 DEF Placed
<1>7. ~tainted[w] => Clean(h, vm'[w], src'[w], spool'[w])
  <2> SUFFICES ASSUME ~tainted[w] PROVE Clean(h, vm'[w], src'[w], spool'[w])
    OBVIOUS
  <2>1. vm[w] = {}
    BY <1>0 DEF WorkerOK, Clean
  <2>2. vm'[w] = {s}
    BY <1>1, <2>1
  <2> QED BY <1>3, <1>4, <2>2 DEF Clean, Checking
<1> QED BY <1>1, <1>2, <1>5, <1>6, <1>7 DEF WorkerOK

LEMMA CheckStep ==
    ASSUME Inv, NEW w \in Workers, Check(w)
    PROVE  Elsewhere(w) /\ WorkerOK(w)'
<1>0. WorkerOK(w) /\ Tables /\ host[w].at = "check"
  BY DEF Inv, Check, At
<1> DEFINE c == host[w].crate
           h == [Idle EXCEPT !.at = "wait", !.phase = "check", !.crate = c, !.client = TRUE]
           s == Script(c, "enter")
<1>1. /\ host'[w] = h /\ vm'[w] = vm[w] \cup {s} /\ spool'[w] = <<>>
      /\ src' = src /\ tainted' = tainted
  BY <1>0 DEF Check, Goes, Tables, Opened
<1>2. Elsewhere(w)
  BY <1>0, <1>1 DEF Check, Goes, Tables, Elsewhere, Opened
<1>3. c \in Crates /\ host[w].phase = "fetch" /\ host[w].said = "ok"
  BY <1>0, ExecAssumption DEF WorkerOK, Placed
<1>4. /\ h \in Calls /\ h.at = "wait" /\ h.phase = "check" /\ h.crate = c
      /\ h.client /\ h.said = "nothing"
  BY <1>3 DEF Idle, Calls, Places
<1>5. s \in Scripts /\ s.step = "enter" /\ s.client = "exec" /\ s.crate = c /\ s.off = 0
  BY <1>3 DEF Script, Scripts, Checking
<1> HIDE DEF h, s
<1>6. Typed(h, vm'[w], src'[w], spool'[w])
  BY <1>0, <1>1, <1>4, <1>5 DEF WorkerOK, Typed
<1>7. Placed(h)
  BY ExecAssumption, <1>3, <1>4 DEF Placed
<1>8. ~tainted[w] => Clean(h, vm'[w], src'[w], spool'[w])
  <2> SUFFICES ASSUME ~tainted[w] PROVE Clean(h, vm'[w], src'[w], spool'[w])
    OBVIOUS
  <2>1. vm[w] = {} /\ src[w][c] = "whole"
    BY <1>0, <1>3 DEF WorkerOK, Clean
  <2>2. vm'[w] = {s} /\ src'[w][c] = "whole"
    BY <1>1, <2>1
  <2> QED BY <1>1, <1>4, <1>5, <2>2 DEF Clean, Fetching
<1> QED BY <1>1, <1>2, <1>6, <1>7, <1>8 DEF WorkerOK

\* A call that moves on, with the container and its files as they are.
LEMMA CallMoves ==
    ASSUME Inv, NEW w \in Workers, NEW h \in Calls, Placed(h), Goes(w, h),
           UNCHANGED <<vm, src, spool, tainted>>,
           ~tainted[w] => Clean(h, vm[w], src[w], spool[w])
    PROVE  Elsewhere(w) /\ WorkerOK(w)'
<1>1. /\ host'[w] = h
      /\ \A v \in Workers \ {w} : host'[v] = host[v]
      /\ host' = [v \in Workers |-> host'[v]]
  BY DEF Inv, Tables, Goes
<1>2. Elsewhere(w)
  BY <1>1 DEF Inv, Tables, Elsewhere
<1>3. WorkerOK(w)'
  BY <1>1 DEF Inv, WorkerOK, Typed
<1> QED BY <1>2, <1>3

LEMMA WaitedStep ==
    ASSUME Inv, NEW w \in Workers, Waited(w)
    PROVE  Elsewhere(w) /\ WorkerOK(w)'
<1>0. WorkerOK(w) /\ host[w] \in Calls /\ host[w].at = "wait"
  BY DEF Inv, Waited, At, WorkerOK, Typed
<1>1. CASE ~host[w].client /\ Goes(w, [host[w] EXCEPT !.at = "join"])
  <2> DEFINE h == [host[w] EXCEPT !.at = "join"]
  <2>1. /\ h \in Calls /\ h.at = "join" /\ h.phase = host[w].phase
        /\ h.crate = host[w].crate /\ h.said = host[w].said /\ ~h.client
    BY <1>0, <1>1 DEF Calls, Places
  <2> HIDE DEF h
  <2>2. Placed(h)
    BY <1>0, <2>1 DEF WorkerOK, Placed
  <2>3. ~tainted[w] => Clean(h, vm[w], src[w], spool[w])
    BY <1>0, <1>1, <2>1 DEF WorkerOK, Clean
  <2>4. Goes(w, h)
    BY <1>1 DEF h
  <2> QED BY <2>1, <2>2, <2>3, <2>4, CallMoves DEF Waited
<1>2. CASE host[w].client /\ Goes(w, [host[w] EXCEPT !.at = "kill", !.late = TRUE])
  <2> DEFINE h == [host[w] EXCEPT !.at = "kill", !.late = TRUE]
  <2>1. /\ h \in Calls /\ h.at = "kill" /\ h.phase = host[w].phase /\ h.client
        /\ h.crate = host[w].crate /\ h.said = host[w].said
    BY <1>0, <1>2 DEF Calls, Places
  <2> HIDE DEF h
  <2>2. Placed(h)
    BY <1>0, <1>2, <2>1 DEF WorkerOK, Placed
  <2>3. ~tainted[w] => Clean(h, vm[w], src[w], spool[w])
    BY <1>0, <2>1 DEF WorkerOK, Clean
  <2>4. Goes(w, h)
    BY <1>2 DEF h
  <2> QED BY <2>1, <2>2, <2>3, <2>4, CallMoves DEF Waited
<1> QED BY <1>1, <1>2 DEF Waited

\* A kill that works leaves no script, and one that fails is remembered.
LEMMA KillLeaves ==
    ASSUME Inv, NEW w \in Workers, NEW h \in Calls, Placed(h), Goes(w, h),
           NEW client \in {"stray", "cut"}, NEW works \in BOOLEAN,
           h.phase = "fetch" => h.said # "ok",
           h.phase = "check" => host[w].phase = "check" /\ h.crate = host[w].crate,
           vm' = [vm EXCEPT ![w] = Left(Survivors(w, works), client)],
           IF works THEN UNCHANGED <<tainted, failures>> ELSE LeavesScript(w),
           UNCHANGED <<src, spool, cache, others>>
    PROVE  Elsewhere(w) /\ WorkerOK(w)'
<1>0. WorkerOK(w) /\ Tables
  BY DEF Inv
<1>1. host'[w] = h /\ vm'[w] = Left(Survivors(w, works), client)
  BY <1>0 DEF Goes, Tables
<1>2. tainted'[w] = (IF works THEN tainted[w] ELSE TRUE)
  BY <1>0 DEF LeavesScript, Tables
<1>3. Elsewhere(w)
  BY <1>0 DEF Elsewhere, Tables, Goes, LeavesScript
<1>4. vm'[w] \subseteq Scripts
  <2>1. Survivors(w, works) \subseteq Scripts
    BY <1>0 DEF Survivors, WorkerOK, Typed
  <2>2. \A s \in Scripts : [s EXCEPT !.client = client] \in Scripts
    BY DEF Scripts
  <2> QED BY <1>1, <2>1, <2>2 DEF Left
<1>5. works => vm'[w] = {}
  BY <1>1 DEF Survivors, Killed, Left
<1>6. Typed(host'[w], vm'[w], src'[w], spool'[w])
  BY <1>0, <1>1, <1>4 DEF WorkerOK, Typed
<1>7. ~tainted'[w] => Clean(host'[w], vm'[w], src'[w], spool'[w])
  BY <1>0, <1>1, <1>2, <1>5 DEF WorkerOK, Clean
<1> QED BY <1>1, <1>3, <1>6, <1>7 DEF WorkerOK

LEMMA IdleCall == Idle \in Calls /\ Placed(Idle) /\ Idle.phase = None
BY ExecAssumption DEF Idle, Calls, Places, Placed

LEMMA KillStep ==
    ASSUME Inv, NEW w \in Workers, Kill(w)
    PROVE  Elsewhere(w) /\ WorkerOK(w)'
<1> DEFINE h == [host[w] EXCEPT !.at = "reap"]
<1>0. WorkerOK(w) /\ host[w] \in Calls /\ host[w].at = "kill"
  BY DEF Inv, Kill, At, WorkerOK, Typed
<1>1. /\ h \in Calls /\ h.at = "reap" /\ h.phase = host[w].phase
      /\ h.crate = host[w].crate /\ h.said = host[w].said /\ h.client = host[w].client
  BY <1>0 DEF Calls, Places
<1>2. Goes(w, h)
  BY DEF Kill
<1>3. PICK works \in BOOLEAN :
          /\ vm' = [vm EXCEPT ![w] = Left(Survivors(w, works), "cut")]
          /\ IF works THEN UNCHANGED <<tainted, failures>> ELSE LeavesScript(w)
  BY DEF Kill
<1>4. UNCHANGED <<src, spool, cache, others>>
  BY DEF Kill
<1> HIDE DEF h
<1>5. Placed(h)
  BY <1>0, <1>1 DEF WorkerOK, Placed
<1>6. h.said # "ok"
  BY <1>0, <1>1 DEF WorkerOK, Placed
<1> QED BY <1>1, <1>2, <1>3, <1>4, <1>5, <1>6, KillLeaves

LEMMA KillRaisesStep ==
    ASSUME Inv, NEW w \in Workers, KillRaises(w)
    PROVE  Elsewhere(w) /\ WorkerOK(w)'
<1>1. PICK works \in BOOLEAN :
          /\ vm' = [vm EXCEPT ![w] = Left(Survivors(w, works), "stray")]
          /\ IF works THEN UNCHANGED <<tainted, failures>> ELSE LeavesScript(w)
  BY DEF KillRaises
<1>2. Goes(w, Idle) /\ UNCHANGED <<src, spool, cache, others>>
  BY DEF KillRaises
<1>3. Idle.phase # "fetch" /\ Idle.phase # "check"
  BY IdleCall, ExecAssumption
<1> QED BY <1>1, <1>2, <1>3, IdleCall, KillLeaves

LEMMA ClientLostStep ==
    ASSUME Inv, NEW w \in Workers, ClientLost(w)
    PROVE  Elsewhere(w) /\ WorkerOK(w)'
<1> DEFINE h == [host[w] EXCEPT !.client = FALSE]
<1>0. WorkerOK(w) /\ host[w] \in Calls /\ host[w].at = "wait" /\ host[w].client
  BY DEF Inv, ClientLost, At, WorkerOK, Typed
<1>1. /\ h \in Calls /\ h.at = "wait" /\ h.phase = host[w].phase
      /\ h.crate = host[w].crate /\ h.said = host[w].said /\ ~h.client
  BY <1>0 DEF Calls
<1>2. Goes(w, h) /\ UNCHANGED <<src, spool, cache, others>>
  BY DEF ClientLost
<1>3. /\ vm' = [vm EXCEPT ![w] = Left(Survivors(w, FALSE), "cut")]
      /\ IF FALSE THEN UNCHANGED <<tainted, failures>> ELSE LeavesScript(w)
  BY DEF ClientLost, Survivors
<1> HIDE DEF h
<1>4. Placed(h)
  BY <1>0, <1>1 DEF WorkerOK, Placed
<1>5. h.said # "ok"
  BY <1>0, <1>1 DEF WorkerOK, Placed
<1> QED BY <1>1, <1>2, <1>3, <1>4, <1>5, KillLeaves

LEMMA ClientDiesStep ==
    ASSUME Inv, NEW w \in Workers, ClientDies(w)
    PROVE  Elsewhere(w) /\ WorkerOK(w)'
<1> DEFINE h == [host[w] EXCEPT !.client = FALSE]
<1>0. WorkerOK(w) /\ host[w] \in Calls /\ host[w].at \in {"reap", "join"}
  BY DEF Inv, ClientDies, WorkerOK, Typed
<1>1. /\ h \in Calls /\ h.at = host[w].at /\ h.phase = host[w].phase
      /\ h.crate = host[w].crate /\ h.said = host[w].said /\ ~h.client
  BY <1>0 DEF Calls
<1>2. Goes(w, h) /\ UNCHANGED <<vm, src, spool, tainted>>
  BY DEF ClientDies
<1> HIDE DEF h
<1>3. Placed(h)
  BY <1>0, <1>1 DEF WorkerOK, Placed
<1>4. ~tainted[w] => Clean(h, vm[w], src[w], spool[w])
  BY <1>0, <1>1 DEF WorkerOK, Clean
<1> QED BY <1>1, <1>2, <1>3, <1>4, CallMoves

LEMMA ReapStep ==
    ASSUME Inv, NEW w \in Workers, Reap(w)
    PROVE  Elsewhere(w) /\ WorkerOK(w)'
<1> DEFINE h == [host[w] EXCEPT !.at = "join"]
<1>0. WorkerOK(w) /\ host[w] \in Calls /\ host[w].at = "reap"
  BY DEF Inv, Reap, At, WorkerOK, Typed
<1>1. /\ h \in Calls /\ h.at = "join" /\ h.phase = host[w].phase
      /\ h.crate = host[w].crate /\ h.said = host[w].said /\ h.client = host[w].client
  BY <1>0 DEF Calls, Places
<1>2. Goes(w, h) /\ UNCHANGED <<vm, src, spool, tainted>>
  BY DEF Reap
<1> HIDE DEF h
<1>3. Placed(h)
  BY <1>0, <1>1 DEF WorkerOK, Placed
<1>4. ~tainted[w] => Clean(h, vm[w], src[w], spool[w])
  BY <1>0, <1>1 DEF WorkerOK, Clean
<1> QED BY <1>1, <1>2, <1>3, <1>4, CallMoves

\* A fetch goes on to its check only if its script said that all is well.
LEMMA JoinStep ==
    ASSUME Inv, NEW w \in Workers, Join(w)
    PROVE  Elsewhere(w) /\ WorkerOK(w)'
<1>0. /\ WorkerOK(w) /\ host[w] \in Calls /\ host[w].at = "join"
      /\ UNCHANGED <<vm, src, spool, tainted>>
  BY DEF Inv, Join, At, WorkerOK, Typed
<1>v. ~tainted[w] => vm[w] = {}
  BY <1>0 DEF WorkerOK, Clean
<1>1. CASE host[w].phase = "fetch"
  <2>1. PICK sink \in Sinks : Goes(w, AfterFetch(host[w], LastJson(sink, host[w].said)))
    BY <1>1 DEF Join
  <2> DEFINE reply == LastJson(sink, host[w].said)
             h == AfterFetch(host[w], reply)
  <2>2. reply = "ok" => host[w].said = "ok"
    BY DEF LastJson
  <2> HIDE DEF reply
  <2>3. CASE h = [host[w] EXCEPT !.at = "check"] /\ reply = "ok"
    <3>1. /\ h \in Calls /\ h.at = "check" /\ h.phase = "fetch" /\ h.crate = host[w].crate
          /\ h.said = "ok" /\ h.client = host[w].client
      BY <1>0, <1>1, <2>2, <2>3 DEF Calls, Places
    <3> HIDE DEF h
    <3>2. Placed(h)
      BY ExecAssumption, <1>0, <1>1, <2>2, <2>3, <3>1 DEF WorkerOK, Placed
    <3>3. ~tainted[w] => Clean(h, vm[w], src[w], spool[w])
      BY <1>0, <1>1, <1>v, <2>2, <2>3, <3>1 DEF WorkerOK, Clean
    <3>4. Goes(w, h)
      BY <2>1 DEF h, reply
    <3> QED BY <1>0, <3>1, <3>2, <3>3, <3>4, CallMoves
  <2>4. CASE ~(h = [host[w] EXCEPT !.at = "check"] /\ reply = "ok")
    <3>1. /\ h \in Calls /\ h.at = "idle" /\ h.phase = None /\ ~h.client
      BY <1>0, <2>4 DEF AfterFetch, Idle, Calls, Places
    <3> HIDE DEF h
    <3>2. Placed(h)
      BY <3>1, ExecAssumption DEF Placed
    <3>3. ~tainted[w] => Clean(h, vm[w], src[w], spool[w])
      BY <1>v, <3>1, ExecAssumption DEF Clean
    <3>4. Goes(w, h)
      BY <2>1 DEF h, reply
    <3> QED BY <1>0, <3>1, <3>2, <3>3, <3>4, CallMoves
  <2> QED BY <2>3, <2>4
<1>2. CASE host[w].phase # "fetch"
  <2> DEFINE h == [host[w] EXCEPT !.at = "scan"]
  <2>1. /\ h \in Calls /\ h.at = "scan" /\ h.phase = host[w].phase
        /\ h.crate = host[w].crate /\ h.said = host[w].said /\ h.client = host[w].client
    BY <1>0 DEF Calls, Places
  <2>2. Goes(w, h)
    BY <1>2 DEF Join
  <2> HIDE DEF h
  <2>3. Placed(h)
    BY <1>0, <1>2, <2>1 DEF WorkerOK, Placed, Calls
  <2>4. ~tainted[w] => Clean(h, vm[w], src[w], spool[w])
    BY <1>0, <1>v, <2>1 DEF WorkerOK, Clean
  <2> QED BY <1>0, <2>1, <2>2, <2>3, <2>4, CallMoves
<1> QED BY <1>1, <1>2

LEMMA ScanStep ==
    ASSUME Inv, NEW w \in Workers, Scan(w)
    PROVE  Elsewhere(w) /\ WorkerOK(w)'
<1>0. WorkerOK(w) /\ host[w].at = "scan"
  BY DEF Inv, Scan, At
<1>1. Goes(w, Idle) /\ UNCHANGED <<vm, src, spool, tainted>>
  BY DEF Scan
<1>2. Idle.phase # "fetch" /\ Idle.phase # "check"
  BY IdleCall, ExecAssumption
<1>3. ~tainted[w] => Clean(Idle, vm[w], src[w], spool[w])
  BY <1>0, <1>2 DEF WorkerOK, Clean
<1> QED BY <1>1, <1>3, IdleCall, CallMoves

LEMMA RecycleStep ==
    ASSUME Inv, NEW w \in Workers, Recycle(w)
    PROVE  Elsewhere(w) /\ WorkerOK(w)'
<1>0. WorkerOK(w) /\ Tables /\ host[w].at = "idle"
  BY DEF Inv, Recycle, At
<1>1. /\ vm'[w] = {} /\ tainted'[w] = FALSE
      /\ UNCHANGED <<host, src, spool>>
  BY <1>0 DEF Recycle, Tables
<1>2. Elsewhere(w)
  BY <1>0 DEF Recycle, Tables, Elsewhere
<1>3. Typed(host'[w], vm'[w], src'[w], spool'[w])
  BY <1>0, <1>1 DEF WorkerOK, Typed
<1>4. Clean(host'[w], vm'[w], src'[w], spool'[w])
  BY <1>0, <1>1, ExecAssumption DEF WorkerOK, Placed, Clean
<1> QED BY <1>0, <1>1, <1>2, <1>3, <1>4 DEF WorkerOK

-----------------------------------------------------------------------------
(***************************************************************************)
(* The scripts.                                                            *)
(***************************************************************************)

\* In a container where none was left behind, a script that runs is the only one.
LEMMA OnlyScript ==
    ASSUME NEW w \in Workers, WorkerOK(w), NEW s \in vm[w]
    PROVE  /\ s \in Scripts
           /\ ~tainted[w] =>
                 /\ vm[w] = {s}
                 /\ s.crate = host[w].crate /\ s.client = "exec"
                 /\ host[w].client /\ host[w].said = "nothing"
                 /\ host[w].at \in {"wait", "kill"}
BY DEF WorkerOK, Typed, Clean

\* A script that becomes another or goes on, with the files it leaves behind.
LEMMA ScriptMoves ==
    ASSUME Inv, NEW w \in Workers, NEW s \in vm[w], NEW t \in Scripts, Steps(w, s, t),
           UNCHANGED <<host, tainted>>,
           NEW dirs \in [Crates -> {"none", "part", "whole"}], src' = [src EXCEPT ![w] = dirs],
           NEW file \in Seq(Lines), spool' = [spool EXCEPT ![w] = file],
           ~tainted[w] => Clean(host[w], {t}, dirs, file)
    PROVE  Elsewhere(w) /\ WorkerOK(w)'
<1>0. WorkerOK(w) /\ Tables
  BY DEF Inv
<1>1. vm'[w] = (vm[w] \ {s}) \cup {t} /\ src'[w] = dirs /\ spool'[w] = file
  BY <1>0 DEF Tables, Steps
<1>2. Elsewhere(w)
  BY <1>0 DEF Tables, Steps, Elsewhere
<1>3. ~tainted[w] => vm'[w] = {t}
  BY <1>0, <1>1, OnlyScript
<1>4. Typed(host'[w], vm'[w], src'[w], spool'[w])
  BY <1>0, <1>1 DEF WorkerOK, Typed
<1> QED BY <1>0, <1>1, <1>2, <1>3, <1>4 DEF WorkerOK

\* A script that exits; it may say that all is well only if it left it so.
LEMMA ScriptExits ==
    ASSUME Inv, NEW w \in Workers, NEW s \in vm[w],
           NEW said \in {"nothing", "ok", "transient", "failed"}, Exits(w, s, said),
           UNCHANGED <<src, spool, tainted>>,
           said = "ok" => s.step = "resolve"
    PROVE  Elsewhere(w) /\ WorkerOK(w)'
<1>0. WorkerOK(w) /\ Tables /\ host[w] \in Calls /\ s \in Scripts
  BY OnlyScript DEF Inv, WorkerOK, Typed
<1>1. vm'[w] = vm[w] \ {s}
  BY <1>0 DEF Tables, Exits
<1>2. ~tainted[w] => vm'[w] = {}
  BY <1>0, <1>1, OnlyScript
<1>3. CASE UNCHANGED host
  <2>1. Elsewhere(w)
    BY <1>0, <1>3 DEF Tables, Exits, Elsewhere
  <2>2. Typed(host'[w], vm'[w], src'[w], spool'[w])
    BY <1>0, <1>1, <1>3 DEF WorkerOK, Typed
  <2>3. ~tainted'[w] => Clean(host'[w], vm'[w], src'[w], spool'[w])
    BY <1>0, <1>2, <1>3 DEF WorkerOK, Clean
  <2> QED BY <1>0, <1>3, <2>1, <2>2, <2>3 DEF WorkerOK
<1>4. CASE ~UNCHANGED host
  <2> DEFINE h == [host[w] EXCEPT !.client = FALSE, !.said = said]
  <2>1. host[w].at = "wait" /\ Goes(w, h)
    BY <1>4 DEF Exits
  <2>2. /\ h \in Calls /\ h.at = "wait" /\ h.phase = host[w].phase
        /\ h.crate = host[w].crate /\ h.said = said /\ ~h.client
    BY <1>0, <2>1 DEF Calls
  <2>3. host'[w] = h
    BY <1>0, <2>1 DEF Tables, Goes
  <2>4. Elsewhere(w)
    BY <1>0, <2>1 DEF Tables, Exits, Goes, Elsewhere
  <2> HIDE DEF h
  <2>5. Typed(host'[w], vm'[w], src'[w], spool'[w])
    BY <1>0, <1>1, <2>2, <2>3 DEF WorkerOK, Typed
  <2>6. Placed(h)
    BY <1>0, <2>1, <2>2 DEF WorkerOK, Placed
  <2>7. ~tainted'[w] => Clean(host'[w], vm'[w], src'[w], spool'[w])
    <3> SUFFICES ASSUME ~tainted[w] PROVE Clean(h, vm'[w], src[w], spool[w])
      BY <2>3
    <3>1. Clean(host[w], vm[w], src[w], spool[w]) /\ vm'[w] = {}
      BY <1>0, <1>2 DEF WorkerOK
    <3>2. said = "ok" => src[w][s.crate] = "whole" /\ s.crate = h.crate /\ h.crate \in Crates
      BY <1>0, <2>2, <3>1 DEF Clean, Scripts
    <3> QED BY <2>2, <3>1, <3>2 DEF Clean
  <2> QED BY <2>3, <2>4, <2>5, <2>6, <2>7 DEF WorkerOK
<1> QED BY <1>3, <1>4

\* A script of the fetch that goes on to a step before the last.
LEMMA FetchMoves ==
    ASSUME Inv, NEW w \in Workers, NEW s \in vm[w], s.step \in Fetching,
           NEW step \in Fetching \ {"resolve"}, Moves(w, s, step),
           UNCHANGED <<host, src, spool, tainted>>
    PROVE  Elsewhere(w) /\ WorkerOK(w)'
<1> DEFINE t == [s EXCEPT !.step = step]
<1>0. WorkerOK(w) /\ Tables /\ s \in Scripts /\ Typed(host[w], vm[w], src[w], spool[w])
  BY OnlyScript DEF Inv, WorkerOK
<1>1. t \in Scripts /\ t.step = step /\ t.crate = s.crate /\ t.client = s.client
  BY <1>0 DEF Scripts
<1>2. Steps(w, s, t)
  BY DEF Moves
<1> HIDE DEF t
<1>3. src' = [src EXCEPT ![w] = src[w]] /\ spool' = [spool EXCEPT ![w] = spool[w]]
  BY <1>0 DEF Tables
<1>4. ~tainted[w] => Clean(host[w], {t}, src[w], spool[w])
  BY <1>0, <1>1 DEF WorkerOK, Clean, Fetching, Checking
<1>5. src[w] \in [Crates -> {"none", "part", "whole"}] /\ spool[w] \in Seq(Lines)
  BY <1>0 DEF Typed
<1> QED BY <1>1, <1>2, <1>3, <1>4, <1>5, ScriptMoves

LEMMA LookStep ==
    ASSUME Inv, NEW w \in Workers, NEW s \in vm[w], Look(w, s), UNCHANGED tainted
    PROVE  Elsewhere(w) /\ WorkerOK(w)'
<1>1. s.step \in Fetching /\ UNCHANGED <<host, src, spool, tainted>>
  BY DEF Look, Fetching
<1>2. Moves(w, s, "load") \/ Moves(w, s, "wipe")
  BY DEF Look
<1> QED BY <1>1, <1>2, FetchMoves DEF Fetching

LEMMA LoadStep ==
    ASSUME Inv, NEW w \in Workers, NEW s \in vm[w], Load(w, s), UNCHANGED tainted
    PROVE  Elsewhere(w) /\ WorkerOK(w)'
<1>1. s.step \in Fetching /\ UNCHANGED <<src, spool, tainted>>
  BY DEF Load, Fetching
<1>2. CASE \E said \in {"transient", "failed"} : Exits(w, s, said)
  BY <1>1, <1>2, ScriptExits
<1>3. CASE Moves(w, s, "wipe") /\ UNCHANGED host
  BY <1>1, <1>3, FetchMoves DEF Fetching
<1> QED BY <1>2, <1>3 DEF Load

LEMMA WipeStep ==
    ASSUME Inv, NEW w \in Workers, NEW s \in vm[w], Wipe(w, s), UNCHANGED tainted
    PROVE  Elsewhere(w) /\ WorkerOK(w)'
<1> DEFINE t == [s EXCEPT !.step = "untar"]
           dirs == [c \in Crates |-> IF c = s.crate THEN "part" ELSE "none"]
<1>0. WorkerOK(w) /\ Tables /\ s \in Scripts /\ Typed(host[w], vm[w], src[w], spool[w])
  BY OnlyScript DEF Inv, WorkerOK
<1>1. s.step = "wipe" /\ UNCHANGED <<host, spool, tainted>> /\ Steps(w, s, t)
  BY DEF Wipe, Moves
<1>2. src' = [src EXCEPT ![w] = dirs] /\ dirs \in [Crates -> {"none", "part", "whole"}]
  BY DEF Wipe
<1>3. t \in Scripts /\ t.step = "untar" /\ t.crate = s.crate /\ t.client = s.client
  BY <1>0 DEF Scripts, Fetching
<1> HIDE DEF t, dirs
<1>4. spool' = [spool EXCEPT ![w] = spool[w]] /\ spool[w] \in Seq(Lines)
  BY <1>0, <1>1 DEF Tables, Typed
<1>5. ~tainted[w] => Clean(host[w], {t}, dirs, spool[w])
  <2> SUFFICES ASSUME ~tainted[w] PROVE Clean(host[w], {t}, dirs, spool[w])
    OBVIOUS
  <2>1. Clean(host[w], vm[w], src[w], spool[w])
    BY <1>0 DEF WorkerOK
  <2>2. host[w].phase = "fetch" /\ host[w].said = "nothing" /\ host[w].client
        /\ host[w].at \in {"wait", "kill"} /\ s.client = "exec" /\ s.crate = host[w].crate
    BY <1>1, <2>1 DEF Clean, Fetching
  <2> QED BY <1>3, <2>2 DEF Clean, Checking
<1> QED BY <1>1, <1>2, <1>3, <1>4, <1>5, ScriptMoves

\* Only tar makes a directory whole, and only the crate's own.
LEMMA UntarStep ==
    ASSUME Inv, NEW w \in Workers, NEW s \in vm[w], Untar(w, s), UNCHANGED tainted
    PROVE  Elsewhere(w) /\ WorkerOK(w)'
<1> DEFINE t == [s EXCEPT !.step = "resolve"]
           dirs == [src[w] EXCEPT ![s.crate] = "whole"]
<1>0. WorkerOK(w) /\ Tables /\ s \in Scripts /\ Typed(host[w], vm[w], src[w], spool[w])
  BY OnlyScript DEF Inv, WorkerOK
<1>1. s.step = "untar" /\ UNCHANGED <<spool, tainted>>
  BY DEF Untar
<1>2. CASE Exits(w, s, "failed") /\ UNCHANGED src
  BY <1>1, <1>2, ScriptExits
<1>3. CASE Moves(w, s, "resolve") /\ src' = [src EXCEPT ![w][s.crate] = "whole"] /\ UNCHANGED host
  <2>1. Steps(w, s, t) /\ src' = [src EXCEPT ![w] = dirs]
    BY <1>3 DEF Moves
  <2>2. s.crate \in Crates
    BY <1>0 DEF Scripts
  <2>3. dirs \in [Crates -> {"none", "part", "whole"}] /\ dirs[s.crate] = "whole"
    BY <1>0, <2>2 DEF Typed
  <2>4. t \in Scripts /\ t.step = "resolve" /\ t.crate = s.crate /\ t.client = s.client
    BY <1>0 DEF Scripts, Fetching
  <2> HIDE DEF t, dirs
  <2>5. spool' = [spool EXCEPT ![w] = spool[w]] /\ spool[w] \in Seq(Lines)
    BY <1>0, <1>1 DEF Tables, Typed
  <2>6. ~tainted[w] => Clean(host[w], {t}, dirs, spool[w])
    <3> SUFFICES ASSUME ~tainted[w] PROVE Clean(host[w], {t}, dirs, spool[w])
      OBVIOUS
    <3>1. Clean(host[w], vm[w], src[w], spool[w])
      BY <1>0 DEF WorkerOK
    <3>2. host[w].phase = "fetch" /\ host[w].said = "nothing" /\ host[w].client
          /\ host[w].at \in {"wait", "kill"} /\ s.client = "exec" /\ s.crate = host[w].crate
      BY <1>1, <3>1 DEF Clean, Fetching
    <3> QED BY <2>3, <2>4, <3>2 DEF Clean, Checking
  <2> QED BY <1>1, <1>3, <2>1, <2>3, <2>4, <2>5, <2>6, ScriptMoves
<1> QED BY <1>2, <1>3 DEF Untar

LEMMA ResolveStep ==
    ASSUME Inv, NEW w \in Workers, NEW s \in vm[w], Resolve(w, s), UNCHANGED tainted
    PROVE  Elsewhere(w) /\ WorkerOK(w)'
<1>1. s.step = "resolve" /\ UNCHANGED <<src, spool, tainted>>
  BY DEF Resolve
<1>2. Exits(w, s, "ok") \/ Exits(w, s, "failed")
  BY DEF Resolve
<1> QED BY <1>1, <1>2, ScriptExits

\* A check enters its own directory, if it is there.
LEMMA EnterStep ==
    ASSUME Inv, NEW w \in Workers, NEW s \in vm[w], Enter(w, s), UNCHANGED tainted
    PROVE  Elsewhere(w) /\ WorkerOK(w)'
<1>0. WorkerOK(w) /\ Tables /\ s \in Scripts /\ Typed(host[w], vm[w], src[w], spool[w])
  BY OnlyScript DEF Inv, WorkerOK
<1>1. s.step = "enter" /\ UNCHANGED <<src, spool, tainted>>
  BY DEF Enter
<1>2. CASE Exits(w, s, "nothing")
  BY <1>1, <1>2, ScriptExits
<1>3. ASSUME NEW d \in Dirs(w, s.crate), Steps(w, s, [s EXCEPT !.step = "compile", !.dir = d]),
             UNCHANGED host
      PROVE  Elsewhere(w) /\ WorkerOK(w)'
  <2> DEFINE t == [s EXCEPT !.step = "compile", !.dir = d]
  <2>1. d \in Crates
    BY <1>0 DEF Dirs, Scripts
  <2>2. t \in Scripts /\ t.step = "compile" /\ t.crate = s.crate /\ t.client = s.client
        /\ t.off = s.off /\ t.dir = d
    BY <1>0, <2>1 DEF Scripts, Checking
  <2> HIDE DEF t
  <2>3. /\ src' = [src EXCEPT ![w] = src[w]] /\ spool' = [spool EXCEPT ![w] = spool[w]]
        /\ src[w] \in [Crates -> {"none", "part", "whole"}] /\ spool[w] \in Seq(Lines)
    BY <1>0, <1>1 DEF Tables, Typed
  <2>4. ~tainted[w] => Clean(host[w], {t}, src[w], spool[w])
    <3> SUFFICES ASSUME ~tainted[w] PROVE Clean(host[w], {t}, src[w], spool[w])
      OBVIOUS
    <3>1. Clean(host[w], vm[w], src[w], spool[w])
      BY <1>0 DEF WorkerOK
    <3>2. src[w][s.crate] = "whole"
      BY <1>1, <3>1 DEF Clean, Checking
    <3>3. d = s.crate
      BY <3>2 DEF Dirs
    <3> QED BY <1>1, <2>2, <3>1, <3>2, <3>3 DEF Clean, Checking, Fetching
  <2>5. Steps(w, s, t)
    BY <1>3 DEF t
  <2> QED BY <1>1, <1>3, <2>2, <2>3, <2>4, <2>5, ScriptMoves
<1> QED BY <1>2, <1>3 DEF Enter

\* What a write leaves in the file; at its end it appends.
LEMMA WrittenFile ==
    ASSUME NEW file \in Seq(Lines), NEW off \in Nat, NEW line \in Lines
    PROVE  /\ Written(file, off, line) \in Seq(Lines)
           /\ off = Len(file) =>
                 /\ Len(Written(file, off, line)) = off + 1
                 /\ \A i \in 1..off : Written(file, off, line)[i] = file[i]
                 /\ Written(file, off, line)[off + 1] = line
<1> DEFINE n == IF off + 1 > Len(file) THEN off + 1 ELSE Len(file)
           new == Written(file, off, line)
<1>1. Len(file) \in Nat /\ n \in Nat
  BY LenProperties
<1>2. \A i \in 1..Len(file) : file[i] \in Lines
  BY ElementOfSeq
<1>3. new \in [1..n -> Lines]
  BY <1>1, <1>2 DEF Written, Lines
<1>4. new \in Seq(Lines)
  BY <1>1, <1>3, SeqDef
<1>5. Len(new) = n
  BY <1>1, <1>3, <1>4, LenProperties
<1>6. off = Len(file) => n = off + 1 /\ off + 1 \in 1..n /\ 1..off \subseteq 1..n
  BY <1>1
<1>7. off = Len(file) => new[off + 1] = line
  BY <1>6 DEF Written
<1>8. ASSUME off = Len(file), NEW i \in 1..off PROVE new[i] = file[i]
  BY <1>6, <1>8 DEF Written
<1> QED BY <1>4, <1>5, <1>6, <1>7, <1>8

\* A script that a call waits for is the only writer, and appends its crate.
LEMMA WritesStep ==
    ASSUME Inv, NEW w \in Workers, NEW s \in vm[w], Writes(w, s), UNCHANGED tainted
    PROVE  Elsewhere(w) /\ WorkerOK(w)'
<1> DEFINE t == [s EXCEPT !.off = @ + 1]
           file == IF s.client = "cut" THEN spool[w] ELSE Written(spool[w], s.off, s.dir)
<1>0. WorkerOK(w) /\ Tables /\ s \in Scripts /\ Typed(host[w], vm[w], src[w], spool[w])
  BY OnlyScript DEF Inv, WorkerOK
<1>1. s.step = "compile" /\ UNCHANGED <<host, src, tainted>> /\ Steps(w, s, t)
  BY DEF Writes
<1>2. spool' = [spool EXCEPT ![w] = file]
  BY <1>0 DEF Writes, Tables
<1>3. spool[w] \in Seq(Lines) /\ s.off \in Nat /\ s.dir \in Lines
  BY <1>0 DEF Typed, Scripts, Lines
<1>4. file \in Seq(Lines)
  BY <1>3, WrittenFile
<1>5. t \in Scripts /\ t.step = "compile" /\ t.crate = s.crate /\ t.client = s.client
      /\ t.off = s.off + 1 /\ t.dir = s.dir
  BY <1>0, <1>1 DEF Scripts
<1>6. src' = [src EXCEPT ![w] = src[w]] /\ src[w] \in [Crates -> {"none", "part", "whole"}]
  BY <1>0, <1>1 DEF Tables, Typed
<1> HIDE DEF t
<1>7. ~tainted[w] => Clean(host[w], {t}, src[w], file)
  <2> SUFFICES ASSUME ~tainted[w] PROVE Clean(host[w], {t}, src[w], file)
    OBVIOUS
  <2>1. Clean(host[w], vm[w], src[w], spool[w])
    BY <1>0 DEF WorkerOK
  <2>2. /\ host[w].phase = "check" /\ host[w].at \in {"wait", "kill"} /\ host[w].client
        /\ host[w].said = "nothing" /\ s.client = "exec" /\ s.crate = host[w].crate
        /\ s.dir = s.crate /\ s.off = Len(spool[w]) /\ src[w][s.crate] = "whole"
    BY <1>1, <2>1 DEF Clean, Checking
  <2>3. \A i \in 1..Len(spool[w]) : spool[w][i] = host[w].crate
    BY <2>1, <2>2 DEF Clean
  <2>4. /\ Len(file) = s.off + 1
        /\ \A i \in 1..s.off : file[i] = spool[w][i]
        /\ file[s.off + 1] = s.dir
    BY <1>3, <2>2, WrittenFile
  <2> HIDE DEF file
  <2>5. \A i \in 1..Len(file) : file[i] = host[w].crate
    BY <1>3, <2>2, <2>3, <2>4
  <2> QED BY <1>5, <2>2, <2>4, <2>5, ExecAssumption DEF Clean, Checking, Fetching
<1> HIDE DEF file
<1> QED BY <1>1, <1>2, <1>4, <1>5, <1>6, <1>7, ScriptMoves

LEMMA CompiledStep ==
    ASSUME Inv, NEW w \in Workers, NEW s \in vm[w], Compiled(w, s), UNCHANGED tainted
    PROVE  Elsewhere(w) /\ WorkerOK(w)'
BY ScriptExits DEF Compiled

LEMMA ScriptsStep ==
    ASSUME Inv, NEW w \in Workers, ScriptStep(w)
    PROVE  Elsewhere(w) /\ WorkerOK(w)'
<1>1. PICK s \in vm[w] :
          \/ Look(w, s) \/ Load(w, s) \/ Wipe(w, s) \/ Untar(w, s) \/ Resolve(w, s)
          \/ Enter(w, s) \/ Writes(w, s) \/ Compiled(w, s)
  BY DEF ScriptStep
<1>2. UNCHANGED tainted
  BY DEF ScriptStep
<1> QED BY <1>1, <1>2, LookStep, LoadStep, WipeStep, UntarStep, ResolveStep, EnterStep,
           WritesStep, CompiledStep

-----------------------------------------------------------------------------
(***************************************************************************)
(* The cache.                                                              *)
(***************************************************************************)
Past == {"wipe", "untar", "resolve"}

\* The cache only gains whole crates, and only a script that found one, or put
\* it there, gets past the download.
CacheGrows ==
    /\ cache' \in [Crates -> {"absent", "whole"}]
    /\ \A c \in Crates : cache[c] = "whole" => cache'[c] = "whole"
    /\ \A w \in Workers : \A t \in vm'[w] : t.step \in Past =>
          \/ \E s \in vm[w] : s.step \in Past /\ s.crate = t.crate
          \/ cache'[t.crate] = "whole"

LEMMA CacheKept == Inv /\ CacheGrows => CacheInv'
<1> SUFFICES ASSUME Inv, CacheGrows PROVE CacheInv'
  OBVIOUS
<1>1. \A w \in Workers : \A s \in vm[w] : s.crate \in Crates
  BY DEF Inv, WorkerOK, Typed, Scripts
<1> QED BY <1>1 DEF CacheGrows, CacheInv, Inv, Past

\* A step that leaves the cache and starts no script but at its first step.
LEMMA CallsCache ==
    ASSUME Inv, NEW w \in Workers,
           \/ \E c \in Crates : Fetch(w, c)
           \/ Call(w) \/ ClientLost(w) \/ ClientDies(w) \/ Recycle(w)
    PROVE  CacheGrows
<1>1. cache' = cache
  BY DEF Fetch, Call, Check, Waited, Kill, KillRaises, Reap, Join, Scan, ClientLost, ClientDies,
         Recycle
<1>2. ASSUME NEW v \in Workers, NEW t \in vm'[v], t.step \in Past
      PROVE  \E s \in vm[v] : s.step \in Past /\ s.crate = t.crate
  <2>1. CASE UNCHANGED vm
    BY <1>2, <2>1
  <2>2. CASE \E c \in Crates, step \in {"look", "enter"} :
                vm' = [vm EXCEPT ![w] = @ \cup {Script(c, step)}]
    BY <1>2, <2>2 DEF Inv, Tables, Script, Past
  <2>3. CASE \E works \in BOOLEAN, client \in {"stray", "cut"} :
                vm' = [vm EXCEPT ![w] = Left(Survivors(w, works), client)]
    <3>1. PICK works \in BOOLEAN, client \in {"stray", "cut"} :
                vm' = [vm EXCEPT ![w] = Left(Survivors(w, works), client)]
      BY <2>3
    <3>2. CASE v = w
      <4>1. t \in Left(Survivors(w, works), client)
        BY <1>2, <3>1, <3>2 DEF Inv, Tables
      <4>2. PICK s \in Survivors(w, works) :
                t = IF s.client = "exec" THEN [s EXCEPT !.client = client] ELSE s
        BY <4>1 DEF Left
      <4>3. s \in vm[w] /\ s \in Scripts
        BY <4>2 DEF Survivors, Inv, WorkerOK, Typed
      <4>4. t.step = s.step /\ t.crate = s.crate
        BY <4>2, <4>3 DEF Scripts
      <4> QED BY <1>2, <3>2, <4>3, <4>4
    <3>3. CASE v # w
      BY <1>2, <3>1, <3>3 DEF Inv, Tables
    <3> QED BY <3>2, <3>3
  <2>4. CASE vm' = [vm EXCEPT ![w] = {}]
    BY <1>2, <2>4 DEF Inv, Tables
  <2>5. \A c \in Crates : Fetch(w, c) => vm' = [vm EXCEPT ![w] = @ \cup {Script(c, "look")}]
    BY DEF Fetch
  <2>6. Check(w) => vm' = [vm EXCEPT ![w] = @ \cup {Script(host[w].crate, "enter")}]
                    /\ host[w].crate \in Crates
    BY ExecAssumption DEF Check, At, Inv, WorkerOK, Placed
  <2> QED BY <2>1, <2>2, <2>3, <2>4, <2>5, <2>6
          DEF Call, Waited, Kill, KillRaises, Reap, Join, Scan, ClientLost, ClientDies, Recycle,
              Survivors
<1> QED BY <1>1, <1>2 DEF CacheGrows, Inv, CacheInv

\* One script goes on, or exits; the others stay as they are.
LEMMA OneScript ==
    ASSUME Inv, NEW w \in Workers, NEW s \in vm[w], NEW step, NEW dir, NEW off,
           \/ Steps(w, s, [s EXCEPT !.step = step, !.dir = dir, !.off = off])
           \/ vm' = [vm EXCEPT ![w] = @ \ {s}],
           cache' \in [Crates -> {"absent", "whole"}],
           \A c \in Crates : cache[c] = "whole" => cache'[c] = "whole",
           step \in Past => s.step \in Past \/ cache'[s.crate] = "whole"
    PROVE  CacheGrows
<1> DEFINE u == [s EXCEPT !.step = step, !.dir = dir, !.off = off]
<1>0. s \in Scripts
  BY DEF Inv, WorkerOK, Typed
<1>1. u.step = step /\ u.crate = s.crate
  BY <1>0 DEF Scripts
<1>2. \/ vm' = [vm EXCEPT ![w] = (vm[w] \ {s}) \cup {u}]
      \/ vm' = [vm EXCEPT ![w] = vm[w] \ {s}]
  BY DEF Steps, Inv, Tables
<1> HIDE DEF u
<1>3. ASSUME NEW v \in Workers, NEW t \in vm'[v], t.step \in Past
      PROVE  (\E r \in vm[v] : r.step \in Past /\ r.crate = t.crate) \/ cache'[t.crate] = "whole"
  <2>1. CASE t \in vm[v]
    BY <1>3, <2>1
  <2>2. CASE v = w /\ t = u
    BY <1>1, <1>3, <2>2
  <2>3. t \in vm[v] \/ (v = w /\ t = u)
    BY <1>2, <1>3 DEF Inv, Tables
  <2> QED BY <2>1, <2>2, <2>3
<1> QED BY <1>3 DEF CacheGrows

LEMMA ScriptsCache ==
    ASSUME Inv, NEW w \in Workers, ScriptStep(w)
    PROVE  CacheGrows
<1>1. PICK s \in vm[w] :
          \/ Look(w, s) \/ Load(w, s) \/ Wipe(w, s) \/ Untar(w, s) \/ Resolve(w, s)
          \/ Enter(w, s) \/ Writes(w, s) \/ Compiled(w, s)
  BY DEF ScriptStep
<1>2. s \in Scripts /\ s.crate \in Crates
  BY DEF Inv, WorkerOK, Typed, Scripts
<1>3. cache \in [Crates -> {"absent", "whole"}]
  BY DEF Inv, CacheInv
<1>4. \A step : [s EXCEPT !.step = step] = [s EXCEPT !.step = step, !.dir = s.dir, !.off = s.off]
  BY <1>2 DEF Scripts
<1>5. \A step, dir : [s EXCEPT !.step = step, !.dir = dir]
                    = [s EXCEPT !.step = step, !.dir = dir, !.off = s.off]
  BY <1>2 DEF Scripts
<1>6. [s EXCEPT !.off = @ + 1] = [s EXCEPT !.step = s.step, !.dir = s.dir, !.off = s.off + 1]
  BY <1>2 DEF Scripts
<1>7. ASSUME NEW step, Moves(w, s, step), cache' \in [Crates -> {"absent", "whole"}],
             \A c \in Crates : cache[c] = "whole" => cache'[c] = "whole",
             step \in Past => s.step \in Past \/ cache'[s.crate] = "whole"
      PROVE  CacheGrows
  <2>1. Steps(w, s, [s EXCEPT !.step = step, !.dir = s.dir, !.off = s.off])
    BY <1>4, <1>7 DEF Moves
  <2> QED BY <1>7, <2>1, OneScript
<1>8. ASSUME NEW said, Exits(w, s, said), UNCHANGED cache PROVE CacheGrows
  <2>1. vm' = [vm EXCEPT ![w] = @ \ {s}]
    BY <1>8 DEF Exits
  <2>2. s.step \in Past => s.step \in Past
    OBVIOUS
  <2> QED BY <1>3, <1>8, <2>1, <2>2, OneScript
<1>9. CASE Look(w, s)
  <2>1. CASE cache[s.crate] = "absent"
    <3>1. Moves(w, s, "load") /\ UNCHANGED cache
      BY <1>9, <2>1 DEF Look, Loading
    <3> QED BY <1>3, <1>7, <3>1 DEF Past
  <2>2. CASE cache[s.crate] # "absent"
    <3>1. Moves(w, s, "wipe") /\ UNCHANGED cache
      BY <1>9, <2>2 DEF Look
    <3>2. cache'[s.crate] = "whole"
      BY <1>2, <1>3, <2>2, <3>1
    <3> QED BY <1>3, <1>7, <3>1, <3>2
  <2> QED BY <2>1, <2>2
<1>10. CASE Load(w, s)
  <2>1. CASE (\E said \in {"transient", "failed"} : Exits(w, s, said)) /\ UNCHANGED cache
    BY <1>8, <2>1
  <2>2. CASE Moves(w, s, "wipe") /\ cache' = [cache EXCEPT ![s.crate] = "whole"]
    <3>1. /\ cache' \in [Crates -> {"absent", "whole"}] /\ cache'[s.crate] = "whole"
          /\ \A c \in Crates : cache[c] = "whole" => cache'[c] = "whole"
      BY <1>2, <1>3, <2>2
    <3> QED BY <1>7, <2>2, <3>1
  <2> QED BY <1>10, <2>1, <2>2 DEF Load
<1>11. CASE Wipe(w, s)
  BY <1>3, <1>7, <1>11 DEF Wipe, Past
<1>12. CASE Untar(w, s)
  BY <1>3, <1>7, <1>8, <1>12 DEF Untar, Past
<1>13. CASE Resolve(w, s)
  BY <1>8, <1>13 DEF Resolve
<1>14. CASE Enter(w, s)
  <2>1. CASE Exits(w, s, "nothing")
    BY <1>8, <1>14, <2>1 DEF Enter
  <2>2. ASSUME NEW d, Steps(w, s, [s EXCEPT !.step = "compile", !.dir = d]) PROVE CacheGrows
    <3>1. Steps(w, s, [s EXCEPT !.step = "compile", !.dir = d, !.off = s.off])
      BY <1>5, <2>2
    <3>2. UNCHANGED cache
      BY <1>14 DEF Enter
    <3>3. "compile" \notin Past
      BY DEF Past
    <3> QED BY <1>3, <3>1, <3>2, <3>3, OneScript
  <2> QED BY <1>14, <2>1, <2>2 DEF Enter
<1>15. CASE Writes(w, s)
  <2>1. Steps(w, s, [s EXCEPT !.step = s.step, !.dir = s.dir, !.off = s.off + 1])
    BY <1>6, <1>15 DEF Writes
  <2>2. UNCHANGED cache
    BY <1>15 DEF Writes
  <2> QED BY <1>3, <2>1, <2>2, OneScript
<1>16. CASE Compiled(w, s)
  BY <1>8, <1>16 DEF Compiled
<1> QED BY <1>1, <1>9, <1>10, <1>11, <1>12, <1>13, <1>14, <1>15, <1>16

-----------------------------------------------------------------------------
(***************************************************************************)
(* The invariant, and what follows.                                        *)
(***************************************************************************)
LEMMA WorkerStep ==
    ASSUME Inv, NEW w \in Workers,
           \/ \E c \in Crates : Fetch(w, c)
           \/ Call(w) \/ ClientLost(w) \/ ClientDies(w) \/ Recycle(w) \/ ScriptStep(w)
    PROVE  Inv'
<1>1. Elsewhere(w) /\ WorkerOK(w)'
  BY FetchStep, CheckStep, WaitedStep, KillStep, KillRaisesStep, ClientLostStep,
     ClientDiesStep, ReapStep,
     JoinStep, ScanStep, RecycleStep, ScriptsStep DEF Call
<1>2. \A v \in Workers : WorkerOK(v)'
  BY <1>1, OthersKept
<1>3. CacheGrows
  BY CallsCache, ScriptsCache
<1>4. CacheInv'
  BY <1>3, CacheKept
<1> QED BY <1>1, <1>2, <1>4 DEF Inv, Elsewhere

\* Another container's download.
LEMMA OtherStep ==
    ASSUME Inv, NEW c \in Crates, Other(c)
    PROVE  Inv'
<1>1. UNCHANGED <<host, vm, src, spool, tainted>>
  BY DEF Other
<1>2. cache' = cache \/ cache' = [cache EXCEPT ![c] = "whole"]
  BY DEF Other, OtherLooks, OtherLoads, Loading
<1>3. CacheInv'
  <2>1. \A w \in Workers : \A s \in vm[w] : s.crate \in Crates
    BY DEF Inv, WorkerOK, Typed, Scripts
  <2> QED BY <1>1, <1>2, <2>1 DEF Inv, CacheInv
<1> QED BY <1>1, <1>3 DEF Inv, Tables, WorkerOK

LEMMA InvStep == Inv /\ [Next]_vars => Inv'
<1> SUFFICES ASSUME Inv, [Next]_vars PROVE Inv'
  OBVIOUS
<1>1. CASE UNCHANGED vars
  BY <1>1 DEF vars, Inv, Tables, CacheInv, WorkerOK
<1>2. ASSUME NEW w \in Workers,
             \/ \E c \in Crates : Fetch(w, c)
             \/ Call(w) \/ ClientLost(w) \/ ClientDies(w) \/ Recycle(w) \/ ScriptStep(w)
      PROVE  Inv'
  BY <1>2, WorkerStep
<1> QED BY <1>1, <1>2, OtherStep DEF Next

LEMMA Invariance == Spec => []Inv
BY InvInit, InvStep, PTL DEF Spec

\* What tar opens is whole, however many containers download the crate into the
\* shared cache and wherever their downloads are killed.
THEOREM CacheCorrect == Spec => []CacheTrusted
<1>1. Inv => CacheTrusted
  BY DEF Inv, CacheInv, CacheTrusted
<1> QED BY <1>1, Invariance, PTL

\* A check compiles the whole of its own crate, after any history of timeouts and
\* killed scripts in its container that left none behind: no kill failed, and no
\* client ended alone.
THEOREM SourceCorrect == Spec => []OwnSource
<1>1. Inv => OwnSource
  BY DEF Inv, WorkerOK, Clean, OwnSource, Checking
<1> QED BY <1>1, Invariance, PTL

\* Every message in the spool that scan_first_error reads was printed for the
\* crate it judges, however many lines earlier checks left there, unless a script
\* was left behind.
THEOREM SpoolCorrect == Spec => []OwnSpool
<1>1. Inv => OwnSpool
  <2> SUFFICES ASSUME Inv, NEW w \in Workers, At(w, "scan"), ~tainted[w],
                      NEW i \in DOMAIN spool[w]
               PROVE  spool[w][i] = host[w].crate
    BY DEF OwnSpool
  <2>1. WorkerOK(w)
    BY DEF Inv
  <2>2. host[w].phase = "check"
    BY <2>1 DEF WorkerOK, Placed, At
  <2>3. spool[w] \in Seq(Lines)
    BY <2>1 DEF WorkerOK, Typed
  <2>4. i \in 1..Len(spool[w])
    BY <2>3, LenProperties
  <2> QED BY <2>1, <2>2, <2>4 DEF WorkerOK, Clean
<1> QED BY <1>1, Invariance, PTL

-----------------------------------------------------------------------------
(***************************************************************************)
(* The script that a call waits for, also where others were left behind.   *)
(***************************************************************************)
Waiting(h) == h.at \in {"wait", "kill"} /\ h.client

\* At most one script has the client that is waited for, and only as long as
\* the call waits for it.
OneClient(h, ss) ==
    /\ \A s, t \in ss : s.client = "exec" /\ t.client = "exec" => s = t
    /\ \A s \in ss : s.client = "exec" => Waiting(h)

Bounded ==
    /\ others \subseteq Crates
    /\ tainted \in [Workers -> BOOLEAN]
    /\ failures \in 0..MaxStragglers

ClientInv == Bounded /\ \A w \in Workers : OneClient(host[w], vm[w])

LEMMA ClientInit == Init => ClientInv
BY ExecAssumption DEF Init, ClientInv, Bounded, OneClient

LEMMA BoundedStep == Bounded /\ [Next]_vars => Bounded'
<1> SUFFICES ASSUME Bounded, [Next]_vars PROVE Bounded'
  OBVIOUS
<1>1. ASSUME UNCHANGED <<others, tainted, failures>> PROVE Bounded'
  BY <1>1 DEF Bounded
<1>2. ASSUME NEW w \in Workers, LeavesScript(w), UNCHANGED others PROVE Bounded'
  BY <1>2, ExecAssumption DEF Bounded, LeavesScript
<1>3. ASSUME NEW w \in Workers, Kill(w) \/ KillRaises(w) \/ ClientLost(w) PROVE Bounded'
  BY <1>1, <1>2, <1>3 DEF Kill, KillRaises, ClientLost
<1>4. ASSUME NEW w \in Workers, Recycle(w) PROVE Bounded'
  BY <1>4 DEF Bounded, Recycle
<1>5. ASSUME NEW c \in Crates, Other(c) PROVE Bounded'
  BY <1>5 DEF Bounded, Other, OtherLooks, OtherLoads
<1>6. ASSUME NEW w \in Workers, NEW c \in Crates, Fetch(w, c) PROVE Bounded'
  BY <1>1, <1>6 DEF Fetch
<1>7. ASSUME NEW w \in Workers,
             Check(w) \/ Waited(w) \/ Reap(w) \/ Join(w) \/ Scan(w) \/ ClientDies(w)
             \/ ScriptStep(w)
      PROVE  Bounded'
  BY <1>1, <1>7 DEF Check, Waited, Reap, Join, Scan, ClientDies, ScriptStep
<1>8. CASE UNCHANGED vars
  BY <1>1, <1>8 DEF vars
<1> QED BY <1>3, <1>4, <1>5, <1>6, <1>7, <1>8 DEF Next, Call

\* What the calls do with the scripts of their container.
LEMMA CallClient ==
    ASSUME Inv, NEW w \in Workers, OneClient(host[w], vm[w]),
           \/ \E c \in Crates : Fetch(w, c)
           \/ Call(w) \/ ClientLost(w) \/ ClientDies(w) \/ Recycle(w)
    PROVE  OneClient(host'[w], vm'[w])
<1>0. Tables /\ host[w] \in Calls /\ vm[w] \subseteq Scripts /\ Placed(host[w])
  BY DEF Inv, WorkerOK, Typed
<1>1. ~Waiting(host[w]) => \A s \in vm[w] : s.client # "exec"
  BY DEF OneClient
<1>2. ASSUME \A s \in vm'[w] : s.client # "exec" PROVE OneClient(host'[w], vm'[w])
  BY <1>2 DEF OneClient
<1>3. ASSUME NEW h, Goes(w, h) PROVE host'[w] = h
  BY <1>0, <1>3 DEF Goes, Tables
<1>4. ASSUME NEW h, h.at = "wait", h.client, Goes(w, h), NEW c, NEW step,
             vm' = [vm EXCEPT ![w] = @ \cup {Script(c, step)}], ~Waiting(host[w])
      PROVE  OneClient(host'[w], vm'[w])
  <2>1. vm'[w] = vm[w] \cup {Script(c, step)} /\ host'[w] = h
    BY <1>0, <1>3, <1>4 DEF Tables
  <2> QED BY <1>1, <1>4, <2>1 DEF OneClient, Waiting
<1>5. ASSUME NEW c \in Crates, Fetch(w, c) PROVE OneClient(host'[w], vm'[w])
  <2> DEFINE h == [Idle EXCEPT !.at = "wait", !.phase = "fetch", !.crate = c, !.client = TRUE]
  <2>1. h.at = "wait" /\ h.client
    BY DEF Idle
  <2>2. Goes(w, h) /\ vm' = [vm EXCEPT ![w] = @ \cup {Script(c, "look")}]
    BY <1>5 DEF Fetch
  <2>3. ~Waiting(host[w])
    BY <1>5 DEF Fetch, At, Waiting
  <2> HIDE DEF h
  <2> QED BY <1>4, <2>1, <2>2, <2>3
<1>6. ASSUME Check(w) PROVE OneClient(host'[w], vm'[w])
  <2> DEFINE h == [Idle EXCEPT !.at = "wait", !.phase = "check", !.crate = host[w].crate,
                               !.client = TRUE]
  <2>1. h.at = "wait" /\ h.client
    BY DEF Idle
  <2>2. Goes(w, h) /\ vm' = [vm EXCEPT ![w] = @ \cup {Script(host[w].crate, "enter")}]
    BY <1>6 DEF Check
  <2>3. ~Waiting(host[w])
    BY <1>6 DEF Check, At, Waiting
  <2> HIDE DEF h
  <2> QED BY <1>4, <2>1, <2>2, <2>3
<1>7. ASSUME Waited(w) PROVE OneClient(host'[w], vm'[w])
  <2>1. vm' = vm
    BY <1>7 DEF Waited
  <2>2. CASE ~host[w].client
    BY <1>1, <1>2, <2>1, <2>2 DEF Waiting
  <2>3. CASE host[w].client
    <3> DEFINE h == [host[w] EXCEPT !.at = "kill", !.late = TRUE]
    <3>1. Goes(w, h)
      BY <1>7, <2>3 DEF Waited
    <3>2. h.at = "kill" /\ h.client
      BY <1>0, <2>3 DEF Calls
    <3> HIDE DEF h
    <3>3. Waiting(host'[w])
      BY <1>3, <3>1, <3>2 DEF Waiting
    <3> QED BY <2>1, <3>3 DEF OneClient
  <2> QED BY <2>2, <2>3
<1>8. ASSUME NEW works \in BOOLEAN, NEW client \in {"stray", "cut"},
             vm' = [vm EXCEPT ![w] = Left(Survivors(w, works), client)]
      PROVE  OneClient(host'[w], vm'[w])
  <2>1. vm'[w] = Left(Survivors(w, works), client)
    BY <1>0, <1>8 DEF Tables
  <2>2. ASSUME NEW t \in vm'[w] PROVE t.client # "exec"
    <3>1. PICK s \in Survivors(w, works) :
              t = IF s.client = "exec" THEN [s EXCEPT !.client = client] ELSE s
      BY <2>1, <2>2 DEF Left
    <3>2. s \in Scripts
      BY <1>0, <3>1 DEF Survivors
    <3> QED BY <3>1, <3>2 DEF Scripts
  <2> QED BY <1>2, <2>2
<1>9. ASSUME Kill(w) \/ KillRaises(w) \/ ClientLost(w) PROVE OneClient(host'[w], vm'[w])
  BY <1>8, <1>9 DEF Kill, KillRaises, ClientLost, Survivors
<1>10. ASSUME Reap(w) \/ Join(w) \/ Scan(w) \/ ClientDies(w)
       PROVE  OneClient(host'[w], vm'[w])
  <2>1. vm' = vm
    BY <1>10 DEF Reap, Join, Scan, ClientDies
  <2>2. ~Waiting(host[w])
    BY <1>10 DEF Reap, Join, Scan, ClientDies, At, Waiting
  <2> QED BY <1>1, <1>2, <2>1, <2>2
<1>11. ASSUME Recycle(w) PROVE OneClient(host'[w], vm'[w])
  <2>1. vm'[w] = {}
    BY <1>0, <1>11 DEF Recycle, Tables
  <2> QED BY <1>2, <2>1
<1> QED BY <1>5, <1>6, <1>7, <1>9, <1>10, <1>11 DEF Call

\* A script goes on with its client, or exits with it.
LEMMA ScriptClient ==
    ASSUME Inv, NEW w \in Workers, OneClient(host[w], vm[w]), ScriptStep(w)
    PROVE  OneClient(host'[w], vm'[w])
<1>0. Tables /\ host[w] \in Calls /\ vm[w] \subseteq Scripts
  BY DEF Inv, WorkerOK, Typed
<1>1. PICK s \in vm[w] :
          \/ Look(w, s) \/ Load(w, s) \/ Wipe(w, s) \/ Untar(w, s) \/ Resolve(w, s)
          \/ Enter(w, s) \/ Writes(w, s) \/ Compiled(w, s)
  BY DEF ScriptStep
<1>2. s \in Scripts
  BY <1>0
<1>3. ASSUME NEW t, t.client = s.client, Steps(w, s, t), UNCHANGED host
      PROVE  OneClient(host'[w], vm'[w])
  <2>1. vm'[w] = (vm[w] \ {s}) \cup {t} /\ host'[w] = host[w]
    BY <1>0, <1>3 DEF Tables, Steps
  <2> QED BY <1>3, <2>1 DEF OneClient
<1>4. ASSUME NEW step, Moves(w, s, step), UNCHANGED host
      PROVE  OneClient(host'[w], vm'[w])
  <2>1. PICK t : t = [s EXCEPT !.step = step]
    OBVIOUS
  <2>2. t.client = s.client /\ Steps(w, s, t)
    BY <1>2, <1>4, <2>1 DEF Scripts, Moves
  <2> QED BY <1>3, <1>4, <2>2
<1>5. ASSUME NEW said, Exits(w, s, said) PROVE OneClient(host'[w], vm'[w])
  <2>1. vm'[w] = vm[w] \ {s}
    BY <1>0, <1>5 DEF Tables, Exits
  <2>2. CASE UNCHANGED host
    BY <2>1, <2>2 DEF OneClient
  <2>3. CASE s.client = "exec"
    BY <2>1, <2>3 DEF OneClient
  <2> QED BY <1>5, <2>2, <2>3 DEF Exits
<1>6. CASE Look(w, s)
  BY <1>4, <1>6 DEF Look
<1>7. CASE Load(w, s)
  BY <1>4, <1>5, <1>7 DEF Load
<1>8. CASE Wipe(w, s)
  BY <1>4, <1>8 DEF Wipe
<1>9. CASE Untar(w, s)
  BY <1>4, <1>5, <1>9 DEF Untar
<1>10. CASE Resolve(w, s)
  BY <1>5, <1>10 DEF Resolve
<1>11. CASE Enter(w, s)
  <2>1. CASE Exits(w, s, "nothing")
    BY <1>5, <2>1
  <2>2. ASSUME NEW d, Steps(w, s, [s EXCEPT !.step = "compile", !.dir = d]), UNCHANGED host
        PROVE  OneClient(host'[w], vm'[w])
    <3>1. PICK t : t = [s EXCEPT !.step = "compile", !.dir = d]
      OBVIOUS
    <3>2. t.client = s.client /\ Steps(w, s, t)
      BY <1>2, <2>2, <3>1 DEF Scripts
    <3> QED BY <1>3, <2>2, <3>2
  <2> QED BY <1>11, <2>1, <2>2 DEF Enter
<1>12. CASE Writes(w, s)
  <2>1. PICK t : t = [s EXCEPT !.off = @ + 1]
    OBVIOUS
  <2>2. t.client = s.client /\ Steps(w, s, t) /\ UNCHANGED host
    BY <1>2, <1>12, <2>1 DEF Scripts, Writes
  <2> QED BY <1>3, <2>2
<1>13. CASE Compiled(w, s)
  BY <1>5, <1>13 DEF Compiled
<1> QED BY <1>1, <1>6, <1>7, <1>8, <1>9, <1>10, <1>11, <1>12, <1>13

LEMMA ClientStep == Inv /\ ClientInv /\ [Next]_vars => ClientInv'
<1> SUFFICES ASSUME Inv, ClientInv, [Next]_vars PROVE ClientInv'
  OBVIOUS
<1>1. Bounded'
  BY BoundedStep DEF ClientInv
<1>2. ASSUME NEW w \in Workers, Elsewhere(w), OneClient(host'[w], vm'[w]) PROVE ClientInv'
  BY <1>1, <1>2 DEF ClientInv, Elsewhere
<1>3. ASSUME NEW w \in Workers,
             \/ \E c \in Crates : Fetch(w, c)
             \/ Call(w) \/ ClientLost(w) \/ ClientDies(w) \/ Recycle(w) \/ ScriptStep(w)
      PROVE  ClientInv'
  <2>1. Elsewhere(w)
    BY <1>3, FetchStep, CheckStep, WaitedStep, KillStep, KillRaisesStep, ClientLostStep,
       ClientDiesStep,
       ReapStep, JoinStep, ScanStep, RecycleStep, ScriptsStep DEF Call
  <2>2. OneClient(host[w], vm[w])
    BY DEF ClientInv
  <2>3. OneClient(host'[w], vm'[w])
    BY <1>3, <2>2, CallClient, ScriptClient
  <2> QED BY <1>2, <2>1, <2>3
<1>4. ASSUME UNCHANGED <<host, vm>> PROVE ClientInv'
  BY <1>1, <1>4 DEF ClientInv
<1>5. \A c \in Crates : Other(c) => UNCHANGED <<host, vm>>
  BY DEF Other
<1> QED BY <1>3, <1>4, <1>5 DEF Next, vars

LEMMA ClientInvariance == Spec => []ClientInv
BY ClientInit, ClientStep, Invariance, PTL DEF Spec

\* exec_phase waits for one client at a time: whatever scripts earlier calls
\* left behind in the container, at most one of those that run there is the
\* present call's, and what calls, files and caches hold is of its kind.
THEOREM ExecTypeCorrect == Spec => []ExecTypeOK
<1>1. Inv /\ ClientInv => ExecTypeOK
  <2> SUFFICES ASSUME Inv, ClientInv PROVE ExecTypeOK
    OBVIOUS
  <2>1. ASSUME NEW w \in Workers
        PROVE  /\ host[w] \in Calls
               /\ Cardinality({s \in vm[w] : s.client = "exec"}) <= 1
               /\ \A i \in DOMAIN spool[w] : spool[w][i] \in Crates \cup {None}
               /\ src[w] \in [Crates -> {"none", "part", "whole"}]
    <3>1. Typed(host[w], vm[w], src[w], spool[w])
      BY DEF Inv, WorkerOK
    <3>2. Cardinality({s \in vm[w] : s.client = "exec"}) <= 1
      <4> DEFINE E == {s \in vm[w] : s.client = "exec"}
      <4>1. \A s, t \in E : s = t
        BY DEF ClientInv, OneClient
      <4>2. E = {} \/ \E s : E = {s}
        BY <4>1
      <4> HIDE DEF E
      <4>3. Cardinality(E) = 0 \/ Cardinality(E) = 1
        BY <4>2, FS_EmptySet, FS_Singleton
      <4>4. Cardinality(E) <= 1
        BY <4>3
      <4> QED BY <4>4 DEF E
    <3>3. spool[w] \in Seq(Lines)
      BY <3>1 DEF Typed
    <3>4. \A i \in DOMAIN spool[w] : spool[w][i] \in Lines
      BY <3>3, LenProperties, ElementOfSeq
    <3> QED BY <3>1, <3>2, <3>4 DEF Typed, Lines
  <2>2. src \in [Workers -> [Crates -> {"none", "part", "whole"}]]
    BY <2>1 DEF Inv, Tables
  <2>3. cache \in [Crates -> {"absent", "torn", "whole"}]
    BY DEF Inv, CacheInv
  <2>4. Bounded
    BY DEF ClientInv
  <2>5. \A w \in Workers :
          /\ host[w].at \in Places /\ host[w].phase \in {None, "fetch", "check"}
          /\ host[w].crate \in Crates \cup {None}
          /\ host[w].verdict \in {None, "harness_error", "excluded_resolve"}
    BY <2>1 DEF Calls
  <2> QED BY <2>1, <2>2, <2>3, <2>4, <2>5 DEF ExecTypeOK, Bounded, Places
<1> QED BY <1>1, Invariance, ClientInvariance, PTL
=============================================================================
