------------------------------ MODULE MCRunProbe ------------------------------
(* Crates of every kind the classifier tells apart, with two dependencies. *)
EXTENDS RunProbe, TLC

CONSTANTS w1, w2, own, a, b

MCWorkers  == {w1, w2}
MCPackages == {own, a, b}

AllOk == [p \in MCPackages |-> "ok"]

\* A light crate that resolves, with independent dependencies.
Crate(fork, stock) ==
    [resolves |-> TRUE, fork |-> fork, stock |-> stock, needs |-> {},
     noTargets |-> FALSE, load |-> "light", mentionsOom |-> FALSE]

With(p, result) == (p :> result) @@ AllOk

Sync         == Crate(AllOk, AllOk)
Unresolved   == [Sync EXCEPT !.resolves = FALSE]
NoTargets    == [Sync EXCEPT !.noTargets = TRUE]
AsyncOwn     == Crate(With(own, "ban"), AllOk)
AsyncChain   == [Crate((a :> "ban") @@ (b :> "ban") @@ AllOk, AllOk) EXCEPT !.needs = {<<a, b>>}]
AsyncOrBroken == Crate((a :> "ban") @@ (b :> "error") @@ AllOk, With(b, "error"))
ScriptBroken == Crate((a :> "script") @@ (b :> "ban") @@ AllOk, With(a, "script"))
Canary       == Crate(With(own, "error"), AllOk)
HeavyCanary  == [Canary EXCEPT !.load = "heavy"]
HeavySync    == [Sync EXCEPT !.load = "heavy"]
Long         == [Sync EXCEPT !.load = "long"]
LongAsync    == [AsyncOwn EXCEPT !.load = "long"]
Refused      == Crate(With(a, "refused"), With(a, "refused"))
OomName      == [Sync EXCEPT !.mentionsOom = TRUE]

\* Every kind but two that have runs of their own; a heavy or long crate may also
\* do what its light one does.
MCCrates == {Unresolved, NoTargets, AsyncChain, AsyncOrBroken, ScriptBroken, Refused,
             HeavyCanary, HeavySync, LongAsync}

MCCratesLong  == {Sync, Long}
MCCratesStock == {Sync, OomName, AsyncOrBroken, HeavyCanary}

MCSymmetry == Permutations(MCWorkers)
=============================================================================
