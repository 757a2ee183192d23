---------------------------------- MODULE Stats ----------------------------------
(***************************************************************************)
(* What the dashboard's queries select from the two tables of ProbeQueue.  *)
(* fetch_stats runs them one after the other, each in a transaction of its *)
(* own, while the survey goes on: a payload mixes states of the database.  *)
(*                                                                         *)
(* Abstractions.  A count is the set of rows it counts.  The rounding and  *)
(* the interval's formula are left out, as are top_blamed, recent and      *)
(* workers, whose numbers the page relates to no other.                    *)
(***************************************************************************)
EXTENDS ProbeQueue

\* rand_key is drawn by random(), once, under a fixed seed: no two rows share it.
ASSUME RandKeysDiffer == \A p, r \in Probes : RandKey[p] = RandKey[r] => p = r

\* counts: the rows in each state.
InState(states) == {p \in Probes : probe[p].state \in states}

\* Mutant: crates that were given up are counted as done.
DoneRows_GivenUp == InState({"done", "exhausted"})

DoneRows == InState({"done"})

\* The view current_results: the rows with a current result of these statuses.
With(statuses) ==
    {p \in Probes : \E i \in DOMAIN results[p] :
        results[p][i].current /\ results[p][i].status \in statuses}

Verdicts == Statuses \ {"harness_error"}
Survived == {"pass", "pass_trivial"}
Counting == Survived \cup {"fail_async_direct", "fail_async_dep", "fail_other"}

\* headline and buckets: what survived and what counts, up to a cutoff.
UpTo(cutoff, rows) == {p \in rows : cutoff = None \/ PopRank[p] <= cutoff}

\* Mutant: the watermark is the last row the random queue handed out.
Drawn_Claimed == {p \in Probes : probe[p].via = "random"}

\* Mutant: the watermark is taken over both queues.
Drawn_AnyQueue == {p \in Probes : probe[p].state = "done"}

\* estimate, wm: the rows whose greatest rand_key is the watermark.
Drawn == {p \in Probes : probe[p].via = "random" /\ probe[p].state = "done"}

BelowWatermark(p) == \E m \in Drawn : RandKey[p] <= RandKey[m]

\* estimate, s: n and k are the sample's rows that count and that survived.
Sample(statuses) == {p \in With(statuses) : BelowWatermark(p)}

-----------------------------------------------------------------------------
\* A payload adds up although its queries see different states: whatever a query
\* counted as done, judged, surviving or failing, every later query still finds
\* so.  "probed" never exceeds the breakdown that is read after it, and no bucket
\* is ahead of one that contains it.  Only a harness error may give way.
LaterQueriesCatchUp ==
    [][/\ DoneRows \subseteq With(Verdicts)'
       /\ \A s \in Reported \cap Verdicts : With({s}) \subseteq With({s})'
       /\ \A cutoff \in {None} \cup {PopRank[p] : p \in Probes} :
             UpTo(cutoff, With(Survived)) \subseteq UpTo(None, With(Counting))']_queueVars

\* The random sample has no holes: every crate below the watermark was claimed,
\* so the only ones without a result are those still tried, waiting for a retry
\* or given up, none that both queues merely have not reached.
SampleHasNoHoles ==
    \A p \in Probes : BelowWatermark(p) =>
        \/ p \in With(Statuses)
        \/ probe[p].attempts > 0 /\ probe[p].state # "done"

\* The estimate never forgets: the watermark never moves back and no crate that
\* counted in the sample leaves it, whichever queue a retry goes through.
SampleOnlyGrows ==
    [][/\ \A p \in Probes : BelowWatermark(p) => BelowWatermark(p)'
       /\ Sample(Counting) \subseteq Sample(Counting)'
       /\ Sample(Survived) \subseteq Sample(Survived)']_queueVars
=============================================================================
