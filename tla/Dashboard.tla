------------------------------- MODULE Dashboard -------------------------------
(***************************************************************************)
(* The live dashboard: the thread that listens for NOTIFY and broadcasts   *)
(* the statistics, the hub of bounded client queues, and a handler thread  *)
(* with its page for each browser.                                         *)
(*                                                                         *)
(* The survey's database is a version number: every commit that changes    *)
(* the statistics makes a new one.  complete_probe and a sweep that finds  *)
(* something notify, a claim does not.  A payload is the version that was  *)
(* current when the first of its queries ran: a payload that starts at the *)
(* current version is current altogether.                                  *)
(*                                                                         *)
(* Abstractions.  A write to a browser that is gone fails at once.  The    *)
(* drill-down requests share nothing with the live stream and are left     *)
(* out.  Versions, faults and openings are bounded.                        *)
(***************************************************************************)
EXTENDS Naturals, Sequences, FiniteSets, SequencesExt

CONSTANTS
    Pages,         \* the browser pages that may connect
    None,
    MaxVersion,    \* bound: commits of the survey
    MaxFaults,     \* bound: lost connections and failed queries
    MaxOpens       \* bound: how often each page is opened

QueueSize == 2

ASSUME DashboardAssumption ==
    /\ None \notin Nat /\ None \notin Pages
    /\ MaxVersion \in Nat /\ MaxFaults \in Nat /\ MaxOpens \in Nat

VARIABLES
    version,    \* of the statistics in the database
    notified,   \* the newest version that was notified
    wire,       \* notifications on their way to the listener's connection
    inbox,      \* notifications that have arrived there
    place,      \* where listener_loop is
    linked,     \* whether its connection works
    stats,      \* the payload it has fetched, or None for an error
    synced,     \* whether stats were fetched since the last LISTEN or error
    todo,       \* the client queues the broadcast still has to serve
    evicting,   \* the client whose queue was found full, or None
    clients,    \* HUB._clients
    queue,      \* each page's queue.Queue
    dropped,    \* history: the pages from which the last broadcast was dropped
    handler,    \* where each page's handler thread is
    greeting,   \* the statistics a new page is to be sent
    shown,      \* what each page shows
    open,       \* whether the browser still has the page open
    opens, faults

dbVars == <<version, notified>>
listenerVars == <<place, linked, stats, synced, todo, evicting>>
queueVars == <<queue, dropped>>
clientVars == <<clients, handler, greeting, shown, open, opens>>
vars == <<dbVars, wire, inbox, listenerVars, clientVars, queueVars, faults>>

Init ==
    /\ version = 0 /\ notified = 0 /\ wire = 0 /\ inbox = 0
    /\ place = "connect" /\ linked = FALSE /\ stats = None /\ synced = FALSE
    /\ todo = {} /\ evicting = None
    /\ clients = {}
    /\ queue = [p \in Pages |-> <<>>] /\ dropped = {}
    /\ handler = [p \in Pages |-> "none"]
    /\ greeting = [p \in Pages |-> None]
    /\ shown = [p \in Pages |-> None]
    /\ open = [p \in Pages |-> FALSE]
    /\ opens = [p \in Pages |-> 0]
    /\ faults = 0

-----------------------------------------------------------------------------
(***************************************************************************)
(* The survey and the database.                                            *)
(***************************************************************************)

\* complete_probe, or a sweep that reclaims a row.
NotifyingCommit ==
    /\ version < MaxVersion
    /\ version' = version + 1
    /\ notified' = version'
    /\ wire' = IF linked THEN wire + 1 ELSE wire
    /\ UNCHANGED <<inbox, listenerVars, clientVars, queueVars, faults>>

\* claim_probe changes the counts and the list of running crates, and is silent.
SilentCommit ==
    /\ version < MaxVersion
    /\ version' = version + 1
    /\ UNCHANGED <<notified, wire, inbox, listenerVars, clientVars, queueVars, faults>>

Arrive ==
    /\ wire > 0
    /\ wire' = wire - 1 /\ inbox' = inbox + 1
    /\ UNCHANGED <<dbVars, listenerVars, clientVars, queueVars, faults>>

Fault == faults < MaxFaults /\ faults' = faults + 1

\* The listener's connection breaks, and with it what was under way.
LoseConnection ==
    /\ linked /\ Fault
    /\ linked' = FALSE /\ wire' = 0 /\ inbox' = 0
    /\ UNCHANGED <<dbVars, place, stats, synced, todo, evicting, clientVars, queueVars>>

-----------------------------------------------------------------------------
(***************************************************************************)
(* listener_loop and Hub.broadcast.                                        *)
(***************************************************************************)

\* connect and LISTEN.  What was notified before is never delivered.
Listen ==
    /\ place = "connect"
    /\ place' = "wait" /\ linked' = TRUE /\ synced' = FALSE
    /\ UNCHANGED <<dbVars, wire, inbox, stats, todo, evicting, clientVars, queueVars, faults>>

\* Mutant: the statistics are read before the notifications are drained.
After_ReadFirst(here) ==
    CASE here = "wait" -> "read" [] here = "read" -> "drain" [] here = "drain" -> "send"

\* Mutant: a wait that times out is followed by another wait.
After_OnlyIfNotified(here) ==
    CASE here = "wait" -> IF inbox > 0 THEN "drain" ELSE "wait"
      [] here = "drain" -> "read"
      [] here = "read" -> "send"

\* The order of one round.
After(here) ==
    CASE here = "wait" -> "drain" [] here = "drain" -> "read" [] here = "read" -> "send"

\* notifies(timeout=HEARTBEAT) returns with a notification or without one.
Wake ==
    /\ place = "wait" /\ linked
    /\ place' = After("wait")
    /\ inbox' = IF inbox > 0 THEN inbox - 1 ELSE 0
    /\ UNCHANGED <<dbVars, wire, linked, stats, synced, todo, evicting, clientVars, queueVars,
                   faults>>

\* An error in the wait leads to a new connection, after a pause.
Reconnect ==
    /\ place = "wait" /\ ~linked
    /\ place' = "connect"
    /\ UNCHANGED <<dbVars, wire, inbox, linked, stats, synced, todo, evicting, clientVars,
                   queueVars, faults>>

\* Everything that has arrived is dropped; an error here is ignored.
Drain ==
    /\ place = "drain"
    /\ inbox' = 0
    /\ place' = After("drain")
    /\ UNCHANGED <<dbVars, wire, linked, stats, synced, todo, evicting, clientVars, queueVars,
                   faults>>

\* fetch_stats on a connection of its own.  If it fails, the error is broadcast.
Read ==
    /\ place = "read"
    /\ \/ stats' = version /\ synced' = TRUE /\ UNCHANGED faults
       \/ stats' = None /\ synced' = FALSE /\ Fault
    /\ place' = After("read")
    /\ UNCHANGED <<dbVars, wire, inbox, linked, todo, evicting, clientVars, queueVars>>

\* broadcast copies the set of clients, and then serves one queue at a time.
Broadcast ==
    /\ place = "send"
    /\ todo' = clients
    /\ place' = "serve"
    /\ UNCHANGED <<dbVars, wire, inbox, linked, stats, synced, evicting, clientVars, queueVars,
                   faults>>

\* Mutant: one payload too many.
HasRoom_OffByOne(q) == Len(q) <= QueueSize

HasRoom(q) == Len(q) < QueueSize

\* put_nowait, or queue.Full.
Offer(p) ==
    /\ place = "serve" /\ p \in todo /\ evicting = None
    /\ IF HasRoom(queue[p])
       THEN /\ queue' = [queue EXCEPT ![p] = Append(@, stats)]
            /\ todo' = todo \ {p} /\ dropped' = dropped \ {p}
            /\ UNCHANGED evicting
       ELSE evicting' = p /\ UNCHANGED <<queueVars, todo>>
    /\ UNCHANGED <<dbVars, wire, inbox, place, linked, stats, synced, clientVars, faults>>

\* Mutant: a full queue keeps what it has.
MakeRoom_KeepsOld(q) == q

\* The oldest payload makes room for the new one.  If the page has emptied the
\* queue meanwhile, get_nowait raises queue.Empty and the new payload is dropped.
MakeRoom(q) == IF q = <<>> THEN q ELSE Append(Tail(q), stats)

Evict(p) ==
    /\ place = "serve" /\ evicting = p
    /\ queue' = [queue EXCEPT ![p] = MakeRoom(@)]
    /\ dropped' = IF queue[p] = <<>> THEN dropped \cup {p} ELSE dropped \ {p}
    /\ todo' = todo \ {p} /\ evicting' = None
    /\ UNCHANGED <<dbVars, wire, inbox, place, linked, stats, synced, clientVars, faults>>

Served ==
    /\ place = "serve" /\ todo = {}
    /\ place' = "wait"
    /\ UNCHANGED <<dbVars, wire, inbox, linked, stats, synced, todo, evicting, clientVars,
                   queueVars, faults>>

Listener ==
    \/ Listen \/ Wake \/ Reconnect \/ Drain \/ Read \/ Broadcast \/ Served
    \/ \E p \in Pages : Offer(p) \/ Evict(p)

-----------------------------------------------------------------------------
(***************************************************************************)
(* Pages and their handler threads (Handler._sse).                         *)
(***************************************************************************)
Handles(p, here, next) == handler[p] = here /\ handler' = [handler EXCEPT ![p] = next]

Open(p) ==
    /\ ~open[p] /\ handler[p] = "none" /\ opens[p] < MaxOpens
    /\ open' = [open EXCEPT ![p] = TRUE]
    /\ opens' = [opens EXCEPT ![p] = @ + 1]
    /\ shown' = [shown EXCEPT ![p] = None]
    /\ UNCHANGED <<dbVars, wire, inbox, listenerVars, clients, handler, greeting, queueVars,
                   faults>>

Close(p) ==
    /\ open[p]
    /\ open' = [open EXCEPT ![p] = FALSE]
    /\ UNCHANGED <<dbVars, wire, inbox, listenerVars, clients, handler, greeting, shown, opens,
                   queueVars, faults>>

\* The page's EventSource connects, for the first time or again; the handler
\* registers a new queue.
Connect(p) ==
    /\ open[p] /\ Handles(p, "none", "greet")
    /\ clients' = clients \cup {p}
    /\ queue' = [queue EXCEPT ![p] = <<>>] /\ dropped' = dropped \ {p}
    /\ UNCHANGED <<dbVars, wire, inbox, listenerVars, greeting, shown, open, opens, faults>>

\* The finally clause.  A broadcast that still holds the queue fills it for
\* nobody.
Leave(p, here) ==
    /\ Handles(p, here, "none")
    /\ clients' = clients \ {p}
    /\ queue' = [queue EXCEPT ![p] = <<>>] /\ dropped' = dropped \ {p}
    /\ todo' = todo \ {p}
    /\ evicting' = IF evicting = p THEN None ELSE evicting
    /\ UNCHANGED <<dbVars, wire, inbox, place, linked, stats, synced, greeting, shown, open,
                   opens>>

\* fetch_stats for the greeting, after the registration; an error ends the
\* handler.
GreetRead(p) ==
    \/ /\ Handles(p, "greet", "greeted")
       /\ greeting' = [greeting EXCEPT ![p] = version]
       /\ UNCHANGED <<dbVars, wire, inbox, listenerVars, clients, shown, open, opens, queueVars,
                      faults>>
    \/ Leave(p, "greet") /\ Fault /\ UNCHANGED greeting

GreetWrite(p) ==
    \/ /\ open[p] /\ Handles(p, "greeted", "loop")
       /\ shown' = [shown EXCEPT ![p] = greeting[p]]
       /\ UNCHANGED <<dbVars, wire, inbox, listenerVars, clients, greeting, open, opens, queueVars,
                      faults>>
    \/ ~open[p] /\ Leave(p, "greeted") /\ UNCHANGED faults

\* The page renders a payload; an error leaves its figures as they are.
Rendered(p, payload) == IF payload = None THEN shown[p] ELSE payload

Deliver(p) ==
    /\ open[p] /\ handler[p] = "loop" /\ queue[p] # <<>>
    /\ shown' = [shown EXCEPT ![p] = Rendered(p, Head(queue[p]))]
    /\ queue' = [queue EXCEPT ![p] = Tail(@)]
    /\ UNCHANGED <<dbVars, wire, inbox, listenerVars, dropped, clients, handler, greeting, open,
                   opens, faults>>

\* A payload or a ping that cannot be written ends the handler.
WriteFails(p) == ~open[p] /\ Leave(p, "loop") /\ UNCHANGED faults

Handler(p) == GreetRead(p) \/ GreetWrite(p) \/ Deliver(p) \/ WriteFails(p)

-----------------------------------------------------------------------------
Next ==
    \/ NotifyingCommit \/ SilentCommit \/ Arrive \/ LoseConnection
    \/ Listener
    \/ \E p \in Pages : Open(p) \/ Close(p) \/ Connect(p) \/ Handler(p)

\* The two kinds of threads run, notifications arrive, and EventSource connects
\* again.  The survey, the users and the faults owe nothing.
Spec ==
    /\ Init /\ [][Next]_vars
    /\ WF_vars(Listener) /\ WF_vars(Arrive)
    /\ \A p \in Pages : WF_vars(Connect(p)) /\ WF_vars(Handler(p))

-----------------------------------------------------------------------------
Payloads == 0..MaxVersion \cup {None}

DashTypeOK ==
    /\ version \in 0..MaxVersion /\ notified \in 0..version
    /\ wire \in Nat /\ inbox \in Nat
    /\ place \in {"connect", "wait", "drain", "read", "send", "serve"}
    /\ linked \in BOOLEAN /\ synced \in BOOLEAN /\ stats \in Payloads
    /\ clients \subseteq Pages /\ dropped \subseteq clients
    /\ todo \subseteq clients /\ evicting \in todo \cup {None}
    /\ \A p \in Pages : queue[p] \in Seq(Payloads) /\ Len(queue[p]) <= QueueSize
    /\ handler \in [Pages -> {"none", "greet", "greeted", "loop"}]
    /\ greeting \in [Pages -> Payloads] /\ shown \in [Pages -> Payloads]
    /\ open \in [Pages -> BOOLEAN]
    /\ opens \in [Pages -> 0..MaxOpens] /\ faults \in 0..MaxFaults

\* No notified result is missed while the connection holds: when the listener
\* waits and nothing is on its way to it, its last broadcast included every
\* commit that notified, however the commits fell between its drain and its
\* queries.
FreshWhenIdle ==
    place = "wait" /\ linked /\ synced /\ wire = 0 /\ inbox = 0 => stats >= notified

\* What the newest broadcast leaves with p: it is the last thing that waits in
\* its queue or, once its handler serves an empty queue, the page shows it or
\* something newer.  An error that was broadcast is not for showing.
HasNewest(p) ==
    IF queue[p] # <<>> THEN Last(queue[p]) = stats
                       ELSE handler[p] = "loop" /\ stats # None => shown[p] >= stats

\* A slow page loses old payloads; it misses the newest one, until the next
\* broadcast, only if it emptied its full queue between put_nowait's queue.Full
\* and get_nowait, whose queue.Empty drops the payload.
MissedOnlyInRace ==
    \A p \in clients : place = "wait" => HasNewest(p) \/ p \in dropped

\* "a live web dashboard updates after every crate": every page that stays open
\* shows the latest statistics in the end, whatever was silent, dropped, failed
\* or overtaken on the way.
EventuallyFresh == \A p \in Pages : <>[](open[p] => shown[p] = version)
=============================================================================
