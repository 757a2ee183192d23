--------------------------------- MODULE Browse ---------------------------------
(***************************************************************************)
(* The drill-down of the dashboard's page: the selection B, the search box *)
(* with its debounce timer, the pager, and the requests to /api/crates,    *)
(* each answered by a server thread of its own and rendered in whatever    *)
(* order the answers come.                                                 *)
(*                                                                         *)
(* Abstractions.  A list stands for a filter with the crate blamed.  The   *)
(* database is a version, and Size says how many crates of a selection it  *)
(* has; the crates themselves are left out.  An action that calls          *)
(* loadBrowse waits while every slot for a request in flight is taken.     *)
(***************************************************************************)
EXTENDS Naturals, FiniteSets

CONSTANTS
    Lists, Texts, Orders,   \* what the filters, the box and the menu may say
    Shrinking,    \* the lists that may lose crates: that of the harness errors
    AllCrates, NoText, Popular,   \* their values when the page opens
    None,
    PageSize,     \* B.limit
    Size,         \* the rows of a list and search text in each version
    MaxVersion,   \* bound: commits of the survey
    Slots,        \* bound: requests in flight
    MaxActs,      \* bound: what the user does
    MaxFaults     \* bound: requests that fail

\* A status row can be clicked for each status.  A retry takes a crate off the
\* list of the harness errors; the other lists never lose one (Stats).
ASSUME BrowseAssumption ==
    /\ Shrinking \subseteq Lists
    /\ AllCrates \in Lists /\ NoText \in Texts /\ Popular \in Orders
    /\ PageSize \in Nat \ {0} /\ MaxVersion \in Nat
    /\ Size \in [Lists -> [Texts -> [0..MaxVersion -> Nat]]]
    /\ \A l \in Lists \ Shrinking, t \in Texts, v \in 1..MaxVersion :
          Size[l][t][v - 1] <= Size[l][t][v]
    /\ MaxActs \in Nat /\ MaxFaults \in Nat

VARIABLES
    version,   \* of the database
    B,         \* the selection the page asks for
    box,       \* what the search box says
    focused,   \* whether it has the focus
    armed,     \* whether its timer runs
    request,   \* each slot's request, or None
    shown,     \* the answer that was rendered last, or None
    acts, faults

pageVars == <<B, box, focused, armed>>
vars == <<version, pageVars, request, shown, acts, faults>>

Selections == [list : Lists, q : Texts, order : Orders, offset : Nat]

\* A request is sent, half queried, answered: its stage, the selection it asks
\* for, and the versions its rows were counted in and read from.
Request(sel) == [stage |-> "sent", sel |-> sel, counted |-> 0, rows |-> 0]

Init ==
    /\ version = 0
    /\ B = [list |-> AllCrates, q |-> NoText, order |-> Popular, offset |-> 0]
    /\ box = NoText /\ focused = FALSE /\ armed = FALSE
    /\ \E s \in Slots : request = [t \in Slots |-> IF t = s THEN Request(B) ELSE None]
    /\ shown = None
    /\ acts = 0 /\ faults = 0

Lower(a, b) == IF a <= b THEN a ELSE b

Rows(sel, v) == Size[sel.list][sel.q][v]

Total(r) == Rows(r.sel, r.counted)

Commit ==
    /\ version < MaxVersion
    /\ version' = version + 1
    /\ UNCHANGED <<pageVars, request, shown, acts, faults>>

-----------------------------------------------------------------------------
(***************************************************************************)
(* The page's handlers.                                                    *)
(***************************************************************************)
Act == acts < MaxActs /\ acts' = acts + 1

\* fetch('/api/crates?...') with the selection of this moment.
LoadBrowse(sel) ==
    \E s \in Slots : request[s] = None /\ request' = [request EXCEPT ![s] = Request(sel)]

Shows(sel) == B' = sel /\ LoadBrowse(sel)

\* Mutant: the text stays in the box.
Cleared_Kept == box

\* browseBy empties the search and the box.
Cleared == NoText

\* browseBy, from a filter button, a status row or a culprit.  The timer of the
\* box goes on.
BrowseBy(l) ==
    /\ Act
    /\ Shows([B EXCEPT !.list = l, !.q = NoText, !.offset = 0])
    /\ box' = Cleared /\ focused' = FALSE
    /\ UNCHANGED <<version, armed, shown, faults>>

\* oninput starts the timer again.
Type(text) ==
    /\ Act /\ text # box
    /\ box' = text /\ focused' = TRUE /\ armed' = TRUE
    /\ UNCHANGED <<version, B, request, shown, faults>>

\* The timer fires and reads the box as it is then.
Search ==
    /\ armed /\ armed' = FALSE
    /\ Shows([B EXCEPT !.q = box, !.offset = 0])
    /\ UNCHANGED <<version, box, focused, shown, acts, faults>>

Sort(o) ==
    /\ Act /\ o # B.order
    /\ Shows([B EXCEPT !.order = o, !.offset = 0])
    /\ focused' = FALSE
    /\ UNCHANGED <<version, box, armed, shown, faults>>

Focus ==
    /\ Act /\ ~focused /\ focused' = TRUE
    /\ UNCHANGED <<version, B, box, armed, request, shown, faults>>

Blur ==
    /\ focused /\ focused' = FALSE
    /\ UNCHANGED <<version, B, box, armed, request, shown, acts, faults>>

\* The last row that the rendered answer promises.
To == Lower(shown.sel.offset + PageSize, Total(shown))

\* Mutant: a page back is a row back.
Back_OneRow(offset) == IF offset > 0 THEN offset - 1 ELSE 0

Back(offset) == IF offset > PageSize THEN offset - PageSize ELSE 0

\* The buttons are enabled by the last answer, not by B.
Prev ==
    /\ Act /\ (shown # None => shown.sel.offset > 0)
    /\ Shows([B EXCEPT !.offset = Back(@)])
    /\ focused' = FALSE
    /\ UNCHANGED <<version, box, armed, shown, faults>>

Next_ ==
    /\ Act /\ (shown # None => To < Total(shown))
    /\ Shows([B EXCEPT !.offset = @ + PageSize])
    /\ focused' = FALSE
    /\ UNCHANGED <<version, box, armed, shown, faults>>

AtHead == B.offset = 0 /\ ~focused

\* Mutant: the head is loaded again only if its answer is still to come.
Reloads_Once == AtHead /\ shown = None

\* onmessage keeps the head live, unless the user is searching.
Reloads == AtHead

\* A payload of the event stream.
Message ==
    /\ IF Reloads THEN LoadBrowse(B) ELSE UNCHANGED request
    /\ UNCHANGED <<version, pageVars, shown, acts, faults>>

-----------------------------------------------------------------------------
(***************************************************************************)
(* A server thread's browse_crates, and renderBrowse.                      *)
(***************************************************************************)
At(s, stage) == request[s] # None /\ request[s].stage = stage

\* Mutant: the rows are selected before they are counted.
Queried_RowsFirst(r, v) ==
    IF r.stage = "sent" THEN [r EXCEPT !.stage = "half", !.rows = v]
                        ELSE [r EXCEPT !.stage = "answered", !.counted = v]

\* SELECT count(*), then SELECT ... LIMIT OFFSET, each in a transaction of its own.
Queried(r, v) ==
    IF r.stage = "sent" THEN [r EXCEPT !.stage = "half", !.counted = v]
                        ELSE [r EXCEPT !.stage = "answered", !.rows = v]

BrowseCrates(s) ==
    /\ At(s, "sent") \/ At(s, "half")
    /\ request' = [request EXCEPT ![s] = Queried(@, version)]
    /\ UNCHANGED <<version, pageVars, shown, acts, faults>>

RenderBrowse(s) ==
    /\ At(s, "answered")
    /\ shown' = [request[s] EXCEPT !.stage = "shown"]
    /\ request' = [request EXCEPT ![s] = None]
    /\ UNCHANGED <<version, pageVars, acts, faults>>

\* The query or the connection fails: the page keeps what it shows.
Fail(s) ==
    /\ request[s] # None /\ faults < MaxFaults
    /\ faults' = faults + 1
    /\ request' = [request EXCEPT ![s] = None]
    /\ UNCHANGED <<version, pageVars, shown, acts>>

Serve(s) == BrowseCrates(s) \/ RenderBrowse(s)

-----------------------------------------------------------------------------
User ==
    \/ \E l \in Lists : BrowseBy(l)
    \/ \E t \in Texts : Type(t)
    \/ \E o \in Orders : Sort(o)
    \/ Focus \/ Blur \/ Prev \/ Next_

Next == Commit \/ User \/ Search \/ Message \/ \E s \in Slots : Serve(s) \/ Fail(s)

Spec == Init /\ [][Next]_vars

\* Every request is served or fails, the timer fires, and payloads keep coming:
\* the listener broadcasts one every HEARTBEAT, and EventSource reconnects.
\* The user and the survey owe nothing.  Only the model's slots can hold up a
\* request, whence the strong fairness.
FairSpec ==
    /\ Spec
    /\ \A s \in Slots : WF_vars(Serve(s))
    /\ SF_vars(Search) /\ SF_vars(Message)

-----------------------------------------------------------------------------
BrowseTypeOK ==
    /\ version \in 0..MaxVersion
    /\ B \in Selections /\ B.offset % PageSize = 0
    /\ box \in Texts /\ focused \in BOOLEAN /\ armed \in BOOLEAN
    /\ \A s \in Slots : request[s] # None =>
          /\ request[s].sel \in Selections
          /\ request[s].counted <= version /\ request[s].rows <= version
    /\ shown # None =>
          shown.sel \in Selections /\ shown.counted <= version /\ shown.rows <= version
    /\ acts \in 0..MaxActs /\ faults \in 0..MaxFaults

\* The range the pager shows promises no row that the table lacks, although the
\* total and the rows are read at two moments while the survey goes on.  Only in
\* the list of the harness errors may it, and only if something was committed
\* between the two: a retry that got a verdict.
RangeCovered ==
    shown # None /\ To > shown.sel.offset =>
        \/ To <= Lower(shown.sel.offset + PageSize, Rows(shown.sel, shown.rows))
        \/ shown.sel.list \in Shrinking /\ shown.counted < shown.rows

\* What the box says is what is searched for, or will be when the timer fires:
\* also when a filter is clicked between a keystroke and the timer.
SearchFollowsBox == armed \/ B.q = box

Fresh == shown # None /\ shown.sel = B /\ shown.rows = version /\ Total(shown) = Rows(B, version)

\* "keep the head live": once the user has stopped and is not searching, the
\* first page ends up showing the current rows of the current selection, in
\* whatever order the answers came and whichever of them failed.
HeadLive == <>[](AtHead => Fresh)
=============================================================================
