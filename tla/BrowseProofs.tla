----------------------------- MODULE BrowseProofs -----------------------------
(***************************************************************************)
(* The page of the dashboard keeps its types, promises no row that the     *)
(* table lacks, and searches for what its box says: for any lists, texts   *)
(* and orders, any page size, any growth of the table (and any loss of     *)
(* harness errors), and any number of requests in flight.                  *)
(***************************************************************************)
EXTENDS Browse, Integers, TLAPS

Requests == [stage : {"sent", "half", "answered", "shown"}, sel : Selections,
             counted : Nat, rows : Nat]

\* What was counted is still there in a later version, or was a harness error.
Kept(r, v) ==
    /\ r.counted <= v
    /\ Total(r) <= Rows(r.sel, v) \/ (r.sel.list \in Shrinking /\ r.counted < v)

\* A request's total, once counted, is covered by the rows that are there; once
\* the rows are read, by the rows it read.
Covered(r) ==
    /\ r \in Requests /\ r.counted <= version /\ r.rows <= version
    /\ r.stage = "half" => Kept(r, version)
    /\ r.stage \in {"answered", "shown"} => Kept(r, r.rows)

\* The inductive invariant.
BrowseInv ==
    /\ version \in 0..MaxVersion
    /\ B \in Selections /\ B.offset % PageSize = 0
    /\ box \in Texts /\ focused \in BOOLEAN /\ armed \in BOOLEAN
    /\ request = [s \in Slots |-> request[s]]
    /\ \A s \in Slots : request[s] # None => Covered(request[s])
    /\ shown # None => Covered(shown) /\ shown.stage = "shown"
    /\ acts \in 0..MaxActs /\ faults \in 0..MaxFaults
    /\ SearchFollowsBox

-----------------------------------------------------------------------------
(***************************************************************************)
(* The rows of a selection, and its offset.                                *)
(***************************************************************************)
LEMMA RowsGrow ==
    ASSUME NEW sel \in Selections, NEW v \in 0..MaxVersion
    PROVE  /\ Rows(sel, v) \in Nat
           /\ v < MaxVersion /\ sel.list \notin Shrinking =>
                 Rows(sel, v) <= Rows(sel, v + 1)
<1>1. sel.list \in Lists /\ sel.q \in Texts
  BY DEF Selections
<1>2. Size[sel.list][sel.q] \in [0..MaxVersion -> Nat]
  BY <1>1, BrowseAssumption
<1>3. ASSUME v < MaxVersion, sel.list \notin Shrinking
      PROVE  Rows(sel, v) <= Rows(sel, v + 1)
  <2>1. v + 1 \in 1..MaxVersion /\ (v + 1) - 1 = v
    BY <1>3, BrowseAssumption
  <2>2. Size[sel.list][sel.q][(v + 1) - 1] <= Size[sel.list][sel.q][v + 1]
    BY <1>1, <1>3, <2>1, BrowseAssumption
  <2> QED BY <2>1, <2>2 DEF Rows
<1> QED BY <1>2, <1>3 DEF Rows

LEMMA DivMod ==
    ASSUME NEW P \in Nat, P > 0, NEW k \in Nat
    PROVE  /\ k % P \in 0..(P - 1) /\ k \div P \in Nat
           /\ k = P * (k \div P) + (k % P)
OBVIOUS

LEMMA NoMultiple ==
    ASSUME NEW P \in Nat, P > 0, NEW q \in Int, NEW m \in 0..(P - 1), P * q + m = 0
    PROVE  m = 0
<1>1. CASE q = 0
  BY <1>1
<1>2. CASE q >= 1
  <2>1. P * q >= P
    BY <1>2
  <2> QED BY <2>1
<1>3. CASE q <= -1
  <2>1. P * q <= -P
    BY <1>3
  <2> QED BY <2>1
<1> QED BY <1>1, <1>2, <1>3

\* Two numbers that are a page apart have the same remainder 0.
LEMMA OnePageApart ==
    ASSUME NEW k \in Nat, k % PageSize = 0, NEW n \in Nat,
           n = k + PageSize \/ k = n + PageSize
    PROVE  n % PageSize = 0
<1>1. PICK P \in Nat : P = PageSize /\ P > 0
  BY BrowseAssumption
<1>2. PICK a, b, m : a = k \div P /\ b = n \div P /\ m = n % P
  OBVIOUS
<1>3. a \in Nat /\ k = P * a
  BY <1>1, <1>2, DivMod
<1>4. b \in Nat /\ m \in 0..(P - 1) /\ n = P * b + m
  BY <1>1, <1>2, DivMod
<1>5. CASE n = k + P
  <2>1. P * b + m = P * a + P
    BY <1>3, <1>4, <1>5
  <2>2. P * (b - a - 1) + m = 0 /\ b - a - 1 \in Int
    BY <1>3, <1>4, <2>1
  <2>3. PICK q \in Int : q = b - a - 1
    BY <2>2
  <2>4. m = 0
    BY <1>4, <2>2, <2>3, NoMultiple
  <2> QED BY <1>1, <1>2, <2>4
<1>6. CASE k = n + P
  <2>1. P * b + m + P = P * a
    BY <1>3, <1>4, <1>6
  <2>2. P * (b - a + 1) + m = 0 /\ b - a + 1 \in Int
    BY <1>3, <1>4, <2>1
  <2>3. PICK q \in Int : q = b - a + 1
    BY <2>2
  <2>4. m = 0
    BY <1>4, <2>2, <2>3, NoMultiple
  <2> QED BY <1>1, <1>2, <2>4
<1> QED BY <1>1, <1>5, <1>6

\* A page forward or back keeps the offset a multiple of the page.
LEMMA PageStep ==
    ASSUME NEW k \in Nat, k % PageSize = 0
    PROVE  /\ k + PageSize \in Nat /\ (k + PageSize) % PageSize = 0
           /\ Back(k) \in Nat /\ Back(k) % PageSize = 0
<1>1. PageSize \in Nat /\ PageSize > 0
  BY BrowseAssumption
<1>2. \A n \in Nat : n = k + PageSize => n % PageSize = 0
  BY OnePageApart
<1>3. ASSUME k > PageSize PROVE (k - PageSize) % PageSize = 0
  <2>1. k - PageSize \in Nat /\ k = (k - PageSize) + PageSize
    BY <1>1, <1>3
  <2> QED BY <2>1, OnePageApart
<1>4. 0 % PageSize = 0
  BY <1>1
<1>5. k + PageSize \in Nat /\ (k + PageSize) % PageSize = 0
  BY <1>1, <1>2
<1> QED BY <1>1, <1>3, <1>4, <1>5 DEF Back

-----------------------------------------------------------------------------
(***************************************************************************)
(* The requests.                                                           *)
(***************************************************************************)
RequestsOK == /\ request = [s \in Slots |-> request[s]]
              /\ \A s \in Slots : request[s] # None => Covered(request[s])

\* A request that is sent asks for a selection.
LEMMA SentCovered ==
    ASSUME NEW sel \in Selections, version \in Nat
    PROVE  Covered(Request(sel))
<1>1. /\ Request(sel) \in Requests /\ Request(sel).stage = "sent"
      /\ Request(sel).rows = 0 /\ Request(sel).counted = 0
  BY DEF Request, Requests
<1> QED BY <1>1 DEF Covered

\* A slot whose request is replaced by a covered one, or freed.
LEMMA SlotKeeps ==
    ASSUME RequestsOK, UNCHANGED version, NEW s \in Slots, NEW r,
           request' = [request EXCEPT ![s] = r], r = None \/ Covered(r)
    PROVE  RequestsOK'
<1>1. \A q : Covered(q)' <=> Covered(q)
  BY DEF Covered
<1>2. request'[s] = r /\ \A t \in Slots \ {s} : request'[t] = request[t]
  BY DEF RequestsOK
<1>3. request' = [t \in Slots |-> request'[t]]
  BY DEF RequestsOK
<1>4. ASSUME NEW t \in Slots, request'[t] # None PROVE Covered(request'[t])
  BY <1>2, <1>4 DEF RequestsOK
<1>5. \A t \in Slots : request'[t] # None => Covered(request[t])'
  BY <1>1, <1>4
<1> QED BY <1>3, <1>5 DEF RequestsOK

LEMMA LoadKeeps ==
    ASSUME RequestsOK, NEW sel \in Selections, LoadBrowse(sel), version \in Nat,
           UNCHANGED version
    PROVE  RequestsOK'
<1>1. PICK s \in Slots : request' = [request EXCEPT ![s] = Request(sel)]
  BY DEF LoadBrowse
<1> QED BY <1>1, SentCovered, SlotKeeps

LEMMA BrowseParts ==
    BrowseInv <=>
       /\ RequestsOK
       /\ version \in 0..MaxVersion
       /\ B \in Selections /\ B.offset % PageSize = 0
       /\ box \in Texts /\ focused \in BOOLEAN /\ armed \in BOOLEAN
       /\ shown # None => Covered(shown) /\ shown.stage = "shown"
       /\ acts \in 0..MaxActs /\ faults \in 0..MaxFaults
       /\ SearchFollowsBox
BY DEF BrowseInv, RequestsOK

-----------------------------------------------------------------------------
(***************************************************************************)
(* The invariant holds when the page opens, and every step keeps it.       *)
(***************************************************************************)
LEMMA BrowseInit == Init => BrowseInv
<1> SUFFICES ASSUME Init PROVE BrowseInv
  OBVIOUS
<1>1. version = 0 /\ version \in 0..MaxVersion
  BY BrowseAssumption DEF Init
<1>2. B \in Selections /\ B.offset = 0 /\ B.q = NoText
  BY BrowseAssumption DEF Init, Selections
<1>3. 0 % PageSize = 0
  BY BrowseAssumption
<1>4. PICK s \in Slots : request = [t \in Slots |-> IF t = s THEN Request(B) ELSE None]
  BY DEF Init
<1>5. Covered(Request(B))
  BY <1>1, <1>2, SentCovered
<1>6. request = [t \in Slots |-> request[t]]
  BY <1>4
<1>7. \A t \in Slots : request[t] # None => Covered(request[t])
  BY <1>4, <1>5
<1>8. RequestsOK
  BY <1>6, <1>7 DEF RequestsOK
<1>9. SearchFollowsBox /\ box \in Texts
  BY BrowseAssumption, <1>2 DEF Init, SearchFollowsBox
<1>10. acts \in 0..MaxActs /\ faults \in 0..MaxFaults
  BY BrowseAssumption DEF Init
<1>11. shown = None /\ focused \in BOOLEAN /\ armed \in BOOLEAN
  BY DEF Init
<1> QED BY <1>1, <1>2, <1>3, <1>8, <1>9, <1>10, <1>11, BrowseParts

\* A selection of the page whose offset is whole pages, or the first row.
LEMMA Selects ==
    ASSUME BrowseInv
    PROVE  /\ \A l \in Lists : LET b == [B EXCEPT !.list = l, !.q = NoText, !.offset = 0]
               IN b \in Selections /\ b.offset % PageSize = 0 /\ b.q = NoText
           /\ LET b == [B EXCEPT !.q = box, !.offset = 0]
               IN b \in Selections /\ b.offset % PageSize = 0 /\ b.q = box
           /\ \A o \in Orders : LET b == [B EXCEPT !.order = o, !.offset = 0]
               IN b \in Selections /\ b.offset % PageSize = 0 /\ b.q = B.q
           /\ LET b == [B EXCEPT !.offset = Back(@)]
               IN b \in Selections /\ b.offset % PageSize = 0 /\ b.q = B.q
           /\ LET b == [B EXCEPT !.offset = @ + PageSize]
               IN b \in Selections /\ b.offset % PageSize = 0 /\ b.q = B.q
<1>1. B \in Selections /\ B.offset \in Nat /\ B.offset % PageSize = 0 /\ box \in Texts
  BY DEF BrowseInv, Selections
<1>2. 0 % PageSize = 0 /\ 0 \in Nat /\ NoText \in Texts
  BY BrowseAssumption
<1>3. /\ Back(B.offset) \in Nat /\ Back(B.offset) % PageSize = 0
      /\ B.offset + PageSize \in Nat /\ (B.offset + PageSize) % PageSize = 0
  BY <1>1, PageStep
<1> QED BY <1>1, <1>2, <1>3 DEF Selections

\* A handler of the page that asks for another selection.
LEMMA ShowsKeep ==
    ASSUME BrowseInv, NEW sel \in Selections, sel.offset % PageSize = 0, Shows(sel),
           UNCHANGED <<version, shown, faults>>,
           box' \in Texts, focused' \in BOOLEAN, armed' \in BOOLEAN,
           acts' \in 0..MaxActs, armed' \/ sel.q = box'
    PROVE  BrowseInv'
<1>1. RequestsOK /\ version \in Nat /\ faults \in 0..MaxFaults
  BY BrowseAssumption DEF BrowseInv, RequestsOK
<1>2. RequestsOK'
  BY <1>1, LoadKeeps DEF Shows
<1>3. B' = sel
  BY DEF Shows
<1>4. (shown # None => Covered(shown) /\ shown.stage = "shown")'
  BY DEF BrowseInv, Covered
<1>5. SearchFollowsBox'
  BY <1>3 DEF SearchFollowsBox
<1>6. version' \in 0..MaxVersion /\ faults' \in 0..MaxFaults
  BY DEF BrowseInv
<1> QED BY <1>2, <1>3, <1>4, <1>5, <1>6 DEF BrowseInv, RequestsOK

\* A step that leaves the page's selection, box and answer, and the survey.
LEMMA SlotsKeep ==
    ASSUME BrowseInv, RequestsOK', UNCHANGED <<version, B, box, armed>>,
           focused' \in BOOLEAN, acts' \in 0..MaxActs, faults' \in 0..MaxFaults,
           UNCHANGED shown \/ (Covered(shown') /\ shown'.stage = "shown")
    PROVE  BrowseInv'
<1>1. \A q : Covered(q)' <=> Covered(q)
  BY DEF Covered
<1>2. (shown # None => Covered(shown) /\ shown.stage = "shown")'
  BY <1>1 DEF BrowseInv, Covered
<1>3. SearchFollowsBox'
  BY DEF BrowseInv, SearchFollowsBox
<1> QED BY <1>2, <1>3 DEF BrowseInv, RequestsOK

LEMMA BrowseStep == BrowseInv /\ [Next]_vars => BrowseInv'
<1> SUFFICES ASSUME BrowseInv, [Next]_vars PROVE BrowseInv'
  OBVIOUS
<1>1. RequestsOK /\ version \in Nat /\ acts \in 0..MaxActs /\ faults \in 0..MaxFaults
  BY BrowseAssumption DEF BrowseInv, RequestsOK
<1>2. Act => acts' \in 0..MaxActs
  BY <1>1, BrowseAssumption DEF Act
<1>3. box \in Texts /\ focused \in BOOLEAN /\ armed \in BOOLEAN
  BY DEF BrowseInv
<1>4. armed \/ B.q = box
  BY DEF BrowseInv, SearchFollowsBox
<1>5. CASE Commit
  <2>1. version < MaxVersion /\ version' = version + 1 /\ version' \in 0..MaxVersion
    BY <1>1, <1>5, BrowseAssumption DEF BrowseInv, Commit
  <2>2. ASSUME NEW r, Covered(r) PROVE Covered(r)'
    <3>1. r \in Requests /\ r.rows \in Nat /\ r.counted \in Nat /\ r.sel \in Selections
          /\ r.counted <= version /\ r.rows <= version
      BY <2>2 DEF Covered, Requests
    <3>2. r.counted < version' /\ r.rows <= version'
      BY <1>1, <2>1, <3>1
    <3>3. version \in 0..MaxVersion /\ r.counted \in 0..MaxVersion
      BY <1>1, <3>1, BrowseAssumption DEF BrowseInv
    <3>4. /\ Total(r) \in Nat /\ Rows(r.sel, version) \in Nat /\ Rows(r.sel, version') \in Nat
          /\ r.sel.list \notin Shrinking => Rows(r.sel, version) <= Rows(r.sel, version')
      BY <2>1, <3>1, <3>3, RowsGrow DEF Total
    <3>5. r.stage = "half" => Total(r) <= Rows(r.sel, version') \/ r.sel.list \in Shrinking
      <4>1. r.stage = "half" => Total(r) <= Rows(r.sel, version) \/ r.sel.list \in Shrinking
        BY <2>2 DEF Covered, Kept
      <4> QED BY <3>4, <4>1
    <3>6. r.stage = "half" => Kept(r, version')
      <4>1. r.counted <= version'
        BY <1>1, <2>1, <3>1
      <4> QED BY <3>2, <3>5, <4>1 DEF Kept
    <3>8. Kept(r, r.rows)' <=> Kept(r, r.rows)
      BY DEF Kept, Total, Rows
    <3>9. (r.stage = "half" => Kept(r, version))'
      BY <3>6 DEF Kept, Total, Rows
    <3>10. r.stage \in {"answered", "shown"} => Kept(r, r.rows)
      BY <2>2 DEF Covered
    <3>11. (r \in Requests)' /\ (r.counted <= version)' /\ (r.rows <= version)'
      BY <1>1, <2>1, <3>1, <3>2 DEF Requests, Selections
    <3> QED BY <3>8, <3>9, <3>10, <3>11 DEF Covered
  <2>3. RequestsOK'
    BY <1>1, <1>5, <2>2 DEF RequestsOK, Commit
  <2>4. (shown # None => Covered(shown) /\ shown.stage = "shown")'
    BY <1>5, <2>2 DEF BrowseInv, Commit
  <2>5. SearchFollowsBox'
    BY <1>5 DEF BrowseInv, Commit, pageVars, SearchFollowsBox
  <2> QED BY <1>5, <2>1, <2>3, <2>4, <2>5 DEF BrowseInv, Commit, pageVars, RequestsOK
<1>6. ASSUME NEW l \in Lists, BrowseBy(l) PROVE BrowseInv'
  <2>1. PICK b : b = [B EXCEPT !.list = l, !.q = NoText, !.offset = 0]
    OBVIOUS
  <2>2. b \in Selections /\ b.offset % PageSize = 0 /\ b.q = NoText
    BY <2>1, Selects
  <2>3. Shows(b) /\ UNCHANGED <<version, shown, faults>> /\ acts' \in 0..MaxActs
    BY <1>2, <1>6, <2>1 DEF BrowseBy
  <2>4. box' \in Texts /\ focused' \in BOOLEAN /\ armed' \in BOOLEAN /\ b.q = box'
    BY <1>3, <1>6, <2>2, BrowseAssumption DEF BrowseBy, Cleared
  <2> QED BY <2>2, <2>3, <2>4, ShowsKeep
<1>7. ASSUME NEW text \in Texts, Type(text) PROVE BrowseInv'
  <2>1. RequestsOK'
    BY <1>1, <1>7 DEF RequestsOK, Type, Covered
  <2>2. (shown # None => Covered(shown) /\ shown.stage = "shown")'
    BY <1>7 DEF BrowseInv, Type, Covered
  <2> QED BY <1>2, <1>7, <2>1, <2>2 DEF BrowseInv, Type, RequestsOK, SearchFollowsBox
<1>8. CASE Search
  <2>1. PICK b : b = [B EXCEPT !.q = box, !.offset = 0]
    OBVIOUS
  <2>2. b \in Selections /\ b.offset % PageSize = 0 /\ b.q = box
    BY <2>1, Selects
  <2>3. Shows(b) /\ UNCHANGED <<version, shown, faults>> /\ acts' \in 0..MaxActs
    BY <1>1, <1>8, <2>1 DEF Search
  <2>4. box' \in Texts /\ focused' \in BOOLEAN /\ armed' \in BOOLEAN /\ b.q = box'
    BY <1>3, <1>8, <2>2 DEF Search
  <2> QED BY <2>2, <2>3, <2>4, ShowsKeep
<1>9. ASSUME NEW o \in Orders, Sort(o) PROVE BrowseInv'
  <2>1. PICK b : b = [B EXCEPT !.order = o, !.offset = 0]
    OBVIOUS
  <2>2. b \in Selections /\ b.offset % PageSize = 0 /\ b.q = B.q
    BY <2>1, Selects
  <2>3. Shows(b) /\ UNCHANGED <<version, shown, faults>> /\ acts' \in 0..MaxActs
    BY <1>2, <1>9, <2>1 DEF Sort
  <2>4. box' \in Texts /\ focused' \in BOOLEAN /\ armed' \in BOOLEAN
        /\ (armed' \/ b.q = box')
    BY <1>3, <1>4, <1>9, <2>2 DEF Sort
  <2> QED BY <2>2, <2>3, <2>4, ShowsKeep
<1>10. CASE Prev
  <2>1. PICK b : b = [B EXCEPT !.offset = Back(@)]
    OBVIOUS
  <2>2. b \in Selections /\ b.offset % PageSize = 0 /\ b.q = B.q
    BY <2>1, Selects
  <2>3. Shows(b) /\ UNCHANGED <<version, shown, faults>> /\ acts' \in 0..MaxActs
    BY <1>2, <1>10, <2>1 DEF Prev
  <2>4. box' \in Texts /\ focused' \in BOOLEAN /\ armed' \in BOOLEAN
        /\ (armed' \/ b.q = box')
    BY <1>3, <1>4, <1>10, <2>2 DEF Prev
  <2> QED BY <2>2, <2>3, <2>4, ShowsKeep
<1>11. CASE Next_
  <2>1. PICK b : b = [B EXCEPT !.offset = @ + PageSize]
    OBVIOUS
  <2>2. b \in Selections /\ b.offset % PageSize = 0 /\ b.q = B.q
    BY <2>1, Selects
  <2>3. Shows(b) /\ UNCHANGED <<version, shown, faults>> /\ acts' \in 0..MaxActs
    BY <1>2, <1>11, <2>1 DEF Next_
  <2>4. box' \in Texts /\ focused' \in BOOLEAN /\ armed' \in BOOLEAN
        /\ (armed' \/ b.q = box')
    BY <1>3, <1>4, <1>11, <2>2 DEF Next_
  <2> QED BY <2>2, <2>3, <2>4, ShowsKeep
<1>12. CASE Focus \/ Blur
  <2>1. RequestsOK'
    BY <1>1, <1>12 DEF RequestsOK, Focus, Blur, Covered
  <2> QED BY <1>1, <1>2, <1>12, <2>1, SlotsKeep DEF Focus, Blur
<1>13. CASE Message
  <2>1. RequestsOK'
    <3>1. CASE Reloads
      <4>1. B \in Selections
        BY DEF BrowseInv
      <4> QED BY <1>1, <1>13, <3>1, <4>1, LoadKeeps DEF Message
    <3>2. CASE ~Reloads
      BY <1>1, <1>13, <3>2 DEF Message, RequestsOK, Covered
    <3> QED BY <3>1, <3>2
  <2> QED BY <1>1, <1>3, <1>13, <2>1, SlotsKeep DEF Message, pageVars
<1>14. ASSUME NEW s \in Slots, BrowseCrates(s) PROVE BrowseInv'
  <2>1. PICK r, q : r = request[s] /\ q = Queried(r, version)
    OBVIOUS
  <2>2. Covered(r) /\ r.stage \in {"sent", "half"}
    BY <1>1, <1>14, <2>1 DEF RequestsOK, BrowseCrates, At
  <2>3. r \in Requests /\ r.sel \in Selections
    BY <2>2 DEF Covered, Requests
  <2>4. Rows(r.sel, version) \in Nat
    BY <2>3, RowsGrow DEF BrowseInv
  <2>5. ASSUME r.stage = "sent" PROVE Covered(q)
    <3>1. q = [r EXCEPT !.stage = "half", !.counted = version]
      BY <2>1, <2>5 DEF Queried
    <3>2. q \in Requests /\ q.stage = "half" /\ q.sel = r.sel /\ q.rows = r.rows
          /\ q.counted = version
      BY <1>1, <2>3, <3>1 DEF Requests
    <3>3. q.rows <= version /\ Kept(q, version)
      BY <1>1, <2>2, <2>4, <3>2 DEF Covered, Kept, Total
    <3> QED BY <1>1, <3>2, <3>3 DEF Covered
  <2>6. ASSUME r.stage = "half" PROVE Covered(q)
    <3>1. q = [r EXCEPT !.stage = "answered", !.rows = version]
      BY <2>1, <2>6 DEF Queried
    <3>2. q \in Requests /\ q.stage = "answered" /\ q.sel = r.sel /\ q.rows = version
          /\ q.counted = r.counted
      BY <1>1, <2>3, <3>1 DEF Requests
    <3>3. Kept(q, q.rows)
      BY <2>2, <2>6, <3>2 DEF Covered, Kept, Total
    <3> QED BY <1>1, <2>2, <3>2, <3>3 DEF Covered
  <2>7. Covered(q)
    BY <2>2, <2>5, <2>6
  <2>8. request' = [request EXCEPT ![s] = q] /\ UNCHANGED version
    BY <1>14, <2>1 DEF BrowseCrates
  <2>9. RequestsOK'
    BY <1>1, <2>7, <2>8, SlotKeeps
  <2> QED BY <1>1, <1>3, <1>14, <2>9, SlotsKeep DEF BrowseCrates, pageVars
<1>15. ASSUME NEW s \in Slots, RenderBrowse(s) PROVE BrowseInv'
  <2>1. PICK r, q : r = request[s] /\ q = [r EXCEPT !.stage = "shown"]
    OBVIOUS
  <2>2. Covered(r) /\ r.stage = "answered" /\ r \in Requests
    BY <1>1, <1>15, <2>1 DEF RequestsOK, RenderBrowse, At, Covered
  <2>3. q \in Requests /\ q.stage = "shown" /\ q.sel = r.sel /\ q.rows = r.rows
        /\ q.counted = r.counted
    BY <2>1, <2>2 DEF Requests
  <2>4. Covered(q)
    BY <2>2, <2>3 DEF Covered, Kept, Total
  <2>5. request' = [request EXCEPT ![s] = None] /\ UNCHANGED version /\ shown' = q
    BY <1>15, <2>1 DEF RenderBrowse
  <2>6. RequestsOK'
    BY <1>1, <2>5, SlotKeeps
  <2>7. Covered(shown') /\ shown'.stage = "shown"
    BY <2>3, <2>4, <2>5
  <2> QED BY <1>1, <1>3, <1>15, <2>6, <2>7, SlotsKeep DEF RenderBrowse, pageVars
<1>16. ASSUME NEW s \in Slots, Fail(s) PROVE BrowseInv'
  <2>1. RequestsOK'
    BY <1>1, <1>16, SlotKeeps DEF Fail
  <2>2. faults' \in 0..MaxFaults
    BY <1>1, <1>16, BrowseAssumption DEF Fail
  <2> QED BY <1>1, <1>3, <1>16, <2>1, <2>2, SlotsKeep DEF Fail, pageVars
<1>17. CASE UNCHANGED vars
  <2>1. RequestsOK'
    BY <1>1, <1>17 DEF RequestsOK, Covered, vars, pageVars
  <2> QED BY <1>1, <1>3, <1>17, <2>1, SlotsKeep DEF vars, pageVars
<1> QED
  BY <1>5, <1>6, <1>7, <1>8, <1>9, <1>10, <1>11, <1>12, <1>13, <1>14, <1>15, <1>16, <1>17
  DEF Next, User, Serve

LEMMA BrowseCorrect == Spec => []BrowseInv
BY BrowseInit, BrowseStep, PTL DEF Spec

-----------------------------------------------------------------------------
(***************************************************************************)
(* What follows of every state of the page.                                *)
(***************************************************************************)
\* The page, whatever handlers and answers follow each other, asks for a
\* selection of whole pages, and no answer is of a version the database has
\* not reached.
THEOREM BrowseTypeCorrect == Spec => []BrowseTypeOK
<1>1. BrowseInv => BrowseTypeOK
  BY DEF BrowseInv, BrowseTypeOK, Covered, Requests
<1> QED BY <1>1, BrowseCorrect, PTL

\* browse_crates counts first and selects afterwards, in two transactions: the
\* range the pager shows promises no row that the selected rows' table lacks,
\* however many commits come between the two, unless it is of the list that may
\* lose crates and something was committed between the two.
THEOREM RangeCorrect == Spec => []RangeCovered
<1>1. BrowseInv => RangeCovered
  <2> SUFFICES ASSUME BrowseInv, shown # None,
                      ~(shown.sel.list \in Shrinking /\ shown.counted < shown.rows)
               PROVE  To <= Lower(shown.sel.offset + PageSize, Rows(shown.sel, shown.rows))
    BY DEF RangeCovered
  <2>1. Covered(shown) /\ shown.stage = "shown"
    BY DEF BrowseInv
  <2>2. /\ shown.sel \in Selections /\ shown.rows \in Nat /\ shown.counted \in Nat
        /\ shown.rows <= version /\ shown.counted <= version
        /\ Total(shown) <= Rows(shown.sel, shown.rows)
    BY <2>1 DEF Covered, Requests, Kept
  <2>3. shown.rows \in 0..MaxVersion /\ shown.counted \in 0..MaxVersion
    BY <2>2, BrowseAssumption DEF BrowseInv
  <2>4. Rows(shown.sel, shown.rows) \in Nat /\ Total(shown) \in Nat
    BY <2>2, <2>3, RowsGrow DEF Total
  <2>5. shown.sel.offset + PageSize \in Nat
    BY <2>2, BrowseAssumption DEF Selections
  <2> QED BY <2>2, <2>4, <2>5 DEF To, Lower
<1> QED BY <1>1, BrowseCorrect, PTL

\* What the search box says is what loadBrowse asks for, or the box's timer is
\* still to fire and will ask for it: a filter, a pager button or the menu that
\* is clicked between a keystroke and the timer loses no keystroke.
THEOREM SearchCorrect == Spec => []SearchFollowsBox
<1>1. BrowseInv => SearchFollowsBox
  BY DEF BrowseInv
<1> QED BY <1>1, BrowseCorrect, PTL
=============================================================================
