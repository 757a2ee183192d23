---------------------------- MODULE DashboardProofs ----------------------------
(***************************************************************************)
(* DashTypeOK, FreshWhenIdle and MissedOnlyInRace in every behaviour of    *)
(* the dashboard, for any pages, versions, faults and openings.            *)
(***************************************************************************)
EXTENDS Dashboard, SequenceTheorems, TLAPS

\* A broadcast has work only while it serves.
Idle == place # "serve" => todo = {}

\* FreshWhenIdle, from the queries of a round to the next drain: a notification
\* after the queries is on its way or has arrived.
Fresh ==
    place \in {"send", "serve", "wait"} /\ linked /\ synced /\ wire = 0 /\ inbox = 0 =>
        stats >= notified

\* HasNewest, also for a page that is still to be greeted: its greeting was read
\* after the registration.
Newer(p) ==
    IF queue[p] # <<>> THEN Last(queue[p]) = stats
    ELSE stats # None => /\ handler[p] = "greeted" => greeting[p] >= stats
                         /\ handler[p] = "loop" => shown[p] >= stats

\* MissedOnlyInRace, from the moment a queue has been served to the next queries.
Newest ==
    \A p \in clients : place # "send" /\ p \notin todo => Newer(p) \/ p \in dropped

\* No payload is newer than the database, and the clients are those that have a
\* handler.
Registered ==
    /\ stats # None => stats <= version
    /\ \A p \in Pages : p \in clients <=> handler[p] # "none"

Tables == queue = [p \in Pages |-> queue[p]]

Inv == DashTypeOK /\ Tables /\ Idle /\ Registered /\ Fresh /\ Newest

-----------------------------------------------------------------------------
LEMMA AppendLast ==
    ASSUME NEW S, NEW q \in Seq(S), NEW e \in S
    PROVE  /\ Append(q, e) \in Seq(S) /\ Len(Append(q, e)) = Len(q) + 1
           /\ Append(q, e) # <<>> /\ Last(Append(q, e)) = e
<1>1. /\ Append(q, e) \in Seq(S) /\ Len(Append(q, e)) = Len(q) + 1
      /\ Append(q, e)[Len(q) + 1] = e
  BY AppendProperties
<1> QED BY <1>1 DEF Last

LEMMA TailLast ==
    ASSUME NEW S, NEW q \in Seq(S), q # <<>>
    PROVE  /\ Tail(q) \in Seq(S) /\ Len(Tail(q)) = Len(q) - 1
           /\ Tail(q) # <<>> => Last(Tail(q)) = Last(q)
           /\ Tail(q) = <<>> => Head(q) = Last(q)
<1>1. Tail(q) \in Seq(S) /\ Len(Tail(q)) = Len(q) - 1
      /\ \A i \in 1..Len(Tail(q)) : Tail(q)[i] = q[i + 1]
  BY HeadTailProperties
<1>2. ASSUME Tail(q) # <<>> PROVE Last(Tail(q)) = Last(q)
  <2>1. Len(Tail(q)) \in Nat \ {0} /\ Len(q) \in Nat
    BY <1>1, <1>2, EmptySeq, LenProperties
  <2> QED BY <1>1, <2>1 DEF Last
<1>3. ASSUME Tail(q) = <<>> PROVE Head(q) = Last(q)
  <2>1. Len(q) = 1
    <3>1. PICK t : t = Tail(q)
      OBVIOUS
    <3>2. t = <<>> /\ Len(t) = Len(q) - 1
      BY <1>1, <1>3, <3>1
    <3>3. Len(t) = 0
      BY <3>2, EmptySeq
    <3>4. Len(q) \in Nat
      BY LenProperties
    <3> QED BY <3>2, <3>3, <3>4
  <2>2. PICK s \in Seq(S), e \in S : q = Append(s, e)
    BY SequenceEmptyOrAppend
  <2>3. Len(s) = 0 /\ s = <<>>
    <3>1. Len(s) \in Nat /\ Len(q) = Len(s) + 1
      BY <2>2, AppendProperties, LenProperties
    <3>2. Len(s) = 0
      BY <2>1, <3>1
    <3> QED BY <3>2, EmptySeq
  <2>4. Head(q) = e
    BY <2>2, <2>3, HeadTailAppend
  <2> QED BY <2>2, <2>4, AppendLast
<1> QED BY <1>1, <1>2, <1>3

-----------------------------------------------------------------------------
(***************************************************************************)
(* The type invariant.                                                     *)
(***************************************************************************)
Room(q) == q \in Seq(Payloads) /\ Len(q) <= QueueSize

LEMMA RoomEmpty == Room(<<>>)
BY EmptySeq DEF Room, QueueSize

LEMMA RoomTail ==
    ASSUME NEW q, Room(q), q # <<>>
    PROVE  Room(Tail(q))
BY TailLast, LenProperties DEF Room, QueueSize

LEMMA RoomOffer ==
    ASSUME NEW q, Room(q), HasRoom(q), NEW e \in Payloads
    PROVE  Room(Append(q, e))
BY AppendLast, LenProperties DEF Room, HasRoom, QueueSize

LEMMA RoomMade ==
    ASSUME NEW q, Room(q), stats \in Payloads
    PROVE  /\ Room(MakeRoom(q))
           /\ MakeRoom(q) # <<>> => Last(MakeRoom(q)) = stats
<1>1. CASE q = <<>>
  BY <1>1 DEF MakeRoom
<1>2. CASE q # <<>>
  <2>1. /\ Tail(q) \in Seq(Payloads) /\ Len(Tail(q)) = Len(q) - 1
        /\ Len(q) \in Nat /\ Len(q) <= QueueSize
    BY <1>2, TailLast, LenProperties DEF Room
  <2>2. /\ Append(Tail(q), stats) \in Seq(Payloads)
        /\ Len(Append(Tail(q), stats)) = Len(Tail(q)) + 1
        /\ Last(Append(Tail(q), stats)) = stats
    BY <2>1, AppendLast
  <2> QED BY <1>2, <2>1, <2>2 DEF MakeRoom, Room
<1> QED BY <1>1, <1>2

LEMMA FaultCounted == faults \in 0..MaxFaults /\ Fault => faults' \in 0..MaxFaults
BY DashboardAssumption DEF Fault

LEMMA TypeInit == Init => DashTypeOK /\ Tables /\ Idle
<1> SUFFICES ASSUME Init PROVE DashTypeOK /\ Tables /\ Idle
  OBVIOUS
<1>1. 0 \in 0..MaxVersion /\ 0 \in 0..0 /\ 0 \in 0..MaxOpens /\ 0 \in 0..MaxFaults /\ 0 \in Nat
  BY DashboardAssumption
<1>2. \A p \in Pages : queue[p] = <<>> /\ Room(queue[p])
  BY RoomEmpty DEF Init
<1>3. None \in Payloads
  BY DEF Payloads
<1> QED BY <1>1, <1>2, <1>3 DEF Init, DashTypeOK, Tables, Idle, Room

\* The steps that leave every client's queue as it is.
LEMMA TypeElsewhere ==
    ASSUME DashTypeOK, Tables, Idle,
           \/ NotifyingCommit \/ SilentCommit \/ Arrive \/ LoseConnection \/ Listen \/ Wake
           \/ Reconnect \/ Drain \/ Read \/ Broadcast \/ Served \/ UNCHANGED vars
    PROVE  DashTypeOK' /\ Tables' /\ Idle'
<1>c. version < MaxVersion /\ version' = version + 1 =>
         /\ version' \in 0..MaxVersion /\ version' \in 0..version'
         /\ 0..version \subseteq 0..version'
  BY DashboardAssumption DEF DashTypeOK
<1>f. Fault => faults' \in 0..MaxFaults
  BY FaultCounted DEF DashTypeOK
<1>w. wire + 1 \in Nat /\ (wire > 0 => wire - 1 \in Nat)
      /\ inbox + 1 \in Nat /\ (inbox > 0 => inbox - 1 \in Nat)
  BY DEF DashTypeOK
<1> USE DEF DashTypeOK, Tables, Idle, dbVars, listenerVars, clientVars, queueVars
<1>1. CASE NotifyingCommit
  BY <1>1, <1>c, <1>w DEF NotifyingCommit
<1>2. CASE SilentCommit
  BY <1>2, <1>c DEF SilentCommit
<1>3. CASE Arrive
  BY <1>3, <1>w DEF Arrive
<1>4. CASE LoseConnection
  BY <1>4, <1>f DEF LoseConnection
<1>5. CASE Listen
  BY <1>5 DEF Listen
<1>6. CASE Wake
  BY <1>6, <1>w DEF Wake, After
<1>7. CASE Reconnect
  BY <1>7 DEF Reconnect
<1>8. CASE Drain
  BY <1>8 DEF Drain, After
<1>9. CASE Read
  <2>1. stats' \in Payloads /\ synced' \in BOOLEAN /\ faults' \in 0..MaxFaults
    BY <1>9, <1>f DEF Read, Payloads
  <2> QED BY <1>9, <2>1 DEF Read, After
<1>10. CASE Broadcast
  BY <1>10 DEF Broadcast
<1>11. CASE Served
  BY <1>11 DEF Served
<1>12. CASE UNCHANGED vars
  BY <1>12 DEF vars
<1> QED BY <1>1, <1>2, <1>3, <1>4, <1>5, <1>6, <1>7, <1>8, <1>9, <1>10, <1>11, <1>12

\* The steps that change the queue of one client p.
LEMMA TypeQueue ==
    ASSUME DashTypeOK, Tables, Idle, NEW p \in Pages,
           \/ Offer(p) \/ Evict(p) \/ Connect(p) \/ Deliver(p) \/ WriteFails(p)
           \/ GreetRead(p) \/ GreetWrite(p)
    PROVE  DashTypeOK' /\ Tables' /\ Idle'
<1>f. Fault => faults' \in 0..MaxFaults
  BY FaultCounted DEF DashTypeOK
<1>v. version \in Payloads /\ greeting[p] \in Payloads
  BY DEF DashTypeOK, Payloads
<1>q. \A r \in Pages : Room(queue[r])
  BY DEF DashTypeOK, Room
<1>t. queue' = [r \in Pages |-> queue'[r]]
  BY DEF Tables, Offer, Evict, Connect, Deliver, WriteFails, GreetRead, GreetWrite, Leave,
     queueVars
<1>r. \A r \in Pages : Room(queue'[r])
  <2>1. CASE UNCHANGED queue
    BY <1>q, <2>1
  <2>2. CASE queue' = [queue EXCEPT ![p] = <<>>]
    BY <1>q, <2>2, RoomEmpty DEF Tables
  <2>3. CASE queue' = [queue EXCEPT ![p] = Append(@, stats)] /\ HasRoom(queue[p])
    BY <1>q, <2>3, RoomOffer DEF Tables, DashTypeOK
  <2>4. CASE queue' = [queue EXCEPT ![p] = MakeRoom(@)]
    BY <1>q, <2>4, RoomMade DEF Tables, DashTypeOK
  <2>5. CASE queue' = [queue EXCEPT ![p] = Tail(@)] /\ queue[p] # <<>>
    BY <1>q, <2>5, RoomTail DEF Tables
  <2> QED BY <2>1, <2>2, <2>3, <2>4, <2>5
          DEF Offer, Evict, Connect, Deliver, WriteFails, GreetRead, GreetWrite, Leave, queueVars
<1>h. \A next \in {"none", "greet", "greeted", "loop"} :
         [handler EXCEPT ![p] = next] \in [Pages -> {"none", "greet", "greeted", "loop"}]
  BY DEF DashTypeOK
<1> HIDE DEF Room
<1> USE <1>r, <1>t DEF DashTypeOK, Tables, Idle, dbVars, listenerVars, clientVars, queueVars
<1>1. CASE Offer(p)
  BY <1>1 DEF Offer, Room
<1>2. CASE Evict(p)
  <2>1. p \in clients
    BY <1>2, DashboardAssumption DEF Evict
  <2> QED BY <1>2, <2>1 DEF Evict, Room
<1>3. CASE Connect(p)
  BY <1>3, <1>h DEF Connect, Handles, Room
<1>4. CASE Deliver(p)
  <2>1. Head(queue[p]) \in Payloads
    BY <1>q, <1>4, HeadTailProperties DEF Deliver, Room
  <2>2. shown' \in [Pages -> Payloads]
    BY <1>4, <2>1 DEF Deliver, Rendered
  <2> QED BY <1>4, <2>2 DEF Deliver, Room
<1>5. ASSUME NEW here, Leave(p, here), UNCHANGED greeting, faults' \in 0..MaxFaults
      PROVE  DashTypeOK' /\ Tables' /\ Idle'
  BY <1>5, <1>h DEF Leave, Handles, Room
<1>6. CASE WriteFails(p)
  <2>1. UNCHANGED greeting /\ faults' \in 0..MaxFaults
    BY <1>6 DEF WriteFails, Leave
  <2> QED BY <1>5, <1>6, <2>1 DEF WriteFails
<1>7. CASE GreetRead(p)
  <2>1. CASE Leave(p, "greet") /\ Fault /\ UNCHANGED greeting
    BY <1>5, <1>f, <2>1
  <2>2. CASE /\ Handles(p, "greet", "greeted")
             /\ greeting' = [greeting EXCEPT ![p] = version]
             /\ UNCHANGED <<dbVars, wire, inbox, listenerVars, clients, shown, open, opens,
                            queueVars, faults>>
    <3>1. greeting' \in [Pages -> Payloads]
      BY <1>v, <2>2
    <3> QED BY <1>h, <2>2, <3>1 DEF Handles, Room
  <2> QED BY <1>7, <2>1, <2>2 DEF GreetRead
<1>8. CASE GreetWrite(p)
  <2>1. CASE ~open[p] /\ Leave(p, "greeted") /\ UNCHANGED faults
    <3>1. UNCHANGED greeting
      BY <1>8, <2>1 DEF GreetWrite, Leave
    <3> QED BY <1>5, <2>1, <3>1
  <2>2. CASE /\ open[p] /\ Handles(p, "greeted", "loop")
             /\ shown' = [shown EXCEPT ![p] = greeting[p]]
             /\ UNCHANGED <<dbVars, wire, inbox, listenerVars, clients, greeting, open, opens,
                            queueVars, faults>>
    <3>1. shown' \in [Pages -> Payloads]
      BY <1>v, <2>2
    <3>2. handler' \in [Pages -> {"none", "greet", "greeted", "loop"}]
      BY <1>h, <2>2 DEF Handles
    <3> QED BY <2>2, <3>1, <3>2 DEF Room
  <2> QED BY <1>8, <2>1, <2>2 DEF GreetWrite
<1> QED BY <1>1, <1>2, <1>3, <1>4, <1>6, <1>7, <1>8

\* The steps of a browser.
LEMMA TypeBrowser ==
    ASSUME DashTypeOK, Tables, Idle, NEW p \in Pages, Open(p) \/ Close(p)
    PROVE  DashTypeOK' /\ Tables' /\ Idle'
<1>1. opens' \in [Pages -> 0..MaxOpens]
  <2>1. opens[p] < MaxOpens => opens[p] + 1 \in 0..MaxOpens
    BY DashboardAssumption DEF DashTypeOK
  <2> QED BY <2>1 DEF Open, Close, DashTypeOK
<1>2. shown' \in [Pages -> Payloads] /\ open' \in [Pages -> BOOLEAN]
  BY DEF Open, Close, DashTypeOK, Payloads
<1>3. UNCHANGED <<dbVars, wire, inbox, listenerVars, clients, handler, greeting, queueVars, faults>>
  BY DEF Open, Close
<1> QED BY <1>1, <1>2, <1>3 DEF DashTypeOK, Tables, Idle, dbVars, listenerVars, queueVars

LEMMA TypeStep == DashTypeOK /\ Tables /\ Idle /\ [Next]_vars => DashTypeOK' /\ Tables' /\ Idle'
BY TypeElsewhere, TypeQueue, TypeBrowser DEF Next, Listener, Handler

-----------------------------------------------------------------------------
(***************************************************************************)
(* The two safety properties.                                              *)
(***************************************************************************)
LEMMA FreshStep ==
    ASSUME DashTypeOK, Fresh, [Next]_vars
    PROVE  Fresh'
<1>1. CASE UNCHANGED <<notified, wire, inbox, place, linked, stats, synced>>
  BY <1>1 DEF Fresh
<1>2. CASE NotifyingCommit
  BY <1>2 DEF NotifyingCommit, Fresh, DashTypeOK, listenerVars
<1>3. CASE Arrive
  BY <1>3 DEF Arrive, Fresh, DashTypeOK, listenerVars
<1>4. CASE LoseConnection \/ Listen \/ Reconnect \/ Wake \/ Drain
  BY <1>4 DEF LoseConnection, Listen, Reconnect, Wake, Drain, After, Fresh
<1>5. CASE Read
  BY <1>5 DEF Read, Fresh, DashTypeOK, dbVars
<1>6. CASE Broadcast \/ Served
  BY <1>6 DEF Broadcast, Served, Fresh, dbVars
<1>7. CASE SilentCommit
  BY <1>1, <1>7 DEF SilentCommit, listenerVars
<1>8. ASSUME NEW p \in Pages, Offer(p) \/ Evict(p) PROVE Fresh'
  BY <1>1, <1>8 DEF Offer, Evict, dbVars
<1>9. ASSUME NEW p \in Pages, Open(p) \/ Close(p) \/ Connect(p) \/ Handler(p) PROVE Fresh'
  BY <1>1, <1>9 DEF Open, Close, Connect, Handler, GreetRead, GreetWrite, Deliver, WriteFails,
     Leave, dbVars, listenerVars
<1>10. CASE UNCHANGED vars
  BY <1>1, <1>10 DEF vars, dbVars, listenerVars
<1> QED BY <1>2, <1>3, <1>4, <1>5, <1>6, <1>7, <1>8, <1>9, <1>10 DEF Next, Listener

LEMMA RegisteredStep ==
    ASSUME DashTypeOK, Registered, [Next]_vars
    PROVE  Registered'
<1>1. stats' # None => stats' <= version'
  <2>1. version \in Nat /\ version' \in Nat /\ version <= version'
    BY DashboardAssumption DEF DashTypeOK, Next, NotifyingCommit, SilentCommit, Arrive,
       LoseConnection, Listener, Listen, Wake, Reconnect, Drain, Read, Broadcast, Served,
       Offer, Evict, Open, Close, Connect, Handler, GreetRead, GreetWrite, Deliver, WriteFails,
       Leave, vars, dbVars
  <2>2. CASE Read
    BY <2>1, <2>2 DEF Read, dbVars
  <2>3. CASE UNCHANGED stats
    BY <2>1, <2>3, DashboardAssumption DEF Registered, DashTypeOK, Payloads
  <2> QED BY <2>2, <2>3 DEF Next, NotifyingCommit, SilentCommit, Arrive,
       LoseConnection, Listener, Listen, Wake, Reconnect, Drain, Broadcast, Served,
       Offer, Evict, Open, Close, Connect, Handler, GreetRead, GreetWrite, Deliver, WriteFails,
       Leave, vars, listenerVars
<1>2. \A p \in Pages : p \in clients' <=> handler'[p] # "none"
  <2>1. CASE UNCHANGED <<clients, handler>>
    BY <2>1 DEF Registered
  <2>2. ASSUME NEW p \in Pages, Connect(p) \/ (\E here : Leave(p, here))
        PROVE  \A r \in Pages : r \in clients' <=> handler'[r] # "none"
    BY <2>2 DEF Connect, Leave, Handles, Registered, DashTypeOK
  <2>3. ASSUME NEW p \in Pages, UNCHANGED clients,
               \/ Handles(p, "greet", "greeted") \/ Handles(p, "greeted", "loop")
        PROVE  \A r \in Pages : r \in clients' <=> handler'[r] # "none"
    BY <2>3 DEF Handles, Registered, DashTypeOK
  <2>4. ASSUME NEW p \in Pages, Open(p) \/ Close(p) \/ Connect(p) \/ Handler(p)
        PROVE  \A r \in Pages : r \in clients' <=> handler'[r] # "none"
    BY <2>1, <2>2, <2>3, <2>4 DEF Open, Close, Handler, GreetRead, GreetWrite, Deliver,
       WriteFails
  <2>5. CASE NotifyingCommit \/ SilentCommit \/ Arrive \/ LoseConnection \/ Listener
             \/ UNCHANGED vars
    BY <2>1, <2>5 DEF NotifyingCommit, SilentCommit, Arrive,
       LoseConnection, Listener, Listen, Wake, Reconnect, Drain, Read, Broadcast, Served,
       Offer, Evict, vars, clientVars
  <2> QED BY <2>4, <2>5 DEF Next
<1> QED BY <1>1, <1>2 DEF Registered

LEMMA NewestStep ==
    ASSUME DashTypeOK, Tables, Idle, Registered, Newest, [Next]_vars
    PROVE  Newest'
<1> SUFFICES ASSUME NEW p \in clients', place' # "send", p \notin todo'
             PROVE  Newer(p)' \/ p \in dropped'
  BY DEF Newest
<1>a. p \in Pages
  BY DEF DashTypeOK, Next, NotifyingCommit, SilentCommit, Arrive,
     LoseConnection, Listener, Listen, Wake, Reconnect, Drain, Read, Broadcast, Served,
     Offer, Evict, Open, Close, Connect, Handler, GreetRead, GreetWrite, Deliver, WriteFails,
     Leave, vars, clientVars
\* What a step that does not concern p keeps.
<1>1. ASSUME p \in clients, place # "send" /\ p \notin todo, stats' = stats,
             UNCHANGED <<queue[p], handler[p], greeting[p], shown[p]>>,
             p \in dropped => p \in dropped'
      PROVE  Newer(p)' \/ p \in dropped'
  BY <1>1 DEF Newest, Newer
<1>2. CASE \/ NotifyingCommit \/ SilentCommit \/ Arrive \/ LoseConnection \/ UNCHANGED vars
           \/ Listen \/ Wake \/ Reconnect \/ Drain \/ Served
  <2>1. UNCHANGED <<clients, handler, greeting, shown, queue, dropped, stats, todo>>
    BY <1>2 DEF NotifyingCommit, SilentCommit, Arrive, LoseConnection, vars, Listen, Wake,
       Reconnect, Drain, Served, listenerVars, clientVars, queueVars
  <2>2. place # "send"
    BY <1>2 DEF NotifyingCommit, SilentCommit, Arrive, LoseConnection, vars, Listen, Wake,
       Reconnect, Drain, Served, listenerVars
  <2> QED BY <1>1, <2>1, <2>2
<1>4. CASE Read
  BY <1>4 DEF Read, After
<1>5. CASE Broadcast
  BY <1>5 DEF Broadcast, clientVars
<1>6. ASSUME NEW r \in Pages, Offer(r) PROVE Newer(p)' \/ p \in dropped'
  <2>1. /\ place = "serve" /\ stats' = stats
        /\ UNCHANGED <<clients, handler, greeting, shown>>
    BY <1>6 DEF Offer, clientVars
  <2>2. CASE /\ queue' = [queue EXCEPT ![r] = Append(@, stats)]
             /\ todo' = todo \ {r} /\ dropped' = dropped \ {r}
    <3>1. CASE p = r
      <4>1. queue[r] \in Seq(Payloads) /\ stats \in Payloads
        BY <1>6 DEF DashTypeOK
      <4>2. Last(Append(queue[r], stats)) = stats /\ Append(queue[r], stats) # <<>>
        BY <4>1, AppendLast
      <4>3. queue'[p] = Append(queue[r], stats)
        BY <1>6, <2>2, <3>1 DEF Tables
      <4> QED BY <2>1, <4>2, <4>3 DEF Newer
    <3>2. CASE p # r
      <4>1. queue'[p] = queue[p] /\ p \notin todo /\ (p \in dropped => p \in dropped')
        BY <1>a, <2>2, <3>2 DEF Tables
      <4> QED BY <1>1, <2>1, <4>1
    <3> QED BY <3>1, <3>2
  <2>3. CASE UNCHANGED <<queueVars, todo>>
    BY <1>1, <2>1, <2>3 DEF queueVars
  <2> QED BY <1>6, <2>2, <2>3 DEF Offer
<1>7. ASSUME NEW r \in Pages, Evict(r) PROVE Newer(p)' \/ p \in dropped'
  <2>1. /\ place = "serve" /\ stats' = stats /\ todo' = todo \ {r}
        /\ UNCHANGED <<clients, handler, greeting, shown>>
        /\ queue' = [queue EXCEPT ![r] = MakeRoom(@)]
        /\ dropped' = IF queue[r] = <<>> THEN dropped \cup {r} ELSE dropped \ {r}
    BY <1>7 DEF Evict, clientVars
  <2>2. CASE p = r
    <3>1. Room(queue[r]) /\ stats \in Payloads
      BY <1>7 DEF DashTypeOK, Room
    <3>2. queue'[p] = MakeRoom(queue[r])
      BY <2>1, <2>2 DEF Tables
    <3>3. CASE queue[r] = <<>>
      BY <2>1, <2>2, <3>3
    <3>4. CASE queue[r] # <<>>
      <4>1. MakeRoom(queue[r]) # <<>>
        BY <3>1, <3>4, TailLast, AppendLast DEF MakeRoom, Room
      <4>2. Last(queue'[p]) = stats'
        BY <2>1, <3>1, <3>2, <4>1, RoomMade
      <4> QED BY <3>2, <4>1, <4>2 DEF Newer
    <3> QED BY <3>3, <3>4
  <2>3. CASE p # r
    <3>1. queue'[p] = queue[p] /\ p \notin todo /\ (p \in dropped => p \in dropped')
      BY <1>a, <2>1, <2>3 DEF Tables
    <3> QED BY <1>1, <2>1, <3>1
  <2> QED BY <2>2, <2>3
<1>8. ASSUME NEW r \in Pages, Connect(r) \/ (\E here : Leave(r, here))
      PROVE  Newer(p)' \/ p \in dropped'
  <2>1. /\ place' = place /\ stats' = stats /\ UNCHANGED <<greeting, shown>>
        /\ clients' \subseteq clients \cup {r} /\ todo \ {r} \subseteq todo'
        /\ queue' = [queue EXCEPT ![r] = <<>>] /\ dropped' = dropped \ {r}
        /\ handler' = [handler EXCEPT ![r] = "greet"] \/ r \notin clients'
        /\ \E next : handler' = [handler EXCEPT ![r] = next]
    BY <1>8 DEF Connect, Leave, Handles, listenerVars
  <2>2. CASE p = r
    <3>1. handler'[p] = "greet" /\ queue'[p] = <<>>
      BY <1>a, <2>1, <2>2 DEF Tables, DashTypeOK
    <3> QED BY <3>1 DEF Newer
  <2>3. CASE p # r
    <3>1. /\ p \in clients /\ queue'[p] = queue[p] /\ handler'[p] = handler[p]
          /\ p \notin todo /\ (p \in dropped => p \in dropped')
      BY <1>a, <2>1, <2>3 DEF Tables, DashTypeOK
    <3> QED BY <1>1, <2>1, <3>1
  <2> QED BY <2>2, <2>3
<1>9. ASSUME NEW r \in Pages, Deliver(r) PROVE Newer(p)' \/ p \in dropped'
  <2>1. /\ UNCHANGED <<place, todo, stats, clients, handler, greeting, dropped>>
        /\ queue[r] # <<>> /\ handler[r] = "loop"
        /\ shown' = [shown EXCEPT ![r] = Rendered(r, Head(queue[r]))]
        /\ queue' = [queue EXCEPT ![r] = Tail(@)]
    BY <1>9 DEF Deliver, listenerVars
  <2>2. CASE p = r
    <3>1. queue[r] \in Seq(Payloads) /\ stats \in Payloads
      BY <1>9 DEF DashTypeOK
    <3>2. /\ queue'[p] = Tail(queue[r]) /\ shown'[p] = Rendered(r, Head(queue[r]))
          /\ Tail(queue[r]) # <<>> => Last(Tail(queue[r])) = Last(queue[r])
          /\ Tail(queue[r]) = <<>> => Head(queue[r]) = Last(queue[r])
      BY <2>1, <2>2, <3>1, TailLast DEF Tables, DashTypeOK
    <3>3. p \in dropped' \/ Last(queue[r]) = stats
      BY <2>1, <2>2 DEF Newest, Newer
    <3>4. ASSUME stats # None, Head(queue[r]) = stats PROVE shown'[p] >= stats'
      BY <2>1, <3>1, <3>2, <3>4, DashboardAssumption DEF Rendered, Payloads
    <3> QED BY <2>1, <2>2, <3>2, <3>3, <3>4 DEF Newer
  <2>3. CASE p # r
    <3>1. queue'[p] = queue[p] /\ shown'[p] = shown[p]
      BY <1>a, <2>1, <2>3 DEF Tables, DashTypeOK
    <3> QED BY <1>1, <2>1, <3>1
  <2> QED BY <2>2, <2>3
<1>10. ASSUME NEW r \in Pages, Open(r) \/ Close(r) PROVE Newer(p)' \/ p \in dropped'
  <2>1. /\ UNCHANGED <<place, todo, stats, clients, handler, greeting, queue, dropped>>
        /\ shown' = shown \/ (handler[r] = "none" /\ shown' = [shown EXCEPT ![r] = None])
    BY <1>10 DEF Open, Close, listenerVars, queueVars
  <2>2. shown'[p] = shown[p]
    BY <1>a, <2>1 DEF Registered, DashTypeOK
  <2> QED BY <1>1, <2>1, <2>2
<1>11. ASSUME NEW r \in Pages, GreetRead(r) PROVE Newer(p)' \/ p \in dropped'
  <2>1. CASE /\ Handles(r, "greet", "greeted") /\ greeting' = [greeting EXCEPT ![r] = version]
             /\ UNCHANGED <<listenerVars, clients, shown, queueVars>>
    <3>1. CASE p = r
      <4>1. /\ handler'[p] = "greeted" /\ greeting'[p] = version
            /\ handler[p] = "greet" /\ UNCHANGED <<queue, dropped, stats, todo, place, clients>>
        BY <1>11, <2>1, <3>1 DEF Handles, DashTypeOK, listenerVars, queueVars
      <4>2. stats # None => greeting'[p] >= stats
        BY <4>1, DashboardAssumption DEF Registered, DashTypeOK, Payloads
      <4>3. p \in dropped \/ (queue[p] # <<>> => Last(queue[p]) = stats)
        BY <4>1 DEF Newest, Newer
      <4> QED BY <4>1, <4>2, <4>3 DEF Newer
    <3>2. CASE p # r
      <4>1. handler'[p] = handler[p] /\ greeting'[p] = greeting[p]
        BY <1>a, <2>1, <3>2 DEF Handles, DashTypeOK
      <4> QED BY <1>1, <2>1, <4>1 DEF listenerVars, queueVars
    <3> QED BY <3>1, <3>2
  <2> QED BY <1>8, <1>11, <2>1 DEF GreetRead
<1>12. ASSUME NEW r \in Pages, GreetWrite(r) PROVE Newer(p)' \/ p \in dropped'
  <2>1. CASE /\ Handles(r, "greeted", "loop") /\ shown' = [shown EXCEPT ![r] = greeting[r]]
             /\ UNCHANGED <<listenerVars, clients, greeting, queueVars>>
    <3>1. CASE p = r
      <4>1. /\ handler'[p] = "loop" /\ shown'[p] = greeting[p]
            /\ handler[p] = "greeted" /\ UNCHANGED <<queue, dropped, stats, todo, place, clients>>
        BY <1>12, <2>1, <3>1 DEF Handles, DashTypeOK, listenerVars, queueVars
      <4> QED BY <4>1 DEF Newest, Newer
    <3>2. CASE p # r
      <4>1. handler'[p] = handler[p] /\ shown'[p] = shown[p]
        BY <1>a, <2>1, <3>2 DEF Handles, DashTypeOK
      <4> QED BY <1>1, <2>1, <4>1 DEF listenerVars, queueVars
    <3> QED BY <3>1, <3>2
  <2> QED BY <1>8, <1>12, <2>1 DEF GreetWrite
<1> QED BY <1>2, <1>4, <1>5, <1>6, <1>7, <1>8, <1>9, <1>10, <1>11, <1>12
    DEF Next, Listener, Handler, WriteFails

-----------------------------------------------------------------------------
LEMMA InvInit == Init => Inv
<1>1. Init => Fresh /\ Newest /\ Registered
  BY DEF Init, Fresh, Newest, Registered
<1> QED BY <1>1, TypeInit DEF Inv

LEMMA Invariance == Spec => []Inv
<1>1. Inv /\ [Next]_vars => Inv'
  BY TypeStep, FreshStep, NewestStep, RegisteredStep DEF Inv
<1> QED BY <1>1, InvInit, PTL DEF Spec

\* The threads keep to their places, no queue ever holds more than two payloads,
\* and a broadcast never holds a client that it does not have to serve.
THEOREM TypeCorrect == Spec => []DashTypeOK
<1>1. Inv => DashTypeOK
  BY DEF Inv
<1> QED BY <1>1, Invariance, PTL

\* While the connection holds, a listener that waits with nothing on its way to
\* it has broadcast every commit that notified.
THEOREM FreshCorrect == Spec => []FreshWhenIdle
<1>1. Inv => FreshWhenIdle
  BY DEF Inv, Fresh, FreshWhenIdle
<1> QED BY <1>1, Invariance, PTL

\* A page whose queue was full loses old payloads; the newest is lost only by one
\* that emptied its queue between queue.Full and get_nowait, until the next
\* broadcast.
THEOREM NewestCorrect == Spec => []MissedOnlyInRace
<1>1. Inv => MissedOnlyInRace
  BY DEF Inv, Idle, Newest, Newer, HasNewest, MissedOnlyInRace
<1> QED BY <1>1, Invariance, PTL
=============================================================================
