---------------------------- MODULE TimelineReaders ----------------------------
(***************************************************************************)
(* Reading a timeline of the hub: pages after a cursor, the tail, what     *)
(* follows the newest session boundary - and the tools that ask a manager  *)
(* for something over its timeline (tm_health, tm_screenshot,              *)
(* tm_reconnect_mcp) and poll it for the answer.  Event ids are numbers    *)
(* here, in the order of recording, and are never used twice.              *)
(***************************************************************************)
EXTENDS Naturals, Sequences, SequencesExt, FiniteSets

CONSTANTS
    Callers,    \* tool calls
    Topics,     \* what may be asked for: each has its kind of answer
    NoTopic,    \* the topic of an event that is neither
    ReadLimit,  \* limit of a page, 100 in events_since
    MaxEvents   \* bound: events recorded

ASSUME ReadersAssumption ==
    /\ IsFiniteSet(Callers) /\ NoTopic \notin Topics
    /\ ReadLimit \in Nat \ {0} /\ MaxEvents \in Nat

VARIABLES
    timeline,  \* the events of the manager's worker state, oldest first
    lastId,    \* the id of the last event recorded
    atManager, \* asks the manager has received and not answered
    onItsWay,  \* topics of answers whose post was given up on
    caller,    \* where each call is
    ask,       \* the event a call waits for the answer of
    cursor,    \* the event it has read up to
    got        \* the event it was answered with

readerVars == <<timeline, lastId, atManager, onItsWay, caller, ask, cursor, got>>
calls == <<caller, ask, cursor, got>>

NoEvent == 0
NoAsk == [id |-> NoEvent, kind |-> "inbound", topic |-> NoTopic]
Event == [id : 1..MaxEvents, kind : {"inbound", "outbound", "session_boundary"},
          topic : Topics \cup {NoTopic}]

ReadersTypeOK ==
    /\ timeline \in Seq(Event) /\ lastId \in 0..MaxEvents
    /\ \A i, j \in DOMAIN timeline : i < j => timeline[i].id < timeline[j].id
    /\ atManager \subseteq {e \in Event : e.topic \in Topics} /\ onItsWay \subseteq Topics
    /\ caller \in [Callers -> {"none", "waiting", "answered", "gave up"}]
    /\ ask \in [Callers -> Event \cup {NoAsk}] /\ \A c \in Callers : ask[c].id <= lastId
    /\ cursor \in [Callers -> 0..lastId] /\ got \in [Callers -> 0..lastId]

ReadersInit ==
    /\ timeline = << >> /\ lastId = 0 /\ atManager = {} /\ onItsWay = {}
    /\ caller = [c \in Callers |-> "none"]
    /\ ask = [c \in Callers |-> NoAsk]
    /\ cursor = [c \in Callers |-> NoEvent] /\ got = cursor
-----------------------------------------------------------------------------
\* Reading.

Smaller(a, b) == IF a <= b THEN a ELSE b
Larger(a, b) == IF a >= b THEN a ELSE b

\* How many events come before the window: up to a cursor that is found, up to
\* the newest boundary.
Upto(places) == IF places = {} THEN 0 ELSE Max(places)

AfterCursor(t, since) == Upto({i \in DOMAIN t : t[i].id = since})
AfterBoundary(t) == Upto({i \in DOMAIN t : t[i].kind = "session_boundary"})

\* A window that the cursor widens back.
StartAtCursor(t, since, boundary) ==
    IF since # NoEvent THEN AfterCursor(t, since)
                       ELSE IF boundary THEN AfterBoundary(t) ELSE 0

\* The later of the two starts.
Start(t, since, boundary) ==
    Larger(AfterCursor(t, since), IF boundary THEN AfterBoundary(t) ELSE 0)

\* Every read is a recency read.
TailSince(t, since, limit, boundary) ==
    LET window == SubSeq(t, Start(t, since, boundary) + 1, Len(t)) IN
    SubSeq(window, Larger(1, Len(window) + 1 - limit), Len(window))

\* events_since: a page forward from a cursor, or the tail of the window.
EventsSince(t, since, limit, boundary) ==
    LET window == SubSeq(t, Start(t, since, boundary) + 1, Len(t)) IN
    IF since # NoEvent THEN SubSeq(window, 1, Smaller(limit, Len(window)))
                       ELSE SubSeq(window, Larger(1, Len(window) + 1 - limit), Len(window))
-----------------------------------------------------------------------------
\* Recording.

Records(kind, topic) ==
    /\ lastId < MaxEvents /\ lastId' = lastId + 1
    /\ timeline' = Append(timeline, [id |-> lastId + 1, kind |-> kind, topic |-> topic])

\* record_session_boundary, and messages the calls have no use for.
OtherEvent ==
    /\ \/ Records("session_boundary", NoTopic) \/ Records("inbound", NoTopic)
    /\ UNCHANGED <<atManager, onItsWay, calls>>

\* A call records its ask; without a forwarder the manager never sees it.
Asks(c, topic) ==
    /\ caller[c] = "none"
    /\ Records("inbound", topic)
    /\ LET e == Last(timeline') IN
       /\ atManager' \in {atManager, atManager \cup {e}}
       /\ ask' = [ask EXCEPT ![c] = e] /\ cursor' = [cursor EXCEPT ![c] = e.id]
    /\ caller' = [caller EXCEPT ![c] = "waiting"]
    /\ UNCHANGED <<onItsWay, got>>

\* The manager posts its answer, once: it is recorded, lost, or recorded late.
Answers(e) ==
    /\ e \in atManager /\ atManager' = atManager \ {e}
    /\ \/ Records("outbound", e.topic) /\ UNCHANGED onItsWay
       \/ UNCHANGED <<timeline, lastId>> /\ onItsWay' \in {onItsWay, onItsWay \cup {e.topic}}
    /\ UNCHANGED calls

AnswerArrivesLate(topic) ==
    /\ topic \in onItsWay /\ onItsWay' = onItsWay \ {topic}
    /\ Records("outbound", topic)
    /\ UNCHANGED <<atManager, calls>>

\* The worker is purged: its next event starts a new timeline.
TimelinePurged ==
    /\ timeline # << >> /\ timeline' = << >>
    /\ UNCHANGED <<lastId, atManager, onItsWay, calls>>

\* The hub restarts: timelines are on disk, waits are not.
WaitsEnd ==
    LET Waits(c) == caller[c] = "waiting" IN
    /\ \E c \in Callers : Waits(c)
    /\ caller' = [c \in Callers |-> IF Waits(c) THEN "gave up" ELSE caller[c]]
    /\ ask' = [c \in Callers |-> IF Waits(c) THEN NoAsk ELSE ask[c]]
    /\ cursor' = [c \in Callers |-> IF Waits(c) THEN NoEvent ELSE cursor[c]]
    /\ UNCHANGED <<timeline, lastId, atManager, onItsWay, got>>
-----------------------------------------------------------------------------
\* Waiting: wait_for_matching_event.

Matches(e, c) == e.kind = "outbound" /\ e.topic = ask[c].topic

\* A poll without an anchor.
PollUnanchored(c) ==
    LET page == EventsSince(timeline, NoEvent, ReadLimit, FALSE)
        hits == {i \in DOMAIN page : Matches(page[i], c)} IN
    /\ caller[c] = "waiting" /\ hits # {}
    /\ \E i \in hits : (\A j \in hits : i <= j) /\ got' = [got EXCEPT ![c] = page[i].id]
    /\ caller' = [caller EXCEPT ![c] = "answered"]
    /\ UNCHANGED <<timeline, lastId, atManager, onItsWay, ask, cursor>>

\* A page is read: the first match is the answer, else the cursor moves on.
Poll(c) ==
    LET page == EventsSince(timeline, cursor[c], ReadLimit, FALSE)
        hits == {i \in DOMAIN page : Matches(page[i], c)} IN
    /\ caller[c] = "waiting" /\ page # << >>
    /\ IF hits = {}
       THEN cursor' = [cursor EXCEPT ![c] = Last(page).id] /\ UNCHANGED <<caller, got>>
       ELSE /\ \E i \in hits :
                  (\A j \in hits : i <= j) /\ got' = [got EXCEPT ![c] = page[i].id]
            /\ caller' = [caller EXCEPT ![c] = "answered"]
            /\ UNCHANGED cursor
    /\ UNCHANGED <<timeline, lastId, atManager, onItsWay, ask>>

\* timeout_s has passed.
GivesUp(c) ==
    /\ caller[c] = "waiting" /\ caller' = [caller EXCEPT ![c] = "gave up"]
    /\ ask' = [ask EXCEPT ![c] = NoAsk] /\ cursor' = [cursor EXCEPT ![c] = NoEvent]
    /\ UNCHANGED <<timeline, lastId, atManager, onItsWay, got>>
-----------------------------------------------------------------------------
ReadersNext ==
    \/ \E c \in Callers : Poll(c) \/ GivesUp(c) \/ \E topic \in Topics : Asks(c, topic)
    \/ \E e \in atManager : Answers(e)
    \/ \E topic \in Topics : AnswerArrivesLate(topic)
    \/ OtherEvent \/ TimelinePurged \/ WaitsEnd

ReadersSpec == ReadersInit /\ [][ReadersNext]_readerVars
-----------------------------------------------------------------------------
\* A call gets the first answer of its kind that was recorded after its ask, and
\* one that waits has passed over none - with pages shorter than the timeline,
\* other callers' answers between, and a purge that takes its cursor away
\* (events_since pages forward from the cursor, wait_for_matching_event moves it).
AnswerIsNext ==
    \A c \in Callers :
        LET Between(hi) == {e \in ToSet(timeline) : Matches(e, c) /\ ask[c].id < e.id /\ e.id < hi}
        IN  /\ caller[c] = "answered" => got[c] > ask[c].id /\ Between(got[c]) = {}
            /\ caller[c] = "waiting" => Between(cursor[c] + 1) = {}

\* A read since the boundary shows nothing a finished session has settled, with
\* or without a cursor; without one it shows the newest of what came after, so
\* that an order that still waits is not hidden by a limit
\* (tm_receive_since_boundary).
BoundaryReadIsNewest ==
    \A limit \in 1..(MaxEvents + 1), since \in {NoEvent} \cup {e.id : e \in ToSet(timeline)} :
        LET read == ToSet(EventsSince(timeline, since, limit, TRUE))
            settled == {i \in DOMAIN timeline :
                          \E j \in DOMAIN timeline : i <= j /\ timeline[j].kind = "session_boundary"}
            unsettled == {timeline[i] : i \in DOMAIN timeline \ settled} IN
        /\ read \subseteq unsettled
        /\ since = NoEvent =>
              /\ Cardinality(read) = Smaller(limit, Cardinality(unsettled))
              /\ \A e \in unsettled \ read, r \in read : e.id < r.id
=============================================================================
