-------------------------- MODULE PermissionFlowProofs --------------------------
(***************************************************************************)
(* No resolution is forgotten, for every number of prompts, sessions,      *)
(* tries, breaks and late posts and every cap of the spool.  The invariant *)
(* follows a request from Claude Code to the hub and back: it is in one    *)
(* place at a time, and its resolution comes behind it.                    *)
(***************************************************************************)
EXTENDS PermissionFlow, SelectionProofs, FiniteSetTheorems, TLAPS

\* The requests of the messages of one kind in a queue.
RidsOf(q, kind) == {q[i].rid : i \in {j \in DOMAIN q : q[j].kind = kind}}

\* The request the handler is at, and the requests of late asks.
InHand(kind) == IF handler # None /\ handler.step = kind THEN {handler.post.rid} ELSE {}
AskedLate == {m.rid : m \in {x \in wire : x.kind = "ask"}}

\* A request is asked once, and its resolution comes behind.
AskedOnceFirst(q) ==
    \A i, j \in DOMAIN q :
        q[i].kind = "ask" /\ q[j].kind \in {"ask", "answer"} /\ q[i].rid = q[j].rid /\ i # j
            => i < j /\ q[j].kind = "answer"

\* A handler posts what its step says.
HandlerMatches ==
    handler # None =>
        /\ handler.step = "ask" => handler.post \in {Ask(r) : r \in RequestIds}
        /\ handler.step = "answer" => handler.post \in {Answer(r, b) : r \in RequestIds, b \in Behaviors}

\* A channel that does not run has nothing in hand.
IdleWhenDead == ~alive => inbox = << >> /\ handler = None

\* A request on its way is in one place: unread, being posted, late, pending, or
\* decided by the hub and on its way back.
InOnePlace ==
    /\ RidsOf(inbox, "ask") \cap (InHand("ask") \cup AskedLate \cup pending \cup Rids(downlink)) = {}
    /\ InHand("ask") \cap (AskedLate \cup pending \cup Rids(downlink)) = {}
    /\ AskedLate \cap (pending \cup Rids(downlink)) = {}
    /\ pending \cap Rids(downlink) = {}

\* A prompt that was not opened is nowhere.
NewIsNowhere ==
    \A r \in RequestIds : prompt[r] = "new" =>
        r \notin RidsOf(inbox, "ask") \cup RidsOf(inbox, "answer") \cup InHand("ask") \cup AskedLate
                     \cup pending \cup Rids(downlink)

\* A prompt that was decided before the hub heard of it has its resolution waiting.
DecidedIsAnswered ==
    \A r \in RequestIds :
        prompt[r] \in Behaviors /\ r \in RidsOf(inbox, "ask") \cup InHand("ask")
            => r \in RidsOf(inbox, "answer")

\* What the invariant says of where requests and resolutions are.
Ways == AskedOnceFirst(inbox) /\ InOnePlace /\ NewIsNowhere /\ DecidedIsAnswered /\ NoResolutionForgotten

FlowInv == TypeOK /\ HandlerMatches /\ IdleWhenDead /\ Ways
-----------------------------------------------------------------------------
\* What an appended message adds to the requests of a kind.
LEMMA RidsOfAppend ==
    ASSUME NEW q \in Seq(Message), NEW m \in Message, NEW kind
    PROVE  /\ RidsOf(Append(q, m), kind) = RidsOf(q, kind) \cup (IF m.kind = kind THEN {m.rid} ELSE {})
           /\ m.kind = kind => RidsOf(Append(q, m), kind) = RidsOf(q, kind) \cup {m.rid}
           /\ m.kind # kind => RidsOf(Append(q, m), kind) = RidsOf(q, kind)
<1>1. /\ DOMAIN Append(q, m) = 1..(Len(q) + 1) /\ DOMAIN q = 1..Len(q) /\ Len(q) \in Nat
      /\ Append(q, m)[Len(q) + 1] = m
      /\ \A i \in DOMAIN q : Append(q, m)[i] = q[i]
    OBVIOUS
<1>2. ASSUME NEW r \in RidsOf(Append(q, m), kind)
      PROVE  r \in RidsOf(q, kind) \cup (IF m.kind = kind THEN {m.rid} ELSE {})
    <2>1. PICK i \in DOMAIN Append(q, m) : Append(q, m)[i].kind = kind /\ r = Append(q, m)[i].rid
        BY DEF RidsOf
    <2>2. i \in DOMAIN q \/ i = Len(q) + 1
        BY <1>1
    <2> QED BY <1>1, <2>1, <2>2 DEF RidsOf
<1>3. ASSUME NEW r \in RidsOf(q, kind)
      PROVE  r \in RidsOf(Append(q, m), kind)
    <2>1. PICK i \in DOMAIN q : q[i].kind = kind /\ r = q[i].rid
        BY DEF RidsOf
    <2>2. i \in DOMAIN Append(q, m) /\ Append(q, m)[i] = q[i]
        BY <1>1
    <2> QED BY <2>1, <2>2 DEF RidsOf
<1>4. ASSUME m.kind = kind
      PROVE  m.rid \in RidsOf(Append(q, m), kind)
    <2>1. Len(q) + 1 \in DOMAIN Append(q, m)
        BY <1>1
    <2> QED BY <1>1, <1>4, <2>1 DEF RidsOf
<1> QED BY <1>2, <1>3, <1>4

\* What the first message of a queue holds of them.
LEMMA RidsOfTail ==
    ASSUME NEW q \in Seq(Message), q # << >>, NEW kind
    PROVE  RidsOf(q, kind) = RidsOf(Tail(q), kind)
                                 \cup (IF Head(q).kind = kind THEN {Head(q).rid} ELSE {})
<1>1. /\ DOMAIN q = 1..Len(q) /\ DOMAIN Tail(q) = 1..(Len(q) - 1) /\ Len(q) \in Nat \ {0}
      /\ Head(q) = q[1]
      /\ \A i \in DOMAIN Tail(q) : Tail(q)[i] = q[i + 1]
    OBVIOUS
<1>2. ASSUME NEW r \in RidsOf(q, kind)
      PROVE  r \in RidsOf(Tail(q), kind) \cup (IF Head(q).kind = kind THEN {Head(q).rid} ELSE {})
    <2>1. PICK i \in DOMAIN q : q[i].kind = kind /\ r = q[i].rid
        BY DEF RidsOf
    <2>2. CASE i = 1
        BY <1>1, <2>1, <2>2
    <2>3. CASE i # 1
        <3>1. i - 1 \in DOMAIN Tail(q) /\ Tail(q)[i - 1] = q[i]
            BY <1>1, <2>3
        <3> QED BY <2>1, <3>1 DEF RidsOf
    <2> QED BY <2>2, <2>3
<1>3. ASSUME NEW r \in RidsOf(Tail(q), kind)
      PROVE  r \in RidsOf(q, kind)
    <2>1. PICK i \in DOMAIN Tail(q) : Tail(q)[i].kind = kind /\ r = Tail(q)[i].rid
        BY DEF RidsOf
    <2>2. i + 1 \in DOMAIN q /\ Tail(q)[i] = q[i + 1]
        BY <1>1
    <2> QED BY <2>1, <2>2 DEF RidsOf
<1>4. ASSUME Head(q).kind = kind
      PROVE  Head(q).rid \in RidsOf(q, kind)
    <2>1. 1 \in DOMAIN q
        BY <1>1
    <2> QED BY <1>1, <1>4, <2>1 DEF RidsOf
<1> QED BY <1>2, <1>3, <1>4

\* The same of a queue of resolutions.
LEMMA RidsAppend ==
    ASSUME NEW q \in Seq(Resolution), NEW d \in Resolution
    PROVE  Rids(Append(q, d)) = Rids(q) \cup {d.rid}
<1>1. /\ DOMAIN Append(q, d) = 1..(Len(q) + 1) /\ DOMAIN q = 1..Len(q) /\ Len(q) \in Nat
      /\ Append(q, d)[Len(q) + 1] = d
      /\ \A i \in DOMAIN q : Append(q, d)[i] = q[i]
    OBVIOUS
<1>2. DOMAIN Append(q, d) = DOMAIN q \cup {Len(q) + 1}
    BY <1>1
<1> QED BY <1>1, <1>2 DEF Rids

\* The first of a queue of resolutions and the others.
LEMMA RidsTail ==
    ASSUME NEW q \in Seq(Resolution), q # << >>
    PROVE  Rids(q) = Rids(Tail(q)) \cup {Head(q).rid}
<1>1. /\ DOMAIN q = 1..Len(q) /\ DOMAIN Tail(q) = 1..(Len(q) - 1) /\ Len(q) \in Nat \ {0}
      /\ Head(q) = q[1]
      /\ \A i \in DOMAIN Tail(q) : Tail(q)[i] = q[i + 1]
    OBVIOUS
<1>2. \A i \in DOMAIN q : i # 1 => i - 1 \in DOMAIN Tail(q) /\ Tail(q)[i - 1] = q[i]
    BY <1>1
<1>3. \A i \in DOMAIN Tail(q) : i + 1 \in DOMAIN q
    BY <1>1
<1>4. 1 \in DOMAIN q
    BY <1>1
<1> QED BY <1>1, <1>2, <1>3, <1>4 DEF Rids

\* An ask of a request not in the queue, or any other message, keeps the order.
LEMMA AskedOnceAppend ==
    ASSUME NEW q \in Seq(Message), NEW m \in Message, AskedOnceFirst(q),
           m.kind = "ask" => m.rid \notin RidsOf(q, "ask") \cup RidsOf(q, "answer")
    PROVE  AskedOnceFirst(Append(q, m))
<1> DEFINE a == Append(q, m)
<1>1. /\ DOMAIN a = 1..(Len(q) + 1) /\ DOMAIN q = 1..Len(q) /\ Len(q) \in Nat
      /\ a[Len(q) + 1] = m
      /\ \A i \in DOMAIN q : a[i] = q[i]
    OBVIOUS
<1>2. SUFFICES ASSUME NEW i \in DOMAIN a, NEW j \in DOMAIN a, a[i].kind = "ask",
                      a[j].kind \in {"ask", "answer"}, a[i].rid = a[j].rid, i # j
               PROVE  i < j /\ a[j].kind = "answer"
    BY DEF AskedOnceFirst
<1> HIDE DEF a
<1>3. CASE i \in DOMAIN q /\ j \in DOMAIN q
    BY <1>1, <1>2, <1>3 DEF AskedOnceFirst
<1>4. CASE i \in DOMAIN q /\ j = Len(q) + 1
    <2>1. q[i].rid \in RidsOf(q, "ask")
        BY <1>1, <1>2, <1>4 DEF RidsOf
    <2>2. m.kind # "ask"
        BY <1>1, <1>2, <1>4, <2>1
    <2> QED BY <1>1, <1>2, <1>4, <2>2
<1>5. CASE i = Len(q) + 1
    <2>1. j \in DOMAIN q
        BY <1>1, <1>2, <1>5
    <2>2. q[j].rid \in RidsOf(q, "ask") \cup RidsOf(q, "answer")
        BY <1>1, <1>2, <2>1 DEF RidsOf
    <2> QED BY <1>1, <1>2, <1>5, <2>1, <2>2
<1> QED BY <1>1, <1>3, <1>4, <1>5

\* So does taking the first, behind which its request is not asked for.
LEMMA AskedOnceTail ==
    ASSUME NEW q \in Seq(Message), q # << >>, AskedOnceFirst(q)
    PROVE  /\ AskedOnceFirst(Tail(q))
           /\ Head(q).kind \in {"ask", "answer"} => Head(q).rid \notin RidsOf(Tail(q), "ask")
<1>1. /\ DOMAIN q = 1..Len(q) /\ DOMAIN Tail(q) = 1..(Len(q) - 1) /\ Len(q) \in Nat \ {0}
      /\ Head(q) = q[1]
      /\ \A i \in DOMAIN Tail(q) : Tail(q)[i] = q[i + 1]
    OBVIOUS
<1>2. \A i \in DOMAIN Tail(q) : i + 1 \in DOMAIN q /\ i + 1 # 1 /\ ~(i + 1 < 1) /\ i \in Int
    BY <1>1
<1>3. AskedOnceFirst(Tail(q))
    <2>1. SUFFICES ASSUME NEW i \in DOMAIN Tail(q), NEW j \in DOMAIN Tail(q),
                          Tail(q)[i].kind = "ask", Tail(q)[j].kind \in {"ask", "answer"},
                          Tail(q)[i].rid = Tail(q)[j].rid, i # j
                   PROVE  i < j /\ Tail(q)[j].kind = "answer"
        BY DEF AskedOnceFirst
    <2>2. i + 1 # j + 1 /\ (i + 1 < j + 1 => i < j)
        BY <1>2, <2>1
    <2> QED BY <1>1, <1>2, <2>1, <2>2 DEF AskedOnceFirst
<1>4. ASSUME Head(q).kind \in {"ask", "answer"}, Head(q).rid \in RidsOf(Tail(q), "ask")
      PROVE  FALSE
    <2>1. PICK i \in DOMAIN Tail(q) : Tail(q)[i].kind = "ask" /\ Head(q).rid = Tail(q)[i].rid
        BY <1>4 DEF RidsOf
    <2>2. 1 \in DOMAIN q
        BY <1>1
    <2>3. i + 1 < 1
        BY <1>1, <1>2, <1>4, <2>1, <2>2 DEF AskedOnceFirst
    <2> QED BY <1>2, <2>3
<1> QED BY <1>3, <1>4
-----------------------------------------------------------------------------
\* The messages, told apart by their kinds.
LEMMA MessageShapes ==
    /\ Register \in Message
    /\ \A r \in RequestIds : Ask(r) \in Message
    /\ \A r \in RequestIds, b \in Behaviors : Answer(r, b) \in Message
    /\ \A m \in Message :
          /\ m.kind \in {"register", "ask", "answer"}
          /\ m.kind = "ask" => m.rid \in RequestIds /\ m = Ask(m.rid)
          /\ m.kind = "answer" => /\ m.rid \in RequestIds /\ m.behavior \in Behaviors
                                  /\ m = Answer(m.rid, m.behavior)
BY DEF Message, Register, Ask, Answer

\* A new handler is one.
LEMMA HandlingTyped ==
    ASSUME NEW m \in Message, NEW step \in {"register", "drain", "ask", "answer"}
    PROVE  /\ Handling(step, m) \in Handler /\ Handling(step, m) # None
           /\ Handling(step, m).step = step /\ Handling(step, m).post = m
<1>1. 0 \in 0..(MaxRetries - 1)
    BY FlowAssumption
<1> QED BY <1>1, NoneIsNoHandler DEF Handling, Handler

\* What a resolution is made of.
LEMMA ResolutionShapes ==
    ASSUME NEW d \in Resolution
    PROVE  /\ d.rid \in RequestIds /\ d.behavior \in Behaviors
           /\ Answer(d.rid, d.behavior) \in Message
           /\ Answer(d.rid, d.behavior).kind = "answer" /\ Answer(d.rid, d.behavior).rid = d.rid
<1>1. d.rid \in RequestIds /\ d.behavior \in Behaviors
    BY DEF Resolution
<1> QED BY <1>1, MessageShapes DEF Answer

\* What a post does at the hub: an ask lists its request, any other post at most
\* takes some off the list, and what goes down the stream was listed.
LEMMA HandleEffect ==
    ASSUME TypeOK, NEW m \in Message, Handle(m)
    PROVE  /\ pending' \subseteq RequestIds /\ downlink' \in Seq(Resolution)
           /\ m.kind = "ask" => pending' = pending \cup {m.rid} /\ downlink' = downlink
           /\ m.kind # "ask" => /\ pending' \subseteq pending
                                /\ Rids(downlink') \subseteq Rids(downlink) \cup (pending \ pending')
           /\ m.kind = "answer" => m.rid \notin pending'
<1>0. downlink \in Seq(Resolution) /\ pending \subseteq RequestIds
    BY DEF TypeOK
<1>1. CASE m.kind = "register"
    BY <1>0, <1>1 DEF Handle
<1>2. CASE m.kind = "ask"
    BY <1>0, <1>2, MessageShapes DEF Handle
<1>3. CASE m.kind = "answer"
    <2>1. Resolve(m.rid, m.behavior)
        BY <1>3 DEF Handle
    <2>2. m.rid \in RequestIds /\ m.behavior \in Behaviors
        BY <1>3, MessageShapes
    <2>3. [rid |-> m.rid, behavior |-> m.behavior] \in Resolution
        BY <2>2 DEF Resolution
    <2>4. CASE m.rid \in pending /\ listed = "live"
        <3>1. downlink' = Append(downlink, [rid |-> m.rid, behavior |-> m.behavior])
            BY <2>1, <2>4 DEF Resolve
        <3>2. Rids(downlink') = Rids(downlink) \cup {m.rid}
            BY <1>0, <2>3, <3>1, RidsAppend
        <3> QED BY <1>0, <1>3, <2>1, <2>3, <2>4, <3>1, <3>2 DEF Resolve
    <2>5. CASE ~(m.rid \in pending /\ listed = "live")
        BY <1>0, <1>3, <2>1, <2>5 DEF Resolve
    <2> QED BY <2>4, <2>5
<1> QED BY <1>1, <1>2, <1>3, MessageShapes

\* What a post that raises leaves behind.
LEMMA GiveUpEffect ==
    ASSUME TypeOK, NEW m \in Message, GiveUp(m)
    PROVE  /\ pending' = pending /\ downlink' = downlink
           /\ wire' \subseteq Message /\ wire' \subseteq wire \cup {m} /\ late' \in 0..MaxLate
<1>1. CASE UNCHANGED <<wire, late>>
    BY <1>1 DEF GiveUp, TypeOK
<1>2. CASE late < MaxLate /\ late' = late + 1 /\ wire' = wire \cup {m}
    <2>1. late' \in 0..MaxLate
        BY <1>2, FlowAssumption DEF TypeOK
    <2> QED BY <1>2, <2>1 DEF GiveUp, TypeOK
<1> QED BY <1>1, <1>2 DEF GiveUp
-----------------------------------------------------------------------------
\* Types, in two parts: the channel with Claude Code, and the hub with the wire.
ChannelTypes ==
    /\ session \in 0..MaxSessions /\ alive \in BOOLEAN
    /\ prompt \in [RequestIds -> Behaviors \cup {"new", "open", "gone"}]
    /\ inbox \in Seq(Message)
    /\ handler \in Handler \cup {None}
    /\ spool \in Seq(Resolution) /\ Len(spool) <= SpoolCap + stuck
    /\ {passed, condemned} \subseteq Nat /\ stuck \in 0..MaxStuck
    /\ delivered \in BOOLEAN
    /\ HandlerMatches
HubTypes ==
    /\ link \in {"off", "down", "registered", "up"}
    /\ downlink \in Seq(Resolution)
    /\ listed \in {"none", "live", "broken"} /\ evicted \in BOOLEAN
    /\ pending \subseteq RequestIds /\ leaked \subseteq RequestIds
    /\ wire \subseteq Message
    /\ late \in 0..MaxLate /\ breaks \in 0..MaxBreaks

\* The parts are the whole.
LEMMA TypesSplit == TypeOK /\ HandlerMatches <=> ChannelTypes /\ HubTypes
BY DEF TypeOK, ChannelTypes, HubTypes

\* How many of the first k are left without some.
LEMMA LeftOfFirst ==
    ASSUME NEW k \in Nat, NEW gone
    PROVE  Cardinality((1..k) \ gone) \in Nat /\ Cardinality((1..k) \ gone) <= k
<1>1. IsFiniteSet(1..k) /\ Cardinality(1..k) = k
    BY FS_Interval
<1>2. (1..k) \ gone \in SUBSET (1..k)
    OBVIOUS
<1> QED BY <1>1, <1>2, FS_Subset, FS_CardinalityType

\* And without one.
LEMMA LeftOfFirstOne ==
    ASSUME NEW k \in Nat, NEW i \in Nat
    PROVE  Cardinality((1..k) \ {i}) = IF i \in 1..k THEN k - 1 ELSE k
<1>1. IsFiniteSet(1..k) /\ Cardinality(1..k) = k
    BY FS_Interval
<1> QED BY <1>1, FS_RemoveElement

\* What is left of the spool when some files go: a spool with the others.
LEMMA RemainingTyped ==
    ASSUME spool \in Seq(Resolution), NEW gone \in SUBSET DOMAIN spool
    PROVE  /\ Remaining(gone) \in Seq(Resolution)
           /\ Cardinality(gone) \in Nat /\ IsFiniteSet(gone)
           /\ Len(Remaining(gone)) = Len(spool) - Cardinality(gone)
           /\ Rids(Remaining(gone)) \subseteq Rids(spool)
           /\ \A i \in DOMAIN spool \ gone : spool[i].rid \in Rids(Remaining(gone))
<1> DEFINE left == DOMAIN spool \ gone
<1>1. DOMAIN spool = 1..Len(spool) /\ Len(spool) \in Nat
    OBVIOUS
<1>2. IsFiniteSet(DOMAIN spool) /\ Cardinality(DOMAIN spool) = Len(spool)
    <2>1. 1 \in Int /\ Len(spool) \in Int
        BY <1>1
    <2>2. /\ IsFiniteSet(1..Len(spool))
          /\ Cardinality(1..Len(spool)) = IF 1 > Len(spool) THEN 0 ELSE Len(spool) - 1 + 1
        BY <2>1, FS_Interval
    <2> QED BY <1>1, <2>2
<1>3. IsFiniteSet(gone) /\ Cardinality(gone) \in Nat
    BY <1>2, FS_Subset, FS_CardinalityType
<1>4. DOMAIN spool \cap gone = gone
    OBVIOUS
<1>5. Cardinality(left) = Len(spool) - Cardinality(gone)
    <2>1. Cardinality(DOMAIN spool \ gone)
              = Cardinality(DOMAIN spool) - Cardinality(DOMAIN spool \cap gone)
        BY <1>2, FS_Difference
    <2> QED BY <1>2, <1>4, <2>1
<1>8. left \in SUBSET DOMAIN spool
    OBVIOUS
<1> HIDE DEF left
<1>6. /\ Kept(spool, left) \in Seq(Resolution) /\ Len(Kept(spool, left)) = Cardinality(left)
      /\ DOMAIN Kept(spool, left) = 1..Cardinality(left)
      /\ \A k \in 1..Cardinality(left) : /\ Nth(k, left) \in left
                                        /\ Kept(spool, left)[k] = spool[Nth(k, left)]
      /\ \A i \in left : \E k \in 1..Cardinality(left) : Nth(k, left) = i
    BY <1>8, KeptIsSubsequence
<1>7. Remaining(gone) = Kept(spool, left)
    BY DEF Remaining, left
<1>9. Rids(Kept(spool, left)) \subseteq Rids(spool)
    <2>1. \A k \in DOMAIN Kept(spool, left) : \E i \in DOMAIN spool : Kept(spool, left)[k] = spool[i]
        BY <1>6, <1>8
    <2> QED BY <2>1 DEF Rids
<1>10. \A i \in left : \E k \in DOMAIN Kept(spool, left) : Kept(spool, left)[k] = spool[i]
    BY <1>6
<1>11. \A i \in left : spool[i].rid \in Rids(Kept(spool, left))
    BY <1>10 DEF Rids
<1> QED BY <1>3, <1>5, <1>6, <1>7, <1>9, <1>11 DEF left

\* One file gone: its request is the only one that may go with it.
LEMMA OneGone ==
    ASSUME spool \in Seq(Resolution), NEW i \in DOMAIN spool
    PROVE  /\ Remaining({i}) \in Seq(Resolution) /\ Len(Remaining({i})) = Len(spool) - 1
           /\ Rids(Remaining({i})) \subseteq Rids(spool)
           /\ Rids(spool) \subseteq Rids(Remaining({i})) \cup {spool[i].rid}
<1>1. {i} \in SUBSET DOMAIN spool /\ Cardinality({i}) = 1
    BY FS_Singleton
<1>2. /\ Remaining({i}) \in Seq(Resolution) /\ Len(Remaining({i})) = Len(spool) - 1
      /\ Rids(Remaining({i})) \subseteq Rids(spool)
      /\ \A j \in DOMAIN spool \ {i} : spool[j].rid \in Rids(Remaining({i}))
    BY <1>1, RemainingTyped
<1>3. ASSUME NEW r \in Rids(spool)
      PROVE  r \in Rids(Remaining({i})) \cup {spool[i].rid}
    <2>1. PICK j \in DOMAIN spool : r = spool[j].rid
        BY DEF Rids
    <2> QED BY <1>2, <2>1
<1> QED BY <1>2, <1>3

\* The victims of a write are files, as many as the cap asks for.
LEMMA VictimsTyped ==
    ASSUME TypeOK, NEW gone \in SUBSET Victims
    PROVE  /\ gone \subseteq DOMAIN spool
           /\ Cardinality(gone) \in Nat /\ Cardinality(Victims \ gone) \in Nat
           /\ Len(spool) - Cardinality(gone) + 1 <= SpoolCap + stuck + Cardinality(Victims \ gone)
<1>1. /\ spool \in Seq(Resolution) /\ Len(spool) \in Nat /\ Len(spool) <= SpoolCap + stuck
      /\ SpoolCap \in Nat \ {0} /\ stuck \in Nat
    BY FlowAssumption DEF TypeOK
<1> DEFINE n == Len(spool) + 1 - SpoolCap
<1>2. Victims = 1..n /\ n \in Int
    BY <1>1 DEF Victims
<1>3. Victims \subseteq DOMAIN spool
    BY <1>1, <1>2
<1>4. IsFiniteSet(Victims) /\ Cardinality(Victims) = IF 1 > n THEN 0 ELSE n
    BY <1>2, FS_Interval
<1>5. IsFiniteSet(gone) /\ Cardinality(gone) \in Nat
    BY <1>4, FS_Subset, FS_CardinalityType
<1>6. Victims \cap gone = gone
    OBVIOUS
<1>7. /\ Cardinality(Victims \ gone) = Cardinality(Victims) - Cardinality(gone)
      /\ IsFiniteSet(Victims \ gone)
    <2>1. /\ Cardinality(Victims \ gone) = Cardinality(Victims) - Cardinality(Victims \cap gone)
          /\ IsFiniteSet(Victims \ gone)
        BY <1>4, FS_Difference
    <2> QED BY <1>6, <2>1
<1>8. Cardinality(Victims \ gone) \in Nat
    BY <1>7, FS_CardinalityType
<1> DEFINE a == Cardinality(gone)
           b == Cardinality(Victims \ gone)
           v == Cardinality(Victims)
<1>9. /\ a \in Nat /\ b \in Nat /\ v \in Int /\ n \in Int
      /\ b = v - a /\ (1 > n => v = 0) /\ (n >= 1 => v = n)
    BY <1>2, <1>4, <1>5, <1>7, <1>8
<1> DEFINE c == SpoolCap
           k == stuck
           l == Len(spool)
<1>10. n = l + 1 - c /\ l \in Nat /\ c \in Nat /\ k \in Nat /\ l <= c + k
    BY <1>1
<1> HIDE DEF n, a, b, v, c, k, l
<1>11. l - a + 1 <= c + k + b
    BY <1>9, <1>10, SMT
<1> QED BY <1>3, <1>9, <1>11 DEF a, b, c, k, l

\* A written spool has the new resolution, and its length keeps to the cap.
LEMMA WrittenTyped ==
    ASSUME TypeOK, NEW gone \in SUBSET Victims, NEW r \in RequestIds, NEW b \in Behaviors
    PROVE  /\ Written(gone, r, b) \in Seq(Resolution)
           /\ Len(Written(gone, r, b)) <= SpoolCap + stuck + Cardinality(Victims \ gone)
           /\ Rids(Written(gone, r, b)) = Rids(Remaining(gone)) \cup {r}
<1> DEFINE e == [rid |-> r, behavior |-> b]
<1>1. e \in Resolution /\ e.rid = r
    BY DEF Resolution
<1>2. Written(gone, r, b) = Append(Remaining(gone), e)
    BY DEF Written
<1> HIDE DEF e
<1>3. spool \in Seq(Resolution) /\ gone \in SUBSET DOMAIN spool
    BY VictimsTyped DEF TypeOK
<1>4. /\ Remaining(gone) \in Seq(Resolution) /\ Cardinality(gone) \in Nat
      /\ Len(Remaining(gone)) = Len(spool) - Cardinality(gone)
    BY <1>3, RemainingTyped
<1>5. Rids(Append(Remaining(gone), e)) = Rids(Remaining(gone)) \cup {e.rid}
    BY <1>1, <1>4, RidsAppend
<1>6. /\ Append(Remaining(gone), e) \in Seq(Resolution)
      /\ Len(Append(Remaining(gone), e)) = Len(spool) - Cardinality(gone) + 1
    BY <1>1, <1>4
<1>7. Len(spool) - Cardinality(gone) + 1 <= SpoolCap + stuck + Cardinality(Victims \ gone)
    BY VictimsTyped
<1> QED BY <1>1, <1>2, <1>5, <1>6, <1>7

\* The file a drain is at is a resolution.
LEMMA DrainedTyped ==
    ASSUME TypeOK, passed < Len(spool)
    PROVE  /\ passed + 1 \in DOMAIN spool /\ DrainedNext \in Message
           /\ DrainedNext.kind = "answer" /\ DrainedNext.rid = spool[passed + 1].rid
<1>1. spool \in Seq(Resolution) /\ passed \in Nat /\ Len(spool) \in Nat
    BY DEF TypeOK
<1>2. passed + 1 \in DOMAIN spool
    BY <1>1
<1>3. spool[passed + 1] \in Resolution
    BY <1>1, <1>2
<1> QED BY <1>2, <1>3, ResolutionShapes DEF DrainedNext

\* One file unlinked, or none: the files keep their types.
LEMMA UnlinkedTyped ==
    ASSUME TypeOK, NEW i \in DOMAIN spool, (Unlinked({i}) /\ UNCHANGED stuck) \/ StaysBehind
    PROVE  /\ spool' \in Seq(Resolution) /\ Len(spool') <= SpoolCap + stuck'
           /\ {passed, condemned}' \subseteq Nat /\ stuck' \in 0..MaxStuck
           /\ Rids(spool') \subseteq Rids(spool)
           /\ Rids(spool) \subseteq Rids(spool') \cup {spool[i].rid}
<1>1. /\ spool \in Seq(Resolution) /\ Len(spool) \in Nat /\ Len(spool) <= SpoolCap + stuck
      /\ SpoolCap \in Nat \ {0} /\ stuck \in 0..MaxStuck /\ MaxStuck \in Nat
      /\ passed \in Nat /\ condemned \in Nat
    BY FlowAssumption DEF TypeOK
<1>2. CASE Unlinked({i}) /\ UNCHANGED stuck
    <2>1. passed' \in Nat /\ condemned' \in Nat
        BY <1>1, <1>2, LeftOfFirst DEF Unlinked
    <2>2. spool' = Remaining({i})
        BY <1>2 DEF Unlinked
    <2>3. /\ spool' \in Seq(Resolution) /\ Len(spool') = Len(spool) - 1
          /\ Rids(spool') \subseteq Rids(spool)
          /\ Rids(spool) \subseteq Rids(spool') \cup {spool[i].rid}
        BY <1>1, <2>2, OneGone
    <2> QED BY <1>1, <1>2, <2>1, <2>3
<1>3. CASE StaysBehind
    BY <1>1, <1>3 DEF StaysBehind
<1> QED BY <1>2, <1>3

\* Every step keeps the types of the channel and of Claude Code.
LEMMA ChannelTypesKept ==
    ASSUME TypeOK, HandlerMatches, [Next]_vars
    PROVE  ChannelTypes'
<1> USE DEF claude, hub, bounds, files
<1>0. ChannelTypes /\ HubTypes
    BY TypesSplit
<1>1. CASE StartSession
    <2>1. session' \in 0..MaxSessions
        BY <1>0, <1>1, FlowAssumption DEF StartSession, ChannelTypes
    <2>2. inbox' \in Seq(Message)
        BY <1>1, MessageShapes DEF StartSession
    <2>3. alive' \in BOOLEAN /\ delivered' \in BOOLEAN
        BY <1>1 DEF StartSession
    <2> QED BY <1>0, <1>1, <2>1, <2>2, <2>3 DEF StartSession, ChannelTypes, HandlerMatches
<1>2. CASE Killed \/ Exits
    <2>1. alive' \in BOOLEAN /\ delivered' \in BOOLEAN
        BY <1>0, <1>2 DEF Killed, Exits, Stops, ChannelTypes
    <2>2. prompt' \in [RequestIds -> Behaviors \cup {"new", "open", "gone"}]
        BY <1>0, <1>2 DEF Killed, Exits, Stops, ChannelTypes
    <2>3. /\ inbox' = << >> /\ handler' = None /\ session' = session /\ passed' = 0
          /\ UNCHANGED <<spool, condemned, stuck>>
        BY <1>2 DEF Killed, Exits, Stops
    <2>4. inbox' \in Seq(Message)
        BY <2>3
    <2> QED BY <1>0, <2>1, <2>2, <2>3, <2>4 DEF ChannelTypes, HandlerMatches
<1>3. CASE \E r \in RequestIds : OpenPrompt(r)
    <2>1. PICK r \in RequestIds : OpenPrompt(r)
        BY <1>3
    <2>2. inbox' \in Seq(Message)
        BY <1>0, <2>1, MessageShapes DEF OpenPrompt, ChannelTypes
    <2>3. prompt' \in [RequestIds -> Behaviors \cup {"new", "open", "gone"}]
        BY <1>0, <2>1 DEF OpenPrompt, ChannelTypes
    <2> QED BY <1>0, <2>1, <2>2, <2>3 DEF OpenPrompt, ChannelTypes, HandlerMatches
<1>4. CASE \E r \in RequestIds, b \in Behaviors : DecideAtTerminal(r, b)
    <2>1. PICK r \in RequestIds, b \in Behaviors : DecideAtTerminal(r, b)
        BY <1>4
    <2>2. inbox' \in Seq(Message)
        BY <1>0, <2>1, MessageShapes DEF DecideAtTerminal, ChannelTypes
    <2>3. prompt' \in [RequestIds -> Behaviors \cup {"new", "open", "gone"}]
        BY <1>0, <2>1 DEF DecideAtTerminal, ChannelTypes
    <2> QED BY <1>0, <2>1, <2>2, <2>3 DEF DecideAtTerminal, ChannelTypes, HandlerMatches
<1>5. CASE Dispatch
    <2>1. Head(inbox) \in Message /\ Tail(inbox) \in Seq(Message)
        BY <1>0, <1>5 DEF Dispatch, ChannelTypes
    <2>2. Head(inbox).kind \in {"register", "drain", "ask", "answer"}
        BY <2>1, MessageShapes
    <2>3. /\ handler' \in Handler /\ handler'.step = Head(inbox).kind
          /\ handler'.post = Head(inbox)
        BY <1>5, <2>1, <2>2, HandlingTyped DEF Dispatch
    <2>4. HandlerMatches'
        BY <2>1, <2>3, MessageShapes DEF HandlerMatches
    <2> QED BY <1>0, <1>5, <2>1, <2>3, <2>4 DEF Dispatch, ChannelTypes
<1>6. CASE RegisterAtInit
    <2>1. handler' = [handler EXCEPT !.step = "drain"] /\ handler \in Handler
        BY <1>0, <1>6 DEF RegisterAtInit, ChannelTypes
    <2>2. handler' \in Handler /\ handler'.step = "drain"
        BY <2>1 DEF Handler
    <2>3. HandlerMatches'
        BY <2>2 DEF HandlerMatches
    <2> QED BY <1>0, <1>6, <2>2, <2>3 DEF RegisterAtInit, ChannelTypes
<1>7. CASE DrainOne \/ DrainUnreadable
    <2>1. passed + 1 \in DOMAIN spool
        BY <1>7, DrainedTyped DEF DrainOne, DrainUnreadable
    <2>2. \/ (Unlinked({passed + 1}) /\ UNCHANGED stuck) \/ StaysBehind
          \/ passed' = 0 /\ UNCHANGED <<spool, condemned, stuck>>
        BY <1>7 DEF DrainOne, DrainUnreadable, DrainReturns
    <2>3. /\ spool' \in Seq(Resolution) /\ Len(spool') <= SpoolCap + stuck'
          /\ {passed, condemned}' \subseteq Nat /\ stuck' \in 0..MaxStuck
        <3>1. CASE (Unlinked({passed + 1}) /\ UNCHANGED stuck) \/ StaysBehind
            BY <2>1, <3>1, UnlinkedTyped
        <3>2. CASE passed' = 0 /\ UNCHANGED <<spool, condemned, stuck>>
            BY <1>0, <3>2 DEF ChannelTypes
        <3> QED BY <2>2, <3>1, <3>2
    <2>4. delivered' \in BOOLEAN /\ (handler' = handler \/ handler' = None)
        BY <1>0, <1>7 DEF DrainOne, DrainUnreadable, DrainReturns, ChannelTypes
    <2>5. handler' \in Handler \cup {None} /\ HandlerMatches'
        BY <1>0, <2>4 DEF ChannelTypes, HandlerMatches
    <2>6. UNCHANGED <<session, alive, prompt, inbox>>
        BY <1>7 DEF DrainOne, DrainUnreadable
    <2> QED BY <1>0, <2>3, <2>4, <2>5, <2>6 DEF ChannelTypes
<1>8. CASE DrainEnds
    <2>1. /\ handler' = None /\ passed' = 0
          /\ UNCHANGED <<session, alive, prompt, inbox, spool, condemned, stuck, delivered>>
        BY <1>8 DEF DrainEnds, DrainReturns
    <2> QED BY <1>0, <2>1 DEF ChannelTypes, HandlerMatches
<1>9. CASE PostAsk
    <2>1. PICK r \in RequestIds : handler.post = Ask(r)
        BY <1>0, <1>9 DEF PostAsk, ChannelTypes, HandlerMatches
    <2>2. handler' \in {None, Handling("answer", Answer(r, "allow"))}
        BY <1>9, <2>1 DEF PostAsk, Ask
    <2>3. Answer(r, "allow") \in Message /\ "allow" \in Behaviors
        BY FlowAssumption, MessageShapes
    <2>4. handler' \in Handler \cup {None} /\ HandlerMatches'
        BY <2>2, <2>3, HandlingTyped DEF HandlerMatches
    <2>5. UNCHANGED <<session, alive, prompt, inbox, files, delivered>>
        BY <1>9 DEF PostAsk
    <2> QED BY <1>0, <2>4, <2>5 DEF ChannelTypes
<1>10. CASE PostAnswer
    <2>1. handler \in Handler /\ handler.step = "answer"
        BY <1>0, <1>10 DEF PostAnswer, ChannelTypes
    <2>2. CASE handler' = None
        <3>1. HandlerMatches'
            BY <2>2 DEF HandlerMatches
        <3>2. delivered' \in BOOLEAN
            BY <1>0, <1>10 DEF PostAnswer, ChannelTypes
        <3> QED BY <1>0, <1>10, <2>2, <3>1, <3>2 DEF PostAnswer, ChannelTypes
    <2>3. CASE handler.tries + 1 < MaxRetries /\ handler' = [handler EXCEPT !.tries = @ + 1]
                   /\ UNCHANGED delivered
        <3>1. handler.tries + 1 \in 0..(MaxRetries - 1)
            BY <2>1, <2>3, FlowAssumption DEF Handler
        <3>2. /\ handler' \in Handler /\ handler'.step = handler.step
              /\ handler'.post = handler.post
            BY <2>1, <2>3, <3>1 DEF Handler
        <3>3. handler # None
            BY <1>10 DEF PostAnswer
        <3>4. HandlerMatches'
            BY <1>0, <3>2, <3>3 DEF HandlerMatches, ChannelTypes
        <3> QED BY <1>0, <1>10, <2>3, <3>2, <3>4 DEF PostAnswer, ChannelTypes
    <2> QED BY <1>10, <2>2, <2>3 DEF PostAnswer
<1>11. CASE SpoolAnswer
    <2>1. handler.post.rid \in RequestIds /\ handler.post.behavior \in Behaviors
        BY <1>0, <1>11 DEF SpoolAnswer, ChannelTypes, HandlerMatches, Answer
    <2>2. PICK gone \in SUBSET Victims :
              /\ condemned' = Cardinality((1..condemned) \ gone) /\ UNCHANGED passed
              /\ \/ /\ stuck' = stuck + Cardinality(Victims \ gone) /\ stuck' <= MaxStuck
                    /\ spool' = Written(gone, handler.post.rid, handler.post.behavior)
                 \/ spool' = Remaining(gone) /\ UNCHANGED stuck
        BY <1>11 DEF SpoolAnswer
    <2>3. {passed, condemned}' \subseteq Nat
        BY <1>0, <2>2, LeftOfFirst DEF ChannelTypes
    <2>4. /\ gone \in SUBSET DOMAIN spool /\ Cardinality(gone) \in Nat
          /\ Cardinality(Victims \ gone) \in Nat
        BY VictimsTyped
    <2>5. spool' \in Seq(Resolution) /\ Len(spool') <= SpoolCap + stuck' /\ stuck' \in 0..MaxStuck
        <3>0. /\ stuck \in 0..MaxStuck /\ MaxStuck \in Nat /\ SpoolCap \in Nat
              /\ Len(spool) <= SpoolCap + stuck /\ Len(spool) \in Nat /\ spool \in Seq(Resolution)
            BY <1>0, FlowAssumption DEF ChannelTypes
        <3>1. CASE /\ stuck' = stuck + Cardinality(Victims \ gone) /\ stuck' <= MaxStuck
                   /\ spool' = Written(gone, handler.post.rid, handler.post.behavior)
            <4>1. /\ spool' \in Seq(Resolution)
                  /\ Len(spool') <= SpoolCap + stuck + Cardinality(Victims \ gone)
                BY <2>1, <3>1, WrittenTyped
            <4> QED BY <2>4, <3>0, <3>1, <4>1
        <3>2. CASE spool' = Remaining(gone) /\ UNCHANGED stuck
            <4>1. spool' \in Seq(Resolution) /\ Len(spool') = Len(spool) - Cardinality(gone)
                BY <2>4, <3>0, <3>2, RemainingTyped
            <4> QED BY <2>4, <3>0, <3>2, <4>1
        <3> QED BY <2>2, <3>1, <3>2
    <2>6. handler' = None /\ delivered' \in BOOLEAN /\ UNCHANGED <<session, alive, prompt, inbox>>
        BY <1>11 DEF SpoolAnswer
    <2> QED BY <1>0, <2>3, <2>5, <2>6 DEF ChannelTypes, HandlerMatches
<1>12. CASE DeliverDecision
    <2>0. Head(downlink) \in Resolution
        BY <1>0, <1>12 DEF DeliverDecision, HubTypes
    <2>1. Head(downlink).rid \in RequestIds /\ Head(downlink).behavior \in Behaviors
        BY <2>0, ResolutionShapes
    <2>2. prompt' \in [RequestIds -> Behaviors \cup {"new", "open", "gone"}]
        BY <1>0, <1>12, <2>1 DEF DeliverDecision, ChannelTypes
    <2>3. UNCHANGED <<session, alive, inbox, handler, files, delivered>>
        BY <1>12 DEF DeliverDecision
    <2> QED BY <1>0, <2>2, <2>3 DEF ChannelTypes, HandlerMatches
<1>13. CASE UNCHANGED <<session, alive, prompt, inbox, handler, files, delivered>>
    BY <1>0, <1>13 DEF ChannelTypes, HandlerMatches
<1>14. (\/ \E m \in Message : ApplyLate(m)
        \/ \E r \in RequestIds, b \in Behaviors : DecideAtHub(r, b)
        \/ Sweep \/ GeneratorEnds \/ HubRestarts \/ PumpRegisters \/ PumpConnects \/ StreamBreaks
        \/ UNCHANGED vars)
            => UNCHANGED <<session, alive, prompt, inbox, handler, files, delivered>>
    BY DEF ApplyLate, DecideAtHub, Sweep, GeneratorEnds, HubRestarts, PumpRegisters, PumpConnects,
           StreamBreaks, vars
<1>15. CASE HookLists
    <2>1. condemned' \in Nat
        <3>1. Len(spool) \in Nat /\ HookCap \in Nat \ {0}
            BY <1>0, FlowAssumption DEF ChannelTypes
        <3> QED BY <1>15, <3>1 DEF HookLists
    <2>2. UNCHANGED <<session, alive, prompt, inbox, handler, spool, passed, stuck, delivered>>
        BY <1>15 DEF HookLists
    <2> QED BY <1>0, <2>1, <2>2 DEF ChannelTypes, HandlerMatches
<1>16. CASE \E i \in DOMAIN spool : HookEvicts(i)
    <2>1. PICK i \in DOMAIN spool : HookEvicts(i)
        BY <1>16
    <2>2. /\ spool' \in Seq(Resolution) /\ Len(spool') <= SpoolCap + stuck'
          /\ {passed, condemned}' \subseteq Nat /\ stuck' \in 0..MaxStuck
        BY <2>1, UnlinkedTyped DEF HookEvicts
    <2>3. UNCHANGED <<session, alive, prompt, inbox, handler, delivered>>
        BY <2>1 DEF HookEvicts
    <2> QED BY <1>0, <2>2, <2>3 DEF ChannelTypes, HandlerMatches
<1> QED BY <1>1, <1>2, <1>3, <1>4, <1>5, <1>6, <1>7, <1>8, <1>9, <1>10, <1>11, <1>12, <1>13, <1>14,
        <1>15, <1>16
        DEF Next, HandlerStep

\* Every step keeps the types of the hub and the wire.
LEMMA HubTypesKept ==
    ASSUME TypeOK, HandlerMatches, [Next]_vars
    PROVE  HubTypes'
<1> USE DEF claude, hub, bounds, files
<1>0. ChannelTypes /\ HubTypes
    BY TypesSplit
<1> DEFINE Posted == /\ pending' \subseteq RequestIds /\ downlink' \in Seq(Resolution)
                     /\ wire' \subseteq Message /\ late' \in 0..MaxLate
<1>1. ASSUME NEW m \in Message, (Handle(m) /\ UNCHANGED <<wire, late>>) \/ GiveUp(m)
      PROVE  Posted
    <2>1. CASE Handle(m) /\ UNCHANGED <<wire, late>>
        BY <1>0, <2>1, HandleEffect DEF HubTypes
    <2>2. CASE GiveUp(m)
        BY <1>0, <2>2, GiveUpEffect DEF HubTypes
    <2> QED BY <1>1, <2>1, <2>2
<1>15. Rids(spool) \subseteq RequestIds
    <2>1. \A i \in DOMAIN spool : spool[i] \in Resolution
        BY <1>0 DEF ChannelTypes
    <2> QED BY <2>1, ResolutionShapes DEF Rids
<1>2. ASSUME HandlerStep \/ PumpRegisters
      PROVE  Posted
    <2>1. CASE RegisterAtInit \/ PumpRegisters
        BY <1>1, <2>1, MessageShapes DEF RegisterAtInit, PumpRegisters
    <2>2. CASE DrainOne
        <3>1. DrainedNext \in Message
            BY <2>2, DrainedTyped DEF DrainOne
        <3> QED BY <1>1, <2>2, <3>1 DEF DrainOne
    <2>3. CASE DrainEnds \/ DrainUnreadable
        BY <1>0, <2>3 DEF DrainEnds, DrainUnreadable, HubTypes
    <2>4. CASE PostAsk \/ PostAnswer \/ SpoolAnswer
        <3>1. handler.post \in Message
            BY <1>0, <2>4 DEF PostAsk, PostAnswer, SpoolAnswer, ChannelTypes, Handler
        <3> QED BY <1>1, <2>4, <3>1 DEF PostAsk, PostAnswer, SpoolAnswer
    <2> QED BY <1>2, <2>1, <2>2, <2>3, <2>4 DEF HandlerStep
<1>3. CASE HandlerStep
    <2>1. link' \in {"off", "down", "registered", "up"} /\ UNCHANGED <<listed, evicted, breaks>>
        BY <1>0, <1>3 DEF HandlerStep, RegisterAtInit, DrainOne, DrainUnreadable, DrainEnds, PostAsk,
                          PostAnswer, SpoolAnswer, DrainReturns, HubTypes
    <2>2. leaked' \subseteq RequestIds
        <3>1. CASE SpoolAnswer
            <4>1. handler.post.rid \in RequestIds
                BY <1>0, <3>1 DEF SpoolAnswer, ChannelTypes, HandlerMatches, Answer
            <4> QED BY <1>0, <1>15, <3>1, <4>1 DEF SpoolAnswer, HubTypes
        <3>2. CASE leaked' = leaked
            BY <1>0, <3>2 DEF HubTypes
        <3>3. CASE DrainUnreadable
            BY <1>0, <1>15, <3>3 DEF DrainUnreadable, HubTypes
        <3> QED BY <1>3, <3>1, <3>2, <3>3 DEF HandlerStep, RegisterAtInit, DrainOne, DrainEnds,
                                              PostAsk, PostAnswer
    <2> QED BY <1>0, <1>2, <1>3, <2>1, <2>2 DEF HubTypes
<1>4. CASE PumpRegisters
    <2>1. link' = "registered" /\ UNCHANGED <<listed, evicted, breaks, leaked>>
        BY <1>4 DEF PumpRegisters
    <2> QED BY <1>0, <1>2, <1>4, <2>1 DEF HubTypes
<1>5. CASE Killed \/ Exits
    <2>1. listed' \in {"none", "live", "broken"} /\ evicted' \in BOOLEAN
        BY <1>0, <1>5 DEF Killed, Exits, Broken, HubTypes
    <2>2. link' = "off" /\ downlink' = << >> /\ UNCHANGED <<pending, wire, late, breaks, leaked>>
        BY <1>5 DEF Killed, Exits, Stops
    <2>3. downlink' \in Seq(Resolution)
        BY <2>2
    <2> QED BY <1>0, <2>1, <2>2, <2>3 DEF HubTypes
<1>6. CASE \E m \in Message : ApplyLate(m)
    <2>1. PICK m \in Message : ApplyLate(m)
        BY <1>6
    <2>2. pending' \subseteq RequestIds /\ downlink' \in Seq(Resolution)
        BY <2>1, HandleEffect DEF ApplyLate
    <2>3. leaked' \subseteq RequestIds
        BY <1>0, <2>1, MessageShapes DEF ApplyLate, HubTypes
    <2>4. wire' \subseteq Message /\ UNCHANGED <<link, listed, evicted, late, breaks>>
        BY <1>0, <2>1 DEF ApplyLate, HubTypes
    <2> QED BY <1>0, <2>2, <2>3, <2>4 DEF HubTypes
<1>7. CASE \E r \in RequestIds, b \in Behaviors : DecideAtHub(r, b)
    <2>1. PICK r \in RequestIds, b \in Behaviors : DecideAtHub(r, b)
        BY <1>7
    <2>2. [rid |-> r, behavior |-> b] \in Resolution
        BY DEF Resolution
    <2>3. downlink' \in Seq(Resolution) /\ pending' \subseteq RequestIds
        BY <1>0, <2>1, <2>2 DEF DecideAtHub, Resolve, HubTypes
    <2> QED BY <1>0, <2>1, <2>3 DEF DecideAtHub, HubTypes
<1>8. CASE Sweep
    BY <1>0, <1>8 DEF Sweep, HubTypes
<1>9. CASE GeneratorEnds
    <2>1. evicted' \in BOOLEAN /\ listed' \in {"none", "live", "broken"}
        BY <1>0, <1>9 DEF GeneratorEnds, HubTypes
    <2>2. pending' \subseteq RequestIds /\ UNCHANGED <<link, downlink, wire, late, breaks, leaked>>
        BY <1>0, <1>9 DEF GeneratorEnds, HubTypes
    <2> QED BY <1>0, <2>1, <2>2 DEF HubTypes
<1>10. CASE HubRestarts \/ StreamBreaks
    <2>1. breaks' \in 0..MaxBreaks
        BY <1>0, <1>10, FlowAssumption DEF HubRestarts, StreamBreaks, HubTypes
    <2>2. downlink' = << >>
        BY <1>10 DEF HubRestarts, StreamBreaks
    <2>3. downlink' \in Seq(Resolution)
        BY <2>2
    <2>4. /\ link' \in {"off", "down", "registered", "up"}
          /\ listed' \in {"none", "live", "broken"} /\ evicted' \in BOOLEAN
        BY <1>0, <1>10 DEF HubRestarts, StreamBreaks, Broken, HubTypes
    <2>5. wire' \subseteq Message /\ UNCHANGED <<pending, late, leaked>>
        BY <1>0, <1>10 DEF HubRestarts, StreamBreaks, HubTypes
    <2> QED BY <1>0, <2>1, <2>3, <2>4, <2>5 DEF HubTypes
<1>11. CASE PumpConnects
    <2>1. evicted' \in BOOLEAN /\ listed' \in {"none", "live", "broken"}
        BY <1>0, <1>11 DEF PumpConnects, HubTypes
    <2> QED BY <1>0, <1>11, <2>1 DEF PumpConnects, HubTypes
<1>12. CASE DeliverDecision
    <2>1. downlink' \in Seq(Resolution)
        BY <1>0, <1>12 DEF DeliverDecision, HubTypes
    <2> QED BY <1>0, <1>12, <2>1 DEF DeliverDecision, HubTypes
<1>13. CASE UNCHANGED <<link, hub, wire, bounds, leaked>>
    BY <1>0, <1>13 DEF HubTypes
<1>14. (\/ StartSession \/ \E r \in RequestIds : OpenPrompt(r)
        \/ \E r \in RequestIds, b \in Behaviors : DecideAtTerminal(r, b)
        \/ Dispatch \/ HookLists \/ UNCHANGED vars)
            => UNCHANGED <<link, hub, wire, bounds, leaked>>
    BY DEF StartSession, OpenPrompt, DecideAtTerminal, Dispatch, HookLists, vars
<1>16. CASE \E i \in DOMAIN spool : HookEvicts(i)
    <2>1. PICK i \in DOMAIN spool : HookEvicts(i)
        BY <1>16
    <2>2. leaked' \subseteq RequestIds
        BY <1>0, <1>15, <2>1 DEF HookEvicts, HubTypes
    <2> QED BY <1>0, <2>1, <2>2 DEF HookEvicts, HubTypes
<1> QED BY <1>3, <1>4, <1>5, <1>6, <1>7, <1>8, <1>9, <1>10, <1>11, <1>12, <1>13, <1>14, <1>16
        DEF Next
-----------------------------------------------------------------------------
\* A step that puts no request anywhere but down the stream, from the list, and
\* loses no resolution of one still listed, keeps the ways.
LEMMA NoNewAsk ==
    ASSUME Ways, UNCHANGED <<prompt, inbox>>,
           InHand("ask")' \subseteq InHand("ask"), AskedLate' \subseteq AskedLate,
           pending' \subseteq pending,
           Rids(downlink') \subseteq Rids(downlink) \cup (pending \ pending'),
           \A r \in pending' : r \in Carried \cup leaked => r \in (Carried \cup leaked)'
    PROVE  Ways'
<1>1. AskedOnceFirst(inbox)'
    BY DEF Ways
<1>2. InOnePlace'
    BY DEF Ways, InOnePlace
<1>3. NewIsNowhere'
    BY DEF Ways, NewIsNowhere
<1>4. DecidedIsAnswered'
    BY DEF Ways, DecidedIsAnswered
<1>5. NoResolutionForgotten'
    BY DEF Ways, NoResolutionForgotten
<1> QED BY <1>1, <1>2, <1>3, <1>4, <1>5 DEF Ways

\* What the channel has in hand, by its places, before and after a step.
LEMMA CarriedIs ==
    /\ Carried = RidsOf(inbox, "answer") \cup Rids(spool) \cup InHand("answer")
    /\ Carried' = RidsOf(inbox', "answer") \cup Rids(spool') \cup InHand("answer")'
BY DEF Carried, RidsOf, InHand

\* An empty queue asks and answers nothing.
LEMMA EmptyQueue ==
    /\ AskedOnceFirst(<< >>) /\ Rids(<< >>) = {}
    /\ \A kind : RidsOf(<< >>, kind) = {}
BY DEF AskedOnceFirst, Rids, RidsOf

\* A new session asks nothing yet.
LEMMA StartSessionWays ==
    ASSUME FlowInv, StartSession
    PROVE  Ways'
<1>1. inbox' = Append(inbox, Register)
    BY DEF FlowInv, IdleWhenDead, StartSession
<1>2. inbox \in Seq(Message) /\ Register \in Message /\ Register.kind = "register"
    BY MessageShapes DEF FlowInv, TypeOK, Register
<1>3. AskedOnceFirst(inbox)'
    BY <1>1, <1>2, AskedOnceAppend DEF FlowInv, Ways
<1>4. RidsOf(inbox', "ask") = RidsOf(inbox, "ask") /\ RidsOf(inbox', "answer") = RidsOf(inbox, "answer")
    BY <1>1, <1>2, RidsOfAppend
<1>5. /\ InHand("ask")' = InHand("ask") /\ AskedLate' = AskedLate
      /\ UNCHANGED <<prompt, handler, spool, pending, downlink, leaked>>
    BY DEF StartSession, InHand, AskedLate, hub, files
<1>6. Carried' = Carried
    BY <1>4, <1>5, CarriedIs DEF InHand
<1> QED BY <1>3, <1>4, <1>5, <1>6
        DEF FlowInv, Ways, InOnePlace, NewIsNowhere, DecidedIsAnswered, NoResolutionForgotten

\* An opened prompt is asked for by nobody else.
LEMMA OpenPromptWays ==
    ASSUME FlowInv, NEW r \in RequestIds, OpenPrompt(r)
    PROVE  Ways'
<1>1. /\ inbox' = Append(inbox, Ask(r)) /\ inbox \in Seq(Message) /\ Ask(r) \in Message
      /\ Ask(r).kind = "ask" /\ Ask(r).rid = r
    BY MessageShapes DEF FlowInv, TypeOK, OpenPrompt, Ask
<1>2. /\ r \notin RidsOf(inbox, "ask") \cup RidsOf(inbox, "answer") \cup InHand("ask")
      /\ r \notin AskedLate \cup pending \cup Rids(downlink)
    BY DEF OpenPrompt, FlowInv, Ways, NewIsNowhere
<1>3. AskedOnceFirst(inbox)'
    BY <1>1, <1>2, AskedOnceAppend DEF FlowInv, Ways
<1>4. /\ RidsOf(inbox', "ask") = RidsOf(inbox, "ask") \cup {r}
      /\ RidsOf(inbox', "answer") = RidsOf(inbox, "answer")
    BY <1>1, RidsOfAppend
<1>5. /\ InHand("ask")' = InHand("ask") /\ AskedLate' = AskedLate
      /\ UNCHANGED <<handler, spool, pending, downlink, leaked>>
    BY DEF OpenPrompt, InHand, AskedLate, hub, files
<1>6. Carried' = Carried
    BY <1>4, <1>5, CarriedIs DEF InHand
<1>7. /\ prompt'[r] = "open" /\ \A x \in RequestIds : x # r => prompt'[x] = prompt[x]
      /\ "open" \notin Behaviors
    BY FlowAssumption DEF OpenPrompt, FlowInv, TypeOK
<1>8. InOnePlace'
    BY <1>2, <1>4, <1>5 DEF FlowInv, Ways, InOnePlace
<1>9. NewIsNowhere'
    BY <1>4, <1>5, <1>7 DEF FlowInv, Ways, NewIsNowhere
<1>10. DecidedIsAnswered'
    BY <1>4, <1>5, <1>7 DEF FlowInv, Ways, DecidedIsAnswered
<1>11. NoResolutionForgotten'
    BY <1>2, <1>5, <1>6, <1>7 DEF FlowInv, TypeOK, Ways, NoResolutionForgotten
<1> QED BY <1>3, <1>8, <1>9, <1>10, <1>11 DEF Ways

\* A decision at the terminal sends its resolution behind the request.
LEMMA DecideAtTerminalWays ==
    ASSUME FlowInv, NEW r \in RequestIds, NEW b \in Behaviors, DecideAtTerminal(r, b)
    PROVE  Ways'
<1>1. /\ inbox' = Append(inbox, Answer(r, b)) /\ inbox \in Seq(Message)
      /\ Answer(r, b) \in Message /\ Answer(r, b).kind = "answer" /\ Answer(r, b).rid = r
    BY MessageShapes DEF FlowInv, TypeOK, DecideAtTerminal, Answer
<1>2. AskedOnceFirst(inbox)'
    BY <1>1, AskedOnceAppend DEF FlowInv, Ways
<1>3. /\ RidsOf(inbox', "ask") = RidsOf(inbox, "ask")
      /\ RidsOf(inbox', "answer") = RidsOf(inbox, "answer") \cup {r}
    BY <1>1, RidsOfAppend
<1>4. /\ InHand("ask")' = InHand("ask") /\ AskedLate' = AskedLate
      /\ UNCHANGED <<handler, spool, pending, downlink, leaked>>
    BY DEF DecideAtTerminal, InHand, AskedLate, hub, files
<1>5. Carried' = Carried \cup {r}
    BY <1>3, <1>4, CarriedIs DEF InHand
<1>6. /\ prompt'[r] = b /\ \A x \in RequestIds : x # r => prompt'[x] = prompt[x]
      /\ b # "new"
    BY FlowAssumption DEF DecideAtTerminal, FlowInv, TypeOK
<1>7. InOnePlace'
    BY <1>3, <1>4 DEF FlowInv, Ways, InOnePlace
<1>8. NewIsNowhere'
    BY <1>3, <1>4, <1>6 DEF FlowInv, Ways, NewIsNowhere
<1>9. DecidedIsAnswered'
    BY <1>3, <1>4, <1>6 DEF FlowInv, Ways, DecidedIsAnswered
<1>10. NoResolutionForgotten'
    BY <1>4, <1>5, <1>6 DEF FlowInv, TypeOK, Ways, NoResolutionForgotten
<1> QED BY <1>2, <1>7, <1>8, <1>9, <1>10 DEF Ways

\* With the session its prompts are gone: nobody decides them.
LEMMA StopsWays ==
    ASSUME FlowInv, Stops
    PROVE  Ways'
<1>1. /\ inbox' = << >> /\ downlink' = << >> /\ handler' = None
      /\ UNCHANGED <<pending, wire>>
    BY DEF Stops
<1>2. \A x \in RequestIds : prompt'[x] = IF prompt[x] = "new" THEN "new" ELSE "gone"
    BY DEF Stops
<1>3. "new" \notin Behaviors /\ "gone" \notin Behaviors
    BY FlowAssumption
<1>4. InHand("ask")' = {} /\ AskedLate' = AskedLate
    BY <1>1 DEF InHand, AskedLate
<1>5. AskedOnceFirst(inbox)' /\ InOnePlace'
    BY <1>1, <1>4, EmptyQueue DEF FlowInv, Ways, InOnePlace
<1>6. NewIsNowhere'
    BY <1>1, <1>2, <1>4, EmptyQueue DEF FlowInv, Ways, NewIsNowhere
<1>7. DecidedIsAnswered' /\ NoResolutionForgotten'
    BY <1>1, <1>2, <1>3 DEF FlowInv, TypeOK, DecidedIsAnswered, NoResolutionForgotten
<1> QED BY <1>5, <1>6, <1>7 DEF Ways

\* A message read is the handler's: an ask behind which none asks again.
LEMMA DispatchWays ==
    ASSUME FlowInv, Dispatch
    PROVE  Ways'
<1> DEFINE h == Head(inbox)
           t == Tail(inbox)
<1>1. inbox \in Seq(Message) /\ inbox # << >> /\ h \in Message /\ t \in Seq(Message) /\ inbox' = t
    BY DEF FlowInv, TypeOK, Dispatch
<1>2. h.kind \in {"register", "drain", "ask", "answer"}
    BY <1>1, MessageShapes
<1>3. handler' # None /\ handler'.step = h.kind /\ handler'.post = h
    BY <1>1, <1>2, HandlingTyped DEF Dispatch
<1>4. InHand("ask") = {} /\ InHand("answer") = {}
    BY DEF InHand, Dispatch
<1>5. /\ InHand("ask")' = (IF h.kind = "ask" THEN {h.rid} ELSE {})
      /\ InHand("answer")' = (IF h.kind = "answer" THEN {h.rid} ELSE {})
    BY <1>3 DEF InHand
<1>6. AskedLate' = AskedLate /\ UNCHANGED <<prompt, spool, pending, downlink, leaked>>
    BY DEF Dispatch, AskedLate, claude, hub, files
<1>7. /\ AskedOnceFirst(t)
      /\ h.kind \in {"ask", "answer"} => h.rid \notin RidsOf(t, "ask")
    BY <1>1, AskedOnceTail DEF FlowInv, Ways
<1>8. /\ RidsOf(inbox, "ask") = RidsOf(t, "ask") \cup (IF h.kind = "ask" THEN {h.rid} ELSE {})
      /\ RidsOf(inbox, "answer") = RidsOf(t, "answer")
                                       \cup (IF h.kind = "answer" THEN {h.rid} ELSE {})
    BY <1>1, RidsOfTail
<1> HIDE DEF h, t
<1>9. Carried' = Carried
    BY <1>1, <1>4, <1>5, <1>6, <1>8, CarriedIs
<1>10. InOnePlace'
    BY <1>1, <1>4, <1>5, <1>6, <1>7, <1>8 DEF FlowInv, Ways, InOnePlace
<1>11. NewIsNowhere'
    BY <1>1, <1>4, <1>5, <1>6, <1>8 DEF FlowInv, Ways, NewIsNowhere
<1>12. DecidedIsAnswered'
    BY <1>1, <1>4, <1>5, <1>6, <1>7, <1>8 DEF FlowInv, Ways, DecidedIsAnswered
<1>13. NoResolutionForgotten'
    BY <1>6, <1>9 DEF FlowInv, Ways, NoResolutionForgotten
<1> QED BY <1>1, <1>7, <1>10, <1>11, <1>12, <1>13 DEF Ways

\* The request handed over is in the hub's list or late, and in no other place;
\* if its prompt was decided, its resolution is still unread.
LEMMA PostAskWays ==
    ASSUME FlowInv, PostAsk
    PROVE  Ways'
<1>1. PICK r \in RequestIds : handler.post = Ask(r)
    BY DEF PostAsk, FlowInv, HandlerMatches
<1>2. Ask(r) \in Message /\ Ask(r).kind = "ask" /\ Ask(r).rid = r
    BY MessageShapes DEF Ask
<1>3. InHand("ask") = {r} /\ InHand("answer") = {}
    BY <1>1, <1>2 DEF PostAsk, InHand
<1>4. InHand("ask")' = {}
    <2>1. "allow" \in Behaviors /\ Answer(r, "allow") \in Message
        BY FlowAssumption, MessageShapes
    <2>2. handler' = None \/ handler'.step = "answer"
        BY <1>1, <1>2, <2>1, HandlingTyped DEF PostAsk
    <2> QED BY <2>2 DEF InHand
<1>5. UNCHANGED <<prompt, inbox, spool, leaked>>
    BY DEF PostAsk, claude, files
<1>6. \/ /\ pending' = pending \cup {r} /\ downlink' = downlink /\ AskedLate' = AskedLate
      \/ /\ pending' = pending /\ downlink' = downlink /\ AskedLate' \subseteq AskedLate \cup {r}
    <2>1. CASE Handle(handler.post) /\ UNCHANGED wire
        BY <1>1, <1>2, <2>1, HandleEffect DEF FlowInv, AskedLate
    <2>2. CASE GiveUp(handler.post)
        BY <1>1, <1>2, <2>2, GiveUpEffect DEF FlowInv, AskedLate
    <2> QED BY <2>1, <2>2 DEF PostAsk
<1>7. Carried \subseteq Carried' /\ RidsOf(inbox, "answer") \subseteq Carried'
    BY <1>3, <1>5, CarriedIs
<1>8. InOnePlace'
    BY <1>3, <1>4, <1>5, <1>6 DEF FlowInv, Ways, InOnePlace
<1>9. NewIsNowhere'
    BY <1>3, <1>4, <1>5, <1>6 DEF FlowInv, Ways, NewIsNowhere
<1>10. DecidedIsAnswered'
    BY <1>4, <1>5 DEF FlowInv, Ways, DecidedIsAnswered
<1>11. NoResolutionForgotten'
    BY <1>3, <1>5, <1>6, <1>7 DEF FlowInv, Ways, DecidedIsAnswered, NoResolutionForgotten
<1> QED BY <1>5, <1>8, <1>9, <1>10, <1>11 DEF FlowInv, Ways

\* A decision of the hub is on a prompt it no longer lists.
LEMMA DeliverDecisionWays ==
    ASSUME FlowInv, DeliverDecision
    PROVE  Ways'
<1> DEFINE d == Head(downlink)
<1>1. downlink \in Seq(Resolution) /\ downlink # << >> /\ d \in Resolution /\ downlink' = Tail(downlink)
    BY DEF FlowInv, TypeOK, DeliverDecision
<1>2. Rids(downlink) = Rids(downlink') \cup {d.rid}
    BY <1>1, RidsTail
<1>3. d.rid \in RequestIds /\ d.behavior \in Behaviors
    BY <1>1, ResolutionShapes
<1>4. /\ \A x \in RequestIds : x # d.rid => prompt'[x] = prompt[x]
      /\ prompt'[d.rid] \in {prompt[d.rid], d.behavior}
    BY <1>3 DEF DeliverDecision, FlowInv, TypeOK
<1>5. /\ InHand("ask")' = InHand("ask") /\ AskedLate' = AskedLate
      /\ UNCHANGED <<inbox, handler, spool, pending, leaked>>
    BY DEF DeliverDecision, InHand, AskedLate, files
<1>6. Carried' = Carried
    BY <1>5, CarriedIs DEF InHand
<1>7. d.rid \notin RidsOf(inbox, "ask") \cup InHand("ask") \cup pending
    BY <1>2 DEF FlowInv, Ways, InOnePlace
<1>8. d.behavior # "new"
    BY <1>3, FlowAssumption
<1> HIDE DEF d
<1>9. InOnePlace'
    BY <1>2, <1>5 DEF FlowInv, Ways, InOnePlace
<1>10. NewIsNowhere'
    BY <1>2, <1>3, <1>4, <1>5, <1>8 DEF FlowInv, Ways, NewIsNowhere
<1>11. DecidedIsAnswered'
    BY <1>4, <1>5, <1>7 DEF FlowInv, Ways, DecidedIsAnswered
<1>12. NoResolutionForgotten'
    BY <1>4, <1>5, <1>6, <1>7 DEF FlowInv, TypeOK, Ways, NoResolutionForgotten
<1> QED BY <1>5, <1>9, <1>10, <1>11, <1>12 DEF FlowInv, Ways

\* A late ask lists its request, or counts it as leaked when its prompt was
\* decided and the resolution is already spent.
LEMMA ApplyLateWays ==
    ASSUME FlowInv, NEW m \in Message, ApplyLate(m)
    PROVE  Ways'
<1>1. /\ InHand("ask")' = InHand("ask") /\ InHand("answer")' = InHand("answer")
      /\ UNCHANGED <<prompt, inbox, handler, spool>> /\ leaked \subseteq leaked'
    BY DEF ApplyLate, InHand, claude, files
<1>2. Carried' = Carried
    BY <1>1, CarriedIs
<1>3. CASE m.kind # "ask"
    <2>1. /\ pending' \subseteq pending
          /\ Rids(downlink') \subseteq Rids(downlink) \cup (pending \ pending')
        BY <1>3, HandleEffect DEF FlowInv, ApplyLate
    <2>2. AskedLate' \subseteq AskedLate
        BY DEF AskedLate, ApplyLate
    <2> QED BY <1>1, <1>2, <2>1, <2>2, NoNewAsk DEF FlowInv
<1>4. CASE m.kind = "ask"
    <2>1. m.rid \in RequestIds /\ m = Ask(m.rid)
        BY <1>4, MessageShapes
    <2>2. pending' = pending \cup {m.rid} /\ downlink' = downlink
        BY <1>4, HandleEffect DEF FlowInv, ApplyLate
    <2>3. m.rid \in AskedLate
        BY <1>4 DEF AskedLate, ApplyLate
    <2>4. AskedLate' \subseteq AskedLate /\ m.rid \notin AskedLate'
        <3>1. ASSUME NEW x \in wire', x.kind = "ask", x.rid = m.rid
              PROVE  FALSE
            <4>1. x \in Message /\ x # m
                BY <3>1 DEF FlowInv, TypeOK, ApplyLate
            <4> QED BY <2>1, <3>1, <4>1, MessageShapes
        <3> QED BY <3>1 DEF AskedLate, ApplyLate
    <2>5. prompt[m.rid] \in Behaviors => m.rid \in Carried \cup leaked'
        BY <1>4 DEF ApplyLate
    <2>6. InOnePlace'
        BY <1>1, <2>2, <2>3, <2>4 DEF FlowInv, Ways, InOnePlace
    <2>7. NewIsNowhere'
        BY <1>1, <2>2, <2>3, <2>4 DEF FlowInv, Ways, NewIsNowhere
    <2>8. DecidedIsAnswered'
        BY <1>1 DEF FlowInv, Ways, DecidedIsAnswered
    <2>9. NoResolutionForgotten'
        BY <1>1, <1>2, <2>2, <2>5 DEF FlowInv, Ways, NoResolutionForgotten
    <2> QED BY <1>1, <2>6, <2>7, <2>8, <2>9 DEF FlowInv, Ways
<1> QED BY <1>3, <1>4

\* A post that is no ask, carried out or given up, puts no request on its way.
LEMMA NoAskPosted ==
    ASSUME TypeOK, NEW m \in Message, m.kind # "ask",
           (Handle(m) /\ UNCHANGED <<wire, late>>) \/ GiveUp(m)
    PROVE  /\ AskedLate' \subseteq AskedLate /\ pending' \subseteq pending
           /\ Rids(downlink') \subseteq Rids(downlink) \cup (pending \ pending')
<1>1. CASE Handle(m) /\ UNCHANGED <<wire, late>>
    BY <1>1, HandleEffect DEF AskedLate
<1>2. CASE GiveUp(m)
    <2>1. pending' = pending /\ downlink' = downlink /\ wire' \subseteq wire \cup {m}
        BY <1>2, GiveUpEffect
    <2> QED BY <2>1 DEF AskedLate
<1> QED BY <1>1, <1>2

\* A file removed by a drain is one whose resolution was posted.
LEMMA DrainKeepsOrPosts ==
    ASSUME TypeOK, DrainOne
    PROVE  \A r \in Rids(spool) : r \in Rids(spool') \/ r \notin pending'
<1>1. /\ passed + 1 \in DOMAIN spool /\ DrainedNext \in Message
      /\ DrainedNext.kind = "answer" /\ DrainedNext.rid = spool[passed + 1].rid
    BY DrainedTyped DEF DrainOne
<1>2. CASE /\ Handle(DrainedNext)
           /\ (Unlinked({passed + 1}) /\ UNCHANGED stuck) \/ StaysBehind
    <2>1. spool[passed + 1].rid \notin pending'
        BY <1>1, <1>2, HandleEffect
    <2>2. Rids(spool) \subseteq Rids(spool') \cup {spool[passed + 1].rid}
        BY <1>1, <1>2, UnlinkedTyped
    <2> QED BY <2>1, <2>2
<1>3. CASE UNCHANGED spool
    BY <1>3
<1> QED BY <1>2, <1>3 DEF DrainOne

\* A step that only takes files away, and counts their requests, keeps the ways.
LEMMA CountedIsKept ==
    ASSUME Ways, UNCHANGED <<prompt, inbox, handler, wire, pending, downlink>>,
           leaked' = leaked \cup (Rids(spool) \ Rids(spool'))
    PROVE  Ways'
<1>1. InHand("ask")' = InHand("ask") /\ InHand("answer")' = InHand("answer") /\ AskedLate' = AskedLate
    BY DEF InHand, AskedLate
<1>2. Carried \cup leaked \subseteq (Carried \cup leaked)'
    BY <1>1, CarriedIs
<1> QED BY <1>1, <1>2, NoNewAsk

\* Registering, draining and posting a resolution put no request on its way, and
\* a resolution leaves the channel when the hub has it or when it is counted.
LEMMA HandlerWays ==
    ASSUME FlowInv, RegisterAtInit \/ DrainOne \/ DrainUnreadable \/ DrainEnds \/ PostAnswer
               \/ SpoolAnswer
    PROVE  Ways'
<1>0. TypeOK /\ Ways /\ HandlerMatches /\ UNCHANGED <<prompt, inbox>>
    BY DEF FlowInv, RegisterAtInit, DrainOne, DrainUnreadable, DrainEnds, PostAnswer, SpoolAnswer, claude
<1>1. CASE RegisterAtInit
    <2>1. /\ AskedLate' \subseteq AskedLate /\ pending' \subseteq pending
          /\ Rids(downlink') \subseteq Rids(downlink) \cup (pending \ pending')
        BY <1>0, <1>1, MessageShapes, NoAskPosted DEF RegisterAtInit, Register
    <2>2. handler \in Handler /\ handler' = [handler EXCEPT !.step = "drain"]
        BY <1>0, <1>1 DEF RegisterAtInit, TypeOK
    <2>3. handler'.step = "drain"
        BY <2>2 DEF Handler
    <2>4. InHand("ask")' = {} /\ InHand("answer") = {} /\ UNCHANGED <<spool, leaked>>
        BY <1>1, <2>3 DEF RegisterAtInit, InHand, files
    <2>5. Carried \subseteq Carried'
        BY <1>0, <2>4, CarriedIs
    <2> QED BY <1>0, <2>1, <2>4, <2>5, NoNewAsk
<1>2. CASE DrainOne
    <2>1. /\ passed + 1 \in DOMAIN spool /\ DrainedNext \in Message
          /\ DrainedNext.kind = "answer" /\ DrainedNext.rid = spool[passed + 1].rid
        BY <1>0, <1>2, DrainedTyped DEF DrainOne
    <2>2. (Handle(DrainedNext) /\ UNCHANGED <<wire, late>>) \/ GiveUp(DrainedNext)
        BY <1>2 DEF DrainOne
    <2>3. /\ AskedLate' \subseteq AskedLate /\ pending' \subseteq pending
          /\ Rids(downlink') \subseteq Rids(downlink) \cup (pending \ pending')
        BY <1>0, <2>1, <2>2, NoAskPosted
    <2>4. InHand("ask")' = {} /\ InHand("answer") = {} /\ UNCHANGED leaked
        BY <1>2 DEF DrainOne, Draining, DrainReturns, InHand
    <2>5. \A r \in Rids(spool) : r \in Rids(spool') \/ r \notin pending'
        BY <1>0, <1>2, DrainKeepsOrPosts
    <2>6. \A r \in pending' : r \in Carried \cup leaked => r \in (Carried \cup leaked)'
        BY <1>0, <2>4, <2>5, CarriedIs
    <2> QED BY <1>0, <2>3, <2>4, <2>6, NoNewAsk
<1>5. CASE DrainUnreadable
    <2>1. /\ UNCHANGED <<handler, wire, pending, downlink>>
          /\ leaked' = leaked \cup (Rids(spool) \ Rids(spool'))
        BY <1>5 DEF DrainUnreadable, hub
    <2> QED BY <1>0, <2>1, CountedIsKept
<1>3. CASE DrainEnds
    <2>1. /\ InHand("ask")' = {} /\ InHand("answer") = {} /\ AskedLate' = AskedLate
          /\ UNCHANGED <<spool, leaked, pending, downlink>>
        BY <1>3 DEF DrainEnds, Draining, DrainReturns, InHand, AskedLate, hub
    <2>2. Carried \subseteq Carried'
        BY <1>0, <2>1, CarriedIs
    <2> QED BY <1>0, <2>1, <2>2, NoNewAsk
<1>4. CASE PostAnswer \/ SpoolAnswer
    <2> DEFINE r == handler.post.rid
    <2>1. PICK x \in RequestIds, b \in Behaviors : handler.post = Answer(x, b)
        BY <1>0, <1>4 DEF PostAnswer, SpoolAnswer, HandlerMatches
    <2>2. /\ handler.post \in Message /\ handler.post.kind = "answer" /\ r = x
          /\ handler.post.behavior = b
        BY <2>1, MessageShapes DEF Answer
    <2>3. (Handle(handler.post) /\ UNCHANGED <<wire, late>>) \/ GiveUp(handler.post)
        BY <1>4 DEF PostAnswer, SpoolAnswer
    <2>4. /\ AskedLate' \subseteq AskedLate /\ pending' \subseteq pending
          /\ Rids(downlink') \subseteq Rids(downlink) \cup (pending \ pending')
        BY <1>0, <2>2, <2>3, NoAskPosted
    <2>5. InHand("ask") = {} /\ InHand("answer") = {r}
        BY <1>4 DEF PostAnswer, SpoolAnswer, InHand
    <2>6. CASE PostAnswer /\ Handle(handler.post) /\ handler' = None
        <3>1. r \notin pending'
            BY <1>0, <2>2, <2>6, HandleEffect
        <3>2. InHand("ask")' = {} /\ UNCHANGED <<spool, leaked>>
            BY <2>6 DEF PostAnswer, InHand, files
        <3>3. \A y \in pending' : y \in Carried \cup leaked => y \in (Carried \cup leaked)'
            BY <1>0, <2>5, <3>1, <3>2, CarriedIs
        <3> QED BY <1>0, <2>4, <2>5, <3>2, <3>3, NoNewAsk
    <2>7. CASE PostAnswer /\ handler.tries + 1 < MaxRetries
                   /\ handler' = [handler EXCEPT !.tries = @ + 1]
        <3>1. handler \in Handler /\ handler # None /\ handler.step = "answer"
            BY <1>0, <2>7 DEF PostAnswer, TypeOK
        <3>2. handler'.step = "answer" /\ handler'.post = handler.post
            BY <2>7, <3>1 DEF Handler
        <3>3. handler' # None
            <4>1. PICK n \in 0..(MaxRetries - 1) : handler.tries = n
                BY <3>1 DEF Handler
            <4>2. n + 1 \in 0..(MaxRetries - 1)
                BY <2>7, <4>1, FlowAssumption
            <4> QED BY <2>7, <3>1, <4>1, <4>2, NoneIsNoHandler DEF Handler
        <3>4. InHand("ask")' = {} /\ InHand("answer")' = {r} /\ UNCHANGED <<spool, leaked>>
            BY <2>7, <3>2, <3>3 DEF PostAnswer, InHand, files
        <3>5. Carried' = Carried
            BY <1>0, <2>5, <3>4, CarriedIs
        <3> QED BY <1>0, <2>4, <2>5, <3>4, <3>5, NoNewAsk
    <2>8. CASE SpoolAnswer
        <3>1. InHand("ask")' = {}
            BY <2>8 DEF SpoolAnswer, InHand
        <3>2. leaked \subseteq leaked' /\ Rids(spool) \cup {r} \subseteq Rids(spool') \cup leaked'
            <4>1. PICK gone \in SUBSET Victims :
                      \/ /\ spool' = Written(gone, r, handler.post.behavior)
                         /\ leaked' = leaked \cup (Rids(spool) \ Rids(spool'))
                      \/ leaked' = leaked \cup (Rids(spool) \ Rids(spool')) \cup {r}
                BY <2>8 DEF SpoolAnswer
            <4>2. ASSUME spool' = Written(gone, r, handler.post.behavior)
                  PROVE  r \in Rids(spool')
                <5>1. r \in RequestIds /\ handler.post.behavior \in Behaviors
                    BY <2>2
                <5>2. Rids(Written(gone, r, handler.post.behavior)) = Rids(Remaining(gone)) \cup {r}
                    BY <1>0, <5>1, WrittenTyped
                <5> QED BY <4>2, <5>2
            <4> QED BY <4>1, <4>2
        <3>3. \A y \in pending' : y \in Carried \cup leaked => y \in (Carried \cup leaked)'
            BY <1>0, <2>5, <3>2, CarriedIs
        <3> QED BY <1>0, <2>4, <2>5, <3>1, <3>3, NoNewAsk
    <2> QED BY <1>4, <2>6, <2>7, <2>8 DEF PostAnswer
<1> QED BY <1>1, <1>2, <1>3, <1>4, <1>5

\* The other steps of the hub, the wire and the stream only take away.
LEMMA HubWays ==
    ASSUME FlowInv,
           \/ \E r \in RequestIds, b \in Behaviors : DecideAtHub(r, b)
           \/ Sweep \/ GeneratorEnds \/ HubRestarts
           \/ PumpRegisters \/ PumpConnects \/ StreamBreaks \/ UNCHANGED vars
    PROVE  Ways'
<1>0. TypeOK /\ Ways
    BY DEF FlowInv
<1>1. /\ UNCHANGED <<prompt, inbox, handler, spool, leaked>>
      /\ InHand("ask")' = InHand("ask") /\ InHand("answer")' = InHand("answer")
    BY DEF DecideAtHub, Sweep, GeneratorEnds, HubRestarts, PumpRegisters, PumpConnects, StreamBreaks,
           vars, claude, files, InHand
<1>2. (Carried \cup leaked)' = Carried \cup leaked
    BY <1>1, CarriedIs
<1>3. /\ AskedLate' \subseteq AskedLate /\ pending' \subseteq pending
      /\ Rids(downlink') \subseteq Rids(downlink) \cup (pending \ pending')
    <2>1. CASE \E r \in RequestIds, b \in Behaviors : DecideAtHub(r, b)
        <3>1. PICK r \in RequestIds, b \in Behaviors : DecideAtHub(r, b)
            BY <2>1
        <3>2. Answer(r, b) \in Message /\ Handle(Answer(r, b)) /\ Answer(r, b).kind = "answer"
            BY <3>1, MessageShapes DEF DecideAtHub, Handle, Answer
        <3>3. AskedLate' = AskedLate
            BY <3>1 DEF DecideAtHub, AskedLate
        <3> QED BY <1>0, <3>2, <3>3, HandleEffect
    <2>2. CASE PumpRegisters
        BY <1>0, <2>2, MessageShapes, NoAskPosted DEF PumpRegisters, Register
    <2>3. CASE HubRestarts
        BY <2>3, EmptyQueue DEF HubRestarts, AskedLate
    <2>4. CASE StreamBreaks
        BY <2>4, EmptyQueue DEF StreamBreaks, AskedLate
    <2>5. CASE Sweep \/ GeneratorEnds \/ PumpConnects \/ UNCHANGED vars
        <3>1. UNCHANGED <<downlink, wire>>
            BY <2>5 DEF Sweep, GeneratorEnds, PumpConnects, vars, bounds
        <3>2. pending' \subseteq pending
            BY <2>5 DEF Sweep, GeneratorEnds, PumpConnects, vars
        <3> QED BY <3>1, <3>2 DEF AskedLate
    <2> QED BY <2>1, <2>2, <2>3, <2>4, <2>5
<1> QED BY <1>0, <1>1, <1>2, <1>3, NoNewAsk

\* A channel that does not run stays idle until a session starts it.
LEMMA IdleKept ==
    ASSUME FlowInv, [Next]_vars
    PROVE  IdleWhenDead'
<1> USE DEF claude, IdleWhenDead
<1>1. CASE alive'
    BY <1>1
<1>2. CASE ~alive' /\ UNCHANGED <<inbox, handler, alive>>
    BY <1>2 DEF FlowInv
<1>3. CASE Killed \/ Exits
    BY <1>3 DEF Killed, Exits, Stops
<1>4. (StartSession \/ \E r \in RequestIds : OpenPrompt(r)) => alive'
    BY DEF StartSession, OpenPrompt
<1>5. (\E r \in RequestIds, b \in Behaviors : DecideAtTerminal(r, b)) \/ Dispatch => alive'
    BY DEF DecideAtTerminal, Dispatch
<1>6. HandlerStep => alive'
    BY DEF HandlerStep, RegisterAtInit, DrainOne, DrainUnreadable, DrainEnds, Draining, PostAsk,
           PostAnswer, SpoolAnswer, FlowInv
<1>7. (\/ \E m \in Message : ApplyLate(m)
       \/ \E r \in RequestIds, b \in Behaviors : DecideAtHub(r, b)
       \/ Sweep \/ GeneratorEnds \/ HubRestarts \/ PumpRegisters \/ PumpConnects \/ StreamBreaks
       \/ DeliverDecision \/ HookLists \/ (\E i \in DOMAIN spool : HookEvicts(i))
       \/ UNCHANGED vars) => UNCHANGED <<inbox, handler, alive>>
    BY DEF HookLists, HookEvicts, ApplyLate, DecideAtHub, Sweep, GeneratorEnds, HubRestarts, PumpRegisters, PumpConnects,
           StreamBreaks, DeliverDecision, vars
<1> QED BY <1>1, <1>2, <1>3, <1>4, <1>5, <1>6, <1>7 DEF Next
-----------------------------------------------------------------------------
\* The invariant holds at the start.
LEMMA FlowInvInit == Init => FlowInv
<1>1. ASSUME Init
      PROVE  FlowInv
    <2>1. TypeOK
        <3>1. << >> \in Seq(Message) /\ << >> \in Seq(Resolution) /\ Len(<< >>) = 0
            OBVIOUS
        <3>2. 0 \in 0..MaxSessions /\ 0 \in 0..MaxLate /\ 0 \in 0..MaxBreaks /\ 0 \in 0..MaxStuck /\ 0 <= SpoolCap + 0
            BY FlowAssumption
        <3>3. alive \in BOOLEAN /\ delivered \in BOOLEAN /\ evicted \in BOOLEAN
            BY <1>1 DEF Init
        <3> QED BY <1>1, <3>1, <3>2, <3>3 DEF Init, TypeOK
    <2>2. HandlerMatches /\ IdleWhenDead
        BY <1>1 DEF Init, HandlerMatches, IdleWhenDead
    <2>3. InHand("ask") = {} /\ AskedLate = {} /\ pending = {} /\ inbox = << >> /\ downlink = << >>
        BY <1>1 DEF Init, InHand, AskedLate
    <2>4. AskedOnceFirst(inbox) /\ InOnePlace /\ NewIsNowhere /\ DecidedIsAnswered
          /\ NoResolutionForgotten
        BY <2>3, EmptyQueue DEF InOnePlace, NewIsNowhere, DecidedIsAnswered, NoResolutionForgotten
    <2> QED BY <2>1, <2>2, <2>4 DEF FlowInv, Ways
<1> QED BY <1>1

\* Every step keeps it.
LEMMA FlowInvKept == FlowInv /\ [Next]_vars => FlowInv'
<1> SUFFICES ASSUME FlowInv, [Next]_vars PROVE FlowInv'
    OBVIOUS
<1>1. TypeOK' /\ HandlerMatches'
    <2>1. ChannelTypes' /\ HubTypes'
        BY ChannelTypesKept, HubTypesKept DEF FlowInv
    <2> QED BY <2>1 DEF TypeOK, ChannelTypes, HubTypes
<1>2. IdleWhenDead'
    BY IdleKept
<1>3. Ways'
    <2>1. CASE StartSession
        BY <2>1, StartSessionWays
    <2>2. CASE Killed \/ Exits
        BY <2>2, StopsWays DEF Killed, Exits
    <2>3. CASE \E r \in RequestIds : OpenPrompt(r)
        BY <2>3, OpenPromptWays
    <2>4. CASE \E r \in RequestIds, b \in Behaviors : DecideAtTerminal(r, b)
        BY <2>4, DecideAtTerminalWays
    <2>5. CASE \E m \in Message : ApplyLate(m)
        BY <2>5, ApplyLateWays
    <2>6. CASE Dispatch
        BY <2>6, DispatchWays
    <2>7. CASE PostAsk
        BY <2>7, PostAskWays
    <2>8. CASE RegisterAtInit \/ DrainOne \/ DrainUnreadable \/ DrainEnds \/ PostAnswer \/ SpoolAnswer
        BY <2>8, HandlerWays
    <2>9. CASE DeliverDecision
        BY <2>9, DeliverDecisionWays
    <2>10. CASE \/ \E r \in RequestIds, b \in Behaviors : DecideAtHub(r, b)
                \/ Sweep \/ GeneratorEnds \/ HubRestarts
                \/ PumpRegisters \/ PumpConnects \/ StreamBreaks \/ UNCHANGED vars
        BY <2>10, HubWays
    <2>11. CASE HookLists \/ \E i \in DOMAIN spool : HookEvicts(i)
        <3>1. /\ UNCHANGED <<prompt, inbox, handler, wire, pending, downlink>>
              /\ leaked' = leaked \cup (Rids(spool) \ Rids(spool'))
            BY <2>11 DEF HookLists, HookEvicts, claude, hub
        <3> QED BY <3>1, CountedIsKept DEF FlowInv
    <2> QED BY <2>1, <2>2, <2>3, <2>4, <2>5, <2>6, <2>7, <2>8, <2>9, <2>10, <2>11 DEF Next, HandlerStep
<1> QED BY <1>1, <1>2, <1>3 DEF FlowInv

\* The inductive invariant of the permission flow.
THEOREM FlowInvariant == Spec => []FlowInv
BY FlowInvInit, FlowInvKept, PTL DEF Spec

\* The state of the flow has its type, for every number of prompts, sessions,
\* tries and faults.
THEOREM FlowTypeCorrect == Spec => []TypeOK
<1>1. FlowInv => TypeOK
    BY DEF FlowInv
<1> QED BY <1>1, FlowInvariant, PTL

\* Once a prompt is decided, a request the hub still lists has its resolution in
\* the channel's hands or counted as lost: dispatch, the durable post and the
\* spool lose no other.
THEOREM NoResolutionIsForgotten == Spec => []NoResolutionForgotten
<1>1. FlowInv => NoResolutionForgotten
    BY DEF FlowInv, Ways
<1> QED BY <1>1, FlowInvariant, PTL

\* The last file of a request the hub still lists goes only with its count, and
\* by a write to a full spool, the Stop hook's listing or a drain that cannot read
\* it (spool.write, _spool_event, drain_spool).
LEMMA SpoolStep ==
    ASSUME FlowInv, [Next]_vars, NEW r \in Rids(spool) \ Rids(spool'), r \in pending'
    PROVE  /\ r \in leaked'
           /\ \/ handler # None /\ handler.step = "answer" /\ Len(spool) >= SpoolCap
              \/ \E i \in DOMAIN spool : i <= condemned /\ spool[i].rid = r
              \/ Draining
<1>0. /\ TypeOK /\ spool \in Seq(Resolution) /\ Len(spool) \in Nat
      /\ SpoolCap \in Nat \ {0}
    BY FlowAssumption DEF FlowInv, TypeOK
<1>1. CASE DrainOne
    BY <1>0, <1>1, DrainKeepsOrPosts
<1>2. CASE SpoolAnswer
    <2>1. PICK gone \in SUBSET Victims :
              /\ \/ spool' = Written(gone, handler.post.rid, handler.post.behavior)
                 \/ spool' = Remaining(gone)
              /\ Rids(spool) \ Rids(spool') \subseteq leaked'
        BY <1>2 DEF SpoolAnswer
    <2>2. handler.post.rid \in RequestIds /\ handler.post.behavior \in Behaviors
        BY <1>2 DEF FlowInv, SpoolAnswer, HandlerMatches, Answer
    <2>3. Rids(Remaining(gone)) \subseteq Rids(spool')
        <3>1. Rids(Written(gone, handler.post.rid, handler.post.behavior))
                  = Rids(Remaining(gone)) \cup {handler.post.rid}
            BY <1>0, <2>2, WrittenTyped
        <3> QED BY <2>1, <3>1
    <2>4. PICK i \in DOMAIN spool : r = spool[i].rid
        BY DEF Rids
    <2>5. i \in gone
        <3>1. gone \in SUBSET DOMAIN spool
            BY <1>0, VictimsTyped
        <3> QED BY <1>0, <2>3, <2>4, <3>1, RemainingTyped
    <2>6. i \in 1..(Len(spool) + 1 - SpoolCap)
        BY <2>5 DEF Victims
    <2>7. Len(spool) >= SpoolCap
        BY <1>0, <2>6
    <2> QED BY <1>2, <2>1, <2>7 DEF SpoolAnswer
<1>3. CASE DrainUnreadable
    BY <1>3 DEF DrainUnreadable
<1>4. CASE \E i \in DOMAIN spool : HookEvicts(i)
    <2>1. PICK i \in DOMAIN spool : HookEvicts(i)
        BY <1>4
    <2>2. Rids(spool) \subseteq Rids(spool') \cup {spool[i].rid}
        BY <1>0, <2>1, UnlinkedTyped DEF HookEvicts
    <2> QED BY <2>1, <2>2 DEF HookEvicts
<1>5. CASE UNCHANGED spool
    BY <1>5
<1>6. [Next]_vars => \/ DrainOne \/ SpoolAnswer \/ DrainUnreadable
                     \/ (\E i \in DOMAIN spool : HookEvicts(i)) \/ UNCHANGED spool
    BY DEF Next, HandlerStep, StartSession, Killed, Exits, Stops, OpenPrompt, DecideAtTerminal,
           DecideAtHub, ApplyLate, Sweep, GeneratorEnds, HubRestarts, Dispatch, RegisterAtInit,
           DrainEnds, PostAsk, PostAnswer, PumpRegisters, PumpConnects, StreamBreaks,
           DeliverDecision, HookLists, files, vars
<1> QED BY <1>1, <1>2, <1>3, <1>4, <1>5, <1>6

\* So a spooled resolution outlives the process, the session and every failure of
\* a post; the two caps and an unreadable file are the only ways to lose it.
THEOREM SpoolOutlivesTheProcess == Spec => SpoolKeepsWhatTheHubLacks
<1>1. FlowInv /\ [Next]_vars
          => [\A r \in Rids(spool) \ Rids(spool') :
                 r \in pending' =>
                     /\ r \in leaked'
                     /\ \/ handler # None /\ handler.step = "answer" /\ Len(spool) >= SpoolCap
                        \/ \E i \in DOMAIN spool : i <= condemned /\ spool[i].rid = r
                        \/ Draining]_vars
    BY SpoolStep
<1> QED BY <1>1, FlowInvariant, PTL DEF Spec, SpoolKeepsWhatTheHubLacks
-----------------------------------------------------------------------------
\* A drain is done with files that are there, and only a drain is.
PassedInDrain == IF Draining THEN passed <= Len(spool) ELSE passed = 0

\* One file unlinked, and what it does to the files a drain is done with.
LEMMA UnlinkedCounts ==
    ASSUME TypeOK, NEW i \in DOMAIN spool, Unlinked({i})
    PROVE  Len(spool') = Len(spool) - 1 /\ passed' = IF i <= passed THEN passed - 1 ELSE passed
<1>1. spool \in Seq(Resolution) /\ passed \in Nat /\ i \in Nat \ {0}
    BY DEF TypeOK
<1>2. Len(spool') = Len(spool) - 1
    BY <1>1, OneGone DEF Unlinked
<1>3. passed' = IF i \in 1..passed THEN passed - 1 ELSE passed
    BY <1>1, LeftOfFirstOne DEF Unlinked
<1> QED BY <1>1, <1>2, <1>3

\* The three counts of a drain, as numbers.
LEMMA DrainCounts ==
    ASSUME TypeOK
    PROVE  /\ Len(spool) \in Nat /\ passed \in Nat /\ DOMAIN spool = 1..Len(spool)
           /\ MaxRetries \in Nat \ {0}
BY FlowAssumption DEF TypeOK

\* A step of the drain that goes on: one file less before it, whether it was
\* removed or passed over.
LEMMA DrainGoesOn ==
    ASSUME TypeOK, passed < Len(spool),
           (Unlinked({passed + 1}) /\ UNCHANGED stuck) \/ StaysBehind
    PROVE  /\ Len(spool') \in Nat /\ passed' \in Nat /\ passed' <= Len(spool')
           /\ Len(spool') - passed' = Len(spool) - passed - 1
<1>1. Len(spool) \in Nat /\ passed \in Nat /\ DOMAIN spool = 1..Len(spool)
    BY DrainCounts
<1>2. CASE Unlinked({passed + 1})
    <2>1. passed + 1 \in DOMAIN spool
        BY <1>1
    <2>2. /\ Len(spool') = Len(spool) - 1
          /\ passed' = IF passed + 1 <= passed THEN passed - 1 ELSE passed
        BY <1>2, <2>1, UnlinkedCounts
    <2>3. passed' = passed
        BY <1>1, <2>2
    <2> QED BY <1>1, <2>2, <2>3
<1>3. CASE StaysBehind
    BY <1>1, <1>3 DEF StaysBehind
<1> QED BY <1>2, <1>3

\* The hook takes a file from the drain, behind or before it.
LEMMA HookTakesOne ==
    ASSUME TypeOK, NEW i \in DOMAIN spool, HookEvicts(i)
    PROVE  /\ Len(spool') \in Nat /\ Len(spool') <= Len(spool)
           /\ passed = 0 => passed' = 0
           /\ passed <= Len(spool) => passed' <= Len(spool')
           /\ Len(spool') - passed' <= Len(spool) - passed
           /\ passed' \in Int
<1>1. Len(spool) \in Nat /\ passed \in Nat /\ DOMAIN spool = 1..Len(spool)
    BY DrainCounts
<1>2. Len(spool') = Len(spool) - 1 /\ passed' = IF i <= passed THEN passed - 1 ELSE passed
    BY UnlinkedCounts DEF HookEvicts
<1> QED BY <1>1, <1>2

\* A step that touches neither the handler, nor the spool, nor the drain.
LEMMA OtherSteps ==
    ASSUME [Next]_vars
    PROVE  \/ HandlerStep \/ Dispatch \/ (handler' = None /\ passed' = 0)
           \/ (\E i \in DOMAIN spool : HookEvicts(i))
           \/ UNCHANGED <<handler, spool, passed>>
BY DEF Next, StartSession, Killed, Exits, Stops, OpenPrompt, DecideAtTerminal, DecideAtHub, ApplyLate,
       Sweep, GeneratorEnds, HubRestarts, PumpRegisters, PumpConnects, StreamBreaks, DeliverDecision,
       HookLists, files, vars

\* Every step keeps the count of a drain.
LEMMA PassedKept ==
    ASSUME FlowInv, PassedInDrain, [Next]_vars
    PROVE  PassedInDrain'
<1>0. TypeOK /\ Len(spool) \in Nat /\ passed \in Nat
    BY DrainCounts DEF FlowInv
<1>1. CASE handler' = None /\ passed' = 0
    BY <1>1 DEF PassedInDrain, Draining
<1>2. CASE UNCHANGED <<handler, spool, passed>>
    BY <1>2 DEF PassedInDrain, Draining
<1>3. CASE \E i \in DOMAIN spool : HookEvicts(i)
    <2>1. PICK i \in DOMAIN spool : HookEvicts(i)
        BY <1>3
    <2>2. handler' = handler
        BY <2>1 DEF HookEvicts
    <2> QED BY <1>0, <2>1, <2>2, HookTakesOne DEF PassedInDrain, Draining
<1>4. CASE Dispatch
    <2>1. inbox \in Seq(Message) /\ Head(inbox) \in Message
        BY <1>0, <1>4 DEF TypeOK, Dispatch
    <2>2. Head(inbox).kind \in {"register", "ask", "answer"}
        BY <2>1, MessageShapes
    <2>3. handler'.step \in {"register", "ask", "answer"}
        BY <1>4, <2>1, <2>2, HandlingTyped DEF Dispatch
    <2>4. passed = 0 /\ passed' = 0
        BY <1>4 DEF PassedInDrain, Draining, Dispatch, files
    <2> QED BY <2>3, <2>4 DEF PassedInDrain, Draining
<1>5. CASE RegisterAtInit
    <2>1. passed = 0 /\ passed' = 0 /\ spool' = spool
        BY <1>5 DEF PassedInDrain, Draining, RegisterAtInit, files
    <2> QED BY <1>0, <2>1 DEF PassedInDrain
<1>6. CASE DrainOne \/ DrainUnreadable \/ DrainEnds
    <2>1. CASE handler' = handler /\ passed < Len(spool)
                   /\ ((Unlinked({passed + 1}) /\ UNCHANGED stuck) \/ StaysBehind)
        <3>1. passed' \in Nat /\ passed' <= Len(spool') /\ Draining
            BY <1>0, <1>6, <2>1, DrainGoesOn DEF DrainOne, DrainUnreadable, DrainEnds
        <3> QED BY <2>1, <3>1 DEF PassedInDrain, Draining
    <2>2. CASE handler' = None /\ passed' = 0
        BY <2>2 DEF PassedInDrain, Draining
    <2> QED BY <1>6, <2>1, <2>2 DEF DrainOne, DrainUnreadable, DrainEnds, DrainReturns
<1>7. CASE PostAsk \/ PostAnswer \/ SpoolAnswer
    <2>1. passed = 0 /\ passed' = 0
        BY <1>7 DEF PassedInDrain, Draining, PostAsk, PostAnswer, SpoolAnswer, files
    <2>2. ~Draining'
        <3>1. CASE PostAsk
            <4>1. PICK r \in RequestIds : handler.post = Ask(r)
                BY <3>1 DEF PostAsk, FlowInv, HandlerMatches
            <4>2. "allow" \in Behaviors /\ Answer(r, "allow") \in Message /\ Ask(r).rid = r
                BY FlowAssumption, MessageShapes DEF Ask
            <4>3. handler' = None \/ handler'.step = "answer"
                BY <3>1, <4>1, <4>2, HandlingTyped DEF PostAsk
            <4> QED BY <4>3 DEF Draining
        <3>2. CASE PostAnswer
            <4>1. handler \in Handler /\ handler.step = "answer"
                BY <1>0, <3>2 DEF PostAnswer, TypeOK
            <4>2. handler' = None \/ handler'.step = "answer"
                BY <3>2, <4>1 DEF PostAnswer, Handler
            <4> QED BY <4>2 DEF Draining
        <3>3. CASE SpoolAnswer
            BY <3>3 DEF SpoolAnswer, Draining
        <3> QED BY <1>7, <3>1, <3>2, <3>3
    <2> QED BY <2>1, <2>2 DEF PassedInDrain
<1> QED BY <1>1, <1>2, <1>3, <1>4, <1>5, <1>6, <1>7, OtherSteps DEF HandlerStep

\* What a handler has before it, by its step.
LEMMA WorkIs ==
    ASSUME TypeOK, PassedInDrain, handler # None
    PROVE  /\ handler \in Handler /\ Work \in Nat /\ Work > 0
           /\ handler.step = "register" => Work = Len(spool) + 2
           /\ handler.step = "drain" => Work = Len(spool) - passed + 1 /\ passed <= Len(spool)
           /\ handler.step = "ask" => Work = MaxRetries + 1
           /\ handler.step = "answer" => Work = MaxRetries - handler.tries
<1>1. handler \in Handler
    BY DEF TypeOK
<1>2. /\ handler.step \in {"register", "drain", "ask", "answer"}
      /\ handler.tries \in 0..(MaxRetries - 1)
    BY <1>1 DEF Handler
<1>3. handler.step = "drain" => passed <= Len(spool)
    BY DEF PassedInDrain, Draining
<1>4. Len(spool) \in Nat /\ passed \in Nat /\ MaxRetries \in Nat \ {0}
    BY DrainCounts
<1>5. CASE handler.step = "register"
    BY <1>1, <1>4, <1>5 DEF Work
<1>6. CASE handler.step = "drain"
    BY <1>1, <1>3, <1>4, <1>6 DEF Work
<1>7. CASE handler.step = "ask"
    BY <1>1, <1>4, <1>7 DEF Work
<1>8. CASE handler.step = "answer"
    BY <1>1, <1>2, <1>4, <1>8 DEF Work
<1> QED BY <1>2, <1>5, <1>6, <1>7, <1>8

\* So its work is a number, in this state and in the next.
LEMMA WorkTyped == TypeOK /\ PassedInDrain /\ handler # None => Work \in Nat
BY WorkIs

\* The same of the next state.
LEMMA WorkNext == (TypeOK /\ PassedInDrain /\ handler # None)' => (Work \in Nat)'
BY WorkTyped, PTL

\* A step of the handler leaves it less to do; the hook never more.
LEMMA WorkStep ==
    ASSUME FlowInv, PassedInDrain, [Next]_vars, handler # None
    PROVE  Work' <= Work /\ (HandlerStep => Work' < Work)
<1>0. /\ TypeOK /\ handler \in Handler /\ Work \in Nat /\ Work > 0
      /\ Len(spool) \in Nat /\ passed \in Nat /\ MaxRetries \in Nat \ {0}
    BY WorkIs, DrainCounts DEF FlowInv
<1>1. TypeOK' /\ PassedInDrain'
    BY FlowInvKept, PassedKept DEF FlowInv
<1>2. ASSUME handler' = None
      PROVE  Work' < Work
    BY <1>0, <1>2 DEF Work
<1>3. ASSUME RegisterAtInit PROVE Work' < Work
    <2>1. Work = Len(spool) + 2
        BY <1>0, <1>3, WorkIs DEF RegisterAtInit
    <2>2. /\ handler' # None /\ handler'.step = "drain" /\ passed' = 0 /\ spool' = spool
        <3>1. handler' = [handler EXCEPT !.step = "drain"] /\ handler' \in Handler
            BY <1>0, <1>3 DEF RegisterAtInit, Handler
        <3>2. passed' = 0 /\ spool' = spool
            BY <1>3 DEF RegisterAtInit, PassedInDrain, Draining, files
        <3> QED BY <1>0, <3>1, <3>2, NoneIsNoHandler DEF Handler
    <2>3. Work' = Len(spool) + 1
        BY <1>0, <2>2 DEF Work
    <2> QED BY <1>0, <2>1, <2>3
<1>4. ASSUME DrainOne \/ DrainUnreadable \/ DrainEnds PROVE Work' < Work
    <2>1. CASE handler' = handler /\ passed < Len(spool)
                   /\ ((Unlinked({passed + 1}) /\ UNCHANGED stuck) \/ StaysBehind)
        <3>1. Len(spool') \in Nat /\ passed' \in Nat /\ Len(spool') - passed' = Len(spool) - passed - 1
            BY <1>0, <2>1, DrainGoesOn
        <3>2. handler.step = "drain"
            BY <1>4 DEF DrainOne, DrainUnreadable, DrainEnds, Draining
        <3>3. Work = Len(spool) - passed + 1 /\ Work' = Len(spool') - passed' + 1
            BY <1>0, <2>1, <3>2 DEF Work
        <3> QED BY <1>0, <3>1, <3>3
    <2>2. CASE handler' = None
        BY <1>0, <1>2, <2>2 DEF Work
    <2> QED BY <1>4, <2>1, <2>2 DEF DrainOne, DrainUnreadable, DrainEnds, DrainReturns
<1>5. ASSUME PostAsk PROVE Work' < Work
    <2>1. Work = MaxRetries + 1
        BY <1>0, <1>5, WorkIs DEF PostAsk
    <2>2. PICK r \in RequestIds : handler.post = Ask(r)
        BY <1>5 DEF PostAsk, FlowInv, HandlerMatches
    <2>3. handler' = None \/ (handler' # None /\ handler'.step = "answer" /\ handler'.tries = 0)
        <3>1. "allow" \in Behaviors /\ Answer(r, "allow") \in Message /\ Ask(r).rid = r
            BY FlowAssumption, MessageShapes DEF Ask
        <3>2. Handling("answer", Answer(r, "allow")).tries = 0
            BY DEF Handling
        <3> QED BY <1>5, <2>2, <3>1, <3>2, HandlingTyped DEF PostAsk
    <2>4. CASE handler' # None /\ handler'.step = "answer" /\ handler'.tries = 0
        <3>1. Work' = MaxRetries
            BY <1>0, <2>4 DEF Work
        <3> QED BY <1>0, <2>1, <3>1
    <2>5. CASE handler' = None
        BY <1>0, <1>2, <2>5
    <2> QED BY <2>3, <2>4, <2>5
<1>6. ASSUME PostAnswer PROVE Work' < Work
    <2>1. Work = MaxRetries - handler.tries
        BY <1>0, <1>6, WorkIs DEF PostAnswer
    <2>2. CASE handler' = [handler EXCEPT !.tries = @ + 1] /\ handler' # None
        <3>1. /\ handler'.step = "answer" /\ handler'.tries = handler.tries + 1
              /\ handler.tries \in 0..(MaxRetries - 1)
            BY <1>0, <1>6, <2>2 DEF PostAnswer, Handler
        <3>2. Work' = MaxRetries - (handler.tries + 1)
            BY <2>2, <3>1 DEF Work
        <3> QED BY <1>0, <2>1, <3>1, <3>2
    <2>3. CASE handler' = None
        BY <1>0, <1>2, <2>3
    <2> QED BY <1>6, <2>2, <2>3 DEF PostAnswer
<1>7. ASSUME SpoolAnswer PROVE Work' < Work
    BY <1>0, <1>2, <1>7 DEF SpoolAnswer
<1>8. ASSUME \E i \in DOMAIN spool : HookEvicts(i) PROVE Work' <= Work
    <2>1. PICK i \in DOMAIN spool : HookEvicts(i)
        BY <1>8
    <2>2. handler' = handler
        BY <2>1 DEF HookEvicts
    <2>3. /\ Len(spool') \in Nat /\ Len(spool') <= Len(spool) /\ passed' \in Int
          /\ Len(spool') - passed' <= Len(spool) - passed
        BY <1>0, <2>1, HookTakesOne
    <2>4. Work' <= Work
        <3>1. handler.step \in {"register", "drain", "ask", "answer"}
            BY <1>0 DEF Handler
        <3>2. CASE handler.step = "register"
            BY <1>0, <2>2, <2>3, <3>2 DEF Work
        <3>3. CASE handler.step = "drain"
            BY <1>0, <2>2, <2>3, <3>3 DEF Work
        <3>4. CASE handler.step \in {"ask", "answer"}
            <4>1. Work' = Work
                BY <2>2, <3>4 DEF Work
            <4> QED BY <1>0, <4>1
        <3> QED BY <3>1, <3>2, <3>3, <3>4
    <2> QED BY <2>4
<1>9. ASSUME HandlerStep PROVE Work' < Work
    BY <1>3, <1>4, <1>5, <1>6, <1>7, <1>9 DEF HandlerStep
<1>10. ASSUME UNCHANGED <<handler, spool, passed>> PROVE Work' = Work
    BY <1>10 DEF Work
<1>11. Work' \in Int
    <2>1. CASE handler' = None
        BY <2>1 DEF Work
    <2>2. CASE handler' # None
        BY <1>1, <2>2, WorkNext
    <2> QED BY <2>1, <2>2
<1>12. ~Dispatch
    BY DEF Dispatch
<1> QED BY <1>0, <1>2, <1>8, <1>9, <1>10, <1>11, <1>12, OtherSteps

\* At the start no drain is on.
LEMMA PassedInit == Init => PassedInDrain
BY DEF Init, PassedInDrain, Draining

\* The dispatch loop is never caught in one message, for every number of tries
\* and of files and whatever the Stop hook does: each step of a handler leaves it
\* less to do, and nothing else gives it more.
THEOREM HandlersRunOut == Spec => HandlerWorkRunsOut
<1>1. Init => FlowInv /\ PassedInDrain
    BY FlowInvInit, PassedInit
<1>2. FlowInv /\ PassedInDrain /\ [Next]_vars => (FlowInv /\ PassedInDrain)'
    BY FlowInvKept, PassedKept
<1>3. FlowInv /\ PassedInDrain /\ [Next]_vars
          => [handler # None => Work' <= Work /\ (HandlerStep => Work' < Work)]_vars
    BY WorkStep
<1> QED BY <1>1, <1>2, <1>3, PTL DEF Spec, HandlerWorkRunsOut
=============================================================================
