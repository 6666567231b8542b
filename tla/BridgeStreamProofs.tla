--------------------------- MODULE BridgeStreamProofs ---------------------------
(***************************************************************************)
(* The engine's subscriptions, for every number of workers and streams and *)
(* every size of a queue: one forwarder is subscribed per worker, and the  *)
(* sentinel is the last message of a queue off the list.  Every step moves *)
(* a stream in one of a few ways, and the lock's holder waits on a stream  *)
(* that has left the list.  The second half shows that a stream that lost  *)
(* nothing carries, in order, every event stored for it.                   *)
(***************************************************************************)
EXTENDS BridgeEngineProofs

\* What a step can do to one stream.
Stays(x) == stream'[x] = stream[x]
Puts(x) == /\ stream[x].phase = "open"
           /\ \E m \in Message \ {Closed} : stream'[x] = SafePut(stream[x], m)
Leaves(x) == stream[x].phase = "open" /\ stream'[x] = Delist(stream[x])
Waits(x) == /\ stream[x].phase = "open" /\ lock' = x
            /\ stream'[x] = [stream[x] EXCEPT !.phase = "closed"]
Completes(x) == /\ lock = x /\ lock' = None
                /\ stream'[x] = [stream[x] EXCEPT !.queue = Append(@, Closed)]
Delivers(x) == /\ stream[x].phase \in {"open", "closed"} /\ stream[x].queue # << >>
               /\ stream'[x].queue = Tail(stream[x].queue)
               /\ stream'[x].phase = stream[x].phase /\ stream'[x].scope = stream[x].scope
Ends(x) == \/ lock' # x /\ stream'[x] = IdleStream
           \/ lock' = x /\ stream'[x] = [stream[x] EXCEPT !.phase = "dead"]
Opens(x) == /\ stream[x].phase = "idle"
            /\ stream'[x].phase = "open" /\ stream'[x].queue = << >>
            /\ stream'[x].scope # Global =>
                  \A y \in Streams \ {x} : stream[y].phase = "open" /\ stream[y].scope = stream'[x].scope
                                              => stream'[y].phase = "closed"

Moves(x) == \/ Stays(x) \/ Puts(x) \/ Leaves(x) \/ Waits(x) \/ Completes(x) \/ Delivers(x)
            \/ Ends(x) \/ Opens(x)

\* At most one stream opens, and the lock is taken to wait on a listed queue only.
StreamsMove ==
    /\ \A x \in Streams : Moves(x)
    /\ \A x, y \in Streams : Opens(x) /\ Opens(y) => x = y
    /\ lock' \in {None, lock} \/ (lock' \in Streams /\ Waits(lock'))

\* Nothing follows the sentinel of a queue, which is off the list then.
Sealed(st) ==
    \A i \in DOMAIN st.queue :
        st.queue[i] = Closed => i = Len(st.queue) /\ st.phase \in {"closed", "dead"}

\* The queue the lock's holder waits on is off the list and has no sentinel yet.
LockIsOnAClosing ==
    lock # None =>
        /\ stream[lock].phase \in {"closed", "dead"}
        /\ \A i \in DOMAIN stream[lock].queue : stream[lock].queue[i] # Closed

StreamInv == SentinelIsLast /\ LockIsOnAClosing /\ OneForwarder
-----------------------------------------------------------------------------
\* A fan-out of a message other than the sentinel puts it or leaves a stream alone.
LEMMA FanOutMoves ==
    ASSUME TypeOK, NEW scopes, NEW m \in Message \ {Closed}, FanOut(scopes, m), UNCHANGED lock
    PROVE  StreamsMove
<1>1. \A x \in Streams : Stays(x) \/ Puts(x)
    BY DEF FanOut, Stays, Puts
<1>2. \A x \in Streams : ~Opens(x)
    BY FanOutType DEF Opens
<1> QED BY <1>1, <1>2 DEF StreamsMove, Moves

\* A step that leaves the streams and the lock alone.
LEMMA NothingMoves ==
    ASSUME UNCHANGED <<stream, lock>>
    PROVE  StreamsMove
BY DEF StreamsMove, Moves, Stays, Opens

\* The messages of an event, of a ping and of the terminal are not the sentinel.
LEMMA NotClosed ==
    /\ Ping \in Message \ {Closed} /\ Pty \in Message \ {Closed}
    /\ \A n \in 0..MaxEvents : [tag |-> "event", id |-> n] \in Message \ {Closed}
BY MessageTypes DEF Ping, Pty, Closed, Message

\* Recording an event fans it out once it is saved.
LEMMA RecordMoves ==
    ASSUME TypeOK, NEW w, NEW kind, NEW rid, NEW pending, Record(w, kind, rid, pending)
    PROVE  StreamsMove
<1> DEFINE scopes == IF kind \in ForwardedKinds THEN {w, Global} ELSE {Global}
<1>1. nextId \in 0..MaxEvents /\ UNCHANGED lock
    BY EngineAssumption DEF TypeOK, Record
<1>2. FanOut(scopes, [tag |-> "event", id |-> nextId]) \/ UNCHANGED stream
    BY DEF Record
<1> QED BY <1>1, <1>2, NotClosed, FanOutMoves, NothingMoves

\* So do the signals the engine passes on.
LEMMA SignalMoves ==
    ASSUME TypeOK, NEW w \in Workers,
           \/ RegisterWorker(w) \/ UpdateActiveState(w) \/ UpdateContextPct(w)
           \/ SetRecordingEnabled(w) \/ SyncPtyStream(w)
    PROVE  StreamsMove
<1>1. UNCHANGED lock
    BY DEF RegisterWorker, UpdateActiveState, UpdateContextPct, Touch, SetRecordingEnabled,
           SyncPtyStream
<1>2. \/ UNCHANGED stream \/ FanOut({Global}, Ping) \/ SyncPty(w)
    BY DEF RegisterWorker, UpdateActiveState, UpdateContextPct, Touch, SetRecordingEnabled,
           SyncPtyStream
<1>3. SyncPty(w) => \E scopes \in {{Global}, {ManagerOf[w], Global}} : FanOut(scopes, Pty)
    BY DEF SyncPty
<1> QED BY <1>1, <1>2, <1>3, NotClosed, FanOutMoves, NothingMoves

\* The loop over the subscribers takes one queue off the list, and waits if it is full.
LEMMA CloseMoves ==
    ASSUME TypeOK, NEW w \in Workers, CloseSubscribers(w)
    PROVE  StreamsMove
<1>1. CASE UNCHANGED <<stream, lock>>
    BY <1>1, NothingMoves
<1>2. CASE \E s \in Open(w) : stream' = [stream EXCEPT ![s] = Delist(@)] /\ UNCHANGED lock
    <2>1. PICK s \in Open(w) : stream' = [stream EXCEPT ![s] = Delist(@)] /\ UNCHANGED lock
        BY <1>2
    <2>2. s \in Streams /\ stream[s].phase = "open"
        BY DEF Open
    <2>3. /\ Leaves(s) /\ stream'[s].phase = "closed"
          /\ \A x \in Streams : x # s => Stays(x)
        BY <2>1, <2>2, DelistType DEF TypeOK, Leaves, Stays
    <2> QED BY <2>1, <2>2, <2>3 DEF StreamsMove, Moves, Stays, Opens
<1>3. CASE \E s \in Open(w) : stream' = [stream EXCEPT ![s].phase = "closed"] /\ lock' = s
    <2>1. PICK s \in Open(w) : stream' = [stream EXCEPT ![s].phase = "closed"] /\ lock' = s
        BY <1>3
    <2>2. s \in Streams /\ stream[s].phase = "open"
        BY DEF Open
    <2>3. /\ stream'[s] = [stream[s] EXCEPT !.phase = "closed"] /\ Waits(s)
          /\ \A x \in Streams : x # s => Stays(x)
        BY <2>1, <2>2 DEF TypeOK, Waits, Stays
    <2> QED BY <2>1, <2>2, <2>3 DEF StreamsMove, Moves, Stays, Opens
<1> QED BY <1>1, <1>2, <1>3 DEF CloseSubscribers

\* A purge takes the queues of its workers off the list.
LEMMA PurgeMoves ==
    ASSUME TypeOK, NEW W, NEW kept, Purge(W, kept), UNCHANGED lock
    PROVE  StreamsMove
<1>1. \A x \in Streams : Stays(x) \/ Leaves(x)
    BY DEF Purge, Stays, Leaves
<1>2. \A x \in Streams : stream[x].phase = "idle" => stream'[x] = stream[x]
    BY DEF Purge
<1> QED BY <1>1, <1>2 DEF StreamsMove, Moves, Opens

\* A worker's new subscription takes the older ones off the list.
LEMMA SubscribeMoves ==
    ASSUME TypeOK, NEW s \in Streams, (\E w \in Workers : Subscribe(w, s)) \/ SubscribeAll(s)
    PROVE  StreamsMove
<1> DEFINE fresh(c) == [phase |-> "open", scope |-> c, queue |-> << >>, seen |-> nextId - 1,
                        lossy |-> FALSE]
<1>1. UNCHANGED lock /\ stream[s].phase = "idle"
    BY DEF Subscribe, SubscribeAll
<1>2. ASSUME NEW w \in Workers, Subscribe(w, s)
      PROVE  StreamsMove
    <2>1. stream'[s] = fresh(w)
        BY <1>2 DEF Subscribe
    <2>2. \A y \in Streams \ {s} : (Leaves(y) \/ Stays(y))
        BY <1>2 DEF Subscribe, Open, Leaves, Stays
    <2>3. \A y \in Streams \ {s} : stream[y].phase = "open" /\ stream[y].scope = w
                                       => stream'[y].phase = "closed"
        BY <1>2, DelistType DEF Subscribe, Open, TypeOK
    <2>4. Opens(s)
        BY <1>1, <2>1, <2>3 DEF Opens
    <2>5. \A y \in Streams \ {s} : ~Opens(y)
        BY <1>2 DEF Subscribe, Open, Opens
    <2> QED BY <1>1, <2>2, <2>4, <2>5 DEF StreamsMove, Moves
<1>3. CASE SubscribeAll(s)
    <2>1. stream'[s] = fresh(Global) /\ \A y \in Streams \ {s} : Stays(y)
        BY <1>3 DEF SubscribeAll, Stays, TypeOK
    <2>2. Opens(s) /\ \A y \in Streams \ {s} : ~Opens(y)
        BY <1>1, <2>1 DEF Opens, Stays
    <2> QED BY <1>1, <2>1, <2>2 DEF StreamsMove, Moves
<1> QED BY <1>2, <1>3

\* A generator takes a message, or ends; the waiting put goes through.
LEMMA GeneratorMoves ==
    ASSUME TypeOK, NEW s \in Streams, Deliver(s) \/ Finalise(s) \/ CompletePut
    PROVE  StreamsMove
<1>1. CASE Deliver(s)
    <2>1. Delivers(s) /\ \A x \in Streams \ {s} : Stays(x)
        BY <1>1 DEF Deliver, Delivers, Stays, TypeOK, Stream
    <2>2. UNCHANGED lock /\ ~Opens(s)
        BY <1>1, <2>1 DEF Deliver, Delivers, Opens
    <2> QED BY <2>1, <2>2 DEF StreamsMove, Moves, Stays, Opens
<1>2. CASE Finalise(s)
    <2>1. UNCHANGED lock
        BY <1>2 DEF Finalise
    <2>2. /\ stream'[s] = IF lock = s THEN [stream[s] EXCEPT !.phase = "dead"] ELSE IdleStream
          /\ \A x \in Streams \ {s} : Stays(x)
        BY <1>2 DEF Finalise, Stays, TypeOK
    <2>3. Ends(s) /\ stream'[s].phase # "open"
        BY <2>1, <2>2 DEF Ends, IdleStream, TypeOK, Stream
    <2> QED BY <2>1, <2>2, <2>3 DEF StreamsMove, Moves, Stays, Opens
<1>3. CASE CompletePut
    <2>1. lock \in Streams /\ lock' = None
        BY <1>3 DEF CompletePut, TypeOK
    <2>2. /\ stream'[lock] = [stream[lock] EXCEPT !.queue = Append(@, Closed)]
          /\ \A x \in Streams \ {lock} : Stays(x)
        BY <1>3, <2>1 DEF CompletePut, Stays, TypeOK
    <2>3. Completes(lock) /\ stream'[lock].phase = stream[lock].phase
        BY <2>1, <2>2 DEF Completes, TypeOK, Stream
    <2> QED BY <2>1, <2>2, <2>3 DEF StreamsMove, Moves, Stays, Opens
<1> QED BY <1>1, <1>2, <1>3

\* Every step of the engine moves its streams so.
LEMMA StreamSteps ==
    ASSUME TypeOK, [Next]_vars
    PROVE  StreamsMove
<1>1. CASE \E w \in Workers : \/ RegisterWorker(w) \/ UpdateActiveState(w) \/ UpdateContextPct(w)
                               \/ SetRecordingEnabled(w) \/ SyncPtyStream(w)
    BY <1>1, SignalMoves
<1>2. CASE \E w \in Workers : UnregisterWorker(w) \/ GoodbyeWorker(w)
    <2>1. PICK w \in Workers : UnregisterWorker(w) \/ GoodbyeWorker(w)
        BY <1>2
    <2>2. CloseSubscribers(w) \/ UNCHANGED <<stream, lock>>
        BY <2>1 DEF UnregisterWorker, GoodbyeWorker
    <2> QED BY <2>2, CloseMoves, NothingMoves
<1>3. CASE \E w \in Workers : \/ EnqueueInbound(w) \/ SendInterrupt(w) \/ RecordSessionBoundary(w)
                               \/ RecordOutbound(w)
                               \/ \E r \in RequestIds : \/ RecordPermissionRequest(w, r)
                                                        \/ ResolvePermission(w, r)
    BY <1>3, RecordMoves DEF EnqueueInbound, SendInterrupt, RecordSessionBoundary, RecordOutbound,
                             RecordPermissionRequest, ResolvePermission
<1>4. CASE (\E w \in Workers : PurgeWorker(w)) \/ PurgeStaleWorkers \/ PurgeStaleResumes
    BY <1>4, PurgeMoves DEF PurgeWorker, PurgeStaleWorkers, PurgeStaleResumes
<1>5. CASE \E s \in Streams : Deliver(s) \/ StreamEnds(s) \/ Disconnect(s)
    BY <1>5, GeneratorMoves DEF StreamEnds, Disconnect
<1>6. CASE CompletePut
    <2>1. lock \in Streams
        BY <1>6 DEF CompletePut, TypeOK
    <2> QED BY <1>6, <2>1, GeneratorMoves
<1>7. CASE \E w \in Workers, s \in Streams : Subscribe(w, s)
    BY <1>7, SubscribeMoves
<1>8. CASE \E s \in Streams : SubscribeAll(s)
    <2>1. PICK s \in Streams : SubscribeAll(s)
        BY <1>8
    <2> QED BY <2>1, SubscribeMoves
<1>9. CASE Restart
    <2>1. lock' = None /\ stream' = [s \in Streams |-> IdleStream]
        BY <1>9 DEF Restart
    <2>2. \A x \in Streams : Ends(x) /\ ~Opens(x)
        BY <2>1, EngineAssumption DEF Ends, Opens, IdleStream
    <2> QED BY <2>1, <2>2 DEF StreamsMove, Moves
<1>10. CASE SweepOnDemand \/ PeriodicSweep \/ PurgeStaleWaits \/ Tick \/ UNCHANGED vars
    <2>1. UNCHANGED <<stream, lock>>
        BY <1>10 DEF SweepOnDemand, PeriodicSweep, PurgeStaleWaits, Tick, vars
    <2> QED BY <2>1, NothingMoves
<1> QED BY <1>1, <1>2, <1>3, <1>4, <1>5, <1>6, <1>7, <1>8, <1>9, <1>10 DEF Next
-----------------------------------------------------------------------------
\* A message put in a queue without the sentinel; the sentinel put behind it; the
\* first message taken.
LEMMA QueueShapes ==
    ASSUME NEW q \in Seq(Message), NEW m
    PROVE  /\ DOMAIN Append(q, m) = 1..(Len(q) + 1) /\ DOMAIN q = 1..Len(q) /\ Len(q) \in Nat
           /\ Append(q, m)[Len(q) + 1] = m /\ Len(Append(q, m)) = Len(q) + 1
           /\ \A i \in DOMAIN q : Append(q, m)[i] = q[i]
           /\ q # << >> => /\ DOMAIN Tail(q) = 1..(Len(q) - 1) /\ Len(Tail(q)) = Len(q) - 1
                           /\ \A i \in DOMAIN Tail(q) : Tail(q)[i] = q[i + 1]
<1>1. /\ DOMAIN Append(q, m) = 1..(Len(q) + 1) /\ DOMAIN q = 1..Len(q) /\ Len(q) \in Nat
      /\ Append(q, m)[Len(q) + 1] = m /\ Len(Append(q, m)) = Len(q) + 1
      /\ \A i \in DOMAIN q : Append(q, m)[i] = q[i]
    OBVIOUS
<1>2. ASSUME q # << >>
      PROVE  /\ DOMAIN Tail(q) = 1..(Len(q) - 1) /\ Len(Tail(q)) = Len(q) - 1
             /\ \A i \in DOMAIN Tail(q) : Tail(q)[i] = q[i + 1]
    BY <1>2
<1> QED BY <1>1, <1>2

\* A queue without the sentinel, of a stream in any phase.
LEMMA OpenQueue ==
    ASSUME NEW st \in Stream, Sealed(st), st.phase \notin {"closed", "dead"}
    PROVE  \A i \in DOMAIN st.queue : st.queue[i] # Closed
BY DEF Sealed

\* Putting a message that is not the sentinel, or taking a queue off the list,
\* keeps a listed queue sealed.
LEMMA SafePutSealed ==
    ASSUME NEW st \in Stream, Sealed(st), st.phase = "open"
    PROVE  /\ \A m \in Message \ {Closed} : Sealed(SafePut(st, m))
           /\ Sealed(Delist(st))
<1>1. st.queue \in Seq(Message) /\ \A i \in DOMAIN st.queue : st.queue[i] # Closed
    BY OpenQueue DEF Stream
<1>2. ASSUME NEW m \in Message, Len(st.queue) < QueueCap
      PROVE  SafePut(st, m).queue = Append(st.queue, m)
    BY <1>2 DEF SafePut, Stream
<1>3. ASSUME NEW m \in Message, ~(Len(st.queue) < QueueCap)
      PROVE  SafePut(st, m).queue = st.queue
    BY <1>3 DEF SafePut, Stream
<1>4. ASSUME NEW m \in Message \ {Closed}
      PROVE  Sealed(SafePut(st, m))
    <2>1. \A i \in DOMAIN SafePut(st, m).queue : SafePut(st, m).queue[i] # Closed
        <3>1. CASE Len(st.queue) < QueueCap
            <4>1. \A i \in DOMAIN Append(st.queue, m) : i \in DOMAIN st.queue \/ i = Len(st.queue) + 1
                BY <1>1, QueueShapes
            <4>2. SafePut(st, m).queue = Append(st.queue, m)
                BY <1>2, <3>1
            <4>3. m # Closed /\ Append(st.queue, m)[Len(st.queue) + 1] = m
                BY <1>1, QueueShapes
            <4>4. \A i \in DOMAIN st.queue : Append(st.queue, m)[i] = st.queue[i]
                BY <1>1, QueueShapes
            <4> QED BY <1>1, <4>1, <4>2, <4>3, <4>4
        <3>2. CASE ~(Len(st.queue) < QueueCap)
            BY <1>1, <1>3, <3>2
        <3> QED BY <3>1, <3>2
    <2> QED BY <2>1 DEF Sealed
<1>5. Sealed(Delist(st))
    <2>1. Closed \in Message
        BY MessageTypes
    <2>2. SafePut(st, Closed) \in Stream
        BY <2>1, SafePutType
    <2>3. Delist(st).phase = "closed" /\ Delist(st).queue = SafePut(st, Closed).queue
        BY <2>2 DEF Delist, Stream
    <2>4. CASE Len(st.queue) < QueueCap
        <3>1. Delist(st).queue = Append(st.queue, Closed)
            BY <1>2, <2>1, <2>3, <2>4
        <3>2. \A i \in DOMAIN Append(st.queue, Closed) : i \in DOMAIN st.queue \/ i = Len(st.queue) + 1
            BY <1>1, QueueShapes
        <3> QED BY <1>1, <2>3, <3>1, <3>2, QueueShapes DEF Sealed
    <2>5. CASE ~(Len(st.queue) < QueueCap)
        BY <1>1, <1>3, <2>1, <2>3, <2>5 DEF Sealed
    <2> QED BY <2>4, <2>5
<1> QED BY <1>4, <1>5

\* A step keeps every queue sealed.
LEMMA SealedKept ==
    ASSUME TypeOK, StreamInv, StreamsMove, NEW x \in Streams
    PROVE  Sealed(stream'[x])
<1>0. stream[x] \in Stream /\ Sealed(stream[x]) /\ stream[x].queue \in Seq(Message)
    BY DEF TypeOK, StreamInv, SentinelIsLast, Sealed, Stream
<1>1. CASE Stays(x) \/ Puts(x) \/ Leaves(x)
    BY <1>0, <1>1, SafePutSealed DEF Stays, Puts, Leaves
<1>2. CASE Waits(x)
    <2>1. stream'[x].queue = stream[x].queue
        BY <1>0, <1>2 DEF Waits, Stream
    <2> QED BY <1>0, <1>2, <2>1, OpenQueue DEF Waits, Sealed
<1>3. CASE Completes(x)
    <2>1. /\ \A i \in DOMAIN stream[x].queue : stream[x].queue[i] # Closed
          /\ stream[x].phase \in {"closed", "dead"}
        BY <1>3, EngineAssumption DEF Completes, StreamInv, LockIsOnAClosing
    <2>2. /\ stream'[x].queue = Append(stream[x].queue, Closed)
          /\ stream'[x].phase = stream[x].phase
        BY <1>0, <1>3 DEF Completes, Stream
    <2>3. \A i \in DOMAIN Append(stream[x].queue, Closed) :
              i \in DOMAIN stream[x].queue \/ i = Len(stream[x].queue) + 1
        BY <1>0, QueueShapes
    <2> QED BY <1>0, <2>1, <2>2, <2>3, QueueShapes DEF Sealed
<1>4. CASE Delivers(x)
    <2> DEFINE q == stream[x].queue
    <2>1. q \in Seq(Message) /\ q # << >>
        BY <1>0, <1>4 DEF Delivers
    <2>2. \A i \in DOMAIN Tail(q) : i + 1 \in DOMAIN q /\ Tail(q)[i] = q[i + 1]
                                     /\ (i + 1 = Len(q) => i = Len(Tail(q)))
        BY <2>1, QueueShapes
    <2> QED BY <1>0, <1>4, <2>2 DEF Sealed, Delivers
<1>5. CASE Ends(x)
    <2>1. CASE stream'[x] = IdleStream
        BY <2>1 DEF Sealed, IdleStream
    <2>2. CASE stream'[x] = [stream[x] EXCEPT !.phase = "dead"]
        <3>1. stream'[x].queue = stream[x].queue /\ stream'[x].phase = "dead"
            BY <1>0, <2>2 DEF Stream
        <3> QED BY <1>0, <3>1 DEF Sealed
    <2> QED BY <1>5, <2>1, <2>2 DEF Ends
<1>6. CASE Opens(x)
    BY <1>6 DEF Opens, Sealed
<1> QED BY <1>1, <1>2, <1>3, <1>4, <1>5, <1>6 DEF StreamsMove, Moves

\* The lock stays on a queue off the list, until its sentinel is in.
LEMMA LockKept ==
    ASSUME TypeOK, StreamInv, StreamsMove
    PROVE  LockIsOnAClosing'
<1>1. CASE lock' = None
    BY <1>1 DEF LockIsOnAClosing
<1>2. CASE lock' # None /\ lock' = lock
    <2>1. lock \in Streams /\ stream[lock] \in Stream /\ stream[lock].queue \in Seq(Message)
        BY <1>2 DEF TypeOK, Stream
    <2>2. /\ stream[lock].phase \in {"closed", "dead"}
          /\ \A i \in DOMAIN stream[lock].queue : stream[lock].queue[i] # Closed
        BY <1>2 DEF StreamInv, LockIsOnAClosing
    <2>3. Stays(lock) \/ Delivers(lock) \/ Ends(lock)
        BY <1>2, <2>1, <2>2 DEF StreamsMove, Moves, Puts, Leaves, Waits, Completes, Opens
    <2>4. CASE Stays(lock)
        BY <1>2, <2>2, <2>4 DEF Stays, LockIsOnAClosing
    <2>5. CASE Delivers(lock)
        <3>1. \A i \in DOMAIN Tail(stream[lock].queue) :
                  /\ i + 1 \in DOMAIN stream[lock].queue
                  /\ Tail(stream[lock].queue)[i] = stream[lock].queue[i + 1]
            BY <2>1, <2>5, QueueShapes DEF Delivers
        <3> QED BY <1>2, <2>2, <2>5, <3>1 DEF Delivers, LockIsOnAClosing
    <2>6. CASE Ends(lock)
        <3>1. stream'[lock].queue = stream[lock].queue /\ stream'[lock].phase = "dead"
            BY <1>2, <2>1, <2>6 DEF Ends, Stream
        <3> QED BY <1>2, <2>2, <3>1 DEF LockIsOnAClosing
    <2> QED BY <2>3, <2>4, <2>5, <2>6
<1>3. CASE lock' \in Streams /\ Waits(lock')
    <2> DEFINE s == lock'
    <2>1. stream[s] \in Stream /\ stream[s].phase = "open" /\ Sealed(stream[s])
        BY <1>3 DEF TypeOK, StreamInv, SentinelIsLast, Sealed, Waits
    <2>2. \A i \in DOMAIN stream[s].queue : stream[s].queue[i] # Closed
        BY <2>1, OpenQueue
    <2>3. stream'[s].queue = stream[s].queue /\ stream'[s].phase = "closed"
        BY <1>3, <2>1 DEF Waits, Stream
    <2> QED BY <2>2, <2>3 DEF LockIsOnAClosing
<1> QED BY <1>1, <1>2, <1>3 DEF StreamsMove

\* A forwarder that opens has no listed one beside it.
LEMMA OneForwarderKept ==
    ASSUME TypeOK, StreamInv, StreamsMove
    PROVE  OneForwarder'
<1>1. SUFFICES ASSUME NEW w \in Workers, NEW s \in Streams, NEW x \in Streams,
                      stream'[s].phase = "open", stream'[s].scope = w,
                      stream'[x].phase = "open", stream'[x].scope = w
               PROVE  s = x
    BY DEF OneForwarder, Open
<1>2. ASSUME NEW y \in Streams, stream'[y].phase = "open", ~Opens(y)
      PROVE  stream[y].phase = "open" /\ stream[y].scope = stream'[y].scope
    <2>1. stream[y] \in Stream
        BY DEF TypeOK
    <2>2. CASE Stays(y) \/ Puts(y) \/ Delivers(y)
        BY <1>2, <2>1, <2>2, SafePutType DEF Stays, Puts, Delivers
    <2>3. ~Leaves(y) /\ ~Waits(y) /\ ~Ends(y)
        BY <1>2, <2>1, DelistType DEF Leaves, Waits, Ends, IdleStream, Stream
    <2>4. ~Completes(y)
        <3>1. Completes(y) => stream'[y].phase = stream[y].phase
            BY <2>1 DEF Completes, Stream
        <3> QED BY <1>2, <3>1, EngineAssumption DEF Completes, StreamInv, LockIsOnAClosing
    <2> QED BY <1>2, <2>2, <2>3, <2>4 DEF StreamsMove, Moves
<1>3. w # Global
    BY EngineAssumption
<1>4. CASE Opens(s) /\ Opens(x)
    BY <1>4 DEF StreamsMove
<1>5. CASE Opens(s) /\ ~Opens(x)
    BY <1>1, <1>2, <1>3, <1>5 DEF Opens
<1>6. CASE Opens(x) /\ ~Opens(s)
    BY <1>1, <1>2, <1>3, <1>6 DEF Opens
<1>7. CASE ~Opens(s) /\ ~Opens(x)
    BY <1>1, <1>2, <1>7 DEF StreamInv, OneForwarder, Open
<1> QED BY <1>4, <1>5, <1>6, <1>7

\* The invariant of the subscriptions.
THEOREM StreamInvariant == Spec => []StreamInv
<1>1. Init => StreamInv
    <2>1. Init => \A s \in Streams : stream[s] = IdleStream
        BY DEF Init
    <2>2. Init => lock = None
        BY DEF Init
    <2> QED BY <2>1, <2>2 DEF StreamInv, SentinelIsLast, LockIsOnAClosing, OneForwarder, Open, IdleStream
<1>2. TypeOK /\ StreamInv /\ [Next]_vars => StreamInv'
    <2> SUFFICES ASSUME TypeOK, StreamInv, [Next]_vars
                 PROVE  StreamInv'
        OBVIOUS
    <2>1. StreamsMove
        BY StreamSteps
    <2>2. SentinelIsLast'
        BY <2>1, SealedKept DEF Sealed, SentinelIsLast
    <2> QED BY <2>1, <2>2, LockKept, OneForwarderKept DEF StreamInv
<1> QED BY <1>1, <1>2, TypeCorrect, PTL DEF Spec

\* Only the newest forwarder of a worker is subscribed, whatever registers, leaves,
\* is purged or restarts (subscribe's eviction).
THEOREM OnlyOneForwards == Spec => []OneForwarder
<1>1. StreamInv => OneForwarder
    BY DEF StreamInv
<1> QED BY <1>1, StreamInvariant, PTL

\* Nothing is put behind the sentinel of a queue, and a listed queue has none,
\* although the put of one may wait for its reader (close_subscribers, _safe_put).
THEOREM NothingFollowsTheSentinel == Spec => []SentinelIsLast
<1>1. StreamInv => SentinelIsLast
    BY DEF StreamInv
<1> QED BY <1>1, StreamInvariant, PTL
-----------------------------------------------------------------------------
\* The stream of a forwarder, told by ids: those of a timeline increase, so the
\* events that wait are those that are stored for it, beyond the last one taken.
Ordered(ws, n) ==
    ws # None =>
        /\ \A a \in DOMAIN ws.events : ws.events[a].id < n
        /\ \A a, b \in DOMAIN ws.events : a < b => ws.events[a].id < ws.events[b].id

Forwarded(ws) ==
    IF ws = None THEN {}
    ELSE {ws.events[a].id : a \in {b \in DOMAIN ws.events : ws.events[b].kind \in ForwardedKinds}}
Stored(w) == acked[w] \cap Forwarded(mem[w])

Carries(st, ids, n) ==
    LET events == {i \in DOMAIN st.queue : st.queue[i].tag = "event"} IN
    /\ st.seen < n
    /\ \A i \in events : st.queue[i].id \in ids /\ st.queue[i].id > st.seen
    /\ \A k \in ids : k > st.seen => \E i \in events : st.queue[i].id = k
    /\ \A i, j \in events : i < j => st.queue[i].id < st.queue[j].id

GapInv ==
    /\ \A w \in Workers : Ordered(mem[w], nextId) /\ Ordered(disk[w], nextId)
    /\ \A w \in Workers : \A s \in Open(w) :
          ~stream[s].lossy => Carries(stream[s], Stored(w), nextId)

\* Event ids are numbers.
LEMMA EventIdType == \A e \in Event : e.id \in Nat
<1>1. MaxEvents \in Nat
    BY EngineAssumption
<1> QED BY <1>1 DEF Event

\* The ids an appended event adds, and what a timeline has that keeps its events.
LEMMA AppendOrdered ==
    ASSUME NEW a \in WorkerState, NEW b \in WorkerState, NEW e \in Event,
           b.events = Append(a.events, e), Ordered(a, e.id)
    PROVE  /\ Ordered(b, e.id + 1)
           /\ Forwarded(b) = Forwarded(a) \cup (IF e.kind \in ForwardedKinds THEN {e.id} ELSE {})
<1> DEFINE n == Len(a.events) + 1
<1>1. a.events \in Seq(Event) /\ a # None /\ b # None
    BY NoneIsNoState DEF WorkerState
<1>2. /\ DOMAIN b.events = DOMAIN a.events \cup {n}
      /\ n \in Nat
      /\ \A i \in DOMAIN a.events : i \in Nat /\ i < n /\ b.events[i] = a.events[i]
      /\ b.events[n] = e
    BY <1>1, AppendedEvents
<1>3. e.id \in Nat /\ \A i \in DOMAIN a.events : a.events[i].id \in Nat
    <2>1. \A i \in DOMAIN a.events : a.events[i] \in Event
        BY <1>1
    <2> QED BY <2>1, EventIdType
<1> HIDE DEF n
<1>4. /\ \A i \in DOMAIN a.events : a.events[i].id < e.id
      /\ \A i, j \in DOMAIN a.events : i < j => a.events[i].id < a.events[j].id
    BY <1>1 DEF Ordered
<1>5. \A i \in DOMAIN b.events : b.events[i].id < e.id + 1
    BY <1>2, <1>3, <1>4
<1>6. \A i, j \in DOMAIN b.events : i < j => b.events[i].id < b.events[j].id
    BY <1>2, <1>3, <1>4
<1>7. Forwarded(b) = Forwarded(a) \cup (IF e.kind \in ForwardedKinds THEN {e.id} ELSE {})
    BY <1>1, <1>2 DEF Forwarded
<1> QED BY <1>5, <1>6, <1>7 DEF Ordered

\* A rewrite that keeps the events keeps both.
LEMMA SameOrdered ==
    ASSUME NEW a \in WorkerState, NEW b \in WorkerState, b.events = a.events, NEW n
    PROVE  (Ordered(a, n) => Ordered(b, n)) /\ Forwarded(b) = Forwarded(a)
BY NoneIsNoState DEF Ordered, Forwarded

\* A later id is above an ordered timeline, and above all it holds for a forwarder.
LEMMA OrderedBelow ==
    ASSUME NEW ws \in WorkerState \cup {None}, NEW n \in Nat, Ordered(ws, n)
    PROVE  /\ Ordered(ws, n + 1)
           /\ \A k \in Forwarded(ws) : k \in Nat /\ k < n
<1>1. CASE ws = None
    BY <1>1 DEF Ordered, Forwarded
<1>2. CASE ws # None
    <2>1. ws.events \in Seq(Event)
        BY <1>2 DEF WorkerState
    <2>2. \A i \in DOMAIN ws.events : ws.events[i].id \in Nat /\ ws.events[i].id < n
        <3>1. \A i \in DOMAIN ws.events : ws.events[i] \in Event
            BY <2>1
        <3> QED BY <1>2, <3>1, EventIdType DEF Ordered
    <2>3. \A i \in DOMAIN ws.events : ws.events[i].id < n + 1
        BY <2>2
    <2>4. \A k \in Forwarded(ws) : k \in Nat /\ k < n
        BY <1>2, <2>2 DEF Forwarded
    <2> QED BY <1>2, <2>3, <2>4 DEF Ordered
<1> QED BY <1>1, <1>2
-----------------------------------------------------------------------------
\* Where a put goes: behind the queue, or nowhere, and the stream is marked.
LEMMA PutShape ==
    ASSUME NEW st \in Stream, NEW m \in Message, ~SafePut(st, m).lossy
    PROVE  /\ ~st.lossy
           /\ SafePut(st, m).queue = Append(st.queue, m)
           /\ SafePut(st, m).seen = st.seen
<1>1. CASE Len(st.queue) < QueueCap
    BY <1>1 DEF SafePut, Stream
<1>2. CASE ~(Len(st.queue) < QueueCap)
    BY <1>2 DEF SafePut, Stream
<1> QED BY <1>1, <1>2

\* A signal behind the events leaves them what they are.
LEMMA SignalCarries ==
    ASSUME NEW st \in Stream, NEW m \in Message, m.tag # "event", NEW ids, NEW n,
           Carries(st, ids, n), ~SafePut(st, m).lossy
    PROVE  Carries(SafePut(st, m), ids, n)
<1> DEFINE q == Append(st.queue, m)
           events == {i \in DOMAIN st.queue : st.queue[i].tag = "event"}
<1>1. SafePut(st, m).queue = q /\ SafePut(st, m).seen = st.seen
    BY PutShape
<1>2. st.queue \in Seq(Message)
    BY DEF Stream
<1>3. /\ \A i \in DOMAIN st.queue : i \in DOMAIN q /\ q[i] = st.queue[i]
      /\ \A i \in DOMAIN q : i \in DOMAIN st.queue \/ q[i] = m
    BY <1>2, QueueShapes
<1> HIDE DEF q
<1>4. {i \in DOMAIN q : q[i].tag = "event"} = events /\ \A i \in events : q[i] = st.queue[i]
    BY <1>3
<1> QED BY <1>1, <1>4 DEF Carries

\* An event behind the events is the newest one stored.
LEMMA EventCarries ==
    ASSUME NEW st \in Stream, NEW n \in 0..MaxEvents, NEW ids, Carries(st, ids, n),
           \A k \in ids : k \in Nat /\ k < n,
           ~SafePut(st, [tag |-> "event", id |-> n]).lossy
    PROVE  Carries(SafePut(st, [tag |-> "event", id |-> n]), ids \cup {n}, n + 1)
<1> DEFINE m == [tag |-> "event", id |-> n]
           q == Append(st.queue, m)
           last == Len(st.queue) + 1
           events == {i \in DOMAIN st.queue : st.queue[i].tag = "event"}
<1>1. m \in Message /\ m.tag = "event" /\ m.id = n
    BY DEF Message
<1>2. SafePut(st, m).queue = q /\ SafePut(st, m).seen = st.seen
    BY <1>1, PutShape
<1>3. st.queue \in Seq(Message) /\ st.seen \in Nat /\ n \in Nat
    BY EngineAssumption DEF Stream
<1>4. /\ last \in DOMAIN q /\ q[last] = m /\ last \in Nat
      /\ \A i \in DOMAIN st.queue : i \in DOMAIN q /\ q[i] = st.queue[i] /\ i \in Nat /\ i < last
      /\ \A i \in DOMAIN q : i \in DOMAIN st.queue \/ i = last
    BY <1>3, QueueShapes
<1> HIDE DEF q, m, last
<1>5. /\ {i \in DOMAIN q : q[i].tag = "event"} = events \cup {last}
      /\ \A i \in events : q[i] = st.queue[i] /\ i \in Nat /\ i < last
    BY <1>1, <1>4
<1>6. /\ st.seen < n
      /\ \A i \in events : st.queue[i].id \in ids /\ st.queue[i].id > st.seen
      /\ \A k \in ids : k > st.seen => \E i \in events : st.queue[i].id = k
      /\ \A i, j \in events : i < j => st.queue[i].id < st.queue[j].id
    BY DEF Carries
<1> HIDE DEF events
<1>7. st.seen < n + 1
    BY <1>3, <1>6
<1>8. \A i \in events \cup {last} : q[i].id \in ids \cup {n} /\ q[i].id > st.seen
    BY <1>1, <1>3, <1>4, <1>5, <1>6
<1>9. \A k \in ids \cup {n} : k > st.seen => \E i \in events \cup {last} : q[i].id = k
    BY <1>1, <1>4, <1>5, <1>6
<1>10. \A i, j \in events \cup {last} : i < j => q[i].id < q[j].id
    <2>1. \A i \in events : q[i].id < n /\ ~(last < i) /\ ~(last < last)
        BY <1>4, <1>5, <1>6
    <2> QED BY <1>1, <1>4, <1>5, <1>6, <2>1
<1> QED BY <1>2, <1>5, <1>7, <1>8, <1>9, <1>10 DEF Carries, m

\* The generator takes the oldest message: an event that leaves the queue is seen.
LEMMA TakeCarries ==
    ASSUME NEW st \in Stream, NEW after \in Stream, NEW ids, NEW n \in Nat, Carries(st, ids, n),
           \A k \in ids : k \in Nat /\ k < n,
           st.queue # << >>, after.queue = Tail(st.queue),
           after.seen = IF Head(st.queue).tag = "event" THEN Head(st.queue).id ELSE st.seen
    PROVE  Carries(after, ids, n)
<1> DEFINE q == st.queue
           events == {i \in DOMAIN q : q[i].tag = "event"}
           left == {i \in DOMAIN after.queue : after.queue[i].tag = "event"}
<1>1. q \in Seq(Message) /\ st.seen \in Nat /\ Head(q) = q[1] /\ 1 \in DOMAIN q
    BY EngineAssumption DEF Stream
<1>2. /\ DOMAIN q = 1..Len(q) /\ Len(q) \in Nat
      /\ DOMAIN Tail(q) = 1..(Len(q) - 1)
      /\ \A i \in DOMAIN Tail(q) : Tail(q)[i] = q[i + 1]
    BY <1>1, QueueShapes
<1>3. /\ \A i \in left : i \in Nat /\ i + 1 \in events /\ after.queue[i] = q[i + 1] /\ 1 < i + 1
      /\ \A i \in events : i = 1 \/ (i - 1 \in left /\ after.queue[i - 1] = q[i])
    <2>1. \A i \in DOMAIN Tail(q) : i \in Nat /\ i + 1 \in DOMAIN q /\ 1 < i + 1
        BY <1>2
    <2>2. \A i \in DOMAIN q : i = 1 \/ (i - 1 \in DOMAIN Tail(q) /\ (i - 1) + 1 = i)
        BY <1>2
    <2> QED BY <1>2, <2>1, <2>2
<1>4. /\ st.seen < n
      /\ \A i \in events : q[i].id \in ids /\ q[i].id > st.seen
      /\ \A k \in ids : k > st.seen => \E i \in events : q[i].id = k
      /\ \A i, j \in events : i < j => q[i].id < q[j].id
    BY DEF Carries
<1>5. \A i, j \in left : i < j => i + 1 < j + 1
    BY <1>3
<1> HIDE DEF q, events, left
<1>6. \A i, j \in left : i < j => after.queue[i].id < after.queue[j].id
    BY <1>3, <1>4, <1>5
<1>7. CASE 1 \in events
    <2>1. after.seen = q[1].id
        BY <1>1, <1>7 DEF events, q
    <2>2. after.seen \in ids /\ after.seen \in Nat /\ after.seen < n /\ after.seen > st.seen
        BY <1>4, <1>7, <2>1
    <2>3. \A i \in left : after.queue[i].id \in ids /\ after.queue[i].id > after.seen
        <3>1. \A i \in left : q[1].id < q[i + 1].id /\ q[1].id \in Nat /\ q[i + 1].id \in Nat
            BY <1>3, <1>4, <1>7
        <3> QED BY <1>3, <1>4, <2>1, <3>1
    <2>4. ASSUME NEW k \in ids, k > after.seen
          PROVE  \E i \in left : after.queue[i].id = k
        <3>1. k > st.seen /\ k # q[1].id
            BY <1>1, <2>1, <2>2, <2>4
        <3>2. PICK i \in events : q[i].id = k
            BY <1>4, <3>1
        <3>3. i - 1 \in left /\ after.queue[i - 1] = q[i]
            BY <1>3, <3>1, <3>2
        <3> QED BY <3>2, <3>3
    <2> QED BY <1>6, <2>2, <2>3, <2>4 DEF Carries, left
<1>8. CASE 1 \notin events
    <2>1. after.seen = st.seen
        BY <1>1, <1>8 DEF events, q
    <2>2. \A i \in left : after.queue[i].id \in ids /\ after.queue[i].id > after.seen
        BY <1>3, <1>4, <2>1
    <2>3. \A k \in ids : k > after.seen => \E i \in left : after.queue[i].id = k
        <3>1. SUFFICES ASSUME NEW k \in ids, k > after.seen
                       PROVE  \E i \in left : after.queue[i].id = k
            OBVIOUS
        <3>2. PICK i \in events : q[i].id = k
            BY <1>4, <2>1, <3>1
        <3>3. i - 1 \in left /\ after.queue[i - 1] = q[i]
            BY <1>3, <1>8, <3>2
        <3> QED BY <3>2, <3>3
    <2> QED BY <1>4, <1>6, <2>1, <2>2, <2>3 DEF Carries, left
<1> QED BY <1>7, <1>8

\* A subscription begins behind everything stored so far.
LEMMA FreshCarries ==
    ASSUME NEW st, NEW n \in Nat, NEW ids, \A k \in ids : k \in Nat /\ k < n,
           st.queue = << >>, st.seen = n - 1
    PROVE  Carries(st, ids, n)
<1>1. \A k \in ids : ~(k > n - 1)
    OBVIOUS
<1>2. n - 1 < n
    OBVIOUS
<1> QED BY <1>1, <1>2 DEF Carries
-----------------------------------------------------------------------------
\* What a step that records no event does to a stream that is listed after it.
QuietMove(x) ==
    \/ stream'[x].phase # "open"
    \/ Stays(x)
    \/ \E m \in {Ping, Pty} : stream'[x] = SafePut(stream[x], m)
    \/ Deliver(x)
    \/ stream'[x].queue = << >> /\ stream'[x].seen = nextId - 1

\* Every step records an event or is quiet.
LEMMA QuietSteps ==
    ASSUME TypeOK, StreamInv, [Next]_vars
    PROVE  \/ \E w \in Workers, kind \in Kinds, rid \in RequestIds \cup {None},
                 pending \in SUBSET RequestIds : Recorded(w, kind, rid, pending)
           \/ UNCHANGED nextId /\ \A x \in Streams : QuietMove(x)
<1> DEFINE Calm == UNCHANGED nextId /\ \A x \in Streams : QuietMove(x)
<1>1. ASSUME NEW w \in Workers,
             \/ RegisterWorker(w) \/ UpdateActiveState(w) \/ UpdateContextPct(w)
             \/ SetRecordingEnabled(w) \/ SyncPtyStream(w)
      PROVE  Calm
    <2>1. UNCHANGED nextId /\ (UNCHANGED stream \/ FanOut({Global}, Ping) \/ SyncPty(w))
        BY <1>1 DEF RegisterWorker, UpdateActiveState, UpdateContextPct, Touch, SetRecordingEnabled,
                    SyncPtyStream, timeline
    <2>2. \A x \in Streams : Stays(x) \/ \E m \in {Ping, Pty} : stream'[x] = SafePut(stream[x], m)
        BY <2>1 DEF SyncPty, FanOut, Stays
    <2> QED BY <2>1, <2>2 DEF QuietMove
<1>2. ASSUME NEW w \in Workers, UnregisterWorker(w) \/ GoodbyeWorker(w)
      PROVE  Calm
    <2>1. UNCHANGED nextId /\ (CloseSubscribers(w) \/ UNCHANGED stream)
        BY <1>2 DEF UnregisterWorker, GoodbyeWorker, timeline
    <2>2. CASE UNCHANGED stream
        BY <2>1, <2>2 DEF QuietMove, Stays
    <2>3. CASE \E s \in Open(w) : \/ stream' = [stream EXCEPT ![s] = Delist(@)]
                                  \/ stream' = [stream EXCEPT ![s].phase = "closed"]
        <3>1. PICK s \in Open(w) : \/ stream' = [stream EXCEPT ![s] = Delist(@)]
                                   \/ stream' = [stream EXCEPT ![s].phase = "closed"]
            BY <2>3
        <3>2. s \in Streams /\ stream[s] \in Stream
            BY DEF Open, TypeOK
        <3>3. stream'[s].phase = "closed"
            BY <3>1, <3>2, DelistType DEF TypeOK, Stream
        <3>4. \A x \in Streams \ {s} : Stays(x)
            BY <3>1, <3>2 DEF Stays, TypeOK
        <3> QED BY <2>1, <3>3, <3>4 DEF QuietMove
    <2> QED BY <2>1, <2>2, <2>3 DEF CloseSubscribers
<1>3. ASSUME Purges
      PROVE  Calm
    <2>1. \A x \in Streams : Stays(x) \/ Leaves(x)
        BY <1>3 DEF Purges, Purge, Stays, Leaves
    <2>2. \A x \in Streams : Leaves(x) => stream'[x].phase = "closed"
        BY DelistType DEF TypeOK, Leaves
    <2> QED BY <1>3, <2>1, <2>2 DEF Purges, QuietMove
<1>4. ASSUME NEW s \in Streams, Deliver(s)
      PROVE  Calm
    <2>1. UNCHANGED nextId /\ \A x \in Streams \ {s} : Stays(x)
        BY <1>4 DEF Deliver, Stays, TypeOK, timeline
    <2> QED BY <1>4, <2>1 DEF QuietMove
<1>5. ASSUME NEW s \in Streams, Finalise(s)
      PROVE  Calm
    <2>1. /\ stream'[s] = IF lock = s THEN [stream[s] EXCEPT !.phase = "dead"] ELSE IdleStream
          /\ \A x \in Streams \ {s} : Stays(x)
        BY <1>5 DEF Finalise, Stays, TypeOK
    <2>2. stream'[s].phase # "open"
        BY <2>1 DEF IdleStream, TypeOK, Stream
    <2> QED BY <1>5, <2>1, <2>2 DEF QuietMove, Finalise
<1>6. ASSUME CompletePut
      PROVE  Calm
    <2>1. lock \in Streams /\ stream[lock].phase \in {"closed", "dead"} /\ stream[lock] \in Stream
        BY <1>6 DEF CompletePut, TypeOK, StreamInv, LockIsOnAClosing
    <2>2. stream'[lock].phase # "open" /\ \A x \in Streams \ {lock} : Stays(x)
        BY <1>6, <2>1 DEF CompletePut, Stays, TypeOK, Stream
    <2> QED BY <1>6, <2>2 DEF QuietMove, CompletePut, timeline
<1>7. ASSUME NEW s \in Streams, SubscribeAll(s) \/ \E w \in Workers : Subscribe(w, s)
      PROVE  Calm
    <2>1. stream'[s].queue = << >> /\ stream'[s].seen = nextId - 1
        BY <1>7 DEF Subscribe, SubscribeAll, TypeOK
    <2>2. \A x \in Streams \ {s} : Stays(x) \/ stream'[x] = Delist(stream[x])
        BY <1>7 DEF Subscribe, SubscribeAll, Stays, TypeOK
    <2>3. \A x \in Streams : Delist(stream[x]).phase = "closed"
        BY DelistType DEF TypeOK
    <2> QED BY <1>7, <2>1, <2>2, <2>3 DEF QuietMove, Subscribe, SubscribeAll, timeline
<1>8. ASSUME Restart
      PROVE  Calm
    BY <1>8 DEF Restart, QuietMove, IdleStream
<1>9. ASSUME SweepOnDemand \/ PeriodicSweep \/ PurgeStaleWaits \/ Tick \/ UNCHANGED vars
      PROVE  Calm
    BY <1>9 DEF SweepOnDemand, PeriodicSweep, PurgeStaleWaits, Tick, vars, timeline, QuietMove, Stays
<1>10. nextId \in Int
    BY DEF TypeOK
<1>11. ASSUME NEW w \in Workers,
              \/ EnqueueInbound(w) \/ SendInterrupt(w) \/ RecordSessionBoundary(w) \/ RecordOutbound(w)
              \/ \E r \in RequestIds : RecordPermissionRequest(w, r) \/ ResolvePermission(w, r)
       PROVE  nextId' # nextId
    <2>1. \E kind, rid, pending : Record(w, kind, rid, pending)
        BY <1>11 DEF EnqueueInbound, SendInterrupt, RecordSessionBoundary, RecordOutbound,
                     RecordPermissionRequest, ResolvePermission
    <2>2. nextId' = nextId + 1
        BY <2>1 DEF Record
    <2> QED BY <1>10, <2>2
<1>12. ASSUME (\E w \in Workers : PurgeWorker(w)) \/ PurgeStaleWorkers \/ PurgeStaleResumes
       PROVE  Purges
    <2>1. PurgeCandidates \in SUBSET Workers /\ purging \in SUBSET Workers
        BY DEF PurgeCandidates, TypeOK
    <2>2. CASE \E w \in Workers : PurgeWorker(w)
        BY <2>2 DEF PurgeWorker, Purges
    <2>3. CASE PurgeStaleWorkers
        BY <2>1, <2>3 DEF PurgeStaleWorkers, Purges
    <2>4. CASE PurgeStaleResumes
        BY <2>1, <2>4 DEF PurgeStaleResumes, Purges
    <2> QED BY <1>12, <2>2, <2>3, <2>4
<1> HIDE DEF Calm
<1>13. Calm \/ nextId' # nextId
    BY <1>1, <1>2, <1>3, <1>4, <1>5, <1>6, <1>7, <1>8, <1>9, <1>11, <1>12
       DEF Next, StreamEnds, Disconnect
<1>14. nextId' # nextId => \E w \in Workers, kind \in Kinds, rid \in RequestIds \cup {None},
                 pending \in SUBSET RequestIds : Recorded(w, kind, rid, pending)
    BY TimelineSteps DEF timeline, Rewrite, Sweeps, Purges, Restart
<1> QED BY <1>13, <1>14 DEF Calm
-----------------------------------------------------------------------------
\* What is stored for a forwarder of a worker that get_or_create returns.
LEMMA StoredInState ==
    ASSUME TypeOK, AckedEventsDurable, NEW w \in Workers
    PROVE  Stored(w) = acked[w] \cap Forwarded(GetOrCreate(w))
<1>1. CASE Known(w)
    BY <1>1 DEF Stored, GetOrCreate
<1>2. CASE ~Known(w)
    BY <1>2 DEF Stored, AckedEventsDurable, EventIds, Known
<1> QED BY <1>1, <1>2

\* So get_or_create returns an ordered timeline.
LEMMA GetOrCreateOrdered ==
    ASSUME GapInv, NEW w \in Workers
    PROVE  Ordered(GetOrCreate(w), nextId)
<1>1. Ordered(FreshState, nextId)
    BY DEF Ordered, FreshState
<1> QED BY <1>1 DEF GapInv, GetOrCreate, Known

\* A recorded event: the timelines stay ordered, and what is stored for the
\* forwarder of its worker grows by it, if it is for the forwarder and saved.
LEMMA RecordStores ==
    ASSUME TypeOK, AckedEventsDurable, GapInv, NEW x \in Workers, NEW kind, NEW rid, NEW pending,
           NEW ws \in WorkerState, NEW ok \in Writes, NEW e \in Event,
           Appends(x, kind, rid, pending, ws, ok, e), nextId' = nextId + 1, NEW w \in Workers
    PROVE  /\ Ordered(mem'[w], nextId') /\ Ordered(disk'[w], nextId')
           /\ Stored(w)' = Stored(w) \cup (IF w = x /\ ok /\ kind \in ForwardedKinds THEN {nextId} ELSE {})
<1>1. /\ e.id = nextId /\ e.kind = kind
      /\ ws.events = Append(GetOrCreate(x).events, e)
      /\ mem'[w] = (IF w = x THEN ws ELSE mem[w])
      /\ disk'[w] = (IF w = x /\ ok THEN ws ELSE disk[w])
      /\ acked'[w] = (IF w = x /\ ok THEN acked[w] \cup {nextId} ELSE acked[w])
    BY DEF Appends, Commit, TypeOK
<1>2. /\ nextId \in Nat /\ GetOrCreate(x) \in WorkerState
      /\ mem[w] \in WorkerState \cup {None} /\ disk[w] \in WorkerState \cup {None}
      /\ Ordered(mem[w], nextId) /\ Ordered(disk[w], nextId) /\ Ordered(GetOrCreate(x), nextId)
    BY GetOrCreateType, GetOrCreateOrdered DEF TypeOK, GapInv
<1>3. /\ Ordered(ws, nextId + 1)
      /\ Forwarded(ws) = Forwarded(GetOrCreate(x)) \cup (IF kind \in ForwardedKinds THEN {nextId} ELSE {})
    BY <1>1, <1>2, AppendOrdered
<1>4. Ordered(mem[w], nextId + 1) /\ Ordered(disk[w], nextId + 1)
    BY <1>2, OrderedBelow
<1>5. nextId \notin Forwarded(GetOrCreate(x)) /\ nextId \notin acked[x]
    <2>1. \A k \in Forwarded(GetOrCreate(x)) : k < nextId
        BY <1>2, OrderedBelow
    <2>2. \A k \in acked[x] : \E i \in DOMAIN mem[x].events : mem[x] # None /\ k = mem[x].events[i].id
        BY DEF AckedEventsDurable, EventIds
    <2>3. \A k \in acked[x] : k < nextId
        BY <2>2 DEF GapInv, Ordered
    <2>4. ~(nextId < nextId)
        BY <1>2
    <2> QED BY <2>1, <2>3, <2>4
<1>6. Stored(w)' = acked'[w] \cap Forwarded(mem'[w])
    BY DEF Stored, Forwarded
<1>7. Stored(x) = acked[x] \cap Forwarded(GetOrCreate(x))
    BY StoredInState
<1>8. Stored(w)' = Stored(w) \cup (IF w = x /\ ok /\ kind \in ForwardedKinds THEN {nextId} ELSE {})
    <2>1. CASE w # x
        BY <1>1, <1>6, <2>1 DEF Stored
    <2>2. CASE w = x
        BY <1>1, <1>3, <1>5, <1>6, <1>7, <2>2
    <2> QED BY <2>1, <2>2
<1> QED BY <1>1, <1>3, <1>4, <1>8

\* A quiet step: the timelines stay ordered, and what is stored for a forwarder
\* stays, unless no stream of the worker is listed after it.
LEMMA QuietStores ==
    ASSUME TypeOK, AckedEventsDurable, GapInv, [Next]_vars, UNCHANGED nextId, NEW w \in Workers
    PROVE  /\ Ordered(mem'[w], nextId) /\ Ordered(disk'[w], nextId)
           /\ \/ Stored(w)' = Stored(w)
              \/ \A s \in Streams : ~(stream'[s].phase = "open" /\ stream'[s].scope = w)
<1> DEFINE Unlisted == \A s \in Streams : ~(stream'[s].phase = "open" /\ stream'[s].scope = w)
<1>1. /\ Ordered(mem[w], nextId) /\ Ordered(disk[w], nextId) /\ Ordered(None, nextId)
      /\ mem \in [Workers -> WorkerState \cup {None}] /\ disk \in [Workers -> WorkerState \cup {None}]
    BY DEF GapInv, TypeOK, Ordered
<1>2. Stored(w)' = acked'[w] \cap Forwarded(mem'[w])
    BY DEF Stored, Forwarded
<1>3. CASE UNCHANGED timeline
    BY <1>1, <1>2, <1>3 DEF timeline, Stored
<1>4. ASSUME NEW x \in Workers, NEW ws \in WorkerState, NEW ok \in Writes, Rewrite(x, ws, ok)
      PROVE  /\ Ordered(mem'[w], nextId) /\ Ordered(disk'[w], nextId)
             /\ Stored(w)' = Stored(w)
    <2>1. GetOrCreate(x) \in WorkerState /\ Ordered(GetOrCreate(x), nextId)
        BY GetOrCreateType, GetOrCreateOrdered
    <2>2. Ordered(ws, nextId) /\ Forwarded(ws) = Forwarded(GetOrCreate(x))
        BY <1>4, <2>1, SameOrdered DEF Rewrite
    <2>3. /\ mem'[w] = (IF w = x THEN ws ELSE mem[w])
          /\ disk'[w] = (IF w = x /\ ok THEN ws ELSE disk[w])
          /\ acked' = acked
        BY <1>4 DEF Rewrite, Commit, TypeOK
    <2>4. Stored(w) = acked[w] \cap Forwarded(mem[w]) /\ Stored(x) = acked[x] \cap Forwarded(GetOrCreate(x))
        BY StoredInState DEF Stored
    <2> QED BY <1>1, <1>2, <2>2, <2>3, <2>4
<1>5. ASSUME NEW from \in [Workers -> WorkerState \cup {None}], NEW W, NEW failed, NEW t, NEW behind,
             SweepSome(W, failed, t, from, behind), Ordered(from[w], nextId)
      PROVE  /\ Ordered(mem'[w], nextId) /\ Ordered(disk'[w], nextId)
             /\ Forwarded(mem'[w]) = Forwarded(from[w])
    <2>1. disk'[w] \in {mem'[w], disk[w]}
        BY <1>5, SweepKeeps
    <2>2. CASE from[w] = None
        BY <1>1, <1>5, <2>1, <2>2, SweepKeeps
    <2>3. CASE from[w] # None
        <3>1. mem'[w] \in WorkerState /\ mem'[w].events = from[w].events /\ from[w] \in WorkerState
            BY <1>5, <2>3, SweepKeeps
        <3> QED BY <1>1, <1>5, <2>1, <3>1, SameOrdered
    <2> QED BY <2>2, <2>3
<1>6. CASE Sweeps
    <2>1. PICK W \in SUBSET Workers, failed \in SUBSET Workers :
             SweepSome(W, failed, now, mem, dirty) /\ UNCHANGED <<nextId, acked>>
        BY <1>6 DEF Sweeps
    <2>2. /\ Ordered(mem'[w], nextId) /\ Ordered(disk'[w], nextId)
          /\ Forwarded(mem'[w]) = Forwarded(mem[w])
        BY <1>1, <1>5, <2>1
    <2> QED BY <1>2, <2>1, <2>2 DEF Stored
<1>7. CASE Purges
    <2>1. PICK W \in SUBSET Workers, kept \in SUBSET Workers : Purge(W, kept)
        BY <1>7 DEF Purges
    <2>2. mem'[w] \in {mem[w], None} /\ disk'[w] \in {disk[w], None}
        BY <2>1 DEF Purge
    <2>3. CASE w \in W
        <3>1. \A s \in Streams : stream[s].phase = "open" /\ stream[s].scope = w => stream'[s] = Delist(stream[s])
            BY <2>1, <2>3 DEF Purge
        <3>2. \A s \in Streams : ~(stream[s].phase = "open" /\ stream[s].scope = w)
                                     => stream'[s] = stream[s] \/ stream'[s] = Delist(stream[s])
            BY <2>1 DEF Purge
        <3>3. \A s \in Streams : Delist(stream[s]).phase = "closed"
            BY DelistType DEF TypeOK
        <3> QED BY <1>1, <2>2, <3>1, <3>2, <3>3
    <2>4. CASE w \notin W
        <3>1. mem'[w] = mem[w] /\ acked'[w] = acked[w]
            BY <2>1, <2>4 DEF Purge, TypeOK
        <3> QED BY <1>1, <1>2, <2>2, <3>1 DEF Stored
    <2> QED BY <2>3, <2>4
<1>8. CASE Restart
    <2>1. PICK t \in now..MaxNow, failed \in SUBSET Workers : SweepSome(Workers, failed, t, disk, {})
        BY <1>8 DEF Restart
    <2>2. Ordered(mem'[w], nextId) /\ Ordered(disk'[w], nextId)
        BY <1>1, <1>5, <2>1
    <2>3. Unlisted
        BY <1>8 DEF Restart, IdleStream
    <2> QED BY <2>2, <2>3
<1>9. ASSUME NEW x \in Workers, NEW kind, NEW rid, NEW pending, Recorded(x, kind, rid, pending)
      PROVE  FALSE
    <2>1. nextId' = nextId + 1 /\ nextId \in Int
        BY <1>9 DEF Recorded, Record, TypeOK
    <2> QED BY <2>1
<1> QED BY <1>3, <1>4, <1>6, <1>7, <1>8, <1>9, TimelineSteps
-----------------------------------------------------------------------------
\* A stream listed after a quiet step carries what it carried.
LEMMA QuietCarries ==
    ASSUME TypeOK, TypeOK', GapInv, NEW w \in Workers, NEW s \in Streams, QuietMove(s),
           stream'[s].phase = "open", stream'[s].scope = w, ~stream'[s].lossy
    PROVE  Carries(stream'[s], Stored(w), nextId)
<1>1. stream[s] \in Stream /\ stream'[s] \in Stream /\ nextId \in Nat
    BY DEF TypeOK
<1>2. \A k \in Stored(w) : k \in Nat /\ k < nextId
    BY <1>1, OrderedBelow DEF Stored, GapInv, TypeOK
<1>3. ASSUME stream[s].phase = "open", stream[s].scope = w, ~stream[s].lossy
      PROVE  Carries(stream[s], Stored(w), nextId)
    BY <1>3 DEF GapInv, Open
<1>4. CASE Stays(s)
    <2>1. stream'[s] = stream[s]
        BY <1>4 DEF Stays
    <2> QED BY <1>3, <2>1
<1>5. ASSUME NEW m \in {Ping, Pty}, stream'[s] = SafePut(stream[s], m)
      PROVE  Carries(stream'[s], Stored(w), nextId)
    <2>1. m \in Message /\ m.tag # "event"
        BY MessageTypes DEF Ping, Pty
    <2>2. stream[s].phase = "open" /\ stream[s].scope = w /\ ~stream[s].lossy
        BY <1>1, <1>5, <2>1, SafePutType, PutShape
    <2>3. Carries(stream[s], Stored(w), nextId)
        BY <1>3, <2>2
    <2>4. ~SafePut(stream[s], m).lossy
        BY <1>5
    <2>5. Carries(SafePut(stream[s], m), Stored(w), nextId)
        BY <1>1, <2>1, <2>3, <2>4, SignalCarries
    <2> QED BY <1>5, <2>5
<1>6. CASE Deliver(s)
    <2>1. /\ stream'[s].phase = stream[s].phase /\ stream'[s].scope = stream[s].scope
          /\ stream'[s].lossy = stream[s].lossy
          /\ stream[s].queue # << >> /\ stream'[s].queue = Tail(stream[s].queue)
          /\ stream'[s].seen = IF Head(stream[s].queue).tag = "event" THEN Head(stream[s].queue).id
                               ELSE stream[s].seen
        BY <1>6 DEF Deliver, TypeOK, Stream
    <2>2. Carries(stream[s], Stored(w), nextId)
        BY <1>3, <2>1
    <2> HIDE DEF QuietMove
    <2> QED BY <1>1, <1>2, <2>1, <2>2, TakeCarries
<1>7. CASE stream'[s].queue = << >> /\ stream'[s].seen = nextId - 1
    BY <1>1, <1>2, <1>7, FreshCarries
<1> QED BY <1>4, <1>5, <1>6, <1>7 DEF QuietMove

\* A stream listed after an event is recorded carries it, if it is stored for it.
LEMMA RecordCarries ==
    ASSUME TypeOK, TypeOK', AckedEventsDurable, GapInv, NEW x \in Workers, NEW kind \in Kinds,
           NEW rid, NEW pending, NEW ws \in WorkerState, NEW ok \in Writes, NEW e \in Event,
           Appends(x, kind, rid, pending, ws, ok, e), nextId' = nextId + 1,
           NEW w \in Workers, NEW s \in Streams,
           stream'[s].phase = "open", stream'[s].scope = w, ~stream'[s].lossy
    PROVE  Carries(stream'[s], Stored(w)', nextId + 1)
<1> DEFINE m == [tag |-> "event", id |-> nextId]
           scopes == IF kind \in ForwardedKinds THEN {x, Global} ELSE {Global}
<1>1. stream[s] \in Stream /\ nextId \in Nat /\ nextId \in 0..MaxEvents /\ m \in Message
    <2>1. e.id = nextId
        BY DEF Appends
    <2>2. nextId \in 1..MaxEvents
        BY <2>1 DEF Event
    <2>3. nextId \in Nat /\ nextId \in 0..MaxEvents
        BY <2>2, EngineAssumption
    <2> QED BY <2>3 DEF Message, TypeOK
<1>2. Stored(w)' = Stored(w) \cup (IF w = x /\ ok /\ kind \in ForwardedKinds THEN {nextId} ELSE {})
    BY RecordStores
<1>3. stream'[s] = (IF ok /\ stream[s].phase = "open" /\ stream[s].scope \in scopes
                    THEN SafePut(stream[s], m) ELSE stream[s])
    BY DEF Appends, FanOut
<1>4. /\ stream[s].phase = "open" /\ stream[s].scope = w
      /\ ~stream[s].lossy
    BY <1>1, <1>3, SafePutType, PutShape
<1>5. w \in scopes <=> w = x /\ kind \in ForwardedKinds
    BY EngineAssumption
<1>6. Carries(stream[s], Stored(w), nextId) /\ \A k \in Stored(w) : k \in Nat /\ k < nextId
    BY <1>1, <1>4, OrderedBelow DEF GapInv, Open, Stored, TypeOK
<1> HIDE DEF scopes
<1>7. CASE ok /\ w \in scopes
    <2>1. stream'[s] = SafePut(stream[s], m) /\ Stored(w)' = Stored(w) \cup {nextId}
        BY <1>2, <1>3, <1>4, <1>5, <1>7
    <2>2. ~SafePut(stream[s], m).lossy
        BY <2>1
    <2> QED BY <1>1, <1>6, <2>1, <2>2, EventCarries
<1>8. CASE ~(ok /\ w \in scopes)
    <2>1. stream'[s] = stream[s] /\ Stored(w)' = Stored(w)
        BY <1>2, <1>3, <1>4, <1>5, <1>8
    <2>2. stream[s].seen \in Nat
        BY <1>1, EngineAssumption DEF Stream
    <2>3. stream[s].seen < nextId + 1
        BY <1>1, <1>6, <2>2 DEF Carries
    <2>4. Carries(stream[s], Stored(w), nextId + 1)
        BY <1>6, <2>3 DEF Carries
    <2> QED BY <2>1, <2>4
<1> QED BY <1>7, <1>8

\* A step keeps the timelines ordered, and every listed stream without a gap.
LEMMA StepGap ==
    TypeOK /\ TypeOK' /\ AckedEventsDurable /\ StreamInv /\ GapInv /\ [Next]_vars => GapInv'
<1> SUFFICES ASSUME TypeOK, TypeOK', AckedEventsDurable, StreamInv, GapInv, [Next]_vars
             PROVE  GapInv'
    OBVIOUS
<1>1. SUFFICES ASSUME NEW w \in Workers
               PROVE  /\ Ordered(mem'[w], nextId') /\ Ordered(disk'[w], nextId')
                      /\ \A s \in Streams :
                            stream'[s].phase = "open" /\ stream'[s].scope = w /\ ~stream'[s].lossy
                                => Carries(stream'[s], Stored(w)', nextId')
    BY DEF GapInv, Open, Ordered, Carries
<1>2. CASE UNCHANGED nextId /\ \A x \in Streams : QuietMove(x)
    <2>1. Ordered(mem'[w], nextId) /\ Ordered(disk'[w], nextId)
        BY <1>2, QuietStores
    <2>2. ASSUME NEW s \in Streams,
                 stream'[s].phase = "open", stream'[s].scope = w, ~stream'[s].lossy
          PROVE  Carries(stream'[s], Stored(w)', nextId)
        <3>1. Stored(w)' = Stored(w)
            BY <1>2, <2>2, QuietStores
        <3>2. Carries(stream'[s], Stored(w), nextId)
            BY <1>2, <2>2, QuietCarries
        <3> QED BY <3>1, <3>2
    <2> QED BY <1>2, <2>1, <2>2
<1>3. ASSUME NEW x \in Workers, NEW kind \in Kinds, NEW rid \in RequestIds \cup {None},
             NEW pending \in SUBSET RequestIds, Recorded(x, kind, rid, pending)
      PROVE  /\ Ordered(mem'[w], nextId') /\ Ordered(disk'[w], nextId')
             /\ \A s \in Streams :
                   stream'[s].phase = "open" /\ stream'[s].scope = w /\ ~stream'[s].lossy
                       => Carries(stream'[s], Stored(w)', nextId')
    <2>1. PICK ws \in WorkerState, ok \in Writes, e \in Event :
             Appends(x, kind, rid, pending, ws, ok, e)
        BY <1>3, RecordedShape DEF Recorded
    <2>2. nextId' = nextId + 1
        BY <1>3 DEF Recorded, Record
    <2>3. Ordered(mem'[w], nextId') /\ Ordered(disk'[w], nextId')
        BY <2>1, <2>2, RecordStores
    <2>4. \A s \in Streams :
             stream'[s].phase = "open" /\ stream'[s].scope = w /\ ~stream'[s].lossy
                 => Carries(stream'[s], Stored(w)', nextId + 1)
        BY <2>1, <2>2, RecordCarries
    <2> QED BY <2>2, <2>3, <2>4
<1> QED BY <1>2, <1>3, QuietSteps

\* What the ids say of the events themselves.
LEMMA GapFree ==
    ASSUME TypeOK, GapInv
    PROVE  NoGapInStream
<1>1. SUFFICES ASSUME NEW w \in Workers, NEW s \in Open(w), ~stream[s].lossy
               PROVE  LET due == Due(mem[w], acked[w], stream[s].seen)
                          carries(i, a) == stream[s].queue[i].id = mem[w].events[a].id
                      IN /\ \A i \in Waiting(s) : \E a \in due : carries(i, a)
                         /\ \A a \in due : \E i \in Waiting(s) : carries(i, a)
                         /\ \A i, j \in Waiting(s), a, b \in due :
                               i < j /\ carries(i, a) /\ carries(j, b) => a < b
    BY DEF NoGapInStream
<1> DEFINE due == Due(mem[w], acked[w], stream[s].seen)
           q == stream[s].queue
<1>2. /\ \A i \in Waiting(s) : q[i].id \in Stored(w) /\ q[i].id > stream[s].seen
      /\ \A k \in Stored(w) : k > stream[s].seen => \E i \in Waiting(s) : q[i].id = k
      /\ \A i, j \in Waiting(s) : i < j => q[i].id < q[j].id
    BY <1>1 DEF GapInv, Carries, Waiting
<1>3. \A i \in Waiting(s) : \E a \in due : q[i].id = mem[w].events[a].id
    BY <1>2 DEF Stored, Forwarded, Due
<1>4. \A a \in due : \E i \in Waiting(s) : q[i].id = mem[w].events[a].id
    <2>1. \A a \in due : mem[w].events[a].id \in Stored(w) /\ mem[w].events[a].id > stream[s].seen
        BY DEF Stored, Forwarded, Due
    <2> QED BY <1>2, <2>1
<1>5. ASSUME NEW i \in Waiting(s), NEW j \in Waiting(s), NEW a \in due, NEW b \in due,
             i < j, q[i].id = mem[w].events[a].id, q[j].id = mem[w].events[b].id
      PROVE  a < b
    <2>1. mem[w] # None /\ a \in DOMAIN mem[w].events /\ b \in DOMAIN mem[w].events
        BY DEF Due
    <2>2. mem[w].events \in Seq(Event)
        BY <2>1 DEF TypeOK, WorkerState
    <2>3. a \in Nat /\ b \in Nat /\ mem[w].events[a].id \in Nat /\ mem[w].events[b].id \in Nat
        <3>1. mem[w].events[a] \in Event /\ mem[w].events[b] \in Event
            BY <2>1, <2>2
        <3>2. a \in Nat /\ b \in Nat
            BY <2>1, <2>2
        <3> QED BY <3>1, <3>2, EventIdType
    <2>4. mem[w].events[a].id < mem[w].events[b].id
        BY <1>2, <1>5
    <2>5. b < a => mem[w].events[b].id < mem[w].events[a].id
        BY <2>1 DEF GapInv, Ordered
    <2>6. a # b /\ ~(b < a)
        BY <2>3, <2>4, <2>5
    <2> QED BY <2>3, <2>6
<1> QED BY <1>3, <1>4, <1>5

\* While nothing was lost to a full queue, a forwarder that is subscribed is
\* handed every event stored for it, once and in order, through evictions, failed
\* writes, sweeps, purges and restarts (_fan_out, _safe_put, subscribe).
THEOREM StreamsHaveNoGap == Spec => []NoGapInStream
<1>1. Init => GapInv
    <2>1. Init => \A w \in Workers : mem[w] = None /\ disk[w] = None
        BY DEF Init
    <2>2. Init => \A s \in Streams : stream[s].phase # "open"
        BY DEF Init, IdleStream
    <2> QED BY <2>1, <2>2 DEF GapInv, Ordered, Open
<1> QED BY <1>1, StepGap, GapFree, TypeCorrect, EventsStayStored, StreamInvariant, PTL DEF Spec
===============================================================================
