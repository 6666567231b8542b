-------------------------- MODULE BridgeEngineProofs --------------------------
(***************************************************************************)
(* Theorems about BridgeEngine, for all values of its constants.           *)
(***************************************************************************)
EXTENDS BridgeEngine, FiniteSetTheorems, TLAPS

(* What _get_or_create_worker returns is a worker state. *)
LEMMA GetOrCreateType ==
    ASSUME TypeOK, NEW w \in Workers
    PROVE  GetOrCreate(w) \in WorkerState
  <1>1. FreshState \in WorkerState
    BY EngineAssumption DEF FreshState, WorkerState
  <1>2. QED
    BY <1>1 DEF TypeOK, GetOrCreate, Known

(* A sweep changes nothing but the pending set, which it can only shrink. *)
LEMMA SweptShape ==
    ASSUME NEW ws \in WorkerState, NEW t
    PROVE  /\ Swept(ws, t) \in WorkerState
           /\ Swept(ws, t).events = ws.events
           /\ Swept(ws, t).lastActivity = ws.lastActivity
           /\ Swept(ws, t).pending = {r \in ws.pending : ~Stale(ws, r, t)}
  <1>1. ws.pending \subseteq RequestIds
    BY DEF WorkerState
  <1>2. {r \in ws.pending : ~Stale(ws, r, t)} \in SUBSET RequestIds
    BY <1>1
  <1>3. ws = [events |-> ws.events, pending |-> ws.pending,
              lastActivity |-> ws.lastActivity, exited |-> ws.exited]
    BY DEF WorkerState
  <1>4. Swept(ws, t) = [events |-> ws.events, pending |-> {r \in ws.pending : ~Stale(ws, r, t)},
                        lastActivity |-> ws.lastActivity, exited |-> ws.exited]
    BY <1>3 DEF Swept
  <1>5. QED
    BY <1>2, <1>4 DEF WorkerState

(* The states an operation other than an append writes: the events are the old ones. *)
LEMMA TouchedShape ==
    ASSUME NEW ws \in WorkerState, NEW t \in 1..MaxNow
    PROVE  /\ [ws EXCEPT !.lastActivity = t] \in WorkerState
           /\ [ws EXCEPT !.pending = {}, !.lastActivity = t] \in WorkerState
           /\ [ws EXCEPT !.exited = TRUE, !.lastActivity = t] \in WorkerState
           /\ [ws EXCEPT !.pending = {}, !.lastActivity = t, !.exited = FALSE] \in WorkerState
  <1>1. t \in 0..MaxNow
    BY EngineAssumption
  <1>2. /\ ws.events \in Seq(Event) /\ ws.pending \in SUBSET RequestIds
        /\ ws.exited \in BOOLEAN /\ {} \in SUBSET RequestIds
    BY DEF WorkerState
  <1>3. [ws EXCEPT !.lastActivity = t] \in WorkerState
    BY <1>1 DEF WorkerState
  <1>4. [ws EXCEPT !.pending = {}, !.lastActivity = t] \in WorkerState
    BY <1>1, <1>2 DEF WorkerState
  <1>5. [ws EXCEPT !.exited = TRUE, !.lastActivity = t] \in WorkerState
    BY <1>1, <1>2 DEF WorkerState
  <1>6. [ws EXCEPT !.pending = {}, !.lastActivity = t, !.exited = FALSE] \in WorkerState
    BY <1>1, <1>2 DEF WorkerState
  <1>7. QED
    BY <1>3, <1>4, <1>5, <1>6

LEMMA MessageTypes == {Ping, Pty, Closed} \subseteq Message
  BY EngineAssumption DEF Ping, Pty, Closed, Message

(* Saving a state keeps the types of what it writes. *)
LEMMA CommitType ==
    ASSUME TypeOK, NEW w \in Workers, NEW ws \in WorkerState, NEW ok \in Writes,
           Commit(w, ws, ok)
    PROVE  /\ mem' \in [Workers -> WorkerState \cup {None}]
           /\ disk' \in [Workers -> WorkerState \cup {None}]
           /\ dirty' \subseteq Workers
           /\ faults' \in 0..MaxFaults
  <1>1. ok \in BOOLEAN /\ (~ok => faults < MaxFaults)
    BY DEF Writes
  <1>2. mem' \in [Workers -> WorkerState \cup {None}] /\ disk' \in [Workers -> WorkerState \cup {None}]
    BY <1>1 DEF Commit, TypeOK
  <1>3. dirty' \subseteq Workers
    BY <1>1 DEF Commit, TypeOK
  <1>4. faults' \in 0..MaxFaults
    BY <1>1, EngineAssumption DEF Commit, TypeOK
  <1>5. QED
    BY <1>2, <1>3, <1>4

(* Putting a message in a queue, or taking the queue off the list, gives a stream. *)
LEMMA SafePutType ==
    ASSUME NEW st \in Stream, NEW m \in Message
    PROVE  /\ SafePut(st, m) \in Stream
           /\ SafePut(st, m).phase = st.phase
           /\ SafePut(st, m).scope = st.scope
  <1>1. Append(st.queue, m) \in Seq(Message)
    BY DEF Stream
  <1>2. CASE Len(st.queue) < QueueCap
    <2>1. SafePut(st, m) = [st EXCEPT !.queue = Append(st.queue, m)]
      BY <1>2 DEF SafePut
    <2>2. QED
      BY <1>1, <2>1 DEF Stream
  <1>3. CASE ~(Len(st.queue) < QueueCap)
    <2>1. SafePut(st, m) = [st EXCEPT !.lossy = TRUE]
      BY <1>3 DEF SafePut
    <2>2. QED
      BY <2>1 DEF Stream
  <1>4. QED
    BY <1>2, <1>3

LEMMA DelistType ==
    ASSUME NEW st \in Stream
    PROVE  /\ Delist(st) \in Stream
           /\ Delist(st).phase = "closed"
  <1>1. Closed \in Message
    BY MessageTypes
  <1>2. SafePut(st, Closed) \in Stream
    BY <1>1, SafePutType
  <1>3. QED
    BY <1>2 DEF Delist, Stream

LEMMA FanOutType ==
    ASSUME TypeOK, NEW scopes, NEW m \in Message, FanOut(scopes, m)
    PROVE  /\ stream' \in [Streams -> Stream]
           /\ \A s \in Streams : /\ stream'[s].phase = stream[s].phase
                                 /\ stream'[s].scope = stream[s].scope
  BY SafePutType DEF FanOut, TypeOK

(***************************************************************************)
(* Type correctness, one lemma per group of actions.                       *)
(***************************************************************************)

(* Appending an event to a timeline: the new state is a worker state. *)
LEMMA ExtendedShape ==
    ASSUME NEW ws \in WorkerState, NEW event \in Event, NEW pending \in SUBSET RequestIds
    PROVE  /\ Extended(ws, event, pending) \in WorkerState
           /\ Extended(ws, event, pending).events = Append(ws.events, event)
           /\ Extended(ws, event, pending).pending = pending
           /\ Extended(ws, event, pending).lastActivity = event.ts
  <1>1. event.ts \in 0..MaxNow
    BY EngineAssumption DEF Event
  <1>2. Append(ws.events, event) \in Seq(Event)
    BY DEF WorkerState
  <1>3. QED
    BY <1>1, <1>2 DEF Extended, WorkerState

LEMMA RecordType ==
    ASSUME TypeOK, NEW w \in Workers, NEW kind \in Kinds, NEW rid \in RequestIds \cup {None},
           NEW pending \in SUBSET RequestIds, Record(w, kind, rid, pending)
    PROVE  TypeOK'
  <1> DEFINE event == [id |-> nextId, kind |-> kind, rid |-> rid, ts |-> now]
             ws == Extended(GetOrCreate(w), event, pending)
             saved == IF kind = "outbound" THEN Swept(ws, now) ELSE ws
             scopes == IF kind \in ForwardedKinds THEN {w, Global} ELSE {Global}
             m == [tag |-> "event", id |-> nextId]
  <1>1. nextId \in 1..MaxEvents /\ nextId' = nextId + 1
    BY EngineAssumption DEF Record, TypeOK
  <1>2. ws \in WorkerState
    <2>1. event \in Event
      BY <1>1 DEF TypeOK, Event
    <2>2. QED
      BY <2>1, GetOrCreateType, ExtendedShape
  <1>3. saved \in WorkerState
    BY <1>2, SweptShape
  <1>4. PICK ok \in Writes :
           /\ Commit(w, saved, ok)
           /\ acked' = IF ok THEN [acked EXCEPT ![w] = @ \cup {nextId}] ELSE acked
           /\ IF ok THEN FanOut(scopes, m) ELSE UNCHANGED stream
    BY DEF Record
  <1>5. m \in Message
    BY <1>1, EngineAssumption DEF Message
  <1>6. stream' \in [Streams -> Stream]
    BY <1>4, <1>5, FanOutType DEF TypeOK
  <1>7. acked' \in [Workers -> SUBSET (1..MaxEvents)]
    BY <1>1, <1>4 DEF TypeOK
  <1>8. /\ mem' \in [Workers -> WorkerState \cup {None}]
        /\ disk' \in [Workers -> WorkerState \cup {None}]
        /\ dirty' \subseteq Workers
        /\ faults' \in 0..MaxFaults
    BY <1>3, <1>4, CommitType
  <1>9. nextId' \in 1..(MaxEvents + 1)
    BY <1>1, EngineAssumption
  <1>10. UNCHANGED <<lock, purging, now, lastSweep>>
    BY DEF Record
  <1>11. QED
    BY <1>6, <1>7, <1>8, <1>9, <1>10 DEF TypeOK

LEMMA CommitOnlyType ==
    ASSUME TypeOK, NEW w \in Workers, NEW ws \in WorkerState, NEW ok \in Writes,
           Commit(w, ws, ok), stream' \in [Streams -> Stream], lock' \in Streams \cup {None},
           UNCHANGED <<purging, now, lastSweep, nextId, acked>>
    PROVE  TypeOK'
  BY CommitType DEF TypeOK

LEMMA CloseSubscribersType ==
    ASSUME TypeOK, NEW w \in Workers, lock = None, CloseSubscribers(w)
    PROVE  stream' \in [Streams -> Stream] /\ lock' \in Streams \cup {None}
  <1>1. CASE Open(w) = {}
    BY <1>1 DEF CloseSubscribers, TypeOK
  <1>2. CASE Open(w) # {}
    <2>1. PICK s \in Open(w) :
            IF Len(stream[s].queue) < QueueCap
            THEN stream' = [stream EXCEPT ![s] = Delist(@)] /\ UNCHANGED lock
            ELSE stream' = [stream EXCEPT ![s].phase = "closed"] /\ lock' = s
      BY <1>2 DEF CloseSubscribers
    <2>2. s \in Streams /\ stream[s] \in Stream
      BY <2>1 DEF Open, TypeOK
    <2>3. Delist(stream[s]) \in Stream
      BY <2>2, DelistType
    <2>4. [stream[s] EXCEPT !.phase = "closed"] \in Stream
      BY <2>2 DEF Stream
    <2>5. QED
      BY <2>1, <2>2, <2>3, <2>4 DEF TypeOK
  <1>3. QED
    BY <1>1, <1>2

LEMMA RegisterType ==
    ASSUME TypeOK, NEW w \in Workers, RegisterWorker(w)
    PROVE  TypeOK'
  <1> DEFINE ws == [GetOrCreate(w) EXCEPT !.pending = {}, !.lastActivity = now, !.exited = FALSE]
  <1>1. PICK ok \in Writes :
           /\ Commit(w, ws, ok)
           /\ IF ok /\ w \notin Managers THEN SyncPty(w) ELSE UNCHANGED stream
    BY DEF RegisterWorker
  <1>2. ws \in WorkerState
    BY GetOrCreateType, TouchedShape DEF TypeOK
  <1>3. stream' \in [Streams -> Stream]
    BY <1>1, MessageTypes, FanOutType DEF SyncPty, TypeOK
  <1>4. QED
    BY <1>1, <1>2, <1>3, CommitOnlyType DEF RegisterWorker, TypeOK

LEMMA PtyType ==
    ASSUME TypeOK, NEW w \in Workers, SetRecordingEnabled(w) \/ SyncPtyStream(w)
    PROVE  TypeOK'
  <1>1. CASE SetRecordingEnabled(w)
    <2>1. PICK ok \in Writes : Commit(w, mem[w], ok) /\ IF ok THEN SyncPty(w) ELSE UNCHANGED stream
      BY <1>1 DEF SetRecordingEnabled
    <2>2. mem[w] \in WorkerState
      BY <1>1 DEF SetRecordingEnabled, Known, TypeOK
    <2>3. stream' \in [Streams -> Stream]
      BY <2>1, MessageTypes, FanOutType DEF SyncPty, TypeOK
    <2>4. QED
      BY <1>1, <2>1, <2>2, <2>3, CommitOnlyType DEF SetRecordingEnabled, TypeOK
  <1>2. CASE SyncPtyStream(w)
    <2>1. stream' \in [Streams -> Stream]
      BY <1>2, MessageTypes, FanOutType DEF SyncPtyStream, SyncPty, TypeOK
    <2>2. QED
      BY <1>2, <2>1 DEF SyncPtyStream, timeline, TypeOK
  <1>3. QED
    BY <1>1, <1>2

LEMMA TouchType ==
    ASSUME TypeOK, NEW w \in Workers, NEW ping \in BOOLEAN, Touch(w, ping)
    PROVE  TypeOK'
  <1> DEFINE ws == [mem[w] EXCEPT !.lastActivity = now]
  <1>1. PICK ok \in Writes :
           /\ Commit(w, ws, ok)
           /\ IF ok /\ ping THEN FanOut({Global}, Ping) ELSE UNCHANGED stream
    BY DEF Touch
  <1>2. mem[w] \in WorkerState
    BY DEF Touch, Known, TypeOK
  <1>3. ws \in WorkerState
    BY <1>2, TouchedShape DEF TypeOK
  <1>4. Ping \in Message
    BY MessageTypes
  <1>5. stream' \in [Streams -> Stream]
    BY <1>1, <1>4, FanOutType DEF TypeOK
  <1>6. QED
    BY <1>1, <1>3, <1>5, CommitOnlyType DEF Touch, TypeOK

LEMMA GoodbyeType ==
    ASSUME TypeOK, NEW w \in Workers, GoodbyeWorker(w)
    PROVE  TypeOK'
  <1> DEFINE ws == [mem[w] EXCEPT !.exited = TRUE, !.lastActivity = now]
  <1>1. CASE Known(w)
    <2>1. PICK ok \in Writes :
             Commit(w, ws, ok) /\ IF ok THEN CloseSubscribers(w) ELSE UNCHANGED <<stream, lock>>
      BY <1>1 DEF GoodbyeWorker
    <2>2. mem[w] \in WorkerState
      BY <1>1 DEF Known, TypeOK
    <2>3. ws \in WorkerState
      BY <2>2, TouchedShape DEF TypeOK
    <2>4. stream' \in [Streams -> Stream] /\ lock' \in Streams \cup {None}
      BY <2>1, CloseSubscribersType DEF GoodbyeWorker, TypeOK
    <2>5. QED
      BY <2>1, <2>3, <2>4, CommitOnlyType DEF GoodbyeWorker
  <1>2. CASE ~Known(w)
    BY <1>2, CloseSubscribersType DEF GoodbyeWorker, TypeOK
  <1>3. QED
    BY <1>1, <1>2

(* A sweep, on the states it is given, keeps the types of what it writes. *)
LEMMA SweepSomeType ==
    ASSUME TypeOK, NEW W, NEW failed, NEW t,
           NEW from \in [Workers -> WorkerState \cup {None}], NEW behind \in SUBSET Workers,
           SweepSome(W, failed, t, from, behind)
    PROVE  /\ mem' \in [Workers -> WorkerState \cup {None}]
           /\ disk' \in [Workers -> WorkerState \cup {None}]
           /\ dirty' \subseteq Workers
           /\ faults' \in 0..MaxFaults
  <1> DEFINE swept == [w \in Workers |->
                 IF w \in W /\ from[w] # None THEN Swept(from[w], t) ELSE from[w]]
             changed == {w \in Workers : swept[w] # from[w]}
  <1>1. swept \in [Workers -> WorkerState \cup {None}]
    BY SweptShape
  <1>2. /\ failed \subseteq changed
        /\ faults + Cardinality(failed) <= MaxFaults
        /\ faults' = faults + Cardinality(failed)
        /\ mem' = swept
        /\ disk' = [w \in Workers |-> IF w \in changed \ failed THEN swept[w] ELSE disk[w]]
        /\ dirty' = (behind \ changed) \cup failed
    BY DEF SweepSome
  <1> HIDE DEF swept
  <1>3. Cardinality(failed) \in Nat
    BY <1>2, EngineAssumption, FS_Subset, FS_CardinalityType
  <1>4. faults' \in 0..MaxFaults
    BY <1>2, <1>3, EngineAssumption DEF TypeOK
  <1>5. disk' \in [Workers -> WorkerState \cup {None}]
    BY <1>1, <1>2 DEF TypeOK
  <1>6. dirty' \subseteq Workers
    BY <1>2
  <1>7. QED
    BY <1>1, <1>2, <1>4, <1>5, <1>6

LEMMA PurgeType ==
    ASSUME TypeOK, NEW W, NEW kept, Purge(W, kept), W \subseteq Workers,
           purging' \in SUBSET Workers, UNCHANGED <<lock, now, lastSweep, nextId>>
    PROVE  TypeOK'
  <1>1. Cardinality(kept) \in Nat
    BY EngineAssumption, FS_Subset, FS_CardinalityType DEF Purge
  <1>2. faults' \in 0..MaxFaults
    BY <1>1, EngineAssumption DEF Purge, TypeOK
  <1>3. /\ mem' \in [Workers -> WorkerState \cup {None}]
        /\ disk' \in [Workers -> WorkerState \cup {None}]
    BY DEF Purge, TypeOK
  <1>4. dirty' \subseteq Workers
    BY DEF Purge, TypeOK
  <1>5. acked' \in [Workers -> SUBSET (1..MaxEvents)]
    BY DEF Purge, TypeOK
  <1>6. stream' \in [Streams -> Stream]
    BY DelistType DEF Purge, TypeOK
  <1>7. QED
    BY <1>2, <1>3, <1>4, <1>5, <1>6 DEF TypeOK

LEMMA SubscribeType ==
    ASSUME TypeOK, NEW s \in Streams,
           SubscribeAll(s) \/ (\E w \in Workers : Subscribe(w, s))
    PROVE  TypeOK'
  <1>1. << >> \in Seq(Message)
    OBVIOUS
  <1>2. \A w \in Scopes : [phase |-> "open", scope |-> w, queue |-> << >>,
                           seen |-> nextId - 1, lossy |-> FALSE] \in Stream
    BY <1>1, EngineAssumption DEF TypeOK, Stream
  <1>3. stream' \in [Streams -> Stream]
    <2>1. CASE SubscribeAll(s)
      BY <1>2, <2>1 DEF SubscribeAll, TypeOK, Scopes
    <2>2. CASE \E w \in Workers : Subscribe(w, s)
      BY <1>2, <2>2, DelistType DEF Subscribe, TypeOK, Scopes
    <2>3. QED
      BY <2>1, <2>2
  <1>4. QED
    BY <1>3 DEF SubscribeAll, Subscribe, timeline, TypeOK

LEMMA DeliverType ==
    ASSUME TypeOK, NEW s \in Streams, Deliver(s)
    PROVE  TypeOK'
  <1> DEFINE st == stream[s]
  <1>1. st \in Stream /\ st.queue \in Seq(Message) /\ st.queue # << >>
    BY DEF TypeOK, Stream, Deliver
  <1>2. Tail(st.queue) \in Seq(Message) /\ Head(st.queue) \in Message
    BY <1>1
  <1>3. Head(st.queue).id \in 0..MaxEvents
    BY <1>2 DEF Message
  <1>4. stream' = [stream EXCEPT ![s] =
            [st EXCEPT !.queue = Tail(st.queue),
                       !.seen = IF Head(st.queue).tag = "event" THEN Head(st.queue).id ELSE st.seen]]
    BY DEF Deliver, TypeOK
  <1>5. [st EXCEPT !.queue = Tail(st.queue),
                   !.seen = IF Head(st.queue).tag = "event" THEN Head(st.queue).id ELSE st.seen] \in Stream
    BY <1>1, <1>2, <1>3 DEF Stream
  <1>6. stream' \in [Streams -> Stream]
    BY <1>4, <1>5 DEF TypeOK
  <1>7. QED
    BY <1>6 DEF Deliver, timeline, TypeOK

LEMMA IdleStreamType == IdleStream \in Stream
  <1>1. << >> \in Seq(Message)
    OBVIOUS
  <1>2. QED
    BY <1>1, EngineAssumption DEF IdleStream, Stream, Scopes

LEMMA FinaliseType ==
    ASSUME TypeOK, NEW s \in Streams, Finalise(s)
    PROVE  TypeOK'
  <1> DEFINE w == stream[s].scope
             last == w \in Workers /\ Open(w) \ {s} = {}
             ws == [mem[w] EXCEPT !.pending = {}, !.lastActivity = now]
  <1>1. [stream[s] EXCEPT !.phase = "dead"] \in Stream
    BY DEF Stream, TypeOK
  <1>2. stream' \in [Streams -> Stream]
    BY <1>1, IdleStreamType DEF Finalise, TypeOK
  <1>3. CASE last /\ Pending(w) # {}
    <2>1. PICK ok \in Writes : Commit(w, ws, ok)
      BY <1>3 DEF Finalise
    <2>2. w \in Workers /\ mem[w] \in WorkerState
      BY <1>3 DEF Pending, Known, TypeOK
    <2>3. ws \in WorkerState
      BY <2>2, TouchedShape DEF TypeOK
    <2>4. QED
      BY <1>2, <2>1, <2>2, <2>3, CommitOnlyType DEF Finalise, TypeOK
  <1>4. CASE ~(last /\ Pending(w) # {})
    BY <1>2, <1>4 DEF Finalise, TypeOK
  <1>5. QED
    BY <1>3, <1>4

LEMMA CompletePutType ==
    ASSUME TypeOK, CompletePut
    PROVE  TypeOK'
  <1>1. lock \in Streams
    BY DEF CompletePut, TypeOK
  <1>2. Append(stream[lock].queue, Closed) \in Seq(Message)
    BY <1>1, MessageTypes DEF TypeOK, Stream
  <1>3. [stream[lock] EXCEPT !.queue = Append(stream[lock].queue, Closed)] \in Stream
    BY <1>1, <1>2 DEF TypeOK, Stream
  <1>4. stream' \in [Streams -> Stream]
    BY <1>1, <1>3 DEF CompletePut, TypeOK
  <1>5. QED
    BY <1>4 DEF CompletePut, timeline, TypeOK

(* The engine's own steps that change no stream: sweeps, restarts, time. *)
LEMMA SweepAndRestartType ==
    ASSUME TypeOK, SweepOnDemand \/ PeriodicSweep \/ Restart \/ Tick
    PROVE  TypeOK'
  <1>1. CASE SweepOnDemand
    BY <1>1, SweepSomeType DEF SweepOnDemand, TypeOK
  <1>2. CASE PeriodicSweep
    BY <1>2, SweepSomeType DEF PeriodicSweep, TypeOK
  <1>3. CASE Restart
    <2>1. PICK t \in now..MaxNow, failed \in SUBSET Workers :
            /\ SweepSome(Workers, failed, t, disk, {})
            /\ stream' = [s \in Streams |-> IdleStream]
            /\ lock' = None /\ purging' = {} /\ now' = t /\ lastSweep' = t
            /\ UNCHANGED <<nextId, acked>>
      BY <1>3 DEF Restart
    <2>2. stream' \in [Streams -> Stream]
      BY <2>1, IdleStreamType
    <2>3. t \in 1..MaxNow
      BY EngineAssumption DEF TypeOK
    <2>4. disk \in [Workers -> WorkerState \cup {None}]
      BY DEF TypeOK
    <2>5. QED
      BY <2>1, <2>2, <2>3, <2>4, SweepSomeType DEF TypeOK
  <1>4. CASE Tick
    BY <1>4, EngineAssumption DEF Tick, timeline, TypeOK
  <1>5. QED
    BY <1>1, <1>2, <1>3, <1>4

LEMMA InitType == Init => TypeOK
  BY EngineAssumption, IdleStreamType DEF Init, TypeOK

LEMMA StepType == TypeOK /\ [Next]_vars => TypeOK'
  <1> SUFFICES ASSUME TypeOK, [Next]_vars
               PROVE  TypeOK'
    OBVIOUS
  <1> USE DEF Kinds
  <1>1. CASE \E w \in Workers : RegisterWorker(w)
    BY <1>1, RegisterType
  <1>2. CASE \E w \in Workers : UnregisterWorker(w)
    BY <1>2, CloseSubscribersType DEF UnregisterWorker, timeline, TypeOK
  <1>3. CASE \E w \in Workers : GoodbyeWorker(w)
    BY <1>3, GoodbyeType
  <1>4. CASE \E w \in Workers : EnqueueInbound(w) \/ SendInterrupt(w)
                                \/ RecordSessionBoundary(w) \/ RecordOutbound(w)
    <2>1. \A w \in Workers : GetOrCreate(w).pending \in SUBSET RequestIds
      BY GetOrCreateType DEF WorkerState
    <2>2. QED
      BY <1>4, <2>1, RecordType
         DEF EnqueueInbound, SendInterrupt, RecordSessionBoundary, RecordOutbound
  <1>5. CASE \E w \in Workers : UpdateActiveState(w) \/ UpdateContextPct(w)
    BY <1>5, TouchType DEF UpdateActiveState, UpdateContextPct
  <1>6. CASE \E w \in Workers : PurgeWorker(w) \/ SetRecordingEnabled(w) \/ SyncPtyStream(w)
    BY <1>6, PurgeType, PtyType DEF PurgeWorker, TypeOK
  <1>7. CASE \E w \in Workers, r \in RequestIds : RecordPermissionRequest(w, r)
    <2>1. PICK w \in Workers, r \in RequestIds : RecordPermissionRequest(w, r)
      BY <1>7
    <2>2. GetOrCreate(w).pending \cup {r} \in SUBSET RequestIds
      BY GetOrCreateType DEF WorkerState
    <2>3. QED
      BY <2>1, <2>2, RecordType DEF RecordPermissionRequest
  <1>8. CASE \E w \in Workers, r \in RequestIds : ResolvePermission(w, r)
    <2>1. PICK w \in Workers, r \in RequestIds : ResolvePermission(w, r)
      BY <1>8
    <2>2. mem[w].pending \ {r} \in SUBSET RequestIds
      BY <2>1 DEF ResolvePermission, Pending, Known, TypeOK, WorkerState
    <2>3. QED
      BY <2>1, <2>2, RecordType DEF ResolvePermission
  <1>9. CASE \E s \in Streams : SubscribeAll(s) \/ (\E w \in Workers : Subscribe(w, s))
    BY <1>9, SubscribeType
  <1>10. CASE \E s \in Streams : Deliver(s)
    BY <1>10, DeliverType
  <1>11. CASE \E s \in Streams : StreamEnds(s) \/ Disconnect(s)
    BY <1>11, FinaliseType DEF StreamEnds, Disconnect
  <1>12. CASE CompletePut
    BY <1>12, CompletePutType
  <1>13. CASE SweepOnDemand \/ PeriodicSweep \/ Restart \/ Tick
    BY <1>13, SweepAndRestartType
  <1>14. CASE PurgeStaleWorkers
    BY <1>14, PurgeType DEF PurgeStaleWorkers, PurgeCandidates, TypeOK
  <1>15. CASE PurgeStaleWaits
    BY <1>15 DEF PurgeStaleWaits, PurgeCandidates, timeline, TypeOK
  <1>16. CASE PurgeStaleResumes
    BY <1>16, PurgeType DEF PurgeStaleResumes, TypeOK
  <1>17. CASE UNCHANGED vars
    BY <1>17 DEF vars, TypeOK
  <1>18. QED
    BY <1>1, <1>2, <1>3, <1>4, <1>5, <1>6, <1>7, <1>8, <1>9, <1>10, <1>11, <1>12,
       <1>13, <1>14, <1>15, <1>16, <1>17 DEF Next

(* Every reachable state of the engine is well typed: a timeline is a sequence
   of events, a queue a sequence of messages, and the lock is held by a stream. *)
THEOREM TypeCorrect == Spec => []TypeOK
  BY InitType, StepType, PTL DEF Spec

(***************************************************************************)
(* What a step does to the timelines.  Every step is one of: no change, a  *)
(* rewrite that keeps the events and adds nothing to the pending set, one  *)
(* recorded event, a sweep, a purge, a restart.                            *)
(***************************************************************************)
Rewrite(w, ws, ok) ==
    /\ Commit(w, ws, ok)
    /\ ws.events = GetOrCreate(w).events
    /\ ws.pending \subseteq GetOrCreate(w).pending
    /\ UNCHANGED <<nextId, acked>>

RecordsRequest(kind, rid, old, pending) ==
    kind = "permission_request" /\ rid \in RequestIds /\ pending = old \cup {rid}
RecordsDecision(kind, rid, old, pending) ==
    kind = "permission_response" /\ rid \in old /\ pending = old \ {rid}
RecordsPlain(kind, rid, old, pending) ==
    /\ kind \in Kinds \ {"permission_request", "permission_response"}
    /\ rid = None
    /\ pending = old

Recorded(w, kind, rid, pending) ==
    /\ Record(w, kind, rid, pending)
    /\ \/ RecordsRequest(kind, rid, GetOrCreate(w).pending, pending)
       \/ RecordsDecision(kind, rid, GetOrCreate(w).pending, pending)
       \/ RecordsPlain(kind, rid, GetOrCreate(w).pending, pending)

Sweeps == \E W \in SUBSET Workers, failed \in SUBSET Workers :
             SweepSome(W, failed, now, mem, dirty) /\ UNCHANGED <<nextId, acked>>
Purges == \E W \in SUBSET Workers, kept \in SUBSET Workers : Purge(W, kept) /\ UNCHANGED nextId

(* A rewrite of the state get_or_create returned, in one of the code's four ways. *)
LEMMA TouchedKeeps ==
    ASSUME NEW ws \in WorkerState, NEW t
    PROVE  /\ [ws EXCEPT !.lastActivity = t].events = ws.events
           /\ [ws EXCEPT !.lastActivity = t].pending = ws.pending
           /\ [ws EXCEPT !.pending = {}, !.lastActivity = t].events = ws.events
           /\ [ws EXCEPT !.pending = {}, !.lastActivity = t].pending = {}
           /\ [ws EXCEPT !.exited = TRUE, !.lastActivity = t].events = ws.events
           /\ [ws EXCEPT !.exited = TRUE, !.lastActivity = t].pending = ws.pending
           /\ [ws EXCEPT !.pending = {}, !.lastActivity = t, !.exited = FALSE].events = ws.events
           /\ [ws EXCEPT !.pending = {}, !.lastActivity = t, !.exited = FALSE].pending = {}
  BY DEF WorkerState

LEMMA TimelineSteps ==
    ASSUME TypeOK, [Next]_vars
    PROVE  \/ UNCHANGED timeline
           \/ \E w \in Workers, ws \in WorkerState, ok \in Writes : Rewrite(w, ws, ok)
           \/ \E w \in Workers, kind \in Kinds, rid \in RequestIds \cup {None},
                pending \in SUBSET RequestIds : Recorded(w, kind, rid, pending)
           \/ Sweeps
           \/ Purges
           \/ Restart
  <1> DEFINE Rewritten == \E w \in Workers, ws \in WorkerState, ok \in Writes : Rewrite(w, ws, ok)
             Appended == \E w \in Workers, kind \in Kinds, rid \in RequestIds \cup {None},
                            pending \in SUBSET RequestIds : Recorded(w, kind, rid, pending)
  <1>1. now \in 1..MaxNow /\ \A w \in Workers : Known(w) => mem[w] \in WorkerState /\ GetOrCreate(w) = mem[w]
    BY DEF TypeOK, Known, GetOrCreate
  <1>2. ASSUME NEW w \in Workers, RegisterWorker(w) PROVE Rewritten
    BY <1>1, <1>2, GetOrCreateType, TouchedShape, TouchedKeeps DEF RegisterWorker, Rewrite
  <1>3. ASSUME NEW w \in Workers, GoodbyeWorker(w) PROVE Rewritten \/ UNCHANGED timeline
    <2>1. CASE Known(w)
      <3> DEFINE ws == [mem[w] EXCEPT !.exited = TRUE, !.lastActivity = now]
      <3>1. mem[w] \in WorkerState /\ GetOrCreate(w) = mem[w]
        BY <1>1, <2>1
      <3>2. ws \in WorkerState
        BY <1>1, <3>1, TouchedShape
      <3>3. ws.events = mem[w].events /\ ws.pending = mem[w].pending
        BY <3>1, TouchedKeeps
      <3>4. \E ok \in Writes : Commit(w, ws, ok) /\ UNCHANGED <<nextId, acked>>
        BY <1>3, <2>1 DEF GoodbyeWorker
      <3> HIDE DEF ws
      <3>5. QED
        BY <3>1, <3>2, <3>3, <3>4 DEF Rewrite
    <2>2. CASE ~Known(w)
      BY <1>3, <2>2 DEF GoodbyeWorker, timeline
    <2>3. QED
      BY <2>1, <2>2
  <1>4. ASSUME NEW w \in Workers, NEW ping \in BOOLEAN, Touch(w, ping) PROVE Rewritten
    <2> DEFINE ws == [mem[w] EXCEPT !.lastActivity = now]
    <2>1. mem[w] \in WorkerState /\ GetOrCreate(w) = mem[w]
      BY <1>1, <1>4 DEF Touch
    <2>2. ws \in WorkerState
      BY <1>1, <2>1, TouchedShape
    <2>3. ws.events = mem[w].events /\ ws.pending = mem[w].pending
      BY <2>1, TouchedKeeps
    <2>4. \E ok \in Writes : Commit(w, ws, ok) /\ UNCHANGED <<nextId, acked>>
      BY <1>4 DEF Touch
    <2> HIDE DEF ws
    <2>5. QED
      BY <2>1, <2>2, <2>3, <2>4 DEF Rewrite
  <1>5. ASSUME NEW w \in Workers, SetRecordingEnabled(w) PROVE Rewritten
    BY <1>1, <1>5 DEF SetRecordingEnabled, Rewrite
  <1>6. ASSUME NEW s \in Streams, Finalise(s) PROVE Rewritten \/ UNCHANGED timeline
    <2> DEFINE w == stream[s].scope
               last == w \in Workers /\ Open(w) \ {s} = {}
    <2>1. CASE last /\ Pending(w) # {}
      <3>1. w \in Workers /\ Known(w)
        BY <2>1 DEF Pending
      <3> DEFINE ws == [mem[w] EXCEPT !.pending = {}, !.lastActivity = now]
      <3>2. mem[w] \in WorkerState /\ GetOrCreate(w) = mem[w]
        BY <1>1, <3>1
      <3>3. ws \in WorkerState
        BY <1>1, <3>2, TouchedShape
      <3>4. ws.events = mem[w].events /\ ws.pending = {}
        BY <3>2, TouchedKeeps
      <3>5. \E ok \in Writes : Commit(w, ws, ok) /\ UNCHANGED <<nextId, acked>>
        BY <1>6, <2>1 DEF Finalise
      <3> HIDE DEF ws
      <3>6. QED
        BY <3>1, <3>2, <3>3, <3>4, <3>5 DEF Rewrite
    <2>2. CASE ~(last /\ Pending(w) # {})
      BY <1>6, <2>2 DEF Finalise, timeline
    <2>3. QED
      BY <2>1, <2>2
  <1>7. \A w \in Workers : GetOrCreate(w).pending \in SUBSET RequestIds
    BY GetOrCreateType DEF WorkerState
  <1>8. ASSUME NEW w \in Workers,
               EnqueueInbound(w) \/ SendInterrupt(w) \/ RecordSessionBoundary(w) \/ RecordOutbound(w)
        PROVE  Appended
    BY <1>7, <1>8 DEF EnqueueInbound, SendInterrupt, RecordSessionBoundary, RecordOutbound,
                      Recorded, RecordsPlain, Kinds
  <1>9. ASSUME NEW w \in Workers, NEW r \in RequestIds, RecordPermissionRequest(w, r)
        PROVE  Appended
    <2>1. GetOrCreate(w).pending \cup {r} \in SUBSET RequestIds
      BY <1>7
    <2>2. QED
      BY <1>9, <2>1 DEF RecordPermissionRequest, Recorded, RecordsRequest, Kinds
  <1>10. ASSUME NEW w \in Workers, NEW r \in RequestIds, ResolvePermission(w, r)
         PROVE  Appended
    <2>1. Known(w) /\ r \in mem[w].pending /\ GetOrCreate(w) = mem[w]
      BY <1>1, <1>10 DEF ResolvePermission, Pending
    <2>2. mem[w].pending \ {r} \in SUBSET RequestIds
      BY <1>7, <2>1
    <2>3. QED
      BY <1>10, <2>1, <2>2 DEF ResolvePermission, Recorded, RecordsDecision, Kinds
  <1>11. ASSUME SweepOnDemand \/ PeriodicSweep PROVE Sweeps
    BY <1>11 DEF SweepOnDemand, PeriodicSweep, Sweeps
  <1>12. ASSUME (\E w \in Workers : PurgeWorker(w)) \/ PurgeStaleWorkers \/ PurgeStaleResumes PROVE Purges
    <2>1. PurgeCandidates \in SUBSET Workers /\ purging \in SUBSET Workers
      BY DEF PurgeCandidates, TypeOK
    <2>2. CASE \E w \in Workers : PurgeWorker(w)
      BY <2>2 DEF PurgeWorker, Purges
    <2>3. CASE PurgeStaleWorkers
      BY <2>1, <2>3 DEF PurgeStaleWorkers, Purges
    <2>4. CASE PurgeStaleResumes
      BY <2>1, <2>4 DEF PurgeStaleResumes, Purges
    <2>5. QED
      BY <1>12, <2>2, <2>3, <2>4
  <1>13. ASSUME \/ \E w \in Workers : UnregisterWorker(w) \/ SyncPtyStream(w)
                \/ \E s \in Streams : SubscribeAll(s) \/ Deliver(s)
                \/ \E w \in Workers, s \in Streams : Subscribe(w, s)
                \/ CompletePut \/ PurgeStaleWaits \/ Tick \/ UNCHANGED vars
         PROVE  UNCHANGED timeline
    BY <1>13 DEF UnregisterWorker, SyncPtyStream, SubscribeAll, Deliver, Subscribe, CompletePut,
                 PurgeStaleWaits, Tick, vars, timeline
  <1>14. QED
    BY <1>2, <1>3, <1>4, <1>5, <1>6, <1>8, <1>9, <1>10, <1>11, <1>12, <1>13
       DEF Next, UpdateActiveState, UpdateContextPct, StreamEnds, Disconnect

(***************************************************************************)
(* Durability.                                                             *)
(***************************************************************************)

(* Sequences one longer: the indices, and what the old ones hold. *)
LEMMA AppendedEvents ==
    ASSUME NEW evs \in Seq(Event), NEW e \in Event
    PROVE  /\ DOMAIN Append(evs, e) = DOMAIN evs \cup {Len(evs) + 1}
           /\ DOMAIN evs = 1..Len(evs)
           /\ Len(evs) \in Nat
           /\ \A i \in DOMAIN evs : Append(evs, e)[i] = evs[i]
           /\ Append(evs, e)[Len(evs) + 1] = e
  OBVIOUS

(* The event e is appended to what get_or_create returns, and fanned out once the *)
(* new state is saved.                                                            *)
Appends(w, kind, rid, pending, ws, ok, e) ==
    /\ e.id = nextId /\ e.kind = kind /\ e.rid = rid
    /\ ws.events = Append(GetOrCreate(w).events, e)
    /\ ws.pending \subseteq pending
    /\ Commit(w, ws, ok)
    /\ acked' = IF ok THEN [acked EXCEPT ![w] = @ \cup {nextId}] ELSE acked
    /\ IF ok THEN FanOut(IF kind \in ForwardedKinds THEN {w, Global} ELSE {Global},
                         [tag |-> "event", id |-> nextId])
             ELSE UNCHANGED stream

(* A recorded event is a well typed event. *)
LEMMA RecordedShape ==
    ASSUME TypeOK, NEW w \in Workers, NEW kind \in Kinds, NEW rid \in RequestIds \cup {None},
           NEW pending \in SUBSET RequestIds, Record(w, kind, rid, pending)
    PROVE  \E ws \in WorkerState, ok \in Writes, e \in Event :
              Appends(w, kind, rid, pending, ws, ok, e)
  <1> DEFINE event == [id |-> nextId, kind |-> kind, rid |-> rid, ts |-> now]
             ws == Extended(GetOrCreate(w), event, pending)
             saved == IF kind = "outbound" THEN Swept(ws, now) ELSE ws
  <1>1. event \in Event
    BY EngineAssumption DEF Record, TypeOK, Event
  <1>2. /\ ws \in WorkerState
        /\ ws.events = Append(GetOrCreate(w).events, event)
        /\ ws.pending = pending
    BY <1>1, GetOrCreateType, ExtendedShape
  <1>3. /\ saved \in WorkerState
        /\ saved.events = Append(GetOrCreate(w).events, event)
        /\ saved.pending \subseteq pending
    <2>1. CASE kind = "outbound"
      BY <1>2, <2>1, SweptShape
    <2>2. CASE kind # "outbound"
      BY <1>2, <2>2
    <2>3. QED
      BY <2>1, <2>2
  <1>4. \E ok \in Writes :
           /\ Commit(w, saved, ok)
           /\ acked' = IF ok THEN [acked EXCEPT ![w] = @ \cup {nextId}] ELSE acked
           /\ IF ok THEN FanOut(IF kind \in ForwardedKinds THEN {w, Global} ELSE {Global},
                                [tag |-> "event", id |-> nextId])
                    ELSE UNCHANGED stream
    BY DEF Record
  <1>5. event.id = nextId /\ event.kind = kind /\ event.rid = rid
    OBVIOUS
  <1> HIDE DEF event, saved
  <1>6. QED
    BY <1>1, <1>3, <1>4, <1>5 DEF Appends

(* What a sweep writes: every state it is given, with the events it had. *)
LEMMA SweepKeeps ==
    ASSUME NEW W, NEW failed, NEW t, NEW behind,
           NEW from \in [Workers -> WorkerState \cup {None}],
           SweepSome(W, failed, t, from, behind), NEW w \in Workers
    PROVE  /\ from[w] = None => mem'[w] = None
           /\ from[w] # None => /\ mem'[w] \in WorkerState
                                /\ mem'[w].events = from[w].events
                                /\ mem'[w].pending \subseteq from[w].pending
           /\ disk'[w] \in {mem'[w], disk[w]}
           /\ mem'[w] # from[w] /\ w \notin failed => disk'[w] = mem'[w]
           /\ mem'[w] = from[w] => disk'[w] = disk[w]
           /\ w \notin dirty' <=> w \notin failed /\ (w \in behind => mem'[w] # from[w])
  <1> DEFINE swept == [x \in Workers |->
                 IF x \in W /\ from[x] # None THEN Swept(from[x], t) ELSE from[x]]
             changed == {x \in Workers : swept[x] # from[x]}
  <1>1. from[w] # None => from[w] \in WorkerState
    OBVIOUS
  <1>2. /\ from[w] = None => swept[w] = None
        /\ from[w] # None => /\ swept[w] \in WorkerState
                             /\ swept[w].events = from[w].events
                             /\ swept[w].pending \subseteq from[w].pending
    <2>1. CASE w \in W /\ from[w] # None
      BY <1>1, <2>1, SweptShape
    <2>2. CASE ~(w \in W /\ from[w] # None)
      BY <1>1, <2>2
    <2>3. QED
      BY <2>1, <2>2
  <1>3. /\ failed \subseteq changed
        /\ mem' = swept
        /\ disk' = [x \in Workers |-> IF x \in changed \ failed THEN swept[x] ELSE disk[x]]
        /\ dirty' = (behind \ changed) \cup failed
    BY DEF SweepSome
  <1> HIDE DEF swept
  <1>4. QED
    BY <1>2, <1>3

(* A worker memory does not hold has no acknowledged event to lose. *)
LEMMA KnownIds ==
    ASSUME TypeOK, AckedEventsDurable, NEW w \in Workers
    PROVE  acked[w] \subseteq EventIds(disk[w]) /\ acked[w] \subseteq EventIds(GetOrCreate(w))
  BY DEF AckedEventsDurable, EventIds, GetOrCreate, Known

LEMMA SameIds ==
    ASSUME NEW a \in WorkerState, NEW b \in WorkerState, a.events = b.events
    PROVE  EventIds(a) = EventIds(b)
  BY NoneIsNoState DEF EventIds

LEMMA MoreIds ==
    ASSUME NEW a \in WorkerState, NEW b \in WorkerState, NEW e \in Event,
           b.events = Append(a.events, e)
    PROVE  EventIds(b) = EventIds(a) \cup {e.id}
  <1>1. a.events \in Seq(Event)
    BY DEF WorkerState
  <1>2. EventIds(a) = {a.events[i].id : i \in DOMAIN a.events}
        /\ EventIds(b) = {b.events[i].id : i \in DOMAIN b.events}
    BY NoneIsNoState DEF EventIds
  <1>3. QED
    BY <1>1, <1>2, AppendedEvents

LEMMA StepAcked == TypeOK /\ AckedEventsDurable /\ [Next]_vars => AckedEventsDurable'
  <1> SUFFICES ASSUME TypeOK, AckedEventsDurable, [Next]_vars, NEW w \in Workers
               PROVE  acked'[w] \subseteq EventIds(disk'[w]) /\ acked'[w] \subseteq EventIds(mem'[w])
    BY DEF AckedEventsDurable, EventIds
  <1>1. acked[w] \subseteq EventIds(disk[w]) /\ acked[w] \subseteq EventIds(mem[w])
    BY DEF AckedEventsDurable
  <1>2. CASE UNCHANGED timeline
    BY <1>1, <1>2 DEF timeline, EventIds
  <1>3. ASSUME NEW x \in Workers, NEW ws \in WorkerState, NEW ok \in Writes, Rewrite(x, ws, ok)
        PROVE  acked'[w] \subseteq EventIds(disk'[w]) /\ acked'[w] \subseteq EventIds(mem'[w])
    <2>1. acked[x] \subseteq EventIds(ws)
      BY <1>3, KnownIds, GetOrCreateType, SameIds DEF Rewrite
    <2>2. /\ mem'[w] = IF w = x THEN ws ELSE mem[w]
          /\ disk'[w] = IF w = x /\ ok THEN ws ELSE disk[w]
          /\ acked' = acked
      BY <1>3 DEF Rewrite, Commit, TypeOK
    <2>3. QED
      BY <1>1, <2>1, <2>2
  <1>4. ASSUME NEW x \in Workers, NEW kind \in Kinds, NEW rid \in RequestIds \cup {None},
               NEW pending \in SUBSET RequestIds, Recorded(x, kind, rid, pending)
        PROVE  acked'[w] \subseteq EventIds(disk'[w]) /\ acked'[w] \subseteq EventIds(mem'[w])
    <2>0. PICK ws \in WorkerState, ok \in Writes, e \in Event :
             Appends(x, kind, rid, pending, ws, ok, e)
      BY <1>4, RecordedShape DEF Recorded
    <2>1. /\ e.id = nextId
          /\ ws.events = Append(GetOrCreate(x).events, e)
          /\ Commit(x, ws, ok)
          /\ acked' = IF ok THEN [acked EXCEPT ![x] = @ \cup {nextId}] ELSE acked
      BY <2>0 DEF Appends
    <2>2. EventIds(ws) = EventIds(GetOrCreate(x)) \cup {nextId}
      BY <2>1, GetOrCreateType, MoreIds
    <2>3. acked[x] \subseteq EventIds(ws)
      BY <2>2, KnownIds
    <2>4. /\ mem'[w] = IF w = x THEN ws ELSE mem[w]
          /\ disk'[w] = IF w = x /\ ok THEN ws ELSE disk[w]
          /\ acked'[w] = IF w = x /\ ok THEN acked[w] \cup {nextId} ELSE acked[w]
      BY <2>1 DEF Commit, TypeOK
    <2>5. QED
      BY <1>1, <2>2, <2>3, <2>4
  <1>5. CASE Sweeps
    <2>1. PICK W \in SUBSET Workers, failed \in SUBSET Workers :
             SweepSome(W, failed, now, mem, dirty) /\ UNCHANGED acked
      BY <1>5 DEF Sweeps
    <2>2. mem \in [Workers -> WorkerState \cup {None}]
      BY DEF TypeOK
    <2>3. EventIds(mem'[w]) = EventIds(mem[w]) /\ disk'[w] \in {mem'[w], disk[w]}
      BY <2>1, <2>2, SweepKeeps, SameIds
    <2>4. QED
      BY <1>1, <2>1, <2>3
  <1>6. CASE Purges
    BY <1>1, <1>6 DEF Purges, Purge, TypeOK
  <1>7. CASE Restart
    <2>1. PICK t \in now..MaxNow, failed \in SUBSET Workers :
             SweepSome(Workers, failed, t, disk, {}) /\ UNCHANGED acked
      BY <1>7 DEF Restart
    <2>2. disk \in [Workers -> WorkerState \cup {None}]
      BY DEF TypeOK
    <2>3. EventIds(mem'[w]) = EventIds(disk[w]) /\ disk'[w] \in {mem'[w], disk[w]}
      BY <2>1, <2>2, SweepKeeps, SameIds
    <2>4. QED
      BY <1>1, <2>1, <2>3
  <1>8. QED
    BY <1>2, <1>3, <1>4, <1>5, <1>6, <1>7, TimelineSteps

(* The durability contract: an event whose caller was told it is stored stays in
   memory and in the worker's file, whatever writes fail and whenever the hub
   restarts, until the worker is purged.  With TypeOK the property is inductive. *)
THEOREM EventsStayStored == Spec => []AckedEventsDurable
  <1>1. Init => AckedEventsDurable
    BY DEF Init, AckedEventsDurable
  <1>2. QED
    BY <1>1, StepAcked, TypeCorrect, PTL DEF Spec

LEMMA StepFileIsCurrent == TypeOK /\ FileIsCurrent /\ [Next]_vars => FileIsCurrent'
  <1> SUFFICES ASSUME TypeOK, FileIsCurrent, [Next]_vars, NEW w \in Workers, w \notin dirty'
               PROVE  mem'[w] = disk'[w]
    BY DEF FileIsCurrent
  <1>1. CASE UNCHANGED timeline
    BY <1>1 DEF timeline, FileIsCurrent
  <1>2. ASSUME NEW x \in Workers, NEW ws, NEW ok \in Writes, Commit(x, ws, ok)
        PROVE  mem'[w] = disk'[w]
    BY <1>2 DEF Commit, Writes, TypeOK, FileIsCurrent
  <1>3. CASE Sweeps
    <2>1. PICK W \in SUBSET Workers, failed \in SUBSET Workers :
             SweepSome(W, failed, now, mem, dirty)
      BY <1>3 DEF Sweeps
    <2>2. mem \in [Workers -> WorkerState \cup {None}]
      BY DEF TypeOK
    <2>3. QED
      BY <2>1, <2>2, SweepKeeps DEF FileIsCurrent
  <1>4. CASE Purges
    BY <1>4 DEF Purges, Purge, FileIsCurrent, TypeOK
  <1>5. CASE Restart
    <2>1. PICK t \in now..MaxNow, failed \in SUBSET Workers :
             SweepSome(Workers, failed, t, disk, {})
      BY <1>5 DEF Restart
    <2>2. disk \in [Workers -> WorkerState \cup {None}]
      BY DEF TypeOK
    <2>3. QED
      BY <2>1, <2>2, SweepKeeps
  <1>6. ASSUME NEW x \in Workers, NEW kind \in Kinds, NEW rid \in RequestIds \cup {None},
               NEW pending \in SUBSET RequestIds, Recorded(x, kind, rid, pending)
        PROVE  mem'[w] = disk'[w]
    BY <1>2, <1>6, RecordedShape DEF Recorded, Appends
  <1>7. QED
    BY <1>1, <1>2, <1>3, <1>4, <1>5, <1>6, TimelineSteps DEF Rewrite

(* Unless its last write failed, a worker's file is the state in memory. *)
THEOREM FilesStayCurrent == Spec => []FileIsCurrent
  <1>1. Init => FileIsCurrent
    BY DEF Init, FileIsCurrent
  <1>2. QED
    BY <1>1, StepFileIsCurrent, TypeCorrect, PTL DEF Spec

(***************************************************************************)
(* Decisions.  That every pending entry waits for its decision is what     *)
(* makes a decision that is recorded the first one since the request, so   *)
(* the two properties are inductive together.                              *)
(***************************************************************************)
Lawful(ws) == ws # None => AwaitsDecision(ws) /\ DecidedOnce(ws)
DecisionInv == \A w \in Workers : Lawful(mem[w]) /\ Lawful(disk[w])

LEMMA FewerPendingLawful ==
    ASSUME NEW a \in WorkerState, NEW b \in WorkerState, Lawful(a),
           b.events = a.events, b.pending \subseteq a.pending
    PROVE  Lawful(b)
  BY NoneIsNoState DEF Lawful, AwaitsDecision, DecidedOnce

LEMMA FreshLawful == FreshState \in WorkerState /\ Lawful(FreshState)
  <1>1. FreshState \in WorkerState
    BY EngineAssumption DEF FreshState, WorkerState
  <1>2. \A r \in RequestIds : Answered(FreshState.events, r) = {}
    BY DEF FreshState, Answered
  <1>3. FreshState.pending = {}
    BY DEF FreshState
  <1>4. QED
    BY <1>1, <1>2, <1>3 DEF Lawful, AwaitsDecision, DecidedOnce

LEMMA GetOrCreateLawful ==
    ASSUME DecisionInv, NEW w \in Workers
    PROVE  Lawful(GetOrCreate(w))
  BY FreshLawful DEF DecisionInv, GetOrCreate, Known

(* The one step that matters: an event appended to a lawful timeline. *)
LEMMA AppendLawful ==
    ASSUME NEW a \in WorkerState, NEW b \in WorkerState, NEW e \in Event, NEW pending, Lawful(a),
           b.events = Append(a.events, e), b.pending \subseteq pending,
           \/ RecordsRequest(e.kind, e.rid, a.pending, pending)
           \/ RecordsDecision(e.kind, e.rid, a.pending, pending)
           \/ RecordsPlain(e.kind, e.rid, a.pending, pending)
    PROVE  Lawful(b)
  <1> DEFINE n == Len(a.events) + 1
  <1>1. a.events \in Seq(Event) /\ a.pending \in SUBSET RequestIds /\ b.pending \in SUBSET RequestIds
    BY DEF WorkerState
  <1>2. AwaitsDecision(a) /\ DecidedOnce(a)
    BY NoneIsNoState DEF Lawful
  <1>3. /\ DOMAIN b.events = DOMAIN a.events \cup {n}
        /\ n \in Nat
        /\ \A i \in DOMAIN a.events : i \in Nat /\ i < n /\ b.events[i] = a.events[i]
        /\ b.events[n] = e
    BY <1>1, AppendedEvents
  <1> HIDE DEF n
  <1>4. \A r \in RequestIds :
           /\ Asked(b.events, r) = Asked(a.events, r)
                 \cup (IF e.kind = "permission_request" /\ e.rid = r THEN {n} ELSE {})
           /\ Answered(b.events, r) = Answered(a.events, r)
                 \cup (IF e.kind = "permission_response" /\ e.rid = r THEN {n} ELSE {})
    BY <1>3 DEF Asked, Answered
  <1>5. \A r \in RequestIds : Asked(a.events, r) \subseteq DOMAIN a.events
                           /\ Answered(a.events, r) \subseteq DOMAIN a.events
    BY DEF Asked, Answered
  <1>6. AwaitsDecision(b)
    <2> SUFFICES ASSUME NEW r \in b.pending
                 PROVE  \E i \in Asked(b.events, r) : \A j \in Answered(b.events, r) : j < i
      BY DEF AwaitsDecision
    <2>1. CASE e.kind = "permission_request" /\ e.rid = r
      BY <1>1, <1>3, <1>4, <1>5, <2>1
    <2>2. CASE ~(e.kind = "permission_request" /\ e.rid = r)
      <3>1. r \in a.pending /\ ~(e.kind = "permission_response" /\ e.rid = r)
        BY <2>2 DEF RecordsRequest, RecordsDecision, RecordsPlain
      <3>2. Asked(b.events, r) = Asked(a.events, r) /\ Answered(b.events, r) = Answered(a.events, r)
        BY <1>1, <1>4, <2>2, <3>1
      <3>3. QED
        BY <1>2, <3>1, <3>2 DEF AwaitsDecision
    <2>3. QED
      BY <2>1, <2>2
  <1>7. DecidedOnce(b)
    <2> SUFFICES ASSUME NEW r \in RequestIds, NEW j \in Answered(b.events, r)
                 PROVE  \E i \in Asked(b.events, r) :
                           i < j /\ \A k \in Answered(b.events, r) : ~(i < k /\ k < j)
      BY DEF DecidedOnce
    <2>1. CASE j \in Answered(a.events, r)
      <3>1. PICK i \in Asked(a.events, r) :
               i < j /\ \A k \in Answered(a.events, r) : ~(i < k /\ k < j)
        BY <1>2, <2>1 DEF DecidedOnce
      <3>2. j < n /\ j \in Nat /\ i \in Nat
        BY <1>3, <1>5, <2>1
      <3>3. \A k \in Answered(b.events, r) : k \in Answered(a.events, r) \/ k = n
        BY <1>4
      <3>4. ~(n < j)
        BY <1>3, <3>2
      <3>5. QED
        BY <1>4, <3>1, <3>3, <3>4
    <2>2. CASE j \notin Answered(a.events, r)
      <3>1. e.kind = "permission_response" /\ e.rid = r /\ j = n
        BY <1>4, <2>2
      <3>2. r \in a.pending
        BY <3>1 DEF RecordsRequest, RecordsDecision, RecordsPlain
      <3>3. PICK i \in Asked(a.events, r) : \A k \in Answered(a.events, r) : k < i
        BY <1>2, <3>2 DEF AwaitsDecision
      <3>4. i \in Nat /\ i < n
        BY <1>3, <1>5
      <3>5. \A k \in Answered(b.events, r) : (k \in Nat /\ k < i) \/ k = n
        BY <1>3, <1>4, <1>5, <3>3
      <3>6. \A k \in Answered(b.events, r) : ~(i < k /\ k < n)
        BY <1>3, <3>4, <3>5
      <3>7. QED
        BY <1>4, <3>1, <3>4, <3>6
    <2>3. QED
      BY <2>1, <2>2
  <1>8. QED
    BY <1>6, <1>7 DEF Lawful

LEMMA StepDecisions == TypeOK /\ DecisionInv /\ [Next]_vars => DecisionInv'
  <1> SUFFICES ASSUME TypeOK, DecisionInv, [Next]_vars, NEW w \in Workers
               PROVE  Lawful(mem'[w]) /\ Lawful(disk'[w])
    BY DEF DecisionInv, Lawful, AwaitsDecision, DecidedOnce
  <1>1. Lawful(mem[w]) /\ Lawful(disk[w]) /\ Lawful(None)
    BY DEF DecisionInv, Lawful
  <1>2. ASSUME NEW x \in Workers, NEW ws, NEW ok \in Writes, Commit(x, ws, ok), Lawful(ws)
        PROVE  Lawful(mem'[w]) /\ Lawful(disk'[w])
    <2>1. /\ mem'[w] = IF w = x THEN ws ELSE mem[w]
          /\ disk'[w] = IF w = x /\ ok THEN ws ELSE disk[w]
      BY <1>2 DEF Commit, TypeOK
    <2>2. QED
      BY <1>1, <1>2, <2>1
  <1>3. CASE UNCHANGED timeline
    BY <1>1, <1>3 DEF timeline
  <1>4. ASSUME NEW x \in Workers, NEW ws \in WorkerState, NEW ok \in Writes, Rewrite(x, ws, ok)
        PROVE  Lawful(mem'[w]) /\ Lawful(disk'[w])
    <2>1. Lawful(ws)
      BY <1>4, GetOrCreateType, GetOrCreateLawful, FewerPendingLawful DEF Rewrite
    <2>2. QED
      BY <1>2, <1>4, <2>1 DEF Rewrite
  <1>5. ASSUME NEW x \in Workers, NEW kind \in Kinds, NEW rid \in RequestIds \cup {None},
               NEW pending \in SUBSET RequestIds, Recorded(x, kind, rid, pending)
        PROVE  Lawful(mem'[w]) /\ Lawful(disk'[w])
    <2>0. PICK ws \in WorkerState, ok \in Writes, e \in Event :
             Appends(x, kind, rid, pending, ws, ok, e)
      BY <1>5, RecordedShape DEF Recorded
    <2>1. /\ e.id = nextId /\ e.kind = kind /\ e.rid = rid
          /\ ws.events = Append(GetOrCreate(x).events, e)
          /\ ws.pending \subseteq pending
          /\ Commit(x, ws, ok)
      BY <2>0 DEF Appends
    <2>2. \/ RecordsRequest(e.kind, e.rid, GetOrCreate(x).pending, pending)
          \/ RecordsDecision(e.kind, e.rid, GetOrCreate(x).pending, pending)
          \/ RecordsPlain(e.kind, e.rid, GetOrCreate(x).pending, pending)
      BY <1>5, <2>1 DEF Recorded
    <2>3. Lawful(ws)
      BY <2>1, <2>2, GetOrCreateType, GetOrCreateLawful, AppendLawful
    <2>4. QED
      BY <1>2, <2>1, <2>3
  <1>6. ASSUME NEW from \in [Workers -> WorkerState \cup {None}], NEW W, NEW failed, NEW t, NEW behind,
               SweepSome(W, failed, t, from, behind), Lawful(from[w])
        PROVE  Lawful(mem'[w]) /\ Lawful(disk'[w])
    <2>1. Lawful(mem'[w])
      BY <1>1, <1>6, SweepKeeps, FewerPendingLawful
    <2>2. disk'[w] \in {mem'[w], disk[w]}
      BY <1>6, SweepKeeps
    <2>3. QED
      BY <1>1, <2>1, <2>2
  <1>7. CASE Sweeps
    BY <1>1, <1>6, <1>7 DEF Sweeps, TypeOK
  <1>8. CASE Purges
    <2>1. mem'[w] \in {mem[w], None} /\ disk'[w] \in {disk[w], None}
      BY <1>8 DEF Purges, Purge
    <2>2. QED
      BY <1>1, <2>1
  <1>9. CASE Restart
    BY <1>1, <1>6, <1>9 DEF Restart, TypeOK
  <1>10. QED
    BY <1>3, <1>4, <1>5, <1>7, <1>8, <1>9, TimelineSteps

LEMMA DecisionsInvariant == Spec => []DecisionInv
  <1>1. Init => DecisionInv
    BY DEF Init, DecisionInv, Lawful
  <1>2. QED
    BY <1>1, StepDecisions, TypeCorrect, PTL DEF Spec

(* No pending entry outlives its decision, in memory or in any file. *)
THEOREM PendingIsUndecided == Spec => []PendingAwaitsDecision
  <1>1. DecisionInv => PendingAwaitsDecision
    BY DEF DecisionInv, Lawful, PendingAwaitsDecision
  <1>2. QED
    BY <1>1, DecisionsInvariant, PTL

(* However many deciders race, a request is decided at most once. *)
THEOREM DecisionsAreUnique == Spec => []EveryDecisionAnswersARequest
  <1>1. DecisionInv => EveryDecisionAnswersARequest
    BY DEF DecisionInv, Lawful, EveryDecisionAnswersARequest
  <1>2. QED
    BY <1>1, DecisionsInvariant, PTL
(***************************************************************************)
(* Growth of the files.  Memory may be ahead of a file, after a write that *)
(* failed, but what the file holds is where memory begins.                 *)
(***************************************************************************)
Begins(a, b) ==
    a # None /\ b # None => /\ Len(a.events) <= Len(b.events)
                            /\ \A i \in DOMAIN a.events : b.events[i] = a.events[i]
FilesBegin == \A w \in Workers : Begins(disk[w], mem[w])

(* A timeline begins with itself, and with what it was before an event. *)
LEMMA BeginsWith ==
    ASSUME NEW a \in WorkerState \cup {None}, NEW b \in WorkerState, NEW c \in WorkerState,
           Begins(a, b),
           c.events = b.events \/ \E e \in Event : c.events = Append(b.events, e)
    PROVE  Begins(a, c)
  <1>1. CASE c.events = b.events
    BY <1>1, NoneIsNoState DEF Begins
  <1>2. ASSUME NEW e \in Event, c.events = Append(b.events, e)
        PROVE  Begins(a, c)
    <2>1. SUFFICES ASSUME a # None
                   PROVE  Begins(a, c)
      BY DEF Begins
    <2>2. a.events \in Seq(Event) /\ b.events \in Seq(Event)
      BY <2>1 DEF WorkerState
    <2>3. Len(a.events) <= Len(b.events) /\ \A i \in DOMAIN a.events : b.events[i] = a.events[i]
      BY <2>1, NoneIsNoState DEF Begins
    <2>4. /\ Len(a.events) \in Nat /\ Len(b.events) \in Nat
          /\ Len(Append(b.events, e)) = Len(b.events) + 1
          /\ DOMAIN a.events = 1..Len(a.events) /\ DOMAIN b.events = 1..Len(b.events)
      BY <2>2
    <2>5. DOMAIN a.events \subseteq DOMAIN b.events
      BY <2>3, <2>4
    <2>6. \A i \in DOMAIN a.events : Append(b.events, e)[i] = a.events[i]
      BY <2>2, <2>3, <2>5, AppendedEvents
    <2>7. QED
      BY <1>2, <2>3, <2>4, <2>6 DEF Begins
  <1>3. QED
    BY <1>1, <1>2

LEMMA BeginsItself ==
    ASSUME NEW a \in WorkerState \cup {None}
    PROVE  Begins(a, a)
  <1>1. a # None => a.events \in Seq(Event)
    BY DEF WorkerState
  <1>2. a # None => Len(a.events) \in Nat
    BY <1>1
  <1>3. QED
    BY <1>2 DEF Begins

(* What a step makes of a worker's file and memory: the file is the old one, the *)
(* new memory or none, and the new memory begins with the old file.              *)
LEMMA FileSteps ==
    ASSUME TypeOK, FilesBegin, [Next]_vars, NEW w \in Workers
    PROVE  disk'[w] \in {disk[w], mem'[w], None} /\ Begins(disk[w], mem'[w])
  <1>1. /\ mem[w] \in WorkerState \cup {None} /\ disk[w] \in WorkerState \cup {None}
        /\ Begins(disk[w], mem[w]) /\ Begins(disk[w], None)
    BY DEF TypeOK, FilesBegin, Begins
  <1>2. GetOrCreate(w) \in WorkerState /\ Begins(disk[w], GetOrCreate(w))
    BY <1>1, GetOrCreateType, BeginsItself DEF GetOrCreate, Known, Begins
  <1>3. ASSUME NEW x \in Workers, NEW ws, NEW ok \in Writes, Commit(x, ws, ok),
               x = w => Begins(disk[w], ws)
        PROVE  disk'[w] \in {disk[w], mem'[w], None} /\ Begins(disk[w], mem'[w])
    <2>1. /\ mem'[w] = IF w = x THEN ws ELSE mem[w]
          /\ disk'[w] = IF w = x /\ ok THEN ws ELSE disk[w]
      BY <1>3 DEF Commit, TypeOK
    <2>2. QED
      BY <1>1, <1>3, <2>1
  <1>4. CASE UNCHANGED timeline
    BY <1>1, <1>4 DEF timeline
  <1>5. ASSUME NEW x \in Workers, NEW ws \in WorkerState, NEW ok \in Writes, Rewrite(x, ws, ok)
        PROVE  disk'[w] \in {disk[w], mem'[w], None} /\ Begins(disk[w], mem'[w])
    <2>1. x = w => Begins(disk[w], ws)
      BY <1>1, <1>2, <1>5, BeginsWith DEF Rewrite
    <2>2. QED
      BY <1>3, <1>5, <2>1 DEF Rewrite
  <1>6. ASSUME NEW x \in Workers, NEW kind \in Kinds, NEW rid \in RequestIds \cup {None},
               NEW pending \in SUBSET RequestIds, Recorded(x, kind, rid, pending)
        PROVE  disk'[w] \in {disk[w], mem'[w], None} /\ Begins(disk[w], mem'[w])
    <2>0. PICK ws \in WorkerState, ok \in Writes, e \in Event :
             Appends(x, kind, rid, pending, ws, ok, e)
      BY <1>6, RecordedShape DEF Recorded
    <2>1. ws.events = Append(GetOrCreate(x).events, e) /\ Commit(x, ws, ok)
      BY <2>0 DEF Appends
    <2>2. x = w => Begins(disk[w], ws)
      BY <1>1, <1>2, <2>1, BeginsWith
    <2>3. QED
      BY <1>3, <2>1, <2>2
  <1>7. ASSUME NEW from \in [Workers -> WorkerState \cup {None}], NEW W, NEW failed, NEW t, NEW behind,
               SweepSome(W, failed, t, from, behind), Begins(disk[w], from[w])
        PROVE  disk'[w] \in {disk[w], mem'[w], None} /\ Begins(disk[w], mem'[w])
    <2>1. disk'[w] \in {mem'[w], disk[w]}
      BY <1>7, SweepKeeps
    <2>2. CASE from[w] = None
      BY <1>1, <1>7, <2>1, <2>2, SweepKeeps
    <2>3. CASE from[w] # None
      <3>1. mem'[w] \in WorkerState /\ mem'[w].events = from[w].events /\ from[w] \in WorkerState
        BY <1>7, <2>3, SweepKeeps
      <3>2. QED
        BY <1>1, <1>7, <2>1, <3>1, BeginsWith
    <2>4. QED
      BY <2>2, <2>3
  <1>8. CASE Sweeps
    BY <1>1, <1>7, <1>8 DEF Sweeps, TypeOK
  <1>9. CASE Purges
    <2>1. mem'[w] \in {mem[w], None} /\ disk'[w] \in {disk[w], None}
      BY <1>9 DEF Purges, Purge
    <2>2. QED
      BY <1>1, <2>1
  <1>10. CASE Restart
    BY <1>1, <1>7, <1>10, BeginsItself DEF Restart, TypeOK
  <1>11. QED
    BY <1>4, <1>5, <1>6, <1>8, <1>9, <1>10, TimelineSteps

(* A worker's file only ever grows, until it is removed: no writer replaces a *)
(* history, whatever failed, was evicted or restarted before.                 *)
THEOREM HistoriesGrow == Spec => TimelineOnlyGrows
  <1> DEFINE Grown == \A w \in Workers :
                disk[w] # None /\ disk'[w] # None =>
                    /\ Len(disk[w].events) <= Len(disk'[w].events)
                    /\ \A i \in DOMAIN disk[w].events : disk'[w].events[i] = disk[w].events[i]
  <1>1. Init => FilesBegin
    BY DEF Init, FilesBegin, Begins
  <1>2. TypeOK /\ TypeOK' /\ FilesBegin /\ [Next]_vars => FilesBegin'
    <2> SUFFICES ASSUME TypeOK, TypeOK', FilesBegin, [Next]_vars, NEW w \in Workers
                 PROVE  Begins(disk'[w], mem'[w])
      BY DEF FilesBegin, Begins
    <2>1. disk'[w] \in {disk[w], mem'[w], None} /\ Begins(disk[w], mem'[w])
      BY FileSteps
    <2>2. mem'[w] \in WorkerState \cup {None}
      BY DEF TypeOK
    <2>3. Begins(mem'[w], mem'[w]) /\ Begins(None, mem'[w])
      BY <2>2, BeginsItself DEF Begins
    <2>4. QED
      BY <2>1, <2>3
  <1>3. TypeOK /\ FilesBegin /\ [Next]_vars => [Grown]_disk
    <2> SUFFICES ASSUME TypeOK, FilesBegin, [Next]_vars, NEW w \in Workers,
                        disk[w] # None, disk'[w] # None
                 PROVE  /\ Len(disk[w].events) <= Len(disk'[w].events)
                        /\ \A i \in DOMAIN disk[w].events : disk'[w].events[i] = disk[w].events[i]
      OBVIOUS
    <2>1. disk'[w] \in {disk[w], mem'[w]} /\ Begins(disk[w], mem'[w])
      BY FileSteps
    <2>2. Begins(disk[w], disk[w])
      BY BeginsItself DEF TypeOK
    <2>3. Begins(disk[w], disk'[w])
      BY <2>1, <2>2
    <2>4. QED
      BY <2>3 DEF Begins
  <1>4. QED
    BY <1>1, <1>2, <1>3, TypeCorrect, PTL DEF Spec, TimelineOnlyGrows

(***************************************************************************)
(* Zombies.  What keeps an entry pending is the worker's activity: every   *)
(* write of a state with pending entries is dated, and a periodic sweep or *)
(* a restart leaves none of a worker that is silent by then.               *)
(***************************************************************************)
Dated(ws) == ws # None /\ ws.pending # {} => ws.lastActivity > 0
Heard(ws, t) == ws # None /\ ws.pending # {} => t <= ws.lastActivity + SweepHeartbeat
ZombieInv ==
    /\ lastSweep <= now
    /\ \A w \in Workers : Dated(mem[w]) /\ Dated(disk[w]) /\ Heard(mem[w], lastSweep)

(* A swept state whose entries were asked for has none if its worker is silent. *)
LEMMA SweptIsHeard ==
    ASSUME NEW ws \in WorkerState, NEW t \in 1..MaxNow, AwaitsDecision(ws), Dated(ws)
    PROVE  Dated(Swept(ws, t)) /\ Heard(Swept(ws, t), t)
  <1>1. /\ Swept(ws, t).pending \subseteq ws.pending
        /\ Swept(ws, t).lastActivity = ws.lastActivity
        /\ \A r \in Swept(ws, t).pending : ~Stale(ws, r, t)
    BY SweptShape
  <1>2. ASSUME NEW r \in Swept(ws, t).pending
        PROVE  ws.lastActivity > 0 /\ t <= ws.lastActivity + SweepHeartbeat
    <2>1. ws # None
      BY NoneIsNoState
    <2>2. ws.lastActivity > 0
      BY <1>1, <2>1 DEF Dated
    <2>3. Asked(ws.events, r) # {}
      BY <1>1 DEF AwaitsDecision
    <2>4. ~Quiet(ws, t, SweepHeartbeat)
      BY <1>1, <2>3 DEF Stale
    <2>5. ~(t - ws.lastActivity > SweepHeartbeat)
      BY <2>2, <2>4 DEF Quiet
    <2>6. t \in Int /\ ws.lastActivity \in Int /\ SweepHeartbeat \in Int
      BY EngineAssumption DEF WorkerState
    <2>7. QED
      BY <2>2, <2>5, <2>6
  <1>3. QED
    BY <1>1, <1>2 DEF Dated, Heard

(* What a step does to activity: it writes a state that is dated now, has nothing *)
(* pending, or was there; or it sweeps, purges, restarts or changes no state.     *)
Redated(x, ws) == ws.pending = {} \/ ws.lastActivity = now \/ (Known(x) /\ ws = mem[x])
LEMMA ActivitySteps ==
    ASSUME TypeOK, [Next]_vars
    PROVE  \/ UNCHANGED <<mem, disk, lastSweep>> /\ now' >= now
           \/ \E x \in Workers, ws \in WorkerState, ok \in Writes :
                 Commit(x, ws, ok) /\ Redated(x, ws) /\ UNCHANGED <<now, lastSweep>>
           \/ SweepOnDemand \/ PeriodicSweep \/ Restart
           \/ Purges /\ UNCHANGED <<now, lastSweep>>
  <1> DEFINE Still == UNCHANGED <<mem, disk, lastSweep>> /\ now' >= now
             Written == \E x \in Workers, ws \in WorkerState, ok \in Writes :
                           Commit(x, ws, ok) /\ Redated(x, ws) /\ UNCHANGED <<now, lastSweep>>
  <1>1. now \in 1..MaxNow /\ \A w \in Workers : Known(w) => mem[w] \in WorkerState
    BY DEF TypeOK, Known
  <1>2. now >= now /\ now + 1 >= now
    BY <1>1
  <1>3. ASSUME NEW w \in Workers, RegisterWorker(w) PROVE Written
    <2> DEFINE ws == [GetOrCreate(w) EXCEPT !.pending = {}, !.lastActivity = now, !.exited = FALSE]
    <2>1. ws \in WorkerState /\ ws.pending = {}
      BY <1>1, GetOrCreateType, TouchedShape, TouchedKeeps
    <2>2. \E ok \in Writes : Commit(w, ws, ok) /\ UNCHANGED <<now, lastSweep>>
      BY <1>3 DEF RegisterWorker
    <2> HIDE DEF ws
    <2>3. QED
      BY <2>1, <2>2 DEF Redated
  <1>4. ASSUME NEW w \in Workers, GoodbyeWorker(w) PROVE Written \/ Still
    <2>1. CASE Known(w)
      <3> DEFINE ws == [mem[w] EXCEPT !.exited = TRUE, !.lastActivity = now]
      <3>1. mem[w] \in WorkerState
        BY <1>1, <2>1
      <3>2. ws \in WorkerState /\ ws.lastActivity = now
        BY <1>1, <3>1, TouchedShape DEF WorkerState
      <3>3. \E ok \in Writes : Commit(w, ws, ok) /\ UNCHANGED <<now, lastSweep>>
        BY <1>4, <2>1 DEF GoodbyeWorker
      <3> HIDE DEF ws
      <3>4. QED
        BY <3>2, <3>3 DEF Redated
    <2>2. CASE ~Known(w)
      BY <1>2, <1>4, <2>2 DEF GoodbyeWorker
    <2>3. QED
      BY <2>1, <2>2
  <1>5. ASSUME NEW w \in Workers, NEW ping \in BOOLEAN, Touch(w, ping) PROVE Written
    <2> DEFINE ws == [mem[w] EXCEPT !.lastActivity = now]
    <2>1. mem[w] \in WorkerState
      BY <1>1, <1>5 DEF Touch
    <2>2. ws \in WorkerState /\ ws.lastActivity = now
      BY <1>1, <2>1, TouchedShape DEF WorkerState
    <2>3. \E ok \in Writes : Commit(w, ws, ok) /\ UNCHANGED <<now, lastSweep>>
      BY <1>5 DEF Touch
    <2> HIDE DEF ws
    <2>4. QED
      BY <2>2, <2>3 DEF Redated
  <1>6. ASSUME NEW w \in Workers, SetRecordingEnabled(w) PROVE Written
    BY <1>1, <1>6 DEF SetRecordingEnabled, Redated
  <1>7. ASSUME NEW s \in Streams, Finalise(s) PROVE Written \/ Still
    <2> DEFINE w == stream[s].scope
               last == w \in Workers /\ Open(w) \ {s} = {}
    <2>1. CASE last /\ Pending(w) # {}
      <3>1. w \in Workers /\ Known(w)
        BY <2>1 DEF Pending
      <3> DEFINE ws == [mem[w] EXCEPT !.pending = {}, !.lastActivity = now]
      <3>2. ws \in WorkerState /\ ws.pending = {}
        BY <1>1, <3>1, TouchedShape, TouchedKeeps
      <3>3. \E ok \in Writes : Commit(w, ws, ok) /\ UNCHANGED <<now, lastSweep>>
        BY <1>7, <2>1 DEF Finalise
      <3> HIDE DEF ws
      <3>4. QED
        BY <3>1, <3>2, <3>3 DEF Redated
    <2>2. CASE ~(last /\ Pending(w) # {})
      BY <1>2, <1>7, <2>2 DEF Finalise
    <2>3. QED
      BY <2>1, <2>2
  <1>8. ASSUME NEW w \in Workers, NEW kind, NEW rid \in RequestIds \cup {None},
               NEW pending \in SUBSET RequestIds, kind \in Kinds, Record(w, kind, rid, pending)
        PROVE  Written
    <2> DEFINE event == [id |-> nextId, kind |-> kind, rid |-> rid, ts |-> now]
               ws == Extended(GetOrCreate(w), event, pending)
               saved == IF kind = "outbound" THEN Swept(ws, now) ELSE ws
    <2>1. event \in Event
      BY <1>8, EngineAssumption DEF Record, TypeOK, Event
    <2>2. ws \in WorkerState /\ ws.lastActivity = now
      BY <2>1, GetOrCreateType, ExtendedShape
    <2>3. saved \in WorkerState /\ saved.lastActivity = now
      <3>1. CASE kind = "outbound"
        BY <2>2, <3>1, SweptShape
      <3>2. CASE kind # "outbound"
        BY <2>2, <3>2
      <3>3. QED
        BY <3>1, <3>2
    <2>4. \E ok \in Writes : Commit(w, saved, ok) /\ UNCHANGED <<now, lastSweep>>
      BY <1>8 DEF Record
    <2> HIDE DEF saved
    <2>5. QED
      BY <2>3, <2>4 DEF Redated
  <1>9. ASSUME NEW w \in Workers,
               \/ EnqueueInbound(w) \/ SendInterrupt(w) \/ RecordSessionBoundary(w) \/ RecordOutbound(w)
               \/ \E r \in RequestIds : RecordPermissionRequest(w, r) \/ ResolvePermission(w, r)
        PROVE  Written
    <2>1. GetOrCreate(w).pending \in SUBSET RequestIds
      BY GetOrCreateType DEF WorkerState
    <2>2. \A r \in RequestIds : /\ GetOrCreate(w).pending \cup {r} \in SUBSET RequestIds
                                /\ Known(w) => mem[w].pending \ {r} \in SUBSET RequestIds
      BY <1>1, <2>1 DEF WorkerState
    <2>3. CASE EnqueueInbound(w) \/ SendInterrupt(w) \/ RecordSessionBoundary(w) \/ RecordOutbound(w)
      BY <1>8, <2>1, <2>3 DEF EnqueueInbound, SendInterrupt, RecordSessionBoundary, RecordOutbound, Kinds
    <2>4. CASE \E r \in RequestIds : RecordPermissionRequest(w, r)
      BY <1>8, <2>2, <2>4 DEF RecordPermissionRequest, Kinds
    <2>5. CASE \E r \in RequestIds : ResolvePermission(w, r)
      <3>1. PICK r \in RequestIds : ResolvePermission(w, r)
        BY <2>5
      <3>2. Known(w)
        BY <3>1 DEF ResolvePermission, Pending
      <3>3. QED
        BY <1>8, <2>2, <3>1, <3>2 DEF ResolvePermission, Kinds
    <2>6. QED
      BY <1>9, <2>3, <2>4, <2>5
  <1>10. ASSUME (\E w \in Workers : PurgeWorker(w)) \/ PurgeStaleWorkers \/ PurgeStaleResumes
         PROVE  Purges /\ UNCHANGED <<now, lastSweep>>
    <2>1. PurgeCandidates \in SUBSET Workers /\ purging \in SUBSET Workers
      BY DEF PurgeCandidates, TypeOK
    <2>2. CASE \E w \in Workers : PurgeWorker(w)
      BY <2>2 DEF PurgeWorker, Purges
    <2>3. CASE PurgeStaleWorkers
      BY <2>1, <2>3 DEF PurgeStaleWorkers, Purges
    <2>4. CASE PurgeStaleResumes
      BY <2>1, <2>4 DEF PurgeStaleResumes, Purges
    <2>5. QED
      BY <1>10, <2>2, <2>3, <2>4
  <1>11. ASSUME \/ \E w \in Workers : UnregisterWorker(w) \/ SyncPtyStream(w)
                \/ \E s \in Streams : SubscribeAll(s) \/ Deliver(s)
                \/ \E w \in Workers, s \in Streams : Subscribe(w, s)
                \/ CompletePut \/ PurgeStaleWaits \/ Tick \/ UNCHANGED vars
         PROVE  Still
    <2>1. UNCHANGED <<mem, disk, lastSweep>> /\ now' \in {now, now + 1}
      BY <1>11 DEF UnregisterWorker, SyncPtyStream, SubscribeAll, Deliver, Subscribe, CompletePut,
                   PurgeStaleWaits, Tick, vars, timeline
    <2>2. QED
      BY <1>2, <2>1
  <1>12. QED
    BY <1>3, <1>4, <1>5, <1>6, <1>7, <1>9, <1>10, <1>11
       DEF Next, UpdateActiveState, UpdateContextPct, StreamEnds, Disconnect

(* A sweep of every worker at a time leaves no silent one with entries. *)
LEMMA SweepHears ==
    ASSUME NEW from \in [Workers -> WorkerState \cup {None}], NEW W, NEW failed, NEW t \in 1..MaxNow,
           NEW behind, SweepSome(W, failed, t, from, behind), NEW w \in Workers,
           from[w] # None => AwaitsDecision(from[w]), Dated(from[w]), Dated(disk[w])
    PROVE  /\ Dated(mem'[w]) /\ Dated(disk'[w])
           /\ w \in W => Heard(mem'[w], t)
           /\ \A u : Heard(from[w], u) => Heard(mem'[w], u)
  <1>1. disk'[w] \in {mem'[w], disk[w]}
    BY SweepKeeps
  <1>2. mem'[w] = IF w \in W /\ from[w] # None THEN Swept(from[w], t) ELSE from[w]
    BY DEF SweepSome
  <1>3. CASE w \in W /\ from[w] # None
    <2>1. from[w] \in WorkerState
      BY <1>3
    <2>2. Dated(mem'[w]) /\ Heard(mem'[w], t)
      BY <1>2, <1>3, <2>1, SweptIsHeard
    <2>3. mem'[w].pending \subseteq from[w].pending /\ mem'[w].lastActivity = from[w].lastActivity
      BY <1>2, <1>3, <2>1, SweptShape
    <2>4. QED
      BY <1>1, <1>3, <2>2, <2>3 DEF Heard
  <1>4. CASE ~(w \in W /\ from[w] # None)
    <2>1. mem'[w] = from[w] /\ (w \in W => mem'[w] = None)
      BY <1>2, <1>4
    <2>2. QED
      BY <1>1, <2>1 DEF Heard
  <1>5. QED
    BY <1>3, <1>4

LEMMA StepZombies == TypeOK /\ DecisionInv /\ ZombieInv /\ [Next]_vars => ZombieInv'
  <1> SUFFICES ASSUME TypeOK, DecisionInv, ZombieInv, [Next]_vars
               PROVE  ZombieInv'
    OBVIOUS
  <1>1. /\ now \in 1..MaxNow /\ lastSweep \in 0..MaxNow /\ lastSweep <= now
        /\ mem \in [Workers -> WorkerState \cup {None}] /\ disk \in [Workers -> WorkerState \cup {None}]
    BY EngineAssumption DEF TypeOK, ZombieInv
  <1>2. \A w \in Workers : /\ Dated(mem[w]) /\ Dated(disk[w]) /\ Heard(mem[w], lastSweep)
                           /\ mem[w] # None => AwaitsDecision(mem[w])
                           /\ disk[w] # None => AwaitsDecision(disk[w])
    BY DEF ZombieInv, DecisionInv, Lawful
  <1>3. CASE UNCHANGED <<mem, disk, lastSweep>> /\ now' >= now
    <2>1. lastSweep' <= now'
      <3>1. now' \in Int
        BY StepType DEF TypeOK
      <3>2. QED
        BY <1>1, <1>3, <3>1
    <2>2. QED
      BY <1>2, <1>3, <2>1 DEF ZombieInv
  <1>4. ASSUME NEW x \in Workers, NEW ws \in WorkerState, NEW ok \in Writes,
               Commit(x, ws, ok), Redated(x, ws), UNCHANGED <<now, lastSweep>>
        PROVE  ZombieInv'
    <2>1. Dated(ws) /\ Heard(ws, lastSweep)
      <3>1. CASE ws.pending = {}
        BY <3>1 DEF Dated, Heard
      <3>2. CASE ws.lastActivity = now
        <4>1. now > 0 /\ lastSweep <= now + SweepHeartbeat
          BY <1>1, EngineAssumption
        <4>2. QED
          BY <3>2, <4>1 DEF Dated, Heard
      <3>3. CASE ws = mem[x]
        BY <1>2, <3>3
      <3>4. QED
        BY <1>4, <3>1, <3>2, <3>3 DEF Redated
    <2>2. \A w \in Workers : /\ mem'[w] = IF w = x THEN ws ELSE mem[w]
                             /\ disk'[w] = IF w = x /\ ok THEN ws ELSE disk[w]
      BY <1>1, <1>4 DEF Commit
    <2>3. QED
      BY <1>1, <1>2, <1>4, <2>1, <2>2 DEF ZombieInv
  <1>5. CASE SweepOnDemand
    <2>1. PICK W \in SUBSET Workers, failed \in SUBSET Workers : SweepSome(W, failed, now, mem, dirty)
      BY <1>5 DEF SweepOnDemand
    <2>2. UNCHANGED <<now, lastSweep>>
      BY <1>5 DEF SweepOnDemand
    <2>3. \A w \in Workers : Dated(mem'[w]) /\ Dated(disk'[w]) /\ Heard(mem'[w], lastSweep)
      BY <1>1, <1>2, <2>1, SweepHears
    <2>4. QED
      BY <1>1, <2>2, <2>3 DEF ZombieInv
  <1>6. CASE PeriodicSweep
    <2>1. PICK failed \in SUBSET Workers : SweepSome(Workers, failed, now, mem, dirty)
      BY <1>6 DEF PeriodicSweep
    <2>2. now' = now /\ lastSweep' = now
      BY <1>6 DEF PeriodicSweep
    <2>3. \A w \in Workers : Dated(mem'[w]) /\ Dated(disk'[w]) /\ Heard(mem'[w], now)
      BY <1>1, <1>2, <2>1, SweepHears
    <2>4. QED
      BY <1>1, <2>2, <2>3 DEF ZombieInv
  <1>7. CASE Restart
    <2>1. PICK t \in now..MaxNow, failed \in SUBSET Workers :
             /\ SweepSome(Workers, failed, t, disk, {})
             /\ now' = t /\ lastSweep' = t
      BY <1>7 DEF Restart
    <2>2. t \in 1..MaxNow /\ t <= t
      BY <1>1, EngineAssumption
    <2>3. \A w \in Workers : Dated(mem'[w]) /\ Dated(disk'[w]) /\ Heard(mem'[w], t)
      BY <1>1, <1>2, <2>1, <2>2, SweepHears
    <2>4. QED
      BY <2>1, <2>2, <2>3 DEF ZombieInv
  <1>8. CASE Purges /\ UNCHANGED <<now, lastSweep>>
    <2>1. \A w \in Workers : mem'[w] \in {mem[w], None} /\ disk'[w] \in {disk[w], None}
      BY <1>8 DEF Purges, Purge
    <2>2. Dated(None) /\ Heard(None, lastSweep)
      BY DEF Dated, Heard
    <2>3. \A w \in Workers : Dated(mem'[w]) /\ Dated(disk'[w]) /\ Heard(mem'[w], lastSweep)
      BY <1>2, <2>1, <2>2
    <2>4. QED
      BY <1>1, <1>8, <2>3 DEF ZombieInv
  <1>9. QED
    BY <1>3, <1>4, <1>5, <1>6, <1>7, <1>8, ActivitySteps

(* No pending entry of a worker that fell silent outlives the sweep after its *)
(* heartbeat window, in any interleaving of sweeps, failures and restarts.    *)
THEOREM ZombiesAreSwept == Spec => []NoZombiePending
  <1>1. Init => ZombieInv
    <2> SUFFICES ASSUME Init PROVE ZombieInv
      OBVIOUS
    <2>1. lastSweep <= now
      BY DEF Init
    <2>2. QED
      BY <2>1 DEF Init, ZombieInv, Dated, Heard
  <1>2. ZombieInv => NoZombiePending
    BY DEF ZombieInv, Heard, NoZombiePending, Pending, Known
  <1>3. QED
    BY <1>1, <1>2, StepZombies, TypeCorrect, DecisionsInvariant, PTL DEF Spec
===============================================================================
