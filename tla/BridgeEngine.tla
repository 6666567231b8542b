----------------------------- MODULE BridgeEngine -----------------------------
(***************************************************************************)
(* The hub's engine: one timeline of events and one set of pending         *)
(* permissions per worker, held in memory and mirrored to one JSON file    *)
(* per worker, and the SSE subscriptions the events are fanned out to.     *)
(* One action per engine operation.  An operation that never suspends      *)
(* between taking the lock and fanning out runs as one step of the event   *)
(* loop; the only critical section that can suspend is the `await q.put`   *)
(* of goodbye / unregister on a full queue, which holds the engine lock.   *)
(***************************************************************************)
EXTENDS Integers, Sequences, FiniteSets

CONSTANTS
    Workers,         \* names of workers (managers are workers too)
    Managers,        \* the names ending in "-manager"
    ManagerOf,       \* function: a worker that is no manager -> its manager's name
    RequestIds,      \* permission request ids
    Streams,         \* SSE subscriptions (one queue and one generator each)
    Global,          \* the scope of a subscribe_all() stream
    None,            \* "no such thing": no worker state, no lock holder, no request
    QueueCap,        \* asyncio.Queue(maxsize=256), 512 for a global stream
    SweepGrace,      \* _SWEEP_GRACE_S
    SweepHeartbeat,  \* _SWEEP_HEARTBEAT_S
    SweepEvery,      \* period of the permission sweep task
    PurgeAge,        \* max_age_s of purge_stale_workers
    PlainKinds,      \* bound: which plain messages this instance sends
    MaxEvents,       \* bound: events recorded in all
    MaxNow,          \* bound: the clock
    MaxFaults        \* bound: state-file writes that raise

ASSUME EngineAssumption ==
    /\ IsFiniteSet(Workers)
    /\ Managers \subseteq Workers
    /\ None \notin Workers \cup RequestIds \cup Streams \cup {Global}
    /\ Global \notin Workers
    /\ QueueCap \in Nat \ {0}
    /\ {SweepGrace, SweepHeartbeat, PurgeAge} \subseteq Nat
    /\ {SweepEvery, MaxNow} \subseteq Nat \ {0}
    /\ {MaxEvents, MaxFaults} \subseteq Nat
    /\ PlainKinds \subseteq {"inbound", "interrupt", "session_boundary"}

Kinds == {"inbound", "outbound", "permission_request", "permission_response",
          "interrupt", "session_boundary"}
ProofKinds == {"outbound", "permission_response"}
\* The kinds _fan_out pushes to the worker's own forwarder; the others go to
\* the global streams only.
ForwardedKinds == {"inbound", "permission_response", "interrupt"}

Event == [id : 1..MaxEvents, kind : Kinds, rid : RequestIds \cup {None}, ts : 1..MaxNow]
WorkerState == [events : Seq(Event), pending : SUBSET RequestIds,
                lastActivity : 0..MaxNow, exited : BOOLEAN]

ASSUME NoneIsNoState == None \notin WorkerState

\* What a subscriber's queue can hold: an event, a ping (context_pct,
\* active_state), a pty_attach / pty_detach for a manager, the sentinel.
Message == [tag : {"event", "ping", "pty", "closed"}, id : 0..MaxEvents]
Ping == [tag |-> "ping", id |-> 0]
Pty == [tag |-> "pty", id |-> 0]
Closed == [tag |-> "closed", id |-> 0]

\* A stream is "open" while its queue is listed, "closed" once the queue is
\* off the list and the generator not yet finalised, "dead" when the generator
\* is gone but a putter still waits on its full queue.
Scopes == Workers \cup {Global, None}
Stream == [phase : {"idle", "open", "closed", "dead"}, scope : Scopes,
           queue : Seq(Message), seen : 0..MaxEvents, lossy : BOOLEAN]
IdleStream == [phase |-> "idle", scope |-> None, queue |-> << >>, seen |-> 0, lossy |-> FALSE]

VARIABLES
    mem,        \* engine._workers
    disk,       \* the files under workers/
    stream,     \* the subscriptions
    lock,       \* None, or the stream whose full queue the lock holder waits on
    purging,    \* purge_stale_workers' candidates, while it waits for the lock
    now,        \* time.time()
    lastSweep,  \* when the periodic sweep last ran
    nextId,     \* event ids handed out so far, plus one
    acked,      \* history: ids of the events whose caller was told they are stored
    dirty,      \* history: the workers the last write of whose file failed
    faults      \* bound: failed writes so far

timeline == <<mem, disk, nextId, acked, dirty, faults>>
vars == <<mem, disk, stream, lock, purging, now, lastSweep, nextId, acked, dirty, faults>>
-----------------------------------------------------------------------------
Known(w) == mem[w] # None
Pending(w) == IF Known(w) THEN mem[w].pending ELSE {}
EventIds(ws) == IF ws = None THEN {} ELSE {ws.events[i].id : i \in DOMAIN ws.events}
Open(w) == {s \in Streams : stream[s].phase = "open" /\ stream[s].scope = w}
IsOnline(w) == Open(w) # {}

FreshState == [events |-> << >>, pending |-> {}, lastActivity |-> 0, exited |-> FALSE]

\* A plausible earlier form of _get_or_create_worker: no look at the file.
CacheOrFresh(w) == IF Known(w) THEN mem[w] ELSE FreshState

\* _get_or_create_worker: the cache, else the file, else a fresh state.
GetOrCreate(w) ==
    IF Known(w) THEN mem[w] ELSE IF disk[w] # None THEN disk[w] ELSE FreshState

Asked(evs, r) == {i \in DOMAIN evs : evs[i].kind = "permission_request" /\ evs[i].rid = r}
Answered(evs, r) == {i \in DOMAIN evs : evs[i].kind = "permission_response" /\ evs[i].rid = r}
LastAsked(evs, r) == CHOOSE i \in Asked(evs, r) : \A j \in Asked(evs, r) : j <= i
Quiet(ws, t, limit) == ws.lastActivity > 0 /\ t - ws.lastActivity > limit

\* A sweep without its heartbeat path.
StaleByProof(ws, r, t) ==
    LET asked == ws.events[LastAsked(ws.events, r)].ts IN
    /\ t - asked > SweepGrace
    /\ \E i \in DOMAIN ws.events : ws.events[i].kind \in ProofKinds /\ ws.events[i].ts > asked

\* Whether the sweep drops the pending request r at time t: an orphan after the
\* grace window, one older than a proof of progress, or one of a silent worker.
Stale(ws, r, t) ==
    IF Asked(ws.events, r) = {}
    THEN Quiet(ws, t, SweepGrace)
    ELSE StaleByProof(ws, r, t) \/ Quiet(ws, t, SweepHeartbeat)

Swept(ws, t) == [ws EXCEPT !.pending = {r \in @ : ~Stale(ws, r, t)}]
-----------------------------------------------------------------------------
\* _persist writes a temporary file and renames it over the old one, so a file
\* is the old or the new state; a write that raises leaves memory changed.
Writes == IF faults < MaxFaults THEN BOOLEAN ELSE {TRUE}

\* A commit that writes the file in place: one that fails has truncated it.
CommitInPlace(w, ws, ok) ==
    /\ mem' = [mem EXCEPT ![w] = ws]
    /\ disk' = IF ok THEN [disk EXCEPT ![w] = ws] ELSE [disk EXCEPT ![w] = None]
    /\ dirty' = IF ok THEN dirty \ {w} ELSE dirty \cup {w}
    /\ faults' = IF ok THEN faults ELSE faults + 1

Commit(w, ws, ok) ==
    /\ mem' = [mem EXCEPT ![w] = ws]
    /\ disk' = IF ok THEN [disk EXCEPT ![w] = ws] ELSE disk
    /\ dirty' = IF ok THEN dirty \ {w} ELSE dirty \cup {w}
    /\ faults' = IF ok THEN faults ELSE faults + 1

\* A put that makes room by dropping the oldest message.
SafePutRing(st, m) ==
    [st EXCEPT !.queue = IF Len(@) < QueueCap THEN Append(@, m) ELSE Append(Tail(@), m)]

\* _safe_put: a full queue loses the message, and the sentinel put in its place
\* finds the queue as full as the message did.
SafePut(st, m) ==
    IF Len(st.queue) < QueueCap
    THEN [st EXCEPT !.queue = Append(@, m)]
    ELSE [st EXCEPT !.lossy = TRUE]

\* A queue told to end that stays on the list.
DelistKeepsListed(st) == SafePut(st, Closed)

\* A queue off the list, with the sentinel put_nowait can still place.
Delist(st) == [SafePut(st, Closed) EXCEPT !.phase = "closed"]

\* _fan_out of m to the streams of the scopes named.
FanOut(scopes, m) ==
    stream' = [s \in Streams |->
        IF stream[s].phase = "open" /\ stream[s].scope \in scopes
        THEN SafePut(stream[s], m) ELSE stream[s]]
-----------------------------------------------------------------------------
Init ==
    /\ mem = [w \in Workers |-> None]
    /\ disk = [w \in Workers |-> None]
    /\ stream = [s \in Streams |-> IdleStream]
    /\ lock = None
    /\ purging = {}
    /\ now = 1
    /\ lastSweep = 1
    /\ nextId = 1
    /\ acked = [w \in Workers |-> {}]
    /\ dirty = {}
    /\ faults = 0

\* A timeline with one more event.
Extended(ws, event, pending) ==
    [events |-> Append(ws.events, event), pending |-> pending,
     lastActivity |-> event.ts, exited |-> ws.exited]

\* record_* / enqueue_inbound / send_interrupt: append the event, save the
\* file, fan out.  A write that raises stops the handler: the event stays in
\* memory, nobody is told and nothing is fanned out.
Record(w, kind, rid, pending) ==
    LET event == [id |-> nextId, kind |-> kind, rid |-> rid, ts |-> now]
        ws == Extended(GetOrCreate(w), event, pending)
        scopes == IF kind \in ForwardedKinds THEN {w, Global} ELSE {Global}
    IN /\ lock = None
       /\ nextId <= MaxEvents
       /\ nextId' = nextId + 1
       /\ \E ok \in Writes :
             /\ Commit(w, IF kind = "outbound" THEN Swept(ws, now) ELSE ws, ok)
             /\ acked' = IF ok THEN [acked EXCEPT ![w] = @ \cup {nextId}] ELSE acked
             /\ IF ok THEN FanOut(scopes, [tag |-> "event", id |-> nextId])
                      ELSE UNCHANGED stream
       /\ UNCHANGED <<lock, purging, now, lastSweep>>

EnqueueInbound(w) ==
    "inbound" \in PlainKinds /\ Record(w, "inbound", None, GetOrCreate(w).pending)
SendInterrupt(w) ==
    "interrupt" \in PlainKinds /\ Record(w, "interrupt", None, GetOrCreate(w).pending)
RecordSessionBoundary(w) ==
    "session_boundary" \in PlainKinds
        /\ Record(w, "session_boundary", None, GetOrCreate(w).pending)
RecordOutbound(w) == Record(w, "outbound", None, GetOrCreate(w).pending)

\* A request recorded without its id.
RecordRequestWithoutId(w, r) ==
    Record(w, "permission_request", r, GetOrCreate(w).pending \cup {None})

\* The event is appended every time; the pending list is deduplicated by id.
RecordPermissionRequest(w, r) ==
    Record(w, "permission_request", r, GetOrCreate(w).pending \cup {r})

\* A resolve that leaves the entry in the list.
ResolveKeepsPending(w, r) ==
    r \in Pending(w) /\ Record(w, "permission_response", r, mem[w].pending)

\* A resolve that does not look the request up.
ResolveUnchecked(w, r) ==
    Known(w) /\ Record(w, "permission_response", r, mem[w].pending \ {r})

\* resolve_permission: FALSE, and no change, unless the request is pending.
ResolvePermission(w, r) ==
    r \in Pending(w) /\ Record(w, "permission_response", r, mem[w].pending \ {r})

\* _sync_pty_stream: tell the worker's manager whether to stream its terminal.
\* Nothing subscribes to the manager of a manager.
SyncPty(w) == FanOut(IF w \in Managers THEN {Global} ELSE {ManagerOf[w], Global}, Pty)

\* A register that does not save.
RegisterUnsaved(w) ==
    /\ lock = None
    /\ mem' = [mem EXCEPT ![w] = [GetOrCreate(w) EXCEPT !.pending = {}, !.lastActivity = now]]
    /\ UNCHANGED <<disk, stream, lock, purging, now, lastSweep, nextId, acked, dirty, faults>>

\* register_worker: clears the pending list and the clean-exit flag, then tells
\* the worker's manager whether to stream the terminal (_sync_pty_stream).
RegisterWorker(w) ==
    /\ lock = None
    /\ \E ok \in Writes :
          /\ Commit(w, [GetOrCreate(w) EXCEPT !.pending = {}, !.lastActivity = now,
                                              !.exited = FALSE], ok)
          /\ IF ok /\ w \notin Managers THEN SyncPty(w) ELSE UNCHANGED stream
    /\ UNCHANGED <<lock, purging, now, lastSweep, nextId, acked>>

\* update_active_state and update_context_pct on a known worker: a heartbeat,
\* with a ping to the web UI when the observed value changed.
Touch(w, ping) ==
    /\ lock = None
    /\ Known(w)
    /\ \E ok \in Writes :
          /\ Commit(w, [mem[w] EXCEPT !.lastActivity = now], ok)
          /\ IF ok /\ ping THEN FanOut({Global}, Ping) ELSE UNCHANGED stream
    /\ UNCHANGED <<lock, purging, now, lastSweep, nextId, acked>>

UpdateActiveState(w) == \E flipped \in BOOLEAN : Touch(w, flipped)
\* An unchanged percentage changes nothing at all.
UpdateContextPct(w) == Touch(w, TRUE)

\* set_recording_enabled on a known worker: save the flag, sync the terminal.
SetRecordingEnabled(w) ==
    /\ lock = None
    /\ Known(w)
    /\ \E ok \in Writes :
          /\ Commit(w, mem[w], ok)
          /\ IF ok THEN SyncPty(w) ELSE UNCHANGED stream
    /\ UNCHANGED <<lock, purging, now, lastSweep, nextId, acked>>

\* A browser opens or leaves the worker's terminal; no lock is taken.
SyncPtyStream(w) ==
    /\ w \notin Managers
    /\ SyncPty(w)
    /\ UNCHANGED <<timeline, lock, purging, now, lastSweep>>

\* The loop over pop(name, []): one queue at most, and `await q.put(closed)`
\* waits, lock in hand, while that queue is full.
CloseSubscribers(w) ==
    IF Open(w) = {}
    THEN UNCHANGED <<stream, lock>>
    ELSE \E s \in Open(w) :
            IF Len(stream[s].queue) < QueueCap
            THEN stream' = [stream EXCEPT ![s] = Delist(@)] /\ UNCHANGED lock
            ELSE stream' = [stream EXCEPT ![s].phase = "closed"] /\ lock' = s

UnregisterWorker(w) ==
    /\ lock = None
    /\ CloseSubscribers(w)
    /\ UNCHANGED <<timeline, purging, now, lastSweep>>

\* goodbye_worker: a write that raises skips the loop over the subscribers.
GoodbyeWorker(w) ==
    /\ lock = None
    /\ IF Known(w)
       THEN \E ok \in Writes :
               /\ Commit(w, [mem[w] EXCEPT !.exited = TRUE, !.lastActivity = now], ok)
               /\ IF ok THEN CloseSubscribers(w) ELSE UNCHANGED <<stream, lock>>
       ELSE CloseSubscribers(w) /\ UNCHANGED <<mem, disk, dirty, faults>>
    /\ UNCHANGED <<purging, now, lastSweep, nextId, acked>>

\* The waiting put goes through once the generator has taken a message.
CompletePut ==
    /\ lock # None
    /\ Len(stream[lock].queue) < QueueCap
    /\ stream' = [stream EXCEPT ![lock].queue = Append(@, Closed)]
    /\ lock' = None
    /\ UNCHANGED <<timeline, purging, now, lastSweep>>
-----------------------------------------------------------------------------
\* _sweep_stale_for_worker at time t on the workers of W, whose states are `from`
\* and the files of `behind` being out of date; the writes of `failed` raise.
SweepSome(W, failed, t, from, behind) ==
    LET swept == [w \in Workers |-> IF w \in W /\ from[w] # None THEN Swept(from[w], t) ELSE from[w]]
        changed == {w \in Workers : swept[w] # from[w]}
    IN /\ failed \subseteq changed
       /\ faults + Cardinality(failed) <= MaxFaults
       /\ faults' = faults + Cardinality(failed)
       /\ mem' = swept
       /\ disk' = [w \in Workers |-> IF w \in changed \ failed THEN swept[w] ELSE disk[w]]
       /\ dirty' = (behind \ changed) \cup failed

\* sweep_stale_permissions / sweep_stale_permissions_all, called by an operator.
SweepOnDemand ==
    /\ lock = None
    /\ \E W \in {{w} : w \in Workers} \cup {Workers}, failed \in SUBSET Workers :
          SweepSome(W, failed, now, mem, dirty)
    /\ UNCHANGED <<stream, lock, purging, now, lastSweep, nextId, acked>>

\* _periodic_sweep_pending_permissions: one round of the task's loop.
PeriodicSweep ==
    /\ lock = None
    /\ \E failed \in SUBSET Workers : SweepSome(Workers, failed, now, mem, dirty)
    /\ lastSweep' = now
    /\ UNCHANGED <<stream, lock, purging, now, nextId, acked>>

\* purge_worker on each worker of W: state, file and subscribers go; `kept` are
\* the files whose unlink raises.
Purge(W, kept) ==
    /\ lock = None
    /\ kept \subseteq {w \in W : disk[w] # None}
    /\ faults + Cardinality(kept) <= MaxFaults
    /\ faults' = faults + Cardinality(kept)
    /\ mem' = [w \in Workers |-> IF w \in W THEN None ELSE mem[w]]
    /\ disk' = [w \in Workers |-> IF w \in W \ kept THEN None ELSE disk[w]]
    /\ dirty' = (dirty \ W) \cup kept
    /\ acked' = [w \in Workers |-> IF w \in W THEN {} ELSE acked[w]]
    /\ stream' = [s \in Streams |->
           IF stream[s].phase = "open" /\ stream[s].scope \in W THEN Delist(stream[s]) ELSE stream[s]]

PurgeWorker(w) ==
    /\ \E kept \in SUBSET {w} : Purge({w}, kept)
    /\ UNCHANGED <<lock, purging, now, lastSweep, nextId>>

PurgeCandidates ==
    {w \in Workers : Known(w) /\ ~IsOnline(w) /\ mem[w].pending = {}
                     /\ now - mem[w].lastActivity >= PurgeAge}

\* purge_stale_workers picks its candidates without the lock.  On a free lock it
\* purges them in the same step; otherwise it goes on when the lock is free.
PurgeStaleWorkers ==
    /\ lock = None
    /\ purging = {}
    /\ PurgeCandidates # {}
    /\ \E kept \in SUBSET Workers : Purge(PurgeCandidates, kept)
    /\ UNCHANGED <<lock, purging, now, lastSweep, nextId>>

PurgeStaleWaits ==
    /\ lock # None
    /\ purging = {}
    /\ PurgeCandidates # {}
    /\ purging' = PurgeCandidates
    /\ UNCHANGED <<timeline, stream, lock, now, lastSweep>>

PurgeStaleResumes ==
    \E w \in purging :
        /\ \E kept \in SUBSET {w} : Purge({w}, kept)
        /\ purging' = purging \ {w}
        /\ UNCHANGED <<lock, now, lastSweep, nextId>>
-----------------------------------------------------------------------------
\* A subscribe that leaves the older subscription listed.
SubscribeBeside(w, s) ==
    /\ stream[s].phase = "idle"
    /\ stream' = [stream EXCEPT ![s] = [phase |-> "open", scope |-> w, queue |-> << >>,
                                        seen |-> nextId - 1, lossy |-> FALSE]]
    /\ UNCHANGED <<timeline, lock, purging, now, lastSweep>>

\* subscribe, no lock taken: the older subscription of the worker is evicted.
Subscribe(w, s) ==
    /\ stream[s].phase = "idle"
    /\ stream' = [x \in Streams |->
           IF x = s THEN [phase |-> "open", scope |-> w, queue |-> << >>,
                          seen |-> nextId - 1, lossy |-> FALSE]
           ELSE IF x \in Open(w) THEN Delist(stream[x]) ELSE stream[x]]
    /\ UNCHANGED <<timeline, lock, purging, now, lastSweep>>

\* subscribe_all never evicts.
SubscribeAll(s) ==
    /\ stream[s].phase = "idle"
    /\ stream' = [stream EXCEPT ![s] = [phase |-> "open", scope |-> Global, queue |-> << >>,
                                        seen |-> nextId - 1, lossy |-> FALSE]]
    /\ UNCHANGED <<timeline, lock, purging, now, lastSweep>>

\* A generator that stops reading once its queue is off the list.
DeliverWhileListed(s) ==
    /\ stream[s].phase = "open"
    /\ stream[s].queue # << >>
    /\ Head(stream[s].queue) # Closed
    /\ stream' = [stream EXCEPT ![s].queue = Tail(@),
           ![s].seen = IF Head(stream[s].queue).tag = "event" THEN Head(stream[s].queue).id ELSE @]
    /\ UNCHANGED <<timeline, lock, purging, now, lastSweep>>

\* The generator takes a message and hands it to its client.
Deliver(s) ==
    /\ stream[s].phase \in {"open", "closed"}
    /\ stream[s].queue # << >>
    /\ Head(stream[s].queue) # Closed
    /\ stream' = [stream EXCEPT ![s].queue = Tail(@),
           ![s].seen = IF Head(stream[s].queue).tag = "event" THEN Head(stream[s].queue).id ELSE @]
    /\ UNCHANGED <<timeline, lock, purging, now, lastSweep>>

\* The generator's finally block: off the list, and if no other subscription of
\* the worker is left its pending permissions go.  It takes no lock.
Finalise(s) ==
    LET w == stream[s].scope
        last == w \in Workers /\ Open(w) \ {s} = {}
    IN /\ stream' = [stream EXCEPT ![s] = IF lock = s THEN [@ EXCEPT !.phase = "dead"] ELSE IdleStream]
       /\ IF last /\ Pending(w) # {}
          THEN \E ok \in Writes :
                  Commit(w, [mem[w] EXCEPT !.pending = {}, !.lastActivity = now], ok)
          ELSE UNCHANGED <<mem, disk, dirty, faults>>
       /\ UNCHANGED <<lock, purging, now, lastSweep, nextId, acked>>

\* The generator reads the sentinel, or its client goes away at any time.
StreamEnds(s) ==
    /\ stream[s].phase \in {"open", "closed"}
    /\ stream[s].queue # << >>
    /\ Head(stream[s].queue) = Closed
    /\ Finalise(s)

Disconnect(s) ==
    /\ stream[s].phase \in {"open", "closed"}
    /\ Finalise(s)
-----------------------------------------------------------------------------
\* The process dies and a new one loads the files (_load_all) and sweeps them.
\* A clean shutdown is Disconnect of every stream, then this.
Restart ==
    \E t \in now..MaxNow, failed \in SUBSET Workers :
        /\ SweepSome(Workers, failed, t, disk, {})
        /\ stream' = [s \in Streams |-> IdleStream]
        /\ lock' = None
        /\ purging' = {}
        /\ now' = t
        /\ lastSweep' = t
        /\ UNCHANGED <<nextId, acked>>

\* Time passes, but the sweep task is not starved: only a held lock delays it.
Tick ==
    /\ now < MaxNow
    /\ lock # None \/ now - lastSweep < SweepEvery
    /\ now' = now + 1
    /\ UNCHANGED <<timeline, stream, lock, purging, lastSweep>>

Next ==
    \/ \E w \in Workers :
          \/ RegisterWorker(w) \/ UnregisterWorker(w) \/ GoodbyeWorker(w)
          \/ EnqueueInbound(w) \/ SendInterrupt(w) \/ RecordSessionBoundary(w)
          \/ RecordOutbound(w)
          \/ UpdateActiveState(w) \/ UpdateContextPct(w)
          \/ SetRecordingEnabled(w) \/ SyncPtyStream(w)
          \/ PurgeWorker(w)
    \/ \E w \in Workers, r \in RequestIds :
          RecordPermissionRequest(w, r) \/ ResolvePermission(w, r)
    \/ \E s \in Streams : SubscribeAll(s) \/ Deliver(s) \/ StreamEnds(s) \/ Disconnect(s)
    \/ \E w \in Workers, s \in Streams : Subscribe(w, s)
    \/ CompletePut
    \/ SweepOnDemand \/ PeriodicSweep
    \/ PurgeStaleWorkers \/ PurgeStaleWaits \/ PurgeStaleResumes
    \/ Restart \/ Tick

Spec == Init /\ [][Next]_vars

\* A put that can go through goes through (the event loop runs), and a client
\* that stays connected goes on reading its stream.
Fairness == WF_vars(CompletePut) /\ \A s \in Streams : WF_vars(Deliver(s))

FairSpec == Spec /\ Fairness
-----------------------------------------------------------------------------
TypeOK ==
    /\ mem \in [Workers -> WorkerState \cup {None}]
    /\ disk \in [Workers -> WorkerState \cup {None}]
    /\ stream \in [Streams -> Stream]
    /\ lock \in Streams \cup {None}
    /\ purging \in SUBSET Workers
    /\ now \in 1..MaxNow
    /\ lastSweep \in 1..MaxNow
    /\ nextId \in 1..(MaxEvents + 1)
    /\ acked \in [Workers -> SUBSET (1..MaxEvents)]
    /\ dirty \subseteq Workers
    /\ faults \in 0..MaxFaults

\* An event whose caller was told it is stored is in the worker's file and in
\* memory, across failed writes, restarts and evictions, until the worker is
\* purged: what the file is for (the durability contract of QM #207).
AckedEventsDurable ==
    \A w \in Workers : acked[w] \subseteq EventIds(disk[w]) \cap EventIds(mem[w])

\* Unless its last write failed, a worker's file holds exactly its state, so a
\* restart changes nothing that an operation of the engine left behind.
FileIsCurrent == \A w \in Workers \ dirty : mem[w] = disk[w]

\* A pending permission was asked for and has not been decided since: no entry
\* outlives its decision, in memory or in a file a restart may load.
AwaitsDecision(ws) ==
    \A r \in ws.pending : \E i \in Asked(ws.events, r) :
        \A j \in Answered(ws.events, r) : j < i

PendingAwaitsDecision ==
    \A w \in Workers :
        /\ mem[w] # None => AwaitsDecision(mem[w])
        /\ disk[w] # None => AwaitsDecision(disk[w])

\* A request is decided at most once however many deciders race (the orchestrator,
\* the web UI, the terminal): between two decisions it was asked again.
DecidedOnce(ws) ==
    \A r \in RequestIds : \A j \in Answered(ws.events, r) :
        \E i \in Asked(ws.events, r) :
            i < j /\ \A k \in Answered(ws.events, r) : ~(i < k /\ k < j)

EveryDecisionAnswersARequest ==
    \A w \in Workers :
        /\ mem[w] # None => DecidedOnce(mem[w])
        /\ disk[w] # None => DecidedOnce(disk[w])

\* No pending entry of a worker that fell silent outlives the sweep after its
\* heartbeat window: the zombie entries of QM #416.
NoZombiePending ==
    \A w \in Workers : Pending(w) # {} => lastSweep <= mem[w].lastActivity + SweepHeartbeat

\* A worker's file only ever grows, whatever is evicted from memory or lost in
\* a crash, until the file is removed: no writer replaces a history.
TimelineOnlyGrows ==
    [][\A w \in Workers :
          disk[w] # None /\ disk'[w] # None =>
              /\ Len(disk[w].events) <= Len(disk'[w].events)
              /\ \A i \in DOMAIN disk[w].events : disk'[w].events[i] = disk[w].events[i]]_disk

\* Only the newest forwarder of a worker is subscribed (the duplicate replies of
\* the 2026-04-16 incident).
OneForwarder == \A w \in Workers : \A s, x \in Open(w) : s = x

\* "Subscribers get any event after their subscription time": while nothing was
\* lost to a full queue, the events that wait in it are, in the timeline's order,
\* all those stored for the forwarder that the client has not been handed.
Waiting(s) == {i \in DOMAIN stream[s].queue : stream[s].queue[i].tag = "event"}
Due(ws, ids, seen) ==
    IF ws = None THEN {}
    ELSE {a \in DOMAIN ws.events :
             /\ ws.events[a].kind \in ForwardedKinds
             /\ ws.events[a].id \in ids
             /\ ws.events[a].id > seen}

NoGapInStream ==
    \A w \in Workers : \A s \in Open(w) : ~stream[s].lossy =>
        LET due == Due(mem[w], acked[w], stream[s].seen)
            carries(i, a) == stream[s].queue[i].id = mem[w].events[a].id
        IN /\ \A i \in Waiting(s) : \E a \in due : carries(i, a)
           /\ \A a \in due : \E i \in Waiting(s) : carries(i, a)
           /\ \A i, j \in Waiting(s), a, b \in due :
                 i < j /\ carries(i, a) /\ carries(j, b) => a < b

\* Nothing follows the sentinel, and a listed queue holds none: a message put
\* behind it would be accepted and never delivered.
SentinelIsLast ==
    \A s \in Streams : \A i \in DOMAIN stream[s].queue :
        stream[s].queue[i] = Closed =>
            i = Len(stream[s].queue) /\ stream[s].phase \in {"closed", "dead"}

\* unregister / goodbye close the worker's stream with the engine lock in hand:
\* they finish, unless the reader of that full queue has gone away.
LockWaitsForItsReader ==
    \A s \in Streams : lock = s ~> lock = None \/ stream[s].phase = "dead"

\* "Mark the worker as having exited cleanly and close its subscribers": the
\* closing ends, and the engine can serve again.
LockIsReleased == lock # None ~> lock = None

\* "Put without silently dropping on QueueFull -- log + sentinel so the slow
\* subscriber's iterator terminates cleanly."
SlowSubscriberIsClosed ==
    \A s \in Streams : stream[s].phase = "open" /\ stream[s].lossy =>
        \E i \in DOMAIN stream[s].queue : stream[s].queue[i] = Closed
=============================================================================
