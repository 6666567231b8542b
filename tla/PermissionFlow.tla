---------------------------- MODULE PermissionFlow ----------------------------
(***************************************************************************)
(* A permission prompt's life on one worker: Claude Code opens it, the     *)
(* channel plugin reports it to the hub, and whoever decides first - the   *)
(* user at the terminal or the orchestrator through the hub - has to be    *)
(* heard by the other side.  The channel reads its stdin one message at a  *)
(* time and awaits each handler; a resolution it cannot post is retried,   *)
(* then spooled to a file that a later channel process drains.  The        *)
(* directory of these files is also the spool of the Stop hook (StopRelay),*)
(* a process of its own that evicts them when it finds the directory full. *)
(* Besides, a task keeps one SSE stream to the hub open and registers      *)
(* before each connect.  Of the hub, this module keeps the pending list    *)
(* and the one subscription; BridgeEngine has the rest.                    *)
(***************************************************************************)
EXTENDS Integers, Sequences, FiniteSets, Selections

CONSTANTS
    RequestIds,   \* prompts; Claude Code gives each an id of its own
    Behaviors,    \* the decisions this instance uses, of "allow" and "deny"
    None,         \* no handler, no request, no behavior
    MaxRetries,   \* _MAX_RETRIES: how often one resolution is tried
    SpoolCap,     \* _SPOOL_CAP, of permission files
    HookCap,      \* the Stop hook's SPOOL_CAP, of all files in the directory
    MaxStuck,     \* bound: files that stay because their unlink fails
    MaxSessions,  \* bound: sessions of Claude Code, one after the other
    MaxLate,      \* bound: posts the hub carries out after the client gave up
    MaxBreaks     \* bound: broken streams and hub restarts

ASSUME FlowAssumption ==
    /\ IsFiniteSet(RequestIds)
    /\ "allow" \in Behaviors /\ Behaviors \subseteq {"allow", "deny"}
    /\ None \notin RequestIds \cup Behaviors
    /\ {MaxRetries, SpoolCap, HookCap, MaxSessions} \subseteq Nat \ {0}
    /\ {MaxStuck, MaxLate, MaxBreaks} \subseteq Nat

Resolution == [rid : RequestIds, behavior : Behaviors]
\* What the channel posts to the hub, and what Claude Code sends the channel:
\* "ask" is a permission_request, "answer" a resolution.
Message == [kind : {"register"}, rid : {None}, behavior : {None}]
              \cup [kind : {"ask"}, rid : RequestIds, behavior : {None}]
              \cup [kind : {"answer"}, rid : RequestIds, behavior : Behaviors]
Register == [kind |-> "register", rid |-> None, behavior |-> None]
Ask(r) == [kind |-> "ask", rid |-> r, behavior |-> None]
Answer(r, b) == [kind |-> "answer", rid |-> r, behavior |-> b]

\* A handler in progress: the post it makes next, or the draining of the spool.
Handler == [step : {"register", "drain", "ask", "answer"}, post : Message, tries : 0..(MaxRetries - 1)]
Handling(step, m) == [step |-> step, post |-> m, tries |-> 0]

ASSUME NoneIsNoHandler == None \notin Handler

VARIABLES
    session,    \* bound: sessions begun
    alive,      \* the channel process runs
    prompt,     \* Claude Code's prompts: new, open, the decision, or gone with the session
    inbox,      \* the channel's stdin: messages sent and not yet read
    handler,    \* the handler dispatch awaits, or None
    spool,      \* the files permission-*.json, oldest first
    passed,     \* how many of the first files the drain in progress is done with
    condemned,  \* how many of the first files the Stop hook has listed to evict
    stuck,      \* bound: unlinks that failed
    delivered,  \* history: the last resolution this process posted was delivered
    link,       \* the SSE task: not started, about to register, about to connect, or up
    downlink,   \* decisions the hub sent down the stream and the channel has not read
    listed,     \* the hub's subscription: none, the stream that is up, or a broken one
    evicted,    \* an earlier subscription's generator is still to finish
    pending,    \* the hub's pending_permissions
    wire,       \* posts the client gave up on and the hub may still carry out
    late,       \* bound: how many there were
    breaks,     \* bound: broken streams and hub restarts
    leaked      \* history: requests whose resolution is known to be lost

claude == <<session, alive, prompt>>
hub == <<listed, evicted, pending, downlink>>
files == <<spool, passed, condemned, stuck>>
bounds == <<late, breaks>>
vars == <<session, alive, prompt, inbox, handler, spool, passed, condemned, stuck, delivered,
          link, downlink, listed, evicted, pending, wire, late, breaks, leaked>>

TypeOK ==
    /\ session \in 0..MaxSessions /\ alive \in BOOLEAN
    /\ prompt \in [RequestIds -> Behaviors \cup {"new", "open", "gone"}]
    /\ inbox \in Seq(Message)
    /\ handler \in Handler \cup {None}
    /\ spool \in Seq(Resolution) /\ Len(spool) <= SpoolCap + stuck
    /\ {passed, condemned} \subseteq Nat /\ stuck \in 0..MaxStuck
    /\ delivered \in BOOLEAN
    /\ link \in {"off", "down", "registered", "up"}
    /\ downlink \in Seq(Resolution)
    /\ listed \in {"none", "live", "broken"} /\ evicted \in BOOLEAN
    /\ pending \subseteq RequestIds /\ leaked \subseteq RequestIds
    /\ wire \subseteq Message
    /\ late \in 0..MaxLate /\ breaks \in 0..MaxBreaks

Init ==
    /\ session = 0 /\ alive = FALSE
    /\ prompt = [r \in RequestIds |-> "new"]
    /\ inbox = << >> /\ handler = None
    /\ spool = << >> /\ passed = 0 /\ condemned = 0 /\ stuck = 0
    /\ delivered = FALSE
    /\ link = "off" /\ downlink = << >>
    /\ listed = "none" /\ evicted = FALSE
    /\ pending = {} /\ wire = {} /\ leaked = {}
    /\ late = 0 /\ breaks = 0
-----------------------------------------------------------------------------
Rids(q) == {q[i].rid : i \in DOMAIN q}

\* The requests whose resolution the channel has in hand: unread, being posted,
\* or spooled.
Carried ==
    {inbox[i].rid : i \in {j \in DOMAIN inbox : inbox[j].kind = "answer"}}
        \cup Rids(spool)
        \cup (IF handler # None /\ handler.step = "answer" THEN {handler.post.rid} ELSE {})

\* Claude Code.

\* It spawns the channel and acknowledges the initialize handshake.
StartSession ==
    /\ ~alive /\ session < MaxSessions
    /\ alive' = TRUE /\ session' = session + 1
    /\ inbox' = <<Register>>
    /\ delivered' = FALSE
    /\ UNCHANGED <<prompt, handler, files, link, hub, wire, bounds, leaked>>

OpenPrompt(r) ==
    /\ alive /\ prompt[r] = "new"
    /\ prompt' = [prompt EXCEPT ![r] = "open"]
    /\ inbox' = Append(inbox, Ask(r))
    /\ UNCHANGED <<session, alive, handler, files, delivered, link, hub, wire, bounds, leaked>>

\* The user decides at the terminal.
DecideAtTerminal(r, b) ==
    /\ alive /\ prompt[r] = "open"
    /\ prompt' = [prompt EXCEPT ![r] = b]
    /\ inbox' = Append(inbox, Answer(r, b))
    /\ UNCHANGED <<session, alive, handler, files, delivered, link, hub, wire, bounds, leaked>>

\* The session is over and the channel with it: its memory and the messages it
\* has not read are gone, its stream breaks.
Stops ==
    /\ alive' = FALSE
    /\ prompt' = [r \in RequestIds |-> IF prompt[r] = "new" THEN "new" ELSE "gone"]
    /\ inbox' = << >> /\ handler' = None
    /\ link' = "off" /\ downlink' = << >>
    /\ passed' = 0
    /\ UNCHANGED <<session, spool, condemned, stuck, delivered, pending, wire, bounds, leaked>>

Broken == IF listed = "live" THEN "broken" ELSE listed

\* The process is killed, or leaves at the end of stdin with an unregister the
\* hub does not hear.
Killed == alive /\ Stops /\ listed' = Broken /\ UNCHANGED evicted

\* run()'s finally at the end of stdin: unregister takes the subscription off
\* the list and tells its generator to end.
Exits ==
    /\ alive /\ handler = None /\ inbox = << >>
    /\ Stops
    /\ listed' = "none" /\ evicted' = (evicted \/ listed # "none")
-----------------------------------------------------------------------------
\* The hub.

\* resolve_permission: nothing unless r is pending; the decision goes down the
\* stream, and into the void when no live stream is there.
Resolve(r, b) ==
    /\ pending' = pending \ {r}
    /\ downlink' = IF r \in pending /\ listed = "live"
                   THEN Append(downlink, [rid |-> r, behavior |-> b]) ELSE downlink

\* What a post does at the hub.
Handle(m) ==
    CASE m.kind = "register" -> pending' = {} /\ UNCHANGED downlink
      [] m.kind = "ask"      -> pending' = pending \cup {m.rid} /\ UNCHANGED downlink
      [] m.kind = "answer"   -> Resolve(m.rid, m.behavior)

\* A post that raises: it never arrived, or the hub may carry it out yet.
GiveUp(m) ==
    /\ UNCHANGED <<pending, downlink>>
    /\ \/ UNCHANGED <<wire, late>>
       \/ late < MaxLate /\ late' = late + 1 /\ wire' = wire \cup {m}

\* The hub carries out a post nobody waits for any more.  A request recorded
\* after its prompt was decided has nobody left to resolve it.
ApplyLate(m) ==
    /\ m \in wire /\ wire' = wire \ {m}
    /\ Handle(m)
    /\ leaked' = IF m.kind = "ask" /\ prompt[m.rid] \in Behaviors /\ m.rid \notin Carried
                 THEN leaked \cup {m.rid} ELSE leaked
    /\ UNCHANGED <<claude, inbox, handler, files, delivered, link, listed, evicted, bounds>>

\* The orchestrator decides on a pending request.
DecideAtHub(r, b) ==
    /\ r \in pending
    /\ Resolve(r, b)
    /\ UNCHANGED <<claude, inbox, handler, files, delivered, link, listed, evicted, wire,
                   bounds, leaked>>

\* Entries dropped by the sweeps of BridgeEngine, which says when.
Sweep ==
    /\ pending' \in SUBSET pending
    /\ UNCHANGED <<claude, inbox, handler, files, delivered, link, downlink, listed, evicted,
                   wire, bounds, leaked>>

\* The finally of subscribe: when no other subscription is left, the pending
\* requests are those of a Claude session presumed dead.
GeneratorEnds ==
    /\ \/ listed = "broken" /\ listed' = "none" /\ pending' = {} /\ UNCHANGED evicted
       \/ evicted /\ evicted' = FALSE /\ UNCHANGED listed
            /\ pending' = IF listed = "none" THEN {} ELSE pending
    /\ UNCHANGED <<claude, inbox, handler, files, delivered, link, downlink, wire, bounds, leaked>>

\* The hub restarts: the pending list is on disk, subscriptions are not.
HubRestarts ==
    /\ breaks < MaxBreaks /\ breaks' = breaks + 1
    /\ listed' = "none" /\ evicted' = FALSE
    /\ link' = IF link = "up" THEN "down" ELSE link
    /\ downlink' = << >> /\ wire' = {}
    /\ UNCHANGED <<claude, inbox, handler, files, delivered, pending, late, leaked>>
-----------------------------------------------------------------------------
\* The channel's dispatch loop: one message is read, its handler awaited.

\* initialized registers and then drains the spool, a permission_request is
\* posted, a resolution is posted durably.
Dispatch ==
    /\ alive /\ handler = None /\ inbox # << >>
    /\ handler' = Handling(Head(inbox).kind, Head(inbox))
    /\ inbox' = Tail(inbox)
    /\ UNCHANGED <<claude, files, delivered, link, hub, wire, bounds, leaked>>

\* The register of _handle_initialized, whose failure is only reported.
RegisterAtInit ==
    /\ handler # None /\ handler.step = "register"
    /\ \/ Handle(Register) /\ UNCHANGED <<wire, late>>
       \/ GiveUp(Register)
    /\ handler' = [handler EXCEPT !.step = "drain"]
    /\ UNCHANGED <<claude, inbox, files, delivered, link, listed, evicted, breaks, leaked>>

\* The drain of _handle_initialized goes over the files that are there when it
\* starts; none is added while it runs.
Draining == handler # None /\ handler.step = "drain"
DrainedNext == Answer(spool[passed + 1].rid, spool[passed + 1].behavior)

\* The files of the drain, the hook and the spool without those at the
\* positions gone.
Remaining(gone) == Kept(spool, DOMAIN spool \ gone)
Unlinked(gone) ==
    /\ spool' = Remaining(gone)
    /\ passed' = Cardinality((1..passed) \ gone)
    /\ condemned' = Cardinality((1..condemned) \ gone)

\* A drain that lists the directory again after each file.
StaysInFront ==
    /\ stuck < MaxStuck /\ stuck' = stuck + 1
    /\ UNCHANGED <<spool, passed, condemned>>

\* The drain's unlink of its file fails: the file stays and is passed over.
StaysBehind ==
    /\ stuck < MaxStuck /\ stuck' = stuck + 1 /\ passed' = passed + 1
    /\ UNCHANGED <<spool, condemned>>

\* Where a drain returns, _handle_initialized starts the SSE task.
DrainReturns == handler' = None /\ link' = "down" /\ passed' = 0

\* A drain that removes the file before the post.
UnlinkThenPost ==
    /\ Draining /\ passed < Len(spool)
    /\ spool' = Remaining({passed + 1}) /\ UNCHANGED <<condemned, stuck>>
    /\ \/ /\ Handle(DrainedNext)
          /\ delivered' = TRUE
          /\ UNCHANGED <<passed, handler, link, wire, late>>
       \/ GiveUp(DrainedNext) /\ delivered' = FALSE /\ DrainReturns
    /\ UNCHANGED <<claude, inbox, listed, evicted, breaks, leaked>>

\* drain_spool on one file: posted once and then removed; at the first failure
\* the drain is over.
DrainOne ==
    /\ Draining /\ passed < Len(spool)
    /\ \/ /\ Handle(DrainedNext)
          /\ (Unlinked({passed + 1}) /\ UNCHANGED stuck) \/ StaysBehind
          /\ delivered' = TRUE
          /\ UNCHANGED <<handler, link, wire, late>>
       \/ /\ GiveUp(DrainedNext)
          /\ delivered' = FALSE /\ DrainReturns
          /\ UNCHANGED <<spool, condemned, stuck>>
    /\ UNCHANGED <<claude, inbox, listed, evicted, breaks, leaked>>

\* drain_spool on a file that cannot be read: removed without a post.
DrainUnreadable ==
    /\ Draining /\ passed < Len(spool)
    /\ (Unlinked({passed + 1}) /\ UNCHANGED stuck) \/ StaysBehind
    /\ leaked' = leaked \cup (Rids(spool) \ Rids(spool'))
    /\ UNCHANGED <<claude, inbox, handler, delivered, link, hub, wire, bounds>>

DrainEnds ==
    /\ Draining /\ passed >= Len(spool)
    /\ DrainReturns
    /\ UNCHANGED <<claude, inbox, spool, condemned, stuck, delivered, hub, wire, bounds, leaked>>

\* A permission_request is posted once, come what may.  When the approval
\* exchange has an approval banked for the tool, the answer is posted next.
PostAsk ==
    /\ handler # None /\ handler.step = "ask"
    /\ \/ Handle(handler.post) /\ UNCHANGED <<wire, late>>
       \/ GiveUp(handler.post)
    /\ handler' \in {None, Handling("answer", Answer(handler.post.rid, "allow"))}
    /\ UNCHANGED <<claude, inbox, files, delivered, link, listed, evicted, breaks, leaked>>

\* A spool without a cap.
NoVictims == {}

\* spool.write makes room for one more file: the oldest ones go.
Victims == 1..(Len(spool) + 1 - SpoolCap)

\* A spool that does not take a new file when it is full.
WrittenUnlessFull(gone, r, b) ==
    IF Len(spool) < SpoolCap THEN Append(Remaining(gone), [rid |-> r, behavior |-> b]) ELSE spool

\* The new file is the last in the order of the names.
Written(gone, r, b) == Append(Remaining(gone), [rid |-> r, behavior |-> b])

\* One try of post_permission_response_durable that is not the last one, or
\* succeeds.
PostAnswer ==
    /\ handler # None /\ handler.step = "answer"
    /\ \/ Handle(handler.post) /\ delivered' = TRUE /\ handler' = None /\ UNCHANGED <<wire, late>>
       \/ /\ GiveUp(handler.post)
          /\ handler.tries + 1 < MaxRetries
          /\ handler' = [handler EXCEPT !.tries = @ + 1]
          /\ UNCHANGED delivered
    /\ UNCHANGED <<claude, inbox, files, link, listed, evicted, breaks, leaked>>

\* The last try fails: the resolution is spooled, or lost when the write fails
\* too.  The victims are unlinked first, as many as can be, even if the write
\* fails after it.
SpoolAnswer ==
    /\ handler # None /\ handler.step = "answer" /\ handler.tries + 1 = MaxRetries
    /\ GiveUp(handler.post)
    /\ handler' = None /\ delivered' = FALSE
    /\ \E gone \in SUBSET Victims :
          /\ condemned' = Cardinality((1..condemned) \ gone) /\ UNCHANGED passed
          /\ \/ /\ stuck' = stuck + Cardinality(Victims \ gone) /\ stuck' <= MaxStuck
                /\ spool' = Written(gone, handler.post.rid, handler.post.behavior)
                /\ leaked' = leaked \cup (Rids(spool) \ Rids(spool'))
             \/ /\ spool' = Remaining(gone) /\ UNCHANGED stuck
                /\ leaked' = leaked \cup (Rids(spool) \ Rids(spool')) \cup {handler.post.rid}
    /\ UNCHANGED <<claude, inbox, link, listed, evicted, breaks>>
-----------------------------------------------------------------------------
\* The Stop hook's _spool_event makes room for a reply: it lists the directory
\* and, when that is full, unlinks the oldest files.  Replies come first in the
\* order of the names, so as many permission files go as if they were alone.
HookLists ==
    /\ Len(spool) >= HookCap /\ condemned' = Len(spool) + 1 - HookCap
    /\ UNCHANGED <<claude, inbox, handler, spool, passed, stuck, delivered, link, hub, wire,
                   bounds, leaked>>

\* It unlinks them one by one, some perhaps not, while the channel goes on.
HookEvicts(i) ==
    /\ i \in DOMAIN spool /\ i <= condemned
    /\ Unlinked({i})
    /\ leaked' = leaked \cup (Rids(spool) \ Rids(spool'))
    /\ UNCHANGED <<claude, inbox, handler, stuck, delivered, link, hub, wire, bounds>>
-----------------------------------------------------------------------------
\* The SSE task: HubClient.stream under _pump_hub_events.

\* It registers before every connect, and connects whether or not that worked.
PumpRegisters ==
    /\ link = "down" /\ link' = "registered"
    /\ \/ Handle(Register) /\ UNCHANGED <<wire, late>>
       \/ GiveUp(Register)
    /\ UNCHANGED <<claude, inbox, handler, files, delivered, listed, evicted, breaks, leaked>>

\* A subscription still listed is evicted: its generator ends later.
PumpConnects ==
    /\ link = "registered"
    /\ \/ link' = "up" /\ listed' = "live" /\ evicted' = (evicted \/ listed # "none")
       \/ link' = "down" /\ UNCHANGED <<listed, evicted>>
    /\ UNCHANGED <<claude, inbox, handler, files, delivered, downlink, pending, wire, bounds,
                   leaked>>

StreamBreaks ==
    /\ link = "up" /\ link' = "down"
    /\ breaks < MaxBreaks /\ breaks' = breaks + 1
    /\ listed' = Broken /\ downlink' = << >>
    /\ UNCHANGED <<claude, inbox, handler, files, delivered, evicted, pending, wire, late, leaked>>

\* A permission_response is passed on to Claude Code, which takes the first
\* decision on a prompt and no other.
DeliverDecision ==
    /\ downlink # << >> /\ downlink' = Tail(downlink)
    /\ LET d == Head(downlink) IN
       prompt' = IF prompt[d.rid] = "open" THEN [prompt EXCEPT ![d.rid] = d.behavior] ELSE prompt
    /\ UNCHANGED <<session, alive, inbox, handler, files, delivered, link, listed, evicted,
                   pending, wire, bounds, leaked>>
-----------------------------------------------------------------------------
HandlerStep ==
    \/ RegisterAtInit \/ DrainOne \/ DrainUnreadable \/ DrainEnds
    \/ PostAsk \/ PostAnswer \/ SpoolAnswer

Next ==
    \/ StartSession \/ Killed \/ Exits
    \/ \E r \in RequestIds : OpenPrompt(r)
    \/ \E r \in RequestIds, b \in Behaviors : DecideAtTerminal(r, b) \/ DecideAtHub(r, b)
    \/ \E m \in Message : ApplyLate(m)
    \/ Sweep \/ GeneratorEnds \/ HubRestarts
    \/ Dispatch \/ HandlerStep
    \/ HookLists \/ \E i \in DOMAIN spool : HookEvicts(i)
    \/ PumpRegisters \/ PumpConnects \/ StreamBreaks \/ DeliverDecision

Spec == Init /\ [][Next]_vars
-----------------------------------------------------------------------------
\* Once a prompt is decided, a request the hub still lists as pending is one
\* whose resolution the channel still has in hand; the only ways out are a
\* spool that cannot be written, a file evicted at one of the two caps or found
\* unreadable, and a request the hub records after its resolution was handled
\* (post_permission_response_durable).
NoResolutionForgotten ==
    \A r \in pending : prompt[r] \in Behaviors => r \in Carried \cup leaked

\* A spooled resolution outlives the process, the session and every failure of
\* a post: its last file goes when the hub has carried the resolution out, or
\* else, counted as lost, when a write finds the spool full, when the Stop hook
\* has listed it to make room, or when a drain finds it unreadable (spool.write,
\* drain_spool, _spool_event).
SpoolKeepsWhatTheHubLacks ==
    [][\A r \in Rids(spool) \ Rids(spool') :
          r \in pending' =>
              /\ r \in leaked'
              /\ \/ handler # None /\ handler.step = "answer" /\ Len(spool) >= SpoolCap
                 \/ \E i \in DOMAIN spool : i <= condemned /\ spool[i].rid = r
                 \/ Draining]_vars

\* The steps a handler has at most before it: tries of a post, files to drain.
Work ==
    IF handler = None THEN 0
    ELSE CASE handler.step = "register" -> Len(spool) + 2
           [] handler.step = "drain"    -> Len(spool) - passed + 1
           [] handler.step = "ask"      -> MaxRetries + 1
           [] handler.step = "answer"   -> MaxRetries - handler.tries

\* The dispatch loop is never caught in one message: each step of a handler
\* leaves it less to do, however its posts, its reads and its unlinks fail, and
\* nobody, the Stop hook included, gives it more (drain_spool,
\* post_permission_response_durable).  Only a post that hangs stops it: the
\* client sets no read timeout.
HandlerWorkRunsOut ==
    [][handler # None => Work' <= Work /\ (HandlerStep => Work' < Work)]_vars

\* permission_durability's docstring: on the next successful POST the channel
\* drains the spool.  So a channel at rest whose last resolution got through
\* has nothing spooled.
SpoolDrainsOnSuccess == handler = None /\ delivered => spool = << >>

\* register_worker's docstring: when the forwarder registers again, the session
\* that generated the pending prompts is gone.  So registering before a
\* reconnect never drops a prompt that is open.
ReconnectSparesOpenPrompts ==
    [][link = "down" /\ link' = "registered"
          => \A r \in pending \ pending' : prompt[r] # "open"]_vars
=============================================================================
