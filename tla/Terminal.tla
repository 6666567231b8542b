-------------------------------- MODULE Terminal --------------------------------
(***************************************************************************)
(* The terminal bridge of one worker: browsers attach to the hub over a    *)
(* WebSocket, the hub tells the worker's manager to stream its pty or to   *)
(* stop, and a thread of the manager copies what the pty prints to the     *)
(* hub.  The manager's SSE thread, its main thread (a child that restarts) *)
(* and the stream threads share the child's tap - the queue pump_io        *)
(* copies the output to - and nothing but the tap is guarded by a lock.    *)
(***************************************************************************)
EXTENDS Naturals, Sequences, FiniteSets

CONSTANTS
    Browsers,   \* browser tabs
    Threads,    \* bound: stream threads alive at the same time
    None,       \* no thread, no command, nothing on its way
    MaxFails,   \* consecutive failed posts until _FRAMES_GIVE_UP_AFTER_S are over
    QueueSize   \* maxsize of the queue of the manager's subscription

ASSUME TerminalAssumption ==
    /\ IsFiniteSet(Browsers) /\ IsFiniteSet(Threads)
    /\ None \notin Threads
    /\ MaxFails \in Nat \ {0} /\ QueueSize \in Nat \ {0}

VARIABLES
    attached,   \* the tabs whose WebSocket is open
    recording,  \* the recorder is on for this worker
    link,       \* the manager's subscription to the hub is up
    cmds,       \* pty_attach and pty_detach in the queue of the manager's subscription
    heard,      \* history: the last command sent over it, None if that met a full queue
    child,      \* the listener's _child is set
    tap,        \* the child has a _stream_queue
    data,       \* ... and it holds output
    pending,    \* _pty_attach_pending
    current,    \* _pty_stream_thread, while it is alive
    sse,        \* what the SSE thread is about to do in _start_pty_stream
    main,       \* the main thread in set_child, likewise
    thread      \* the stream threads

hub == <<attached, recording, link, heard>>
manager == <<child, pending, current, sse, main>>
pty == <<tap, data>>
vars == <<attached, recording, link, cmds, heard, child, tap, data, pending, current, sse, main,
          thread>>

\* A thread holds the child's tap, or a queue that was the tap once and may have
\* a rest of output in it; its child is the current one, or one that has exited.
Thread == [phase : {"idle", "new", "dump", "loop", "post", "exit"}, stop : BOOLEAN,
           holds : {"nothing", "tap", "orphan"}, rest : BOOLEAN,
           mine : BOOLEAN, fails : 0..(MaxFails - 1)]
Idle == [phase |-> "idle", stop |-> FALSE, holds |-> "nothing", rest |-> FALSE,
         mine |-> FALSE, fails |-> 0]

TypeOK ==
    /\ attached \subseteq Browsers
    /\ recording \in BOOLEAN /\ link \in BOOLEAN
    /\ cmds \in Seq({"attach", "detach"}) /\ Len(cmds) <= QueueSize
    /\ heard \in {"attach", "detach", None}
    /\ child \in BOOLEAN /\ pending \in BOOLEAN
    /\ tap \in BOOLEAN /\ data \in BOOLEAN /\ (data => tap)
    /\ current \in Threads \cup {None}
    /\ sse \in {"pend", "start", None} /\ main \in {"wired", "pend", "start", None}
    /\ thread \in [Threads -> Thread]
    /\ current # None => thread[current].phase # "idle"

Init ==
    /\ attached = {} /\ recording = FALSE
    /\ link = FALSE /\ cmds = << >> /\ heard = None
    /\ child = FALSE /\ tap = FALSE /\ data = FALSE
    /\ pending = FALSE /\ current = None /\ sse = None /\ main = None
    /\ thread = [t \in Threads |-> Idle]
-----------------------------------------------------------------------------
\* The hub.

\* has_any_client of the bridge registry.
Watched(tabs, rec) == rec \/ tabs # {}
Audience == Watched(attached, recording)

\* _fan_out to the manager: nobody hears it while the manager is not subscribed,
\* and _safe_put drops what meets a full queue.  The keystrokes of the tabs share
\* the queue; they are left out, and may have filled it at any time.
Tell(cmd) ==
    \/ link /\ Len(cmds) < QueueSize /\ cmds' = Append(cmds, cmd) /\ heard' = cmd
    \/ UNCHANGED cmds /\ heard' = None

\* The WebSocket is accepted, its queue attached, and the manager told - for
\* every tab, since each needs its own redraw.
OpenTerminal(b) ==
    /\ b \notin attached /\ attached' = attached \cup {b}
    /\ Tell("attach")
    /\ UNCHANGED <<recording, link, manager, pty, thread>>

\* A close that looks at the browsers only.
CloseForgetsRecording(b) ==
    /\ b \in attached /\ attached' = attached \ {b}
    /\ IF attached' # {} THEN UNCHANGED <<cmds, heard>> ELSE Tell("detach")
    /\ UNCHANGED <<recording, link, manager, pty, thread>>

\* The finally of the WebSocket handler: the manager is told to stop when the
\* last tab is gone and nothing is recorded.
CloseTerminal(b) ==
    /\ b \in attached /\ attached' = attached \ {b}
    /\ IF Watched(attached', recording) THEN UNCHANGED <<cmds, heard>> ELSE Tell("detach")
    /\ UNCHANGED <<recording, link, manager, pty, thread>>

\* _sync_pty_stream
SyncWith(rec) == Tell(IF Watched(attached, rec) THEN "attach" ELSE "detach")

\* set_recording_enabled
SetRecording(on) ==
    /\ recording' = on /\ SyncWith(on)
    /\ UNCHANGED <<attached, link, manager, pty, thread>>

\* register_worker of the worker's channel.
ChannelRegisters ==
    /\ SyncWith(recording)
    /\ UNCHANGED <<attached, recording, link, manager, pty, thread>>

\* The manager's subscription comes and goes; commands under way are lost with it.
LinkComes ==
    /\ ~link /\ link' = TRUE
    /\ UNCHANGED <<attached, recording, cmds, heard, manager, pty, thread>>

LinkGoes ==
    /\ link /\ link' = FALSE /\ cmds' = << >> /\ heard' = None
    /\ UNCHANGED <<attached, recording, manager, pty, thread>>

\* The hub restarts: the flag that asks for a recording is on disk.
HubRestarts ==
    /\ attached' = {}
    /\ link' = FALSE /\ cmds' = << >> /\ heard' = None
    /\ UNCHANGED <<recording, manager, pty, thread>>
-----------------------------------------------------------------------------
\* The manager's SSE thread and main thread.

\* _start_pty_stream after the redraw: what it finds decides what it does next.
Finding == IF current # None THEN None ELSE IF child THEN "start" ELSE "pend"

IdleThreads == {t \in Threads : thread[t].phase = "idle"}

\* ... and doing it: the attach is noted for set_child, or a thread is started.
StartStep(act) ==
    \/ act = "pend" /\ pending' = TRUE /\ UNCHANGED <<current, thread>>
    \/ /\ act = "start"
       /\ IdleThreads # {}
       /\ LET t == CHOOSE i \in IdleThreads : TRUE IN
             thread' = [thread EXCEPT ![t].phase = "new"] /\ current' = t
       /\ UNCHANGED pending

HandleAttach ==
    /\ sse = None /\ cmds # << >> /\ Head(cmds) = "attach"
    /\ cmds' = Tail(cmds)
    /\ sse' = Finding
    /\ UNCHANGED <<hub, child, pending, current, main, pty, thread>>

SseStarts ==
    /\ StartStep(sse) /\ sse' = None
    /\ UNCHANGED <<hub, cmds, child, main, pty>>

\* _stop_pty_stream: the thread is told and forgotten, never waited for.
HandleDetach ==
    /\ sse = None /\ cmds # << >> /\ Head(cmds) = "detach"
    /\ cmds' = Tail(cmds)
    /\ pending' = FALSE /\ current' = None
    /\ thread' = IF current = None THEN thread ELSE [thread EXCEPT ![current].stop = TRUE]
    /\ UNCHANGED <<hub, child, sse, main, pty>>

Holders == {t \in Threads : thread[t].holds = "tap"}

\* What becomes of a thread when the tap's queue is taken off the child: one
\* that holds it goes on with what is left in it, which one heir takes.
Untapped(t, heir) ==
    IF thread[t].holds = "tap"
    THEN [thread[t] EXCEPT !.holds = "orphan", !.rest = data /\ t = heir] ELSE thread[t]

\* The child has exited.  The threads that copy its output do not know.
ChildGoes ==
    /\ child /\ main = None
    /\ child' = FALSE /\ tap' = FALSE /\ data' = FALSE
    /\ \E heir \in Threads :
          /\ Holders # {} => heir \in Holders
          /\ thread' = [t \in Threads |-> [Untapped(t, heir) EXCEPT !.mine = FALSE]]
    /\ UNCHANGED <<hub, cmds, pending, current, sse, main>>

\* set_child: first the child, then the look at the pending attach.
ChildComes ==
    /\ ~child /\ child' = TRUE /\ main' = "wired"
    /\ UNCHANGED <<hub, cmds, pending, current, sse, pty, thread>>

LookAtPending ==
    /\ main = "wired"
    /\ main' = IF pending THEN Finding ELSE None
    /\ pending' = FALSE
    /\ UNCHANGED <<hub, cmds, child, current, sse, pty, thread>>

MainStarts ==
    /\ StartStep(main) /\ main' = None
    /\ UNCHANGED <<hub, cmds, child, sse, pty>>
-----------------------------------------------------------------------------
\* The stream threads, _pty_stream_loop.

\* pump_io copies what the child prints to the tap.
Output ==
    /\ tap /\ data' = TRUE
    /\ UNCHANGED <<hub, cmds, manager, tap, thread>>

\* attach_stream: the tap's queue, made unless there is one.
AttachStream(t) ==
    /\ thread[t].phase = "new" /\ child
    /\ tap' = TRUE
    /\ thread' = [thread EXCEPT ![t].phase = "dump", ![t].holds = "tap", ![t].mine = TRUE]
    /\ UNCHANGED <<hub, cmds, manager, data>>

\* A thread that is over and still taken for the running one.
ForgetNever(t) == UNCHANGED current

\* is_alive() of the manager's _pty_stream_thread is false from here on.
Forget(t) == current' = IF current = t THEN None ELSE current

\* No child: the thread returns at once.
FindsNoChild(t) ==
    /\ thread[t].phase = "new" /\ ~child
    /\ thread' = [thread EXCEPT ![t] = Idle] /\ Forget(t)
    /\ UNCHANGED <<hub, cmds, child, pending, sse, main, pty>>

\* A thread that ends and leaves the tap where it is.
LeaveTapped(t) ==
    /\ Forget(t)
    /\ UNCHANGED pty
    /\ thread' = [thread EXCEPT ![t] = Idle]

\* detach_stream, and the thread is over.  The tap is taken off the child whoever
\* uses it by now.
Leave(t) ==
    /\ Forget(t)
    /\ IF thread[t].mine
       THEN /\ tap' = FALSE /\ data' = FALSE
            /\ \E heir \in Threads :
                  /\ Holders \ {t} # {} => heir \in Holders \ {t}
                  /\ thread' = [o \in Threads |-> IF o = t THEN Idle ELSE Untapped(o, heir)]
       ELSE UNCHANGED pty /\ thread' = [thread EXCEPT ![t] = Idle]

\* The screen so far is posted, unless it is empty: a 404 ends the thread, any
\* other failure does not.
Dump(t) ==
    /\ thread[t].phase = "dump"
    /\ \/ ~Audience /\ Leave(t)
       \/ thread' = [thread EXCEPT ![t].phase = "loop"] /\ UNCHANGED <<current, pty>>
    /\ UNCHANGED <<hub, cmds, child, pending, sse, main>>

\* What t finds in its queue, and its queue once t has taken it.
Finds(t) == IF thread[t].holds = "tap" THEN data ELSE thread[t].rest
Emptied(t) == data' = (data /\ thread[t].holds # "tap")

\* The loop: told to stop, or all the queue holds is taken.
LoopTurns(t) ==
    /\ thread[t].phase = "loop"
    /\ IF thread[t].stop
       THEN thread' = [thread EXCEPT ![t].phase = "exit"] /\ UNCHANGED data
       ELSE /\ Finds(t) /\ Emptied(t)
            /\ thread' = [thread EXCEPT ![t].phase = "post", ![t].rest = FALSE]
    /\ UNCHANGED <<hub, cmds, manager, tap>>

\* The post failed, and the queue is drained while the thread waits.  The next turn
\* of the loop gives up once the hub has been silent for too long.
PostFails(t) ==
    /\ thread' = IF thread[t].fails + 1 < MaxFails
                 THEN [thread EXCEPT ![t].phase = "loop", ![t].rest = FALSE, ![t].fails = @ + 1]
                 ELSE [thread EXCEPT ![t].phase = "exit", ![t].rest = FALSE]
    /\ Emptied(t)

\* A post whose 404 counts as delivered.
PostIgnores404(t) ==
    /\ thread[t].phase = "post"
    /\ \/ thread' = [thread EXCEPT ![t].phase = "loop", ![t].fails = 0] /\ UNCHANGED data
       \/ PostFails(t)
    /\ UNCHANGED <<hub, cmds, manager, tap>>

\* The post of the output: delivered, refused with 404, or failed.
Post(t) ==
    /\ thread[t].phase = "post"
    /\ \/ /\ Audience
          /\ thread' = [thread EXCEPT ![t].phase = "loop", ![t].fails = 0]
          /\ UNCHANGED data
       \/ /\ ~Audience
          /\ thread' = [thread EXCEPT ![t].phase = "exit"]
          /\ UNCHANGED data
       \/ PostFails(t)
    /\ UNCHANGED <<hub, cmds, manager, tap>>

Exit(t) ==
    /\ thread[t].phase = "exit"
    /\ Leave(t)
    /\ UNCHANGED <<hub, cmds, child, pending, sse, main>>

ThreadStep(t) ==
    AttachStream(t) \/ FindsNoChild(t) \/ Dump(t) \/ LoopTurns(t) \/ Post(t) \/ Exit(t)
-----------------------------------------------------------------------------
Next ==
    \/ \E b \in Browsers : OpenTerminal(b) \/ CloseTerminal(b)
    \/ \E on \in BOOLEAN : SetRecording(on)
    \/ ChannelRegisters
    \/ LinkComes \/ LinkGoes \/ HubRestarts
    \/ HandleAttach \/ SseStarts \/ HandleDetach
    \/ ChildGoes \/ ChildComes \/ LookAtPending \/ MainStarts
    \/ Output
    \/ \E t \in Threads : ThreadStep(t)

Spec == Init /\ [][Next]_vars

\* Threads run, each post is answered or times out (2 s), and a child that is
\* tapped prints now and then.
FairSpec == Spec /\ \A t \in Threads : WF_vars(ThreadStep(t)) /\ WF_vars(Output)
-----------------------------------------------------------------------------
\* While the manager listens, the last command it was sent says whether anybody
\* watches, unless it met a full queue and was dropped (_safe_put): closing the
\* last tab never stops a stream that is recorded, ending a recording never stops
\* one a browser shows (_sync_pty_stream, the finally of the WebSocket handler).
CommandsMatchAudience == heard # None => (heard = "attach" <=> Audience)

\* The bounded queue of the pty is never left without a thread that empties it,
\* whatever way a thread ends (the returns and breaks of _pty_stream_loop).
TapIsServed == tap => Holders # {}

\* A stream nobody watches ends, also when the detach never arrived: the next
\* output meets a 404, or the hub is silent for long enough.
LonelyStreamEnds == ~Audience ~> (~tap \/ Audience)
=============================================================================
