------------------------------ MODULE ManagerLoop ------------------------------
(***************************************************************************)
(* claude-tm runs a manager, the manager runs Claude Code in a pty, over   *)
(* and over: a restart, a fresh restart, a stop and an update of the       *)
(* manager itself are asked for over the hub (a listener thread sets flags *)
(* and types /exit) or by Unix signals (handlers on the main thread), and  *)
(* the main thread looks at the flags each time the child has exited.      *)
(***************************************************************************)
EXTENDS Naturals, Sequences

CONSTANTS
    MaxCrash,   \* TM_MAX_CRASH_RESTARTS
    None        \* no event being handled

Kinds == {"restart", "fresh", "stop", "update"}

\* An event that is being handled: what is left to do, and whether there was a child.
Handler == [kind : Kinds, steps : Seq({"restart", "fresh", "stop", "update", "type"}),
            hasChild : BOOLEAN]

ASSUME LoopAssumption == MaxCrash \in Nat \ {0} /\ None \notin Handler

\* A listener that types /exit first.
StepsTypingFirst == [restart |-> <<"type", "restart">>,
                     fresh   |-> <<"type", "restart", "fresh">>,
                     stop    |-> <<"type", "stop">>,
                     update  |-> <<"type", "update", "stop">>]

\* What the listener does on each kind of event, in order: "type" is /exit typed
\* into the child, the others are flags.
Steps == [restart |-> <<"restart", "type">>,
          fresh   |-> <<"restart", "fresh", "type">>,
          stop    |-> <<"stop", "type">>,
          update  |-> <<"update", "stop", "type">>]

VARIABLES
    sup,          \* claude-tm's loop runs
    crashes,      \* its crash_count
    continues,    \* its passthru carries --continue
    phase,        \* where the manager's main thread is; "out" when there is no manager
    restarted,    \* restart_count > 0
    pendingFresh, \* pending_fresh_restart
    flags,        \* the listener's flags
    signals,      \* _signal_restart and _signal_stop
    child,        \* the child process: none, alive, or alive and told to exit
    code,         \* how the last child exited: 0 or not
    handler,      \* the event the listener is handling, or None
    recent,       \* less than _RESTART_DEBOUNCE_S since a restart was accepted
    report,       \* what the manager told the hub when it ended
    begun,        \* history: some child was launched
    freshOwed,    \* history: a fresh restart was accepted and no child launched fresh since
    typed,        \* history: the kinds whose /exit reached the last child
    signalled,    \* history: a signal handler terminated the last child
    told          \* history: children told to restart since the debounce window last passed

supervisor == <<sup, crashes, continues>>
listener == <<flags, handler, recent>>
vars == <<sup, crashes, continues, phase, restarted, pendingFresh, flags, signals, child, code,
          handler, recent, report, begun, freshOwed, typed, signalled, told>>

TypeOK ==
    /\ sup \in BOOLEAN /\ crashes \in 0..MaxCrash /\ continues \in BOOLEAN
    /\ phase \in {"out", "top", "cleared", "started", "running", "reaped", "ending", "leaving"}
    /\ restarted \in BOOLEAN /\ pendingFresh \in BOOLEAN
    /\ flags \subseteq {"restart", "fresh", "stop", "update"}
    /\ signals \subseteq {"restart", "stop"}
    /\ child \in {"none", "alive", "told"} /\ code \in {0, 1}
    /\ handler = None \/ handler \in Handler
    /\ recent \in BOOLEAN
    /\ report \in {"none", "goodbye", "unregister"}
    /\ begun \in BOOLEAN /\ freshOwed \in BOOLEAN
    /\ typed \subseteq Kinds /\ signalled \in BOOLEAN /\ told \in Nat
    /\ child = "none" <=> phase \notin {"started", "running"}

\* The user may pass --continue to claude-tm.
Init ==
    /\ sup = TRUE /\ crashes = 0 /\ continues \in BOOLEAN
    /\ phase = "out" /\ restarted = FALSE /\ pendingFresh = FALSE
    /\ flags = {} /\ signals = {}
    /\ child = "none" /\ code = 0
    /\ handler = None /\ recent = FALSE
    /\ report = "none"
    /\ begun = FALSE /\ freshOwed = FALSE /\ typed = {} /\ signalled = FALSE /\ told = 0
-----------------------------------------------------------------------------
\* claude-tm.

SpawnManager ==
    /\ sup /\ phase = "out" /\ phase' = "top"
    /\ UNCHANGED <<supervisor, restarted, pendingFresh, listener, signals, child, code, report,
                   begun, freshOwed, typed, signalled, told>>

\* An update that re-executes the manager with the arguments it had.
ContinuesAfterCrash(rc) == continues \/ rc = 1

\* The --continue appended after an update and after a crash.
ContinuesAfter(rc) == continues \/ rc # 0

\* A claude-tm that never gives up.
ReapForever(rc) ==
    /\ phase' = "out"
    /\ restarted' = FALSE /\ pendingFresh' = FALSE
    /\ flags' = {} /\ signals' = {} /\ handler' = None /\ recent' = FALSE
    /\ child' = "none" /\ code' = 0 /\ report' = "none" /\ typed' = {} /\ told' = 0
    /\ freshOwed' = FALSE /\ signalled' = FALSE
    /\ crashes' = CASE rc = 0 -> crashes [] rc = 42 -> 0 [] OTHER -> crashes + 1
    /\ sup' = (rc # 0)
    /\ continues' = ContinuesAfter(rc)

\* The manager is gone with exit code rc, and its memory and its child with it.
Reap(rc) ==
    /\ phase' = "out"
    /\ restarted' = FALSE /\ pendingFresh' = FALSE
    /\ flags' = {} /\ signals' = {} /\ handler' = None /\ recent' = FALSE
    /\ child' = "none" /\ code' = 0 /\ report' = "none" /\ typed' = {} /\ told' = 0
    /\ freshOwed' = FALSE /\ signalled' = FALSE
    /\ crashes' = CASE rc = 0 -> crashes [] rc = 42 -> 0 [] OTHER -> crashes + 1
    /\ sup' = (rc = 42 \/ (rc # 0 /\ crashes' < MaxCrash))
    /\ continues' = ContinuesAfter(rc)

\* The manager process dies at any time.
ManagerCrashes ==
    /\ phase # "out"
    /\ Reap(1)
    /\ UNCHANGED begun
-----------------------------------------------------------------------------
\* The main thread of the manager.

\* A clear_flags that resets the debounce stamp too.
ClearFlagsAndStamp ==
    /\ phase = "top" /\ phase' = "cleared"
    /\ flags' = {} /\ signals' = signals \ {"restart"} /\ recent' = FALSE
    /\ UNCHANGED <<supervisor, restarted, pendingFresh, child, code, handler, report,
                   begun, freshOwed, typed, signalled, told>>

\* The top of the loop: clear_flags and, later on, a sleep before a restart.
ClearFlags ==
    /\ phase = "top" /\ phase' = "cleared"
    /\ flags' = {} /\ signals' = signals \ {"restart"}
    /\ UNCHANGED <<supervisor, restarted, pendingFresh, child, code, handler, recent, report,
                   begun, freshOwed, typed, signalled, told>>

\* _build_restart_cmd: the command starts a new conversation.
IsNew == IF restarted THEN pendingFresh ELSE ~continues

\* A fresh restart was accepted and not yet decided on.
FreshUnderWay ==
    \/ "fresh" \in flags
    \/ handler # None /\ "fresh" \in {handler.steps[i] : i \in DOMAIN handler.steps}

\* The child is built and started; the one-shot is used up.  The signal handlers
\* know it from here on, the listener does not.
StartChild ==
    /\ phase = "cleared" /\ phase' = "started"
    /\ child' = "alive" /\ typed' = {} /\ signalled' = FALSE
    /\ pendingFresh' = FALSE
    /\ begun' = TRUE
    /\ freshOwed' = IF restarted /\ pendingFresh THEN FreshUnderWay ELSE freshOwed
    /\ UNCHANGED <<supervisor, restarted, listener, signals, code, report, told>>

\* listener.set_child
SetChild ==
    /\ phase = "started" /\ phase' = "running"
    /\ UNCHANGED <<supervisor, restarted, pendingFresh, listener, signals, child, code, report,
                   begun, freshOwed, typed, signalled, told>>

\* pump_io returns: the child has exited with the code c; close and set_child(None).
\* A handler that holds the child now types into nothing.
ChildGone(c) ==
    /\ phase' = "reaped" /\ child' = "none" /\ code' = c
    /\ handler' = IF handler = None THEN None ELSE [handler EXCEPT !.hasChild = FALSE]
    /\ UNCHANGED <<supervisor, restarted, pendingFresh, flags, signals, recent, report, begun,
                   freshOwed, typed, signalled, told>>

\* The child obeys the /exit or the SIGTERM.
ChildObeys == phase = "running" /\ child = "told" /\ \E c \in {0, 1} : ChildGone(c)

\* The user types /exit, or the child crashes.
ChildExits == phase = "running" /\ child = "alive" /\ \E c \in {0, 1} : ChildGone(c)

Asked(flag) == flag \in flags \cup signals

\* A loop whose decision knows the signals only.
DecideBySignals ==
    /\ phase = "reaped"
    /\ IF "stop" \in signals \/ (code = 0 /\ "restart" \notin signals)
       THEN phase' = "ending" /\ UNCHANGED <<restarted, pendingFresh>>
       ELSE /\ phase' = "top" /\ restarted' = TRUE
            /\ pendingFresh' = (code = 0 /\ Asked("restart") /\ "fresh" \in flags)
    /\ UNCHANGED <<supervisor, listener, signals, child, code, report, begun, freshOwed, typed,
                   signalled, told>>

\* The restart policy: the flags are read, the loop goes on or breaks.
Decide ==
    /\ phase = "reaped"
    /\ IF Asked("stop") \/ (code = 0 /\ ~Asked("restart"))
       THEN phase' = "ending" /\ UNCHANGED <<restarted, pendingFresh>>
       ELSE /\ phase' = "top" /\ restarted' = TRUE
            /\ pendingFresh' = (code = 0 /\ Asked("restart") /\ "fresh" \in flags)
    /\ UNCHANGED <<supervisor, listener, signals, child, code, report, begun, freshOwed, typed,
                   signalled, told>>

\* A clean that forgets the signals.
CleanUnlessUpdated == "update" \notin flags

\* What run()'s finally takes for a user's /exit.
Clean == "update" \notin flags /\ signals = {}

\* listener.stop: no further event is taken; /goodbye or /unregister is posted.
Report ==
    /\ phase = "ending" /\ phase' = "leaving"
    /\ report' = IF Clean THEN "goodbye" ELSE "unregister"
    /\ UNCHANGED <<supervisor, restarted, pendingFresh, listener, signals, child, code, begun,
                   freshOwed, typed, signalled, told>>

\* run returns.
Return ==
    /\ phase = "leaving"
    /\ Reap(IF "update" \in flags THEN 42 ELSE 0)
    /\ UNCHANGED begun
-----------------------------------------------------------------------------
\* Unix signals: SIGUSR1 asks for a restart, SIGTERM and SIGINT for a stop.  The
\* handler sets the flags and terminates the child it knows.
Signal(s) ==
    /\ phase \notin {"out", "leaving"}
    /\ signals' = signals \cup {s} /\ flags' = flags \cup {s}
    /\ child' = IF child = "alive" THEN "told" ELSE child
    /\ typed' = IF child = "none" THEN typed ELSE typed \cup {s}
    /\ signalled' = (signalled \/ child # "none")
    /\ UNCHANGED <<supervisor, phase, restarted, pendingFresh, code, handler, recent, report,
                   begun, freshOwed, told>>

\* The listener takes an event off the stream and looks at the child.  A restart
\* inside the debounce window is dropped.
Deliver(k) ==
    /\ phase \notin {"out", "leaving"} /\ handler = None
    /\ k \in {"restart", "fresh"} => ~recent
    /\ handler' = [kind |-> k, steps |-> Steps[k], hasChild |-> phase = "running"]
    /\ recent' = (recent \/ k \in {"restart", "fresh"})
    /\ freshOwed' = (freshOwed \/ k = "fresh")
    /\ UNCHANGED <<supervisor, phase, restarted, pendingFresh, flags, signals, child, code,
                   report, begun, typed, signalled, told>>

\* The handler sets its next flag, or types /exit into the child it looked at.
Handle ==
    /\ handler # None
    /\ LET step == Head(handler.steps)
           reaches == step = "type" /\ handler.hasChild
       IN /\ flags' = IF step = "type" THEN flags ELSE flags \cup {step}
          /\ child' = IF reaches THEN "told" ELSE child
          /\ typed' = IF reaches THEN typed \cup {handler.kind} ELSE typed
          /\ told' = IF reaches /\ handler.kind \in {"restart", "fresh"}
                         /\ typed \cap {"restart", "fresh"} = {}
                     THEN told + 1 ELSE told
    /\ handler' = IF Len(handler.steps) = 1 THEN None ELSE [handler EXCEPT !.steps = Tail(@)]
    /\ UNCHANGED <<supervisor, phase, restarted, pendingFresh, signals, code, recent, report,
                   begun, freshOwed, signalled>>

\* _RESTART_DEBOUNCE_S have passed since a restart was accepted; handling one
\* event takes less.
WindowPasses ==
    /\ recent /\ handler = None
    /\ recent' = FALSE /\ told' = 0
    /\ UNCHANGED <<supervisor, phase, restarted, pendingFresh, flags, signals, child, code,
                   handler, report, begun, freshOwed, typed, signalled>>
-----------------------------------------------------------------------------
MainStep == ClearFlags \/ StartChild \/ SetChild \/ Decide \/ Report \/ Return

Next ==
    \/ SpawnManager \/ ManagerCrashes
    \/ MainStep
    \/ ChildObeys \/ ChildExits
    \/ \E s \in {"restart", "stop"} : Signal(s)
    \/ \E k \in Kinds : Deliver(k)
    \/ Handle
    \/ WindowPasses

Spec == Init /\ [][Next]_vars

\* The main thread and the listener run on, and Claude Code exits when it is told to.
FairSpec == Spec /\ WF_vars(MainStep) /\ WF_vars(Handle) /\ WF_vars(ChildObeys)
-----------------------------------------------------------------------------
\* A request whose /exit reached the child is honoured when that child is gone:
\* a stop and an update end the loop, a restart goes on when the child exits
\* cleanly, a fresh one without the conversation - whatever else was asked in
\* between, for the flag is set before the keys are typed (_handle_event).
TypedExitIsHonoured ==
    [][phase = "reaped" /\ phase' \in {"top", "ending"} =>
          /\ typed \cap {"stop", "update"} # {} => phase' = "ending"
          /\ code = 0 /\ typed # {} /\ typed \subseteq {"restart", "fresh"} /\ ~Asked("stop")
                => phase' = "top" /\ ("fresh" \in typed => pendingFresh')]_vars

\* A signal delivered twice never ends the newborn of the restart it caused: one
\* child at most is told to restart per debounce window (_should_debounce_restart).
NewbornIsSpared == told <= 1

\* Over restarts, crashes and updates of the manager, a conversation is dropped
\* only by the first launch or for a fresh restart accepted since the last time
\* it was dropped for one (_build_restart_cmd, _next_pending_fresh, claude-tm's
\* --continue).
KeepsConversation == [][phase = "cleared" /\ phase' = "started" /\ IsNew => ~begun \/ freshOwed]_vars

\* The hub never hears a goodbye - the user has left - from a manager whose last
\* child was told to exit for an update of the manager, or terminated by a signal,
\* whatever flags were cleared on the way (run's finally).  A force_stop over the
\* hub is not among them: it is reported as a goodbye, against the comment there.
NoGoodbyeForUpdateOrSignal == report = "goodbye" => "update" \notin typed /\ ~signalled

\* A stop that reaches the running child ends the manager.
StopEndsTheManager == (phase = "running" /\ "stop" \in typed) ~> phase = "out"
=============================================================================
