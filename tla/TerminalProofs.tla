------------------------------ MODULE TerminalProofs ------------------------------
(***************************************************************************)
(* For every number of browsers and of stream threads: a tapped child has  *)
(* a thread that empties the tap, and the last command the manager was     *)
(* sent says whether anybody watches, unless it was dropped.               *)
(***************************************************************************)
EXTENDS Terminal, TLAPS

\* A thread that empties the tap of the child has that child for its own, and will
\* take the tap off it when it ends; one that has not begun holds nothing.
HoldersDetach ==
    \A t \in Threads :
        thread[t].holds = "tap" => thread[t].mine /\ thread[t].phase \notin {"idle", "new"}

\* Commands that were lost with a subscription are forgotten.
UnheardWithoutLink == ~link => heard = None

TerminalInv ==
    /\ TypeOK /\ HoldersDetach /\ TapIsServed
    /\ UnheardWithoutLink /\ CommandsMatchAudience

\* The variables of the hub, and those of the manager.
HubInv == UnheardWithoutLink /\ CommandsMatchAudience
-----------------------------------------------------------------------------
\* A thread and the heir of its queue are threads.
LEMMA UntappedIsThread ==
    ASSUME TypeOK, NEW t \in Threads, NEW heir \in Threads
    PROVE  /\ Untapped(t, heir) \in Thread /\ Untapped(t, heir).holds # "tap"
           /\ Untapped(t, heir).phase = thread[t].phase
           /\ [Untapped(t, heir) EXCEPT !.mine = FALSE] \in Thread
           /\ [Untapped(t, heir) EXCEPT !.mine = FALSE].holds # "tap"
           /\ [Untapped(t, heir) EXCEPT !.mine = FALSE].phase = thread[t].phase
<1>1. thread[t] \in Thread /\ data \in BOOLEAN
  BY DEF TypeOK
<1> QED
  BY <1>1 DEF Untapped, Thread

\* A step of the hub and of the link leaves the threads alone.
LEMMA HubStepsKeep ==
    ASSUME TerminalInv,
           \/ \E b \in Browsers : OpenTerminal(b) \/ CloseTerminal(b)
           \/ \E on \in BOOLEAN : SetRecording(on)
           \/ ChannelRegisters \/ LinkComes \/ LinkGoes \/ HubRestarts
    PROVE  TerminalInv'
<1>1. UNCHANGED <<manager, pty, thread>>
  BY DEF OpenTerminal, CloseTerminal, SetRecording, ChannelRegisters, LinkComes, LinkGoes, HubRestarts
<1>2. cmds' \in Seq({"attach", "detach"}) /\ Len(cmds') <= QueueSize
  <2>1. cmds \in Seq({"attach", "detach"}) /\ Len(cmds) <= QueueSize /\ QueueSize \in Nat \ {0}
    BY TerminalAssumption DEF TerminalInv, TypeOK
  <2>2. CASE UNCHANGED cmds
    BY <2>1, <2>2
  <2>3. CASE cmds' = << >>
    BY <2>1, <2>3
  <2>4. ASSUME NEW cmd \in {"attach", "detach"}, Tell(cmd)
        PROVE  cmds' \in Seq({"attach", "detach"}) /\ Len(cmds') <= QueueSize
    BY <2>1, <2>4 DEF Tell
  <2> QED
    BY <2>2, <2>3, <2>4 DEF OpenTerminal, CloseTerminal, SetRecording, SyncWith, ChannelRegisters,
                            LinkComes, LinkGoes, HubRestarts
<1>3. /\ attached' \subseteq Browsers /\ recording' \in BOOLEAN /\ link' \in BOOLEAN
      /\ heard' \in {"attach", "detach", None}
  BY DEF OpenTerminal, CloseTerminal, SetRecording, SyncWith, Tell, ChannelRegisters, LinkComes,
         LinkGoes, HubRestarts, TerminalInv, TypeOK
<1>4. UnheardWithoutLink' /\ CommandsMatchAudience'
  BY DEF OpenTerminal, CloseTerminal, SetRecording, SyncWith, Tell, ChannelRegisters, LinkComes,
         LinkGoes, HubRestarts, TerminalInv, UnheardWithoutLink, CommandsMatchAudience,
         Audience, Watched
<1>5. TypeOK'
  BY <1>1, <1>2, <1>3 DEF TerminalInv, TypeOK, manager, pty
<1>6. HoldersDetach' /\ TapIsServed'
  BY <1>1 DEF TerminalInv, HoldersDetach, TapIsServed, Holders, pty
<1> QED
  BY <1>4, <1>5, <1>6 DEF TerminalInv

\* A step that leaves the hub alone leaves what was heard alone.
LEMMA HubUntouched ==
    ASSUME TerminalInv, UNCHANGED hub
    PROVE  HubInv'
BY DEF hub, TerminalInv, HubInv, UnheardWithoutLink, CommandsMatchAudience, Audience, Watched

\* A step that starts a thread, or none, taps nothing.
LEMMA StartingTapsNothing ==
    ASSUME TerminalInv, NEW act, StartStep(act), UNCHANGED <<pty>>
    PROVE  /\ HoldersDetach' /\ TapIsServed' /\ thread' \in [Threads -> Thread]
           /\ current' \in Threads \cup {None} /\ pending' \in BOOLEAN
           /\ current' # None => thread'[current'].phase # "idle"
<1>0. TypeOK /\ HoldersDetach /\ TapIsServed
  BY DEF TerminalInv
<1>1. CASE pending' = TRUE /\ UNCHANGED <<current, thread>>
  BY <1>0, <1>1 DEF TypeOK, HoldersDetach, TapIsServed, Holders, pty
<1>2. CASE act = "start" /\ IdleThreads # {} /\ UNCHANGED pending
  <2>1. PICK t \in IdleThreads : thread' = [thread EXCEPT ![t].phase = "new"] /\ current' = t
    BY <1>2 DEF StartStep
  <2>2. t \in Threads /\ thread[t] \in Thread /\ thread[t].phase = "idle"
    BY <1>0, <2>1 DEF IdleThreads, TypeOK
  <2>3. thread'[t] = [thread[t] EXCEPT !.phase = "new"] /\ \A o \in Threads \ {t} : thread'[o] = thread[o]
    BY <1>0, <2>1, <2>2 DEF TypeOK
  <2>4. thread'[t] \in Thread /\ thread'[t].phase = "new" /\ thread'[t].holds = thread[t].holds
    BY <2>2, <2>3 DEF Thread
  <2>5. thread' \in [Threads -> Thread]
    BY <1>0, <2>1, <2>2, <2>4 DEF TypeOK
  <2>6. thread[t].holds # "tap"
    BY <1>0, <2>2 DEF HoldersDetach
  <2>7. HoldersDetach'
    BY <1>0, <2>3, <2>4, <2>6 DEF HoldersDetach
  <2>8. Holders' = Holders
    BY <2>3, <2>4, <2>6 DEF Holders
  <2> QED
    BY <1>0, <1>2, <2>1, <2>2, <2>4, <2>5, <2>7, <2>8 DEF TypeOK, TapIsServed, pty
<1> QED
  BY <1>1, <1>2 DEF StartStep

\* A thread that ends takes the tap off its child, or had none.
LEMMA LeavingTakesTheTap ==
    ASSUME TerminalInv, NEW t \in Threads, Leave(t)
    PROVE  /\ HoldersDetach' /\ TapIsServed' /\ thread' \in [Threads -> Thread]
           /\ current' \in Threads \cup {None} /\ tap' \in BOOLEAN /\ data' \in BOOLEAN
           /\ data' => tap'
           /\ current' # None => thread'[current'].phase # "idle"
<1>0. TypeOK /\ HoldersDetach /\ TapIsServed
  BY DEF TerminalInv
<1>1. current' = IF current = t THEN None ELSE current
  BY DEF Leave, Forget
<1>2. Idle \in Thread /\ Idle.holds # "tap" /\ Idle.phase = "idle"
  BY TerminalAssumption DEF Idle, Thread
<1>3. CASE thread[t].mine
  <2>1. PICK heir \in Threads :
            thread' = [o \in Threads |-> IF o = t THEN Idle ELSE Untapped(o, heir)]
    BY <1>3 DEF Leave
  <2>2. tap' = FALSE /\ data' = FALSE
    BY <1>3 DEF Leave
  <2>3. \A o \in Threads : thread'[o] \in Thread /\ thread'[o].holds # "tap"
    BY <1>0, <1>2, <2>1, UntappedIsThread
  <2>4. \A o \in Threads \ {t} : /\ thread'[o].phase = thread[o].phase
    BY <1>0, <2>1, UntappedIsThread
  <2>5. thread' \in [Threads -> Thread] /\ thread'[t] = Idle
    BY <2>1, <2>3
  <2>7. current' # None => thread'[current'].phase # "idle"
    BY <1>0, <1>1, <2>4 DEF TypeOK
  <2> QED
    BY <1>0, <1>1, <2>2, <2>3, <2>5, <2>7 DEF TypeOK, HoldersDetach, TapIsServed
<1>4. CASE ~thread[t].mine
  <2>1. UNCHANGED pty /\ thread' = [thread EXCEPT ![t] = Idle]
    BY <1>4 DEF Leave
  <2>2. thread[t].holds # "tap"
    BY <1>0, <1>4 DEF HoldersDetach
  <2>3. thread'[t] = Idle /\ \A o \in Threads \ {t} : thread'[o] = thread[o]
    BY <1>0, <2>1 DEF TypeOK
  <2>4. Holders' = Holders
    BY <1>2, <2>2, <2>3 DEF Holders
  <2>5. thread' \in [Threads -> Thread]
    BY <1>0, <1>2, <2>1 DEF TypeOK
  <2> QED
    BY <1>0, <1>1, <1>2, <2>1, <2>3, <2>4, <2>5 DEF TypeOK, HoldersDetach, TapIsServed, pty
<1> QED
  BY <1>3, <1>4

\* A thread in another phase, with its queue and its child as before.
GoesOn(t) ==
    /\ thread' \in [Threads -> Thread]
    /\ \A o \in Threads \ {t} : thread'[o] = thread[o]
    /\ thread'[t].phase \in {"dump", "loop", "post", "exit"}
    /\ thread'[t].holds = thread[t].holds /\ thread'[t].mine = thread[t].mine

\* The record of a thread determines what it becomes.
LEMMA ThreadGoesOn ==
    ASSUME TypeOK, NEW t \in Threads, NEW x \in Thread, thread' = [thread EXCEPT ![t] = x],
           x.phase \in {"dump", "loop", "post", "exit"},
           x.holds = thread[t].holds, x.mine = thread[t].mine
    PROVE  GoesOn(t)
BY DEF TypeOK, GoesOn

\* A thread that goes on with its queue keeps the invariant.
LEMMA WorkingKeepsTheTap ==
    ASSUME TerminalInv, NEW t \in Threads, thread[t].phase \notin {"idle", "new"}, GoesOn(t),
           UNCHANGED <<hub, cmds, manager, tap>>, data' = data \/ data' = FALSE
    PROVE  TerminalInv'
<1>0. TypeOK /\ HoldersDetach /\ TapIsServed /\ thread[t] \in Thread
  BY DEF TerminalInv, TypeOK
<1>1. Holders' = Holders
  BY DEF GoesOn, Holders
<1>2. HoldersDetach'
  BY <1>0 DEF GoesOn, HoldersDetach
<1>3. TypeOK'
  <2>1. current' = current /\ (current # None => thread'[current].phase # "idle")
    BY <1>0 DEF manager, TypeOK, GoesOn
  <2>2. data' \in BOOLEAN /\ (data' => tap')
    <3>1. tap' = tap /\ (data' = data \/ data' = FALSE)
      OBVIOUS
    <3>2. data \in BOOLEAN /\ (data => tap)
      BY <1>0 DEF TypeOK
    <3>3. CASE data' = data
      BY <3>1, <3>2, <3>3
    <3>4. CASE data' = FALSE
      BY <3>4
    <3> QED
      BY <3>1, <3>3, <3>4
  <2> QED
    BY <1>0, <2>1, <2>2 DEF TypeOK, hub, manager, GoesOn
<1>4. TapIsServed' /\ HubInv'
  BY <1>0, <1>1, HubUntouched DEF TapIsServed
<1> QED
  BY <1>2, <1>3, <1>4 DEF TerminalInv, HubInv
-----------------------------------------------------------------------------
\* The invariant holds at the start.
LEMMA TerminalInvInit == Init => TerminalInv
<1> SUFFICES ASSUME Init
             PROVE  TerminalInv
  OBVIOUS
<1>1. Idle \in Thread /\ Idle.holds # "tap" /\ Idle.phase = "idle"
  BY TerminalAssumption DEF Idle, Thread
<1>2. cmds \in Seq({"attach", "detach"}) /\ Len(cmds) <= QueueSize
  BY TerminalAssumption DEF Init
<1>3. TypeOK
  BY <1>1, <1>2 DEF Init, TypeOK
<1>4. HoldersDetach
  BY <1>1 DEF Init, HoldersDetach
<1> QED
  BY <1>3, <1>4 DEF Init, TerminalInv, TapIsServed, UnheardWithoutLink, CommandsMatchAudience

\* Commands that are taken leave commands.
LEMMA TakingACommand ==
    ASSUME TypeOK, cmds # << >>
    PROVE  Tail(cmds) \in Seq({"attach", "detach"}) /\ Len(Tail(cmds)) <= QueueSize
BY TerminalAssumption DEF TypeOK

\* The steps of the SSE thread and of the main thread.
LEMMA ManagerStepsKeep ==
    ASSUME TerminalInv,
           HandleAttach \/ SseStarts \/ HandleDetach \/ ChildGoes \/ ChildComes
             \/ LookAtPending \/ MainStarts
    PROVE  TerminalInv'
<1>0. TypeOK /\ HoldersDetach /\ TapIsServed
  BY DEF TerminalInv
<1>1. HubInv'
  BY HubUntouched DEF HandleAttach, SseStarts, HandleDetach, ChildGoes, ChildComes,
                      LookAtPending, MainStarts
<1>2. Finding \in {"pend", "start", None}
  BY DEF Finding
<1>3. CASE HandleAttach
  <2>1. UNCHANGED <<hub, child, pending, current, main, pty, thread>>
        /\ cmds' = Tail(cmds) /\ cmds # << >> /\ sse' = Finding
    BY <1>3 DEF HandleAttach
  <2>2. TypeOK'
    BY <1>0, <1>2, <2>1, TakingACommand DEF TypeOK, hub, pty
  <2>3. HoldersDetach' /\ TapIsServed'
    BY <1>0, <2>1 DEF HoldersDetach, TapIsServed, Holders, pty
  <2> QED
    BY <1>1, <2>2, <2>3 DEF TerminalInv, HubInv
<1>4. CASE SseStarts
  <2>1. StartStep(sse) /\ sse' = None /\ UNCHANGED <<hub, cmds, child, main, pty>>
    BY <1>4 DEF SseStarts
  <2>2. /\ HoldersDetach' /\ TapIsServed'
        /\ thread' \in [Threads -> Thread]
        /\ current' \in Threads \cup {None} /\ pending' \in BOOLEAN
        /\ current' # None => thread'[current'].phase # "idle"
    BY <2>1, StartingTapsNothing
  <2>3. TypeOK'
    BY <1>0, <2>1, <2>2 DEF TypeOK, hub, pty
  <2> QED
    BY <1>1, <2>2, <2>3 DEF TerminalInv, HubInv
<1>5. CASE HandleDetach
  <2>1. UNCHANGED <<hub, child, sse, main, pty>> /\ cmds' = Tail(cmds) /\ cmds # << >>
        /\ pending' = FALSE /\ current' = None
    BY <1>5 DEF HandleDetach
  <2>2. /\ thread' \in [Threads -> Thread]
        /\ \A t \in Threads : /\ thread'[t].holds = thread[t].holds
                              /\ thread'[t].mine = thread[t].mine
                              /\ thread'[t].phase = thread[t].phase
    <3>1. CASE current = None
      BY <1>0, <1>5, <3>1 DEF HandleDetach, TypeOK
    <3>2. CASE current # None
      <4>1. current \in Threads /\ thread[current] \in Thread
            /\ thread' = [thread EXCEPT ![current].stop = TRUE]
        BY <1>0, <1>5, <3>2 DEF HandleDetach, TypeOK
      <4>2. thread'[current] = [thread[current] EXCEPT !.stop = TRUE]
            /\ \A o \in Threads \ {current} : thread'[o] = thread[o]
        BY <1>0, <4>1 DEF TypeOK
      <4>3. /\ thread'[current] \in Thread /\ thread'[current].holds = thread[current].holds
            /\ thread'[current].mine = thread[current].mine
            /\ thread'[current].phase = thread[current].phase
        <5>1. [thread[current] EXCEPT !.stop = TRUE] \in Thread
          BY <4>1 DEF Thread
        <5>2. \A x \in Thread : LET y == [x EXCEPT !.stop = TRUE] IN
                  y.holds = x.holds /\ y.mine = x.mine /\ y.phase = x.phase
          BY DEF Thread
        <5> QED
          BY <4>1, <4>2, <5>1, <5>2
      <4> QED
        BY <1>0, <4>1, <4>2, <4>3 DEF TypeOK
    <3> QED
      BY <3>1, <3>2
  <2>3. TypeOK'
    BY <1>0, <2>1, <2>2, TakingACommand DEF TypeOK, hub, pty
  <2>4. Holders' = Holders /\ HoldersDetach'
    BY <1>0, <2>2 DEF Holders, HoldersDetach
  <2>5. TapIsServed'
    BY <1>0, <2>1, <2>4 DEF TapIsServed, pty
  <2> QED
    BY <1>1, <2>3, <2>4, <2>5 DEF TerminalInv, HubInv
<1>6. CASE ChildGoes
  <2>1. /\ child' = FALSE /\ tap' = FALSE /\ data' = FALSE
        /\ UNCHANGED <<hub, cmds, pending, current, sse, main>>
    BY <1>6 DEF ChildGoes
  <2>2. PICK heir \in Threads :
            thread' = [t \in Threads |-> [Untapped(t, heir) EXCEPT !.mine = FALSE]]
    BY <1>6 DEF ChildGoes
  <2>3. \A t \in Threads : /\ thread'[t] \in Thread /\ thread'[t].holds # "tap"
                           /\ thread'[t].phase = thread[t].phase
    BY <1>0, <2>2, UntappedIsThread
  <2>4. thread' \in [Threads -> Thread]
    BY <2>2, <2>3
  <2>5. TypeOK'
    BY <1>0, <2>1, <2>3, <2>4 DEF TypeOK, hub
  <2> QED
    BY <1>1, <2>1, <2>3, <2>5 DEF TerminalInv, HubInv, HoldersDetach, TapIsServed
<1>7. CASE ChildComes
  BY <1>0, <1>1, <1>7 DEF ChildComes, TypeOK, hub, pty, TerminalInv, HubInv, HoldersDetach,
                          TapIsServed, Holders
<1>8. CASE LookAtPending
  <2>1. TypeOK'
    BY <1>0, <1>2, <1>8 DEF LookAtPending, TypeOK, hub, pty
  <2>2. HoldersDetach' /\ TapIsServed'
    BY <1>0, <1>8 DEF LookAtPending, pty, HoldersDetach, TapIsServed, Holders
  <2> QED
    BY <1>1, <2>1, <2>2 DEF TerminalInv, HubInv
<1>9. CASE MainStarts
  <2>1. StartStep(main) /\ main' = None /\ UNCHANGED <<hub, cmds, child, sse, pty>>
    BY <1>9 DEF MainStarts
  <2>2. /\ HoldersDetach' /\ TapIsServed'
        /\ thread' \in [Threads -> Thread]
        /\ current' \in Threads \cup {None} /\ pending' \in BOOLEAN
        /\ current' # None => thread'[current'].phase # "idle"
    BY <2>1, StartingTapsNothing
  <2>3. TypeOK'
    BY <1>0, <2>1, <2>2 DEF TypeOK, hub, pty
  <2> QED
    BY <1>1, <2>2, <2>3 DEF TerminalInv, HubInv
<1> QED
  BY <1>3, <1>4, <1>5, <1>6, <1>7, <1>8, <1>9

\* The steps of a stream thread.
LEMMA ThreadStepsKeep ==
    ASSUME TerminalInv, NEW t \in Threads, ThreadStep(t)
    PROVE  TerminalInv'
<1>0. TypeOK /\ HoldersDetach /\ TapIsServed /\ thread[t] \in Thread /\ MaxFails \in Nat \ {0}
  BY TerminalAssumption DEF TerminalInv, TypeOK
<1>1. HubInv'
  BY HubUntouched DEF ThreadStep, AttachStream, FindsNoChild, Dump, LoopTurns, Post, Exit
<1>2. CASE AttachStream(t)
  <2>1. /\ thread[t].phase = "new" /\ tap' = TRUE
        /\ thread' = [thread EXCEPT ![t].phase = "dump", ![t].holds = "tap", ![t].mine = TRUE]
        /\ UNCHANGED <<hub, cmds, manager, data>>
    BY <1>2 DEF AttachStream
  <2>2. thread'[t] = [thread[t] EXCEPT !.phase = "dump", !.holds = "tap", !.mine = TRUE]
        /\ \A o \in Threads \ {t} : thread'[o] = thread[o]
    BY <1>0, <2>1 DEF TypeOK
  <2>3. thread'[t] \in Thread /\ thread'[t].phase = "dump" /\ thread'[t].holds = "tap"
        /\ thread'[t].mine
    <3>1. thread'[t] = [phase |-> "dump", stop |-> thread[t].stop, holds |-> "tap",
                        rest |-> thread[t].rest, mine |-> TRUE, fails |-> thread[t].fails]
      BY <1>0, <2>2 DEF Thread
    <3> QED
      BY <1>0, <3>1 DEF Thread
  <2>4. thread' \in [Threads -> Thread]
    BY <1>0, <2>1, <2>3 DEF TypeOK
  <2>5. TypeOK'
    BY <1>0, <2>1, <2>2, <2>3, <2>4 DEF TypeOK, hub, manager
  <2>6. HoldersDetach' /\ TapIsServed'
    BY <1>0, <2>2, <2>3 DEF HoldersDetach, TapIsServed, Holders
  <2> QED
    BY <1>1, <2>5, <2>6 DEF TerminalInv, HubInv
<1>3. CASE FindsNoChild(t)
  <2>1. /\ thread[t].phase = "new" /\ thread' = [thread EXCEPT ![t] = Idle]
        /\ current' = IF current = t THEN None ELSE current
        /\ UNCHANGED <<hub, cmds, child, pending, sse, main, pty>>
    BY <1>3 DEF FindsNoChild, Forget
  <2>2. Idle \in Thread /\ Idle.holds # "tap" /\ Idle.phase = "idle" /\ thread[t].holds # "tap"
    BY <1>0, <2>1 DEF Idle, Thread, HoldersDetach
  <2>3. thread' \in [Threads -> Thread] /\ thread'[t] = Idle
        /\ \A o \in Threads \ {t} : thread'[o] = thread[o]
    BY <1>0, <2>1, <2>2 DEF TypeOK
  <2>4. Holders' = Holders /\ HoldersDetach'
    BY <1>0, <2>2, <2>3 DEF Holders, HoldersDetach
  <2>5. TypeOK'
    BY <1>0, <2>1, <2>3 DEF TypeOK, hub, pty
  <2> QED
    BY <1>0, <1>1, <2>1, <2>4, <2>5 DEF TerminalInv, HubInv, TapIsServed, pty
<1>4. CASE (Dump(t) \/ Exit(t)) /\ Leave(t)
  <2>1. UNCHANGED <<hub, cmds, child, pending, sse, main>>
    BY <1>4 DEF Dump, Exit
  <2>2. /\ HoldersDetach' /\ TapIsServed'
        /\ thread' \in [Threads -> Thread]
        /\ current' \in Threads \cup {None} /\ tap' \in BOOLEAN /\ data' \in BOOLEAN
        /\ data' => tap'
        /\ current' # None => thread'[current'].phase # "idle"
    BY <1>4, LeavingTakesTheTap
  <2>3. TypeOK'
    BY <1>0, <2>1, <2>2 DEF TypeOK, hub
  <2> QED
    BY <1>1, <2>2, <2>3 DEF TerminalInv, HubInv
<1>5. ASSUME NEW x \in Thread, thread' = [thread EXCEPT ![t] = x],
             thread[t].phase \notin {"idle", "new"},
             x.phase \in {"dump", "loop", "post", "exit"},
             x.holds = thread[t].holds, x.mine = thread[t].mine,
             UNCHANGED <<hub, cmds, manager, tap>>, data' = data \/ data' = FALSE
      PROVE  TerminalInv'
  BY <1>0, <1>5, ThreadGoesOn, WorkingKeepsTheTap
<1>6. CASE Dump(t) /\ ~Leave(t)
  <2> DEFINE x == [thread[t] EXCEPT !.phase = "loop"]
  <2>1. thread' = [thread EXCEPT ![t] = x] /\ thread[t].phase = "dump"
        /\ UNCHANGED <<hub, cmds, manager, tap, data>>
    BY <1>6 DEF Dump, manager, pty
  <2>2. x \in Thread /\ x.phase = "loop" /\ x.holds = thread[t].holds /\ x.mine = thread[t].mine
    BY <1>0 DEF Thread
  <2> HIDE DEF x
  <2> QED
    BY <1>5, <2>1, <2>2
<1>7. CASE LoopTurns(t)
  <2>1. thread[t].phase = "loop" /\ UNCHANGED <<hub, cmds, manager, tap>>
    BY <1>7 DEF LoopTurns
  <2>2. CASE thread' = [thread EXCEPT ![t].phase = "exit"] /\ UNCHANGED data
    <3> DEFINE x == [thread[t] EXCEPT !.phase = "exit"]
    <3>1. thread' = [thread EXCEPT ![t] = x]
      BY <2>2
    <3>2. x \in Thread /\ x.phase = "exit" /\ x.holds = thread[t].holds /\ x.mine = thread[t].mine
      BY <1>0 DEF Thread
    <3> HIDE DEF x
    <3> QED
      BY <1>5, <2>1, <2>2, <3>1, <3>2
  <2>3. CASE /\ Emptied(t) /\ thread' = [thread EXCEPT ![t].phase = "post", ![t].rest = FALSE]
    <3> DEFINE x == [thread[t] EXCEPT !.phase = "post", !.rest = FALSE]
    <3>1. data' = data \/ data' = FALSE
      BY <1>0, <2>3 DEF Emptied, TypeOK
    <3>2. thread' = [thread EXCEPT ![t] = x]
      BY <1>0, <2>3 DEF TypeOK
    <3>3. x \in Thread /\ x.phase = "post" /\ x.holds = thread[t].holds /\ x.mine = thread[t].mine
      BY <1>0 DEF Thread
    <3> HIDE DEF x
    <3> QED
      BY <1>5, <2>1, <3>1, <3>2, <3>3
  <2> QED
    BY <1>7, <2>2, <2>3 DEF LoopTurns
<1>8. CASE Post(t)
  <2>1. thread[t].phase = "post" /\ UNCHANGED <<hub, cmds, manager, tap>>
    BY <1>8 DEF Post
  <2>2. CASE thread' = [thread EXCEPT ![t].phase = "loop", ![t].fails = 0] /\ UNCHANGED data
    <3> DEFINE x == [thread[t] EXCEPT !.phase = "loop", !.fails = 0]
    <3>1. thread' = [thread EXCEPT ![t] = x]
      BY <1>0, <2>2 DEF TypeOK
    <3>2. x \in Thread /\ x.phase = "loop" /\ x.holds = thread[t].holds /\ x.mine = thread[t].mine
      <4>1. 0 \in 0..(MaxFails - 1)
        BY TerminalAssumption
      <4> DEFINE y == [thread[t] EXCEPT !.phase = "loop"]
      <4>2. y \in Thread /\ y.phase = "loop" /\ y.holds = thread[t].holds /\ y.mine = thread[t].mine
        BY <1>0 DEF Thread
      <4>3. x = [y EXCEPT !.fails = 0]
        BY <1>0 DEF Thread
      <4> HIDE DEF x, y
      <4> QED
        BY <4>1, <4>2, <4>3 DEF Thread
    <3> HIDE DEF x
    <3> QED
      BY <1>5, <2>1, <2>2, <3>1, <3>2
  <2>3. CASE thread' = [thread EXCEPT ![t].phase = "exit"] /\ UNCHANGED data
    <3> DEFINE x == [thread[t] EXCEPT !.phase = "exit"]
    <3>1. thread' = [thread EXCEPT ![t] = x]
      BY <2>3
    <3>2. x \in Thread /\ x.phase = "exit" /\ x.holds = thread[t].holds /\ x.mine = thread[t].mine
      BY <1>0 DEF Thread
    <3> HIDE DEF x
    <3> QED
      BY <1>5, <2>1, <2>3, <3>1, <3>2
  <2>4. CASE /\ thread' = [thread EXCEPT ![t].phase = "loop", ![t].rest = FALSE, ![t].fails = @ + 1]
             /\ Emptied(t) /\ thread[t].fails + 1 < MaxFails
    <3> DEFINE n == thread[t].fails + 1
               x == [thread[t] EXCEPT !.phase = "loop", !.rest = FALSE, !.fails = n]
    <3>1. data' = data \/ data' = FALSE
      BY <1>0, <2>4 DEF Emptied, TypeOK
    <3>2. thread' = [thread EXCEPT ![t] = x]
      BY <1>0, <2>4 DEF TypeOK, Thread
    <3>3. n \in 0..(MaxFails - 1)
      BY <1>0, <2>4 DEF Thread
    <3> HIDE DEF n
    <3>4. x \in Thread /\ x.phase = "loop" /\ x.holds = thread[t].holds /\ x.mine = thread[t].mine
      BY <1>0, <3>3 DEF Thread
    <3> HIDE DEF x
    <3> QED
      BY <1>5, <2>1, <3>1, <3>2, <3>4
  <2>5. CASE /\ thread' = [thread EXCEPT ![t].phase = "exit", ![t].rest = FALSE]
             /\ Emptied(t)
    <3> DEFINE x == [thread[t] EXCEPT !.phase = "exit", !.rest = FALSE]
    <3>1. data' = data \/ data' = FALSE
      BY <1>0, <2>5 DEF Emptied, TypeOK
    <3>2. thread' = [thread EXCEPT ![t] = x]
      BY <1>0, <2>5 DEF TypeOK
    <3>3. x \in Thread /\ x.phase = "exit" /\ x.holds = thread[t].holds /\ x.mine = thread[t].mine
      BY <1>0 DEF Thread
    <3> HIDE DEF x
    <3> QED
      BY <1>5, <2>1, <3>1, <3>2, <3>3
  <2> QED
    BY <1>8, <2>2, <2>3, <2>4, <2>5 DEF Post, PostFails
<1> QED
  BY <1>2, <1>3, <1>4, <1>6, <1>7, <1>8 DEF ThreadStep, Exit

\* Every step keeps the invariant.
LEMMA TerminalInvNext == TerminalInv /\ [Next]_vars => TerminalInv'
<1> SUFFICES ASSUME TerminalInv, [Next]_vars
             PROVE  TerminalInv'
  OBVIOUS
<1>1. CASE Output
  <2>1. TypeOK'
    BY <1>1 DEF Output, TerminalInv, TypeOK, hub, manager
  <2>2. HubInv'
    BY <1>1, HubUntouched DEF Output
  <2> QED
    BY <1>1, <2>1, <2>2 DEF Output, TerminalInv, HubInv, HoldersDetach, TapIsServed, Holders
<1>2. CASE UNCHANGED vars
  <2>1. HubInv'
    BY <1>2, HubUntouched DEF vars, hub
  <2> QED
    BY <1>2, <2>1 DEF vars, TerminalInv, HubInv, TypeOK, hub, manager, pty, HoldersDetach,
                      TapIsServed, Holders
<1> QED
  BY <1>1, <1>2, HubStepsKeep, ManagerStepsKeep, ThreadStepsKeep DEF Next

\* The invariant holds in every state.
THEOREM TerminalInvariant == Spec => []TerminalInv
BY TerminalInvInit, TerminalInvNext, PTL DEF Spec

\* The state of the terminal bridge has its type.
THEOREM TerminalTypeCorrect == Spec => []TypeOK
<1>1. TerminalInv => TypeOK
  BY DEF TerminalInv
<1> QED
  BY <1>1, TerminalInvariant, PTL

\* No way a stream thread ends leaves the queue of the pty without one that empties
\* it (the returns and breaks of _pty_stream_loop).
THEOREM TapsAreServed == Spec => []TapIsServed
<1>1. TerminalInv => TapIsServed
  BY DEF TerminalInv
<1> QED
  BY <1>1, TerminalInvariant, PTL

\* What the manager was sent last says whether a browser or the recorder watches,
\* unless it was dropped (_sync_pty_stream, the finally of the WebSocket handler).
THEOREM ManagerHearsTheAudience == Spec => []CommandsMatchAudience
<1>1. TerminalInv => CommandsMatchAudience
  BY DEF TerminalInv
<1> QED
  BY <1>1, TerminalInvariant, PTL
=============================================================================
