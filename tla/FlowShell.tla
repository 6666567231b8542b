------------------------------- MODULE FlowShell -------------------------------
(***************************************************************************)
(* Saved messages: a flow that is saved, edited and deleted while runs of  *)
(* it wait for the engine's lock to deliver its body to a worker; and the  *)
(* log of each run, which is filled from the worker's timeline whenever it *)
(* is read.  The store's own lock is never waited for: what it guards does *)
(* not suspend.  Every event and every run has a time of its own.          *)
(***************************************************************************)
EXTENDS Naturals, Sequences, SequencesExt, FiniteSets, Selections

CONSTANTS
    Runs,      \* calls of tm_run_flow
    Bodies,    \* what a flow may say
    NoFlow,    \* there is no file
    MaxTime    \* bound: events, runs and readings of the clock

ASSUME FlowsAssumption == IsFiniteSet(Runs) /\ NoFlow \notin Bodies /\ MaxTime \in Nat

VARIABLES
    flow,      \* the body in the flow's file, or NoFlow
    saved,     \* history: what was saved last, NoFlow once it was deleted
    runAt,     \* where each run is
    body,      \* the body it has read
    heard,     \* the timeline of the worker: the times of its events
    started,   \* started_at of each run's log
    finished,  \* finished_at, or NotFinished
    log,       \* the events in each run's log
    now        \* the time

flowVars == <<flow, saved, runAt, body, heard, started, finished, log, now>>
runLogs == <<started, finished, log>>

NotFinished == 0

FlowsTypeOK ==
    /\ flow \in Bodies \cup {NoFlow} /\ saved \in Bodies \cup {NoFlow}
    /\ runAt \in [Runs -> {"none", "sending", "running", "failed"}]
    /\ body \in [Runs -> Bodies \cup {NoFlow}]
    /\ heard \in Seq(1..now) /\ now \in 1..(MaxTime + 2)
    /\ started \in [Runs -> 0..now] /\ finished \in [Runs -> 0..now]
    /\ log \in [Runs -> Seq(1..now)]

FlowsInit ==
    /\ flow = NoFlow /\ saved = NoFlow
    /\ runAt = [r \in Runs |-> "none"] /\ body = [r \in Runs |-> NoFlow]
    /\ heard = << >> /\ now = 1
    /\ started = [r \in Runs |-> 0] /\ finished = [r \in Runs |-> NotFinished]
    /\ log = [r \in Runs |-> << >>]
-----------------------------------------------------------------------------
\* The store.

SaveFlow(b) ==
    /\ flow' = b /\ saved' = b
    /\ UNCHANGED <<runAt, body, heard, runLogs, now>>

DeleteFlow ==
    /\ flow # NoFlow /\ flow' = NoFlow /\ saved' = NoFlow
    /\ UNCHANGED <<runAt, body, heard, runLogs, now>>

\* A run that writes back what it has read.
StartRunWithBody(r) ==
    /\ runAt' = [runAt EXCEPT ![r] = "running"]
    /\ started' = [started EXCEPT ![r] = now + 1]
    /\ flow' = body[r]

\* start_run: the log is made, and last_run_at is written into the flow as it is
\* by then, if it is still there.
StartRun(r) ==
    /\ runAt' = [runAt EXCEPT ![r] = "running"]
    /\ started' = [started EXCEPT ![r] = now + 1]
    /\ UNCHANGED flow
-----------------------------------------------------------------------------
\* The tools.

\* tm_run_flow reads the flow; without one, or without a target, it is over.
RunFlow(r) ==
    /\ runAt[r] = "none"
    /\ \/ flow # NoFlow /\ runAt' = [runAt EXCEPT ![r] = "sending"]
            /\ body' = [body EXCEPT ![r] = flow]
       \/ runAt' = [runAt EXCEPT ![r] = "failed"] /\ UNCHANGED body
    /\ UNCHANGED <<flow, saved, heard, runLogs, now>>

RunsLost == runAt' = [r \in Runs |-> IF runAt[r] = "sending" THEN "failed" ELSE runAt[r]]

\* It gets the engine's lock: the body is delivered and the log started.  The
\* hub may die in between.
Delivers(r) ==
    /\ runAt[r] = "sending" /\ now < MaxTime
    /\ heard' = Append(heard, now) /\ now' = now + 2
    /\ StartRun(r) \/ (RunsLost /\ UNCHANGED <<flow, started>>)
    /\ UNCHANGED <<saved, body, finished, log>>

\* The hub dies while runs wait: files stay.
HubDies ==
    /\ \E r \in Runs : runAt[r] = "sending"
    /\ RunsLost
    /\ UNCHANGED <<flow, saved, body, heard, runLogs, now>>

\* What the window of a run's log shows of the timeline.
InWindow(r, e) == started[r] <= e /\ (finished[r] # NotFinished => e <= finished[r])

\* A log that takes events twice.
ReadRunLogAgain(r) ==
    /\ runAt[r] = "running"
    /\ log' = [log EXCEPT ![r] = @ \o Kept(heard, {i \in DOMAIN heard : InWindow(r, heard[i])})]
    /\ UNCHANGED <<flow, saved, runAt, body, heard, started, finished, now>>

\* The places of the events it shows and the log does not hold.
NotYetIn(r) == {i \in DOMAIN heard : InWindow(r, heard[i]) /\ heard[i] \notin ToSet(log[r])}

\* tm_get_run_log: the events of the window it does not hold yet.
ReadRunLog(r) ==
    /\ runAt[r] = "running"
    /\ log' = [log EXCEPT ![r] = @ \o Kept(heard, NotYetIn(r))]
    /\ UNCHANGED <<flow, saved, runAt, body, heard, started, finished, now>>

\* tm_finish_run, as often as it is called.
FinishRun(r) ==
    /\ runAt[r] = "running" /\ now < MaxTime
    /\ finished' = [finished EXCEPT ![r] = now] /\ now' = now + 1
    /\ UNCHANGED <<flow, saved, runAt, body, heard, started, log>>

\* An event of the worker.
Hears ==
    /\ now < MaxTime /\ heard' = Append(heard, now) /\ now' = now + 1
    /\ UNCHANGED <<flow, saved, runAt, body, runLogs>>

\* The worker is purged.
Forgets ==
    /\ heard # << >> /\ heard' = << >>
    /\ UNCHANGED <<flow, saved, runAt, body, runLogs, now>>
-----------------------------------------------------------------------------
FlowsNext ==
    \/ \E b \in Bodies : SaveFlow(b)
    \/ DeleteFlow \/ HubDies \/ Hears \/ Forgets
    \/ \E r \in Runs : RunFlow(r) \/ Delivers(r) \/ ReadRunLog(r) \/ FinishRun(r)

FlowsSpec == FlowsInit /\ [][FlowsNext]_flowVars
-----------------------------------------------------------------------------
\* The file says what was saved last, and nothing once the flow was deleted: a run
\* that waited meanwhile neither brings back the body it read nor the flow
\* (start_run reads the flow again).
FlowIsAsSaved == flow = saved

\* The log of a run is a piece of the worker's timeline: after the run started and
\* before it finished, each event once and in order - over repeated reads, second
\* finishes and a purge (tm_get_run_log).
RunLogIsTimeline ==
    \A r \in Runs :
        /\ \A i \in DOMAIN log[r] : InWindow(r, log[r][i])
        /\ \A i, j \in DOMAIN log[r] : i < j => log[r][i] < log[r][j]

FlowFilesAreTrue == FlowIsAsSaved /\ RunLogIsTimeline
=============================================================================
