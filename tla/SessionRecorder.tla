---------------------------- MODULE SessionRecorder ----------------------------
(***************************************************************************)
(* The recordings of one worker: the engine's flag, the manager of the     *)
(* recordings, and the files of the worker's sessions with their rotation  *)
(* and garbage collection.  Sizes count chunks of pty output; only the     *)
(* .cast files are counted, their .frames.jsonl siblings come and go with  *)
(* them.  Files are numbered in the order they are opened; stamps are      *)
(* their modification times.                                               *)
(***************************************************************************)
EXTENDS Naturals, FiniteSets

CONSTANTS
    MaxChunks,  \* max_bytes_per_file, in chunks
    KeepLimits, \* the values of recording_keep_files this instance uses
    MaxFiles,   \* bound: sessions opened
    MaxPurges   \* bound: purges of the worker, restarts of the hub

ASSUME RecorderAssumption ==
    /\ MaxChunks \in Nat \ {0} /\ KeepLimits \subseteq Nat \ {0} /\ KeepLimits # {}
    /\ MaxFiles \in Nat /\ MaxPurges \in Nat

VARIABLES
    known,      \* the engine has a state for the worker
    flag,       \* recording_enabled of that state
    byDefault,  \* _recording_default
    keepFiles,  \* keep_files of the RecordingManager
    session,    \* the number of the file that is written, or NotRecording
    sessionKeeps, \* keep_files of the WorkerRecording
    chunks,     \* its _cast_size
    files,      \* the stamps of the files on disk
    clock,      \* the time, in ticks of the file system
    opened,     \* the number of the last file opened
    keptTo,     \* history: keep_files when files were last collected
    excused,    \* history: files that resisted a collection or came without one
    crowded,    \* history: the session was opened beside a limit's worth of files of
                \* the same time, which the sort does not tell from its own
    unsynced,   \* history: the flag was made, or a start failed, without the recorder
    purges

recorderVars == <<known, flag, byDefault, keepFiles, session, sessionKeeps, chunks, files, clock,
                  opened, keptTo, excused, crowded, unsynced, purges>>
engineState == <<known, flag, byDefault>>
disk == <<files, opened, keptTo, excused, crowded>>

NotRecording == 0

RecorderTypeOK ==
    /\ {known, flag, byDefault, crowded, unsynced} \subseteq BOOLEAN
    /\ {keepFiles, sessionKeeps, keptTo} \subseteq KeepLimits
    /\ session \in 0..opened /\ opened \in 0..MaxFiles
    /\ chunks \in 0..MaxChunks
    /\ DOMAIN files \subseteq 1..opened /\ excused \subseteq 1..opened
    /\ \A f \in DOMAIN files : files[f] <= clock
    /\ clock \in Nat
    /\ purges \in 0..MaxPurges

RecorderInit ==
    /\ known = FALSE /\ flag = FALSE /\ byDefault \in BOOLEAN
    /\ keepFiles \in KeepLimits /\ sessionKeeps = keepFiles /\ keptTo = keepFiles
    /\ session = NotRecording /\ chunks = 0
    /\ files = << >> /\ clock = 1 /\ opened = 0 /\ crowded = FALSE
    /\ excused = {} /\ unsynced = FALSE /\ purges = 0
-----------------------------------------------------------------------------
\* Files.

Stamped(fs, f) == [g \in DOMAIN fs \cup {f} |-> IF g = f THEN clock ELSE fs[g]]
Without(fs, S) == [g \in DOMAIN fs \ S |-> fs[g]]

\* What a collection may take: the oldest files that exceed the limit.  Files with
\* one modification time are in the order the directory lists them.
ExceedAnyhow(fs, keep) ==
    {S \in SUBSET DOMAIN fs :
        Cardinality(S) = IF Cardinality(DOMAIN fs) > keep THEN Cardinality(DOMAIN fs) - keep ELSE 0}
Exceed(fs, keep) ==
    {S \in ExceedAnyhow(fs, keep) : \A f \in S, g \in DOMAIN fs \ S : fs[f] <= fs[g]}

Crowds(fs, keep) == Cardinality({g \in DOMAIN fs : fs[g] = clock}) >= keep

\* A collection in the order of the directory.
OpenSessionUnsorted(fs, keep) ==
    LET f == opened + 1
        now == Stamped(fs, f) IN
    /\ opened < MaxFiles /\ opened' = f /\ session' = f /\ chunks' = 0 /\ keptTo' = keep
    /\ crowded' = Crowds(fs, keep)
    /\ \E S \in ExceedAnyhow(now, keep) : files' = Without(now, S) /\ UNCHANGED excused

\* A session that goes on counting where the one before it was full.
OpenSessionCounted(fs, keep) ==
    LET f == opened + 1
        now == Stamped(fs, f) IN
    /\ opened < MaxFiles /\ opened' = f /\ session' = f /\ chunks' = chunks + 1 /\ keptTo' = keep
    /\ crowded' = Crowds(fs, keep)
    /\ \E S \in Exceed(now, keep) : files' = Without(now, S) /\ UNCHANGED excused

\* _open_session and its _gc_old_files: a file may resist, and among files of one
\* time the new one itself may go; the next chunk creates it again.
OpenSession(fs, keep) ==
    LET f == opened + 1
        now == Stamped(fs, f) IN
    /\ opened < MaxFiles /\ opened' = f /\ session' = f /\ chunks' = 0 /\ keptTo' = keep
    /\ crowded' = Crowds(fs, keep)
    /\ \E S \in Exceed(now, keep) : \E gone \in {S} \cup {S \ {g} : g \in S} :
          /\ files' = Without(now, gone)
          /\ excused' = ((excused \cup S) \ gone) \cup ({f} \cap gone)

\* _rotate when the new file cannot be opened: its name is taken, its size is the
\* old one's, and the next chunk creates it without a header.
RotationFails(fs) ==
    /\ opened < MaxFiles /\ opened' = opened + 1 /\ session' = opened'
    /\ chunks' = MaxChunks /\ files' = fs /\ crowded' = FALSE
    /\ excused' = excused \cup {opened'} /\ UNCHANGED keptTo

\* RecordingManager.start: what records goes on; opening a session may fail.
StartRecording(failed) ==
    IF session # NotRecording
    THEN ~failed /\ UNCHANGED <<session, sessionKeeps, chunks, disk>>
    ELSE \/ ~failed /\ OpenSession(files, keepFiles) /\ sessionKeeps' = keepFiles
         \/ failed /\ UNCHANGED <<session, sessionKeeps, chunks, disk>>

StopRecording == session' = NotRecording /\ chunks' = 0 /\ UNCHANGED <<sessionKeeps, disk>>

\* push_output: a chunk is appended - or its second write fails, which does not
\* count - and a full file is followed by a new one.
WriteChunk ==
    LET fs == Stamped(files, session) IN
    /\ session # NotRecording
    /\ \/ /\ chunks + 1 < MaxChunks \/ fs # files
          /\ chunks' \in {chunks} \cup ({chunks + 1} \cap 0..(MaxChunks - 1))
          /\ files' = fs /\ UNCHANGED <<session, opened, keptTo, excused, crowded>>
       \/ /\ chunks + 1 >= MaxChunks
          /\ OpenSession(fs, sessionKeeps) \/ RotationFails(fs)
    /\ UNCHANGED <<engineState, keepFiles, sessionKeeps, clock, unsynced, purges>>
-----------------------------------------------------------------------------
\* The engine.

Syncs(on) ==
    \E failed \in BOOLEAN :
        /\ failed => on
        /\ IF on THEN StartRecording(failed) ELSE StopRecording
        /\ unsynced' = failed

\* set_recording_enabled: nothing for an unknown worker.
SetRecording(on) ==
    /\ known /\ flag' = on
    /\ Syncs(on)
    /\ UNCHANGED <<known, byDefault, keepFiles, clock, purges>>

\* register_worker: a new worker takes the default, and the recorder its flag.
Registers ==
    /\ known' = TRUE /\ flag' = IF known THEN flag ELSE byDefault
    /\ Syncs(flag')
    /\ UNCHANGED <<byDefault, keepFiles, clock, purges>>

\* Any other operation makes the state of an unknown worker, unrecorded.
Created ==
    /\ ~known /\ known' = TRUE /\ flag' = FALSE /\ unsynced' = TRUE
    /\ UNCHANGED <<byDefault, keepFiles, session, sessionKeeps, chunks, disk, clock, purges>>

\* purge_worker: the recorder is not told.
Purged ==
    /\ known /\ purges < MaxPurges /\ purges' = purges + 1
    /\ known' = FALSE /\ flag' = FALSE
    /\ UNCHANGED <<byDefault, keepFiles, session, sessionKeeps, chunks, disk, clock, unsynced>>

\* A hub that starts without its recordings.
RestartsSilent ==
    /\ purges < MaxPurges /\ purges' = purges + 1
    /\ session' = NotRecording /\ chunks' = 0
    /\ UNCHANGED <<engineState, keepFiles, sessionKeeps, disk, clock, unsynced>>

\* The hub restarts: _load_all starts what was recorded.
Restarts ==
    /\ purges < MaxPurges /\ purges' = purges + 1
    /\ IF known /\ flag
       THEN \/ /\ OpenSession(files, keepFiles) /\ sessionKeeps' = keepFiles /\ unsynced' = FALSE
            \/ /\ session' = NotRecording /\ chunks' = 0 /\ unsynced' = TRUE
               /\ UNCHANGED <<sessionKeeps, disk>>
       ELSE StopRecording /\ unsynced' = FALSE
    /\ UNCHANGED <<engineState, keepFiles, clock>>

\* update_limits, for the next session and for one that is written.
UpdateLimits(keep) ==
    /\ keepFiles' = keep
    /\ sessionKeeps' = IF session = NotRecording THEN sessionKeeps ELSE keep

\* PUT /api/settings.
PutSettings(keep, on) ==
    /\ byDefault' = on /\ UpdateLimits(keep)
    /\ UNCHANGED <<known, flag, session, chunks, disk, clock, unsynced, purges>>

TickPasses ==
    /\ clock < MaxFiles + 1 /\ clock' = clock + 1
    /\ UNCHANGED <<engineState, keepFiles, session, sessionKeeps, chunks, disk, unsynced, purges>>
-----------------------------------------------------------------------------
RecorderNext ==
    \/ \E on \in BOOLEAN : SetRecording(on) \/ \E keep \in KeepLimits : PutSettings(keep, on)
    \/ WriteChunk \/ Registers \/ Created \/ Purged \/ Restarts \/ TickPasses

RecorderSpec == RecorderInit /\ [][RecorderNext]_recorderVars
-----------------------------------------------------------------------------
\* The session that is written is on disk, whatever was collected since - unless
\* it was opened beside as many files of its own time as the limit allows, or
\* could not be opened and no chunk has created it yet - and there are no more
\* files than the limit of the last collection but for those that resisted it or
\* came without one (_gc_old_files).
RecordingIsKept ==
    /\ session # NotRecording /\ chunks < MaxChunks /\ ~crowded => session \in DOMAIN files
    /\ Cardinality(DOMAIN files \ excused) <= keptTo

\* A worker the hub knows is recorded exactly when its flag says so - over
\* restarts, new sessions, changes of the default and a purge - unless its state
\* was made or its recording failed behind the recorder's back.
RecordingFollowsFlag == known /\ ~unsynced => (flag <=> session # NotRecording)
=============================================================================
