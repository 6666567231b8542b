--------------------------- MODULE HubServicesProofs ---------------------------
(***************************************************************************)
(* The services of the hub, for every number of files, runs, events and    *)
(* callers.                                                                *)
(*                                                                         *)
(* Recordings: the session that is written survives the collections, and   *)
(* what is recorded is what the flag says.  The sort by modification time  *)
(* may take files of one time in any order: a collection that takes the    *)
(* session it was made for leaves only files of that session's time, and   *)
(* as many as the limit, so that the session was opened crowded.           *)
(*                                                                         *)
(* Flows: a run's log is a piece of the timeline.  What is heard is in the *)
(* order of its times, and what a log lacks is later than all it has.      *)
(*                                                                         *)
(* Readers: a call gets the next answer.  Its cursor is a place of the     *)
(* timeline or all of the timeline is later, so that a page starts where   *)
(* the page before it ended.                                               *)
(***************************************************************************)
EXTENDS MCHubServices, SelectionProofs

\* The times of files are times.
StampsAreTimes == \A g \in DOMAIN files : files[g] \in Nat

\* Only the session opened last is written.
OnlyLastIsWritten == session \in {NotRecording, opened}

\* A session that is not on disk is known to come back without a collection.
UnopenedIsExcused == session # NotRecording => session \in DOMAIN files \cup excused

\* What holds of the files alone.
FilesInv ==
    /\ RecorderTypeOK /\ StampsAreTimes /\ OnlyLastIsWritten /\ UnopenedIsExcused
    /\ RecordingIsKept

RecorderInv == FilesInv /\ RecordingFollowsFlag
-----------------------------------------------------------------------------
\* Files that a session may be opened beside.
Openable(fs) ==
    /\ DOMAIN fs \subseteq 1..opened
    /\ \A g \in DOMAIN fs : fs[g] \in Nat /\ fs[g] <= clock

\* The constants, as the steps use them.
LEMMA RecorderConstants ==
    /\ MaxChunks \in Nat /\ MaxChunks > 0 /\ MaxFiles \in Nat
    /\ \A keep \in KeepLimits : keep \in Nat /\ keep >= 1
BY RecorderAssumption

\* A collection leaves as many files as the limit says, and takes the session that
\* is being opened only beside that many files of its own time, whatever order files
\* of one time are listed in.
LEMMA CollectionSparesTheNew ==
    ASSUME RecorderTypeOK, StampsAreTimes, NEW fs, Openable(fs), NEW keep \in KeepLimits,
           NEW stamped, stamped = Stamped(fs, opened + 1),
           NEW S \in Exceed(stamped, keep)
    PROVE  /\ DOMAIN stamped = DOMAIN fs \cup {opened + 1} /\ IsFiniteSet(DOMAIN stamped)
           /\ S \subseteq DOMAIN stamped /\ (opened + 1 \in S => Crowds(fs, keep))
           /\ Cardinality(DOMAIN stamped \ S) <= keep
<1> DEFINE D == DOMAIN stamped
           f == opened + 1
<1>1. opened \in Nat /\ clock \in Nat /\ keep \in Nat /\ keep >= 1
  BY RecorderConstants DEF RecorderTypeOK
<1>2. D = DOMAIN fs \cup {f} /\ \A g \in D : stamped[g] = IF g = f THEN clock ELSE fs[g]
  BY DEF Stamped
<1>3. D \subseteq 1..f
  BY <1>1, <1>2 DEF Openable
<1>4. IsFiniteSet(D)
  <2>1. IsFiniteSet(1..f)
    BY <1>1, FS_Interval
  <2> QED
    BY <1>3, <2>1, FS_Subset
<1>5. S \subseteq D /\ \A s \in S, g \in D \ S : stamped[s] <= stamped[g]
  BY DEF Exceed, ExceedAnyhow
<1>6. Cardinality(S) = IF Cardinality(D) > keep THEN Cardinality(D) - keep ELSE 0
  BY DEF Exceed, ExceedAnyhow
<1>7. IsFiniteSet(S) /\ Cardinality(S) \in Nat /\ Cardinality(D) \in Nat
  BY <1>4, <1>5, FS_Subset, FS_CardinalityType
<1>8. IsFiniteSet(D \ S) /\ Cardinality(D \ S) = Cardinality(D) - Cardinality(S)
  <2>1. D \cap S = S
    BY <1>5
  <2>2. IsFiniteSet(D \ S) /\ Cardinality(D \ S) = Cardinality(D) - Cardinality(D \cap S)
    BY <1>4, <1>7, FS_Difference
  <2> QED
    BY <2>1, <2>2
<1>9. Cardinality(D \ S) <= keep
  BY <1>1, <1>6, <1>7, <1>8
<1>10. ASSUME f \in S
       PROVE  Crowds(fs, keep)
  <2> DEFINE T == {g \in DOMAIN fs : fs[g] = clock}
  <2>1. Cardinality(S) # 0
    BY <1>7, <1>10, FS_EmptySet
  <2>2. Cardinality(D \ S) = keep
    BY <1>1, <1>6, <1>7, <1>8, <2>1
  <2>3. D \ S \subseteq T
    <3> SUFFICES ASSUME NEW g \in D \ S
                 PROVE  g \in T
      OBVIOUS
    <3>1. g # f /\ g \in DOMAIN fs
      BY <1>2, <1>10
    <3>2. stamped[g] = fs[g] /\ stamped[f] = clock /\ stamped[f] <= stamped[g]
      BY <1>2, <1>5, <1>10, <3>1
    <3>3. fs[g] \in Nat /\ fs[g] <= clock
      BY <3>1 DEF Openable
    <3> QED
      BY <1>1, <3>1, <3>2, <3>3
  <2>4. IsFiniteSet(T)
    BY <1>2, <1>4, FS_Subset
  <2>5. Cardinality(D \ S) <= Cardinality(T) /\ Cardinality(T) \in Nat
    BY <2>3, <2>4, FS_Subset, FS_CardinalityType
  <2> QED
    BY <1>1, <2>2, <2>5 DEF Crowds
<1> QED
  BY <1>2, <1>4, <1>5, <1>9, <1>10

\* Opening a session keeps what the invariant says of files.
LEMMA OpeningKeepsFiles ==
    ASSUME RecorderTypeOK, StampsAreTimes, NEW fs, Openable(fs), NEW keep \in KeepLimits,
           OpenSession(fs, keep), clock' = clock
    PROVE  /\ opened' = opened + 1 /\ opened' \in 0..MaxFiles
           /\ session' = opened' /\ session' # NotRecording
           /\ session' \in DOMAIN files' \cup excused'
           /\ crowded' \in BOOLEAN /\ (~crowded' => session' \in DOMAIN files')
           /\ chunks' = 0 /\ keptTo' = keep
           /\ DOMAIN files' \subseteq 1..opened' /\ excused' \subseteq 1..opened'
           /\ \A g \in DOMAIN files' : files'[g] \in Nat /\ files'[g] <= clock
           /\ Cardinality(DOMAIN files' \ excused') <= keptTo'
<1> DEFINE f == opened + 1
           stamped == Stamped(fs, f)
<1>0. opened \in 0..MaxFiles /\ clock \in Nat /\ MaxFiles \in Nat /\ keep \in Nat
  BY RecorderConstants DEF RecorderTypeOK
<1>1. /\ opened < MaxFiles /\ opened' = f /\ session' = f /\ chunks' = 0 /\ keptTo' = keep
      /\ crowded' = Crowds(fs, keep)
  BY DEF OpenSession
<1>2. PICK S \in Exceed(stamped, keep) : \E gone \in {S} \cup {S \ {g} : g \in S} :
          /\ files' = Without(stamped, gone)
          /\ excused' = ((excused \cup S) \ gone) \cup ({f} \cap gone)
  BY DEF OpenSession
<1>3. PICK gone \in {S} \cup {S \ {g} : g \in S} :
          /\ files' = Without(stamped, gone)
          /\ excused' = ((excused \cup S) \ gone) \cup ({f} \cap gone)
  BY <1>2
<1>4. gone \subseteq S
  BY <1>3
<1>5. /\ DOMAIN stamped = DOMAIN fs \cup {f} /\ IsFiniteSet(DOMAIN stamped)
      /\ S \subseteq DOMAIN stamped /\ (f \in S => Crowds(fs, keep))
      /\ Cardinality(DOMAIN stamped \ S) <= keep
  BY <1>1, <1>2, CollectionSparesTheNew
<1>6. DOMAIN files' = DOMAIN stamped \ gone /\ \A g \in DOMAIN files' : files'[g] = stamped[g]
  BY <1>3 DEF Without
<1>7. f \in DOMAIN files' \cup excused' /\ (~crowded' => f \in DOMAIN files')
  BY <1>1, <1>3, <1>4, <1>5, <1>6
<1>14. crowded' \in BOOLEAN
  BY <1>1 DEF Crowds
<1>8. DOMAIN stamped \subseteq 1..f /\ excused \subseteq 1..f
  BY <1>0, <1>5 DEF Openable, RecorderTypeOK
<1>9. \A g \in DOMAIN stamped : stamped[g] \in Nat /\ stamped[g] <= clock
  BY <1>0 DEF Stamped, Openable
<1>10. Cardinality(DOMAIN files' \ excused') <= keep
  <2>1. DOMAIN files' \ excused' \subseteq DOMAIN stamped \ S
    BY <1>3, <1>6
  <2>2. IsFiniteSet(DOMAIN stamped \ S)
    BY <1>5, FS_Subset
  <2>3. /\ Cardinality(DOMAIN files' \ excused') <= Cardinality(DOMAIN stamped \ S)
        /\ Cardinality(DOMAIN files' \ excused') \in Nat /\ Cardinality(DOMAIN stamped \ S) \in Nat
    BY <2>1, <2>2, FS_Subset, FS_CardinalityType
  <2> QED
    BY <1>0, <1>5, <2>3
<1>11. opened' \in 0..MaxFiles /\ session' # NotRecording
  BY <1>0, <1>1 DEF NotRecording
<1>12. DOMAIN files' \subseteq 1..opened' /\ excused' \subseteq 1..opened'
  <2>1. S \subseteq 1..f
    BY <1>5, <1>8
  <2> QED
    BY <1>1, <1>3, <1>6, <1>8, <2>1
<1>13. \A g \in DOMAIN files' : files'[g] \in Nat /\ files'[g] <= clock
  BY <1>6, <1>9
<1> QED
  BY <1>1, <1>7, <1>10, <1>11, <1>12, <1>13, <1>14

\* A step that sets no value out of its type beside those of the files.
RestTyped ==
    /\ {known, flag, byDefault, unsynced}' \subseteq BOOLEAN
    /\ {keepFiles, sessionKeeps}' \subseteq KeepLimits
    /\ purges' \in 0..MaxPurges

\* With a session that is being opened the invariant holds of the files.
LEMMA FilesAfterOpening ==
    ASSUME FilesInv, NEW fs, Openable(fs), NEW keep \in KeepLimits,
           OpenSession(fs, keep), clock' = clock, RestTyped
    PROVE  FilesInv' /\ session' # NotRecording
<1>0. RecorderTypeOK /\ StampsAreTimes
  BY DEF FilesInv
<1>1. /\ opened' = opened + 1 /\ opened' \in 0..MaxFiles
      /\ session' = opened' /\ session' # NotRecording
      /\ session' \in DOMAIN files' \cup excused'
      /\ crowded' \in BOOLEAN /\ (~crowded' => session' \in DOMAIN files')
      /\ chunks' = 0 /\ keptTo' = keep
      /\ DOMAIN files' \subseteq 1..opened' /\ excused' \subseteq 1..opened'
      /\ \A g \in DOMAIN files' : files'[g] \in Nat /\ files'[g] <= clock
      /\ Cardinality(DOMAIN files' \ excused') <= keptTo'
  BY <1>0, OpeningKeepsFiles
<1>2. clock \in Nat /\ chunks' \in 0..MaxChunks
  BY <1>0, <1>1, RecorderConstants DEF RecorderTypeOK
<1>3. RecorderTypeOK'
  <2>1. session' \in 0..opened'
    BY <1>1
  <2>2. clock' \in Nat
    BY <1>2
  <2> QED
    BY <1>1, <1>2, <2>1, <2>2 DEF RestTyped, RecorderTypeOK
<1>4. StampsAreTimes' /\ OnlyLastIsWritten'
  BY <1>1, <1>2 DEF StampsAreTimes, OnlyLastIsWritten
<1>5. UnopenedIsExcused' /\ RecordingIsKept'
  BY <1>1, <1>2 DEF UnopenedIsExcused, RecordingIsKept
<1> QED
  BY <1>1, <1>3, <1>4, <1>5 DEF FilesInv

\* A step that leaves the files alone, and the session or stops it.
LEMMA FilesUntouched ==
    ASSUME FilesInv, UNCHANGED disk, clock' \in Nat, clock <= clock', RestTyped,
           \/ session' = session /\ chunks' = chunks
           \/ session' = NotRecording /\ chunks' = 0
    PROVE  FilesInv'
<1>1. chunks' \in 0..MaxChunks /\ session' \in 0..opened
  BY RecorderConstants DEF FilesInv, RecorderTypeOK, NotRecording
<1>2. \A g \in DOMAIN files : files[g] <= clock'
  BY DEF FilesInv, RecorderTypeOK, StampsAreTimes
<1>4. RecorderTypeOK'
  BY <1>1, <1>2 DEF FilesInv, RecorderTypeOK, RestTyped, disk
<1>5. StampsAreTimes' /\ OnlyLastIsWritten' /\ UnopenedIsExcused' /\ RecordingIsKept'
  BY DEF FilesInv, StampsAreTimes, OnlyLastIsWritten, UnopenedIsExcused, RecordingIsKept, disk
<1> QED
  BY <1>4, <1>5 DEF FilesInv

\* A session may be opened beside the files there are, and beside them as they are
\* after one more chunk.
LEMMA FilesAreOpenable ==
    ASSUME FilesInv
    PROVE  /\ Openable(files)
           /\ session # NotRecording => Openable(Stamped(files, session))
<1>1. Openable(files)
  BY DEF FilesInv, RecorderTypeOK, StampsAreTimes, OnlyLastIsWritten, Openable
<1>2. ASSUME session # NotRecording
      PROVE  Openable(Stamped(files, session))
  <2>1. session = opened /\ opened \in 1..opened /\ clock \in Nat
    BY <1>2 DEF FilesInv, RecorderTypeOK, OnlyLastIsWritten, NotRecording
  <2> QED
    BY <1>1, <2>1 DEF Openable, Stamped
<1> QED
  BY <1>1, <1>2

\* RecordingManager.start and stop keep what is said of the files, and leave the
\* recorder as it was asked unless the start failed.
LEMMA SyncKeeps ==
    ASSUME FilesInv, NEW on \in BOOLEAN, Syncs(on), clock' = clock,
           {known, flag, byDefault}' \subseteq BOOLEAN, keepFiles' \in KeepLimits,
           purges' \in 0..MaxPurges
    PROVE  FilesInv' /\ (~unsynced' => (on <=> session' # NotRecording))
<1>1. PICK failed \in BOOLEAN :
        /\ failed => on
        /\ IF on THEN StartRecording(failed) ELSE StopRecording
        /\ unsynced' = failed
  BY DEF Syncs
<1>2. sessionKeeps \in KeepLimits /\ keepFiles \in KeepLimits /\ clock \in Nat
  BY DEF FilesInv, RecorderTypeOK
<1>3. CASE on /\ UNCHANGED <<session, sessionKeeps, chunks, disk>> /\ (session # NotRecording \/ failed)
  <2>1. RestTyped
    BY <1>1, <1>2, <1>3 DEF RestTyped
  <2> QED
    BY <1>1, <1>2, <1>3, <2>1, FilesUntouched
<1>4. CASE on /\ OpenSession(files, keepFiles) /\ sessionKeeps' = keepFiles
  <2>1. RestTyped
    BY <1>1, <1>2, <1>4 DEF RestTyped
  <2> QED
    BY <1>2, <1>4, <2>1, FilesAreOpenable, FilesAfterOpening
<1>5. CASE ~on /\ StopRecording
  <2>1. RestTyped
    BY <1>1, <1>2, <1>5 DEF RestTyped, StopRecording
  <2> QED
    BY <1>2, <1>5, <2>1, FilesUntouched DEF StopRecording
<1> QED
  BY <1>1, <1>3, <1>4, <1>5 DEF StartRecording

\* A chunk that is appended, and a rotation, keep what is said of the files.
LEMMA ChunkKeepsFiles ==
    ASSUME FilesInv, WriteChunk
    PROVE  FilesInv' /\ session' # NotRecording
<1> DEFINE fs == Stamped(files, session)
<1>0. /\ session # NotRecording /\ session = opened
      /\ opened \in 1..opened /\ opened \in 0..MaxFiles /\ MaxFiles \in Nat /\ clock \in Nat
      /\ chunks \in 0..MaxChunks /\ MaxChunks \in Nat /\ MaxChunks > 0
      /\ sessionKeeps \in KeepLimits
  BY RecorderConstants
     DEF WriteChunk, FilesInv, RecorderTypeOK, OnlyLastIsWritten, NotRecording
<1>1. /\ UNCHANGED <<engineState, keepFiles, sessionKeeps, clock, unsynced, purges>>
      /\ RestTyped
  BY DEF WriteChunk, engineState, FilesInv, RecorderTypeOK, RestTyped
<1>2. /\ Openable(fs) /\ DOMAIN fs = DOMAIN files \cup {session}
      /\ session \in DOMAIN files \cup excused
  BY <1>0, FilesAreOpenable DEF Stamped, FilesInv, UnopenedIsExcused
<1>3. DOMAIN fs \ excused = DOMAIN files \ excused
  BY <1>0, <1>2
<1>4. Cardinality(DOMAIN fs \ excused) <= keptTo
  BY <1>3 DEF FilesInv, RecordingIsKept
<1>5. CASE /\ chunks + 1 < MaxChunks \/ fs # files
           /\ chunks' \in {chunks} \cup ({chunks + 1} \cap 0..(MaxChunks - 1))
           /\ files' = fs /\ UNCHANGED <<session, opened, keptTo, excused, crowded>>
  <2>1. chunks' \in 0..MaxChunks
    BY <1>0, <1>5
  <2>2. RecorderTypeOK'
    BY <1>0, <1>1, <1>2, <1>5, <2>1 DEF FilesInv, RecorderTypeOK, RestTyped, Openable
  <2>3. StampsAreTimes' /\ OnlyLastIsWritten'
    BY <1>2, <1>5 DEF FilesInv, StampsAreTimes, OnlyLastIsWritten, Openable
  <2>4. UnopenedIsExcused' /\ RecordingIsKept'
    BY <1>2, <1>4, <1>5, <2>1 DEF UnopenedIsExcused, RecordingIsKept
  <2> QED
    BY <1>0, <1>5, <2>2, <2>3, <2>4 DEF FilesInv
<1>6. CASE OpenSession(fs, sessionKeeps)
  BY <1>0, <1>1, <1>2, <1>6, FilesAfterOpening
<1>7. CASE RotationFails(fs)
  <2>1. /\ opened < MaxFiles /\ opened' = opened + 1 /\ crowded' = FALSE
        /\ session' = opened' /\ chunks' = MaxChunks /\ files' = fs
        /\ excused' = excused \cup {opened'} /\ keptTo' = keptTo /\ clock' = clock
    BY <1>1, <1>7 DEF RotationFails
  <2>2. opened' \in 0..MaxFiles /\ opened' \in 1..opened' /\ 1..opened \subseteq 1..opened'
    BY <1>0, <2>1
  <2>3. RecorderTypeOK'
    <3>1. DOMAIN files' \subseteq 1..opened' /\ excused' \subseteq 1..opened'
      BY <1>2, <2>1, <2>2 DEF FilesInv, RecorderTypeOK, Openable
    <3>2. \A g \in DOMAIN files' : files'[g] <= clock'
      BY <1>2, <2>1 DEF Openable
    <3>3. session' \in 0..opened' /\ clock' \in Nat
      BY <1>0, <2>1, <2>2
    <3>4. chunks' \in 0..MaxChunks /\ keptTo' \in KeepLimits
      BY <1>0, <2>1 DEF FilesInv, RecorderTypeOK
    <3>5. crowded' \in BOOLEAN
      BY <2>1
    <3> QED
      BY <1>1, <2>2, <3>1, <3>2, <3>3, <3>4, <3>5 DEF RecorderTypeOK, RestTyped
  <2>4. StampsAreTimes' /\ OnlyLastIsWritten'
    BY <1>0, <1>2, <2>1 DEF StampsAreTimes, OnlyLastIsWritten, Openable
  <2>5. UnopenedIsExcused'
    BY <2>1 DEF UnopenedIsExcused
  <2>6. RecordingIsKept'
    <3>1. DOMAIN files' \ excused' = DOMAIN fs \ excused
      <4>1. opened' \notin DOMAIN fs
        BY <1>0, <1>2, <2>1 DEF Openable
      <4> QED
        BY <2>1, <4>1
    <3> QED
      BY <1>0, <1>4, <2>1, <3>1 DEF RecordingIsKept
  <2>7. session' # NotRecording
    BY <2>1, <2>2 DEF NotRecording
  <2> QED
    BY <2>3, <2>4, <2>5, <2>6, <2>7 DEF FilesInv
<1> QED
  BY <1>5, <1>6, <1>7 DEF WriteChunk
-----------------------------------------------------------------------------
\* The invariant holds before the worker is known.
LEMMA RecorderInvInit == RecorderInit => RecorderInv
<1> SUFFICES ASSUME RecorderInit
             PROVE  RecorderInv
  OBVIOUS
<1>2. DOMAIN files = {} /\ Cardinality(DOMAIN files \ excused) = 0
  BY FS_EmptySet DEF RecorderInit
<1>1. RecorderTypeOK
  <2>1. session \in 0..opened /\ opened \in 0..MaxFiles /\ chunks \in 0..MaxChunks
    BY RecorderConstants DEF RecorderInit, NotRecording
  <2>2. clock \in Nat /\ purges \in 0..MaxPurges
    BY RecorderAssumption DEF RecorderInit
  <2>3. /\ {known, flag, byDefault, crowded, unsynced} \subseteq BOOLEAN
        /\ {keepFiles, sessionKeeps, keptTo} \subseteq KeepLimits
        /\ excused = {}
    BY DEF RecorderInit
  <2> QED
    BY <1>2, <2>1, <2>2, <2>3 DEF RecorderTypeOK
<1>3. keptTo \in Nat /\ keptTo >= 0
  BY RecorderConstants DEF RecorderInit
<1>4. RecordingIsKept
  BY <1>2, <1>3 DEF RecordingIsKept, RecorderInit
<1>5. StampsAreTimes /\ OnlyLastIsWritten /\ UnopenedIsExcused
  BY <1>2 DEF RecorderInit, StampsAreTimes, OnlyLastIsWritten, UnopenedIsExcused, NotRecording
<1> QED
  BY <1>1, <1>4, <1>5 DEF RecorderInit, RecorderInv, FilesInv, RecordingFollowsFlag

\* Every step keeps the invariant.
LEMMA RecorderInvNext == RecorderInv /\ [RecorderNext]_recorderVars => RecorderInv'
<1> SUFFICES ASSUME RecorderInv, [RecorderNext]_recorderVars
             PROVE  RecorderInv'
  OBVIOUS
<1>0. /\ FilesInv /\ {known, flag, byDefault, unsynced} \subseteq BOOLEAN
      /\ {keepFiles, sessionKeeps} \subseteq KeepLimits
      /\ purges \in 0..MaxPurges /\ clock \in Nat /\ MaxPurges \in Nat
  BY RecorderAssumption DEF RecorderInv, FilesInv, RecorderTypeOK
<1>1. ASSUME NEW on \in BOOLEAN, SetRecording(on)
      PROVE  RecorderInv'
  BY <1>0, <1>1, SyncKeeps DEF SetRecording, RecorderInv, RecordingFollowsFlag
<1>2. ASSUME NEW on \in BOOLEAN, NEW keep \in KeepLimits, PutSettings(keep, on)
      PROVE  RecorderInv'
  <2>1. RestTyped
    BY <1>0, <1>2 DEF PutSettings, UpdateLimits, RestTyped
  <2>2. FilesInv'
    BY <1>0, <1>2, <2>1, FilesUntouched DEF PutSettings
  <2> QED
    BY <1>2, <2>2 DEF PutSettings, RecorderInv, RecordingFollowsFlag
<1>3. CASE WriteChunk
  <2>1. FilesInv' /\ session' # NotRecording
    BY <1>0, <1>3, ChunkKeepsFiles
  <2>2. session # NotRecording /\ UNCHANGED <<known, flag, unsynced>>
    BY <1>3 DEF WriteChunk, engineState
  <2> QED
    BY <2>1, <2>2 DEF RecorderInv, RecordingFollowsFlag
<1>4. CASE Registers
  <2>1. flag' \in BOOLEAN /\ known' = TRUE /\ byDefault' = byDefault /\ Syncs(flag')
    BY <1>0, <1>4 DEF Registers
  <2>2. clock' = clock /\ keepFiles' \in KeepLimits /\ purges' \in 0..MaxPurges
    BY <1>0, <1>4 DEF Registers
  <2>3. FilesInv' /\ (~unsynced' => (flag' <=> session' # NotRecording))
    BY <1>0, <2>1, <2>2, SyncKeeps
  <2> QED
    BY <2>3 DEF RecorderInv, RecordingFollowsFlag
<1>5. CASE Created
  <2>1. RestTyped
    BY <1>0, <1>5 DEF Created, RestTyped
  <2>2. FilesInv'
    BY <1>0, <1>5, <2>1, FilesUntouched DEF Created
  <2> QED
    BY <1>5, <2>2 DEF Created, RecorderInv, RecordingFollowsFlag
<1>6. CASE Purged
  <2>1. RestTyped
    <3>1. purges' \in 0..MaxPurges
      BY <1>0, <1>6 DEF Purged
    <3>2. known' = FALSE /\ flag' = FALSE
          /\ UNCHANGED <<byDefault, unsynced, keepFiles, sessionKeeps>>
      BY <1>6 DEF Purged
    <3> QED
      BY <1>0, <3>1, <3>2 DEF RestTyped
  <2>2. FilesInv'
    BY <1>0, <1>6, <2>1, FilesUntouched DEF Purged
  <2> QED
    BY <1>6, <2>2 DEF Purged, RecorderInv, RecordingFollowsFlag
<1>7. CASE Restarts
  <2>0. UNCHANGED <<engineState, keepFiles, clock>> /\ purges' \in 0..MaxPurges
    BY <1>0, <1>7 DEF Restarts
  <2>1. CASE OpenSession(files, keepFiles) /\ sessionKeeps' = keepFiles /\ unsynced' = FALSE
                /\ known /\ flag
    <3>1. RestTyped
      BY <1>0, <2>0, <2>1 DEF RestTyped, engineState
    <3>2. FilesInv' /\ session' # NotRecording
      BY <1>0, <2>0, <2>1, <3>1, FilesAreOpenable, FilesAfterOpening
    <3> QED
      BY <2>0, <2>1, <3>2 DEF engineState, RecorderInv, RecordingFollowsFlag
  <2>2. CASE /\ session' = NotRecording /\ chunks' = 0 /\ UNCHANGED <<sessionKeeps, disk>>
             /\ unsynced' = ~(~(known /\ flag))
    <3>1. RestTyped
      BY <1>0, <2>0, <2>2 DEF RestTyped, engineState
    <3>2. FilesInv'
      BY <1>0, <2>0, <2>2, <3>1, FilesUntouched
    <3> QED
      BY <1>0, <2>0, <2>2, <3>2 DEF engineState, RecorderInv, RecordingFollowsFlag
  <2> QED
    BY <1>0, <1>7, <2>1, <2>2 DEF Restarts, StopRecording
<1>8. CASE TickPasses
  <2>1. RestTyped
    BY <1>0, <1>8 DEF TickPasses, engineState, RestTyped
  <2>2. FilesInv'
    BY <1>0, <1>8, <2>1, FilesUntouched DEF TickPasses
  <2> QED
    BY <1>8, <2>2 DEF TickPasses, engineState, RecorderInv, RecordingFollowsFlag
<1>9. CASE UNCHANGED recorderVars
  <2>1. RestTyped
    BY <1>0, <1>9 DEF recorderVars, RestTyped
  <2>2. FilesInv'
    BY <1>0, <1>9, <2>1, FilesUntouched DEF recorderVars, disk
  <2> QED
    BY <1>9, <2>2 DEF recorderVars, RecorderInv, RecordingFollowsFlag
<1> QED
  BY <1>1, <1>2, <1>3, <1>4, <1>5, <1>6, <1>7, <1>8, <1>9 DEF RecorderNext

\* The invariant holds in every state.
THEOREM RecorderInvariant == RecorderSpec => []RecorderInv
BY RecorderInvInit, RecorderInvNext, PTL DEF RecorderSpec

\* The state of the recorder has its type.
THEOREM RecorderTypeCorrect == RecorderSpec => []RecorderTypeOK
<1>1. RecorderInv => RecorderTypeOK
  BY DEF RecorderInv, FilesInv
<1> QED
  BY <1>1, RecorderInvariant, PTL

\* No collection takes the session that is written, although files of one time are
\* taken in any order - for every limit, one included - but where it was opened beside
\* a limit's worth of files of its own time; and the files stay within the limit
\* (_gc_old_files).
THEOREM SessionsSurviveCollections == RecorderSpec => []RecordingIsKept
<1>1. RecorderInv => RecordingIsKept
  BY DEF RecorderInv, FilesInv
<1> QED
  BY <1>1, RecorderInvariant, PTL

\* What is recorded is what the flag of the worker says (register_worker,
\* set_recording_enabled, _load_all).
THEOREM RecorderObeysTheFlag == RecorderSpec => []RecordingFollowsFlag
<1>1. RecorderInv => RecordingFollowsFlag
  BY DEF RecorderInv
<1> QED
  BY <1>1, RecorderInvariant, PTL
-----------------------------------------------------------------------------
\* The flows.

\* The worker's timeline is in the order of time, and all of it is past.
HeardInOrder ==
    /\ \A i \in DOMAIN heard : heard[i] < now
    /\ \A i, j \in DOMAIN heard : i < j => heard[i] < heard[j]

\* A run that has not begun has no log, and no log says more than is past.
LogsArePast ==
    \A r \in Runs : /\ runAt[r] # "running" => log[r] = << >> /\ finished[r] = NotFinished
                    /\ \A k \in DOMAIN log[r] : log[r][k] < now

\* What a log lacks of the timeline since its run began is later than all it holds.
LacksOnlyLater ==
    \A r \in Runs : \A i \in DOMAIN heard : \A k \in DOMAIN log[r] :
        started[r] <= heard[i] /\ heard[i] \notin ToSet(log[r]) => log[r][k] < heard[i]

FlowsInv ==
    /\ FlowsTypeOK /\ FlowIsAsSaved /\ HeardInOrder /\ LogsArePast /\ LacksOnlyLater
    /\ RunLogIsTimeline

\* The files and the logs start out empty.
LEMMA FlowsInvInit == FlowsInit => FlowsInv
<1> SUFFICES ASSUME FlowsInit PROVE FlowsInv
  OBVIOUS
<1>1. now = 1 /\ MaxTime \in Nat
  BY FlowsAssumption DEF FlowsInit
<1>2. FlowsTypeOK
  BY <1>1, SMT DEF FlowsInit, FlowsTypeOK, NotFinished
<1>3. HeardInOrder /\ LogsArePast /\ LacksOnlyLater /\ RunLogIsTimeline
  BY DEF FlowsInit, HeardInOrder, LogsArePast, LacksOnlyLater, RunLogIsTimeline
<1> QED
  BY <1>2, <1>3 DEF FlowsInv, FlowsInit, FlowIsAsSaved

\* What is heard is later than all before it.
LEMMA HearingKeepsOrder ==
    ASSUME FlowsTypeOK, HeardInOrder, heard' = Append(heard, now), now' \in {now + 1, now + 2},
           now < MaxTime
    PROVE  /\ heard' \in Seq(1..now') /\ now' \in 1..(MaxTime + 2) /\ HeardInOrder'
           /\ \A k \in DOMAIN heard' : (k \in DOMAIN heard /\ heard'[k] = heard[k]) \/ heard'[k] = now
<1>1. now \in Nat /\ now >= 1 /\ MaxTime \in Nat /\ now' \in Nat /\ now' > now
  BY FlowsAssumption, SMT DEF FlowsTypeOK
<1>2. heard \in Seq(1..now) /\ 1..now \subseteq 1..now' /\ now \in 1..now'
  BY <1>1, SMT DEF FlowsTypeOK
<1>3. heard \in Seq(1..now')
  BY <1>2, SMT
<1>4. heard' \in Seq(1..now') /\ now' \in 1..(MaxTime + 2)
  BY <1>1, <1>2, <1>3, SMT
<1>5. /\ DOMAIN heard' = 1..(Len(heard) + 1) /\ DOMAIN heard = 1..Len(heard) /\ Len(heard) \in Nat
      /\ \A k \in DOMAIN heard : heard'[k] = heard[k] /\ heard[k] \in Nat
      /\ heard'[Len(heard) + 1] = now
  BY <1>2, <1>1, SMT
<1>6. \A k \in DOMAIN heard' : (k \in DOMAIN heard /\ heard'[k] = heard[k])
                                  \/ (k = Len(heard) + 1 /\ heard'[k] = now)
  <2> SUFFICES ASSUME NEW k \in DOMAIN heard'
               PROVE  (k \in DOMAIN heard /\ heard'[k] = heard[k])
                        \/ (k = Len(heard) + 1 /\ heard'[k] = now)
    OBVIOUS
  <2>1. k \in 1..(Len(heard) + 1) /\ Len(heard) \in Nat
    BY <1>5
  <2>2. k \in 1..Len(heard) \/ k = Len(heard) + 1
    BY <2>1, SMT
  <2> QED
    BY <1>5, <2>2
<1>7. \A k \in DOMAIN heard' : heard'[k] < now'
  BY <1>1, <1>5, <1>6, SMT DEF HeardInOrder
<1>8. ASSUME NEW k \in DOMAIN heard', NEW l \in DOMAIN heard', k < l
      PROVE  heard'[k] < heard'[l]
  <2>1. k \in DOMAIN heard /\ heard'[k] = heard[k]
    BY <1>5, <1>8, SMT
  <2>2. CASE l \in DOMAIN heard
    BY <1>5, <1>8, <2>1, <2>2 DEF HeardInOrder
  <2>3. CASE l = Len(heard) + 1
    BY <1>5, <2>1, <2>3 DEF HeardInOrder
  <2> QED
    BY <1>6, <2>2, <2>3
<1> QED
  BY <1>4, <1>6, <1>7, <1>8 DEF HeardInOrder

\* Times to come are beyond every log.
LEMMA LogsArePastStill ==
    ASSUME FlowsInv, UNCHANGED log, now' \in Nat, now' >= now,
           \A r \in Runs : runAt'[r] # "running" => runAt[r] # "running" /\ finished'[r] = finished[r]
    PROVE  LogsArePast' /\ log' \in [Runs -> Seq(1..now')]
<1>1. /\ log \in [Runs -> Seq(1..now)] /\ now \in Nat
      /\ \A r \in Runs : \A k \in DOMAIN log[r] : log[r][k] \in Nat
  BY FlowsAssumption, SMT DEF FlowsInv, FlowsTypeOK
<1>2. 1..now \subseteq 1..now'
  BY <1>1, SMT
<1>3. \A r \in Runs : log[r] \in Seq(1..now')
  BY <1>1, <1>2, SMT
<1>4. \A r \in Runs : \A k \in DOMAIN log[r] : log[r][k] < now'
  BY <1>1, SMT DEF FlowsInv, LogsArePast
<1> QED
  BY <1>1, <1>3, <1>4 DEF FlowsInv, LogsArePast

\* Reading a run's log adds what it lacks, in order, at its end.
LEMMA ReadingKeeps ==
    ASSUME FlowsInv, NEW r \in Runs, ReadRunLog(r)
    PROVE  FlowsInv'
<1> DEFINE S == NotYetIn(r)
           old == log[r]
           new == Kept(heard, S)
           n == Len(old)
           m == Cardinality(S)
           next == old \o new
<1>1. /\ heard \in Seq(1..now) /\ old \in Seq(1..now) /\ log \in [Runs -> Seq(1..now)]
      /\ S \subseteq DOMAIN heard /\ now \in Nat
  BY FlowsAssumption, SMT DEF FlowsInv, FlowsTypeOK, NotYetIn
<1>2. /\ new \in Seq(1..now) /\ Len(new) = m
      /\ \A k \in 1..m : Nth(k, S) \in S /\ new[k] = heard[Nth(k, S)]
      /\ \A k, l \in 1..m : k < l => Nth(k, S) < Nth(l, S)
      /\ \A i \in S : \E k \in 1..m : Nth(k, S) = i
  BY <1>1, KeptIsSubsequence
<1>3. log' = [log EXCEPT ![r] = next]
  BY DEF ReadRunLog
<1>4. UNCHANGED <<flow, saved, runAt, body, heard, started, finished, now>> /\ runAt[r] = "running"
  BY DEF ReadRunLog
<1> HIDE DEF S, new, m
<1>5. /\ next \in Seq(1..now) /\ n \in Nat /\ m \in Nat /\ DOMAIN old = 1..n
      /\ DOMAIN next = 1..(n + m)
      /\ \A k \in 1..n : next[k] = old[k]
      /\ \A k \in 1..m : next[n + k] = new[k]
  BY <1>1, <1>2, SMT
<1>6. log'[r] = next /\ \A q \in Runs : q # r => log'[q] = log[q]
  BY <1>1, <1>3
<1> HIDE DEF next, n
<1>7. \A k \in DOMAIN next : k \in 1..n \/ \E l \in 1..m : k = n + l
  <2> SUFFICES ASSUME NEW k \in DOMAIN next, k \notin 1..n PROVE \E l \in 1..m : k = n + l
    OBVIOUS
  <2>1. k - n \in 1..m /\ k = n + (k - n)
    BY <1>5, SMT
  <2> QED
    BY <2>1
<1>8. \A l \in 1..m : \E i \in DOMAIN heard : /\ i = Nth(l, S) /\ new[l] = heard[i]
                                             /\ InWindow(r, heard[i])
                                             /\ heard[i] \notin ToSet(old)
  BY <1>1, <1>2 DEF S, NotYetIn
<1>9. \A k \in DOMAIN old, l \in 1..m : old[k] < new[l]
  BY <1>8 DEF FlowsInv, LacksOnlyLater, InWindow
<1>10. \A k, l \in 1..m : k < l => new[k] < new[l]
  BY <1>1, <1>2 DEF FlowsInv, HeardInOrder
<1>11. log' \in [Runs -> Seq(1..now)]
  BY <1>1, <1>3, <1>5
<1>12. FlowsTypeOK' /\ FlowIsAsSaved' /\ HeardInOrder'
  BY <1>4, <1>11 DEF FlowsInv, FlowsTypeOK, FlowIsAsSaved, HeardInOrder
<1>13. \A k \in DOMAIN next : next[k] < now /\ InWindow(r, next[k])
  <2> SUFFICES ASSUME NEW k \in DOMAIN next PROVE next[k] < now /\ InWindow(r, next[k])
    OBVIOUS
  <2>1. CASE k \in 1..n
    BY <1>5, <2>1 DEF FlowsInv, LogsArePast, RunLogIsTimeline
  <2>2. CASE \E l \in 1..m : k = n + l
    BY <1>5, <1>8, <2>2 DEF FlowsInv, HeardInOrder
  <2> QED
    BY <1>7, <2>1, <2>2
<1>14. ASSUME NEW k \in DOMAIN next, NEW l \in DOMAIN next, k < l PROVE next[k] < next[l]
  <2>1. CASE l \in 1..n
    <3>1. k \in 1..n
      BY <1>5, <1>14, <2>1, SMT
    <3> QED
      BY <1>5, <1>14, <2>1, <3>1 DEF FlowsInv, RunLogIsTimeline
  <2>2. CASE k \in 1..n /\ \E y \in 1..m : l = n + y
    BY <1>5, <1>9, <2>2
  <2>3. CASE (\E x \in 1..m : k = n + x) /\ \E y \in 1..m : l = n + y
    <3>1. PICK x \in 1..m, y \in 1..m : k = n + x /\ l = n + y
      BY <2>3
    <3>2. x < y
      BY <1>5, <1>14, <3>1, SMT
    <3> QED
      BY <1>5, <1>10, <3>1, <3>2
  <2> QED
    BY <1>7, <2>1, <2>2, <2>3
<1>15. LogsArePast'
  BY <1>4, <1>6, <1>13 DEF FlowsInv, LogsArePast
<1>16. RunLogIsTimeline'
  BY <1>4, <1>6, <1>13, <1>14 DEF FlowsInv, RunLogIsTimeline, InWindow
<1>17. LacksOnlyLater'
  <2> SUFFICES ASSUME NEW q \in Runs, NEW i \in DOMAIN heard, NEW k \in DOMAIN log'[q],
                      started[q] <= heard[i], heard[i] \notin ToSet(log'[q])
               PROVE  log'[q][k] < heard[i]
    BY <1>4 DEF LacksOnlyLater
  <2>1. CASE q # r
    BY <1>6, <2>1 DEF FlowsInv, LacksOnlyLater
  <2>2. CASE q = r
    <3>1. heard[i] \notin ToSet(next)
      BY <1>6, <2>2
    <3>2. \A x \in DOMAIN next : next[x] # heard[i]
      BY <3>1 DEF ToSet
    <3>3. \A x \in 1..n : x \in DOMAIN next
      BY <1>5, SMT
    <3>4. \A x \in 1..m : n + x \in DOMAIN next
      BY <1>5, SMT
    <3>5. heard[i] \notin ToSet(old)
      BY <1>5, <3>2, <3>3 DEF ToSet
    <3>6. i \notin S
      <4> SUFFICES ASSUME i \in S PROVE FALSE
        OBVIOUS
      <4>1. PICK x \in 1..m : Nth(x, S) = i
        BY <1>2
      <4>2. new[x] = heard[Nth(x, S)]
        BY <1>2
      <4>3. next[n + x] = new[x]
        BY <1>5
      <4>4. next[n + x] # heard[i]
        BY <3>2, <3>4
      <4> QED
        BY <4>1, <4>2, <4>3, <4>4
    <3>7. ~InWindow(r, heard[i])
      BY <3>5, <3>6 DEF S, NotYetIn
    <3>8. /\ finished[r] # NotFinished /\ ~(heard[i] <= finished[r])
          /\ InWindow(r, next[k]) /\ k \in DOMAIN next
      BY <1>6, <1>13, <2>2, <3>7 DEF InWindow
    <3>9. next[k] <= finished[r]
      BY <3>8 DEF InWindow
    <3>10. heard[i] \in Nat /\ finished[r] \in Nat /\ next[k] \in Nat
      <4>1. finished[r] \in 0..now
        BY DEF FlowsInv, FlowsTypeOK
      <4>2. heard[i] \in 1..now
        BY <1>1, SMT
      <4>3. next \in Seq(1..now) /\ k \in DOMAIN next
        BY <1>5, <3>8
      <4>4. next[k] \in 1..now
        BY <1>1, <4>3, SMT
      <4> QED
        BY <1>1, <4>1, <4>2, <4>4, SMT
    <3> QED
      BY <1>6, <2>2, <3>8, <3>9, <3>10, SMT
  <2> QED
    BY <2>1, <2>2
<1> QED
  BY <1>12, <1>15, <1>16, <1>17 DEF FlowsInv

\* A step that leaves the logs, the timeline and the time alone.
LEMMA FlowsKeepLogs ==
    ASSUME FlowsInv, UNCHANGED <<heard, started, finished, log, now>>,
           flow' = saved', saved' \in Bodies \cup {NoFlow},
           runAt' \in [Runs -> {"none", "sending", "running", "failed"}],
           body' \in [Runs -> Bodies \cup {NoFlow}],
           \A q \in Runs : runAt'[q] # "running" => runAt[q] # "running"
    PROVE  FlowsInv'
BY DEF FlowsInv, FlowsTypeOK, FlowIsAsSaved, HeardInOrder, LogsArePast, LacksOnlyLater,
       RunLogIsTimeline, InWindow, ToSet

\* A step that is heard, or takes time, with the logs as they are: a run may begin
\* at a time to come, or end.
LEMMA TimeKeepsLogs ==
    ASSUME FlowsInv, UNCHANGED <<flow, saved, log, body>>, now' \in 1..(MaxTime + 2), now' > now,
           heard' \in Seq(1..now'), HeardInOrder',
           \A i \in DOMAIN heard' : (i \in DOMAIN heard /\ heard'[i] = heard[i]) \/ heard'[i] = now,
           runAt' \in [Runs -> {"none", "sending", "running", "failed"}],
           started' \in [Runs -> 0..now'], finished' \in [Runs -> 0..now'],
           \A q \in Runs : /\ runAt'[q] # "running" => runAt[q] # "running"
                           /\ started'[q] = started[q] \/ runAt[q] # "running"
                           /\ finished'[q] = finished[q]
                                \/ (finished'[q] = now /\ runAt[q] = "running" /\ runAt'[q] = "running")
    PROVE  FlowsInv'
<1>1. /\ now \in Nat /\ now' \in Nat /\ log \in [Runs -> Seq(1..now)]
      /\ \A q \in Runs : \A k \in DOMAIN log[q] : log[q][k] \in Nat
  BY FlowsAssumption, SMT DEF FlowsInv, FlowsTypeOK
<1>2. LogsArePast' /\ log' \in [Runs -> Seq(1..now')]
  BY <1>1, LogsArePastStill
<1>3. FlowsTypeOK' /\ FlowIsAsSaved'
  BY <1>2 DEF FlowsInv, FlowsTypeOK, FlowIsAsSaved
<1>4. \A q \in Runs : runAt[q] # "running" => log[q] = << >>
  BY DEF FlowsInv, LogsArePast
<1>5. ASSUME NEW q \in Runs, NEW k \in DOMAIN log[q] PROVE InWindow(q, log[q][k])'
  <2>1. started'[q] = started[q] /\ (finished'[q] = finished[q] \/ finished'[q] = now)
    BY <1>4, <1>5
  <2>2. InWindow(q, log[q][k]) /\ log[q][k] < now /\ log[q][k] \in Nat
    BY <1>1, <1>5 DEF FlowsInv, RunLogIsTimeline, LogsArePast
  <2>3. log[q][k] <= now
    BY <1>1, <2>2, SMT
  <2> QED
    BY <2>1, <2>2, <2>3 DEF InWindow
<1>6. RunLogIsTimeline'
  BY <1>5 DEF FlowsInv, RunLogIsTimeline
<1>7. LacksOnlyLater'
  <2> SUFFICES ASSUME NEW q \in Runs, NEW i \in DOMAIN heard', NEW k \in DOMAIN log[q],
                      started'[q] <= heard'[i], heard'[i] \notin ToSet(log[q])
               PROVE  log[q][k] < heard'[i]
    BY DEF LacksOnlyLater
  <2>1. started'[q] = started[q]
    BY <1>4
  <2>2. CASE i \in DOMAIN heard /\ heard'[i] = heard[i]
    BY <2>1, <2>2 DEF FlowsInv, LacksOnlyLater
  <2>3. CASE heard'[i] = now
    BY <2>3 DEF FlowsInv, LogsArePast
  <2> QED
    BY <2>2, <2>3
<1> QED
  BY <1>2, <1>3, <1>6, <1>7 DEF FlowsInv

\* The steps that are heard or take time.
LEMMA TimedStepsKeep ==
    ASSUME FlowsInv, Hears \/ \E r \in Runs : Delivers(r) \/ FinishRun(r)
    PROVE  FlowsInv'
<1>1. /\ now \in 1..(MaxTime + 2) /\ MaxTime \in Nat /\ FlowsTypeOK /\ HeardInOrder
      /\ started \in [Runs -> 0..now] /\ finished \in [Runs -> 0..now]
      /\ runAt \in [Runs -> {"none", "sending", "running", "failed"}]
  BY FlowsAssumption DEF FlowsInv, FlowsTypeOK
<1>2. ASSUME now' \in {now + 1, now + 2}, now < MaxTime
      PROVE  /\ now' \in 1..(MaxTime + 2) /\ now' > now /\ 0..now \subseteq 0..now'
             /\ now + 1 \in 0..(now + 2) /\ now \in 0..now'
             /\ [Runs -> 0..now] \subseteq [Runs -> 0..now']
  <2>1. /\ now' \in 1..(MaxTime + 2) /\ now' > now /\ 0..now \subseteq 0..now'
        /\ now + 1 \in 0..(now + 2) /\ now \in 0..now'
    BY <1>1, <1>2, SMT
  <2> QED
    BY <2>1
<1>3. CASE Hears
  BY <1>1, <1>2, <1>3, HearingKeepsOrder, TimeKeepsLogs DEF Hears, runLogs, FlowsInv, FlowsTypeOK
<1>4. ASSUME NEW r \in Runs, Delivers(r) PROVE FlowsInv'
  <2>1. /\ runAt[r] = "sending" /\ now < MaxTime /\ heard' = Append(heard, now) /\ now' = now + 2
        /\ UNCHANGED <<saved, body, finished, log>>
    BY <1>4 DEF Delivers
  <2>2. \/ runAt' = [runAt EXCEPT ![r] = "running"] /\ started' = [started EXCEPT ![r] = now + 1]
        \/ RunsLost /\ started' = started
    BY <1>4 DEF Delivers, StartRun
  <2>3. flow' = flow
    BY <1>4 DEF Delivers, StartRun
  <2>4. \A q \in Runs : /\ runAt'[q] # "running" => runAt[q] # "running"
                        /\ started'[q] = started[q] \/ runAt[q] # "running"
    BY <1>1, <2>1, <2>2 DEF RunsLost
  <2>5. started' \in [Runs -> 0..now'] /\ finished' \in [Runs -> 0..now']
    <3>1. [Runs -> 0..now] \subseteq [Runs -> 0..now']
      BY <1>2, <2>1
    <3>2. now + 1 \in 0..now'
      BY <1>2, <2>1
    <3>3. started \in [Runs -> 0..now'] /\ finished' \in [Runs -> 0..now']
      BY <1>1, <2>1, <3>1
    <3>4. [started EXCEPT ![r] = now + 1] \in [Runs -> 0..now']
      BY <3>2, <3>3
    <3> QED
      BY <2>2, <3>3, <3>4
  <2>6. runAt' \in [Runs -> {"none", "sending", "running", "failed"}]
    <3>1. CASE runAt' = [runAt EXCEPT ![r] = "running"]
      BY <1>1, <3>1
    <3>2. CASE RunsLost
      BY <1>1, <3>2 DEF RunsLost
    <3> QED
      BY <2>2, <3>1, <3>2
  <2> QED
    BY <1>1, <1>2, <2>1, <2>3, <2>4, <2>5, <2>6, HearingKeepsOrder, TimeKeepsLogs
<1>5. ASSUME NEW r \in Runs, FinishRun(r) PROVE FlowsInv'
  <2>1. /\ runAt[r] = "running" /\ now < MaxTime /\ now' = now + 1
        /\ finished' = [finished EXCEPT ![r] = now]
        /\ UNCHANGED <<flow, saved, runAt, body, heard, started, log>>
    BY <1>5 DEF FinishRun
  <2>2. 1..now \subseteq 1..now' /\ now' \in Nat /\ now \in Nat
    BY <1>1, <2>1, SMT
  <2>3. heard' \in Seq(1..now')
    <3>1. heard \in Seq(1..now)
      BY DEF FlowsInv, FlowsTypeOK
    <3>2. heard \in Seq(1..now')
      BY <2>2, <3>1, SMT
    <3> QED
      BY <2>1, <3>2
  <2>4. HeardInOrder'
    <3>1. \A i \in DOMAIN heard : heard[i] \in Nat
      BY <1>1, SMT DEF FlowsTypeOK
    <3>2. \A i \in DOMAIN heard : heard[i] < now'
      BY <1>1, <2>1, <3>1, SMT DEF HeardInOrder
    <3> QED
      BY <2>1, <3>2 DEF FlowsInv, HeardInOrder
  <2>5. /\ finished' \in [Runs -> 0..now'] /\ started' \in [Runs -> 0..now']
        /\ \A q \in Runs : finished'[q] = finished[q] \/ (finished'[q] = now /\ q = r)
    BY <1>1, <1>2, <2>1
  <2> QED
    BY <1>1, <1>2, <2>1, <2>3, <2>4, <2>5, TimeKeepsLogs
<1> QED
  BY <1>3, <1>4, <1>5

\* Forgetting a timeline leaves the logs.
LEMMA ForgettingKeeps ==
    ASSUME FlowsInv, Forgets
    PROVE  FlowsInv'
BY SMT DEF FlowsInv, Forgets, runLogs, FlowsTypeOK, FlowIsAsSaved, HeardInOrder, LogsArePast,
       LacksOnlyLater, RunLogIsTimeline, InWindow, ToSet

\* Every step of the flows keeps the invariant.
LEMMA FlowsInvNext == FlowsInv /\ [FlowsNext]_flowVars => FlowsInv'
<1> SUFFICES ASSUME FlowsInv, [FlowsNext]_flowVars PROVE FlowsInv'
  OBVIOUS
<1>1. /\ FlowsTypeOK /\ flow = saved /\ flow \in Bodies \cup {NoFlow}
      /\ runAt \in [Runs -> {"none", "sending", "running", "failed"}]
      /\ body \in [Runs -> Bodies \cup {NoFlow}]
  BY DEF FlowsInv, FlowsTypeOK, FlowIsAsSaved
<1>2. ASSUME NEW b \in Bodies, SaveFlow(b) PROVE FlowsInv'
  BY <1>1, <1>2, FlowsKeepLogs DEF SaveFlow, runLogs
<1>3. CASE DeleteFlow
  BY <1>1, <1>3, FlowsKeepLogs DEF DeleteFlow, runLogs
<1>4. CASE HubDies
  BY <1>1, <1>4, FlowsKeepLogs DEF HubDies, RunsLost, runLogs
<1>5. ASSUME NEW r \in Runs, RunFlow(r) PROVE FlowsInv'
  BY <1>1, <1>5, FlowsKeepLogs DEF RunFlow, runLogs
<1>6. CASE UNCHANGED flowVars
  BY <1>1, <1>6, FlowsKeepLogs DEF flowVars, runLogs
<1> QED
  BY <1>2, <1>3, <1>4, <1>5, <1>6, TimedStepsKeep, ReadingKeeps, ForgettingKeeps DEF FlowsNext

\* The invariant of the flows holds throughout.
THEOREM FlowsInvariant == FlowsSpec => []FlowsInv
BY FlowsInvInit, FlowsInvNext, PTL DEF FlowsSpec

\* The state of the flows has its type.
THEOREM FlowsTypeCorrect == FlowsSpec => []FlowsTypeOK
<1>1. FlowsInv => FlowsTypeOK
  BY DEF FlowsInv
<1> QED
  BY <1>1, FlowsInvariant, PTL

\* However many runs wait while a flow is edited and deleted, its file says what was
\* saved last; and each run's log is a piece of the worker's timeline, each event
\* once and in order.
THEOREM FlowsAreKept == FlowsSpec => []FlowFilesAreTrue
<1>1. FlowsInv => FlowFilesAreTrue
  BY DEF FlowsInv, FlowFilesAreTrue
<1> QED
  BY <1>1, FlowsInvariant, PTL
-----------------------------------------------------------------------------
\* The readers.

\* What was recorded has an id that was handed out.
IdsAreBehind == \A i \in DOMAIN timeline : timeline[i].id <= lastId

\* What a call waits for comes after its ask; the place it has read up to is in the
\* timeline, or the timeline was purged since and is all news.
CursorIsAPlace ==
    \A c \in Callers : caller[c] = "waiting" =>
        /\ NoEvent < ask[c].id /\ ask[c].id <= cursor[c]
        /\ \/ \E i \in DOMAIN timeline : timeline[i].id = cursor[c]
           \/ \A i \in DOMAIN timeline : cursor[c] < timeline[i].id

\* No answer to the call of c is recorded after its ask and before hi.
NoneBefore(c, hi) ==
    \A i \in DOMAIN timeline :
        ~(Matches(timeline[i], c) /\ ask[c].id < timeline[i].id /\ timeline[i].id < hi)

AnswersAreNext ==
    \A c \in Callers : /\ caller[c] = "answered" => ask[c].id < got[c] /\ NoneBefore(c, got[c])
                       /\ caller[c] = "waiting" => NoneBefore(c, cursor[c] + 1)

ReadersInv == ReadersTypeOK /\ IdsAreBehind /\ CursorIsAPlace /\ AnswersAreNext

\* Upto is the last of the places, if there are any.
LEMMA UptoIsLast ==
    ASSUME NEW n \in Nat, NEW places \in SUBSET (1..n)
    PROVE  /\ Upto(places) \in 0..n /\ \A i \in places : i <= Upto(places)
           /\ places = {} => Upto(places) = 0
           /\ places # {} => Upto(places) \in places
<1>1. places \subseteq Nat /\ IsFiniteSet(places)
  <2>1. IsFiniteSet(1..n)
    BY FS_Interval, SMT
  <2>2. IsFiniteSet(places)
    BY <2>1, FS_Subset
  <2> QED
    BY <2>2, SMT
<1>2. CASE places = {}
  BY <1>2, SMT DEF Upto
<1>3. CASE places # {}
  <2>1. Max(places) \in places /\ \A i \in places : Max(places) >= i
    BY <1>1, <1>3, LeastAndGreatest DEF Max
  <2>2. Upto(places) = Max(places)
    BY <1>3 DEF Upto
  <2>3. Upto(places) \in places /\ \A i \in places : Upto(places) >= i /\ i \in Nat
    BY <1>1, <2>1, <2>2
  <2> HIDE DEF Upto
  <2>4. Upto(places) \in 0..n
    <3>1. Upto(places) \in 1..n
      BY <2>3
    <3> QED
      BY <3>1, SMT
  <2>5. \A i \in places : i <= Upto(places)
    BY <2>3, <2>4, SMT
  <2> QED
    BY <1>3, <2>3, <2>4, <2>5
<1> QED
  BY <1>2, <1>3

\* What the events of a timeline are made of.
LEMMA TimelineTyped ==
    ASSUME NEW t \in Seq(Event)
    PROVE  /\ Len(t) \in Nat /\ DOMAIN t = 1..Len(t)
           /\ \A i \in 1..Len(t) : t[i] \in Event /\ t[i].id \in Nat /\ t[i].id >= 1
<1>1. Len(t) \in Nat /\ DOMAIN t = 1..Len(t) /\ \A i \in 1..Len(t) : t[i] \in Event
  BY SMT
<1>2. \A e \in Event : e.id \in Nat /\ e.id >= 1
  BY ReadersAssumption, SMT DEF Event
<1> QED
  BY <1>1, <1>2

\* A page after a cursor is a piece of the timeline, from the event after the
\* cursor's, or from the oldest when there is no such event any more.
LEMMA PageFollowsCursor ==
    ASSUME NEW t \in Seq(Event), NEW since \in Nat, since # NoEvent
    PROVE  LET page == EventsSince(t, since, ReadLimit, FALSE) IN
           \E a \in 0..Len(t) :
             /\ page \in Seq(Event) /\ Len(page) \in Nat /\ a + Len(page) <= Len(t)
             /\ DOMAIN page = 1..Len(page)
             /\ \A k \in 1..Len(page) : page[k] = t[a + k]
             /\ (a = 0 /\ \A i \in DOMAIN t : t[i].id # since) \/ (a \in DOMAIN t /\ t[a].id = since)
<1> DEFINE places == {i \in DOMAIN t : t[i].id = since}
           a == Upto(places)
           n == Len(t)
           window == SubSeq(t, a + 1, n)
           m == Smaller(ReadLimit, Len(window))
           page == EventsSince(t, since, ReadLimit, FALSE)
<1>1. n \in Nat /\ DOMAIN t = 1..n /\ \A i \in 1..n : t[i] \in Event
  BY TimelineTyped
<1>2. /\ a \in 0..n
      /\ (a = 0 /\ \A i \in DOMAIN t : t[i].id # since) \/ (a \in DOMAIN t /\ t[a].id = since)
  <2>1. places \in SUBSET (1..n)
    BY <1>1
  <2>2. a \in 0..n /\ (places = {} => a = 0) /\ (places # {} => a \in places)
    BY <1>1, <2>1, UptoIsLast
  <2> QED
    BY <2>2
<1>3. AfterCursor(t, since) = a
  BY DEF AfterCursor
<1> HIDE DEF a
<1>4. Start(t, since, FALSE) = a
  BY <1>1, <1>2, <1>3, SMT DEF Start, Larger
<1>5. page = SubSeq(window, 1, m)
  BY <1>4 DEF EventsSince
<1>6. /\ window \in Seq(Event) /\ Len(window) = n - a
      /\ \A k \in 1..(n - a) : window[k] = t[a + k]
  <2>1. a \in Nat /\ a <= n
    BY <1>1, <1>2, SMT
  <2>2. \A k \in (a + 1)..n : t[k] \in Event
    BY <1>1, <2>1, SMT
  <2>3. a + 1 \in Int /\ n \in Int
    BY <1>1, <2>1, SMT
  <2>4. /\ window \in Seq(Event)
        /\ Len(window) = IF a + 1 <= n THEN n - (a + 1) + 1 ELSE 0
        /\ \A k \in 1..(n - (a + 1) + 1) : window[k] = t[a + 1 + k - 1]
    BY <2>2, <2>3, SubSeqProperties
  <2> HIDE DEF window, n
  <2>5. Len(window) = n - a /\ n - (a + 1) + 1 = n - a
    BY <1>1, <2>1, <2>4, SMT
  <2>6. \A k \in 1..(n - a) : a + 1 + k - 1 = a + k
    BY <1>1, <2>1, SMT
  <2> QED
    BY <2>4, <2>5, <2>6
<1> HIDE DEF window
<1>7. m \in Nat /\ m <= n - a
  BY <1>1, <1>2, <1>6, ReadersAssumption, SMT DEF Smaller
<1> HIDE DEF m, page
<1>8. /\ page \in Seq(Event) /\ Len(page) = m /\ DOMAIN page = 1..m
      /\ \A k \in 1..m : page[k] = window[k]
  BY <1>1, <1>2, <1>5, <1>6, <1>7, SMT
<1>9. \A k \in 1..m : page[k] = t[a + k]
  BY <1>1, <1>2, <1>6, <1>7, <1>8, SMT
<1>10. a + m <= n
  BY <1>1, <1>2, <1>7, SMT
<1> QED
  BY <1>2, <1>7, <1>8, <1>9, <1>10 DEF page

\* Nothing is recorded and nobody waits at first.
LEMMA ReadersInvInit == ReadersInit => ReadersInv
<1> SUFFICES ASSUME ReadersInit PROVE ReadersInv
  OBVIOUS
<1>1. MaxEvents \in Nat /\ timeline = << >> /\ lastId = 0
  BY ReadersAssumption DEF ReadersInit
<1>2. /\ timeline \in Seq(Event) /\ lastId \in 0..MaxEvents
      /\ \A i, j \in DOMAIN timeline : i < j => timeline[i].id < timeline[j].id
  BY <1>1, SMT
<1>3. /\ ask \in [Callers -> Event \cup {NoAsk}] /\ \A c \in Callers : ask[c].id <= lastId
      /\ cursor \in [Callers -> 0..lastId] /\ got \in [Callers -> 0..lastId]
  BY <1>1, SMT DEF ReadersInit, NoEvent, NoAsk
<1>4. ReadersTypeOK
  BY <1>2, <1>3 DEF ReadersInit, ReadersTypeOK
<1>5. IdsAreBehind /\ CursorIsAPlace /\ AnswersAreNext
  BY DEF ReadersInit, IdsAreBehind, CursorIsAPlace, AnswersAreNext
<1> QED
  BY <1>4, <1>5 DEF ReadersInv

\* Ids are numbers, and the calls know no id that was not handed out.
LEMMA IdsAreNumbers ==
    ASSUME ReadersTypeOK
    PROVE  /\ MaxEvents \in Nat /\ lastId \in Nat /\ timeline \in Seq(Event)
           /\ \A c \in Callers : /\ cursor[c] \in Nat /\ cursor[c] <= lastId
                                 /\ got[c] \in Nat /\ got[c] <= lastId
                                 /\ ask[c].id \in Nat /\ ask[c].id <= lastId
<1>1. /\ MaxEvents \in Nat /\ lastId \in 0..MaxEvents /\ timeline \in Seq(Event)
      /\ \A c \in Callers : /\ cursor[c] \in 0..lastId /\ got[c] \in 0..lastId
                            /\ ask[c] \in Event \cup {NoAsk} /\ ask[c].id <= lastId
  BY ReadersAssumption DEF ReadersTypeOK
<1>2. \A e \in Event \cup {NoAsk} : e.id \in Nat
  BY <1>1, SMT DEF Event, NoAsk, NoEvent
<1>3. lastId \in Nat /\ \A x \in 0..lastId : x \in Nat /\ x <= lastId
  BY <1>1, SMT
<1> QED
  BY <1>1, <1>2, <1>3

\* What is recorded comes at the end, with an id of its own.
LEMMA RecordedIsNewest ==
    ASSUME ReadersTypeOK, IdsAreBehind, NEW kind \in {"inbound", "outbound", "session_boundary"},
           NEW topic \in Topics \cup {NoTopic}, Records(kind, topic)
    PROVE  /\ timeline' \in Seq(Event) /\ lastId' \in 0..MaxEvents /\ IdsAreBehind'
           /\ lastId \in Nat /\ lastId' = lastId + 1 /\ 0..lastId \subseteq 0..lastId'
           /\ \A i, j \in DOMAIN timeline' : i < j => timeline'[i].id < timeline'[j].id
           /\ \A i \in DOMAIN timeline : i \in DOMAIN timeline' /\ timeline'[i] = timeline[i]
           /\ \A i \in DOMAIN timeline' : (i \in DOMAIN timeline /\ timeline'[i] = timeline[i])
                                             \/ timeline'[i].id = lastId + 1
           /\ Last(timeline') = [id |-> lastId + 1, kind |-> kind, topic |-> topic]
           /\ Last(timeline') \in Event
           /\ \E i \in DOMAIN timeline' : timeline'[i] = Last(timeline')
<1> DEFINE e == [id |-> lastId + 1, kind |-> kind, topic |-> topic]
           n == Len(timeline)
<1>1. lastId \in Nat /\ lastId < MaxEvents /\ lastId' = lastId + 1 /\ timeline' = Append(timeline, e)
      /\ MaxEvents \in Nat /\ timeline \in Seq(Event)
  BY IdsAreNumbers DEF Records
<1>2. lastId + 1 \in 1..MaxEvents /\ lastId' \in 0..MaxEvents /\ 0..lastId \subseteq 0..lastId'
  BY <1>1, SMT
<1>3. e \in Event
  BY <1>2 DEF Event
<1>4. e.id = lastId + 1
  OBVIOUS
<1> HIDE DEF e
<1>5. /\ timeline' \in Seq(Event) /\ n \in Nat /\ DOMAIN timeline = 1..n /\ DOMAIN timeline' = 1..(n + 1)
      /\ Len(timeline') = n + 1
      /\ timeline'[n + 1] = e /\ \A i \in 1..n : timeline'[i] = timeline[i]
  BY <1>1, <1>3, SMT
<1> HIDE DEF n
<1>6. \A i \in 1..(n + 1) : i \in 1..n \/ i = n + 1
  BY <1>5, SMT
<1>7. \A i \in 1..n : i \in 1..(n + 1)
  BY <1>5, SMT
<1>8. n + 1 \in 1..(n + 1)
  BY <1>5, SMT
<1>9. \A i \in 1..n : timeline[i].id <= lastId /\ timeline[i].id \in Nat
  BY <1>1, <1>5, TimelineTyped DEF IdsAreBehind
<1>10. \A i \in 1..n : timeline[i].id < lastId + 1 /\ timeline[i].id <= lastId + 1
  BY <1>1, <1>9, SMT
<1>11. ASSUME NEW i \in 1..(n + 1), NEW j \in 1..(n + 1), i < j
       PROVE  timeline'[i].id < timeline'[j].id
  <2>1. i \in 1..n
    BY <1>5, <1>11, SMT
  <2>2. CASE j \in 1..n
    BY <1>5, <1>11, <2>1, <2>2 DEF ReadersTypeOK
  <2>3. CASE j = n + 1
    BY <1>4, <1>5, <1>10, <2>1, <2>3
  <2> QED
    BY <1>6, <2>2, <2>3
<1>12. Last(timeline') = e
  BY <1>5 DEF Last
<1>13. IdsAreBehind'
  <2> SUFFICES ASSUME NEW i \in 1..(n + 1) PROVE timeline'[i].id <= lastId + 1
    BY <1>1, <1>5 DEF IdsAreBehind
  <2>1. CASE i \in 1..n
    BY <1>5, <1>10, <2>1
  <2>2. CASE i = n + 1
    BY <1>1, <1>4, <1>5, <2>2, SMT
  <2> QED
    BY <1>6, <2>1, <2>2
<1> QED
  BY <1>1, <1>2, <1>3, <1>4, <1>5, <1>6, <1>7, <1>8, <1>11, <1>12, <1>13 DEF e

\* An event more changes nothing for the calls that go on as they are: it is later
\* than all they have read.
LEMMA NewsKeepCalls ==
    ASSUME ReadersInv, NEW c \in Callers, ask'[c] = ask[c], cursor'[c] = cursor[c], got'[c] = got[c],
           caller'[c] = caller[c],
           \A i \in DOMAIN timeline : i \in DOMAIN timeline' /\ timeline'[i] = timeline[i],
           \A i \in DOMAIN timeline' : (i \in DOMAIN timeline /\ timeline'[i] = timeline[i])
                                          \/ timeline'[i].id = lastId + 1
    PROVE  /\ caller'[c] = "waiting" =>
                /\ NoEvent < ask'[c].id /\ ask'[c].id <= cursor'[c]
                /\ \/ \E i \in DOMAIN timeline' : timeline'[i].id = cursor'[c]
                   \/ \A i \in DOMAIN timeline' : cursor'[c] < timeline'[i].id
                /\ NoneBefore(c, cursor[c] + 1)'
           /\ caller'[c] = "answered" => ask'[c].id < got'[c] /\ NoneBefore(c, got[c])'
<1>1. lastId \in Nat /\ cursor[c] \in Nat /\ cursor[c] <= lastId /\ got[c] \in Nat /\ got[c] <= lastId
  BY IdsAreNumbers DEF ReadersInv
<1>2. cursor[c] < lastId + 1 /\ ~(lastId + 1 < cursor[c] + 1) /\ ~(lastId + 1 < got[c])
  BY <1>1, SMT
<1>3. CASE caller[c] = "waiting"
  <2>1. /\ NoEvent < ask[c].id /\ ask[c].id <= cursor[c] /\ NoneBefore(c, cursor[c] + 1)
        /\ \/ \E i \in DOMAIN timeline : timeline[i].id = cursor[c]
           \/ \A i \in DOMAIN timeline : cursor[c] < timeline[i].id
    BY <1>3 DEF ReadersInv, CursorIsAPlace, AnswersAreNext
  <2>2. \/ \E i \in DOMAIN timeline' : timeline'[i].id = cursor[c]
        \/ \A i \in DOMAIN timeline' : cursor[c] < timeline'[i].id
    BY <1>2, <2>1
  <2>3. NoneBefore(c, cursor[c] + 1)'
    BY <1>2, <2>1 DEF NoneBefore, Matches
  <2> QED
    BY <1>3, <2>1, <2>2, <2>3
<1>4. CASE caller[c] = "answered"
  BY <1>2, <1>4 DEF ReadersInv, AnswersAreNext, NoneBefore, Matches
<1> QED
  BY <1>3, <1>4

\* A step that neither records nor reads.
LEMMA NothingReadKeeps ==
    ASSUME ReadersInv, UNCHANGED <<timeline, lastId, caller, ask, cursor, got>>,
           atManager' \subseteq {e \in Event : e.topic \in Topics}, onItsWay' \subseteq Topics
    PROVE  ReadersInv'
<1>1. ReadersTypeOK' /\ IdsAreBehind'
  BY DEF ReadersInv, ReadersTypeOK, IdsAreBehind
<1>2. CursorIsAPlace' /\ AnswersAreNext'
  BY DEF ReadersInv, CursorIsAPlace, AnswersAreNext, NoneBefore, Matches
<1> QED
  BY <1>1, <1>2 DEF ReadersInv

\* Recording keeps the invariant: a call may be the one that asks, and then waits
\* for what follows its ask.
LEMMA RecordingKeepsReaders ==
    ASSUME ReadersInv, OtherEvent \/ (\E c \in Callers, topic \in Topics : Asks(c, topic))
                         \/ (\E e \in atManager : Answers(e))
                         \/ (\E topic \in Topics : AnswerArrivesLate(topic))
    PROVE  ReadersInv'
<1>1. ReadersTypeOK /\ IdsAreBehind
  BY DEF ReadersInv
<1>2. ASSUME NEW kind \in {"inbound", "outbound", "session_boundary"},
             NEW topic \in Topics \cup {NoTopic}, Records(kind, topic), UNCHANGED calls,
             atManager' \subseteq {e \in Event : e.topic \in Topics}, onItsWay' \subseteq Topics
      PROVE  ReadersInv'
  <2>1. /\ timeline' \in Seq(Event) /\ lastId' \in 0..MaxEvents /\ IdsAreBehind'
        /\ lastId \in Nat /\ lastId' = lastId + 1 /\ 0..lastId \subseteq 0..lastId'
        /\ \A i, j \in DOMAIN timeline' : i < j => timeline'[i].id < timeline'[j].id
        /\ \A i \in DOMAIN timeline : i \in DOMAIN timeline' /\ timeline'[i] = timeline[i]
        /\ \A i \in DOMAIN timeline' : (i \in DOMAIN timeline /\ timeline'[i] = timeline[i])
                                          \/ timeline'[i].id = lastId + 1
    BY <1>1, <1>2, RecordedIsNewest
  <2>2. UNCHANGED <<caller, ask, cursor, got>>
    BY <1>2 DEF calls
  <2>3. \A c \in Callers : ask[c].id <= lastId'
    BY <1>1, <2>1, IdsAreNumbers, SMT
  <2>4. ReadersTypeOK'
    BY <1>1, <1>2, <2>1, <2>2, <2>3 DEF ReadersTypeOK
  <2>5. CursorIsAPlace' /\ AnswersAreNext'
    BY <2>1, <2>2, NewsKeepCalls DEF CursorIsAPlace, AnswersAreNext
  <2> QED
    BY <2>1, <2>4, <2>5 DEF ReadersInv
<1>3. atManager \subseteq {e \in Event : e.topic \in Topics} /\ onItsWay \subseteq Topics
  BY <1>1 DEF ReadersTypeOK
<1>4. CASE OtherEvent
  BY <1>2, <1>3, <1>4 DEF OtherEvent
<1>5. ASSUME NEW e \in atManager, Answers(e) PROVE ReadersInv'
  <2>1. /\ e.topic \in Topics /\ atManager' \subseteq {x \in Event : x.topic \in Topics}
        /\ UNCHANGED calls
    BY <1>3, <1>5 DEF Answers
  <2>2. CASE Records("outbound", e.topic) /\ UNCHANGED onItsWay
    BY <1>2, <1>3, <2>1, <2>2
  <2>3. CASE UNCHANGED <<timeline, lastId>> /\ onItsWay' \in {onItsWay, onItsWay \cup {e.topic}}
    BY <1>3, <2>1, <2>3, NothingReadKeeps DEF calls
  <2> QED
    BY <1>5, <2>2, <2>3 DEF Answers
<1>6. ASSUME NEW topic \in Topics, AnswerArrivesLate(topic) PROVE ReadersInv'
  BY <1>2, <1>3, <1>6 DEF AnswerArrivesLate
<1>7. ASSUME NEW c \in Callers, NEW topic \in Topics, Asks(c, topic) PROVE ReadersInv'
  <2> DEFINE e == Last(timeline')
  <2>1. /\ timeline' \in Seq(Event) /\ lastId' \in 0..MaxEvents /\ IdsAreBehind'
        /\ lastId \in Nat /\ lastId' = lastId + 1 /\ 0..lastId \subseteq 0..lastId'
        /\ \A i, j \in DOMAIN timeline' : i < j => timeline'[i].id < timeline'[j].id
        /\ \A i \in DOMAIN timeline : i \in DOMAIN timeline' /\ timeline'[i] = timeline[i]
        /\ \A i \in DOMAIN timeline' : (i \in DOMAIN timeline /\ timeline'[i] = timeline[i])
                                          \/ timeline'[i].id = lastId + 1
        /\ e.id = lastId + 1 /\ e.topic = topic /\ e \in Event /\ \E i \in DOMAIN timeline' : timeline'[i] = e
    <3>1. Records("inbound", topic)
      BY <1>7 DEF Asks
    <3> QED
      BY <1>1, <3>1, RecordedIsNewest
  <2>2. /\ caller[c] = "none" /\ atManager' \in {atManager, atManager \cup {e}}
        /\ ask' = [ask EXCEPT ![c] = e] /\ cursor' = [cursor EXCEPT ![c] = e.id]
        /\ caller' = [caller EXCEPT ![c] = "waiting"] /\ UNCHANGED <<onItsWay, got>>
    BY <1>7 DEF Asks
  <2> HIDE DEF e
  <2>3. /\ caller \in [Callers -> {"none", "waiting", "answered", "gave up"}]
        /\ ask \in [Callers -> Event \cup {NoAsk}] /\ cursor \in [Callers -> 0..lastId]
        /\ got \in [Callers -> 0..lastId]
    BY <1>1 DEF ReadersTypeOK
  <2>4. lastId + 1 \in 0..lastId' /\ lastId + 1 <= lastId' /\ 0 < lastId + 1
        /\ \A x \in Nat : x <= lastId => x <= lastId'
    BY <2>1, SMT
  <2>5. /\ ask' \in [Callers -> Event \cup {NoAsk}] /\ cursor' \in [Callers -> 0..lastId']
        /\ got' \in [Callers -> 0..lastId']
        /\ atManager' \subseteq {x \in Event : x.topic \in Topics}
        /\ caller' \in [Callers -> {"none", "waiting", "answered", "gave up"}]
    BY <1>3, <2>1, <2>2, <2>3, <2>4
  <2>6. \A x \in Callers : ask'[x].id <= lastId'
    BY <1>1, <2>1, <2>2, <2>3, <2>4, IdsAreNumbers
  <2>7. ReadersTypeOK'
    BY <1>3, <2>1, <2>2, <2>5, <2>6 DEF ReadersTypeOK
  <2>8. ASSUME NEW x \in Callers, x # c
        PROVE  /\ ask'[x] = ask[x] /\ cursor'[x] = cursor[x] /\ got'[x] = got[x]
               /\ caller'[x] = caller[x]
    BY <2>2, <2>3, <2>8
  <2>9. /\ caller'[c] = "waiting" /\ ask'[c].id = lastId + 1 /\ cursor'[c] = lastId + 1
        /\ \E i \in DOMAIN timeline' : timeline'[i].id = cursor'[c]
    BY <2>1, <2>2, <2>3
  <2>10. NoneBefore(c, cursor[c] + 1)'
    <3>1. \A n \in Nat : lastId + 1 < n => ~(n < lastId + 1 + 1)
      BY <2>1, SMT
    <3>2. \A i \in DOMAIN timeline' : timeline'[i].id \in Nat
      BY <2>1, TimelineTyped
    <3> QED
      BY <2>9, <3>1, <3>2 DEF NoneBefore
  <2>11. NoEvent < ask'[c].id /\ ask'[c].id <= cursor'[c]
    BY <2>1, <2>9, SMT DEF NoEvent
  <2>12. CursorIsAPlace' /\ AnswersAreNext'
    BY <2>1, <2>8, <2>9, <2>10, <2>11, NewsKeepCalls DEF CursorIsAPlace, AnswersAreNext
  <2> QED
    BY <2>1, <2>7, <2>12 DEF ReadersInv
<1> QED
  BY <1>4, <1>5, <1>6, <1>7

\* A call that no longer waits, or whose answer is the first match of a page; when
\* there is none, all of the page is behind it.
LEMMA PollKeeps ==
    ASSUME ReadersInv, NEW c \in Callers, Poll(c)
    PROVE  ReadersInv'
<1> DEFINE page == EventsSince(timeline, cursor[c], ReadLimit, FALSE)
           hits == {i \in DOMAIN page : Matches(page[i], c)}
           n == Len(timeline)
<1>1. /\ ReadersTypeOK /\ timeline \in Seq(Event) /\ lastId \in Nat
      /\ cursor \in [Callers -> 0..lastId] /\ got \in [Callers -> 0..lastId]
      /\ caller \in [Callers -> {"none", "waiting", "answered", "gave up"}]
      /\ cursor[c] \in Nat /\ ask[c].id \in Nat
  BY IdsAreNumbers DEF ReadersInv, ReadersTypeOK
<1>2. /\ caller[c] = "waiting" /\ page # << >>
      /\ hits = {} => cursor' = [cursor EXCEPT ![c] = Last(page).id] /\ UNCHANGED <<caller, got>>
      /\ hits # {} => /\ \E i \in hits : /\ \A j \in hits : i <= j
                                         /\ got' = [got EXCEPT ![c] = page[i].id]
                      /\ caller' = [caller EXCEPT ![c] = "answered"] /\ UNCHANGED cursor
      /\ UNCHANGED <<timeline, lastId, atManager, onItsWay, ask>>
  BY DEF Poll
<1>3. /\ NoEvent < ask[c].id /\ ask[c].id <= cursor[c] /\ NoneBefore(c, cursor[c] + 1)
      /\ \/ \E i \in DOMAIN timeline : timeline[i].id = cursor[c]
         \/ \A i \in DOMAIN timeline : cursor[c] < timeline[i].id
  BY <1>2 DEF ReadersInv, CursorIsAPlace, AnswersAreNext
<1>4. cursor[c] # NoEvent
  <2>1. cursor[c] \in Nat /\ ask[c].id \in Nat /\ 0 < ask[c].id /\ ask[c].id <= cursor[c]
    BY <1>1, <1>3 DEF NoEvent
  <2> QED
    BY <2>1, SMT DEF NoEvent
<1>5. PICK a \in 0..n :
        /\ page \in Seq(Event) /\ Len(page) \in Nat /\ a + Len(page) <= n
        /\ DOMAIN page = 1..Len(page)
        /\ \A k \in 1..Len(page) : page[k] = timeline[a + k]
        /\ (a = 0 /\ \A i \in DOMAIN timeline : timeline[i].id # cursor[c])
             \/ (a \in DOMAIN timeline /\ timeline[a].id = cursor[c])
  BY <1>1, <1>4, PageFollowsCursor
<1> DEFINE m == Len(page)
<1>6. /\ n \in Nat /\ DOMAIN timeline = 1..n
      /\ \A i \in 1..n : timeline[i].id \in Nat /\ timeline[i].id <= lastId
      /\ \A i, j \in 1..n : i < j => timeline[i].id < timeline[j].id
  BY <1>1, TimelineTyped DEF ReadersInv, ReadersTypeOK, IdsAreBehind
<1>7. m # 0
  <2>1. page \in Seq(Event) /\ page # << >>
    BY <1>2, <1>5
  <2> HIDE DEF page
  <2> QED
    BY <2>1, SMT
<1> HIDE DEF page, hits, n
<1>8. a \in Nat /\ m \in Nat /\ a + m \in 1..n /\ \A k \in 1..m : a + k \in 1..n /\ a < a + k
  <2> HIDE DEF m
  <2> QED
    BY <1>5, <1>6, <1>7, SMT DEF m
\* The event of the page are beyond the cursor, and those up to a's are not.
<1>9. \A k \in 1..m : cursor[c] < timeline[a + k].id
  <2>1. CASE a = 0 /\ \A i \in 1..n : timeline[i].id # cursor[c]
    BY <1>3, <1>6, <1>8, <2>1
  <2>2. CASE a \in 1..n /\ timeline[a].id = cursor[c]
    BY <1>6, <1>8, <2>2
  <2> QED
    BY <1>5, <1>6, <2>1, <2>2
<1>10. \A i \in 1..n : i <= a => timeline[i].id <= cursor[c]
  <2> SUFFICES ASSUME NEW i \in 1..n, i <= a PROVE timeline[i].id <= cursor[c]
    OBVIOUS
  <2>1. a \in 1..n
    BY <1>5, <1>6, SMT
  <2>2. timeline[a].id = cursor[c]
    BY <1>5, <1>6, <2>1, SMT
  <2>3. i < a \/ i = a
    BY <1>6, <1>8, SMT
  <2>4. timeline[i].id < timeline[a].id \/ timeline[i].id = timeline[a].id
    BY <1>6, <2>1, <2>3
  <2>5. timeline[i].id \in Nat /\ timeline[a].id \in Nat
    BY <1>6, <2>1
  <2>6. timeline[i].id <= timeline[a].id
    BY <2>4, <2>5, SMT
  <2> QED
    BY <2>2, <2>6
\* No match on the page before k: none in the timeline before the id of its k-th event.
<1>11. ASSUME NEW k \in 1..m, \A j \in 1..m : j < k => ~Matches(page[j], c)
       PROVE  NoneBefore(c, page[k].id)
  <2> SUFFICES ASSUME NEW i \in 1..n, Matches(timeline[i], c), ask[c].id < timeline[i].id,
                      timeline[i].id < timeline[a + k].id
               PROVE  FALSE
    BY <1>5, <1>6 DEF NoneBefore
  <2>1. CASE i <= a
    <3>1. timeline[i].id < cursor[c] + 1
      <4>1. timeline[i].id \in Nat /\ cursor[c] \in Nat /\ timeline[i].id <= cursor[c]
        BY <1>1, <1>6, <1>10, <2>1
      <4> QED
        BY <4>1, SMT
    <3> QED
      BY <1>3, <1>6, <3>1 DEF NoneBefore
  <2>2. CASE a < i /\ i < a + k
    <3>1. i - a \in 1..m /\ i - a < k /\ a + (i - a) = i
      BY <1>6, <1>8, <2>2, SMT
    <3> QED
      BY <1>5, <1>11, <3>1
  <2>3. CASE i >= a + k
    <3>1. i = a + k \/ a + k < i
      BY <1>6, <1>8, <2>3, SMT
    <3>2. timeline[i].id = timeline[a + k].id \/ timeline[a + k].id < timeline[i].id
      BY <1>6, <1>8, <3>1
    <3> QED
      BY <1>6, <1>8, <3>2, SMT
  <2>4. i <= a \/ (a < i /\ i < a + k) \/ i >= a + k
    BY <1>6, <1>8, SMT
  <2> QED
    BY <2>1, <2>2, <2>3, <2>4
<1>12. \A x \in Callers : x # c => /\ caller'[x] = caller[x] /\ cursor'[x] = cursor[x]
                                   /\ got'[x] = got[x]
  BY <1>1, <1>2
<1>13. \A x \in Callers : ask'[x] = ask[x]
  BY <1>2
<1>14. CASE hits = {}
  <2>1. \A j \in 1..m : ~Matches(page[j], c)
    BY <1>5, <1>14 DEF hits
  <2>2. m \in 1..m /\ Last(page) = page[m] /\ page[m] = timeline[a + m]
    BY <1>5, <1>7, <1>8, SMT DEF Last
  <2>3. /\ cursor'[c] = timeline[a + m].id /\ cursor' \in [Callers -> 0..lastId]
        /\ UNCHANGED <<caller, got>> /\ cursor[c] < cursor'[c]
    <3>1. timeline[a + m].id \in 0..lastId
      <4>1. timeline[a + m].id \in Nat /\ timeline[a + m].id <= lastId /\ lastId \in Nat
        BY <1>1, <1>6, <1>8
      <4> QED
        BY <4>1, SMT
    <3> QED
      BY <1>1, <1>2, <1>9, <1>14, <2>2, <3>1
  <2>4. NoneBefore(c, timeline[a + m].id)
    BY <1>11, <2>1, <2>2
  <2>5. NoneBefore(c, timeline[a + m].id + 1)
    <3>1. ~Matches(timeline[a + m], c)
      BY <2>1, <2>2
    <3>2. ASSUME NEW i \in 1..n, timeline[i].id < timeline[a + m].id + 1
          PROVE  timeline[i].id < timeline[a + m].id \/ i = a + m
      <4>1. (i < a + m => timeline[i].id < timeline[a + m].id)
              /\ (a + m < i => timeline[a + m].id < timeline[i].id)
        BY <1>6, <1>8
      <4>2. i < a + m \/ i = a + m \/ a + m < i
        BY <1>6, <1>8, SMT
      <4> QED
        BY <1>6, <1>8, <3>2, <4>1, <4>2, SMT
    <3> QED
      BY <1>6, <2>4, <3>1, <3>2 DEF NoneBefore
  <2>6. NoneBefore(c, cursor[c] + 1)'
    BY <1>2, <2>3, <2>5 DEF NoneBefore, Matches
  <2>7. ask'[c].id <= cursor'[c] /\ NoEvent < ask'[c].id
    <3>1. cursor'[c] \in Nat
      BY <1>6, <1>8, <2>3
    <3>2. /\ ask'[c].id \in Nat /\ cursor[c] \in Nat /\ ask'[c].id <= cursor[c]
          /\ cursor[c] < cursor'[c] /\ NoEvent < ask'[c].id
      BY <1>1, <1>3, <1>13, <2>3
    <3> QED
      BY <3>1, <3>2, SMT
  <2>8. \E i \in DOMAIN timeline' : timeline'[i].id = cursor'[c]
    BY <1>2, <1>6, <1>8, <2>3
  <2>9. ReadersTypeOK' /\ IdsAreBehind'
    BY <1>1, <1>2, <2>3 DEF ReadersInv, ReadersTypeOK, IdsAreBehind
  <2>10. CursorIsAPlace'
    BY <1>2, <1>12, <1>13, <2>3, <2>7, <2>8 DEF ReadersInv, CursorIsAPlace
  <2>11. AnswersAreNext'
    BY <1>2, <1>12, <1>13, <2>3, <2>6 DEF ReadersInv, AnswersAreNext, NoneBefore, Matches
  <2> QED
    BY <2>9, <2>10, <2>11 DEF ReadersInv
<1>15. CASE hits # {}
  <2>1. PICK k \in hits : (\A j \in hits : k <= j) /\ got' = [got EXCEPT ![c] = page[k].id]
    BY <1>2, <1>15
  <2>2. k \in 1..m /\ page[k] = timeline[a + k]
    BY <1>5 DEF hits
  <2>3. \A j \in 1..m : j < k => ~Matches(page[j], c)
    <3>1. \A j \in 1..m : Matches(page[j], c) => j \in hits
      BY <1>5 DEF hits
    <3>2. \A j \in 1..m : k <= j => ~(j < k)
      BY <1>8, <2>2, SMT
    <3> QED
      BY <2>1, <3>1, <3>2
  <2>4. NoneBefore(c, timeline[a + k].id)
    BY <1>11, <2>2, <2>3
  <2>5. /\ got'[c] = timeline[a + k].id /\ got' \in [Callers -> 0..lastId]
        /\ ask[c].id < got'[c]
    <3>1. /\ timeline[a + k].id \in Nat /\ timeline[a + k].id <= lastId /\ lastId \in Nat
          /\ ask[c].id \in Nat /\ cursor[c] \in Nat /\ ask[c].id <= cursor[c]
          /\ cursor[c] < timeline[a + k].id
      BY <1>1, <1>3, <1>6, <1>8, <1>9, <2>2
    <3>2. timeline[a + k].id \in 0..lastId /\ ask[c].id < timeline[a + k].id
      BY <3>1, SMT
    <3> QED
      BY <1>1, <2>1, <2>2, <3>2
  <2>6. /\ caller' = [caller EXCEPT ![c] = "answered"] /\ UNCHANGED cursor
        /\ caller'[c] = "answered"
    BY <1>1, <1>2, <1>15
  <2>7. ReadersTypeOK' /\ IdsAreBehind'
    BY <1>1, <1>2, <2>5, <2>6 DEF ReadersInv, ReadersTypeOK, IdsAreBehind
  <2>8. CursorIsAPlace'
    BY <1>2, <1>12, <1>13, <2>6 DEF ReadersInv, CursorIsAPlace
  <2>9. NoneBefore(c, got[c])'
    BY <1>2, <2>4, <2>5 DEF NoneBefore, Matches
  <2>10. AnswersAreNext'
    BY <1>2, <1>12, <1>13, <2>5, <2>6, <2>9 DEF ReadersInv, AnswersAreNext, NoneBefore, Matches
  <2> QED
    BY <2>7, <2>8, <2>10 DEF ReadersInv
<1> QED
  BY <1>14, <1>15

\* A call that gives up, a purge and a restart of the hub leave the others as they are.
LEMMA EndingKeepsReaders ==
    ASSUME ReadersInv, TimelinePurged \/ WaitsEnd \/ \E c \in Callers : GivesUp(c)
    PROVE  ReadersInv'
<1>1. /\ ReadersTypeOK /\ lastId \in Nat /\ NoAsk.id = 0 /\ NoEvent = 0 /\ 0 \in 0..lastId /\ 0 <= lastId
      /\ ask \in [Callers -> Event \cup {NoAsk}] /\ \A c \in Callers : ask[c].id <= lastId
      /\ cursor \in [Callers -> 0..lastId]
      /\ caller \in [Callers -> {"none", "waiting", "answered", "gave up"}]
  <2>1. ReadersTypeOK /\ lastId \in Nat
    BY IdsAreNumbers DEF ReadersInv
  <2>2. 0 \in 0..lastId /\ 0 <= lastId
    BY <2>1, SMT
  <2> QED
    BY <2>1, <2>2 DEF ReadersTypeOK, NoAsk, NoEvent
<1>2. CASE TimelinePurged
  <2>1. /\ timeline' = << >> /\ DOMAIN timeline' = {} /\ timeline' \in Seq(Event)
        /\ UNCHANGED <<lastId, atManager, onItsWay, caller, ask, cursor, got>>
    BY <1>2 DEF TimelinePurged, calls
  <2>2. ReadersTypeOK' /\ IdsAreBehind'
    BY <1>1, <2>1 DEF ReadersTypeOK, IdsAreBehind
  <2>3. CursorIsAPlace' /\ AnswersAreNext'
    BY <2>1 DEF ReadersInv, CursorIsAPlace, AnswersAreNext, NoneBefore
  <2> QED
    BY <2>2, <2>3 DEF ReadersInv
<1>3. ASSUME NEW D \in SUBSET Callers, \A c \in D : caller[c] = "waiting",
             UNCHANGED <<timeline, lastId, atManager, onItsWay, got>>,
             caller' = [c \in Callers |-> IF c \in D THEN "gave up" ELSE caller[c]],
             ask' = [c \in Callers |-> IF c \in D THEN NoAsk ELSE ask[c]],
             cursor' = [c \in Callers |-> IF c \in D THEN NoEvent ELSE cursor[c]]
      PROVE  ReadersInv'
  <2>1. \A c \in D : caller'[c] = "gave up"
    BY <1>3
  <2>2. \A c \in Callers \ D : caller'[c] = caller[c] /\ ask'[c] = ask[c] /\ cursor'[c] = cursor[c]
    BY <1>3
  <2>3. /\ caller' \in [Callers -> {"none", "waiting", "answered", "gave up"}]
        /\ ask' \in [Callers -> Event \cup {NoAsk}] /\ cursor' \in [Callers -> 0..lastId]
        /\ \A c \in Callers : ask'[c].id <= lastId
    BY <1>1, <1>3
  <2>4. ReadersTypeOK' /\ IdsAreBehind'
    BY <1>1, <1>3, <2>3 DEF ReadersInv, ReadersTypeOK, IdsAreBehind
  <2>5. CursorIsAPlace' /\ AnswersAreNext'
    BY <1>3, <2>1, <2>2 DEF ReadersInv, CursorIsAPlace, AnswersAreNext, NoneBefore, Matches
  <2> QED
    BY <2>4, <2>5 DEF ReadersInv
<1>4. CASE WaitsEnd
  <2> DEFINE D == {c \in Callers : caller[c] = "waiting"}
  <2>1. D \in SUBSET Callers /\ \A c \in D : caller[c] = "waiting"
    OBVIOUS
  <2> QED
    BY <1>3, <1>4, <2>1 DEF WaitsEnd
<1>5. ASSUME NEW c \in Callers, GivesUp(c) PROVE ReadersInv'
  <2>1. /\ caller' = [x \in Callers |-> IF x \in {c} THEN "gave up" ELSE caller[x]]
        /\ ask' = [x \in Callers |-> IF x \in {c} THEN NoAsk ELSE ask[x]]
        /\ cursor' = [x \in Callers |-> IF x \in {c} THEN NoEvent ELSE cursor[x]]
    BY <1>1, <1>5 DEF GivesUp
  <2>2. /\ {c} \in SUBSET Callers /\ \A x \in {c} : caller[x] = "waiting"
        /\ UNCHANGED <<timeline, lastId, atManager, onItsWay, got>>
    BY <1>5 DEF GivesUp
  <2> QED
    BY <1>3, <2>1, <2>2
<1> QED
  BY <1>2, <1>4, <1>5

\* Every step of the readers keeps the invariant.
LEMMA ReadersInvNext == ReadersInv /\ [ReadersNext]_readerVars => ReadersInv'
<1> SUFFICES ASSUME ReadersInv, [ReadersNext]_readerVars PROVE ReadersInv'
  OBVIOUS
<1>1. CASE UNCHANGED readerVars
  BY <1>1, NothingReadKeeps DEF readerVars, ReadersInv, ReadersTypeOK
<1> QED
  BY <1>1, RecordingKeepsReaders, PollKeeps, EndingKeepsReaders DEF ReadersNext

\* The invariant of the readers holds throughout.
THEOREM ReadersInvariant == ReadersSpec => []ReadersInv
BY ReadersInvInit, ReadersInvNext, PTL DEF ReadersSpec

\* The state of the readers has its type.
THEOREM ReadersTypeCorrect == ReadersSpec => []ReadersTypeOK
<1>1. ReadersInv => ReadersTypeOK
  BY DEF ReadersInv
<1> QED
  BY <1>1, ReadersInvariant, PTL

\* A call that asks a manager over its timeline gets the first answer of its kind
\* recorded after its ask, and has passed over none while it waits.
THEOREM CallsGetTheNextAnswer == ReadersSpec => []AnswerIsNext
<1>1. ReadersInv => AnswerIsNext
  BY DEF ReadersInv, AnswersAreNext, AnswerIsNext, NoneBefore, ToSet
<1> QED
  BY <1>1, ReadersInvariant, PTL

\* A stretch of a timeline has as many events as places: no event is there twice.
LEMMA StretchIsCounted ==
    ASSUME NEW t \in Seq(Event), \A i, j \in DOMAIN t : i < j => t[i].id < t[j].id,
           NEW lo \in Nat, NEW hi \in Nat, lo <= hi, hi <= Len(t)
    PROVE  /\ IsFiniteSet({t[i] : i \in (lo + 1)..hi})
           /\ Cardinality({t[i] : i \in (lo + 1)..hi}) = hi - lo
<1> DEFINE S == (lo + 1)..hi
           T == {t[i] : i \in S}
           f == [i \in S |-> t[i]]
<1>1. Len(t) \in Nat /\ DOMAIN t = 1..Len(t) /\ \A i \in 1..Len(t) : t[i].id \in Nat
  BY TimelineTyped
<1>2. S \subseteq DOMAIN t /\ S \subseteq Nat
  BY <1>1, SMT
<1>3. IsFiniteSet(S) /\ Cardinality(S) = hi - lo
  <2>1. IsFiniteSet(S) /\ Cardinality(S) = IF lo + 1 > hi THEN 0 ELSE hi - (lo + 1) + 1
    BY FS_Interval, SMT
  <2> HIDE DEF S
  <2> QED
    BY <2>1, SMT
<1>4. \A i, j \in S : t[i] = t[j] => i = j
  <2> SUFFICES ASSUME NEW i \in S, NEW j \in S, t[i] = t[j] PROVE i = j
    OBVIOUS
  <2>1. i \in Nat /\ j \in Nat /\ t[i].id \in Nat /\ t[j].id \in Nat
    BY <1>1, <1>2
  <2>2. (i < j => t[i].id < t[j].id) /\ (j < i => t[j].id < t[i].id)
    BY <1>2
  <2>3. t[i].id = t[j].id
    OBVIOUS
  <2> HIDE DEF S
  <2> QED
    BY <2>1, <2>2, <2>3, SMT
<1>5. f \in Bijection(S, T)
  <2> HIDE DEF S
  <2> QED
    BY <1>4, Zenon DEF Bijection, Injection, Surjection, IsInjective
<1>6. ExistsBijection(S, T)
  BY <1>5 DEF ExistsBijection
<1> HIDE DEF S, T, f
<1>7. IsFiniteSet(T) /\ Cardinality(T) = hi - lo
  BY <1>3, <1>6, FS_Bijection
<1> QED
  BY <1>7 DEF S, T

\* What a read since the boundary returns: a stretch of the timeline after the
\* boundary, which without a cursor ends with the newest event.
LEMMA ReadIsAStretch ==
    ASSUME NEW t \in Seq(Event), NEW since \in Nat, NEW limit \in Nat \ {0}
    PROVE  LET page == EventsSince(t, since, limit, TRUE)
               b == AfterBoundary(t)
           IN  /\ b \in Nat /\ b <= Len(t)
               /\ \E lo, hi \in Nat :
                    /\ b <= lo /\ lo <= hi /\ hi <= Len(t)
                    /\ ToSet(page) = {t[i] : i \in (lo + 1)..hi}
                    /\ since = NoEvent => hi = Len(t) /\ hi - lo = Smaller(limit, Len(t) - b)
<1> DEFINE n == Len(t)
           a == AfterCursor(t, since)
           b == AfterBoundary(t)
           s == Start(t, since, TRUE)
           window == SubSeq(t, s + 1, n)
           page == EventsSince(t, since, limit, TRUE)
<1>1. n \in Nat /\ DOMAIN t = 1..n /\ \A i \in 1..n : t[i] \in Event /\ t[i].id \in Nat /\ t[i].id >= 1
  BY TimelineTyped
<1>2. a \in 0..n /\ b \in 0..n /\ (since = NoEvent => a = 0)
  <2> DEFINE C == {i \in DOMAIN t : t[i].id = since}
             B == {i \in DOMAIN t : t[i].kind = "session_boundary"}
  <2>1. C \in SUBSET (1..n) /\ B \in SUBSET (1..n) /\ a = Upto(C) /\ b = Upto(B)
    BY <1>1 DEF AfterCursor, AfterBoundary
  <2>2. ASSUME since = NoEvent PROVE C = {}
    <3>1. \A i \in 1..n : t[i].id # 0
      BY <1>1, SMT
    <3> QED
      BY <1>1, <2>2, <3>1 DEF NoEvent
  <2> HIDE DEF a, b, B, C, n
  <2> QED
    BY <1>1, <2>1, <2>2, UptoIsLast
<1> HIDE DEF a, b
<1>3. s = Larger(a, b)
  BY DEF Start, a, b
<1> HIDE DEF s, n
<1>4. s \in Nat /\ b \in Nat /\ b <= s /\ s <= n /\ b <= n /\ (since = NoEvent => s = b)
  BY <1>1, <1>2, <1>3, SMT DEF Larger
<1>5. /\ window \in Seq(Event) /\ Len(window) = n - s
      /\ \A k \in 1..(n - s) : window[k] = t[s + k]
  <2>1. \A k \in (s + 1)..n : t[k] \in Event
    BY <1>1, <1>4, SMT
  <2>2. s + 1 \in Int /\ n \in Int
    BY <1>1, <1>4, SMT
  <2>3. /\ window \in Seq(Event)
        /\ Len(window) = IF s + 1 <= n THEN n - (s + 1) + 1 ELSE 0
        /\ \A k \in 1..(n - (s + 1) + 1) : window[k] = t[s + 1 + k - 1]
    BY <2>1, <2>2, SubSeqProperties
  <2> HIDE DEF window
  <2>4. Len(window) = n - s /\ n - (s + 1) + 1 = n - s
    BY <1>1, <1>4, <2>3, SMT
  <2>5. \A k \in 1..(n - s) : s + 1 + k - 1 = s + k
    BY <1>1, <1>4, SMT
  <2> QED
    BY <2>3, <2>4, <2>5
<1> HIDE DEF window
<1> DEFINE From(p, q) == SubSeq(window, p + 1, q)
<1>6. ASSUME NEW p \in Nat, NEW q \in Nat, p <= q, q <= n - s
      PROVE  ToSet(From(p, q)) = {t[i] : i \in (s + p + 1)..(s + q)}
  <2>1. \A k \in (p + 1)..q : window[k] = t[s + k] /\ window[k] \in Event
    BY <1>1, <1>4, <1>5, <1>6, SMT
  <2>2. p + 1 \in Int /\ q \in Int
    BY <1>6, SMT
  <2>3. /\ From(p, q) \in Seq(Event)
        /\ Len(From(p, q)) = IF p + 1 <= q THEN q - (p + 1) + 1 ELSE 0
        /\ \A k \in 1..(q - (p + 1) + 1) : From(p, q)[k] = window[p + 1 + k - 1]
    BY <2>1, <2>2, SubSeqProperties
  <2> HIDE DEF From
  <2>4. Len(From(p, q)) = q - p /\ q - (p + 1) + 1 = q - p /\ q - p \in Nat
    BY <1>6, <2>3, SMT
  <2>5. DOMAIN From(p, q) = 1..(q - p)
    BY <2>3, <2>4, SMT
  <2>6. \A k \in 1..(q - p) : /\ p + 1 + k - 1 \in (p + 1)..q /\ s + (p + 1 + k - 1) = s + p + k
                              /\ s + p + k \in (s + p + 1)..(s + q)
    BY <1>4, <1>6, SMT
  <2>7. \A k \in 1..(q - p) : From(p, q)[k] = t[s + p + k]
    BY <2>1, <2>3, <2>4, <2>6
  <2>8. \A i \in (s + p + 1)..(s + q) : i - (s + p) \in 1..(q - p) /\ i = s + p + (i - (s + p))
    BY <1>4, <1>6, SMT
  <2>9. ToSet(From(p, q)) = {From(p, q)[k] : k \in 1..(q - p)}
    BY <2>5 DEF ToSet
  <2>10. ToSet(From(p, q)) = {t[s + p + k] : k \in 1..(q - p)}
    BY <2>7, <2>9
  <2>11. {t[s + p + k] : k \in 1..(q - p)} = {t[i] : i \in (s + p + 1)..(s + q)}
    <3>1. ASSUME NEW k \in 1..(q - p)
          PROVE  \E i \in (s + p + 1)..(s + q) : t[s + p + k] = t[i]
      <4>1. s + p + k \in (s + p + 1)..(s + q)
        BY <2>6
      <4> QED
        BY <4>1, Zenon
    <3>2. ASSUME NEW i \in (s + p + 1)..(s + q)
          PROVE  \E k \in 1..(q - p) : t[i] = t[s + p + k]
      <4>1. PICK k \in 1..(q - p) : i = s + p + k
        BY <2>8
      <4> QED
        BY <4>1, Zenon
    <3> DEFINE shifted == {t[s + p + k] : k \in 1..(q - p)}
               stretch == {t[i] : i \in (s + p + 1)..(s + q)}
    <3>3. ASSUME NEW e \in shifted PROVE e \in stretch
      <4>1. PICK k \in 1..(q - p) : e = t[s + p + k]
        BY Zenon
      <4> QED
        BY <3>1, <4>1, Zenon
    <3>4. ASSUME NEW e \in stretch PROVE e \in shifted
      <4>1. PICK i \in (s + p + 1)..(s + q) : e = t[i]
        BY Zenon
      <4> QED
        BY <3>2, <4>1, Zenon
    <3>5. shifted \subseteq stretch /\ stretch \subseteq shifted
      BY <3>3, <3>4, Zenon
    <3> HIDE DEF shifted, stretch
    <3>6. shifted = stretch
      BY <3>5, Zenon
    <3> QED
      BY <3>6 DEF shifted, stretch
  <2> QED
    BY <2>10, <2>11
<1>7. CASE since = NoEvent
  <2> DEFINE m == Smaller(limit, n - b)
             p == (n - s) - m
  <2>1. s = b
    BY <1>4, <1>7
  <2>2. m \in Nat /\ p \in Nat /\ p <= n - s /\ n - s \in Nat /\ Larger(1, Len(window) + 1 - limit) = p + 1
    BY <1>1, <1>4, <1>5, <2>1, SMT DEF Smaller, Larger
  <2>3. page = From(p, n - s)
    <3> HIDE DEF m, p
    <3>1. page = SubSeq(window, Larger(1, Len(window) + 1 - limit), Len(window))
      BY <1>7 DEF EventsSince, window, s, n
    <3> QED
      BY <1>5, <2>2, <3>1
  <2> HIDE DEF p, From, page
  <2>4. ToSet(page) = {t[i] : i \in (s + p + 1)..(s + (n - s))}
    <3>1. n - s <= n - s
      BY <2>2, SMT
    <3> QED
      BY <1>6, <2>2, <2>3, <3>1
  <2> DEFINE lo == s + p
             hi == s + (n - s)
  <2>5. lo \in Nat /\ hi \in Nat /\ b <= lo /\ lo <= hi /\ hi = n /\ hi - lo = m
    <3> HIDE DEF m
    <3> QED
      BY <1>1, <1>4, <2>1, <2>2, SMT DEF p
  <2>6. hi <= n
    BY <1>1, <2>5, SMT
  <2> QED
    BY <1>4, <2>4, <2>5, <2>6 DEF n, b, page
<1>8. CASE since # NoEvent
  <2> DEFINE m == Smaller(limit, n - s)
  <2>1. m \in Nat /\ m <= n - s
    BY <1>1, <1>4, SMT DEF Smaller
  <2>2. page = From(0, m)
    <3>1. page = SubSeq(window, 1, Smaller(limit, Len(window)))
      BY <1>8 DEF EventsSince, window, s, n
    <3>2. 0 + 1 = 1
      BY SMT
    <3> QED
      BY <1>5, <3>1, <3>2
  <2> HIDE DEF m, From, page
  <2>3. ToSet(page) = {t[i] : i \in (s + 0 + 1)..(s + m)}
    BY <1>6, <2>1, <2>2, SMT
  <2> DEFINE lo == s + 0
             hi == s + m
  <2>4. lo \in Nat /\ hi \in Nat /\ b <= lo /\ lo <= hi /\ hi <= n
    BY <1>1, <1>4, <2>1, SMT
  <2> QED
    BY <1>4, <1>8, <2>3, <2>4 DEF n, b, page
<1> QED
  BY <1>7, <1>8

\* A read since the newest boundary of a typed timeline is the newest of what came
\* after it.
LEMMA ReadsAreNewest == ReadersTypeOK => BoundaryReadIsNewest
<1>1. ASSUME ReadersTypeOK PROVE BoundaryReadIsNewest
  <2> DEFINE n == Len(timeline)
             b == AfterBoundary(timeline)
             B == {i \in DOMAIN timeline : timeline[i].kind = "session_boundary"}
             settled == {i \in DOMAIN timeline :
                           \E j \in DOMAIN timeline : i <= j /\ timeline[j].kind = "session_boundary"}
             unsettled == {timeline[i] : i \in DOMAIN timeline \ settled}
  <2>1. /\ timeline \in Seq(Event)
        /\ \A i, j \in DOMAIN timeline : i < j => timeline[i].id < timeline[j].id
        /\ n \in Nat /\ DOMAIN timeline = 1..n /\ \A i \in 1..n : timeline[i].id \in Nat
    BY <1>1, TimelineTyped DEF ReadersTypeOK
  <2>2. DOMAIN timeline \ settled = (b + 1)..n
    <3>1. B \in SUBSET (1..n) /\ b = Upto(B)
      BY <2>1 DEF AfterBoundary
    <3>2. /\ b \in 0..n /\ \A i \in B : i <= b
          /\ (B = {} => b = 0) /\ (B # {} => b \in B)
      <4> HIDE DEF b, n, B
      <4> QED
        BY <2>1, <3>1, UptoIsLast
    <3>3. \A i \in 1..n : i \in settled <=> \E j \in B : i <= j
      BY <2>1
    <3> HIDE DEF b, n, B, settled
    <3>4. ASSUME NEW i \in 1..n PROVE i \in settled <=> i <= b
      <4>1. i \in Nat /\ i >= 1 /\ b \in Nat /\ \A j \in B : j \in Nat
        BY <2>1, <3>1, <3>2, SMT
      <4>2. CASE B = {}
        <5>1. b = 0 /\ i \notin settled
          BY <3>2, <3>3, <4>2
        <5> QED
          BY <4>1, <5>1, SMT
      <4>3. CASE B # {}
        <5>1. ASSUME NEW j \in B, i <= j PROVE i <= b
          <6>1. j <= b /\ j \in Nat
            BY <3>2, <4>1
          <6> QED
            BY <4>1, <5>1, <6>1, SMT
        <5> QED
          BY <3>2, <3>3, <4>3, <5>1
      <4> QED
        BY <4>2, <4>3
    <3>5. \A i \in 1..n : i \in (b + 1)..n <=> ~(i <= b)
      BY <2>1, <3>2, SMT
    <3>6. (b + 1)..n \subseteq 1..n
      BY <2>1, <3>2, SMT
    <3> QED
      BY <2>1, <3>4, <3>5, <3>6
  <2>3. unsettled = {timeline[i] : i \in (b + 1)..n}
    BY <2>2
  <2> HIDE DEF n, b, B, settled, unsettled
  <2>4. ASSUME NEW limit \in 1..(MaxEvents + 1),
               NEW since \in {NoEvent} \cup {e.id : e \in ToSet(timeline)}
        PROVE  LET seen == ToSet(EventsSince(timeline, since, limit, TRUE)) IN
               /\ seen \subseteq unsettled
               /\ since = NoEvent =>
                     /\ Cardinality(seen) = Smaller(limit, Cardinality(unsettled))
                     /\ \A e \in unsettled \ seen, r \in seen : e.id < r.id
    <3> DEFINE seen == ToSet(EventsSince(timeline, since, limit, TRUE))
    <3>1. limit \in Nat \ {0} /\ since \in Nat
      <4>1. limit \in Nat \ {0}
        BY ReadersAssumption, SMT
      <4>2. since = 0 \/ \E i \in DOMAIN timeline : since = timeline[i].id
        BY DEF ToSet, NoEvent
      <4> QED
        BY <2>1, <4>1, <4>2, SMT
    <3>2. b \in Nat /\ b <= n
      BY <2>1, <3>1, ReadIsAStretch DEF n, b
    <3>3. PICK lo \in Nat, hi \in Nat :
            /\ b <= lo /\ lo <= hi /\ hi <= n
            /\ seen = {timeline[i] : i \in (lo + 1)..hi}
            /\ since = NoEvent => hi = n /\ hi - lo = Smaller(limit, n - b)
      BY <2>1, <3>1, ReadIsAStretch DEF n, b
    <3> HIDE DEF seen
    <3>4. seen \subseteq unsettled
      <4>1. (lo + 1)..hi \subseteq (b + 1)..n
        BY <2>1, <3>2, <3>3, SMT
      <4> QED
        BY <2>3, <3>3, <4>1
    <3>5. ASSUME since = NoEvent PROVE Cardinality(seen) = Smaller(limit, Cardinality(unsettled))
      <4>1. Cardinality(seen) = hi - lo
        BY <2>1, <3>3, StretchIsCounted DEF n
      <4>2. Cardinality(unsettled) = n - b
        <5>1. n <= Len(timeline)
          BY <2>1, SMT DEF n
        <5> QED
          BY <2>1, <2>3, <3>2, <5>1, StretchIsCounted
      <4> QED
        BY <3>3, <3>5, <4>1, <4>2
    <3>6. ASSUME since = NoEvent, NEW e \in unsettled \ seen, NEW r \in seen PROVE e.id < r.id
      <4>1. PICK i \in (b + 1)..n : e = timeline[i]
        BY <2>3, <3>6
      <4>2. PICK j \in (lo + 1)..hi : r = timeline[j]
        BY <3>3, <3>6
      <4>3. i \notin (lo + 1)..n /\ hi = n
        BY <3>3, <3>6, <4>1
      <4>4. i < j /\ i \in 1..n /\ j \in 1..n
        BY <2>1, <3>2, <3>3, <4>1, <4>2, <4>3, SMT
      <4> QED
        BY <2>1, <4>1, <4>2, <4>4
    <3> QED
      BY <3>4, <3>5, <3>6 DEF seen
  <2> QED
    BY <2>4 DEF BoundaryReadIsNewest, settled, unsettled
<1> QED
  BY <1>1

\* A read since the newest boundary shows nothing that a finished session has
\* settled, and without a cursor the newest of what came after, as many as fit.
THEOREM BoundaryReadsAreNewest == ReadersSpec => []BoundaryReadIsNewest
BY ReadsAreNewest, ReadersTypeCorrect, PTL
-----------------------------------------------------------------------------
\* The services together: each behaviour runs one of them and leaves the others.

\* What runs is each service, with steps that leave it alone.
LEMMA ServicesAreKept ==
    /\ Init => ReadersInv /\ RecorderInv /\ FlowsInv
    /\ [Next]_vars => /\ [ReadersNext]_readerVars
                      /\ [RecorderNext]_recorderVars
                      /\ [FlowsNext]_flowVars
<1>1. Init => ReadersInv /\ RecorderInv /\ FlowsInv
  BY ReadersInvInit, RecorderInvInit, FlowsInvInit DEF Init
<1>2. Next => /\ [ReadersNext]_readerVars /\ [RecorderNext]_recorderVars /\ [FlowsNext]_flowVars
  BY DEF Next
<1>3. UNCHANGED vars => UNCHANGED readerVars /\ UNCHANGED recorderVars /\ UNCHANGED flowVars
  BY DEF vars
<1> QED
  BY <1>1, <1>2, <1>3

\* The state of every service of the hub has its type.
THEOREM HubServicesTypeCorrect == Spec => []HubServicesTypeOK
<1>1. ReadersInv /\ RecorderInv /\ FlowsInv => HubServicesTypeOK
  BY DEF ReadersInv, RecorderInv, FilesInv, FlowsInv, HubServicesTypeOK
<1> QED
  BY <1>1, ServicesAreKept, ReadersInvNext, RecorderInvNext, FlowsInvNext, PTL DEF Spec

\* What the services promise, they promise together.
THEOREM HubServicesKeepTheirPromises ==
    Spec => []( /\ RecordingIsKept /\ RecordingFollowsFlag /\ FlowFilesAreTrue
                /\ AnswerIsNext /\ BoundaryReadIsNewest )
<1>1. ReadersInv /\ RecorderInv /\ FlowsInv =>
         /\ RecordingIsKept /\ RecordingFollowsFlag /\ FlowFilesAreTrue
         /\ AnswerIsNext /\ BoundaryReadIsNewest
  <2>1. ReadersInv => AnswerIsNext
    BY DEF ReadersInv, AnswersAreNext, AnswerIsNext, NoneBefore, ToSet
  <2>2. ReadersInv => BoundaryReadIsNewest
    BY ReadsAreNewest DEF ReadersInv
  <2> QED
    BY <2>1, <2>2 DEF RecorderInv, FilesInv, FlowsInv, FlowFilesAreTrue
<1> QED
  BY <1>1, ServicesAreKept, ReadersInvNext, RecorderInvNext, FlowsInvNext, PTL DEF Spec
=============================================================================
