-------------------------- MODULE WorkerServicesProofs --------------------------
(***************************************************************************)
(* The services beside a worker, for every number of turns, calls, drives  *)
(* and attempts.                                                           *)
(*                                                                         *)
(* The Stop-hook relay implements the outbox: the invariant adds to the    *)
(* types what a drain knows of the files it has passed.                    *)
(*                                                                         *)
(* A reconnect that is reported as done was confirmed since the buffer was *)
(* cleared for its digit, whoever types in the dialog, whenever the child  *)
(* goes.                                                                   *)
(*                                                                         *)
(* An allow is spent once: a request is read and posted once and so is in  *)
(* one place, and an entry that leaves a bank is counted where it goes.    *)
(*                                                                         *)
(* The hub shows what the status loop sent last, but for what it is        *)
(* excused.                                                                *)
(***************************************************************************)
EXTENDS MCWorkerServices, SelectionProofs

\* A file that is to be removed was recorded.
UnlinkedIsRecorded == hook = "unlink" => \A r \in todo : IsOldest(r, todo) => r \in recorded

\* What a drain has behind it was recorded or could not be read.
DrainIsThorough == hook \in {"drain", "unlink"} => spool \ todo \subseteq skipped \cup recorded

\* Only a drain has files in hand.
OnlyDrainsHold == hook \notin {"drain", "unlink"} => todo = {}

\* A drain posts what is older than the reply of its turn.
DrainedIsOlder == hook # "idle" => \A j \in drained : j < turn

RelayInv ==
    /\ RelayTypeOK /\ UnlinkedIsRecorded /\ DrainIsThorough /\ OnlyDrainsHold
    /\ DrainedIsOlder /\ SpoolGoesOldestFirst
-----------------------------------------------------------------------------
\* The files that are dropped for the cap are no more than there are.
LEMMA ExcessIsThere ==
    ASSUME RelayTypeOK
    PROVE  /\ Cardinality(spool) \in Nat /\ Excess \in Nat
           /\ Excess > Cardinality(spool) => Excess - Cardinality(spool) \in 0..permFiles
<1>1. IsFiniteSet(1..turn)
  BY FS_Interval DEF RelayTypeOK
<1>2. Cardinality(spool) \in Nat
  BY <1>1, FS_Subset, FS_CardinalityType DEF RelayTypeOK
<1>3. RelayCap \in Nat \ {0} /\ permFiles \in Nat
  BY RelayAssumption DEF RelayTypeOK
<1> QED
  BY <1>2, <1>3 DEF Excess

\* The invariant holds at the start.
LEMMA RelayInvInit == RelayInit => RelayInv
BY RelayAssumption, RelayBounds
   DEF RelayInit, RelayInv, RelayTypeOK, UnlinkedIsRecorded, DrainIsThorough, OnlyDrainsHold,
       DrainedIsOlder, SpoolGoesOldestFirst

\* A step that leaves the replies where they are, or adds one the hub has recorded,
\* and leaves the hook as it is or takes it to a phase without files, keeps what
\* the invariant says beyond the types.
LEMMA RelayInvKept ==
    ASSUME RelayInv, RelayTypeOK',
           turn' = turn, spool' = spool, drained' = drained, skipped' = skipped,
           recorded \subseteq recorded',
           \/ hook' = hook /\ todo' = todo
           \/ hook' \in {"idle", "post", "spool"} /\ todo' = {} /\ hook # "idle"
    PROVE  RelayInv'
<1>1. UnlinkedIsRecorded' /\ DrainIsThorough' /\ OnlyDrainsHold'
  BY DEF RelayInv, UnlinkedIsRecorded, IsOldest, DrainIsThorough, OnlyDrainsHold
<1>2. DrainedIsOlder' /\ SpoolGoesOldestFirst'
  BY DEF RelayInv, RelayTypeOK, DrainedIsOlder, SpoolGoesOldestFirst
<1> QED
  BY <1>1, <1>2 DEF RelayInv

\* An attempt that is not known to have succeeded.
LEMMA TryAgainKeeps ==
    ASSUME RelayInv, NEW r, Posting(r), TryAgain,
           recorded \subseteq recorded', recorded' \subseteq recorded \cup {r},
           givenUp' = givenUp, drained' = drained, skipped' = skipped
    PROVE  RelayInv'
<1> USE RelayAssumption, RelayBounds
<1>1. r \in 1..turn
  <2>1. CASE hook = "drain"
    BY <2>1 DEF Posting, IsOldest, RelayInv, RelayTypeOK
  <2>2. CASE hook = "post"
    BY <2>2 DEF Posting, RelayInv, RelayTypeOK
  <2> QED
    BY <2>1, <2>2 DEF Posting
<1>2. tries' \in 0..(RelayTries - 1)
  BY DEF TryAgain, RelayInv, RelayTypeOK
<1>3. turn' = turn /\ spool' = spool /\ permFiles' = permFiles
  BY DEF TryAgain
<1>4. \/ hook' = hook /\ todo' = todo
      \/ hook' \in {"post", "spool"} /\ todo' = {}
  BY DEF TryAgain
<1>5. hook \in {"drain", "post"}
  BY DEF Posting
<1>6. RelayTypeOK'
  BY <1>1, <1>2, <1>3, <1>4, <1>5 DEF RelayInv, RelayTypeOK
<1> QED
  BY <1>3, <1>4, <1>5, <1>6, RelayInvKept

\* Every step keeps the invariant.
LEMMA RelayInvNext == RelayInv /\ [RelayNext]_relayVars => RelayInv'
<1> SUFFICES ASSUME RelayInv, [RelayNext]_relayVars
             PROVE  RelayInv'
  OBVIOUS
<1> USE RelayAssumption, RelayBounds
<1>1. CASE Stop
  <2>1. turn \in Nat /\ turn' = turn + 1 /\ turn' \in 0..MaxReplies /\ 1..turn \subseteq 1..turn'
    BY <1>1 DEF Stop, RelayInv, RelayTypeOK
  <2>2. RelayTypeOK'
    BY <1>1, <2>1 DEF Stop, history, RelayInv, RelayTypeOK
  <2>3. DrainedIsOlder'
    BY <1>1, <2>1 DEF Stop, history, RelayInv, RelayTypeOK, DrainedIsOlder
  <2> QED
    BY <1>1, <2>2, <2>3 DEF Stop, history, RelayInv, UnlinkedIsRecorded, DrainIsThorough,
              OnlyDrainsHold, SpoolGoesOldestFirst
<1>2. ASSUME NEW r \in Replies, PostFails(r)
      PROVE  RelayInv'
  BY <1>2, TryAgainKeeps DEF PostFails, history
<1>3. ASSUME NEW r \in Replies, PostUnheard(r)
      PROVE  RelayInv'
  BY <1>3, TryAgainKeeps DEF PostUnheard
<1>4. ASSUME NEW r \in Replies, PostSucceeds(r)
      PROVE  RelayInv'
  <2>1. CASE hook = "drain"
    <3>1. IsOldest(r, todo) /\ r \in spool /\ r \in 1..turn /\ turn \in Nat
      <4>1. IsOldest(r, todo) /\ r \in todo
        BY <1>4, <2>1 DEF PostSucceeds, Posting, IsOldest
      <4> QED
        BY <4>1 DEF RelayInv, RelayTypeOK
    <3>2. r < turn
      BY <2>1, <3>1 DEF RelayInv, RelayTypeOK
    <3>3. RelayTypeOK'
      <4>1. todo' = todo /\ r \in todo /\ hook' = "unlink" /\ tries' = 0
        BY <1>4, <2>1, <3>1 DEF PostSucceeds, IsOldest
      <4>2. drained' \subseteq recorded' /\ recorded' \subseteq 1..turn
        BY <1>4, <2>1, <3>1 DEF PostSucceeds, RelayInv, RelayTypeOK
      <4> QED
        BY <1>4, <2>1, <4>1, <4>2 DEF PostSucceeds, RelayInv, RelayTypeOK
    <3>4. UnlinkedIsRecorded'
      <4> SUFFICES ASSUME NEW o \in todo, IsOldest(o, todo)
                   PROVE  o \in recorded \cup {r}
        BY <1>4 DEF PostSucceeds, UnlinkedIsRecorded, IsOldest
      <4>1. o \in Nat /\ r \in Nat
        BY <3>1 DEF RelayInv, RelayTypeOK
      <4> QED
        BY <3>1, <4>1 DEF IsOldest
    <3>5. DrainIsThorough' /\ DrainedIsOlder' /\ OnlyDrainsHold'
      BY <1>4, <2>1, <3>1, <3>2 DEF PostSucceeds, RelayInv, DrainIsThorough, DrainedIsOlder,
                OnlyDrainsHold
    <3>6. SpoolGoesOldestFirst'
      <4> SUFFICES ASSUME NEW i \in (spool \ skipped) \ (recorded \cup {r}),
                          NEW j \in drained \cup {r}
                   PROVE  i > j
        BY <1>4, <2>1 DEF PostSucceeds, SpoolGoesOldestFirst
      <4>1. i \in todo /\ i # r
        BY <2>1 DEF RelayInv, DrainIsThorough
      <4>2. r < i
        BY <3>1, <4>1 DEF IsOldest, RelayInv, RelayTypeOK
      <4>3. j # r => i > j
        BY DEF RelayInv, SpoolGoesOldestFirst
      <4> QED
        BY <3>1, <4>2, <4>3 DEF RelayInv, RelayTypeOK
    <3> QED
      BY <3>3, <3>4, <3>5, <3>6 DEF RelayInv
  <2>2. CASE hook = "post"
    <3>1. r = turn /\ hook' = "idle" /\ todo' = {} /\ tries' = 0
      BY <1>4, <2>2 DEF PostSucceeds, Posting, RelayInv, OnlyDrainsHold
    <3>2. RelayTypeOK'
      <4>1. turn \in 1..turn
        BY <2>2 DEF RelayInv, RelayTypeOK
      <4>2. recorded' \subseteq 1..turn /\ drained' \subseteq recorded'
        BY <1>4, <2>2, <3>1, <4>1 DEF PostSucceeds, RelayInv, RelayTypeOK
      <4> QED
        BY <1>4, <3>1, <4>2 DEF PostSucceeds, RelayInv, RelayTypeOK
    <3> QED
      BY <1>4, <2>2, <3>1, <3>2, RelayInvKept DEF PostSucceeds
  <2> QED
    BY <1>4, <2>1, <2>2 DEF PostSucceeds, Posting
<1>5. ASSUME NEW r \in Replies, Unlink(r)
      PROVE  RelayInv'
  BY <1>5 DEF Unlink, IsOldest, history, Replies, RelayInv, RelayTypeOK, OnlyDrainsHold,
              UnlinkedIsRecorded, DrainIsThorough, DrainedIsOlder, SpoolGoesOldestFirst
<1>6. ASSUME NEW r \in Replies, SkipUnreadable(r)
      PROVE  RelayInv'
  <2>1. r \in spool
    BY <1>6 DEF SkipUnreadable, IsOldest, RelayInv, RelayTypeOK
  <2>2. RelayTypeOK'
    BY <1>6, <2>1 DEF SkipUnreadable, RelayInv, RelayTypeOK
  <2> QED
    BY <1>6, <2>2 DEF SkipUnreadable, RelayInv, OnlyDrainsHold,
              UnlinkedIsRecorded, DrainIsThorough, DrainedIsOlder, SpoolGoesOldestFirst
<1>7. CASE DrainEnds
  BY <1>7 DEF DrainEnds, history, RelayInv, RelayTypeOK, OnlyDrainsHold,
              UnlinkedIsRecorded, DrainIsThorough, DrainedIsOlder, SpoolGoesOldestFirst
<1>8. CASE Spool
  <2>1. permFiles' \in 0..MaxPermFiles
    <3>1. permFiles \in 0..MaxPermFiles /\ RelayTypeOK
      BY DEF RelayInv, RelayTypeOK
    <3>2. CASE Excess > Cardinality(spool)
      BY <1>8, <3>1, <3>2, ExcessIsThere DEF Spool
    <3>3. CASE ~(Excess > Cardinality(spool))
      BY <1>8, <3>1, <3>3 DEF Spool
    <3> QED
      BY <3>2, <3>3
  <2>2. Victims \subseteq spool
    BY DEF Victims
  <2>3. spool' \subseteq spool \cup {turn} /\ givenUp' \subseteq givenUp \cup spool \cup {turn}
    BY <1>8, <2>2 DEF Spool
  <2>4. todo = {} /\ turn \in 1..turn
    BY <1>8 DEF Spool, RelayInv, RelayTypeOK, OnlyDrainsHold
  <2>5. /\ hook' = "idle" /\ turn' = turn /\ todo' = {} /\ tries' = tries
        /\ recorded' = recorded /\ drained' = drained /\ skipped' = skipped
    BY <1>8, <2>4 DEF Spool
  <2>6. RelayTypeOK'
    BY <2>1, <2>3, <2>4, <2>5 DEF RelayInv, RelayTypeOK
  <2>7. SpoolGoesOldestFirst'
    <3>1. \A j \in drained : j < turn /\ j \in Nat /\ turn \in Nat
      BY <1>8 DEF Spool, RelayInv, RelayTypeOK, DrainedIsOlder
    <3> QED
      BY <2>3, <2>5, <3>1 DEF RelayInv, SpoolGoesOldestFirst
  <2> QED
    BY <2>5, <2>6, <2>7 DEF RelayInv, UnlinkedIsRecorded, DrainIsThorough, DrainedIsOlder,
              OnlyDrainsHold
<1>9. CASE HookDies
  <2>1. RelayTypeOK'
    BY <1>9 DEF HookDies, RelayInv, RelayTypeOK
  <2> QED
    BY <1>9, <2>1, RelayInvKept DEF HookDies
<1>10. CASE ChannelSpools \/ ChannelDrains
  <2>1. permFiles' \in 0..MaxPermFiles
    BY <1>10 DEF ChannelSpools, ChannelDrains, RelayInv, RelayTypeOK
  <2>2. UNCHANGED <<turn, hook, tries, todo, spool, recorded, givenUp, drained, skipped>>
    BY <1>10 DEF ChannelSpools, ChannelDrains, history
  <2>3. RelayTypeOK'
    BY <2>1, <2>2 DEF RelayInv, RelayTypeOK
  <2> QED
    BY <2>2, <2>3, RelayInvKept
<1>11. CASE UNCHANGED relayVars
  BY <1>11 DEF relayVars, RelayInv, RelayTypeOK, IsOldest, OnlyDrainsHold,
              UnlinkedIsRecorded, DrainIsThorough, DrainedIsOlder, SpoolGoesOldestFirst
<1> QED
  BY <1>1, <1>2, <1>3, <1>4, <1>5, <1>6, <1>7, <1>8, <1>9, <1>10, <1>11 DEF RelayNext

\* The invariant holds in every state of the relay.
THEOREM RelayInvariant == RelaySpec => []RelayInv
BY RelayInvInit, RelayInvNext, PTL DEF RelaySpec

\* The state of the relay has its type.
THEOREM RelayTypeCorrect == RelaySpec => []RelayTypeOK
<1>1. RelayInv => RelayTypeOK
  BY DEF RelayInv
<1> QED
  BY <1>1, RelayInvariant, PTL

\* A drain posts the spooled replies in the order of their turns, whatever the cap,
\* the number of attempts and of turns (_drain_spool).
THEOREM RelayDrainsInOrder == RelaySpec => []SpoolGoesOldestFirst
<1>1. RelayInv => SpoolGoesOldestFirst
  BY DEF RelayInv
<1> QED
  BY <1>1, RelayInvariant, PTL
-----------------------------------------------------------------------------
\* What the relay has of its replies, under the refinement mapping.
Has == spool \cup (IF hook = "idle" THEN {} ELSE {turn})

\* The relay starts as the outbox does.
LEMMA RelayInitRefines == RelayInit => Box!OutboxInit
BY DEF RelayInit, Box!OutboxInit

\* Every step of the relay is a step of the outbox or leaves it alone.
LEMMA RelayNextRefines ==
    RelayInv /\ [RelayNext]_relayVars => [Box!OutboxNext]_(Box!outboxVars)
<1> SUFFICES ASSUME RelayInv, [RelayNext]_relayVars
             PROVE  Box!OutboxNext \/ UNCHANGED Box!outboxVars
  OBVIOUS
<1> USE DEF Box!outboxVars
<1>1. CASE Stop
  <2>1. turn \in Nat /\ turn + 1 \in Replies /\ turn + 1 \notin 1..turn
    BY <1>1, RelayBounds DEF Stop, RelayInv, RelayTypeOK, Replies
  <2>2. 1..turn' = 1..turn \cup {turn + 1}
    BY <1>1, <2>1 DEF Stop
  <2>3. Box!Accept(turn + 1)
    BY <1>1, <2>1, <2>2 DEF Stop, history, Box!Accept
  <2> QED
    BY <2>1, <2>3 DEF Box!OutboxNext
<1>2. ASSUME NEW r \in Replies, PostFails(r)
      PROVE  UNCHANGED Box!outboxVars
  BY <1>2 DEF PostFails, Posting, TryAgain, history
<1>3. ASSUME NEW r \in Replies, PostUnheard(r)
      PROVE  Box!OutboxNext
  <2>1. r \in Has
    BY <1>3 DEF PostUnheard, Posting, IsOldest, RelayInv, RelayTypeOK, Has
  <2>2. Box!Deliver(r)
    BY <1>3, <2>1 DEF PostUnheard, Posting, TryAgain, Has, Box!Deliver
  <2> QED
    BY <2>2 DEF Box!OutboxNext
<1>4. ASSUME NEW r \in Replies, PostSucceeds(r)
      PROVE  Box!OutboxNext
  <2>1. r \in Has
    BY <1>4 DEF PostSucceeds, Posting, IsOldest, RelayInv, RelayTypeOK, Has
  <2>2. hook = "post" => Has' = Has \ {r}
    BY <1>4 DEF PostSucceeds, Posting, RelayInv, RelayTypeOK, Has
  <2>3. hook = "drain" => Has' = Has
    BY <1>4 DEF PostSucceeds, Has
  <2>4. Box!Deliver(r)
    BY <1>4, <2>1, <2>2, <2>3 DEF PostSucceeds, Posting, Has, Box!Deliver
  <2> QED
    BY <2>4 DEF Box!OutboxNext
<1>5. ASSUME NEW r \in Replies, Unlink(r)
      PROVE  Box!OutboxNext \/ UNCHANGED Box!outboxVars
  <2>1. r \in recorded /\ r \in spool /\ r # turn
    BY <1>5 DEF Unlink, IsOldest, RelayInv, RelayTypeOK, UnlinkedIsRecorded
  <2>2. CASE spool' = spool
    BY <1>5, <2>2 DEF Unlink, history
  <2>3. CASE spool' = spool \ {r}
    <3>1. {r} \in SUBSET Has
      BY <2>1 DEF Has
    <3>2. Box!Release({r})
      BY <1>5, <2>1, <2>3 DEF Unlink, history, Box!Release
    <3> QED
      BY <3>1, <3>2 DEF Box!OutboxNext, Has
  <2> QED
    BY <1>5, <2>2, <2>3 DEF Unlink
<1>6. ASSUME NEW r \in Replies, SkipUnreadable(r)
      PROVE  UNCHANGED Box!outboxVars
  BY <1>6 DEF SkipUnreadable
<1>7. CASE DrainEnds
  BY <1>7 DEF DrainEnds, history
<1>8. CASE Spool
  <2>1. Victims \subseteq spool /\ turn \notin spool
    BY <1>8 DEF Spool, Victims, RelayInv, RelayTypeOK
  <2>2. PICK S \in {Victims, Victims \cup {turn}} :
            spool' = (spool \cup {turn}) \ S /\ givenUp' = givenUp \cup (S \ recorded)
    BY <1>8, <2>1 DEF Spool
  <2>3. S \in SUBSET Has
    BY <1>8, <2>1, <2>2 DEF Spool, Has
  <2>4. Box!Release(S)
    BY <1>8, <2>2, <2>3 DEF Spool, Has, Box!Release
  <2> QED
    BY <2>3, <2>4 DEF Box!OutboxNext, Has
<1>9. CASE HookDies
  <2>1. {turn} \in SUBSET Has
    BY <1>9 DEF HookDies, Has
  <2>2. Box!Release({turn})
    BY <1>9 DEF HookDies, RelayInv, RelayTypeOK, Box!Release
  <2> QED
    BY <2>1, <2>2 DEF Box!OutboxNext, Has
<1>10. CASE ChannelSpools \/ ChannelDrains
  BY <1>10 DEF ChannelSpools, ChannelDrains, history
<1>11. CASE UNCHANGED relayVars
  BY <1>11 DEF relayVars
<1> QED
  BY <1>1, <1>2, <1>3, <1>4, <1>5, <1>6, <1>7, <1>8, <1>9, <1>10, <1>11 DEF RelayNext

\* The relay implements the outbox: replies are delivered from what it holds, and
\* what it drops undelivered it has counted as lost (main, _drain_spool,
\* _spool_event).
THEOREM RelayImplementsOutbox == RelaySpec => RelayIsOutbox
<1>1. RelaySpec => Box!OutboxInit
  BY RelayInitRefines DEF RelaySpec
<1>2. RelaySpec => [][Box!OutboxNext]_(Box!outboxVars)
  BY RelayInvariant, RelayNextRefines, PTL DEF RelaySpec
<1> QED
  BY <1>1, <1>2 DEF RelayIsOutbox, Box!OutboxSpec

\* No reply of a turn vanishes: it is on disk or in the hook's hands, the hub has
\* recorded it, or it was given up where the hook says so.
THEOREM RelayAccountsForReplies == RelaySpec => []Box!Accounted
<1>1. Box!OutboxInit => Box!Accounted
  BY DEF Box!OutboxInit, Box!Accounted
<1>2. Box!Accounted /\ [Box!OutboxNext]_(Box!outboxVars) => Box!Accounted'
  <2> SUFFICES ASSUME Box!Accounted, [Box!OutboxNext]_(Box!outboxVars)
               PROVE  Box!Accounted'
    OBVIOUS
  <2> USE DEF Box!Accounted
  <2>1. ASSUME NEW r \in Replies, Box!Accept(r)
        PROVE  Box!Accounted'
    BY <2>1 DEF Box!Accept
  <2>2. ASSUME NEW r \in Replies, Box!Deliver(r)
        PROVE  Box!Accounted'
    BY <2>2 DEF Box!Deliver
  <2>3. ASSUME NEW S, Box!Release(S)
        PROVE  Box!Accounted'
    BY <2>3 DEF Box!Release
  <2>4. CASE UNCHANGED Box!outboxVars
    BY <2>4 DEF Box!outboxVars
  <2> QED
    BY <2>1, <2>2, <2>3, <2>4 DEF Box!OutboxNext
<1> QED
  BY <1>1, <1>2, RelayImplementsOutbox, PTL DEF RelayIsOutbox, Box!OutboxSpec
-----------------------------------------------------------------------------
\* The reconnect dialog.

\* A drive that has cleared the buffer for its digit, and typed it or not.
Awaiting(d) == at[d] \in {"cleared", "pressed"}

\* The confirmation such a drive finds on the screen came after it cleared the buffer.
ConfirmationIsFresh ==
    \A d \in Drives : Awaiting(d) /\ server[d] \in Sees(d) => d \in proven

\* No drive is reported as done by this step, nor clears the buffer for its digit.
NoneAdvances ==
    \A d \in Drives : (at'[d] = "ok" => at[d] = "ok") /\ (Awaiting(d)' => Awaiting(d))

DialogInv == DialogTypeOK /\ OkMeansReconnected /\ ConfirmationIsFresh

\* The drives that are reported as done, and those that wait for a confirmation,
\* are those that were or fewer; a screen shows no more than it did, and no proof is
\* forgotten: such a step keeps the invariant.
LEMMA FreshnessKept ==
    ASSUME DialogInv, DialogTypeOK', server' = server,
           NoneAdvances,
           \A d \in Drives : Awaiting(d) => Sees(d)' \subseteq Sees(d),
           proven \subseteq proven'
    PROVE  DialogInv'
<1>1. OkMeansReconnected'
  BY DEF DialogInv, OkMeansReconnected, NoneAdvances
<1>2. ConfirmationIsFresh'
  <2> SUFFICES ASSUME NEW d \in Drives, Awaiting(d)', server[d] \in Sees(d)'
               PROVE  d \in proven'
    BY DEF ConfirmationIsFresh
  <2>1. Awaiting(d) /\ server[d] \in Sees(d)
    BY DEF NoneAdvances
  <2> QED
    BY <2>1 DEF DialogInv, ConfirmationIsFresh
<1> QED
  BY <1>1, <1>2 DEF DialogInv

\* A buffer that is cleared shows nothing to the drive that clears it, and no more
\* than before to any other.
LEMMA ClearedShowsLess ==
    ASSUME DialogTypeOK, NEW d \in Drives, Clears(d), onChild' = onChild
    PROVE  /\ Sees(d)' = {} /\ \A e \in Drives : Sees(e)' \subseteq Sees(e)
           /\ screen' \subseteq Servers /\ left' \in [Drives -> SUBSET Servers]
BY DEF Clears, Sees, DialogTypeOK

\* A retry, and the escape key before it, move the drive to its start or its end.
LEMMA RetryMoves ==
    ASSUME DialogTypeOK, NEW d \in Drives, Retry(d) \/ Escape(d)
    PROVE  /\ \E place \in {"start", "failed"} : at' = [at EXCEPT ![d] = place]
           /\ attempt' \in [Drives -> 1..MaxAttempts]
<1>1. CASE Retry(d)
  <2>1. attempt[d] \in 1..MaxAttempts /\ MaxAttempts \in Nat
    BY DialogAssumption DEF DialogTypeOK
  <2>2. CASE attempt[d] < MaxAttempts
    BY <1>1, <2>1, <2>2 DEF Retry, Goes, DialogTypeOK
  <2>3. CASE ~(attempt[d] < MaxAttempts)
    BY <1>1, <2>3 DEF Retry, Goes, DialogTypeOK
  <2> QED
    BY <2>2, <2>3
<1>2. CASE Goes(d, "failed") /\ UNCHANGED attempt
  BY <1>2 DEF Goes, DialogTypeOK
<1> QED
  BY <1>1, <1>2 DEF Escape

\* The invariant holds before the first request.
LEMMA DialogInvInit == DialogInit => DialogInv
<1> SUFFICES ASSUME DialogInit
             PROVE  DialogInv
  OBVIOUS
<1>1. attempt \in [Drives -> 1..MaxAttempts]
  BY DialogAssumption DEF DialogInit
<1>2. at \in [Drives -> DrivePlaces] /\ left \in [Drives -> SUBSET Servers]
  BY DEF DialogInit, DrivePlaces
<1>3. DialogTypeOK
  BY <1>1, <1>2 DEF DialogInit, DialogTypeOK
<1>4. OkMeansReconnected /\ ConfirmationIsFresh
  BY DEF DialogInit, OkMeansReconnected, ConfirmationIsFresh, Awaiting
<1> QED
  BY <1>3, <1>4 DEF DialogInv

\* Every step keeps the invariant.
LEMMA DialogInvNext == DialogInv /\ [DialogNext]_dialogVars => DialogInv'
<1> SUFFICES ASSUME DialogInv, [DialogNext]_dialogVars
             PROVE  DialogInv'
  OBVIOUS
<1>0. DialogTypeOK
  BY DEF DialogInv
<1>1. ASSUME NEW d \in Drives, HubAsks(d)
      PROVE  DialogInv'
  <2>1. DialogTypeOK'
    BY <1>0, <1>1 DEF HubAsks, Goes, DialogTypeOK, DrivePlaces
  <2>2. NoneAdvances
    BY <1>0, <1>1 DEF HubAsks, Goes, DialogTypeOK, NoneAdvances, Awaiting
  <2>3. \A e \in Drives : Awaiting(e) => Sees(e)' \subseteq Sees(e)
    BY <1>1 DEF HubAsks, Sees, Awaiting
  <2> QED
    BY <1>1, <2>1, <2>2, <2>3, FreshnessKept DEF HubAsks
<1>2. ASSUME NEW d \in Drives, ChannelAsks(d)
      PROVE  DialogInv'
  <2>1. DialogTypeOK'
    BY <1>0, <1>2 DEF ChannelAsks, Goes, DialogTypeOK, DrivePlaces
  <2>2. NoneAdvances
    BY <1>0, <1>2 DEF ChannelAsks, Goes, DialogTypeOK, NoneAdvances, Awaiting
  <2>3. \A e \in Drives : Awaiting(e) => Sees(e)' \subseteq Sees(e)
    BY <1>2 DEF ChannelAsks, Sees, Awaiting
  <2> QED
    BY <1>2, <2>1, <2>2, <2>3, FreshnessKept DEF ChannelAsks
<1>3. ASSUME NEW d \in Drives, CallerHears(d) \/ CallerLeaves(d)
      PROVE  DialogInv'
  <2>1. DialogTypeOK'
    BY <1>0, <1>3 DEF CallerHears, CallerLeaves, DialogTypeOK
  <2> QED
    BY <1>3, <2>1, FreshnessKept DEF CallerHears, CallerLeaves, Sees, NoneAdvances, Awaiting
<1>4. ASSUME NEW d \in Drives, OpenDialog(d)
      PROVE  DialogInv'
  <2>1. \E place \in {"opening", "failed"} : at' = [at EXCEPT ![d] = place]
    BY <1>4 DEF OpenDialog, Goes
  <2>2. (screen' \subseteq Servers /\ left' \in [Drives -> SUBSET Servers])
        /\ \A e \in Drives : Sees(e)' \subseteq Sees(e)
    BY <1>0, <1>4, ClearedShowsLess DEF OpenDialog, DialogTypeOK, Sees
  <2>3. DialogTypeOK'
    BY <1>0, <1>4, <2>1, <2>2 DEF OpenDialog, DialogTypeOK, DrivePlaces
  <2>4. NoneAdvances
    BY <1>0, <2>1 DEF DialogTypeOK, NoneAdvances, Awaiting
  <2> QED
    BY <1>4, <2>2, <2>3, <2>4, FreshnessKept DEF OpenDialog
<1>5. ASSUME NEW d \in Drives, AwaitList(d) \/ AwaitMenu(d) \/ Judge(d)
      PROVE  DialogInv'
  <2>1. /\ \E place \in {"opened", "menu", "start", "failed"} : at' = [at EXCEPT ![d] = place]
        /\ attempt' \in [Drives -> 1..MaxAttempts]
    <3>1. CASE Retry(d) \/ Escape(d)
      BY <1>0, <3>1, RetryMoves
    <3>2. CASE UNCHANGED attempt /\ (Goes(d, "opened") \/ Goes(d, "menu") \/ Goes(d, "failed"))
      BY <1>0, <3>2 DEF Goes, DialogTypeOK
    <3> QED
      BY <1>5, <3>1, <3>2 DEF AwaitList, AwaitMenu, Judge
  <2>2. UNCHANGED <<server, callers, childUp, onChild, screen, left, proven>> /\ at[d] # "none"
    BY <1>5 DEF AwaitList, AwaitMenu, Judge
  <2>3. DialogTypeOK'
    BY <1>0, <2>1, <2>2 DEF DialogTypeOK, DrivePlaces
  <2>4. NoneAdvances
    BY <1>0, <2>1 DEF DialogTypeOK, NoneAdvances, Awaiting
  <2>5. \A e \in Drives : Sees(e)' = Sees(e)
    BY <2>2 DEF Sees
  <2> QED
    BY <2>2, <2>3, <2>4, <2>5, FreshnessKept
<1>6. ASSUME NEW d \in Drives, ChooseServer(d)
      PROVE  DialogInv'
  <2>1. \E place \in {"choosing", "failed"} : at' = [at EXCEPT ![d] = place]
    BY <1>6 DEF ChooseServer, Goes
  <2>2. (screen' \subseteq Servers /\ left' \in [Drives -> SUBSET Servers])
        /\ \A e \in Drives : Sees(e)' \subseteq Sees(e)
    BY <1>0, <1>6, ClearedShowsLess DEF ChooseServer, DialogTypeOK, Sees
  <2>3. DialogTypeOK'
    BY <1>0, <1>6, <2>1, <2>2 DEF ChooseServer, DialogTypeOK, DrivePlaces
  <2>4. NoneAdvances
    BY <1>0, <2>1 DEF DialogTypeOK, NoneAdvances, Awaiting
  <2> QED
    BY <1>6, <2>2, <2>3, <2>4, FreshnessKept DEF ChooseServer
<1>7. ASSUME NEW d \in Drives, ClearForDigit(d)
      PROVE  DialogInv'
  <2>0. UNCHANGED <<server, attempt, callers, childUp, onChild>> /\ at[d] = "menu"
    BY <1>7 DEF ClearForDigit
  <2>1. CASE Goes(d, "failed") /\ UNCHANGED <<screen, left, proven>>
    <3>1. DialogTypeOK' /\ NoneAdvances
      BY <1>0, <2>0, <2>1 DEF Goes, DialogTypeOK, DrivePlaces, NoneAdvances, Awaiting
    <3> QED
      BY <2>0, <2>1, <3>1, FreshnessKept DEF Sees
  <2>2. CASE Clears(d) /\ Goes(d, "cleared") /\ proven' = proven \ {d}
    <3>1. /\ Sees(d)' = {} /\ \A e \in Drives : Sees(e)' \subseteq Sees(e)
          /\ screen' \subseteq Servers /\ left' \in [Drives -> SUBSET Servers]
      BY <1>0, <2>0, <2>2, ClearedShowsLess
    <3>2. DialogTypeOK'
      BY <1>0, <2>0, <2>2, <3>1 DEF Goes, DialogTypeOK, DrivePlaces
    <3>3. \A e \in Drives : e # d => at'[e] = at[e] /\ (e \in proven' <=> e \in proven)
      BY <1>0, <2>2 DEF Goes, DialogTypeOK
    <3>4. at'[d] = "cleared"
      BY <1>0, <2>2 DEF Goes, DialogTypeOK
    <3>5. OkMeansReconnected'
      BY <3>3, <3>4 DEF DialogInv, OkMeansReconnected
    <3>6. ConfirmationIsFresh'
      <4> SUFFICES ASSUME NEW e \in Drives, Awaiting(e)', server[e] \in Sees(e)'
                   PROVE  e \in proven'
        BY <2>0 DEF ConfirmationIsFresh
      <4>1. e # d /\ server[e] \in Sees(e)
        BY <3>1
      <4> QED
        BY <3>3, <4>1 DEF DialogInv, ConfirmationIsFresh, Awaiting
    <3> QED
      BY <3>2, <3>5, <3>6 DEF DialogInv
  <2> QED
    BY <1>7, <2>1, <2>2 DEF ClearForDigit
<1>14. ASSUME NEW d \in Drives, PressReconnect(d)
      PROVE  DialogInv'
  <2>1. UNCHANGED <<server, attempt, callers, childUp, onChild, screen, left, proven>>
        /\ at[d] = "cleared" /\ (Goes(d, "pressed") \/ Goes(d, "failed"))
    BY <1>14 DEF PressReconnect
  <2>2. DialogTypeOK' /\ NoneAdvances
    BY <1>0, <2>1 DEF Goes, DialogTypeOK, DrivePlaces, NoneAdvances, Awaiting
  <2>3. \A e \in Drives : Sees(e)' = Sees(e)
    BY <2>1 DEF Sees
  <2> QED
    BY <2>1, <2>2, <2>3, FreshnessKept
<1>8. ASSUME NEW d \in Drives, AwaitConfirmation(d)
      PROVE  DialogInv'
  <2>0. /\ UNCHANGED <<server, attempt, callers, childUp, onChild, screen, left, proven>>
        /\ at[d] = "pressed"
    BY <1>8 DEF AwaitConfirmation
  <2>1. \A e \in Drives : Sees(e)' = Sees(e)
    BY <2>0 DEF Sees
  <2>2. CASE server[d] \in Sees(d) /\ Goes(d, "ok")
    <3>1. DialogTypeOK' /\ \A e \in Drives : e # d => at'[e] = at[e]
      BY <1>0, <2>0, <2>2 DEF Goes, DialogTypeOK, DrivePlaces
    <3>2. at'[d] = "ok" /\ d \in proven
      BY <1>0, <2>0, <2>2 DEF Goes, DialogTypeOK, DialogInv, ConfirmationIsFresh, Awaiting
    <3> QED
      BY <2>0, <2>1, <3>1, <3>2 DEF DialogInv, OkMeansReconnected, ConfirmationIsFresh, Awaiting
  <2>3. CASE Goes(d, "judging")
    <3>1. DialogTypeOK' /\ NoneAdvances
      BY <1>0, <2>0, <2>3 DEF Goes, DialogTypeOK, DrivePlaces, NoneAdvances, Awaiting
    <3> QED
      BY <2>0, <2>1, <3>1, FreshnessKept
  <2> QED
    BY <1>8, <2>2, <2>3 DEF AwaitConfirmation
<1>9. ASSUME NEW s \in Servers, Confirms(s)
      PROVE  DialogInv'
  <2>1. DialogTypeOK'
    BY <1>0, <1>9 DEF Confirms, DialogTypeOK
  <2>2. OkMeansReconnected'
    BY <1>9 DEF Confirms, DialogInv, OkMeansReconnected
  <2>3. ConfirmationIsFresh'
    <3> SUFFICES ASSUME NEW e \in Drives, Awaiting(e), server[e] \in Sees(e)',
                        e \notin proven
                 PROVE  e \in onChild /\ server[e] = s
      BY <1>9 DEF Confirms, ConfirmationIsFresh, Awaiting
    <3> QED
      BY <1>9 DEF Confirms, Sees, DialogInv, ConfirmationIsFresh, Awaiting
  <2> QED
    BY <2>1, <2>2, <2>3 DEF DialogInv
<1>10. CASE ScreenCleared
  <2>1. DialogTypeOK'
    BY <1>0, <1>10 DEF ScreenCleared, DialogTypeOK
  <2> QED
    BY <1>10, <2>1, FreshnessKept DEF ScreenCleared, Sees, NoneAdvances, Awaiting
<1>11. CASE ChildExits
  <2>1. DialogTypeOK'
    BY <1>0, <1>11 DEF ChildExits, DialogTypeOK
  <2>2. \A e \in Drives : Awaiting(e) => Sees(e)' \subseteq Sees(e)
    BY <1>0, <1>11 DEF ChildExits, Sees, Underway, Over, Awaiting, DialogTypeOK
  <2> QED
    BY <1>11, <2>1, <2>2, FreshnessKept DEF ChildExits, NoneAdvances, Awaiting
<1>12. CASE ChildStarts
  <2>1. DialogTypeOK'
    BY <1>0, <1>12 DEF ChildStarts, DialogTypeOK
  <2> QED
    BY <1>12, <2>1, FreshnessKept DEF ChildStarts, Sees, NoneAdvances, Awaiting
<1>13. CASE UNCHANGED dialogVars
  <2>1. DialogTypeOK'
    BY <1>0, <1>13 DEF dialogVars, DialogTypeOK
  <2> QED
    BY <1>13, <2>1, FreshnessKept DEF dialogVars, Sees, NoneAdvances, Awaiting
<1> QED
  BY <1>1, <1>2, <1>3, <1>4, <1>5, <1>6, <1>7, <1>8, <1>9, <1>10, <1>11, <1>12, <1>13, <1>14
     DEF DialogNext, DriveStep

\* The invariant holds in every state.
THEOREM DialogInvariant == DialogSpec => []DialogInv
BY DialogInvInit, DialogInvNext, PTL DEF DialogSpec

\* The state of the dialog has its type.
THEOREM DialogTypeCorrect == DialogSpec => []DialogTypeOK
<1>1. DialogInv => DialogTypeOK
  BY DEF DialogInv
<1> QED
  BY <1>1, DialogInvariant, PTL

\* No reconnect is reported as done whose server was not confirmed since the drive
\* cleared the buffer for its digit (_attempt_reconnect_mcp,
\* _retry_reconnect_attempts).
THEOREM DialogReportsTruly == DialogSpec => []OkMeansReconnected
<1>1. DialogInv => OkMeansReconnected
  BY DEF DialogInv
<1> QED
  BY <1>1, DialogInvariant, PTL
-----------------------------------------------------------------------------
\* The approval exchange.

\* A permission_request is read once: none is twice among those that wait to be
\* read, and the one in hand is not among them.
AsksAreReadOnce ==
    /\ \A i, j \in DOMAIN asks : asks[i] = asks[j] => i = j
    /\ \A i \in DOMAIN asks : asks[i] # handling
    /\ handling \in asked \cup {NoCall}

\* The calls whose request the channel has posted, as far as that matters still.
PostedCalls ==
    answered \cup {c \in Calls : \/ \E i \in DOMAIN requests : requests[i].call = c
                                 \/ \E h \in Calls : matched[h] = c
                                 \/ handling = c /\ step # "post"}

\* What was posted is not posted again.
PostedOnce ==
    \A c \in PostedCalls : /\ c \in asked /\ ~(handling = c /\ step = "post")
                           /\ \A i \in DOMAIN asks : asks[i] # c

\* A hook resolves the request of a call of its own tool.
PairsAreOfOneTool ==
    \A h \in Calls : /\ matched[h] # NoCall => tool[matched[h]] = tool[h]
                     /\ hookAt[h] = "posting" => matched[h] # NoCall
                     /\ hookAt[h] \in {"none", "rating"} => matched[h] = NoCall

ExchangeSound ==
    ExchangeTypeOK /\ AsksAreReadOnce /\ PostedOnce /\ PairsAreOfOneTool /\ onWire \subseteq unsure

ExchangeInv == ExchangeSound /\ ResolvedIsNotPending /\ ApprovalSpentOnce

\* What is kept of a bank is a bank of the entries it had, and of each tool no more
\* of them than there were at the places that are kept.
LEMMA KeptOfBank ==
    ASSUME NEW bank \in Seq(Banked), NEW S \in SUBSET DOMAIN bank, NEW t
    PROVE  /\ Kept(bank, S) \in Seq(Banked)
           /\ \A k \in DOMAIN Kept(bank, S) : \E i \in S : Kept(bank, S)[k] = bank[i]
           /\ IsFiniteSet(Places(bank, t))
           /\ Cardinality(Places(Kept(bank, S), t)) \in Nat
           /\ Cardinality(Places(Kept(bank, S), t)) <= Cardinality(Places(bank, t) \cap S)
<1> DEFINE kept == Kept(bank, S)
           P == Places(kept, t)
           Q == Places(bank, t) \cap S
           f == [k \in P |-> Nth(k, S)]
<1>1. /\ kept \in Seq(Banked) /\ DOMAIN kept = 1..Cardinality(S) /\ IsFiniteSet(S)
      /\ \A k \in 1..Cardinality(S) : Nth(k, S) \in S /\ kept[k] = bank[Nth(k, S)] /\ Nth(k, S) \in Nat
      /\ \A k, l \in 1..Cardinality(S) : k < l => Nth(k, S) < Nth(l, S)
  BY KeptIsSubsequence
<1>2. IsFiniteSet(Places(bank, t))
  <2>1. DOMAIN bank \in SUBSET DOMAIN bank
    OBVIOUS
  <2>2. IsFiniteSet(DOMAIN bank)
    BY <2>1, KeptIsSubsequence
  <2> QED
    BY <2>2, FS_Subset DEF Places
<1> HIDE DEF kept
<1>3. P \subseteq 1..Cardinality(S) /\ \A k \in P : Nth(k, S) \in Q
  BY <1>1 DEF Places
<1>4. \A k, l \in P : Nth(k, S) = Nth(l, S) => k = l
  <2> SUFFICES ASSUME NEW k \in P, NEW l \in P, Nth(k, S) = Nth(l, S) PROVE k = l
    OBVIOUS
  <2>1. /\ k \in 1..Cardinality(S) /\ l \in 1..Cardinality(S)
        /\ Nth(k, S) \in Nat /\ Nth(l, S) \in Nat
        /\ (k < l => Nth(k, S) < Nth(l, S)) /\ (l < k => Nth(l, S) < Nth(k, S))
    BY <1>1, <1>3
  <2>2. Cardinality(S) \in Nat
    BY <1>1, FS_CardinalityType
  <2> QED
    BY <2>1, <2>2, SMT
<1>5. f \in Injection(P, Q)
  <2> HIDE DEF P, Q
  <2> QED
    BY <1>3, <1>4, Zenon DEF Injection, IsInjective
<1>6. IsFiniteSet(Q)
  BY <1>2, FS_Subset
<1>7. IsFiniteSet(P) /\ Cardinality(P) <= Cardinality(Q)
  <2> HIDE DEF P, Q, f
  <2> QED
    BY <1>5, <1>6, FS_Injection
<1>8. Cardinality(P) \in Nat
  BY <1>7, FS_CardinalityType
<1> QED
  BY <1>1, <1>2, <1>7, <1>8 DEF kept

\* A bank holds a number of entries of each tool.
LEMMA PlacesAreCounted ==
    ASSUME NEW bank \in Seq(Banked), NEW t
    PROVE  IsFiniteSet(Places(bank, t)) /\ Cardinality(Places(bank, t)) \in Nat
<1>1. DOMAIN bank \in SUBSET DOMAIN bank
  OBVIOUS
<1> QED
  BY <1>1, KeptOfBank, FS_CardinalityType

\* A bank that is reaped has of each tool no more entries than before.
LEMMA ReapedBank ==
    ASSUME NEW bank \in Seq(Banked)
    PROVE  /\ Reaped(bank) \in Seq(Banked)
           /\ \A k \in DOMAIN Reaped(bank) : \E i \in DOMAIN bank : Reaped(bank)[k] = bank[i]
           /\ \A t : Cardinality(Places(Reaped(bank), t)) <= Cardinality(Places(bank, t))
<1> DEFINE S == {i \in DOMAIN bank : ~bank[i].old}
<1>1. S \in SUBSET DOMAIN bank /\ Reaped(bank) = Kept(bank, S)
  BY DEF Reaped
<1> HIDE DEF S
<1>2. ASSUME NEW t PROVE Cardinality(Places(Reaped(bank), t)) <= Cardinality(Places(bank, t))
  <2> DEFINE n == Cardinality(Places(Reaped(bank), t))
             m == Cardinality(Places(bank, t) \cap S)
             k == Cardinality(Places(bank, t))
  <2>1. n \in Nat /\ n <= m /\ IsFiniteSet(Places(bank, t))
    BY <1>1, KeptOfBank
  <2>2. m <= k /\ IsFiniteSet(Places(bank, t) \cap S)
    BY <2>1, FS_Subset
  <2>3. m \in Nat /\ k \in Nat
    BY <2>1, <2>2, FS_CardinalityType
  <2> HIDE DEF n, m, k
  <2>4. n <= k
    BY <2>1, <2>2, <2>3, SMT
  <2> QED
    BY <2>4 DEF n, k
<1>3. /\ Kept(bank, S) \in Seq(Banked)
      /\ \A k \in DOMAIN Kept(bank, S) : \E i \in S : Kept(bank, S)[k] = bank[i]
  BY <1>1, KeptOfBank
<1>4. \A k \in DOMAIN Reaped(bank) : \E i \in DOMAIN bank : Reaped(bank)[k] = bank[i]
  BY <1>1, <1>3
<1> QED
  BY <1>1, <1>2, <1>3, <1>4

\* The oldest entry of a tool is spent: one entry less of that tool, and no more
\* of any other.
LEMMA SpentBank ==
    ASSUME NEW bank \in Seq(Banked), NEW t, Places(bank, t) # {}
    PROVE  /\ Oldest(bank, t) \in DOMAIN bank /\ tool[bank[Oldest(bank, t)].call] = t
           /\ Spent(bank, t) \in Seq(Banked)
           /\ \A k \in DOMAIN Spent(bank, t) : \E i \in DOMAIN bank : Spent(bank, t)[k] = bank[i]
           /\ \A u : Cardinality(Places(Spent(bank, t), u)) <= Cardinality(Places(bank, u))
           /\ Cardinality(Places(Spent(bank, t), t)) + 1 <= Cardinality(Places(bank, t))
<1> DEFINE o == Oldest(bank, t)
           S == DOMAIN bank \ {o}
<1>1. Places(bank, t) \in SUBSET Nat /\ \A u : IsFiniteSet(Places(bank, u)) /\ Cardinality(Places(bank, u)) \in Nat
  <2>1. DOMAIN bank \subseteq Nat
    BY SMT
  <2> QED
    BY <2>1, PlacesAreCounted DEF Places
<1>2. o \in Places(bank, t)
  BY <1>1, LeastAndGreatest DEF Oldest
<1>3. o \in DOMAIN bank /\ tool[bank[o].call] = t
  BY <1>2 DEF Places
<1> HIDE DEF o
<1>4. S \in SUBSET DOMAIN bank /\ Spent(bank, t) = Kept(bank, S)
  BY DEF Spent, o
<1>5. \A u : Places(bank, u) \cap S = Places(bank, u) \ {o}
  BY DEF Places
<1> HIDE DEF S
<1>6. ASSUME NEW u
      PROVE  /\ Cardinality(Places(Spent(bank, t), u)) <= Cardinality(Places(bank, u))
             /\ u = t => Cardinality(Places(Spent(bank, t), u)) + 1 <= Cardinality(Places(bank, u))
  <2> DEFINE n == Cardinality(Places(Spent(bank, t), u))
             m == Cardinality(Places(bank, u) \ {o})
             k == Cardinality(Places(bank, u))
  <2>1. n \in Nat /\ n <= m
    BY <1>4, <1>5, KeptOfBank
  <2>2. k \in Nat /\ m = IF o \in Places(bank, u) THEN k - 1 ELSE k
    BY <1>1, FS_RemoveElement
  <2>3. u = t => o \in Places(bank, u)
    BY <1>2
  <2> HIDE DEF n, m, k
  <2>4. n <= k /\ (u = t => n + 1 <= k)
    BY <2>1, <2>2, <2>3, SMT
  <2> QED
    BY <2>4 DEF n, k
<1>7. /\ Kept(bank, S) \in Seq(Banked)
      /\ \A k \in DOMAIN Kept(bank, S) : \E i \in S : Kept(bank, S)[k] = bank[i]
  BY <1>4, KeptOfBank
<1>8. \A k \in DOMAIN Spent(bank, t) : \E i \in DOMAIN bank : Spent(bank, t)[k] = bank[i]
  BY <1>4, <1>7
<1> QED
  BY <1>3, <1>4, <1>6, <1>7, <1>8 DEF o

\* A bank that c is banked in: one entry more, of its tool.
LEMMA GrownBank ==
    ASSUME NEW bank \in Seq(Banked), NEW c \in Calls
    PROVE  /\ With(bank, c) \in Seq(Banked)
           /\ \A k \in DOMAIN With(bank, c) :
                 With(bank, c)[k].call = c \/ \E i \in DOMAIN bank : With(bank, c)[k] = bank[i]
           /\ \A t : Cardinality(Places(With(bank, c), t)) <=
                        Cardinality(Places(bank, t)) + (IF tool[c] = t THEN 1 ELSE 0)
<1> DEFINE e == [call |-> c, old |-> FALSE]
           n == Len(bank)
           new == With(bank, c)
<1>1. e \in Banked /\ e.call = c
  BY DEF Banked
<1> HIDE DEF e
<1>2. new = Append(bank, e)
  BY DEF With, e
<1> HIDE DEF new
<1>3. /\ new \in Seq(Banked) /\ n \in Nat /\ DOMAIN bank = 1..n /\ DOMAIN new = 1..(n + 1)
      /\ new[n + 1] = e /\ \A k \in 1..n : new[k] = bank[k]
  BY <1>1, <1>2, SMT
<1>4. 1..(n + 1) = (1..n) \cup {n + 1} /\ n + 1 \notin 1..n
  BY <1>3, SMT
<1>5. \A k \in DOMAIN new : new[k].call = c \/ \E i \in DOMAIN bank : new[k] = bank[i]
  BY <1>1, <1>3, <1>4
<1>6. ASSUME NEW t
      PROVE  Cardinality(Places(new, t)) <= Cardinality(Places(bank, t)) + (IF tool[c] = t THEN 1 ELSE 0)
  <2>1. Cardinality(Places(bank, t)) \in Nat /\ IsFiniteSet(Places(bank, t))
    BY PlacesAreCounted
  <2>2. CASE tool[c] = t
    <3>1. Places(new, t) = Places(bank, t) \cup {n + 1} /\ n + 1 \notin Places(bank, t)
      <4>1. tool[new[n + 1].call] = t /\ DOMAIN new = (DOMAIN bank) \cup {n + 1} /\ n + 1 \notin DOMAIN bank
        BY <1>1, <1>3, <1>4, <2>2
      <4>2. \A k \in DOMAIN bank : new[k] = bank[k]
        BY <1>3
      <4> HIDE DEF n
      <4> QED
        BY <4>1, <4>2 DEF Places
    <3>2. Cardinality(Places(new, t)) = Cardinality(Places(bank, t)) + 1
      BY <2>1, <3>1, FS_AddElement
    <3> QED
      BY <2>1, <2>2, <3>2, SMT
  <2>3. CASE tool[c] # t
    <3>1. Places(new, t) = Places(bank, t)
      <4>1. tool[new[n + 1].call] # t /\ DOMAIN new = (DOMAIN bank) \cup {n + 1}
        BY <1>1, <1>3, <1>4, <2>3
      <4>2. \A k \in DOMAIN bank : new[k] = bank[k]
        BY <1>3
      <4> HIDE DEF n
      <4> QED
        BY <4>1, <4>2 DEF Places
    <3> QED
      BY <2>1, <2>3, <3>1, SMT
  <2> QED
    BY <2>2, <2>3
<1> QED
  BY <1>3, <1>5, <1>6 DEF new

\* An offered request spends a banked approval of its tool, or is banked itself.
LEMMA RequestOffered ==
    ASSUME ExchangeTypeOK, NEW c \in Calls, NEW hit \in BOOLEAN, OfferRequest(c, hit)
    PROVE  /\ requests' \in Seq(Banked) /\ approvals' \in Seq(Banked)
           /\ \A k \in DOMAIN requests' :
                 (~hit /\ requests'[k].call = c) \/ \E i \in DOMAIN requests : requests'[k].call = requests[i].call
           /\ \A t : Cardinality(Places(approvals', t)) + (IF hit /\ tool[c] = t THEN 1 ELSE 0)
                        <= Cardinality(Places(approvals, t))
<1> DEFINE A == Reaped(approvals)
           R == Reaped(requests)
           u == tool[c]
<1>1. /\ requests \in Seq(Banked) /\ approvals \in Seq(Banked)
      /\ A \in Seq(Banked) /\ R \in Seq(Banked)
      /\ \A k \in DOMAIN R : \E i \in DOMAIN requests : R[k] = requests[i]
      /\ \A t : Cardinality(Places(A, t)) <= Cardinality(Places(approvals, t))
  BY ReapedBank DEF ExchangeTypeOK
<1>2. /\ hit = (Places(A, u) # {})
      /\ approvals' = IF hit THEN Spent(A, u) ELSE A
      /\ requests' = IF hit THEN R ELSE With(R, c)
  BY DEF OfferRequest
<1> HIDE DEF A, R, u
<1>3. \A t : /\ Cardinality(Places(approvals, t)) \in Nat /\ Cardinality(Places(A, t)) \in Nat
             /\ approvals' \in Seq(Banked) => Cardinality(Places(approvals', t)) \in Nat
  BY <1>1, PlacesAreCounted
<1>4. CASE hit
  <2>1. approvals' = Spent(A, u) /\ requests' = R /\ Places(A, u) # {}
    BY <1>2, <1>4
  <2>2. /\ approvals' \in Seq(Banked)
        /\ \A t : Cardinality(Places(approvals', t)) <= Cardinality(Places(A, t))
        /\ Cardinality(Places(approvals', u)) + 1 <= Cardinality(Places(A, u))
    BY <1>1, <2>1, SpentBank
  <2>3. ASSUME NEW t
        PROVE  Cardinality(Places(approvals', t)) + (IF hit /\ u = t THEN 1 ELSE 0)
                  <= Cardinality(Places(approvals, t))
    <3> DEFINE x == Cardinality(Places(approvals', t))
               y == Cardinality(Places(A, t))
               z == Cardinality(Places(approvals, t))
    <3>1. x \in Nat /\ y \in Nat /\ z \in Nat /\ x <= y /\ y <= z /\ (u = t => x + 1 <= y)
      BY <1>1, <1>3, <2>2
    <3> HIDE DEF x, y, z
    <3>2. x + 1 <= z \/ u # t
      BY <3>1, SMT
    <3>3. x + 0 <= z
      BY <3>1, SMT
    <3> QED
      BY <1>4, <3>2, <3>3 DEF x, z
  <2>4. \A k \in DOMAIN requests' : \E i \in DOMAIN requests : requests'[k].call = requests[i].call
    BY <1>1, <2>1
  <2> QED
    BY <1>1, <1>4, <2>1, <2>2, <2>3, <2>4 DEF u
<1>5. CASE ~hit
  <2>1. approvals' = A /\ requests' = With(R, c)
    BY <1>2, <1>5
  <2>2. /\ requests' \in Seq(Banked)
        /\ \A k \in DOMAIN requests' : requests'[k].call = c \/ \E i \in DOMAIN R : requests'[k] = R[i]
    BY <1>1, <2>1, GrownBank
  <2>3. \A k \in DOMAIN requests' :
           (~hit /\ requests'[k].call = c) \/ \E i \in DOMAIN requests : requests'[k].call = requests[i].call
    BY <1>1, <1>5, <2>2
  <2>4. ASSUME NEW t
        PROVE  Cardinality(Places(approvals', t)) + (IF hit /\ u = t THEN 1 ELSE 0)
                  <= Cardinality(Places(approvals, t))
    <3> DEFINE x == Cardinality(Places(approvals', t))
               z == Cardinality(Places(approvals, t))
    <3>1. x \in Nat /\ z \in Nat /\ x <= z
      BY <1>1, <1>3, <2>1
    <3> HIDE DEF x, z
    <3>2. x + 0 <= z
      BY <3>1, SMT
    <3> QED
      BY <1>5, <3>2 DEF x, z
  <2> QED
    BY <1>1, <2>1, <2>2, <2>3, <2>4 DEF u
<1> QED
  BY <1>4, <1>5

\* An offered approval meets a banked request of its tool, which its hook resolves
\* next, or is banked itself.
LEMMA ApprovalOffered ==
    ASSUME ExchangeTypeOK, NEW c \in Calls, OfferApproval(c)
    PROVE  \E hit \in BOOLEAN, m \in Calls \cup {NoCall} :
              /\ matched' = [matched EXCEPT ![c] = m]
              /\ hookAt' = [hookAt EXCEPT ![c] = IF hit THEN "posting" ELSE "allowed"]
              /\ requests' \in Seq(Banked) /\ approvals' \in Seq(Banked)
              /\ \A k \in DOMAIN requests' : \E i \in DOMAIN requests : requests'[k].call = requests[i].call
              /\ hit => /\ m \in Calls /\ tool[m] = tool[c]
                        /\ \E i \in DOMAIN requests : requests[i].call = m
              /\ ~hit => m = NoCall
              /\ \A t : Cardinality(Places(approvals', t)) <=
                           Cardinality(Places(approvals, t)) + (IF ~hit /\ tool[c] = t THEN 1 ELSE 0)
<1> DEFINE A == Reaped(approvals)
           R == Reaped(requests)
           u == tool[c]
           hit == Places(R, u) # {}
           m == IF hit THEN R[Oldest(R, u)].call ELSE NoCall
<1>1. /\ requests \in Seq(Banked) /\ approvals \in Seq(Banked)
      /\ A \in Seq(Banked) /\ R \in Seq(Banked)
      /\ \A k \in DOMAIN R : \E i \in DOMAIN requests : R[k] = requests[i]
      /\ \A t : Cardinality(Places(A, t)) <= Cardinality(Places(approvals, t))
  BY ReapedBank DEF ExchangeTypeOK
<1>2. /\ requests' = IF hit THEN Spent(R, u) ELSE R
      /\ approvals' = IF hit THEN A ELSE With(A, c)
      /\ matched' = [matched EXCEPT ![c] = m]
      /\ hookAt' = [hookAt EXCEPT ![c] = IF hit THEN "posting" ELSE "allowed"]
  BY DEF OfferApproval
<1> HIDE DEF A, R, u
<1>3. \A t : /\ Cardinality(Places(approvals, t)) \in Nat /\ Cardinality(Places(A, t)) \in Nat
             /\ approvals' \in Seq(Banked) => Cardinality(Places(approvals', t)) \in Nat
  BY <1>1, PlacesAreCounted
<1>4. CASE hit
  <2>1. requests' = Spent(R, u) /\ approvals' = A /\ m = R[Oldest(R, u)].call
    BY <1>2, <1>4
  <2>2. /\ Oldest(R, u) \in DOMAIN R /\ tool[m] = u
        /\ requests' \in Seq(Banked)
        /\ \A k \in DOMAIN requests' : \E i \in DOMAIN R : requests'[k] = R[i]
    BY <1>1, <1>4, <2>1, SpentBank
  <2>3. \E i \in DOMAIN requests : requests[i].call = m
    BY <1>1, <2>1, <2>2
  <2>4. m \in Calls
    <3>1. \A i \in DOMAIN requests : requests[i] \in Banked
      BY <1>1, SMT
    <3> QED
      BY <2>3, <3>1 DEF Banked
  <2>5. \A k \in DOMAIN requests' : \E i \in DOMAIN requests : requests'[k].call = requests[i].call
    <3> SUFFICES ASSUME NEW k \in DOMAIN requests'
                 PROVE  \E i \in DOMAIN requests : requests'[k].call = requests[i].call
      OBVIOUS
    <3>1. PICK i \in DOMAIN R : requests'[k] = R[i]
      BY <2>2
    <3>2. PICK j \in DOMAIN requests : R[i] = requests[j]
      BY <1>1
    <3> QED
      BY <3>1, <3>2
  <2>6. ASSUME NEW t
        PROVE  Cardinality(Places(approvals', t)) <= Cardinality(Places(approvals, t)) + 0
    <3>1. /\ Cardinality(Places(approvals', t)) \in Nat /\ Cardinality(Places(approvals, t)) \in Nat
          /\ Cardinality(Places(approvals', t)) <= Cardinality(Places(approvals, t))
      BY <1>1, <1>3, <2>1
    <3> QED
      BY <3>1, SMT
  <2> HIDE DEF m, hit
  <2>7. /\ ~~hit /\ m \in Calls \cup {NoCall} /\ TRUE \in BOOLEAN
        /\ hookAt' = [hookAt EXCEPT ![c] = IF TRUE THEN "posting" ELSE "allowed"]
        /\ \A t : Cardinality(Places(approvals', t)) <=
                     Cardinality(Places(approvals, t)) + (IF ~TRUE /\ tool[c] = t THEN 1 ELSE 0)
    BY <1>2, <1>4, <2>4, <2>6
  <2> QED
    BY <1>1, <1>2, <2>1, <2>2, <2>3, <2>4, <2>5, <2>7 DEF u
<1>5. CASE ~hit
  <2>1. requests' = R /\ approvals' = With(A, c) /\ m = NoCall
    BY <1>2, <1>5
  <2>2. /\ approvals' \in Seq(Banked)
        /\ \A t : Cardinality(Places(approvals', t)) <=
                     Cardinality(Places(A, t)) + (IF u = t THEN 1 ELSE 0)
    BY <1>1, <2>1, GrownBank DEF u
  <2>3. \A k \in DOMAIN requests' : \E i \in DOMAIN requests : requests'[k].call = requests[i].call
    BY <1>1, <2>1
  <2>4. ASSUME NEW t
        PROVE  Cardinality(Places(approvals', t)) <=
                  Cardinality(Places(approvals, t)) + (IF u = t THEN 1 ELSE 0)
    <3> DEFINE x == Cardinality(Places(approvals', t))
               y == Cardinality(Places(A, t))
               z == Cardinality(Places(approvals, t))
               d == IF u = t THEN 1 ELSE 0
    <3>1. x \in Nat /\ y \in Nat /\ z \in Nat /\ d \in Nat /\ x <= y + d /\ y <= z
      BY <1>1, <1>3, <2>2
    <3> HIDE DEF x, y, z, d
    <3>2. x <= z + d
      BY <3>1, SMT
    <3> QED
      BY <3>2 DEF x, z, d
  <2> HIDE DEF m, hit
  <2>5. /\ m \in Calls \cup {NoCall} /\ FALSE \in BOOLEAN
        /\ hookAt' = [hookAt EXCEPT ![c] = IF FALSE THEN "posting" ELSE "allowed"]
        /\ \A t : Cardinality(Places(approvals', t)) <=
                     Cardinality(Places(approvals, t)) + (IF ~FALSE /\ tool[c] = t THEN 1 ELSE 0)
    BY <1>2, <1>5, <2>1, <2>4 DEF u
  <2> QED
    BY <1>1, <1>2, <2>1, <2>2, <2>3, <2>5
<1> QED
  BY <1>4, <1>5

\* An entry that grows old stays the entry of its call, in its place.
LEMMA AgedBank ==
    ASSUME NEW bank \in Seq(Banked), NEW next,
           next = bank \/ \E i \in DOMAIN bank : next = [bank EXCEPT ![i].old = TRUE]
    PROVE  /\ next \in Seq(Banked) /\ DOMAIN next = DOMAIN bank
           /\ \A k \in DOMAIN bank : next[k].call = bank[k].call
<1>1. CASE next = bank
  BY <1>1
<1>2. ASSUME NEW i \in DOMAIN bank, next = [bank EXCEPT ![i].old = TRUE]
      PROVE  /\ next \in Seq(Banked) /\ DOMAIN next = DOMAIN bank
             /\ \A k \in DOMAIN bank : next[k].call = bank[k].call
  <2>1. /\ Len(bank) \in Nat /\ DOMAIN bank = 1..Len(bank) /\ bank \in [1..Len(bank) -> Banked]
    BY SMT
  <2> DEFINE aged == [bank[i] EXCEPT !.old = TRUE]
  <2>2. bank[i] \in Banked
    BY <2>1, <1>2
  <2>3. aged \in Banked /\ aged.call = bank[i].call
    BY <2>2 DEF Banked
  <2>4. next = [bank EXCEPT ![i] = aged]
    BY <1>2
  <2> HIDE DEF aged
  <2>5. next \in [1..Len(bank) -> Banked]
    BY <1>2, <2>1, <2>3, <2>4
  <2>6. DOMAIN next = DOMAIN bank
    BY <2>4
  <2>7. \A k \in DOMAIN bank : next[k] = IF k = i THEN aged ELSE bank[k]
    BY <2>4
  <2>8. next \in Seq(Banked)
    BY <2>1, <2>5, SMT
  <2> QED
    BY <2>3, <2>6, <2>7, <2>8
<1> QED
  BY <1>1, <1>2

\* Nothing was asked, posted or allowed at first.
LEMMA ExchangeInvInit == ExchangeInit => ExchangeInv
<1> SUFFICES ASSUME ExchangeInit PROVE ExchangeInv
  OBVIOUS
<1>1. ExchangeTypeOK
  <2>1. asks \in Seq(asked) /\ requests \in Seq(Banked) /\ approvals \in Seq(Banked)
    BY SMT DEF ExchangeInit
  <2> QED
    BY <2>1 DEF ExchangeInit, ExchangeTypeOK
<1>2. AsksAreReadOnce /\ PostedOnce /\ PairsAreOfOneTool /\ onWire \subseteq unsure
  BY ExchangeAssumption
     DEF ExchangeInit, AsksAreReadOnce, PostedOnce, PostedCalls, PairsAreOfOneTool
<1>3. ResolvedIsNotPending
  BY DEF ExchangeInit, ResolvedIsNotPending
<1>4. ApprovalSpentOnce
  <2> SUFFICES ASSUME NEW t \in Tools
               PROVE  Cardinality({c \in answered : tool[c] = t})
                        + Cardinality({c \in {d \in Calls : handling = d /\ step = "resolve"} : tool[c] = t})
                        + Cardinality({c \in {d \in Calls : hookAt[d] = "posting"} : tool[c] = t})
                        + Cardinality(Places(approvals, t))
                      <= Cardinality({c \in {d \in Calls : \/ hookAt[d] \in {"posting", "allowed"}
                                                           \/ matched[d] # NoCall} : tool[c] = t})
    BY DEF ApprovalSpentOnce
  <2>1. /\ {c \in answered : tool[c] = t} = {}
        /\ {c \in {d \in Calls : handling = d /\ step = "resolve"} : tool[c] = t} = {}
        /\ {c \in {d \in Calls : hookAt[d] = "posting"} : tool[c] = t} = {}
        /\ {c \in {d \in Calls : hookAt[d] \in {"posting", "allowed"} \/ matched[d] # NoCall} : tool[c] = t} = {}
        /\ Places(approvals, t) = {}
    BY DEF ExchangeInit, Places
  <2>2. Cardinality({}) = 0 /\ 0 + 0 + 0 + 0 <= 0
    BY FS_EmptySet, SMT
  <2> QED
    BY <2>1, <2>2
<1> QED
  BY <1>1, <1>2, <1>3, <1>4 DEF ExchangeInv, ExchangeSound

\* The hook side keeps the exchange sound.
LEMMA HooksKeepSound ==
    ASSUME ExchangeSound, NEW c \in Calls,
           HookAsks(c) \/ HookAllows(c) \/ HookDefers(c) \/ HookResolves(c)
    PROVE  ExchangeSound'
<1>1. ExchangeTypeOK /\ AsksAreReadOnce /\ PostedOnce /\ PairsAreOfOneTool /\ onWire \subseteq unsure
  BY DEF ExchangeSound
<1>2. CASE HookAsks(c) \/ HookDefers(c)
  <2>1. /\ UNCHANGED <<tool, matched, channelSide, banks, hubSide>>
        /\ \E place \in {"rating", "deferred"} : hookAt' = [hookAt EXCEPT ![c] = place]
        /\ hookAt[c] \in {"none", "rating"}
    BY <1>2 DEF HookAsks, HookDefers
  <2>2. ExchangeTypeOK'
    BY <1>1, <2>1 DEF ExchangeTypeOK, channelSide, banks, hubSide
  <2>3. AsksAreReadOnce' /\ PostedOnce' /\ (onWire \subseteq unsure)'
    BY <1>1, <2>1 DEF AsksAreReadOnce, PostedOnce, PostedCalls, channelSide, banks, hubSide
  <2>4. PairsAreOfOneTool'
    BY <1>1, <2>1 DEF PairsAreOfOneTool, ExchangeTypeOK
  <2> QED
    BY <2>2, <2>3, <2>4 DEF ExchangeSound
<1>3. CASE HookAllows(c)
  <2>1. OfferApproval(c) /\ UNCHANGED <<tool, channelSide, hubSide>> /\ hookAt[c] = "rating"
    BY <1>3 DEF HookAllows
  <2>2. PICK hit \in BOOLEAN, m \in Calls \cup {NoCall} :
              /\ matched' = [matched EXCEPT ![c] = m]
              /\ hookAt' = [hookAt EXCEPT ![c] = IF hit THEN "posting" ELSE "allowed"]
              /\ requests' \in Seq(Banked) /\ approvals' \in Seq(Banked)
              /\ \A k \in DOMAIN requests' : \E i \in DOMAIN requests : requests'[k].call = requests[i].call
              /\ hit => /\ m \in Calls /\ tool[m] = tool[c]
                        /\ \E i \in DOMAIN requests : requests[i].call = m
              /\ ~hit => m = NoCall
    BY <1>1, <2>1, ApprovalOffered
  <2>3. ExchangeTypeOK'
    BY <1>1, <2>1, <2>2 DEF ExchangeTypeOK, channelSide, hubSide
  <2>4. PostedCalls' \subseteq PostedCalls
    <3> SUFFICES ASSUME NEW x \in PostedCalls' PROVE x \in PostedCalls
      OBVIOUS
    <3>1. CASE x \in answered' \/ (x \in Calls /\ handling' = x /\ step' # "post")
      BY <2>1, <3>1 DEF PostedCalls, hubSide, channelSide
    <3>2. CASE x \in Calls /\ \E k \in DOMAIN requests' : requests'[k].call = x
      BY <2>2, <3>2 DEF PostedCalls
    <3>3. CASE x \in Calls /\ \E h \in Calls : matched'[h] = x
      <4>1. PICK h \in Calls : matched'[h] = x
        BY <3>3
      <4>2. CASE h = c
        <5>1. m = x /\ x # NoCall
          BY <1>1, <2>2, <3>3, <4>1, <4>2, ExchangeAssumption DEF ExchangeTypeOK
        <5> QED
          BY <2>2, <3>3, <5>1 DEF PostedCalls
      <4>3. CASE h # c
        <5>1. matched[h] = x
          BY <1>1, <2>2, <4>1, <4>3 DEF ExchangeTypeOK
        <5> QED
          BY <3>3, <5>1 DEF PostedCalls
      <4> QED
        BY <4>2, <4>3
    <3> QED
      BY <3>1, <3>2, <3>3 DEF PostedCalls
  <2>5. AsksAreReadOnce' /\ PostedOnce' /\ (onWire \subseteq unsure)'
    BY <1>1, <2>1, <2>4 DEF AsksAreReadOnce, PostedOnce, channelSide, hubSide
  <2>6. PairsAreOfOneTool'
    <3> SUFFICES ASSUME NEW h \in Calls
                 PROVE  /\ matched'[h] # NoCall => tool'[matched'[h]] = tool'[h]
                        /\ hookAt'[h] = "posting" => matched'[h] # NoCall
                        /\ hookAt'[h] \in {"none", "rating"} => matched'[h] = NoCall
      BY DEF PairsAreOfOneTool
    <3>1. CASE h = c
      <4>1. matched'[h] = m /\ hookAt'[h] = IF hit THEN "posting" ELSE "allowed"
        BY <1>1, <2>2, <3>1 DEF ExchangeTypeOK
      <4>2. hit => m # NoCall
        BY <2>2, ExchangeAssumption
      <4> QED
        BY <2>1, <2>2, <3>1, <4>1, <4>2
    <3>2. CASE h # c
      <4>1. matched'[h] = matched[h] /\ hookAt'[h] = hookAt[h]
        BY <1>1, <2>2, <3>2 DEF ExchangeTypeOK
      <4> QED
        BY <1>1, <2>1, <4>1 DEF PairsAreOfOneTool
    <3> QED
      BY <3>1, <3>2
  <2> QED
    BY <2>3, <2>5, <2>6 DEF ExchangeSound
<1>4. CASE HookResolves(c)
  <2>1. /\ UNCHANGED <<tool, matched, channelSide, banks, unsure, onWire>>
        /\ hookAt[c] = "posting" /\ hookAt' = [hookAt EXCEPT ![c] = "allowed"]
        /\ hubPending' \subseteq hubPending
        /\ answered' \in {answered, answered \cup {matched[c]}}
    BY <1>4 DEF HookResolves, Told
  <2>2. matched[c] \in Calls
    BY <1>1, <2>1 DEF PairsAreOfOneTool, ExchangeTypeOK
  <2>3. ExchangeTypeOK'
    BY <1>1, <2>1, <2>2 DEF ExchangeTypeOK, channelSide, banks
  <2>4. PostedCalls' \subseteq PostedCalls
    BY <2>1, <2>2 DEF PostedCalls, channelSide, banks
  <2>5. AsksAreReadOnce' /\ PostedOnce' /\ (onWire \subseteq unsure)'
    BY <1>1, <2>1, <2>4 DEF AsksAreReadOnce, PostedOnce, channelSide
  <2>6. PairsAreOfOneTool'
    BY <1>1, <2>1 DEF PairsAreOfOneTool, ExchangeTypeOK
  <2> QED
    BY <2>3, <2>5, <2>6 DEF ExchangeSound
<1> QED
  BY <1>2, <1>3, <1>4

\* What Claude Code asks, the channel reads and posts once.
LEMMA AsksKeepSound ==
    ASSUME ExchangeSound, ReadsAsk \/ PostsRequest \/ \E c \in Calls : CallAsks(c)
    PROVE  ExchangeSound'
<1>1. ExchangeTypeOK /\ AsksAreReadOnce /\ PostedOnce /\ PairsAreOfOneTool /\ onWire \subseteq unsure
  BY DEF ExchangeSound
<1>2. asks \in Seq(asked) /\ asked \subseteq Calls /\ NoCall \notin Calls
  BY <1>1, ExchangeAssumption DEF ExchangeTypeOK
<1>3. Len(asks) \in Nat /\ DOMAIN asks = 1..Len(asks) /\ \A i \in DOMAIN asks : asks[i] \in asked
  BY <1>2, SMT
<1>4. ASSUME NEW c \in Calls, CallAsks(c) PROVE ExchangeSound'
  <2>1. /\ c \notin asked /\ asked' = asked \cup {c} /\ asks' = Append(asks, c)
        /\ UNCHANGED <<tool, hookSide, handling, step, banks, hubSide>>
    BY <1>4 DEF CallAsks
  <2>2. /\ asks' \in Seq(asked') /\ DOMAIN asks' = 1..(Len(asks) + 1)
        /\ asks'[Len(asks) + 1] = c /\ \A i \in DOMAIN asks : asks'[i] = asks[i]
    <3>1. asks \in Seq(asked') /\ c \in asked'
      BY <1>2, <2>1, SMT
    <3> QED
      BY <2>1, <3>1, SMT
  <2>3. DOMAIN asks' = DOMAIN asks \cup {Len(asks) + 1}
    BY <1>3, <2>2, SMT
  <2>4. ExchangeTypeOK'
    BY <1>1, <2>1, <2>2 DEF ExchangeTypeOK, hookSide, banks, hubSide
  <2>5. c # handling
    BY <1>1, <1>2, <2>1 DEF AsksAreReadOnce
  <2>6. AsksAreReadOnce'
    <3>1. \A i \in DOMAIN asks : asks[i] # c
      BY <1>3, <2>1
    <3> QED
      BY <1>1, <2>1, <2>2, <2>3, <2>5, <3>1 DEF AsksAreReadOnce
  <2>7. PostedOnce'
    <3>1. PostedCalls' = PostedCalls
      BY <2>1 DEF PostedCalls, hookSide, banks, hubSide
    <3>2. c \notin PostedCalls
      BY <1>1, <2>1 DEF PostedOnce
    <3> QED
      BY <1>1, <2>1, <2>2, <2>3, <3>1, <3>2 DEF PostedOnce
  <2>8. PairsAreOfOneTool' /\ (onWire \subseteq unsure)'
    BY <1>1, <2>1 DEF PairsAreOfOneTool, hookSide, hubSide
  <2> QED
    BY <2>4, <2>6, <2>7, <2>8 DEF ExchangeSound
<1>5. CASE ReadsAsk
  <2>1. /\ handling = NoCall /\ asks # << >> /\ handling' = Head(asks) /\ asks' = Tail(asks)
        /\ step' = "post"
        /\ UNCHANGED <<tool, hookSide, asked, banks, hubSide>>
    BY <1>5 DEF ReadsAsk
  <2>2. /\ asks' \in Seq(asked) /\ Len(asks) \in Nat /\ Len(asks) >= 1
        /\ handling' = asks[1] /\ 1 \in DOMAIN asks
        /\ DOMAIN asks' = 1..(Len(asks) - 1) /\ \A i \in DOMAIN asks' : asks'[i] = asks[i + 1]
    BY <1>2, <1>3, <2>1, SMT
  <2>3. \A i \in DOMAIN asks' : i + 1 \in DOMAIN asks /\ i + 1 # 1 /\ i \in Nat
    BY <1>3, <2>2, SMT
  <2>4. \A i, j \in DOMAIN asks' : i + 1 = j + 1 => i = j
    BY <2>3, SMT
  <2>5. handling' \in asked
    BY <1>3, <2>2
  <2>6. ExchangeTypeOK'
    BY <1>1, <2>1, <2>2, <2>5 DEF ExchangeTypeOK, hookSide, banks, hubSide
  <2>7. AsksAreReadOnce'
    <3>1. \A i \in DOMAIN asks' : asks'[i] # handling'
      BY <1>1, <2>2, <2>3 DEF AsksAreReadOnce
    <3>2. \A i, j \in DOMAIN asks' : asks'[i] = asks'[j] => i = j
      BY <1>1, <2>2, <2>3, <2>4 DEF AsksAreReadOnce
    <3> QED
      BY <2>1, <2>5, <3>1, <3>2 DEF AsksAreReadOnce
  <2>8. PostedOnce'
    <3>1. PostedCalls' \subseteq PostedCalls
      BY <2>1 DEF PostedCalls, hookSide, banks, hubSide
    <3>2. \A x \in PostedCalls : x # handling' /\ \A i \in DOMAIN asks' : asks'[i] # x
      BY <1>1, <2>2, <2>3 DEF PostedOnce
    <3> QED
      BY <1>1, <2>1, <3>1, <3>2 DEF PostedOnce
  <2>9. PairsAreOfOneTool' /\ (onWire \subseteq unsure)'
    BY <1>1, <2>1 DEF PairsAreOfOneTool, hookSide, hubSide
  <2> QED
    BY <2>6, <2>7, <2>8, <2>9 DEF ExchangeSound
<1>6. CASE PostsRequest
  <2>1. /\ handling # NoCall /\ step = "post" /\ step' = "offer"
        /\ UNCHANGED <<tool, hookSide, asked, asks, handling, banks, answered>>
        /\ hubPending' \in {hubPending, hubPending \cup {handling}}
        /\ unsure' \in {unsure, unsure \cup {handling}}
        /\ onWire' \subseteq onWire \cup (IF handling \in unsure' THEN {handling} ELSE {})
        /\ onWire' \subseteq unsure'
    BY <1>1, <1>6 DEF PostsRequest
  <2>2. handling \in Calls
    BY <1>1, <2>1 DEF ExchangeTypeOK
  <2>3. ExchangeTypeOK'
    BY <1>1, <2>1, <2>2 DEF ExchangeTypeOK, hookSide, banks
  <2>4. AsksAreReadOnce' /\ PairsAreOfOneTool'
    BY <1>1, <2>1 DEF AsksAreReadOnce, PairsAreOfOneTool, hookSide
  <2>5. PostedOnce'
    <3>1. PostedCalls' \subseteq PostedCalls \cup {handling}
      BY <2>1 DEF PostedCalls, hookSide, banks
    <3>2. handling \in asked /\ \A i \in DOMAIN asks : asks[i] # handling
      BY <1>1, <2>1 DEF AsksAreReadOnce
    <3> QED
      BY <1>1, <2>1, <3>1, <3>2 DEF PostedOnce
  <2> QED
    BY <2>1, <2>3, <2>4, <2>5 DEF ExchangeSound
<1> QED
  BY <1>4, <1>5, <1>6

\* So do the pairing, the hub, a restart and the passing of time.
LEMMA OthersKeepSound ==
    ASSUME ExchangeSound,
           \/ OffersRequest \/ ResolvesRequest \/ ChannelRestarts \/ TtlPasses
           \/ \E c \in Calls : RecordsLate(c) \/ DecidedElsewhere(c)
    PROVE  ExchangeSound'
<1>1. ExchangeTypeOK /\ AsksAreReadOnce /\ PostedOnce /\ PairsAreOfOneTool /\ onWire \subseteq unsure
  BY DEF ExchangeSound
<1>2. CASE OffersRequest
  <2>1. PICK hit \in BOOLEAN :
          /\ OfferRequest(handling, hit)
          /\ step' = IF hit THEN "resolve" ELSE "post"
          /\ handling' = IF hit THEN handling ELSE NoCall
    BY <1>2 DEF OffersRequest
  <2>2. /\ handling \in Calls /\ step = "offer"
        /\ UNCHANGED <<tool, hookSide, asked, asks, hubSide>>
    BY <1>1, <1>2 DEF OffersRequest, ExchangeTypeOK
  <2>3. /\ requests' \in Seq(Banked) /\ approvals' \in Seq(Banked)
        /\ \A k \in DOMAIN requests' :
              requests'[k].call = handling \/ \E i \in DOMAIN requests : requests'[k].call = requests[i].call
    BY <1>1, <2>1, <2>2, RequestOffered
  <2>4. ExchangeTypeOK'
    BY <1>1, <2>1, <2>2, <2>3 DEF ExchangeTypeOK, hookSide, hubSide
  <2>5. \A i \in DOMAIN asks : asks[i] # NoCall
    <3>1. \A i \in DOMAIN asks : asks[i] \in Calls
      <4>1. asks \in Seq(asked) /\ asked \subseteq Calls
        BY <1>1 DEF ExchangeTypeOK
      <4> QED
        BY <4>1, SMT
    <3> QED
      BY <3>1, ExchangeAssumption
  <2>6. AsksAreReadOnce'
    BY <1>1, <2>1, <2>2, <2>5 DEF AsksAreReadOnce
  <2>7. PostedOnce'
    <3>1. PostedCalls' \subseteq PostedCalls
      <4> SUFFICES ASSUME NEW x \in PostedCalls' PROVE x \in PostedCalls
        OBVIOUS
      <4>1. CASE x \in answered' \/ (x \in Calls /\ \E h \in Calls : matched'[h] = x)
        BY <2>2, <4>1 DEF PostedCalls, hookSide, hubSide
      <4>2. CASE x \in Calls /\ \E k \in DOMAIN requests' : requests'[k].call = x
        <5>1. x = handling \/ \E i \in DOMAIN requests : requests[i].call = x
          BY <2>3, <4>2
        <5> QED
          BY <2>2, <4>2, <5>1 DEF PostedCalls
      <4>3. CASE x \in Calls /\ handling' = x /\ step' # "post"
        BY <2>1, <2>2, <4>3 DEF PostedCalls
      <4> QED
        BY <4>1, <4>2, <4>3 DEF PostedCalls
    <3>2. ~(handling' \in Calls /\ step' = "post")
      BY <2>1, <2>2, ExchangeAssumption
    <3>3. PostedCalls \subseteq Calls
      BY <1>1 DEF PostedCalls, ExchangeTypeOK
    <3> QED
      BY <1>1, <2>2, <3>1, <3>2, <3>3 DEF PostedOnce
  <2>8. PairsAreOfOneTool' /\ (onWire \subseteq unsure)'
    BY <1>1, <2>2 DEF PairsAreOfOneTool, hookSide, hubSide
  <2> QED
    BY <2>4, <2>6, <2>7, <2>8 DEF ExchangeSound
<1>3. CASE ResolvesRequest
  <2>1. /\ handling \in Calls /\ step = "resolve" /\ handling' = NoCall /\ step' = "post"
        /\ hubPending' \subseteq hubPending /\ answered' \in {answered, answered \cup {handling}}
        /\ UNCHANGED <<tool, hookSide, asked, asks, banks, unsure, onWire>>
    BY <1>1, <1>3 DEF ResolvesRequest, Told, ExchangeTypeOK
  <2>2. ExchangeTypeOK'
    BY <1>1, <2>1 DEF ExchangeTypeOK, hookSide, banks
  <2>3. \A i \in DOMAIN asks : asks[i] # NoCall
    <3>1. \A i \in DOMAIN asks : asks[i] \in Calls
      <4>1. asks \in Seq(asked) /\ asked \subseteq Calls
        BY <1>1 DEF ExchangeTypeOK
      <4> QED
        BY <4>1, SMT
    <3> QED
      BY <3>1, ExchangeAssumption
  <2>4. AsksAreReadOnce' /\ PairsAreOfOneTool' /\ (onWire \subseteq unsure)'
    BY <1>1, <2>1, <2>3 DEF AsksAreReadOnce, PairsAreOfOneTool, hookSide
  <2>5. PostedOnce'
    <3>1. PostedCalls' \subseteq PostedCalls /\ PostedCalls \subseteq Calls
      BY <1>1, <2>1 DEF PostedCalls, hookSide, banks, ExchangeTypeOK
    <3> QED
      BY <1>1, <2>1, <3>1, ExchangeAssumption DEF PostedOnce
  <2> QED
    BY <2>2, <2>4, <2>5 DEF ExchangeSound
<1>4. CASE ChannelRestarts
  <2>1. /\ UNCHANGED <<tool, matched, asked, answered>>
        /\ asks' = << >> /\ handling' = NoCall /\ step' = "post"
        /\ requests' = << >> /\ approvals' = << >> /\ hubPending' = {}
        /\ unsure' = unsure \cup ({handling} \cap Calls)
        /\ onWire' \subseteq onWire \cup ({handling} \cap Calls)
        /\ hookAt' = [c \in Calls |-> IF hookAt[c] \in {"rating", "posting"} THEN "deferred" ELSE hookAt[c]]
    BY <1>4 DEF ChannelRestarts
  <2>2. ExchangeTypeOK'
    <3>1. asks' \in Seq(asked') /\ requests' \in Seq(Banked) /\ approvals' \in Seq(Banked)
      BY <2>1, SMT
    <3> QED
      BY <1>1, <2>1, <3>1 DEF ExchangeTypeOK
  <2>3. AsksAreReadOnce' /\ (onWire \subseteq unsure)'
    BY <1>1, <2>1 DEF AsksAreReadOnce
  <2>4. PairsAreOfOneTool'
    BY <1>1, <2>1 DEF PairsAreOfOneTool, ExchangeTypeOK
  <2>5. PostedOnce'
    <3>1. PostedCalls' \subseteq PostedCalls /\ PostedCalls \subseteq Calls
      BY <1>1, <2>1 DEF PostedCalls, ExchangeTypeOK
    <3> QED
      BY <1>1, <2>1, <3>1, ExchangeAssumption DEF PostedOnce
  <2> QED
    BY <2>2, <2>3, <2>4, <2>5 DEF ExchangeSound
<1>5. CASE TtlPasses
  <2>1. /\ UNCHANGED <<tool, hookSide, channelSide, hubSide>>
        /\ \/ requests' = requests
           \/ \E i \in DOMAIN requests : requests' = [requests EXCEPT ![i].old = TRUE]
        /\ \/ approvals' = approvals
           \/ \E i \in DOMAIN approvals : approvals' = [approvals EXCEPT ![i].old = TRUE]
    BY <1>5 DEF TtlPasses, GrowsOld
  <2>2. /\ requests' \in Seq(Banked) /\ DOMAIN requests' = DOMAIN requests
        /\ \A k \in DOMAIN requests : requests'[k].call = requests[k].call
    BY <1>1, <2>1, AgedBank DEF ExchangeTypeOK
  <2>3. approvals' \in Seq(Banked)
    BY <1>1, <2>1, AgedBank DEF ExchangeTypeOK
  <2>4. ExchangeTypeOK'
    BY <1>1, <2>1, <2>2, <2>3 DEF ExchangeTypeOK, hookSide, channelSide, hubSide
  <2>5. PostedCalls' \subseteq PostedCalls
    BY <2>1, <2>2 DEF PostedCalls, hookSide, channelSide, hubSide
  <2>6. /\ AsksAreReadOnce' /\ PairsAreOfOneTool' /\ PostedOnce' /\ (onWire \subseteq unsure)'
    BY <1>1, <2>1, <2>5
       DEF AsksAreReadOnce, PairsAreOfOneTool, PostedOnce, hookSide, channelSide, hubSide
  <2> QED
    BY <2>4, <2>6 DEF ExchangeSound
<1>6. ASSUME NEW c \in Calls, RecordsLate(c) \/ DecidedElsewhere(c) PROVE ExchangeSound'
  <2>1. /\ UNCHANGED <<tool, hookSide, channelSide, banks, answered, unsure>>
        /\ onWire' \subseteq onWire /\ hubPending' \subseteq hubPending \cup {c}
    BY <1>6 DEF RecordsLate, DecidedElsewhere
  <2>2. ExchangeTypeOK'
    BY <1>1, <2>1 DEF ExchangeTypeOK, hookSide, channelSide, banks
  <2>3. AsksAreReadOnce' /\ PairsAreOfOneTool' /\ PostedOnce' /\ (onWire \subseteq unsure)'
    BY <1>1, <2>1
       DEF AsksAreReadOnce, PairsAreOfOneTool, PostedOnce, PostedCalls, hookSide, channelSide, banks
  <2> QED
    BY <2>2, <2>3 DEF ExchangeSound
<1> QED
  BY <1>2, <1>3, <1>4, <1>5, <1>6

\* A sound step of the exchange is sound again.
LEMMA ExchangeSoundNext == ExchangeSound /\ [ExchangeNext]_exchangeVars => ExchangeSound'
<1> SUFFICES ASSUME ExchangeSound, [ExchangeNext]_exchangeVars PROVE ExchangeSound'
  OBVIOUS
<1>1. CASE UNCHANGED exchangeVars
  BY <1>1 DEF exchangeVars, ExchangeSound, ExchangeTypeOK, AsksAreReadOnce, PostedOnce, PostedCalls,
              PairsAreOfOneTool
<1> QED
  BY <1>1, HooksKeepSound, AsksKeepSound, OthersKeepSound DEF ExchangeNext

\* What is resolved stays resolved: it was posted, and is posted once.
LEMMA ResolvedNext ==
    ASSUME ExchangeSound, ResolvedIsNotPending, [ExchangeNext]_exchangeVars
    PROVE  ResolvedIsNotPending'
<1>1. ExchangeTypeOK /\ PostedOnce /\ onWire \subseteq unsure
  BY DEF ExchangeSound
<1>2. CASE UNCHANGED <<hubPending, answered, unsure>>
  BY <1>2 DEF ResolvedIsNotPending
<1>3. CASE UNCHANGED hubSide
  BY <1>2, <1>3 DEF hubSide
<1>4. ASSUME NEW c \in Calls, HookResolves(c) PROVE ResolvedIsNotPending'
  BY <1>2, <1>4 DEF HookResolves, Told, ResolvedIsNotPending
<1>5. ASSUME NEW c \in Calls, RecordsLate(c) PROVE ResolvedIsNotPending'
  BY <1>1, <1>5 DEF RecordsLate, ResolvedIsNotPending
<1>6. ASSUME NEW c \in Calls, DecidedElsewhere(c) PROVE ResolvedIsNotPending'
  BY <1>6 DEF DecidedElsewhere, ResolvedIsNotPending
<1>7. CASE PostsRequest
  <2>1. handling \notin answered
    BY <1>1, <1>7 DEF PostsRequest, PostedOnce, PostedCalls, ExchangeTypeOK
  <2> QED
    BY <1>7, <2>1 DEF PostsRequest, ResolvedIsNotPending
<1>8. CASE ResolvesRequest
  BY <1>2, <1>8 DEF ResolvesRequest, Told, ResolvedIsNotPending
<1>9. CASE ChannelRestarts
  BY <1>9 DEF ChannelRestarts, ResolvedIsNotPending
<1> QED
  BY <1>2, <1>3, <1>4, <1>5, <1>6, <1>7, <1>8, <1>9
     DEF ExchangeNext, exchangeVars, hubSide, HookAsks, HookAllows, HookDefers, CallAsks, ReadsAsk,
         OffersRequest, TtlPasses
-----------------------------------------------------------------------------
\* Counting what an allow is spent on.

\* How many of the calls S are of tool t.
Count(S, t) == Cardinality({c \in S : tool[c] = t})

Resolving == {c \in Calls : handling = c /\ step = "resolve"}
HooksInPost == {c \in Calls : hookAt[c] = "posting"}
Allowed == {c \in Calls : hookAt[c] \in {"posting", "allowed"} \/ matched[c] # NoCall}

\* The budget of a tool: what was and is to be told of it, against what was allowed.
WithinBudget(t) ==
    Count(answered, t) + Count(Resolving, t) + Count(HooksInPost, t) + Cardinality(Places(approvals, t))
        <= Count(Allowed, t)

\* A count of calls is a number; fewer calls count no more, one call more counts at
\* most one more, and just one if it is of the tool.
LEMMA Counts ==
    ASSUME NEW S \in SUBSET Calls, NEW t
    PROVE  /\ Count(S, t) \in Nat
           /\ \A R \in SUBSET S : Count(R, t) <= Count(S, t)
           /\ \A c \in Calls : /\ Count(S \cup {c}, t) <= Count(S, t) + (IF tool[c] = t THEN 1 ELSE 0)
                               /\ c \notin S => Count(S \cup {c}, t) =
                                                  Count(S, t) + (IF tool[c] = t THEN 1 ELSE 0)
<1> DEFINE Of(R) == {c \in R : tool[c] = t}
<1>1. \A R \in SUBSET Calls : IsFiniteSet(Of(R)) /\ Cardinality(Of(R)) \in Nat
  BY ExchangeAssumption, FS_Subset, FS_CardinalityType
<1>2. ASSUME NEW R \in SUBSET S PROVE Count(R, t) <= Count(S, t)
  <2>1. IsFiniteSet(Of(S)) /\ Of(R) \in SUBSET Of(S)
    BY <1>1
  <2>2. Cardinality(Of(R)) <= Cardinality(Of(S))
    BY <2>1, FS_Subset
  <2> QED
    BY <2>2 DEF Count
<1>3. ASSUME NEW c \in Calls
      PROVE  /\ Count(S \cup {c}, t) <= Count(S, t) + (IF tool[c] = t THEN 1 ELSE 0)
             /\ c \notin S => Count(S \cup {c}, t) = Count(S, t) + (IF tool[c] = t THEN 1 ELSE 0)
  <2>1. IsFiniteSet(Of(S)) /\ Cardinality(Of(S)) \in Nat
    BY <1>1
  <2>2. CASE tool[c] = t
    <3>1. Of(S \cup {c}) = Of(S) \cup {c} /\ (c \in Of(S) <=> c \in S)
      BY <2>2
    <3> HIDE DEF Of
    <3>2. Cardinality(Of(S \cup {c})) = IF c \in S THEN Cardinality(Of(S)) ELSE Cardinality(Of(S)) + 1
      BY <2>1, <3>1, FS_AddElement
    <3>3. /\ Cardinality(Of(S \cup {c})) <= Cardinality(Of(S)) + 1
          /\ c \notin S => Cardinality(Of(S \cup {c})) = Cardinality(Of(S)) + 1
      BY <2>1, <3>2, SMT
    <3> QED
      BY <2>2, <3>3 DEF Count, Of
  <2>3. CASE tool[c] # t
    <3>1. Of(S \cup {c}) = Of(S)
      BY <2>3
    <3> HIDE DEF Of
    <3>2. Cardinality(Of(S)) <= Cardinality(Of(S)) + 0 /\ Cardinality(Of(S)) = Cardinality(Of(S)) + 0
      BY <2>1, SMT
    <3> QED
      BY <2>3, <3>1, <3>2 DEF Count, Of
  <2> QED
    BY <2>2, <2>3
<1> QED
  BY <1>1, <1>2, <1>3 DEF Count

\* The budget, from the tools as they stay and the changed counts.
LEMMA BudgetSuffices ==
    ASSUME tool' = tool,
           \A t \in Tools : Count(answered', t) + Count(Resolving', t) + Count(HooksInPost', t)
                               + Cardinality(Places(approvals', t)) <= Count(Allowed', t)
    PROVE  ApprovalSpentOnce'
<1>1. \A t : /\ {c \in answered' : tool'[c] = t} = {c \in answered' : tool[c] = t}
             /\ {c \in Resolving' : tool'[c] = t} = {c \in Resolving' : tool[c] = t}
             /\ {c \in HooksInPost' : tool'[c] = t} = {c \in HooksInPost' : tool[c] = t}
             /\ {c \in Allowed' : tool'[c] = t} = {c \in Allowed' : tool[c] = t}
             /\ Places(approvals, t)' = Places(approvals', t)
  BY DEF Places
<1> QED
  BY <1>1 DEF ApprovalSpentOnce, Count, Resolving, HooksInPost, Allowed

\* The budget of every tool is kept.
LEMMA SpentOnceNext ==
    ASSUME ExchangeSound, ApprovalSpentOnce, [ExchangeNext]_exchangeVars, ExchangeTypeOK'
    PROVE  ApprovalSpentOnce'
<1>1. ExchangeTypeOK /\ PairsAreOfOneTool /\ tool' = tool
  BY DEF ExchangeSound, ExchangeNext, exchangeVars, HookAsks, HookAllows, HookDefers, HookResolves,
         CallAsks, RecordsLate, DecidedElsewhere, ReadsAsk, PostsRequest, OffersRequest,
         ResolvesRequest, ChannelRestarts, TtlPasses
<1>2. /\ answered \in SUBSET Calls /\ Resolving \in SUBSET Calls /\ HooksInPost \in SUBSET Calls
      /\ Allowed \in SUBSET Calls /\ approvals \in Seq(Banked)
      /\ answered' \in SUBSET Calls /\ Resolving' \in SUBSET Calls /\ HooksInPost' \in SUBSET Calls
      /\ Allowed' \in SUBSET Calls /\ approvals' \in Seq(Banked)
  BY <1>1 DEF ExchangeTypeOK, Resolving, HooksInPost, Allowed
<1> SUFFICES ASSUME NEW t \in Tools
             PROVE  Count(answered', t) + Count(Resolving', t) + Count(HooksInPost', t)
                       + Cardinality(Places(approvals', t)) <= Count(Allowed', t)
  BY <1>1, BudgetSuffices
<1> DEFINE a == Count(answered, t)
           r == Count(Resolving, t)
           p == Count(HooksInPost, t)
           b == Cardinality(Places(approvals, t))
           w == Count(Allowed, t)
           an == Count(answered', t)
           rn == Count(Resolving', t)
           pn == Count(HooksInPost', t)
           bn == Cardinality(Places(approvals', t))
           wn == Count(Allowed', t)
<1>3. /\ a \in Nat /\ r \in Nat /\ p \in Nat /\ b \in Nat /\ w \in Nat
      /\ an \in Nat /\ rn \in Nat /\ pn \in Nat /\ bn \in Nat /\ wn \in Nat
  BY <1>2, Counts, PlacesAreCounted
<1>4. a + r + p + b <= w
  BY DEF ApprovalSpentOnce, Count, Resolving, HooksInPost, Allowed
<1> HIDE DEF a, r, p, b, w, an, rn, pn, bn, wn
<1> SUFFICES an + rn + pn + bn <= wn
  BY DEF an, rn, pn, bn, wn
<1>5. /\ answered' \subseteq answered => an <= a
      /\ Resolving' \subseteq Resolving => rn <= r
      /\ HooksInPost' \subseteq HooksInPost => pn <= p
      /\ approvals' = approvals => bn <= b
      /\ Allowed \subseteq Allowed' => w <= wn
  <2>1. \A S, R \in SUBSET Calls : R \subseteq S => Count(R, t) <= Count(S, t)
    BY Counts
  <2>2. b <= b
    BY <1>3, SMT
  <2> QED
    BY <1>2, <2>1, <2>2 DEF a, r, p, b, w, an, rn, pn, bn, wn
<1>6. CASE /\ answered' \subseteq answered /\ Resolving' \subseteq Resolving
           /\ HooksInPost' \subseteq HooksInPost /\ bn <= b /\ Allowed \subseteq Allowed'
  BY <1>3, <1>4, <1>5, <1>6, SMT
<1>7. ASSUME NEW c \in Calls, HookAsks(c) \/ HookDefers(c) PROVE an + rn + pn + bn <= wn
  <2>1. /\ UNCHANGED <<matched, approvals, answered, handling, step>>
        /\ \E place \in {"rating", "deferred"} : hookAt' = [hookAt EXCEPT ![c] = place]
        /\ hookAt[c] \in {"none", "rating"}
    BY <1>7 DEF HookAsks, HookDefers, channelSide, banks, hubSide
  <2>2. HooksInPost' \subseteq HooksInPost /\ Allowed \subseteq Allowed'
    BY <1>1, <2>1 DEF HooksInPost, Allowed, ExchangeTypeOK
  <2>3. Resolving' \subseteq Resolving
    BY <2>1 DEF Resolving
  <2> QED
    BY <1>5, <1>6, <2>1, <2>2, <2>3
<1>8. ASSUME NEW c \in Calls, HookAllows(c) PROVE an + rn + pn + bn <= wn
  <2> DEFINE d == IF tool[c] = t THEN 1 ELSE 0
  <2>1. OfferApproval(c) /\ UNCHANGED <<answered, handling, step>> /\ hookAt[c] = "rating"
    BY <1>8 DEF HookAllows, channelSide, hubSide
  <2>2. PICK hit \in BOOLEAN, m \in Calls \cup {NoCall} :
              /\ matched' = [matched EXCEPT ![c] = m]
              /\ hookAt' = [hookAt EXCEPT ![c] = IF hit THEN "posting" ELSE "allowed"]
              /\ bn <= b + (IF ~hit /\ tool[c] = t THEN 1 ELSE 0)
    BY <1>1, <2>1, ApprovalOffered DEF b, bn
  <2>3. Allowed' = Allowed \cup {c} /\ c \notin Allowed
    BY <1>1, <2>1, <2>2 DEF Allowed, PairsAreOfOneTool, ExchangeTypeOK
  <2>4. wn = w + d
    BY <1>2, <2>3, Counts DEF w, wn
  <2>5. an <= a /\ rn <= r
    BY <1>5, <2>1 DEF Resolving
  <2>6. CASE hit
    <3>1. HooksInPost' = HooksInPost \cup {c}
      BY <1>1, <2>2, <2>6 DEF HooksInPost, ExchangeTypeOK
    <3>2. pn <= p + d
      BY <1>2, <3>1, Counts DEF p, pn
    <3>3. bn <= b + 0
      BY <2>2, <2>6
    <3>4. d \in Nat
      OBVIOUS
    <3> HIDE DEF d
    <3> QED
      BY <1>3, <1>4, <2>4, <2>5, <3>2, <3>3, <3>4, SMT
  <2>7. CASE ~hit
    <3>1. HooksInPost' = HooksInPost
      BY <1>1, <2>1, <2>2, <2>7 DEF HooksInPost, ExchangeTypeOK
    <3>2. pn <= p
      BY <1>5, <3>1
    <3>3. bn <= b + d
      BY <2>2, <2>7
    <3>4. d \in Nat
      OBVIOUS
    <3> HIDE DEF d
    <3> QED
      BY <1>3, <1>4, <2>4, <2>5, <3>2, <3>3, <3>4, SMT
  <2> QED
    BY <2>6, <2>7
<1>9. ASSUME NEW c \in Calls, HookResolves(c) PROVE an + rn + pn + bn <= wn
  <2> DEFINE d == IF tool[c] = t THEN 1 ELSE 0
  <2>1. /\ UNCHANGED <<matched, approvals, handling, step>>
        /\ hookAt[c] = "posting" /\ hookAt' = [hookAt EXCEPT ![c] = "allowed"]
        /\ answered' \in {answered, answered \cup {matched[c]}}
    BY <1>9 DEF HookResolves, Told, channelSide, banks
  <2>2. matched[c] \in Calls /\ tool[matched[c]] = tool[c]
    BY <1>1, <2>1 DEF PairsAreOfOneTool, ExchangeTypeOK
  <2>3. an <= a + d
    <3>1. Count(answered \cup {matched[c]}, t) <= a + d
      BY <1>2, <2>2, Counts DEF a
    <3>2. a <= a + d
      BY <1>3, SMT
    <3> QED
      BY <2>1, <3>1, <3>2 DEF a, an
  <2>4. HooksInPost = HooksInPost' \cup {c} /\ c \notin HooksInPost'
    BY <1>1, <2>1 DEF HooksInPost, ExchangeTypeOK
  <2>5. p = pn + d
    BY <1>2, <2>4, Counts DEF p, pn
  <2>6. Allowed \subseteq Allowed' /\ Resolving' \subseteq Resolving
    BY <1>1, <2>1 DEF Allowed, Resolving, ExchangeTypeOK
  <2>7. rn <= r /\ bn <= b /\ w <= wn /\ d \in Nat
    BY <1>5, <2>1, <2>6
  <2> HIDE DEF d
  <2> QED
    BY <1>3, <1>4, <2>3, <2>5, <2>7, SMT
<1>10. CASE OffersRequest
  <2> DEFINE d == IF tool[handling] = t THEN 1 ELSE 0
  <2>1. /\ handling \in Calls /\ step = "offer" /\ UNCHANGED <<hookAt, matched, answered>>
    BY <1>1, <1>10 DEF OffersRequest, ExchangeTypeOK, hookSide, hubSide
  <2>2. PICK hit \in BOOLEAN :
          /\ OfferRequest(handling, hit)
          /\ step' = IF hit THEN "resolve" ELSE "post"
          /\ handling' = IF hit THEN handling ELSE NoCall
    BY <1>10 DEF OffersRequest
  <2>3. bn + (IF hit /\ tool[handling] = t THEN 1 ELSE 0) <= b
    BY <1>1, <2>1, <2>2, RequestOffered DEF b, bn
  <2>4. an <= a /\ pn <= p /\ w <= wn
    BY <1>5, <2>1 DEF HooksInPost, Allowed
  <2>5. CASE hit
    <3>1. Resolving' = Resolving \cup {handling}
      BY <2>1, <2>2, <2>5 DEF Resolving
    <3>2. rn <= r + d /\ bn + d <= b /\ d \in Nat
      BY <1>2, <2>1, <2>3, <2>5, <3>1, Counts DEF r, rn
    <3> HIDE DEF d
    <3> QED
      BY <1>3, <1>4, <2>4, <3>2, SMT
  <2>6. CASE ~hit
    <3>1. Resolving' \subseteq Resolving
      BY <2>1, <2>2, <2>6 DEF Resolving
    <3>2. bn + 0 <= b
      BY <2>3, <2>6
    <3>3. rn <= r
      BY <1>5, <3>1
    <3> QED
      BY <1>3, <1>4, <2>4, <3>2, <3>3, SMT
  <2> QED
    BY <2>5, <2>6
<1>11. CASE ResolvesRequest
  <2> DEFINE d == IF tool[handling] = t THEN 1 ELSE 0
  <2>1. /\ handling \in Calls /\ step = "resolve" /\ step' = "post"
        /\ answered' \in {answered, answered \cup {handling}}
        /\ UNCHANGED <<hookAt, matched, approvals>>
    BY <1>1, <1>11 DEF ResolvesRequest, Told, ExchangeTypeOK, hookSide, banks
  <2>2. an <= a + d
    <3>1. Count(answered \cup {handling}, t) <= a + d
      BY <1>2, <2>1, Counts DEF a
    <3>2. a <= a + d
      BY <1>3, SMT
    <3> QED
      BY <2>1, <3>1, <3>2 DEF a, an
  <2>3. Resolving = Resolving' \cup {handling} /\ handling \notin Resolving'
    BY <2>1 DEF Resolving
  <2>4. r = rn + d
    BY <1>2, <2>1, <2>3, Counts DEF r, rn
  <2>5. pn <= p /\ bn <= b /\ w <= wn /\ d \in Nat
    BY <1>5, <2>1 DEF HooksInPost, Allowed
  <2> HIDE DEF d
  <2> QED
    BY <1>3, <1>4, <2>2, <2>4, <2>5, SMT
<1>12. CASE ChannelRestarts
  <2>1. /\ UNCHANGED <<matched, answered>> /\ step' = "post" /\ approvals' = << >>
        /\ hookAt' = [c \in Calls |-> IF hookAt[c] \in {"rating", "posting"} THEN "deferred" ELSE hookAt[c]]
    BY <1>12 DEF ChannelRestarts
  <2>2. HooksInPost' \subseteq HooksInPost /\ Resolving' \subseteq Resolving
    BY <2>1 DEF HooksInPost, Resolving
  <2>3. Allowed \subseteq Allowed'
    BY <1>1, <2>1 DEF Allowed, PairsAreOfOneTool
  <2>4. bn <= b
    <3>1. Places(approvals', t) = {}
      BY <2>1 DEF Places
    <3>2. bn = 0
      BY <3>1, FS_EmptySet DEF bn
    <3> QED
      BY <1>3, <3>2, SMT
  <2> QED
    BY <1>6, <2>1, <2>2, <2>3, <2>4
<1>13. CASE TtlPasses
  <2>1. /\ UNCHANGED <<hookAt, matched, answered, handling, step>>
        /\ \/ approvals' = approvals
           \/ \E i \in DOMAIN approvals : approvals' = [approvals EXCEPT ![i].old = TRUE]
    BY <1>13 DEF TtlPasses, GrowsOld, hookSide, channelSide, hubSide
  <2>2. DOMAIN approvals' = DOMAIN approvals /\ \A k \in DOMAIN approvals : approvals'[k].call = approvals[k].call
    BY <1>2, <2>1, AgedBank
  <2>3. Places(approvals', t) = Places(approvals, t)
    BY <2>2 DEF Places
  <2>4. bn <= b
    BY <1>3, <2>3, SMT DEF b, bn
  <2>5. /\ HooksInPost' \subseteq HooksInPost /\ Resolving' \subseteq Resolving /\ Allowed \subseteq Allowed'
        /\ answered' \subseteq answered
    BY <2>1 DEF HooksInPost, Resolving, Allowed
  <2> QED
    BY <1>6, <2>4, <2>5
<1>14. CASE \/ ReadsAsk \/ PostsRequest \/ UNCHANGED exchangeVars
            \/ \E c \in Calls : CallAsks(c) \/ RecordsLate(c) \/ DecidedElsewhere(c)
  <2>1. UNCHANGED <<hookAt, matched, answered, approvals>>
    BY <1>14 DEF ReadsAsk, PostsRequest, exchangeVars, CallAsks, RecordsLate, DecidedElsewhere,
                 hookSide, banks, hubSide
  <2>2. HooksInPost' \subseteq HooksInPost /\ Allowed \subseteq Allowed' /\ answered' \subseteq answered
    BY <2>1 DEF HooksInPost, Allowed
  <2>3. Resolving' \subseteq Resolving
    BY <1>14 DEF Resolving, ReadsAsk, PostsRequest, exchangeVars, CallAsks, RecordsLate,
                 DecidedElsewhere, channelSide
  <2> QED
    BY <1>5, <1>6, <2>1, <2>2, <2>3
<1> QED
  BY <1>7, <1>8, <1>9, <1>10, <1>11, <1>12, <1>13, <1>14 DEF ExchangeNext

\* Every step of the exchange keeps the invariant.
LEMMA ExchangeInvNext == ExchangeInv /\ [ExchangeNext]_exchangeVars => ExchangeInv'
<1> SUFFICES ASSUME ExchangeInv, [ExchangeNext]_exchangeVars PROVE ExchangeInv'
  OBVIOUS
<1>1. ExchangeSound /\ ResolvedIsNotPending /\ ApprovalSpentOnce
  BY DEF ExchangeInv
<1>2. ExchangeSound'
  BY <1>1, ExchangeSoundNext
<1>3. ExchangeTypeOK'
  BY <1>2 DEF ExchangeSound
<1> QED
  BY <1>1, <1>2, <1>3, ResolvedNext, SpentOnceNext DEF ExchangeInv

\* The invariant of the exchange holds throughout.
THEOREM ExchangeInvariant == ExchangeSpec => []ExchangeInv
BY ExchangeInvInit, ExchangeInvNext, PTL DEF ExchangeSpec

\* The state of the exchange has its type.
THEOREM ExchangeTypeCorrect == ExchangeSpec => []ExchangeTypeOK
<1>1. ExchangeInv => ExchangeTypeOK
  BY DEF ExchangeInv, ExchangeSound
<1> QED
  BY <1>1, ExchangeInvariant, PTL

\* What the exchange has resolved at the hub is not pending there afterwards.
THEOREM ExchangeResolvesForGood == ExchangeSpec => []ResolvedIsNotPending
<1>1. ExchangeInv => ResolvedIsNotPending
  BY DEF ExchangeInv
<1> QED
  BY <1>1, ExchangeInvariant, PTL

\* An allow of the risk policy clears at most one request.
THEOREM ExchangeSpendsOnce == ExchangeSpec => []ApprovalSpentOnce
<1>1. ExchangeInv => ApprovalSpentOnce
  BY DEF ExchangeInv
<1> QED
  BY <1>1, ExchangeInvariant, PTL
-----------------------------------------------------------------------------
\* The status loop.

\* What the hub is not excused for, it has on record as the loop sent it last: the part
\* of learning the screen that holds in every state.
AgreesWithLast == \A s \in Signals : s \notin excused /\ last[s] # Unsent => atHub[s] = last[s]

StatusInv == StatusTypeOK /\ AgreesWithLast

\* Nothing was sent at first.
LEMMA StatusInvInit == StatusInit => StatusInv
<1> SUFFICES ASSUME StatusInit PROVE StatusInv
  OBVIOUS
<1>1. changes \in 0..MaxChanges /\ forgets \in 0..MaxForgets
  BY StatusAssumption, SMT DEF StatusInit
<1>2. StatusTypeOK
  BY <1>1 DEF StatusInit, StatusTypeOK, Values
<1>3. AgreesWithLast
  BY DEF StatusInit, AgreesWithLast
<1> QED
  BY <1>2, <1>3 DEF StatusInv

\* What the loop posts and the hub takes keeps them in agreement.
LEMMA PostsKeepAgreement ==
    ASSUME StatusInv, NEW s \in Signals,
           Unchanged(s) \/ PostHeard(s) \/ PostLost(s) \/ \E v \in Values : ArrivesLate(s, v)
    PROVE  StatusInv'
<1>1. StatusTypeOK /\ AgreesWithLast
  BY DEF StatusInv
<1>2. After(s) \in {"wait"} \cup Signals
  BY DEF After, Signals
<1>3. CASE Unchanged(s) \/ PostLost(s)
  <2>1. /\ UNCHANGED <<shown, hasChild, last, read, hubState, excused, changes, forgets>>
        /\ phase' = After(s) /\ inFlight' \in {inFlight, inFlight \cup {<<s, read[s]>>}}
    BY <1>3 DEF Unchanged, PostLost
  <2>2. <<s, read[s]>> \in Signals \X Values
    BY <1>1 DEF StatusTypeOK
  <2> QED
    BY <1>1, <1>2, <2>1, <2>2 DEF StatusInv, StatusTypeOK, AgreesWithLast, hubState
<1>4. CASE PostHeard(s)
  <2>1. /\ UNCHANGED <<shown, hasChild, read, known, inFlight, changes, forgets>>
        /\ last' = [last EXCEPT ![s] = read[s]] /\ phase' = After(s)
        /\ read[s] \in Values
    BY <1>1, <1>4 DEF PostHeard, StatusTypeOK
  <2>2. CASE known
    <3>1. atHub' = [atHub EXCEPT ![s] = read[s]] /\ excused' = excused \ {s}
      BY <1>4, <2>2 DEF PostHeard, Takes
    <3>2. StatusTypeOK'
      BY <1>1, <1>2, <2>1, <3>1 DEF StatusTypeOK
    <3>3. AgreesWithLast'
      BY <1>1, <2>1, <3>1 DEF StatusTypeOK, AgreesWithLast
    <3> QED
      BY <3>2, <3>3 DEF StatusInv
  <2>3. CASE ~known
    <3>1. atHub' = atHub /\ excused' = excused \cup {s}
      BY <1>4, <2>3 DEF PostHeard, Takes
    <3>2. StatusTypeOK'
      BY <1>1, <1>2, <2>1, <3>1 DEF StatusTypeOK
    <3>3. AgreesWithLast'
      BY <1>1, <2>1, <3>1 DEF StatusTypeOK, AgreesWithLast
    <3> QED
      BY <3>2, <3>3 DEF StatusInv
  <2> QED
    BY <2>2, <2>3
<1>5. ASSUME NEW v \in Values, ArrivesLate(s, v) PROVE StatusInv'
  <2>1. /\ UNCHANGED <<shown, hasChild, loop, known, changes, forgets>>
        /\ inFlight' \subseteq inFlight /\ excused' = excused \cup {s}
        /\ atHub' \in {atHub, [atHub EXCEPT ![s] = v]}
    BY <1>5 DEF ArrivesLate, Takes
  <2>2. StatusTypeOK'
    BY <1>1, <2>1 DEF StatusTypeOK, loop
  <2>3. AgreesWithLast'
    BY <1>1, <2>1 DEF StatusTypeOK, AgreesWithLast, loop
  <2> QED
    BY <2>2, <2>3 DEF StatusInv
<1> QED
  BY <1>3, <1>4, <1>5

\* Every step of the loop, the child and the hub keeps the invariant.
LEMMA StatusInvNext == StatusInv /\ [StatusNext]_statusVars => StatusInv'
<1> SUFFICES ASSUME StatusInv, [StatusNext]_statusVars PROVE StatusInv'
  OBVIOUS
<1>1. StatusTypeOK /\ AgreesWithLast
  BY DEF StatusInv
<1>2. /\ changes \in 0..MaxChanges /\ forgets \in 0..MaxForgets
      /\ changes < MaxChanges => changes + 1 \in 0..MaxChanges
      /\ forgets < MaxForgets => forgets + 1 \in 0..MaxForgets
  <2>1. changes \in 0..MaxChanges /\ forgets \in 0..MaxForgets /\ MaxChanges \in Nat /\ MaxForgets \in Nat
    BY <1>1, StatusAssumption DEF StatusTypeOK
  <2> QED
    BY <2>1, SMT
<1>3. CASE UNCHANGED statusVars
  BY <1>1, <1>3 DEF statusVars, StatusInv, StatusTypeOK, AgreesWithLast
<1>4. ASSUME NEW s \in Signals, ScreenChanges(s) PROVE StatusInv'
  <2>1. /\ UNCHANGED <<hasChild, loop, hubState, inFlight, excused, forgets>>
        /\ shown' = [shown EXCEPT ![s] = 1 - shown[s]]
        /\ changes' \in 0..MaxChanges
    BY <1>2, <1>4 DEF ScreenChanges
  <2>2. 1 - shown[s] \in Values
    <3>1. shown[s] \in Values
      BY <1>1 DEF StatusTypeOK
    <3> QED
      BY <3>1, SMT DEF Values
  <2> QED
    BY <1>1, <2>1, <2>2 DEF StatusInv, StatusTypeOK, AgreesWithLast, loop, hubState
<1>5. CASE ChildAppears \/ ChildLeaves
  <2>1. /\ UNCHANGED <<shown, loop, hubState, inFlight, excused, forgets>>
        /\ hasChild' \in BOOLEAN /\ changes' \in 0..MaxChanges
    BY <1>2, <1>5 DEF ChildAppears, ChildLeaves
  <2> QED
    BY <1>1, <2>1 DEF StatusInv, StatusTypeOK, AgreesWithLast, loop, hubState
<1>6. CASE WorkerRegisters
  BY <1>1, <1>6 DEF WorkerRegisters, StatusInv, StatusTypeOK, AgreesWithLast, loop
<1>7. CASE HubForgets
  <2>1. /\ UNCHANGED <<shown, hasChild, loop, inFlight, changes>> /\ known' = FALSE
        /\ atHub' = [s \in Signals |-> Unsent] /\ excused' = Signals
        /\ forgets' \in 0..MaxForgets
    BY <1>2, <1>7 DEF HubForgets
  <2> QED
    BY <1>1, <2>1 DEF StatusInv, StatusTypeOK, AgreesWithLast, loop
<1>8. CASE Look
  BY <1>1, <1>8 DEF Look, StatusInv, StatusTypeOK, AgreesWithLast, hubState, Signals
<1>9. CASE LoopRestarts
  <2>1. /\ UNCHANGED <<shown, hasChild, read, hubState, inFlight, excused, forgets>>
        /\ last' = [s \in Signals |-> Unsent] /\ phase' = "wait" /\ changes' \in 0..MaxChanges
    BY <1>2, <1>9 DEF LoopRestarts
  <2> QED
    BY <1>1, <2>1 DEF StatusInv, StatusTypeOK, AgreesWithLast, hubState
<1> QED
  BY <1>3, <1>4, <1>5, <1>6, <1>7, <1>8, <1>9, PostsKeepAgreement DEF StatusNext, LoopStep

\* A signal the hub is not excused for is the one the loop sent last.
THEOREM StatusAgrees == StatusSpec => []StatusInv
BY StatusInvInit, StatusInvNext, PTL DEF StatusSpec
-----------------------------------------------------------------------------
\* The services together: each behaviour runs one of them and leaves the others.

\* What runs is each service, with steps that leave it alone.
LEMMA ServicesAreKept ==
    /\ Init => RelayInv /\ ExchangeInv /\ DialogInv /\ StatusInv
    /\ [Next]_vars => /\ [RelayNext]_relayVars
                      /\ [ExchangeNext]_exchangeVars
                      /\ [DialogNext]_dialogVars
                      /\ [StatusNext]_statusVars
<1>1. Init => RelayInv /\ ExchangeInv /\ DialogInv /\ StatusInv
  BY RelayInvInit, ExchangeInvInit, DialogInvInit, StatusInvInit DEF Init
<1>2. Next => /\ [RelayNext]_relayVars /\ [ExchangeNext]_exchangeVars
              /\ [DialogNext]_dialogVars /\ [StatusNext]_statusVars
  BY DEF Next
<1>3. UNCHANGED vars => /\ UNCHANGED relayVars /\ UNCHANGED exchangeVars
                        /\ UNCHANGED dialogVars /\ UNCHANGED statusVars
  BY DEF vars
<1> QED
  BY <1>1, <1>2, <1>3

\* The state of every service beside a worker has its type.
THEOREM ServicesTypeCorrect == Spec => []ServicesTypeOK
<1>1. RelayInv /\ ExchangeInv /\ DialogInv /\ StatusInv => ServicesTypeOK
  BY DEF RelayInv, ExchangeInv, ExchangeSound, DialogInv, StatusInv, ServicesTypeOK
<1> QED
  BY <1>1, ServicesAreKept, RelayInvNext, ExchangeInvNext, DialogInvNext, StatusInvNext, PTL DEF Spec

\* What the services promise, they promise together.
THEOREM ServicesKeepTheirPromises ==
    Spec => []( /\ SpoolGoesOldestFirst /\ ApprovalSpentOnce
                /\ ResolvedIsNotPending /\ OkMeansReconnected )
<1>1. RelayInv /\ ExchangeInv /\ DialogInv =>
         SpoolGoesOldestFirst /\ ApprovalSpentOnce /\ ResolvedIsNotPending /\ OkMeansReconnected
  BY DEF RelayInv, ExchangeInv, DialogInv
<1> QED
  BY <1>1, ServicesAreKept, RelayInvNext, ExchangeInvNext, DialogInvNext, StatusInvNext, PTL DEF Spec
=============================================================================
