------------------------------- MODULE StopRelay -------------------------------
(***************************************************************************)
(* The Stop hook post_stop_relay: once per finished turn of Claude Code it *)
(* drains the spool directory of the worker, posts the turn's reply to the *)
(* hub, and spools what it could not post.  Replies are numbered in the    *)
(* order of their turns, which is also the order of their file names.  The *)
(* channel keeps its permission-*.json files in the same directory: their  *)
(* names come after every reply, the hub refuses them as replies, and they *)
(* count towards the cap of the spool.                                     *)
(***************************************************************************)
EXTENDS Naturals, FiniteSets

CONSTANTS
    RelayTries,   \* attempts per post, TUBEMAIL_STOP_HOOK_RETRIES
    RelayCap,     \* SPOOL_CAP
    MaxReplies,   \* bound: turns of Claude Code
    MaxPermFiles  \* bound: permission files in the directory

ASSUME RelayAssumption == {RelayTries, RelayCap} \subseteq Nat \ {0}
ASSUME RelayBounds == {MaxReplies, MaxPermFiles} \subseteq Nat

VARIABLES
    turn,       \* the number of the last reply
    hook,       \* what the hook does: its phase, or idle between two turns
    tries,      \* failed attempts at the post in hand
    todo,       \* the files of this drain that are still to be posted
    spool,      \* the replies on disk
    permFiles,  \* how many permission files lie beside them
    recorded,   \* history: replies the hub has recorded
    givenUp,   \* history: replies dropped before the hub had them
    drained,    \* history: replies a drain has posted
    skipped     \* history: replies a drain could not read

relayVars == <<turn, hook, tries, todo, spool, permFiles, recorded, givenUp, drained, skipped>>
history == <<recorded, givenUp, drained, skipped>>

Replies == 1..MaxReplies

RelayTypeOK ==
    /\ turn \in 0..MaxReplies
    /\ hook \in {"idle", "drain", "unlink", "post", "spool"}
    /\ tries \in 0..(RelayTries - 1)
    /\ todo \subseteq spool /\ (hook = "unlink" => todo # {})
    /\ spool \subseteq 1..turn /\ (hook # "idle" => turn >= 1 /\ turn \notin spool)
    /\ permFiles \in 0..MaxPermFiles
    /\ recorded \subseteq 1..turn /\ givenUp \subseteq 1..turn
    /\ drained \subseteq recorded /\ skipped \subseteq 1..turn

RelayInit ==
    /\ turn = 0 /\ hook = "idle" /\ tries = 0
    /\ todo = {} /\ spool = {} /\ permFiles = 0
    /\ recorded = {} /\ givenUp = {} /\ drained = {} /\ skipped = {}
-----------------------------------------------------------------------------
\* The oldest of a set of replies.
IsOldest(r, S) == r \in S /\ \A o \in S : r <= o

\* A turn ends with a reply: the hook runs, and lists the spool.
Stop ==
    /\ hook = "idle" /\ turn < MaxReplies
    /\ turn' = turn + 1
    /\ hook' = "drain" /\ todo' = spool
    /\ UNCHANGED <<tries, spool, permFiles, history>>

\* The reply that is posted now.
Posting(r) ==
    \/ hook = "drain" /\ IsOldest(r, todo)
    \/ hook = "post" /\ r = turn

\* A drain that goes on with the next file.
TryNext ==
    /\ IF tries + 1 < RelayTries
       THEN tries' = tries + 1 /\ UNCHANGED <<hook, todo>>
       ELSE /\ tries' = 0
            /\ \/ hook = "drain" /\ UNCHANGED hook
                    /\ todo' = {i \in todo : \E o \in todo : o < i}
               \/ hook = "post" /\ hook' = "spool" /\ UNCHANGED todo
    /\ UNCHANGED <<turn, spool, permFiles>>

\* A post that is not known to be recorded: the next attempt, or the last one
\* is over - the drain ends, the new reply is to be spooled.
TryAgain ==
    /\ IF tries + 1 < RelayTries
       THEN tries' = tries + 1 /\ UNCHANGED <<hook, todo>>
       ELSE /\ tries' = 0 /\ todo' = {}
            /\ hook' = IF hook = "drain" THEN "post" ELSE "spool"
    /\ UNCHANGED <<turn, spool, permFiles>>

PostFails(r) ==
    /\ Posting(r)
    /\ TryAgain
    /\ UNCHANGED history

\* The hub records the reply, and the answer is lost or the verification fails.
PostUnheard(r) ==
    /\ Posting(r)
    /\ recorded' = recorded \cup {r}
    /\ TryAgain
    /\ UNCHANGED <<givenUp, drained, skipped>>

PostSucceeds(r) ==
    /\ Posting(r)
    /\ recorded' = recorded \cup {r}
    /\ tries' = 0
    /\ IF hook = "drain" THEN hook' = "unlink" /\ drained' = drained \cup {r}
                         ELSE hook' = "idle" /\ UNCHANGED drained
    /\ UNCHANGED <<turn, todo, spool, permFiles, givenUp, skipped>>

\* The drained file is removed - or stays, which the hook only logs.
Unlink(r) ==
    /\ hook = "unlink" /\ IsOldest(r, todo)
    /\ spool' \in {spool, spool \ {r}}
    /\ todo' = todo \ {r} /\ hook' = "drain"
    /\ UNCHANGED <<turn, tries, permFiles, history>>

\* An unreadable file taken for a broken one.
SkipAndUnlink(r) ==
    /\ hook = "drain" /\ tries = 0 /\ IsOldest(r, todo)
    /\ todo' = todo \ {r} /\ skipped' = skipped \cup {r} /\ spool' = spool \ {r}
    /\ UNCHANGED <<turn, hook, tries, permFiles, recorded, givenUp, drained>>

\* A file that cannot be read is passed over.
SkipUnreadable(r) ==
    /\ hook = "drain" /\ tries = 0 /\ IsOldest(r, todo)
    /\ todo' = todo \ {r} /\ skipped' = skipped \cup {r}
    /\ UNCHANGED <<turn, hook, tries, spool, permFiles, recorded, givenUp, drained>>

\* No reply left to drain; a permission file that follows is refused and ends
\* the drain just so.
DrainEnds ==
    /\ hook = "drain" /\ todo = {}
    /\ hook' = "post"
    /\ UNCHANGED <<turn, tries, todo, spool, permFiles, history>>

\* How many files go before one more is written, and which: the oldest replies,
\* then permission files.
Excess ==
    IF Cardinality(spool) + permFiles >= RelayCap
    THEN Cardinality(spool) + permFiles + 1 - RelayCap ELSE 0
Victims ==
    {r \in spool : Cardinality({o \in spool : o < r}) < Excess}

\* _spool_event: room is made first, then the file is written or that fails and
\* the hook exits with 2.
Spool ==
    /\ hook = "spool"
    /\ permFiles' = IF Excess > Cardinality(spool) THEN permFiles - (Excess - Cardinality(spool))
                                                   ELSE permFiles
    /\ \/ /\ spool' = (spool \ Victims) \cup {turn}
          /\ givenUp' = givenUp \cup (Victims \ recorded)
       \/ /\ spool' = spool \ Victims
          /\ givenUp' = givenUp \cup ((Victims \cup {turn}) \ recorded)
    /\ hook' = "idle"
    /\ UNCHANGED <<turn, tries, todo, recorded, drained, skipped>>

\* The hook is killed: Claude Code's timeout, or the machine.
HookDies ==
    /\ hook # "idle"
    /\ hook' = "idle" /\ tries' = 0 /\ todo' = {}
    /\ givenUp' = givenUp \cup ({turn} \ recorded)
    /\ UNCHANGED <<turn, spool, permFiles, recorded, drained, skipped>>

\* The channel spools a resolution, or drains its files.
ChannelSpools ==
    /\ permFiles < MaxPermFiles /\ permFiles' = permFiles + 1
    /\ UNCHANGED <<turn, hook, tries, todo, spool, history>>

ChannelDrains ==
    /\ permFiles > 0 /\ permFiles' = permFiles - 1
    /\ UNCHANGED <<turn, hook, tries, todo, spool, history>>
-----------------------------------------------------------------------------
RelayNext ==
    \/ Stop
    \/ \E r \in Replies : PostFails(r) \/ PostUnheard(r) \/ PostSucceeds(r) \/ Unlink(r)
                              \/ SkipUnreadable(r)
    \/ DrainEnds \/ Spool \/ HookDies
    \/ ChannelSpools \/ ChannelDrains

RelaySpec == RelayInit /\ [][RelayNext]_relayVars
-----------------------------------------------------------------------------
\* The relay is an Outbox: a reply it was given is on disk or in the hook's hands
\* until the hub has recorded it, or is given up at the cap, on a failed write or
\* with a killed hook (main, _drain_spool, _spool_event).
Box == INSTANCE Outbox WITH
           Items <- Replies,
           accepted <- 1..turn,
           held <- spool \cup (IF hook = "idle" THEN {} ELSE {turn}),
           delivered <- recorded,
           lost <- givenUp
RelayIsOutbox == Box!OutboxSpec

\* _drain_spool keeps the order of the replies it drains: when one is posted from
\* the spool, an older one that is still there was recorded already or could not
\* be read.
SpoolGoesOldestFirst ==
    \A i \in (spool \ skipped) \ recorded, j \in drained : i > j
=============================================================================
