---------------------------- MODULE ReconnectDialog ----------------------------
(***************************************************************************)
(* Reconnecting an MCP server of Claude Code: a thread of the manager      *)
(* types through the /mcp dialog of the TUI and reads what it did off the  *)
(* child's screen buffer.  The thread is started for an event of the hub   *)
(* or serves a call of the channel on the local socket; nothing keeps two  *)
(* of them from driving one dialog, or the child from being replaced.      *)
(* What the TUI makes of the keys is Claude Code's affair: here it shows   *)
(* what it likes, whenever it likes.  Of the screen only confirmations are *)
(* kept; any other text a driver looks for may be there or not.            *)
(***************************************************************************)
EXTENDS Naturals, FiniteSets

CONSTANTS
    Drives,       \* requests to reconnect
    Servers,      \* MCP servers
    MaxAttempts   \* max_attempts of _retry_reconnect_attempts

ASSUME DialogAssumption == IsFiniteSet(Drives) /\ MaxAttempts \in Nat \ {0}

VARIABLES
    at,        \* where each drive is
    server,    \* the server it is to reconnect
    attempt,   \* its attempt
    callers,   \* drives whose caller on the local socket still waits
    childUp,   \* there is a child
    onChild,   \* the drives of that child
    screen,    \* the servers "Reconnected to" since its buffer was last cleared
    left,      \* what a drive whose child is gone finds in the buffer
    proven     \* history: drives whose server was confirmed since they cleared for the digit

dialogVars == <<at, server, attempt, callers, childUp, onChild, screen, left, proven>>

DrivePlaces == {"none", "start", "opening", "opened", "choosing", "menu", "cleared", "pressed",
                "judging", "ok", "failed"}
Over == {"ok", "failed"}
Underway(d) == at[d] \notin Over \cup {"none"}

DialogTypeOK ==
    /\ at \in [Drives -> DrivePlaces] /\ server \in [Drives -> Servers]
    /\ attempt \in [Drives -> 1..MaxAttempts]
    /\ callers \subseteq {d \in Drives : at[d] # "none"}
    /\ childUp \in BOOLEAN /\ onChild \subseteq Drives /\ (onChild # {} => childUp)
    /\ screen \subseteq Servers /\ left \in [Drives -> SUBSET Servers]
    /\ proven \subseteq Drives

DialogInit ==
    /\ at = [d \in Drives |-> "none"] /\ server \in [Drives -> Servers]
    /\ attempt = [d \in Drives |-> 1]
    /\ callers = {} /\ childUp = FALSE /\ onChild = {}
    /\ screen = {} /\ left = [d \in Drives |-> {}] /\ proven = {}
-----------------------------------------------------------------------------
Goes(d, place) == at' = [at EXCEPT ![d] = place]
Sees(d) == IF d \in onChild THEN screen ELSE left[d]
Clears(d) ==
    IF d \in onChild THEN screen' = {} /\ UNCHANGED left
                     ELSE left' = [left EXCEPT ![d] = {}] /\ UNCHANGED screen

\* A retry that does not count.
RetryUncounted(d) ==
    /\ Goes(d, "start")
    /\ UNCHANGED attempt

\* A transient failure: once more, up to max_attempts.
Retry(d) ==
    IF attempt[d] < MaxAttempts
    THEN Goes(d, "start") /\ attempt' = [attempt EXCEPT ![d] = @ + 1]
    ELSE Goes(d, "failed") /\ UNCHANGED attempt

\* The escape key, then the retry.  An attempt writes to the number its pty had: once
\* that is closed a write raises, or lands wherever the number is open again - in
\* the next child.
Escape(d) ==
    \/ Retry(d)
    \/ d \notin onChild /\ Goes(d, "failed") /\ UNCHANGED attempt

\* An event of the hub: without a child nothing is done.
HubAsks(d) ==
    /\ at[d] = "none" /\ childUp
    /\ Goes(d, "start") /\ onChild' = onChild \cup {d}
    /\ UNCHANGED <<server, attempt, callers, childUp, screen, left, proven>>

\* A call on the local socket: without a child it is answered at once.
ChannelAsks(d) ==
    /\ at[d] = "none" /\ callers' = callers \cup {d}
    /\ IF childUp THEN Goes(d, "start") /\ onChild' = onChild \cup {d}
                  ELSE Goes(d, "failed") /\ UNCHANGED onChild
    /\ UNCHANGED <<server, attempt, childUp, screen, left, proven>>

\* The answer, or the caller's timeout: the drive goes on without one.
CallerHears(d) ==
    /\ d \in callers /\ at[d] \in Over /\ callers' = callers \ {d}
    /\ UNCHANGED <<at, server, attempt, childUp, onChild, screen, left, proven>>

CallerLeaves(d) ==
    /\ d \in callers /\ Underway(d) /\ callers' = callers \ {d}
    /\ UNCHANGED <<at, server, attempt, childUp, onChild, screen, left, proven>>

\* 1. The dialog is opened; a closed pty ends the drive.
OpenDialog(d) ==
    /\ at[d] = "start"
    /\ IF d \in onChild THEN Clears(d) /\ Goes(d, "opening")
                        ELSE Goes(d, "failed") /\ UNCHANGED <<screen, left>>
    /\ UNCHANGED <<server, attempt, callers, childUp, onChild, proven>>

AwaitList(d) ==
    /\ at[d] = "opening"
    /\ \/ Goes(d, "opened") /\ UNCHANGED attempt
       \/ Escape(d)
    /\ UNCHANGED <<server, callers, childUp, onChild, screen, left, proven>>

\* 2. to 4. The server is not listed or a write raises, or the cursor is moved, the
\* buffer cleared and Enter typed.
ChooseServer(d) ==
    /\ at[d] = "opened"
    /\ \/ Goes(d, "failed") /\ UNCHANGED <<screen, left>>
       \/ Clears(d) /\ (Goes(d, "choosing") \/ Goes(d, "failed"))
    /\ UNCHANGED <<server, attempt, callers, childUp, onChild, proven>>

AwaitMenu(d) ==
    /\ at[d] = "choosing"
    /\ \/ Goes(d, "menu") /\ UNCHANGED attempt
       \/ Escape(d)
    /\ UNCHANGED <<server, callers, childUp, onChild, screen, left, proven>>

\* A buffer that keeps what it had.
KeepOldScreen(d) ==
    /\ at[d] = "menu"
    /\ \/ Goes(d, "failed") /\ UNCHANGED proven
       \/ Goes(d, "cleared") /\ proven' = proven \ {d}
    /\ UNCHANGED <<server, attempt, callers, childUp, onChild, screen, left>>

\* 5. and 6. The menu does not offer Reconnect, or the buffer is cleared ...
ClearForDigit(d) ==
    /\ at[d] = "menu"
    /\ \/ Goes(d, "failed") /\ UNCHANGED <<screen, left, proven>>
       \/ Clears(d) /\ Goes(d, "cleared") /\ proven' = proven \ {d}
    /\ UNCHANGED <<server, attempt, callers, childUp, onChild>>

\* ... and, its lock released, the digit typed - into nothing when the pty is closed,
\* which a write under way may be told.
PressReconnect(d) ==
    /\ at[d] = "cleared"
    /\ Goes(d, "pressed") \/ (d \notin onChild /\ Goes(d, "failed"))
    /\ UNCHANGED <<server, attempt, callers, childUp, onChild, screen, left, proven>>

\* 7. The confirmation, within 20 s; else a failure, within 2 s; else nothing.
AwaitConfirmation(d) ==
    /\ at[d] = "pressed"
    /\ \/ server[d] \in Sees(d) /\ Goes(d, "ok")
       \/ Goes(d, "judging")
    /\ UNCHANGED <<server, attempt, callers, childUp, onChild, screen, left, proven>>

Judge(d) ==
    /\ at[d] = "judging"
    /\ \/ Retry(d)
       \/ Goes(d, "failed") /\ UNCHANGED attempt
    /\ UNCHANGED <<server, callers, childUp, onChild, screen, left, proven>>

DriveStep(d) ==
    \/ OpenDialog(d) \/ AwaitList(d) \/ ChooseServer(d) \/ AwaitMenu(d)
    \/ ClearForDigit(d) \/ PressReconnect(d) \/ AwaitConfirmation(d) \/ Judge(d)
-----------------------------------------------------------------------------
\* The TUI confirms that s is reconnected, whoever asked for it.
Confirms(s) ==
    /\ childUp /\ screen' = screen \cup {s}
    /\ proven' = proven \cup {d \in onChild : at[d] \in {"cleared", "pressed"} /\ server[d] = s}
    /\ UNCHANGED <<at, server, attempt, callers, childUp, onChild, left>>

\* A keystroke event of the hub or an auto-accepted prompt clears the buffer.
ScreenCleared ==
    /\ screen # {} /\ screen' = {}
    /\ UNCHANGED <<at, server, attempt, callers, childUp, onChild, left, proven>>

\* The pty of a child that is gone is taken for open.
ChildExitsUnclosed ==
    /\ childUp /\ childUp' = FALSE
    /\ UNCHANGED <<at, server, attempt, callers, onChild, screen, left, proven>>

\* The child exits and its pty is closed; drives that know it stay with it.
ChildExits ==
    /\ childUp /\ childUp' = FALSE /\ onChild' = {} /\ screen' = {}
    /\ left' = [d \in Drives |-> IF d \in onChild /\ Underway(d) THEN screen ELSE left[d]]
    /\ UNCHANGED <<at, server, attempt, callers, proven>>

ChildStarts ==
    /\ ~childUp /\ childUp' = TRUE
    /\ UNCHANGED <<at, server, attempt, callers, onChild, screen, left, proven>>
-----------------------------------------------------------------------------
DialogNext ==
    \/ \E d \in Drives : HubAsks(d) \/ ChannelAsks(d) \/ CallerHears(d) \/ CallerLeaves(d)
                            \/ DriveStep(d)
    \/ \E s \in Servers : Confirms(s)
    \/ ScreenCleared \/ ChildExits \/ ChildStarts

\* Threads run, and each wait for the screen times out.
DialogFairness == \A d \in Drives : WF_dialogVars(DriveStep(d))

DialogSpec == DialogInit /\ [][DialogNext]_dialogVars /\ DialogFairness
-----------------------------------------------------------------------------
\* A drive that reports ok has a confirmation of its own server that reached the
\* buffer since it cleared it for its digit, in that attempt, also when another
\* drive, the user or the hub types in the same dialog (_attempt_reconnect_mcp).
\* The digit follows the clear without the lock: the confirmation may be an older
\* one of that server, printed in between.
OkMeansReconnected == \A d \in Drives : at[d] = "ok" => d \in proven

\* A drive ends, whatever the TUI shows or fails to show and whatever becomes of
\* the child: its waits time out and its attempts are counted.
DriveEnds == \A d \in Drives : Underway(d) ~> at[d] \in Over
=============================================================================
