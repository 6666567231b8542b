------------------------------- MODULE StatusLoop -------------------------------
(***************************************************************************)
(* The manager's status loop: every few seconds it reads two signals off   *)
(* the screen of its child - the context percentage and whether Claude is  *)
(* at work - and posts to the hub those that differ from what it posted    *)
(* last.  A post may fail on either side of the hub's answer, and the hub  *)
(* answers 200 for a worker it does not know.                              *)
(***************************************************************************)
EXTENDS Naturals, FiniteSets

CONSTANTS
    Unsent,      \* nothing was posted, nothing was observed
    MaxChanges,  \* bound: changes of the screen
    MaxForgets   \* bound: times the hub forgets the worker

ASSUME StatusAssumption == {MaxChanges, MaxForgets} \subseteq Nat

\* In the order the loop posts them; each has two values here.
Signals == {"pct", "active"}
Values == {0, 1}

VARIABLES
    shown,     \* what the screen of the child says
    hasChild,  \* there is a child
    last,      \* _last_context_pct and _last_active_state
    phase,     \* the loop waits, or posts a signal
    read,      \* what it read off the screen
    known,     \* the hub has a state for the worker
    atHub,     \* context_pct and observed_active of that state
    inFlight,    \* posts given up after 2 s that the hub may still carry out
    excused,   \* history: signals the hub and the loop may disagree on
    changes, forgets

statusVars == <<shown, hasChild, last, phase, read, known, atHub, inFlight, excused, changes, forgets>>
loop == <<last, phase, read>>
hubState == <<known, atHub>>

StatusTypeOK ==
    /\ shown \in [Signals -> Values] /\ read \in [Signals -> Values]
    /\ last \in [Signals -> Values \cup {Unsent}] /\ atHub \in [Signals -> Values \cup {Unsent}]
    /\ hasChild \in BOOLEAN /\ known \in BOOLEAN
    /\ phase \in {"wait"} \cup Signals
    /\ inFlight \subseteq Signals \X Values
    /\ excused \subseteq Signals
    /\ changes \in 0..MaxChanges /\ forgets \in 0..MaxForgets

StatusInit ==
    /\ shown = [s \in Signals |-> 0] /\ read = shown
    /\ last = [s \in Signals |-> Unsent] /\ atHub = last
    /\ hasChild = FALSE /\ known = FALSE
    /\ phase = "wait" /\ inFlight = {} /\ excused = {}
    /\ changes = 0 /\ forgets = 0
-----------------------------------------------------------------------------
\* The child.

ScreenChanges(s) ==
    /\ hasChild /\ changes < MaxChanges /\ changes' = changes + 1
    /\ shown' = [shown EXCEPT ![s] = 1 - @]
    /\ UNCHANGED <<hasChild, loop, hubState, inFlight, excused, forgets>>

ChildAppears ==
    /\ ~hasChild /\ hasChild' = TRUE
    /\ UNCHANGED <<shown, loop, hubState, inFlight, excused, changes, forgets>>

ChildLeaves ==
    /\ hasChild /\ changes < MaxChanges /\ changes' = changes + 1
    /\ hasChild' = FALSE
    /\ UNCHANGED <<shown, loop, hubState, inFlight, excused, forgets>>
-----------------------------------------------------------------------------
\* The hub.

WorkerRegisters ==
    /\ ~known /\ known' = TRUE
    /\ UNCHANGED <<shown, hasChild, loop, atHub, inFlight, excused, changes, forgets>>

\* The worker is purged.  What the loop posted before is gone with it.
HubForgets ==
    /\ known /\ forgets < MaxForgets /\ forgets' = forgets + 1
    /\ known' = FALSE /\ atHub' = [s \in Signals |-> Unsent]
    /\ excused' = Signals
    /\ UNCHANGED <<shown, hasChild, loop, inFlight, changes>>

\* update_context_pct and update_active_state: nothing for an unknown worker.
Takes(s, v) == atHub' = IF known THEN [atHub EXCEPT ![s] = v] ELSE atHub

\* A post the loop had given up on arrives.
ArrivesLate(s, v) ==
    /\ <<s, v>> \in inFlight /\ inFlight' = inFlight \ {<<s, v>>}
    /\ Takes(s, v)
    /\ excused' = excused \cup {s}
    /\ UNCHANGED <<shown, hasChild, loop, known, changes, forgets>>
-----------------------------------------------------------------------------
\* The loop, _context_pct_loop.

After(s) == IF s = "pct" THEN "active" ELSE "wait"

\* Both signals are read from one snapshot of the screen.
Look ==
    /\ phase = "wait" /\ hasChild
    /\ read' = shown /\ phase' = "pct"
    /\ UNCHANGED <<shown, hasChild, last, hubState, inFlight, excused, changes, forgets>>

Unchanged(s) ==
    /\ phase = s /\ read[s] = last[s]
    /\ phase' = After(s)
    /\ UNCHANGED <<shown, hasChild, last, read, hubState, inFlight, excused, changes, forgets>>

\* A 200, which an unknown worker gets too.
PostHeard(s) ==
    /\ phase = s /\ read[s] # last[s]
    /\ Takes(s, read[s])
    /\ last' = [last EXCEPT ![s] = read[s]] /\ phase' = After(s)
    /\ excused' = IF known THEN excused \ {s} ELSE excused \cup {s}
    /\ UNCHANGED <<shown, hasChild, read, known, inFlight, changes, forgets>>

\* A loop that takes a failed post for sent.
PostLostAndForgotten(s) ==
    /\ phase = s /\ read[s] # last[s]
    /\ phase' = After(s) /\ last' = [last EXCEPT ![s] = read[s]]
    /\ UNCHANGED <<shown, hasChild, read, hubState, inFlight, excused, changes, forgets>>

\* The hub is down or too slow: the signal stays due.
PostLost(s) ==
    /\ phase = s /\ read[s] # last[s]
    /\ phase' = After(s)
    /\ inFlight' \in {inFlight, inFlight \cup {<<s, read[s]>>}}
    /\ UNCHANGED <<shown, hasChild, last, read, hubState, excused, changes, forgets>>

\* The manager updates itself: its loop starts anew.
LoopRestarts ==
    /\ changes < MaxChanges /\ changes' = changes + 1
    /\ last' = [s \in Signals |-> Unsent] /\ phase' = "wait"
    /\ UNCHANGED <<shown, hasChild, read, hubState, inFlight, excused, forgets>>

LoopStep == Look \/ \E s \in Signals : Unchanged(s) \/ PostHeard(s) \/ PostLost(s)
-----------------------------------------------------------------------------
StatusNext ==
    \/ LoopStep
    \/ \E s \in Signals : ScreenChanges(s) \/ \E v \in Values : ArrivesLate(s, v)
    \/ ChildAppears \/ ChildLeaves \/ WorkerRegisters \/ HubForgets \/ LoopRestarts

\* The loop turns, and not every post fails for ever.
StatusFairness == /\ SF_statusVars(Look) /\ WF_statusVars(LoopStep)
                  /\ \A s \in Signals : SF_statusVars(PostHeard(s))

StatusSpec == StatusInit /\ [][StatusNext]_statusVars /\ StatusFairness
-----------------------------------------------------------------------------
\* In the end the record the hub keeps of a signal - context_pct, observed_active -
\* is what the screen says, although the loop posts a value only once: a failed post
\* stays due, whichever signal failed.  Excused is a signal the hub forgot, one it
\* was told before it knew the worker, and one whose failed post it carried out all
\* the same - until the next post that is answered.  What the hub shows is more than
\* the record: status_state passes over an observation older than 30 s.
HubLearnsTheScreen ==
    \A s \in Signals : <>[](~hasChild \/ s \in excused \/ atHub[s] = shown[s])
=============================================================================
