--------------------------------- MODULE Outbox ---------------------------------
(***************************************************************************)
(* What the Stop-hook relay promises about the replies of a worker: each   *)
(* one it is given reaches the hub at least once or is given up for a      *)
(* reason the hook names on stderr, and it holds the reply until then.     *)
(***************************************************************************)
CONSTANT Items

VARIABLES
    accepted,   \* the replies the relay was given
    held,       \* those it still has
    delivered,  \* those the hub has recorded
    lost        \* those it gave up before the hub had them

outboxVars == <<accepted, held, delivered, lost>>

OutboxInit == accepted = {} /\ held = {} /\ delivered = {} /\ lost = {}

Accept(r) ==
    /\ r \in Items \ accepted
    /\ accepted' = accepted \cup {r} /\ held' = held \cup {r}
    /\ UNCHANGED <<delivered, lost>>

\* The hub records r; the relay may not know it yet.
Deliver(r) ==
    /\ r \in held
    /\ delivered' = delivered \cup {r}
    /\ held' \in {held, held \ {r}}
    /\ UNCHANGED <<accepted, lost>>

\* Replies leave the relay: what was not delivered by then is lost.
Release(S) ==
    /\ S \subseteq held
    /\ held' = held \ S
    /\ lost' = lost \cup (S \ delivered)
    /\ UNCHANGED <<accepted, delivered>>

OutboxNext ==
    \/ \E r \in Items : Accept(r) \/ Deliver(r)
    \/ \E S \in SUBSET held : Release(S)

OutboxSpec == OutboxInit /\ [][OutboxNext]_outboxVars

\* No reply vanishes: it is held, was delivered, or is known to be lost.
Accounted == accepted = held \cup delivered \cup lost
=============================================================================
