---------------------------- MODULE ApprovalExchange ----------------------------
(***************************************************************************)
(* Two ways to one decision.  For each tool call Claude Code asks the      *)
(* PreToolUse hook, whose script asks the hook server in the channel       *)
(* process; and it may send the channel a permission_request.  An allow of *)
(* the hook server's risk policy and the request for the same tool are     *)
(* paired, whichever comes first, and the hub is told.  The hook server    *)
(* serves each connection in a task of its own; the channel handles one    *)
(* notification at a time; both await the hub in between.                  *)
(***************************************************************************)
EXTENDS Naturals, Sequences, FiniteSets, Selections

CONSTANTS
    Calls,   \* tool calls
    Tools,   \* the tools this instance uses, of "Bash", "Read" and "Edit"
    NoCall   \* the channel handles no notification

ASSUME ExchangeAssumption ==
    /\ IsFiniteSet(Calls) /\ NoCall \notin Calls
    /\ Tools \subseteq {"Bash", "Read", "Edit"}

VARIABLES
    tool,       \* the tool of each call
    hookAt,     \* where the hook of each call is
    matched,    \* the call whose request the hook of a call resolves
    asked,      \* calls Claude Code has sent a permission_request for
    asks,       \* permission_requests the channel has not read
    handling,   \* the call whose request the channel handles, or NoCall
    step,       \* what it does next about it
    requests,   \* _requests: banked requests, oldest first
    approvals,  \* _approvals: banked approvals, oldest first
    hubPending, \* the hub's pending_permissions
    answered,   \* history: calls the hub was told "allow" about
    unsure,     \* history: calls whose request was posted without an answer
    onWire      \* those of them the hub may still record

exchangeVars == <<tool, hookAt, matched, asked, asks, handling, step, requests, approvals, hubPending,
                  answered, unsure, onWire>>
hookSide == <<hookAt, matched>>
channelSide == <<asked, asks, handling, step>>
banks == <<requests, approvals>>
hubSide == <<hubPending, answered, unsure, onWire>>

\* A banked entry; old when it has been there for longer than ttl_s.
Banked == [call : Calls, old : BOOLEAN]

ExchangeTypeOK ==
    /\ tool \in [Calls -> Tools]
    /\ hookAt \in [Calls -> {"none", "rating", "posting", "allowed", "deferred"}]
    /\ matched \in [Calls -> Calls \cup {NoCall}]
    /\ asks \in Seq(asked) /\ asked \subseteq Calls
    /\ handling \in Calls \cup {NoCall} /\ step \in {"post", "offer", "resolve"}
    /\ requests \in Seq(Banked) /\ approvals \in Seq(Banked)
    /\ hubPending \subseteq Calls /\ answered \subseteq Calls
    /\ onWire \subseteq Calls /\ unsure \subseteq Calls

ExchangeInit ==
    /\ tool \in [Calls -> Tools]
    /\ hookAt = [c \in Calls |-> "none"] /\ matched = [c \in Calls |-> NoCall]
    /\ asked = {} /\ asks = << >> /\ handling = NoCall /\ step = "post"
    /\ requests = << >> /\ approvals = << >>
    /\ hubPending = {} /\ answered = {} /\ unsure = {} /\ onWire = {}
-----------------------------------------------------------------------------
\* The bank.

\* _reap_locked, which every offer begins with.
Reaped(bank) == Kept(bank, {i \in DOMAIN bank : ~bank[i].old})

\* The places of a tool's entries in a bank, and the bank without its oldest one.
Places(bank, t) == {i \in DOMAIN bank : tool[bank[i].call] = t}
Oldest(bank, t) == CHOOSE i \in Places(bank, t) : \A j \in Places(bank, t) : i <= j
Spent(bank, t) == Kept(bank, DOMAIN bank \ {Oldest(bank, t)})
With(bank, c) == Append(bank, [call |-> c, old |-> FALSE])

\* A match that leaves the approval in the bank.
OfferKeepsApproval(c, hit) ==
    LET t == tool[c] IN
    /\ hit = (Places(Reaped(approvals), t) # {})
    /\ approvals' = Reaped(approvals)
    /\ requests' = IF hit THEN Reaped(requests) ELSE With(Reaped(requests), c)

\* offer_request: the request of c meets a banked approval, or is banked.
OfferRequest(c, hit) ==
    LET t == tool[c] IN
    /\ hit = (Places(Reaped(approvals), t) # {})
    /\ approvals' = IF hit THEN Spent(Reaped(approvals), t) ELSE Reaped(approvals)
    /\ requests' = IF hit THEN Reaped(requests) ELSE With(Reaped(requests), c)

\* offer_approval: the approval of c meets a banked request, or is banked.
OfferApproval(c) ==
    LET t == tool[c]
        waiting == Reaped(requests)
        hit == Places(waiting, t) # {} IN
    /\ requests' = IF hit THEN Spent(waiting, t) ELSE waiting
    /\ approvals' = IF hit THEN Reaped(approvals) ELSE With(Reaped(approvals), c)
    /\ matched' = [matched EXCEPT ![c] = IF hit THEN waiting[Oldest(waiting, t)].call ELSE NoCall]
    /\ hookAt' = [hookAt EXCEPT ![c] = IF hit THEN "posting" ELSE "allowed"]

\* The first entry that is not old becomes so.
GrowsOld(bank, i) == i \in DOMAIN bank /\ ~bank[i].old /\ \A j \in 1..(i - 1) : bank[j].old
TtlPasses ==
    /\ \/ \E i \in 1..Cardinality(Calls) :
             GrowsOld(requests, i) /\ requests' = [requests EXCEPT ![i].old = TRUE]
                /\ UNCHANGED approvals
       \/ \E i \in 1..Cardinality(Calls) :
             GrowsOld(approvals, i) /\ approvals' = [approvals EXCEPT ![i].old = TRUE]
                /\ UNCHANGED requests
    /\ UNCHANGED <<tool, hookSide, channelSide, hubSide>>
-----------------------------------------------------------------------------
\* The hub.

\* What the hub does with an allow: nothing more than to drop what is pending.
Told(c) == hubPending' = hubPending \ {c} /\ answered' = answered \cup {c}

\* It records a request whose post the channel had given up on.
RecordsLate(c) ==
    /\ c \in onWire /\ onWire' = onWire \ {c}
    /\ hubPending' = hubPending \cup {c}
    /\ UNCHANGED <<tool, hookSide, channelSide, banks, answered, unsure>>

\* The user or the orchestrator decides, or a sweep drops the request.
DecidedElsewhere(c) ==
    /\ c \in hubPending /\ hubPending' = hubPending \ {c}
    /\ UNCHANGED <<tool, hookSide, channelSide, banks, answered, unsure, onWire>>
-----------------------------------------------------------------------------
\* The hook server.

\* The hook connects, and its call is rated.
HookAsks(c) ==
    /\ hookAt[c] = "none" /\ hookAt' = [hookAt EXCEPT ![c] = "rating"]
    /\ UNCHANGED <<tool, matched, channelSide, banks, hubSide>>

\* RiskPolicy.decide: what a tool may be answered.  Read-only tools are allowed
\* at once, a Bash command as it is rated or, without a rating, by pattern.
Verdicts(t) == CASE t = "Read" -> {"allow"}
                 [] t = "Bash" -> {"allow", "defer"}
                 [] OTHER -> {"defer"}

HookAllows(c) ==
    /\ hookAt[c] = "rating" /\ "allow" \in Verdicts(tool[c])
    /\ OfferApproval(c)
    /\ UNCHANGED <<tool, channelSide, hubSide>>

\* Deferred, or the hook's request was slow or no JSON.
HookDefers(c) ==
    /\ hookAt[c] \in {"none", "rating"}
    /\ hookAt[c] = "rating" => "defer" \in Verdicts(tool[c])
    /\ hookAt' = [hookAt EXCEPT ![c] = "deferred"]
    /\ UNCHANGED <<tool, matched, channelSide, banks, hubSide>>

\* The matched request is resolved at the hub, in one try; the hook is answered
\* "allow" either way.
HookResolves(c) ==
    /\ hookAt[c] = "posting" /\ hookAt' = [hookAt EXCEPT ![c] = "allowed"]
    /\ Told(matched[c]) \/ UNCHANGED <<hubPending, answered>>
    /\ UNCHANGED <<tool, matched, channelSide, banks, unsure, onWire>>
-----------------------------------------------------------------------------
\* The channel.

\* Claude Code sends the permission_request of a call, before, while or after
\* its hook runs; a call may also never ask.
CallAsks(c) ==
    /\ c \notin asked /\ asked' = asked \cup {c}
    /\ asks' = Append(asks, c)
    /\ UNCHANGED <<tool, hookSide, handling, step, banks, hubSide>>

ReadsAsk ==
    /\ handling = NoCall /\ asks # << >>
    /\ handling' = Head(asks) /\ asks' = Tail(asks)
    /\ step' = "post"
    /\ UNCHANGED <<tool, hookSide, asked, banks, hubSide>>

\* A post that is left to a task of its own.
PostsInBackground ==
    /\ handling # NoCall /\ step = "post" /\ step' = "offer"
    /\ onWire' = onWire \cup {handling}
    /\ UNCHANGED <<tool, hookSide, asked, asks, handling, banks, hubPending, answered, unsure>>

\* The request is posted, in one try; whatever comes of it, it is offered next.
PostsRequest ==
    /\ handling # NoCall /\ step = "post" /\ step' = "offer"
    /\ \/ hubPending' = hubPending \cup {handling} /\ UNCHANGED <<unsure, onWire>>
       \/ /\ unsure' = unsure \cup {handling}
          /\ onWire' \in {onWire, onWire \cup {handling}}
          /\ UNCHANGED hubPending
    /\ UNCHANGED <<tool, hookSide, asked, asks, handling, banks, answered>>

OffersRequest ==
    /\ handling # NoCall /\ step = "offer"
    /\ \E hit \in BOOLEAN :
          /\ OfferRequest(handling, hit)
          /\ step' = IF hit THEN "resolve" ELSE "post"
          /\ handling' = IF hit THEN handling ELSE NoCall
    /\ UNCHANGED <<tool, hookSide, asked, asks, hubSide>>

\* The durable post: delivered, or spooled for a later process.
ResolvesRequest ==
    /\ handling # NoCall /\ step = "resolve"
    /\ handling' = NoCall /\ step' = "post"
    /\ Told(handling) \/ UNCHANGED <<hubPending, answered>>
    /\ UNCHANGED <<tool, hookSide, asked, asks, banks, unsure, onWire>>

\* The channel ends with the session, and another one registers: hooks that
\* waited are not answered, and nothing is banked any more.
ChannelRestarts ==
    /\ hookAt' = [c \in Calls |-> IF hookAt[c] \in {"rating", "posting"} THEN "deferred" ELSE hookAt[c]]
    /\ asks' = << >> /\ handling' = NoCall /\ step' = "post"
    /\ requests' = << >> /\ approvals' = << >>
    /\ hubPending' = {}
    /\ unsure' = unsure \cup ({handling} \cap Calls)
    /\ onWire' \in {onWire, onWire \cup (IF step = "post" THEN {handling} \cap Calls ELSE {})}
    /\ UNCHANGED <<tool, matched, asked, answered>>
-----------------------------------------------------------------------------
ExchangeNext ==
    \/ \E c \in Calls : \/ HookAsks(c) \/ HookAllows(c) \/ HookDefers(c) \/ HookResolves(c)
                        \/ CallAsks(c) \/ RecordsLate(c) \/ DecidedElsewhere(c)
    \/ ReadsAsk \/ PostsRequest \/ OffersRequest \/ ResolvesRequest
    \/ ChannelRestarts \/ TtlPasses

ExchangeSpec == ExchangeInit /\ [][ExchangeNext]_exchangeVars
-----------------------------------------------------------------------------
\* An allow of the risk policy clears at most one request: what the hub was told
\* and what is still to be told never exceeds the calls the policy allowed
\* (offer_request and offer_approval take what they match).
ApprovalSpentOnce ==
    \A t \in Tools :
        LET Of(S) == Cardinality({c \in S : tool[c] = t}) IN
        Of(answered) + Of({c \in Calls : handling = c /\ step = "resolve"})
            + Of({c \in Calls : hookAt[c] = "posting"})
            + Cardinality(Places(approvals, t))
            <= Of({c \in Calls : hookAt[c] \in {"posting", "allowed"} \/ matched[c] # NoCall})

\* What the exchange has resolved at the hub is not pending there afterwards: the
\* request is posted before it can be paired.  Only a post without an answer may
\* be recorded too late (_handle_unknown_notification).
ResolvedIsNotPending == (answered \cap hubPending) \subseteq unsure
=============================================================================
