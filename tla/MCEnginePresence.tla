--------------------------- MODULE MCEnginePresence ---------------------------
(* BridgeEngine with a history variable: when each worker was last online. *)
EXTENDS MCBridgeEngine

VARIABLE lastOnline

PresenceInit == Init /\ lastOnline = [w \in Workers |-> 0]

PresenceNext ==
    /\ Next
    /\ lastOnline' = [w \in Workers |->
           IF \E s \in Streams : stream'[s].phase = "open" /\ stream'[s].scope = w THEN now'
           ELSE IF IsOnline(w) THEN now ELSE lastOnline[w]]

PresenceSpec == PresenceInit /\ [][PresenceNext]_<<vars, lastOnline>>

\* "a manager that's been gone for an hour with no pending work is almost
\* certainly dead": what the stale purge drops has been gone that long.
StalePurgeDropsTheLongGone ==
    [][PurgeStaleWorkers =>
          \A w \in Workers : Known(w) /\ mem'[w] = None =>
              now - lastOnline[w] >= PurgeAge]_<<vars, lastOnline>>
=============================================================================
