----------------------------- MODULE MCHubServices -----------------------------
(***************************************************************************)
(* Three services of the hub, for TLC: the readers of its timelines, the   *)
(* recordings of a worker, and the flows.  They share no state, so each    *)
(* behaviour runs one of them, chosen at the start.                        *)
(***************************************************************************)
EXTENDS TimelineReaders, SessionRecorder, FlowShell

CONSTANTS c1, c2, health, reconnect, r1, r2, b1, b2

VARIABLE service   \* the one that runs

vars == <<service, readerVars, recorderVars, flowVars>>

Init ==
    /\ service \in {"readers", "recorder", "flows"}
    /\ ReadersInit /\ RecorderInit /\ FlowsInit
    /\ service # "recorder" => ~byDefault /\ keepFiles = CHOOSE k \in KeepLimits : TRUE

Next ==
    /\ UNCHANGED service
    /\ \/ service = "readers" /\ ReadersNext /\ UNCHANGED <<recorderVars, flowVars>>
       \/ service = "recorder" /\ RecorderNext /\ UNCHANGED <<readerVars, flowVars>>
       \/ service = "flows" /\ FlowsNext /\ UNCHANGED <<readerVars, recorderVars>>

Spec == Init /\ [][Next]_vars

\* Callers, topics, runs and bodies are told apart by nothing but their names.
Symmetry == Permutations(Callers) \cup Permutations(Topics) \cup Permutations(Runs) \cup Permutations(Bodies)

\* The state of each service has its type.
HubServicesTypeOK == ReadersTypeOK /\ RecorderTypeOK /\ FlowsTypeOK
=============================================================================
