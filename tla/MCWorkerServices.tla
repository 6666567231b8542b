--------------------------- MODULE MCWorkerServices ---------------------------
(***************************************************************************)
(* Four services beside a worker, for TLC: the Stop-hook relay, the        *)
(* approval exchange, the reconnect dialog and the status loop.  They      *)
(* share no state, so each behaviour runs one of them, chosen at the start.*)
(***************************************************************************)
EXTENDS StopRelay, ApprovalExchange, ReconnectDialog, StatusLoop

CONSTANTS c1, c2, d1, d2, s1

VARIABLE service   \* the one that runs

vars == <<service, relayVars, exchangeVars, dialogVars, statusVars>>

Init ==
    /\ service \in {"relay", "exchange", "dialog", "status"}
    /\ RelayInit /\ ExchangeInit /\ DialogInit /\ StatusInit
    /\ service # "exchange" => \A c \in Calls : tool[c] = "Bash"

Next ==
    /\ UNCHANGED service
    /\ \/ /\ service = "relay" /\ RelayNext
          /\ UNCHANGED <<exchangeVars, dialogVars, statusVars>>
       \/ /\ service = "exchange" /\ ExchangeNext
          /\ UNCHANGED <<relayVars, dialogVars, statusVars>>
       \/ /\ service = "dialog" /\ DialogNext
          /\ UNCHANGED <<relayVars, exchangeVars, statusVars>>
       \/ /\ service = "status" /\ StatusNext
          /\ UNCHANGED <<relayVars, exchangeVars, dialogVars>>

Spec == Init /\ [][Next]_vars /\ DialogFairness /\ StatusFairness

\* The state of each service has its type.
ServicesTypeOK == RelayTypeOK /\ ExchangeTypeOK /\ DialogTypeOK /\ StatusTypeOK
=============================================================================
