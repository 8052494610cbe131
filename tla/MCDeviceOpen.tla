---------------------------- MODULE MCDeviceOpen ----------------------------
(***************************************************************************)
(* DeviceSession and OpenApi side by side.  They share no state, so a      *)
(* behaviour is one of either: part says which.  One mishap in a behaviour *)
(* of devices: a transaction fails, or misreports, or the process restarts.*)
(***************************************************************************)
EXTENDS DeviceSession, OpenApi, TLC

VARIABLE part

PartsInit == part \in {"device", "open"} /\ Init /\ OpenInit
PartsNext ==
    \/ part = "device" /\ Next /\ UNCHANGED part /\ UNCHANGED openVars /\ faults' + unknowns' <= 1
    \/ part = "open" /\ OpenNext /\ UNCHANGED part /\ UNCHANGED vars
PartsSpec == PartsInit /\ [][PartsNext]_<<part, vars, openVars>>

\* In the configuration Clients and Keys are one set, Requests and Nonces another:
\* fewer permutations to try in each state.
Symmetry == Permutations(Clients) \cup Permutations(Requests)
=============================================================================
