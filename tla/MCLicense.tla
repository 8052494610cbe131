----------------------------- MODULE MCLicense -----------------------------
(***************************************************************************)
(* License and Reads side by side.  They share no state, so a behaviour is *)
(* one of either: part says which.  Three changes and alarms in a          *)
(* behaviour of reads.                                                     *)
(***************************************************************************)
EXTENDS License, Reads, TLC

CONSTANTS q1, q2, s1, s2
VARIABLE part

\* A permanent licence for one device with the video feature, one for two that
\* begins late and ends, one of another deployment and one that
\* ends when it begins.
MCLicenses ==
    {[signed |-> TRUE, here |-> TRUE, from |-> 0, until |-> None, max |-> 1, feature |-> TRUE],
     [signed |-> TRUE, here |-> TRUE, from |-> 1, until |-> 2, max |-> 2, feature |-> FALSE],
     [signed |-> TRUE, here |-> FALSE, from |-> 0, until |-> None, max |-> 2, feature |-> TRUE],
     [signed |-> TRUE, here |-> TRUE, from |-> 1, until |-> 1, max |-> 2, feature |-> TRUE]}

\* Two ponds, each on a farm of its own.
TheSites == (q1 :> s1) @@ (q2 :> s2)

\* The part that does not run starts in one state only.
PartsInit ==
    /\ part \in {"license", "reads"} /\ Init /\ ReadsInit
    /\ part = "license" => shared = {} /\ post.rank = CHOOSE r \in Ranks : TRUE
PartsNext ==
    \/ part = "license" /\ Next /\ UNCHANGED part /\ UNCHANGED readsVars
    \/ part = "reads" /\ ReadsNext /\ UNCHANGED part /\ UNCHANGED vars /\ edits' + Len(alarms') <= 3
PartsSpec == PartsInit /\ [][PartsNext]_<<part, vars, readsVars>>

Symmetry == Permutations(Devices) \cup Permutations(Requests)
=============================================================================
