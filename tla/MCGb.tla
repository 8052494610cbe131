-------------------------------- MODULE MCGb --------------------------------
(***************************************************************************)
(* GbAccess, GbCatalog and MediaJobs side by side.  They share no state,   *)
(* so a behaviour is one of them: part says which.  Of the devices d1 may  *)
(* be switched off and on; two catalogs are being refreshed at once only   *)
(* before the first deadline.                                              *)
(***************************************************************************)
EXTENDS GbAccess, GbCatalog, MediaJobs, TLC

CONSTANTS d1, d2, p1, p2
VARIABLE part

AllowedPeers == (d1 :> {p1, p2}) @@ (d2 :> {p1})

Init == part \in {"access", "catalog", "jobs"} /\ AccessInit /\ CatalogInit /\ JobsInit
Next ==
    \/ part = "access" /\ AccessNext /\ UNCHANGED part /\ UNCHANGED catalogVars /\ UNCHANGED jobsVars
                       /\ row'[d2].enabled
    \/ part = "catalog" /\ CatalogNext /\ UNCHANGED part /\ UNCHANGED accessVars /\ UNCHANGED jobsVars
                        /\ (wall' = 0 \/ \E s \in SNs : pending'[s] = Nil)
    \/ part = "jobs" /\ JobsNext /\ UNCHANGED part /\ UNCHANGED accessVars /\ UNCHANGED catalogVars
Spec == Init /\ [][Next]_<<part, accessVars, catalogVars, jobsVars>>

\* In the configuration Threads and Hands are the same set as Requests, and SNs as Nonces.
Symmetry == Permutations(Nonces) \cup Permutations(Requests) \cup Permutations(Channels)
=============================================================================
