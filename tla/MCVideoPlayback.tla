-------------------------- MODULE MCVideoPlayback --------------------------
(***************************************************************************)
(* Small instances of VideoPlayback.  Sessions and workers are             *)
(* interchangeable, so the run uses their permutations.                    *)
(*                                                                         *)
(* The run video takes two slices of the behaviours, and part says which:  *)
(* "share" keeps the first source of a camera, with two workers and either *)
(* a fault or the camera disabled; "source" has it replaced, with one job  *)
(* at a time, claimed once.                                                *)
(***************************************************************************)
EXTENDS VideoPlayback, TLC

VARIABLE part

Busy == {w \in Workers : workers[w].pc # "idle"}

SliceInit == Init /\ part \in {"share", "source"}
SliceNext ==
    /\ Next /\ UNCHANGED part
    /\ part = "share" => /\ \A c \in Cameras : cameras'[c].version <= 1
                         /\ faults' = 1 => \A c \in Cameras :
                                   cameras'[c].version = 0 \/ cameras'[c].enabled
    /\ part = "source" => faults' = 0 /\ Cardinality(Busy') <= 1
                         /\ \A k \in JobKeys : jobs'[k].attempts <= 1
SliceSpec == SliceInit /\ [][SliceNext]_<<part, vars>>

Symmetry == Permutations(Sessions) \cup Permutations(Workers)
=============================================================================
