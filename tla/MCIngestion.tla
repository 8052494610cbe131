----------------------------- MODULE MCIngestion -----------------------------
(***************************************************************************)
(* Ingestion and MediaAccess side by side.  They share no state, so a      *)
(* behaviour is one of either: part says which.                            *)
(*                                                                         *)
(* One device whose product is first of the water kind and may become      *)
(* generic, with a model that knows one of the two metrics.                *)
(***************************************************************************)
EXTENDS Ingestion, MediaAccess, TLC

CONSTANTS temp, ph, water, generic
VARIABLE part

MCMetrics == {temp, ph}
MCProducts == {water, generic}
MCGeneric == {generic}
MCSchema == (water :> {temp, ph}) @@ (generic :> {temp})
MCPayloads == {temp :> "bad", (temp :> "ok") @@ (ph :> "bad")}

PartsInit == part \in {"ingestion", "media"} /\ Init /\ MediaInit
PartsNext ==
    \/ part = "ingestion" /\ Next /\ UNCHANGED part /\ UNCHANGED mediaVars
    \/ part = "media" /\ MediaNext /\ UNCHANGED part /\ UNCHANGED vars
PartsSpec == PartsInit /\ [][PartsNext]_<<part, vars, mediaVars>>

Sym == Permutations(Handlers)
=============================================================================
