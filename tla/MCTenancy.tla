------------------------------ MODULE MCTenancy ------------------------------
(***************************************************************************)
(* Tenancy and AdminSession side by side.  Each has its own view of the    *)
(* memberships, so a behaviour is one of either: part says which.          *)
(***************************************************************************)
EXTENDS Tenancy, AdminSession, TLC

VARIABLE part

Temporary(t, u) == member[t][u] # None /\ member[t][u].until # None

\* The part that does not run starts in one state only.  Of the two who may be
\* there on support at most one is, two tenants have a farm at least, and of the
\* accounts at most one has a seat already or a password of the old form.
Init ==
    /\ part \in {"tenancy", "session"}
    /\ TenancyInit /\ SessionInit
    /\ part = "tenancy" => \A u \in Persons : /\ account[u] # Nil /\ ~account[u].legacy
                                             /\ \A o \in Orgs : seat[o][u] = Nil
    /\ part = "tenancy" => /\ \A t \in Tenants : Cardinality({u \in Users : Temporary(t, u)}) <= 1
                           /\ (\A f \in Farms : farm[f] = None) => \E t \in Tenants : tenant[t] = "none"
    /\ part = "session" => \A o \in Orgs :
          Cardinality({u \in Persons : seat[o][u] # Nil \/ (account[u] # Nil /\ account[u].legacy)}) <= 1
    /\ part = "session" => /\ \A f \in Farms : farm[f] = None
                           /\ \E t \in Tenants : tenant[t] = "none"
                           /\ \A t \in Tenants, u \in Users : member[t][u] # None => member[t][u].until = None
Next ==
    \/ part = "tenancy" /\ TenancyNext /\ UNCHANGED part /\ UNCHANGED sessionVars
    \/ part = "session" /\ SessionNext /\ UNCHANGED part /\ UNCHANGED tenancyVars
Spec == Init /\ [][Next]_<<part, tenancyVars, sessionVars>>

Symmetry == Permutations(Clients) \cup Permutations(Farms)
=============================================================================
