------------------------------- MODULE MC_Pure -------------------------------
(***************************************************************************)
(* The pure functions and tables of the query layer in one run: the user  *)
(* editing an objective annotation (ParseObjective), the fetcher          *)
(* dispatching catalogue queries (Catalogue) and containers reporting     *)
(* their type (ApplicationTypes).  The three generators are independent,  *)
(* so the run explores their sum rather than their product: one moves     *)
(* while the other two rest at their first value.                         *)
(***************************************************************************)
EXTENDS ParseObjective, Catalogue, ApplicationTypes

q0 == CHOOSE x \in GroupedQueries : TRUE
at0 == CHOOSE x \in AllTypes : TRUE

PureInit ==
    \/ Init /\ q = q0 /\ observed = at0
    \/ Init /\ DispatchInit /\ observed = at0
    \/ Init /\ q = q0 /\ ObserveInit

PureNext ==
    \/ q = q0 /\ observed = at0 /\ Next /\ UNCHANGED <<q, observed>>
    \/ s = <<>> /\ observed = at0 /\ Dispatch /\ UNCHANGED <<s, observed>>
    \/ s = <<>> /\ q = q0 /\ Observe /\ UNCHANGED <<s, q>>

PureSpec == PureInit /\ [][PureNext]_<<s, q, observed>>
=============================================================================
