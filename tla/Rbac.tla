-------------------------------- MODULE Rbac --------------------------------
(***************************************************************************)
(* The RBAC action builders (src/rbac/action.go, src/rbac/actions.go).    *)
(*                                                                         *)
(* An Action carries an Object, a Go map (a reference).  Project builders  *)
(* get a map from ProjectActionSet.object(); the application, node and     *)
(* dashboard builders then write their own keys into that map.  heap holds *)
(* every Object map allocated so far, addressed by position, so an action  *)
(* built earlier sees any later write to the map it refers to.  Each       *)
(* builder chain (Actions.Project(id).X().Edit(), ...) is one call; a call *)
(* is described by its scope, verb and the extra keys its object() adds.   *)
(* built records every action returned, with the object it had when it    *)
(* was returned; listed is the result of Actions.List().                   *)
(***************************************************************************)
EXTENDS Naturals, SequencesExt

CONSTANTS
    ProjectIds,    \* project ids passed to Actions.Project, with ""
    Names,         \* namespaces, kinds, categories and names, with "*"
    Nil,           \* the nil Object
    MaxAllocs      \* bound on the Object maps allocated

VARIABLES heap, built, listed

vars == <<heap, built, listed>>

\* The Scope constants (action.go); "*" and "project.*" are wildcards no
\* builder returns.
Scopes ==
    {"*", "settings", "users", "roles", "project.*", "project.settings", "project.integrations",
     "project.application_categories", "project.custom_applications",
     "project.custom_cloud_pricing", "project.inspections", "project.instrumentations",
     "project.traces", "project.logs", "project.costs", "project.anomalies", "project.risks",
     "project.application", "project.node", "project.dashboards", "project.dashboard"}

WildcardScopes == {"*", "project.*"}

\* NewAction (action.go).
NewAction(scope, verb, object) == [scope |-> scope, action |-> verb, object |-> object]

Global(s) == [scope |-> s, verb |-> "edit", extra |-> Nil]
Edit(s) == [scope |-> s, verb |-> "edit", extra |-> <<>>]
View(s) == [scope |-> s, verb |-> "view", extra |-> <<>>]

\* The builders whose Object is nil: Settings(), Users(), Roles() .Edit().
GlobalCalls == {Global(s) : s \in {"settings", "users", "roles"}}

\* ProjectEditAction, ProjectViewAction, and Risks() (ProjectAction) which
\* has both verbs.
ProjectEditCalls ==
    {Edit(s) : s \in {"project.settings", "project.integrations", "project.application_categories",
                     "project.custom_applications", "project.custom_cloud_pricing",
                     "project.inspections", "project.instrumentations", "project.dashboards",
                     "project.risks"}}

ProjectViewCalls ==
    {View(s) : s \in {"project.traces", "project.logs", "project.costs", "project.anomalies",
                     "project.risks"}}

\* ApplicationActionSet, NodeActionSet, DashboardActionSet: object() adds
\* these keys to the project's map.
ApplicationCall(c, ns, k, n) ==
    [scope |-> "project.application", verb |-> "view",
     extra |-> [application_category |-> c, application_namespace |-> ns,
                application_kind |-> k, application_name |-> n]]

NodeCall(n) == [scope |-> "project.node", verb |-> "view", extra |-> [node_name |-> n]]

DashboardCall(n) == [scope |-> "project.dashboard", verb |-> "view", extra |-> [dashboard_name |-> n]]

ApplicationCalls == {ApplicationCall(c, ns, k, n) : c, ns, k, n \in Names}
NodeCalls == {NodeCall(n) : n \in Names}
DashboardCalls == {DashboardCall(n) : n \in Names}

Calls == GlobalCalls \cup ProjectEditCalls \cup ProjectViewCalls \cup ApplicationCalls
            \cup NodeCalls \cup DashboardCalls

\* Mutant: object() hands out one cached map per project id.
projectObjectCached(h, id) ==
    IF \E a \in DOMAIN h : h[a].project_id = id
    THEN <<h, CHOOSE a \in DOMAIN h : h[a].project_id = id>>
    ELSE <<Append(h, [project_id |-> id]), Len(h) + 1>>

\* ProjectActionSet.object(): a new map {"project_id": id}; returns the
\* heap and the map's address.
projectObject(h, id) == <<Append(h, [project_id |-> id]), Len(h) + 1>>

\* Mutant: the sub-builders' object() starts from Object{} instead of the
\* project's map.
MakeActionFreshMap(h, id, c) ==
    IF c.extra = Nil
    THEN <<h, NewAction(c.scope, c.verb, Nil)>>
    ELSE <<Append(h, c.extra), NewAction(c.scope, c.verb, Len(h) + 1)>>

\* One builder call for project id: the project's map, the call's keys
\* written into it (o[k] = v), and NewAction.
MakeAction(h, id, c) ==
    IF c.extra = Nil
    THEN <<h, NewAction(c.scope, c.verb, Nil)>>
    ELSE LET r == projectObject(h, id)
         IN <<[r[1] EXCEPT ![r[2]] = c.extra @@ r[1][r[2]]], NewAction(c.scope, c.verb, r[2])>>

\* Mutant: Risks().Edit() left out of ProjectActionSet.List().
ListCallsNoRiskEdit ==
    <<Global("settings"), Global("users"), Global("roles"),
      Edit("project.settings"), Edit("project.integrations"),
      Edit("project.application_categories"), Edit("project.custom_applications"),
      Edit("project.custom_cloud_pricing"), Edit("project.inspections"),
      Edit("project.instrumentations"), View("project.traces"), View("project.logs"),
      View("project.costs"), View("project.anomalies"), View("project.risks"),
      ApplicationCall("*", "*", "*", "*"), NodeCall("*"),
      Edit("project.dashboards"), DashboardCall("*")>>

\* Mutant: NodeActionSet left out of ProjectActionSet.List().
ListCallsNoNode ==
    <<Global("settings"), Global("users"), Global("roles"),
      Edit("project.settings"), Edit("project.integrations"),
      Edit("project.application_categories"), Edit("project.custom_applications"),
      Edit("project.custom_cloud_pricing"), Edit("project.inspections"),
      Edit("project.instrumentations"), View("project.traces"), View("project.logs"),
      View("project.costs"), View("project.anomalies"), View("project.risks"),
      Edit("project.risks"), ApplicationCall("*", "*", "*", "*"),
      Edit("project.dashboards"), DashboardCall("*")>>

\* ActionSet.List(): the three global actions, then Project("").List().
ListCalls ==
    <<Global("settings"), Global("users"), Global("roles"),
      Edit("project.settings"), Edit("project.integrations"),
      Edit("project.application_categories"), Edit("project.custom_applications"),
      Edit("project.custom_cloud_pricing"), Edit("project.inspections"),
      Edit("project.instrumentations"), View("project.traces"), View("project.logs"),
      View("project.costs"), View("project.anomalies"), View("project.risks"),
      Edit("project.risks"), ApplicationCall("*", "*", "*", "*"), NodeCall("*"),
      Edit("project.dashboards"), DashboardCall("*")>>

\* The calls of a List() in order on one heap: the heap after them and
\* the actions, in order.
RECURSIVE RunCalls(_, _, _, _)
RunCalls(h, acts, id, cs) ==
    IF cs = <<>> THEN <<h, acts>>
    ELSE LET r == MakeAction(h, id, Head(cs))
         IN RunCalls(r[1], Append(acts, r[2]), id, Tail(cs))

\* An action as returned, with the contents of its map at that moment.
Returned(h, act) == [act |-> act, want |-> IF act.object = Nil THEN Nil ELSE h[act.object]]

Init ==
    /\ heap = <<>>
    /\ built = {}
    /\ listed = {}

\* A caller runs one builder chain for project id.
Build(id, c) ==
    /\ c.extra = Nil \/ Len(heap) < MaxAllocs
    /\ LET r == MakeAction(heap, id, c)
       IN /\ heap' = r[1]
          /\ built' = built \cup {Returned(r[1], r[2])}
    /\ UNCHANGED listed

\* A caller runs Actions.List(); the calls run in order on one heap.
List ==
    /\ Len(heap) < MaxAllocs
    /\ LET res == RunCalls(heap, <<>>, "", ListCalls)
       IN /\ heap' = res[1]
          /\ listed' = Range(res[2])
          /\ built' = built \cup {Returned(res[1], a) : a \in Range(res[2])}

Next == (\E id \in ProjectIds, c \in Calls : Build(id, c)) \/ List

Spec == Init /\ [][Next]_vars

(***************************************************************************)
(* Properties.                                                             *)
(***************************************************************************)

ObjectTypes ==
    [project_id : ProjectIds] \cup [project_id : ProjectIds, node_name : Names]
      \cup [project_id : ProjectIds, dashboard_name : Names]
      \cup [project_id : ProjectIds, application_category : Names,
           application_namespace : Names, application_kind : Names, application_name : Names]

TypeOK ==
    /\ heap \in Seq(ObjectTypes)
    /\ \A b \in built : b.act.object \in DOMAIN heap \cup {Nil}

\* No builder call changes an action returned earlier: every Object map is
\* owned by one action, although object() of the application, node and
\* dashboard builders writes into the map it gets from the project.
ObjectsUnshared == \A b \in built : b.act.object # Nil => heap[b.act.object] = b.want

\* Actions.List(), which the role editor offers, names every (scope, verb)
\* some builder can return, each with the project "" and wildcard names.
ListComplete ==
    listed # {} =>
      \A b \in built : \E l \in listed :
         /\ l.scope = b.act.scope /\ l.action = b.act.action
         /\ l.object # Nil => \A k \in DOMAIN heap[l.object] \ {"project_id"} :
                                 heap[l.object][k] = "*"

\* Actions.List() offers every non-wildcard Scope the package declares, so
\* the role editor can grant each of them; a scope added to action.go
\* without a builder in List() cannot be granted.
ListCoversScopes == listed # {} => {l.scope : l \in listed} = Scopes \ WildcardScopes

=============================================================================
