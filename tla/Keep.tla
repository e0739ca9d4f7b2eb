-------------------------------- MODULE Keep --------------------------------
(***************************************************************************)
(* The Keep alert client (src/keep/keep.go): NewClient and SendAlert.      *)
(*                                                                         *)
(* One caller sends alerts through a Client; http.Client.Do is split into  *)
(* the request reaching Keep and the answer reaching the client, so the    *)
(* network may lose either and the client's Timeout races a late answer.  *)
(* Every attempt carries an id, so an answer to an attempt the client has  *)
(* given up on is never taken for the answer to a later one (the Go       *)
(* transport closes the connection of a timed-out request).               *)
(*                                                                         *)
(* The environment, none of which is code of this repository: Keep stores *)
(* an alert and answers 200 or 201, or stores nothing and answers with    *)
(* another status; the caller sends alerts it has not had accepted yet,   *)
(* and may send again an alert whose call returned an error.              *)
(***************************************************************************)
EXTENDS Naturals, Sequences, FiniteSets

CONSTANTS
    Alerts,        \* alerts the caller sends (model values)
    BadAlerts,     \* alerts json.Marshal refuses (StartsAt outside years 0..9999)
    NoURL,         \* baseURL "": the mock client
    GoodURLs,      \* base URLs http.NewRequest accepts
    BadURLs,       \* base URLs whose "<base>/alerts" does not parse
    OtherStatuses, \* statuses Keep answers without storing the alert
    MaxCalls       \* bound on SendAlert calls

ASSUME BadAlerts \subseteq Alerts /\ MaxCalls \in Nat

StatusOK == 200
StatusCreated == 201

VARIABLES
    baseURL,   \* Client.baseURL
    pc,        \* "idle" or "waiting" (inside c.client.Do)
    attempt,   \* id of the current or last call
    cur,       \* the alert of the current call
    net,       \* requests and answers in flight
    stored,    \* what Keep stored: [id, alert] records
    results    \* what each call returned: [id, alert, res]

vars == <<baseURL, pc, attempt, cur, net, stored, results>>

(***************************************************************************)
(* The client (keep.go).                                                   *)
(***************************************************************************)

\* NewClient: &http.Client{Timeout: 10 * time.Second}.
ClientTimeout == 10

\* Mutant: only http.StatusOK counts as success.
AcceptedOnlyOK(status) == status = StatusOK

\* Mutant: the status check is left out.
AcceptedAny(status) == TRUE

\* The status check after Do.
Accepted(status) == status \in {StatusOK, StatusCreated}

\* NewClient(baseURL, apiKey): any base URL, no call in progress.
Init ==
    /\ baseURL \in {NoURL} \cup GoodURLs \cup BadURLs
    /\ pc = "idle"
    /\ attempt = 0
    /\ cur = CHOOSE a \in Alerts : TRUE
    /\ net = {}
    /\ stored = {}
    /\ results = <<>>

\* A return statement of SendAlert: the call's result is recorded.
Return(a, res) == results' = Append(results, [id |-> attempt', alert |-> a, res |-> res])

\* SendAlert(alert) up to c.client.Do: the mock, the Marshal and
\* NewRequest errors return at once; otherwise the POST is sent.
SendAlert(a) ==
    /\ pc = "idle"
    /\ attempt < MaxCalls
    /\ attempt' = attempt + 1
    /\ cur' = a
    /\ \/ /\ baseURL = NoURL
          /\ Return(a, "nil")
          /\ UNCHANGED <<pc, net>>
       \/ /\ baseURL # NoURL
          /\ a \in BadAlerts
          /\ Return(a, "marshal")
          /\ UNCHANGED <<pc, net>>
       \/ /\ baseURL \in BadURLs
          /\ a \notin BadAlerts
          /\ Return(a, "request")
          /\ UNCHANGED <<pc, net>>
       \/ /\ baseURL \in GoodURLs
          /\ a \notin BadAlerts
          /\ pc' = "waiting"
          /\ net' = net \cup {[kind |-> "post", id |-> attempt', alert |-> a]}
          /\ UNCHANGED results
    /\ UNCHANGED <<baseURL, stored>>

\* Do returns the answer to the current attempt; the status check decides
\* between nil and "failed to send alert".
Receive ==
    /\ pc = "waiting"
    /\ \E m \in net :
         /\ m.kind = "answer" /\ m.id = attempt
         /\ net' = net \ {m}
         /\ results' = Append(results, [id |-> attempt, alert |-> cur,
                                        res |-> IF Accepted(m.status) THEN "nil" ELSE "status"])
    /\ pc' = "idle"
    /\ UNCHANGED <<baseURL, attempt, cur, stored>>

\* Do returns an error when the client's Timeout expires first.
Timeout ==
    /\ pc = "waiting"
    /\ ClientTimeout > 0
    /\ pc' = "idle"
    /\ results' = Append(results, [id |-> attempt, alert |-> cur, res |-> "transport"])
    /\ UNCHANGED <<baseURL, attempt, cur, net, stored>>

(***************************************************************************)
(* The environment: Keep, the network and the caller's choice of alert.    *)
(***************************************************************************)

\* Keep takes a POST, stores the alert and answers 200 or 201.
Store ==
    \E m \in net, s \in {StatusOK, StatusCreated} :
       /\ m.kind = "post"
       /\ stored' = stored \cup {[id |-> m.id, alert |-> m.alert]}
       /\ net' = (net \ {m}) \cup {[kind |-> "answer", id |-> m.id, status |-> s]}
       /\ UNCHANGED <<baseURL, pc, attempt, cur, results>>

\* Keep refuses a POST without storing it.
Reject ==
    \E m \in net, s \in OtherStatuses :
       /\ m.kind = "post"
       /\ net' = (net \ {m}) \cup {[kind |-> "answer", id |-> m.id, status |-> s]}
       /\ UNCHANGED <<baseURL, pc, attempt, cur, stored, results>>

\* A request or an answer is lost.
Lose ==
    \E m \in net :
       /\ net' = net \ {m}
       /\ UNCHANGED <<baseURL, pc, attempt, cur, stored, results>>

\* The caller sends an alert no earlier call returned nil for.
Call ==
    \E a \in Alerts :
       /\ \A i \in DOMAIN results : results[i].alert = a => results[i].res # "nil"
       /\ SendAlert(a)

Next == Call \/ Receive \/ Timeout \/ Store \/ Reject \/ Lose

\* Only safety is checked, so no fairness is assumed.
Spec == Init /\ [][Next]_vars

(***************************************************************************)
(* Properties.                                                             *)
(***************************************************************************)

\* SendAlert returning nil from a real client means Keep stored that very
\* attempt's alert: the status check after Do lets no refusal through.
AcceptedWhenNil ==
    \A i \in DOMAIN results :
       results[i].res = "nil" /\ baseURL # NoURL =>
          [id |-> results[i].id, alert |-> results[i].alert] \in stored

\* Keep holds an alert twice only if an earlier call for it failed in Do
\* (the timeout at keep.go:63), never after an error SendAlert returned for
\* a status Keep sends when it has stored the alert.
DuplicateOnlyAfterTransportError ==
    \A s1, s2 \in stored :
       s1.alert = s2.alert /\ s1.id < s2.id =>
          \E i \in DOMAIN results : results[i].id = s1.id /\ results[i].res = "transport"

=============================================================================
