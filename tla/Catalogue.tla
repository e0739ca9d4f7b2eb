------------------------------ MODULE Catalogue ------------------------------
(***************************************************************************)
(* The query catalogue (src/constructor/queries.go, lines 61-118 and the   *)
(* QUERIES entries whose template groups by labels).                      *)
(*                                                                         *)
(* A Query is (Name, Query, Labels, InstanceToInstance).  The template    *)
(* text is abstracted to the one thing spec 8.6 and spec 3 talk about: the *)
(* set of labels its "sum by(...)" or "avg by(...)" keeps.  Entries whose  *)
(* template has no grouping keep every label of the series and are left   *)
(* out.  A name is the metric's protocol or family and its kind.          *)
(***************************************************************************)
EXTENDS FiniteSets

\* The baseline labels Q adds to every query (model.Label* constants).
Baseline == {"machine_id", "system_uuid", "container_id", "destination",
             "destination_ip", "actual_destination"}

\* Q(name, query, labels...): the baseline plus the query's labels.
Q(name, by, labels) ==
    [name |-> name, by |-> by, labels |-> Baseline \cup labels, itoi |-> FALSE]

\* Mutant: qItoI does not append "app_id".
qItoINoAppId(name, by, labels) == [Q(name, by, labels) EXCEPT !.itoi = TRUE]

\* Mutant: qItoI does not set InstanceToInstance.
qItoINoFlag(name, by, labels) == Q(name, by, labels \cup {"app_id"})

\* qItoI: Q with "app_id" appended, and InstanceToInstance set.
qItoI(name, by, labels) == [Q(name, by, labels \cup {"app_id"}) EXCEPT !.itoi = TRUE]

\* The groupings of the four L7 template shapes.
l7Req == {"app_id", "destination", "actual_destination", "status"}
l7ReqWithMethod == {"app_id", "destination", "actual_destination", "status", "method"}
l7Latency == {"app_id", "destination", "actual_destination"}
l7Histogram == {"app_id", "destination", "actual_destination", "le"}

\* The grouping of the TCP templates (sum by(app_id, destination,
\* actual_destination)); bytes sent and received add az and region.
TcpBy == {"app_id", "destination", "actual_destination"}

L7Protocols == {"http", "postgres", "redis", "memcached", "mysql", "mongo", "kafka",
                "cassandra", "clickhouse", "zookeeper", "foundationdb"}

\* The ip_to_fqdn entry.
FqdnQueries == {Q(<<"ip_to_fqdn">>, {"fqdn", "ip"}, {"ip", "fqdn"})}

\* The instance-to-instance network entries: net latency and the TCP ones.
NetQueries ==
    {qItoI(<<"container_net_latency">>, {"app_id", "destination_ip"}, {})}
    \cup {qItoI(<<"container_net_tcp", k>>, TcpBy, {})
            : k \in {"successful_connects", "failed_connects", "active_connections",
                     "connection_time_seconds", "retransmits"}}
    \cup {qItoI(<<"container_net_tcp", k>>, TcpBy \cup {"az", "region"}, {"region", "az"})
            : k \in {"bytes_sent", "bytes_received"}}

\* The L7 entries: count, latency and histogram per protocol, and the
\* messages of the two queues.
L7Queries ==
    UNION {{qItoI(<<p, "count">>, l7Req, {"status"}),
            qItoI(<<p, "latency_total">>, l7Latency, {}),
            qItoI(<<p, "histogram">>, l7Histogram, {"le"})} : p \in L7Protocols}
    \cup {qItoI(<<p, "messages">>, l7ReqWithMethod, {"status", "method"}) : p \in {"rabbitmq", "nats"}}

\* The per-destination L7 entries and the DNS entries.
DestQueries ==
    {Q(<<"l7_requests_by_dest">>, {"actual_destination", "status"}, {"status"}),
     Q(<<"l7_total_latency_by_dest">>, {"actual_destination"}, {}),
     Q(<<"container_dns_requests_total">>, {"app_id", "request_type", "domain", "status"},
       {"app_id", "request_type", "domain", "status"}),
     Q(<<"container_dns_requests_latency">>, {"app_id", "le"}, {"app_id", "le"})}

\* The entries of QUERIES whose template groups by labels.
GroupedQueries == FqdnQueries \cup NetQueries \cup L7Queries \cup DestQueries

(***************************************************************************)
(* The fetcher (spec 4.C) dispatches the catalogue's queries one at a time; *)
(* q is the query being dispatched.                                        *)
(***************************************************************************)

VARIABLE q

DispatchInit == q \in GroupedQueries

\* The fetcher moves on to any query of the catalogue.
Dispatch == q' \in GroupedQueries

DispatchSpec == DispatchInit /\ [][Dispatch]_q

(***************************************************************************)
(* Properties.                                                             *)
(***************************************************************************)

\* Spec 8.6: every label a query's template groups by is in its declared
\* Labels, so the fetcher keeps it; the helpers Q and qItoI must add what
\* the shared templates (l7Req, ...) group by.
LabelsCoverGrouping == q.by \subseteq q.labels

\* Spec 3: InstanceToInstance marks exactly the queries whose rows are a
\* (source application, destination) edge, i.e. whose grouping keeps
\* app_id together with a destination label.
EdgeQueriesFlagged ==
    q.itoi <=> ("app_id" \in q.by /\ q.by \cap {"destination", "destination_ip"} # {})

=============================================================================
