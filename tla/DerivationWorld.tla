-------------------------- MODULE DerivationWorld --------------------------
(***************************************************************************)
(* What the recording rules of src/constructor/queries.go read: the World  *)
(* built by the populator (not in the sources), the rule names and the     *)
(* label conversions shared by the rules and by their specification.       *)
(*                                                                         *)
(* A World has applications with instances, each connection (upstream)    *)
(* belonging to one instance and resolving to an application or to nil,   *)
(* and the series the rules read.                                          *)
(***************************************************************************)
EXTENDS Integers, SequencesExt

CONSTANTS
    Apps, Nil,
    Instances, InstanceApp,   \* app.Instances: the application of an instance
    Conns, ConnInstance,      \* instance.Upstreams: the instance of a connection
    Protocols, Statuses, Les, \* keys of RequestsCount/RequestsHistogram
    Rules,                    \* the rules of RecordingRules run by the model
    AuxChoices,               \* possible app.Category.Auxiliary() assignments
    TcpSeries, RttSeries, ReqSeries, LatSeries, HistSeries, TrafficSeries,
    Severities, Patterns,     \* keys of app.LogMessages and of msgs.Patterns
    LogSeries, Absent,        \* Messages series; Absent: no such pattern
    NaN, N,
    NotRun                    \* marks a rule not yet run in this evaluation

INSTANCE TimeSeries

\* Rule names, as in the qRecordingRule... constants (lines 22-36).
RTcpSuccessful == "rr_connection_tcp_successful"
RNetLatency == "rr_connection_net_latency"
RL7Requests == "rr_connection_l7_requests"
RL7Latency == "rr_connection_l7_latency"
RTraffic == "rr_application_traffic"
RL7Histogram == "rr_application_l7_histogram"
RLogMessages == "rr_application_log_messages"
AllRules == {RTcpSuccessful, RNetLatency, RL7Requests, RL7Latency, RTraffic,
             RL7Histogram, RLogMessages}

ASSUME /\ Rules \subseteq AllRules
       /\ AuxChoices \subseteq [Apps -> BOOLEAN]
       /\ InstanceApp \in [Instances -> Apps]
       /\ ConnInstance \in [Conns -> Instances]

\* model.TrafficKind values, in the order the traffic rule tests them.
TrafficOrder == <<"internet_egress", "cross_az_egress", "cross_az_ingress">>
TrafficKinds == Range(TrafficOrder)

\* The order of the w.Applications slice: fixed by the populator.
AppOrder == SetToSeq(Apps)

Worlds ==
    [remote : [Conns -> Apps \cup {Nil}],     \* u.RemoteApplication()
     aux : AuxChoices,                        \* app.Category.Auxiliary()
     tcp : [Conns -> TcpSeries],              \* u.SuccessfulConnections
     rtt : [Conns -> RttSeries],              \* u.Rtt
     reqCount : [Conns -> [Protocols -> [Statuses -> ReqSeries]]],
     reqLatency : [Conns -> [Protocols -> LatSeries]],
     hist : [Conns -> [Protocols -> [Les -> HistSeries]]],
     traffic : [Apps -> [TrafficKinds -> TrafficSeries]],
     logs : [Apps -> [Severities ->            \* app.LogMessages
               [messages : LogSeries,
                patterns : [Patterns -> LogSeries \cup {Absent}]]]]]

\* &model.MetricValues{Labels: ls, LabelsHash: LabelsToSignature(ls), ...};
\* the signature is a function of the labels, so they stand for it.
MV(ls, ts) == [labels |-> ls, values |-> ts]

\* fmt.Sprintf("%f", le): six decimals of seconds, rounded; le is held in
\* nanoseconds, so the label is le in microseconds, rounded to nearest.
FormatLe(le) == (le + 500) \div 1000

=============================================================================
