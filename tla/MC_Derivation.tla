-------------------------- MODULE MC_Derivation ----------------------------
EXTENDS Derivation

CONSTANTS a, b, i1, i2, i3, u1, u2, u3, http, postgres, ok, err, error, warning, p1, p2

\* Two applications: a has instances i1 and i2, b has i3; one upstream per
\* instance (u1, u2, u3), or u1 and u3 only in the larger-world runs.
MCInstanceApp == [i \in {i1, i2, i3} |-> IF i = i3 THEN b ELSE a]
MCConnInstance3 == (u1 :> i1) @@ (u2 :> i2) @@ (u3 :> i3)
MCConnInstance2 == (u1 :> i1) @@ (u3 :> i3)
MCConnInstanceSameApp == (u1 :> i1) @@ (u2 :> i2)
\* No instances and no connections, for the per-application rules.
MCNoMap == [x \in {} |-> a]

\* Two-point series: empty, partly defined, fully defined.
Empty == <<NaN, NaN>>
MCTcpSeries == {Empty, <<1, NaN>>, <<1, 2>>}
MCRttSeries == {Empty, <<1, NaN>>, <<3, 2>>}
MCReqSeries == {Empty, <<NaN, 1>>}
MCHistSeries == {Empty, <<1, NaN>>}
MCTrafficSeries == {Empty, <<NaN, 2>>}
MCNone == {Empty}
\* Log messages: undefined, a zero total (spec scenario 6), a positive total.
MCLogSeries == {Empty, <<0, NaN>>, <<NaN, 1>>}

\* Histogram buckets 5ms and 10ms, in nanoseconds.
MCLes == {5000000, 10000000}
MCLe == {5000000}

\* The L7 run's Worlds: the upstreams resolve to at most one destination,
\* and each upstream has at most one non-empty request series and one
\* non-empty latency series, so two upstreams of one application to one
\* destination may differ in protocol, in status, or in neither.
AtMostOneDefined(f, keys) == Cardinality({k \in keys : ~IsEmpty(f[k])}) <= 1
MCWorldsL7 ==
    [remote : {f \in [Conns -> Apps \cup {Nil}] : Cardinality(Range(f) \ {Nil}) <= 1},
     aux : AuxChoices,
     tcp : [Conns -> TcpSeries],
     rtt : [Conns -> RttSeries],
     reqCount : [Conns -> {f \in [Protocols -> [Statuses -> ReqSeries]] :
                             AtMostOneDefined([k \in Protocols \X Statuses |-> f[k[1]][k[2]]],
                                              Protocols \X Statuses)}],
     reqLatency : [Conns -> {f \in [Protocols -> LatSeries] : AtMostOneDefined(f, Protocols)}],
     hist : [Conns -> [Protocols -> [Les -> HistSeries]]],
     traffic : [Apps -> [TrafficKinds -> TrafficSeries]],
     logs : [Apps -> [Severities ->
               [messages : LogSeries, patterns : [Patterns -> LogSeries \cup {Absent}]]]]]

MCRulesConnections == {RTcpSuccessful, RNetLatency}
MCRulesL7 == {RL7Requests, RL7Latency}
MCRulesHistogram == {RL7Histogram}
MCRulesTcp == {RTcpSuccessful}
MCRulesApp == {RLogMessages, RTraffic}
MCNoAux == {[x \in Apps |-> FALSE]}
MCAnyAux == [{a, b} -> BOOLEAN]
=============================================================================
