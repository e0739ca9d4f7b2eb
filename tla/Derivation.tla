---------------------------- MODULE Derivation -----------------------------
(***************************************************************************)
(* The metric-emitting recording rules of src/constructor/queries.go       *)
(* (RecordingRules, lines 397-645, and aggConnections, lines 647-675)      *)
(* applied to one World.                                                   *)
(*                                                                         *)
(* An evaluation runs every rule once, in the iteration order of the      *)
(* RecordingRules map (Go randomises it), and each rule iterates its own  *)
(* Go maps in a random order too: a rule's output is one of several       *)
(* sequences.  DerivationSpec says what each rule must emit; this module  *)
(* implements it under the mapping "the set of series returned".          *)
(***************************************************************************)
EXTENDS DerivationWorld



VARIABLES
    w,     \* the World of this evaluation
    out,   \* out[r]: the []*MetricValues rule r returned, or NotRun
    prev   \* the outputs of the previous evaluation of the same World

vars == <<w, out, prev>>

(***************************************************************************)
(* Helpers shared by the rules.                                            *)
(***************************************************************************)

\* The upstreams the loops `for _, instance := range app.Instances` /
\* `for _, u := range instance.Upstreams` visit for application a.
Upstreams(a) == {u \in Conns : InstanceApp[ConnInstance[u]] = a}

\* Mutant: the nil check on the remote application dropped.
ResolvedNoNilCheck(a) == Upstreams(a)

\* dest := u.RemoteApplication(); if dest == nil { continue }
Resolved(a) == {u \in Upstreams(a) : w.remote[u] # Nil}

\* Go's `for k, v := range m`: every order of the keys is possible.
IterationOrders(keys) == SetToSeqs(keys)

\* The emission loop of a rule over one map in a given order: one
\* MetricValues per key whose value keep(_) accepts.
Emit(order, value(_), labels(_), keep(_)) ==
    SelectSeq([i \in DOMAIN order |-> MV(labels(order[i]), value(order[i]))],
              LAMBDA m : keep(m.values))

\* A rule whose map is rebuilt for each application (`for _, app := range
\* w.Applications { byX := map[...]{}; ...; for k, agg := range byX {...} }`):
\* the outputs for every choice of the per-application iteration orders.
PerAppOutputs(keys(_), value(_, _), labels(_, _), keep(_)) ==
    LET Outs(a) == {Emit(ord, LAMBDA k : value(a, k), LAMBDA k : labels(a, k), keep)
                     : ord \in IterationOrders(keys(a))}
        RECURSIVE From(_)
        \* the outputs of the applications AppOrder[i..], one after another
        From(i) == IF i > Len(AppOrder) THEN {<<>>}
                   ELSE {o \o rest : o \in Outs(AppOrder[i]), rest \in From(i + 1)}
    IN From(1)

\* Mutant: the `!ts.IsEmpty()` filter dropped.
NonEmptyAlways(ts) == TRUE

NonEmpty(ts) == ~IsEmpty(ts)

(***************************************************************************)
(* The rules.                                                              *)
(***************************************************************************)

\* Mutant: the map keyed by the upstream connection instead of its dest.
aggConnectionsByUpstream ==
    PerAppOutputs(Resolved,
                  LAMBDA a, u : w.tcp[u],
                  LAMBDA a, u : [app |-> a, dest |-> w.remote[u]],
                  NonEmpty)

\* aggConnections(w, tsF): byDest[dest] aggregates tsF(u) with NanSum over
\* the resolved upstreams of the application's instances; non-empty
\* aggregates are emitted with {app, dest}.
aggConnections ==
    PerAppOutputs(LAMBDA a : {w.remote[u] : u \in Resolved(a)},
                  LAMBDA a, d : AggregateOf(w.tcp, {u \in Resolved(a) : w.remote[u] = d}),
                  LAMBDA a, d : [app |-> a, dest |-> d],
                  NonEmpty)

\* Mutant: Rtt averaged over the number of series, not of defined samples.
NetLatencyPerSeriesMean ==
    LET rtts(a, d) == {u \in Resolved(a) : w.remote[u] = d /\ ~IsEmpty(w.rtt[u])}
    IN PerAppOutputs(LAMBDA a : {d \in Apps : rtts(a, d) # {}},
                     LAMBDA a, d : Div(AggregateOf(w.rtt, rtts(a, d)),
                                       [t \in Points |-> Cardinality(rtts(a, d))]),
                     LAMBDA a, d : [app |-> a, dest |-> d, agg |-> "avg"],
                     LAMBDA ts : TRUE)

\* rr_connection_net_latency: only non-empty Rtt series are collected per
\* destination; the value is Div(sum of Rtt, sum of Map(Defined, Rtt)),
\* emitted without an emptiness check.
NetLatency ==
    LET rtts(a, d) == {u \in Resolved(a) : w.remote[u] = d /\ ~IsEmpty(w.rtt[u])}
        count(a, d) == AggregateOf([u \in Conns |-> MapDefined(w.rtt[u])], rtts(a, d))
    IN PerAppOutputs(LAMBDA a : {d \in Apps : rtts(a, d) # {}},
                     LAMBDA a, d : Div(AggregateOf(w.rtt, rtts(a, d)), count(a, d)),
                     LAMBDA a, d : [app |-> a, dest |-> d, agg |-> "avg"],
                     LAMBDA ts : TRUE)

\* Mutant: the "status" label left out of the emitted labels.
L7RequestsNoStatusLabel ==
    LET keys(a) == {<<w.remote[u], p, s>> : u \in Resolved(a), p \in Protocols,
                                            s \in Statuses}
        series == [x \in Conns \X Protocols \X Statuses |-> w.reqCount[x[1]][x[2]][x[3]]]
        value(a, k) == AggregateOf(series,
                         {<<u, k[2], k[3]>> : u \in {v \in Resolved(a) : w.remote[v] = k[1]}})
    IN PerAppOutputs(keys, value,
                     LAMBDA a, k : [app |-> a, dest |-> k[1], proto |-> k[2]],
                     NonEmpty)

\* rr_connection_l7_requests: key{status, protocol, dest}.
L7Requests ==
    LET keys(a) == {<<w.remote[u], p, s>> : u \in Resolved(a), p \in Protocols,
                                            s \in Statuses}
        series == [x \in Conns \X Protocols \X Statuses |-> w.reqCount[x[1]][x[2]][x[3]]]
        value(a, k) == AggregateOf(series,
                         {<<u, k[2], k[3]>> : u \in {v \in Resolved(a) : w.remote[v] = k[1]}})
    IN PerAppOutputs(keys, value,
                     LAMBDA a, k : [app |-> a, dest |-> k[1], proto |-> k[2], status |-> k[3]],
                     NonEmpty)

\* Mutant: latency aggregated per destination over every protocol.
L7LatencyAcrossProtocols ==
    LET keys(a) == {<<w.remote[u], p>> : u \in Resolved(a), p \in Protocols}
        series == [x \in Conns \X Protocols |-> w.reqLatency[x[1]][x[2]]]
        value(a, k) == AggregateOf(series,
                         {<<u, p>> : u \in {v \in Resolved(a) : w.remote[v] = k[1]},
                                     p \in Protocols})
    IN PerAppOutputs(keys, value,
                     LAMBDA a, k : [app |-> a, dest |-> k[1], proto |-> k[2]],
                     NonEmpty)

\* rr_connection_l7_latency: key{protocol, dest}.
L7Latency ==
    LET keys(a) == {<<w.remote[u], p>> : u \in Resolved(a), p \in Protocols}
        series == [x \in Conns \X Protocols |-> w.reqLatency[x[1]][x[2]]]
        value(a, k) == AggregateOf(series,
                         {<<u, k[2]>> : u \in {v \in Resolved(a) : w.remote[v] = k[1]}})
    IN PerAppOutputs(keys, value,
                     LAMBDA a, k : [app |-> a, dest |-> k[1], proto |-> k[2]],
                     NonEmpty)

\* Mutant: the auxiliary-category skip dropped.
L7HistogramNoAuxSkip ==
    LET counted == UNION {Resolved(a) : a \in Apps}
        keys == {<<w.remote[u], le>> : u \in counted, le \in Les}
        series == [x \in Conns \X Protocols \X Les |-> w.hist[x[1]][x[2]][x[3]]]
        value(k) == AggregateOf(series,
                      {<<u, p, k[2]>> : u \in {v \in counted : w.remote[v] = k[1]},
                                        p \in Protocols})
    IN { Emit(order, value, LAMBDA k : [app |-> k[1], le |-> FormatLe(k[2])], NonEmpty)
         : order \in IterationOrders(keys) }

\* Mutant: the protocol made part of the map key (labels unchanged).
L7HistogramKeyedByProtocol ==
    LET counted == {u \in UNION {Resolved(a) : a \in Apps} :
                      ~(~w.aux[w.remote[u]] /\ w.aux[InstanceApp[ConnInstance[u]]])}
        keys == {<<w.remote[u], p, le>> : u \in counted, p \in Protocols, le \in Les}
        series == [x \in Conns \X Protocols \X Les |-> w.hist[x[1]][x[2]][x[3]]]
        value(k) == AggregateOf(series,
                      {<<u, k[2], k[3]>> : u \in {v \in counted : w.remote[v] = k[1]}})
    IN { Emit(order, value, LAMBDA k : [app |-> k[1], le |-> FormatLe(k[3])], NonEmpty)
         : order \in IterationOrders(keys) }

\* rr_application_l7_histogram: one map for the whole World, key{le, dest};
\* an upstream is skipped when its destination is not auxiliary but its
\* application is; each protocol's buckets are added to the same key.
L7Histogram ==
    LET counted == {u \in UNION {Resolved(a) : a \in Apps} :
                      ~(~w.aux[w.remote[u]] /\ w.aux[InstanceApp[ConnInstance[u]]])}
        keys == {<<w.remote[u], le>> : u \in counted, le \in Les}
        series == [x \in Conns \X Protocols \X Les |-> w.hist[x[1]][x[2]][x[3]]]
        value(k) == AggregateOf(series,
                      {<<u, p, k[2]>> : u \in {v \in counted : w.remote[v] = k[1]},
                                        p \in Protocols})
    IN { Emit(order, value, LAMBDA k : [app |-> k[1], le |-> FormatLe(k[2])], NonEmpty)
         : order \in IterationOrders(keys) }

\* rr_application_traffic: per application, the three TrafficStats series
\* in a fixed order, each only when non-empty.
Traffic ==
    { FlattenSeq([i \in DOMAIN AppOrder |->
        LET a == AppOrder[i]
        IN Emit(TrafficOrder, LAMBDA k : w.traffic[a][k],
                LAMBDA k : [app |-> a, kind |-> k], NonEmpty)]) }

\* Mutant: the `Reduce(...) > 0` filter weakened to `>= 0`.
LogKeptNonNegative(ts) == Reduce(ts) # NaN /\ Reduce(ts) >= 0

\* msgs.Messages.Reduce(timeseries.NanSum) > 0: false for NaN.
LogKept(ts) == Reduce(ts) # NaN /\ Reduce(ts) > 0

\* Mutant: the pattern's own labels (multiline, similar, sample, words)
\* left out.
PatternLabelsShared(a, s, p) == [application |-> a, level |-> s]

\* ls := {application, level}; ls["multiline"], ls["similar"], ls["sample"],
\* ls["words"] from the pattern: the pattern stands for those four labels.
PatternLabels(a, s, p) == [application |-> a, level |-> s, pattern |-> p]

\* rr_application_log_messages: per application, per severity (map order):
\* a severity without patterns emits its Messages series {application,
\* level}; otherwise each pattern (map order) emits its own series with
\* the pattern's labels (multiline, similar, sample, words: functions of
\* the pattern, which stands for them).  Only series with LogKept.
LogMessages ==
    LET m(a, s) == w.logs[a][s]
        pats(a, s) == {p \in Patterns : m(a, s).patterns[p] # Absent}
        severity(a, s, po) ==
            IF pats(a, s) = {}
            THEN Emit(<<s>>, LAMBDA x : m(a, x).messages,
                      LAMBDA x : [application |-> a, level |-> x], LogKept)
            ELSE Emit(po, LAMBDA p : m(a, s).patterns[p],
                      LAMBDA p : PatternLabels(a, s, p), LogKept)
        SevOrders == [Apps -> IterationOrders(Severities)]
        PatOrders == {f \in [Apps \X Severities -> UNION {IterationOrders(pats(x[1], x[2])) :
                                                         x \in Apps \X Severities}] :
                        \A x \in Apps \X Severities : f[x] \in IterationOrders(pats(x[1], x[2]))}
    IN { FlattenSeq([i \in DOMAIN AppOrder |->
            LET a == AppOrder[i]
            IN FlattenSeq([j \in DOMAIN so[a] |-> severity(a, so[a][j], po[a, so[a][j]])])])
         : so \in SevOrders, po \in PatOrders }

\* The outputs rule r may return on the World w.
RuleOutputs(r) ==
    CASE r = RTcpSuccessful -> aggConnections
      [] r = RNetLatency    -> NetLatency
      [] r = RL7Requests    -> L7Requests
      [] r = RL7Latency     -> L7Latency
      [] r = RL7Histogram   -> L7Histogram
      [] r = RTraffic       -> Traffic
      [] r = RLogMessages   -> LogMessages

(***************************************************************************)
(* The evaluation.                                                         *)
(***************************************************************************)

Init ==
    /\ w \in Worlds
    /\ out = [r \in Rules |-> NotRun]
    /\ prev = [r \in Rules |-> NotRun]

\* The engine calls rule r (in RecordingRules map order: any rule not yet
\* run this evaluation) and keeps what it returns.
RunRule(r) ==
    /\ out[r] = NotRun
    /\ \E o \in RuleOutputs(r) : out' = [out EXCEPT ![r] = o]
    /\ UNCHANGED <<w, prev>>

\* Every rule has run; the same World is evaluated again.
Reevaluate ==
    /\ \A r \in Rules : out[r] # NotRun
    /\ prev' = out
    /\ out' = [r \in Rules |-> NotRun]
    /\ UNCHANGED w

Next == (\E r \in Rules : RunRule(r)) \/ Reevaluate

Spec == Init /\ [][Next]_vars

(***************************************************************************)
(* Refinement: the set of series each rule has returned so far in this    *)
(* evaluation is what DerivationSpec lets it emit.                         *)
(***************************************************************************)

Abs == INSTANCE DerivationSpec
         WITH emitted <- [r \in Rules |-> IF out[r] = NotRun THEN NotRun
                                          ELSE Range(out[r])]

(***************************************************************************)
(* Properties.                                                             *)
(***************************************************************************)

LabelNames == {"app", "dest", "agg", "proto", "status", "le", "kind",
               "application", "level", "pattern"}
LabelValues(f) ==
    CASE f \in {"app", "dest"} -> Apps
      [] f = "agg"    -> {"avg"}
      [] f = "proto"  -> Protocols
      [] f = "status" -> Statuses
      [] f = "le"     -> Nat
      [] f = "kind"   -> TrafficKinds
      [] f = "application" -> Apps
      [] f = "level"  -> Severities
      [] f = "pattern" -> Patterns

\* Net latency values are Div results (fractions), the others sums.
IsMetricValues(r, m) ==
    /\ DOMAIN m.labels \subseteq LabelNames
    /\ \A f \in DOMAIN m.labels : m.labels[f] \in LabelValues(f)
    /\ m.values \in IF r = RNetLatency THEN [Points -> (Nat \X Nat) \cup {NaN}]
                                      ELSE [Points -> Nat \cup {NaN}]

TypeOK ==
    /\ w \in Worlds
    /\ \A r \in Rules : \A o \in {out[r], prev[r]} :
          o = NotRun \/ (o \in Seq(Range(o)) /\ \A i \in DOMAIN o : IsMetricValues(r, o[i]))

\* The rules implement DerivationSpec: every rule returns exactly the series
\* the spec prescribes for the World (per application and resolved
\* destination, and protocol, status, le, kind, severity or pattern: the
\* NanSum of the contributing series, or for net latency the coverage-
\* weighted mean; never a series for an unresolved upstream, never an
\* empty or zero one), and a re-evaluation starts afresh.  This is what
\* the nested loops, the nil-skips, the per-application maps, the
\* auxiliary skip and the IsEmpty/Reduce filters of the rules add up to.
Refinement == Abs!Spec

\* Spec section 3, invariant 3: within one rule's output the LabelsHash of
\* every series is unique; two series with the same labels are never
\* returned (they would be silently merged downstream).
UniqueLabelsHash ==
    \A r \in Rules : out[r] # NotRun =>
        \A i, j \in DOMAIN out[r] : i # j => out[r][i].labels # out[r][j].labels

\* Spec section 8, property 3: re-running a rule on the same World yields
\* the identical output.
Deterministic ==
    \A r \in Rules : out[r] # NotRun /\ prev[r] # NotRun => out[r] = prev[r]

=============================================================================
