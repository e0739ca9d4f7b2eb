-------------------------- MODULE DerivationSpec ---------------------------
(***************************************************************************)
(* What the recording rules must emit (spec section 4.E), stated on the    *)
(* World directly, without maps, loops or orders: for every rule the set   *)
(* of series, one per logical key, with no empty series.  An evaluation    *)
(* emits each rule's set once; the same World may be evaluated again.      *)
(***************************************************************************)
EXTENDS DerivationWorld

VARIABLES
    w,        \* the World
    emitted   \* emitted[r]: the set of series rule r emitted, or NotRun

vars == <<w, emitted>>

(***************************************************************************)
(* What the spec (section 4.E) says each rule emits, stated on the World   *)
(* directly: one series per logical key, no empty series.                  *)
(***************************************************************************)

\* The connections of application a's instances that resolve to d.
Edges(a, d) == {u \in Conns : InstanceApp[ConnInstance[u]] = a /\ w.remote[u] = d}

NonEmptyOnly(S) == {m \in S : ~IsEmpty(m.values)}

\* A log series counts when its total is neither zero nor undefined.
NonZero(ts) == Reduce(ts) \notin {0, NaN}

\* Coverage-weighted mean of the Rtt samples at each point.
MeanRtt(U) ==
    [t \in Points |->
        LET D == {u \in U : w.rtt[u][t] # NaN}
        IN IF D = {} THEN NaN
           ELSE Fraction(FoldFunctionOnSet(+, 0, [u \in D |-> w.rtt[u][t]], D),
                         Cardinality(D))]

SpecOutput(r) ==
  CASE r = RTcpSuccessful ->
         NonEmptyOnly({MV([app |-> a, dest |-> d], AggregateOf(w.tcp, Edges(a, d))) :
                         a \in Apps, d \in Apps})
    [] r = RNetLatency ->
         NonEmptyOnly({MV([app |-> a, dest |-> d, agg |-> "avg"], MeanRtt(Edges(a, d))) :
                         a \in Apps, d \in Apps})
    [] r = RL7Requests ->
         NonEmptyOnly({MV([app |-> a, dest |-> d, proto |-> p, status |-> s],
                          [t \in Points |-> FoldFunctionOnSet(NanSum, NaN,
                              [u \in Edges(a, d) |-> w.reqCount[u][p][s][t]], Edges(a, d))]) :
                         a \in Apps, d \in Apps, p \in Protocols, s \in Statuses})
    [] r = RL7Latency ->
         NonEmptyOnly({MV([app |-> a, dest |-> d, proto |-> p],
                          [t \in Points |-> FoldFunctionOnSet(NanSum, NaN,
                              [u \in Edges(a, d) |-> w.reqLatency[u][p][t]], Edges(a, d))]) :
                         a \in Apps, d \in Apps, p \in Protocols})
    [] r = RL7Histogram ->
         LET into(d) == {<<u, p>> \in (UNION {Edges(a, d) : a \in Apps}) \X Protocols :
                           w.aux[d] \/ ~w.aux[InstanceApp[ConnInstance[u]]]}
         IN NonEmptyOnly({MV([app |-> d, le |-> FormatLe(le)],
                            [t \in Points |-> FoldFunctionOnSet(NanSum, NaN,
                                [x \in into(d) |-> w.hist[x[1]][x[2]][le][t]], into(d))]) :
                           d \in Apps, le \in Les})
    [] r = RTraffic ->
         NonEmptyOnly({MV([app |-> a, kind |-> k], w.traffic[a][k]) :
                         a \in Apps, k \in TrafficKinds})
    [] r = RLogMessages ->
         LET m(a, s) == w.logs[a][s]
             pats(a, s) == {p \in Patterns : m(a, s).patterns[p] # Absent}
         IN {MV([application |-> a, level |-> s], m(a, s).messages) :
               <<a, s>> \in {x \in Apps \X Severities :
                               pats(x[1], x[2]) = {} /\ NonZero(m(x[1], x[2]).messages)}}
            \cup
            {MV([application |-> a, level |-> s, pattern |-> p], m(a, s).patterns[p]) :
               <<a, s, p>> \in {x \in Apps \X Severities \X Patterns :
                                  x[3] \in pats(x[1], x[2]) /\
                                  NonZero(m(x[1], x[2]).patterns[x[3]])}}

(***************************************************************************)
(* The abstract evaluation.                                                *)
(***************************************************************************)

Init ==
    /\ w \in Worlds
    /\ emitted = [r \in Rules |-> NotRun]

\* Rule r emits the series the spec prescribes for w.
Emit(r) ==
    /\ emitted[r] = NotRun
    /\ emitted' = [emitted EXCEPT ![r] = SpecOutput(r)]
    /\ UNCHANGED w

\* A new evaluation of the same World.
Again ==
    /\ \A r \in Rules : emitted[r] # NotRun
    /\ emitted' = [r \in Rules |-> NotRun]
    /\ UNCHANGED w

Next == (\E r \in Rules : Emit(r)) \/ Again

Spec == Init /\ [][Next]_vars

=============================================================================
