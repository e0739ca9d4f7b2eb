CONSTANTS
    a = a  b = b  i1 = i1  i2 = i2  i3 = i3  u1 = u1  u2 = u2  u3 = u3
    http = http  postgres = postgres  ok = ok  err = err
    error = error  warning = warning  p1 = p1  p2 = p2
    Apps = {a, b}
    Nil = Nil
    NotRun = NotRun
    NaN = NaN
    N = 2
    Instances = {i1, i2, i3}
    InstanceApp <- MCInstanceApp
    Conns = {u1, u3}
    ConnInstance <- MCConnInstance2
    Protocols = {http, postgres}
    Statuses = {ok}
    Les <- MCLes
    Rules <- MCRulesHistogram
    AuxChoices <- MCAnyAux
    TcpSeries <- MCNone
    RttSeries <- MCNone
    ReqSeries <- MCNone
    LatSeries <- MCNone
    HistSeries <- MCHistSeries
    Severities = {}
    Patterns = {}
    LogSeries <- MCNone
    Absent = Absent
    TrafficSeries <- MCNone
SPECIFICATION Spec
INVARIANTS UniqueLabelsHash
PROPERTIES Refinement
