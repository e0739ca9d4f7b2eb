CONSTANTS
    a = a  b = b  i1 = i1  i2 = i2  i3 = i3  u1 = u1  u2 = u2  u3 = u3
    http = http  postgres = postgres  ok = ok  err = err
    error = error  warning = warning  p1 = p1  p2 = p2
    Apps = {a}
    Nil = Nil
    NotRun = NotRun
    NaN = NaN
    N = 2
    Instances = {}
    InstanceApp <- MCNoMap
    Conns = {}
    ConnInstance <- MCNoMap
    Protocols = {http}
    Statuses = {ok, err}
    Les <- MCLe
    Rules <- MCRulesApp
    AuxChoices <- MCNoAux
    TcpSeries <- MCNone
    RttSeries <- MCNone
    ReqSeries <- MCNone
    LatSeries <- MCNone
    HistSeries <- MCNone
    Severities = {error, warning}
    Patterns = {p1, p2}
    LogSeries <- MCLogSeries
    Absent = Absent
    TrafficSeries <- MCTrafficSeries
SPECIFICATION Spec
INVARIANTS UniqueLabelsHash
PROPERTIES Refinement
