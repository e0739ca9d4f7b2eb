CONSTANTS
    a = a  b = b  i1 = i1  i2 = i2  i3 = i3  u1 = u1  u2 = u2  u3 = u3
    http = http  postgres = postgres  ok = ok  err = err
    error = error  warning = warning  p1 = p1  p2 = p2
    Apps = {a, b}
    Nil = Nil
    NotRun = NotRun
    NaN = NaN
    N = 2
    Instances = {i1, i2, i3}
    InstanceApp <- MCInstanceApp
    Conns = {u1, u2}
    ConnInstance <- MCConnInstanceSameApp
    Protocols = {http, postgres}
    Statuses = {ok, err}
    Les <- MCLe
    Rules <- MCRulesL7
    Worlds <- MCWorldsL7
    AuxChoices <- MCNoAux
    TcpSeries <- MCNone
    RttSeries <- MCNone
    ReqSeries <- MCReqSeries
    LatSeries <- MCReqSeries
    HistSeries <- MCNone
    Severities = {}
    Patterns = {}
    LogSeries <- MCNone
    Absent = Absent
    TrafficSeries <- MCNone
SPECIFICATION Spec
INVARIANTS UniqueLabelsHash
PROPERTIES Refinement
