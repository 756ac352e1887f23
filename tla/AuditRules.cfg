CONSTANTS
    d1 = d1
    d2 = d2
    d3 = d3
    Conns = {c1, c2, c3}
    Dests = {d1, d2}
    Users = {x1}
    None = None
    NoDest = NoDest
    Anonymous = {c3}
    LocalRules <- Nothing
    RouteRules <- RouteD2
    PanelLists <- SomeLists
    MaxChanges = 1
    MaxReports = 1
    MaxDeletes = 1
SYMMETRY Symmetry
SPECIFICATION Spec
INVARIANTS AuditInv RulesSurviveBlip MatchedRejected
CHECK_DEADLOCK FALSE
