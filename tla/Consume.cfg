CONSTANTS
    logs = logs
    metrics = metrics
    fromA = fromA
    fromB = fromB
    x1 = x1
    x2 = x2
    d1 = d1
    d2 = d2
    EndpointID = {e1, e2}
    Exporter = {x1, x2}
    ExporterType = {otlp, loki}
    Attribute = {"region"}
    Property = {"region"}
    Value = {"a", "b"}
    Absent = Absent
    Rules <- MCRules
    AttributeText <- MCText
    PropertyText <- MCText
    Pipeline = {logs, metrics}
    Signal = {"logs", "metrics"}
    SignalOf <- MCSignalOf
    Resource = {fromA, fromB}
    AttributesOf <- MCAttributesOf
    Point = {1, 2, 3}
    PointsOf <- MCPointsOf
    Handles <- MCHandles
    DefaultExporter = {d1, d2}
    DefaultHandles <- MCDefaultHandles
    MaxCalls = 2
SPECIFICATION ConsumeSpec
SYMMETRY MCSymmetry
INVARIANT ConsumeTypeOK
INVARIANT CachedCountMatchesExporters
INVARIANT GaugeReportsLiveCount
INVARIANT RouteIsExact
PROPERTY LossIsCounted
