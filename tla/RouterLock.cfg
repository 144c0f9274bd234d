CONSTANTS
    EndpointID = {e1}
    Exporter = {x1, x2}
    ExporterType = {"otlp"}
    Attribute = {"region"}
    Property = {"region"}
    Value = {"a"}
    Absent = Absent
    Rules <- MCRules
    AttributeText <- MCText
    PropertyText <- MCText
    Router = {logs, metrics}
    Writer = {k8s, docker}
    Nobody = Nobody
SPECIFICATION LockSpec
INVARIANT LockTypeOK
INVARIANT RouteIsAtomic
PROPERTY ChangesAreAtomic
PROPERTY RouteReturns
PROPERTY ChangeReturns
