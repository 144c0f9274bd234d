CONSTANTS
    k8s = k8s
    docker = docker
    e1 = e1
    e2 = e2
    e3 = e3
    otlp = otlp
    loki = loki
    Observer = {k8s, docker}
    EndpointID = {e1, e2, e3}
    Template = {otlp, loki}
    Env = {"v1", "v2"}
    Exporter = {x1, x2, x3, x4, x5, x6, x7, x8, x9, x10, x11, x12}
    ExporterType = {"otlp", "loki"}
    EndpointType = {"pod", "k8s.crd"}
    ObserverType = {"k8s_observer", "docker_observer"}
    Attribute = {"region"}
    Property = {"region"}
    Value = {"v1", "v2"}
    Absent = Absent
    Rules = {}
    NotReported = NotReported
    None = None
    Creator = Creator
    AttributeText <- MCText
    PropertyText <- MCText
    TypeOf <- MCTypeOf
    Matches <- MCMatches
    TemplateType <- MCTemplateType
    RoutingProperties <- MCRoutingProperties
    EndpointTypeOf <- MCEndpointTypeOf
    Reportable <- OwnEndpoints
    Retracting = {}
    Resyncing = {}
    Drained = {k8s, docker}
    StartMayFail = FALSE
    MaxCallbacks = 3
SPECIFICATION Spec
INVARIANT RouterMirrorsHandler
INVARIANT NoStrandedExporter
INVARIANT RoutableIsRunning
INVARIANT StopOnce
INVARIANT EveryReportIsRouted
INVARIANT OneExporterPerRule
INVARIANT NoExporterOutlivesShutdown
PROPERTY DrivesRouter
