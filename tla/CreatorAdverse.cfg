CONSTANTS
    k8s = k8s
    docker = docker
    e1 = e1
    e2 = e2
    e3 = e3
    otlp = otlp
    loki = loki
    Observer = {k8s, docker}
    EndpointID = {e1}
    Template = {otlp, loki}
    Env = {"v1", "v2"}
    Exporter = {x1, x2, x3, x4, x5, x6}
    ExporterType = {"otlp", "loki"}
    EndpointType = {"pod", "k8s.crd"}
    ObserverType = {"k8s_observer", "docker_observer"}
    Attribute = {"region"}
    Property = {"region"}
    Value = {"v1", "v2"}
    Absent = Absent
    Rules = {}
    NotReported = NotReported
    None = None
    Creator = Creator
    AttributeText <- MCText
    PropertyText <- MCText
    TypeOf <- MCOneType
    Matches <- MCMatches
    TemplateType <- MCTemplateType
    RoutingProperties <- MCRoutingProperties
    EndpointTypeOf <- MCEndpointTypeOf
    Reportable <- SharedEndpoint
    Retracting = {docker}
    Resyncing = {k8s}
    Drained = {k8s}
    StartMayFail = TRUE
    MaxCallbacks = 3
SPECIFICATION FairSpec
INVARIANT HandlerInv
INVARIANT RoutesOnlyWhatIsReported
INVARIANT ReportedIsCounted
PROPERTY GaugeKeepsPromise
PROPERTY CallbackReturns
PROPERTY ShutdownReturns
