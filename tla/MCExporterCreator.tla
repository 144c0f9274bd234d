-------------------------- MODULE MCExporterCreator --------------------------
(* Two observers and two templates.  An endpoint looks like "v1", which only *)
(* the otlp template matches, or like "v2", which both match, so a change    *)
(* stops one exporter and starts two.                                        *)
EXTENDS ExporterCreator, TLC

CONSTANTS k8s, docker, e1, e2, e3, otlp, loki

MCTypeOf == k8s :> "k8s_observer" @@ docker :> "docker_observer"
\* Two observers of one type, which share their series of the gauge.
MCOneType == k8s :> "k8s_observer" @@ docker :> "k8s_observer"
MCMatches == otlp :> {"v1", "v2"} @@ loki :> {"v2"}
MCTemplateType == otlp :> "otlp" @@ loki :> "loki"
MCRoutingProperties == [t \in Template |-> [v \in Env |-> [p \in Property |-> v]]]
MCEndpointTypeOf == "v1" :> "pod" @@ "v2" :> "k8s.crd"
MCText == "v1" :> "v1" @@ "v2" :> "v2"

\* Each observer reports endpoints of its own, one of them two at a time.
OwnEndpoints == k8s :> {e1, e2} @@ docker :> {e3}
\* Both observers report the same endpoint.
SharedEndpoint == k8s :> {e1} @@ docker :> {e1}
==============================================================================
