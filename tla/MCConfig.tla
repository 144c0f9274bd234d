------------------------------- MODULE MCConfig -------------------------------
(***************************************************************************)
(* The three readers of configuration, PropertyPath, ConfigExpansion and   *)
(* Configuration, on small inputs.  They share no state: a behaviour is    *)
(* one of any of them, while the others stand still at a fixed input.      *)
(***************************************************************************)
EXTENDS PropertyPath, ConfigExpansion, Configuration, TLC

VARIABLE reader

UpTo(n, symbols) == UNION {[1 .. m -> symbols] : m \in 0 .. n}

\* Paths: all short ones, longer ones around brackets, and spellings of keys.
A == <<"a">>
B == <<"b">>
Dotted == <<"a", "dot", "a">>
Keys == UpTo(2, Char) \ {<<>>}
Names == {k \in Keys : ~Contains(k, "dot") /\ ~Contains(k, "open")}
Means(ks, inBrackets) == [text |-> SpelledPath(ks, inBrackets), meant |-> ks]
Spellings ==
    {Means(<<k>>, <<FALSE>>) : k \in Names}
    \cup {Means(<<A, k>>, <<FALSE, TRUE>>) : k \in Keys}
    \cup {Means(<<k, l>>, <<FALSE, FALSE>>) : k \in Names, l \in Names}
    \cup {Means(<<A, k, l>>, <<FALSE, TRUE, b>>) : k \in {B, Dotted}, l \in Names, b \in BOOLEAN}
    \cup {Means(<<A, l, k>>, <<FALSE, b, TRUE>>) : k \in {B, Dotted}, l \in Names, b \in BOOLEAN}
OpenBracket == <<"a", "open", "quote">>
MCConfigured ==
    Spellings
    \cup [text : UpTo(5, Char) \cup {SpelledPath(<<Dotted>>, <<TRUE>>)}
                 \cup {OpenBracket \o t : t \in UpTo(4, Char)}
                 \cup {<<"a", "dot", "open", "quote">> \o t : t \in UpTo(3, Char)}
                 \cup {OpenBracket \o <<"b", "quote", "close">> \o t : t \in UpTo(3, Char)},
          meant : {<<>>}]

MCPropertyAt ==
    <<>> :> "map" @@ <<A>> :> "flat" @@ <<A, A>> :> "" @@ <<A, Dotted>> :> "value"
    @@ <<Dotted>> :> "region" @@ <<B>> :> "env" @@ <<B, A>> :> "nil" @@ <<B, B>> :> "map"
    @@ <<B, B, A>> :> "value"

\* Templates: any short text in one place, or few texts in all of them.
Text1 == {<<"x">>, <<"backtick", "x", "backtick">>}
MCTemplate ==
    {"sending_queue" :> t @@ Target :> <<"x">> : t \in UpTo(6, Character)}
    \cup {"hosts[0]" :> h @@ Target :> t @@ "region" :> r : h \in Text1, t \in Text1, r \in Text1}
    \cup {"hosts[0]" :> h @@ Endpoint :> e @@ Target :> t @@ "region" :> r :
            h \in Text1, e \in Text1, t \in Text1, r \in Text1}

\* Documents: two rules and a sound template, or no rule and two templates;
\* or two rules and a section that is no map.
Rule == [attribute : Reading, property : Reading]
Blocks == UNION {[named -> {"true", "false", "not bool"}] :
                    named \in SUBSET {"metrics", "logs", "profiles"}}
TemplateShape ==
    [fault : Fault, block : {"absent"}, signals : {<<>>}]
    \cup [fault : {"none"}, block : {"not a map"}, signals : {<<>>}]
    \cup [fault : {"none"}, block : {"map"}, signals : Blocks]
SoundTemplate == [fault |-> "none", block |-> "absent", signals |-> <<>>]
MCDocument ==
    [rules : UpTo(2, Rule), section : {"map"}, templates : {"otlp" :> SoundTemplate}]
    \cup [rules : UpTo(2, Rule), section : {"malformed"}, templates : {<<>>}]
    \cup {[rules |-> <<>>, section |-> "map", templates |-> "otlp" :> t @@ "loki" :> u] :
            t \in TemplateShape, u \in TemplateShape}

SomePath == [text |-> A, meant |-> <<A>>]
SomeTemplate == "hosts[0]" :> <<"x">> @@ Target :> <<"x">>
SomeDocument == [rules |-> <<>>, section |-> "map", templates |-> "otlp" :> SoundTemplate]

Init ==
    \/ /\ reader = "path" /\ PathInit
       /\ BeginTemplate(SomeTemplate) /\ supported /\ BeginDocument(SomeDocument)
    \/ /\ reader = "expansion" /\ ExpansionInit
       /\ PathStart("endpoint_property", SomePath) /\ BeginDocument(SomeDocument)
    \/ /\ reader = "configuration" /\ ConfigurationInit
       /\ PathStart("endpoint_property", SomePath) /\ BeginTemplate(SomeTemplate) /\ supported

Next ==
    /\ UNCHANGED reader
    /\ \/ reader = "path" /\ PathNext /\ UNCHANGED <<expansionVars, configurationVars>>
       \/ reader = "expansion" /\ ExpansionNext /\ UNCHANGED <<pathVars, configurationVars>>
       \/ reader = "configuration" /\ ConfigurationNext /\ UNCHANGED <<pathVars, expansionVars>>

Spec == Init /\ [][Next]_<<reader, pathVars, expansionVars, configurationVars>>
===============================================================================
