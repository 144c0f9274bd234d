-------------------------- MODULE ConfigurationProofs --------------------------
(****************************************************************************)
(* What is configured means what it says: Unmarshal accepts exactly what is *)
(* sound, whatever the order in which Go's maps are read; and a template is *)
(* expanded, for any endpoint, by replacing its expressions and nothing     *)
(* else, to a configuration with the endpoint that is its own.              *)
(****************************************************************************)
EXTENDS Configuration, ConfigExpansion, PropertyPathProofs, FiniteSetTheorems, TLAPS
------------------------------------------------------------------------------
(* Unmarshal.                                                               *)

(* What is known of a template that has been read: it is sound, and its     *)
(* signals are those its block sets to true, or all of them.                *)
IsRead(name, handled) ==
    /\ Sound(TemplateOf(name))
    /\ handled = IF TemplateOf(name).block = "absent" THEN Signals
                 ELSE Enabled(TemplateOf(name).signals)

(* Every template is still to be read, is being read, or was; rules before  *)
(* `rule` are sound.                                                        *)
ProgressInv ==
    /\ document \in Document
    /\ rule \in Nat \ {0}
    /\ \A n \in DOMAIN document.rules : n < rule => SoundRule(document.rules[n])
    /\ verdict # "refused" =>
          DOMAIN document.templates =
              unread \cup DOMAIN exporterTemplates \cup ({reading} \ {NoTemplate})
    /\ \A name \in DOMAIN exporterTemplates : IsRead(name, exporterTemplates[name])

(* Of the block being read, the entries that are through are sound, and     *)
(* `signals` are those among them that are set to true.                     *)
ReadingInv ==
    reading # NoTemplate =>
        LET t == TemplateOf(reading) IN
        /\ t.fault = "none" /\ t.block # "not a map"
        /\ t.block = "absent" => entries = {}
        /\ t.block # "absent" =>
              /\ entries \subseteq DOMAIN t.signals
              /\ \A entry \in DOMAIN t.signals \ entries :
                    entry \in Signals /\ t.signals[entry] \in {"true", "false"}
              /\ signals = {entry \in DOMAIN t.signals \ entries : t.signals[entry] = "true"}

(* Both, with what the outcome says of the document.                        *)
ConfigurationInv ==
    /\ ProgressInv
    /\ verdict = "pending" => ReadingInv
    /\ LoadsExactlyTheSound

(* At first nothing has been read.                                          *)
LEMMA ConfigurationInitially == ConfigurationInit => ConfigurationInv
  <1>1. SUFFICES ASSUME NEW d \in Document, BeginDocument(d) PROVE ConfigurationInv
    BY DEF ConfigurationInit
  <1>2. ProgressInv
    BY <1>1, DocumentsType DEF BeginDocument, ProgressInv
  <1> QED
    BY <1>1, <1>2 DEF BeginDocument, ConfigurationInv, ReadingInv, LoadsExactlyTheSound

(* The rules are validated in order, and one that is not sound ends it.     *)
LEMMA RulesAreValidated ==
    ASSUME ConfigurationInv, ValidateRule
    PROVE  ConfigurationInv'
  <1>1. document \in Document /\ rule \in Nat \ {0} /\ verdict = "pending"
    BY DEF ConfigurationInv, ProgressInv, ValidateRule, Validating
  <1>2. document.rules \in Seq([attribute : Reading, property : Reading])
    BY <1>1, DocumentsType
  <1>3. rule \in DOMAIN document.rules
    BY <1>1, <1>2 DEF ValidateRule, Validating
  <1>4. Readable(document.rules[rule]) <=> SoundRule(document.rules[rule])
    BY DEF Readable, SoundRule
  <1>5. UNCHANGED <<document, unread, reading, entries, signals, exporterTemplates>>
    BY DEF ValidateRule
  <1>6. CASE Readable(document.rules[rule])
    <2>1. rule' = rule + 1 /\ verdict' = verdict
      BY <1>6 DEF ValidateRule
    <2>2. ProgressInv'
      BY <2>1, <1>1, <1>2, <1>4, <1>5, <1>6 DEF ConfigurationInv, ProgressInv, IsRead, TemplateOf
    <2>3. ReadingInv'
      BY <2>1, <1>1, <1>5 DEF ConfigurationInv, ReadingInv, TemplateOf
    <2> QED
      BY <2>1, <2>2, <2>3, <1>1, <1>5 DEF ConfigurationInv, LoadsExactlyTheSound
  <1>7. CASE ~Readable(document.rules[rule])
    <2>1. verdict' = "refused" /\ rule' = rule
      BY <1>7 DEF ValidateRule
    <2>2. ProgressInv'
      BY <2>1, <1>1, <1>5 DEF ConfigurationInv, ProgressInv, IsRead, TemplateOf
    <2> QED
      BY <2>1, <2>2, <1>3, <1>4, <1>5, <1>7 DEF ConfigurationInv, LoadsExactlyTheSound
  <1> QED BY <1>6, <1>7

(* What is not sound, once found, ends it rightly.                          *)
LEMMA UnsoundIsRefused ==
    ASSUME ConfigurationInv, NEW name \in DOMAIN document.templates, ~Sound(TemplateOf(name)),
           verdict' = "refused", UNCHANGED <<document, rule, exporterTemplates>>
    PROVE  ConfigurationInv'
  <1>1. ProgressInv'
    BY DEF ConfigurationInv, ProgressInv, IsRead, TemplateOf
  <1>2. LoadsExactlyTheSound'
    BY DEF LoadsExactlyTheSound, TemplateOf
  <1> QED BY <1>1, <1>2 DEF ConfigurationInv

(* A section that is no map ends it.                                        *)
LEMMA SectionIsRefused ==
    ASSUME ConfigurationInv, MalformedSection
    PROVE  ConfigurationInv'
  <1>1. /\ UNCHANGED <<document, rule, unread, reading, entries, signals, exporterTemplates>>
        /\ document.section = "malformed" /\ verdict' = "refused"
    BY DEF MalformedSection
  <1>2. ProgressInv'
    BY <1>1 DEF ConfigurationInv, ProgressInv, IsRead, TemplateOf
  <1> QED
    BY <1>1, <1>2 DEF ConfigurationInv, LoadsExactlyTheSound

(* A template with a fault, or whose block is no map, ends it; of any other *)
(* all the entries are still to be read.                                    *)
LEMMA TemplatesAreRead ==
    ASSUME ConfigurationInv, NEW name \in DOMAIN document.templates, ReadTemplate(name)
    PROVE  ConfigurationInv'
  <1> DEFINE t == TemplateOf(name)
  <1>1. /\ UNCHANGED <<document, rule>>
        /\ reading = NoTemplate /\ name \in unread /\ unread' = unread \ {name}
        /\ verdict = "pending"
    BY DEF ReadTemplate, ReadingTemplates
  <1>2. name # NoTemplate
    BY DocumentsType DEF ConfigurationInv, ProgressInv
  <1>3. CASE t.fault # "none" \/ t.block = "not a map"
    <2>1. verdict' = "refused" /\ UNCHANGED <<reading, entries, signals, exporterTemplates>>
      BY <1>3 DEF ReadTemplate
    <2>2. ~Sound(t)
      BY <1>3 DEF Sound
    <2> QED BY <2>1, <2>2, <1>1, UnsoundIsRefused
  <1>4. CASE ~(t.fault # "none" \/ t.block = "not a map")
    <2>1. /\ reading' = name /\ signals' = {}
          /\ entries' = IF t.block = "absent" THEN {} ELSE DOMAIN t.signals
          /\ UNCHANGED <<exporterTemplates, verdict>>
      BY <1>4 DEF ReadTemplate
    <2>2. ProgressInv'
      BY <2>1, <1>1, <1>2 DEF ConfigurationInv, ProgressInv, IsRead, TemplateOf
    <2>3. ReadingInv'
      BY <2>1, <1>1, <1>4 DEF ReadingInv, TemplateOf
    <2> QED
      BY <2>1, <2>2, <2>3, <1>1 DEF ConfigurationInv, LoadsExactlyTheSound
  <1> QED BY <1>3, <1>4

(* An entry that is wrong ends it; any other leaves the block.              *)
LEMMA EntriesAreRead ==
    ASSUME ConfigurationInv, NEW entry \in entries, ReadSignal(entry)
    PROVE  ConfigurationInv'
  <1> DEFINE t == TemplateOf(reading)
  <1>1. /\ UNCHANGED <<document, rule, unread, reading, exporterTemplates>>
        /\ reading # NoTemplate /\ verdict = "pending"
    BY DEF ReadSignal, ReadingTemplates
  <1>2. reading \in DOMAIN document.templates
    BY <1>1 DEF ConfigurationInv, ProgressInv
  <1>3. /\ t.fault = "none" /\ t.block # "absent" /\ t.block # "not a map"
        /\ entry \in DOMAIN t.signals
    BY <1>1 DEF ConfigurationInv, ReadingInv
  <1>4. CASE t.signals[entry] \notin {"true", "false"} \/ entry \notin Signals
    <2>1. verdict' = "refused"
      BY <1>4 DEF ReadSignal
    <2>2. ~Sound(t)
      BY <1>3, <1>4 DEF Sound
    <2> QED BY <2>1, <2>2, <1>1, <1>2, UnsoundIsRefused
  <1>5. CASE ~(t.signals[entry] \notin {"true", "false"} \/ entry \notin Signals)
    <2>1. /\ entries' = entries \ {entry} /\ verdict' = verdict
          /\ signals' = IF t.signals[entry] = "true" THEN signals \cup {entry} ELSE signals
      BY <1>5 DEF ReadSignal
    <2>2. ProgressInv'
      BY <2>1, <1>1 DEF ConfigurationInv, ProgressInv, IsRead, TemplateOf
    <2>3. DOMAIN t.signals \ entries' = (DOMAIN t.signals \ entries) \cup {entry}
      BY <2>1, <1>3
    <2>4. ReadingInv'
      <3>1. \A k \in DOMAIN t.signals \ entries' :
              k \in Signals /\ t.signals[k] \in {"true", "false"}
        BY <2>3, <1>1, <1>3, <1>5 DEF ConfigurationInv, ReadingInv
      <3>2. signals = {k \in DOMAIN t.signals \ entries : t.signals[k] = "true"}
        BY <1>1, <1>3 DEF ConfigurationInv, ReadingInv
      <3>3. signals' = {k \in DOMAIN t.signals \ entries' : t.signals[k] = "true"}
        BY <2>1, <2>3, <3>2
      <3>4. entries' \subseteq DOMAIN t.signals
        BY <2>1, <1>1, <1>3 DEF ConfigurationInv, ReadingInv
      <3>5. TemplateOf(reading)' = t
        BY <1>1 DEF TemplateOf
      <3> QED
        BY <3>1, <3>3, <3>4, <3>5, <1>1, <1>3 DEF ReadingInv
    <2> QED
      BY <2>1, <2>2, <2>4, <1>1 DEF ConfigurationInv, LoadsExactlyTheSound
  <1> QED BY <1>4, <1>5

(* A template whose block is through is kept, with the signals it enables,  *)
(* unless that is none.                                                     *)
LEMMA TemplatesAreKept ==
    ASSUME ConfigurationInv, KeepTemplate
    PROVE  ConfigurationInv'
  <1> DEFINE t == TemplateOf(reading)
  <1>1. /\ UNCHANGED <<document, rule, unread, entries, signals>>
        /\ reading # NoTemplate /\ verdict = "pending" /\ entries = {}
    BY DEF KeepTemplate, ReadingTemplates
  <1>2. reading \in DOMAIN document.templates
    BY <1>1 DEF ConfigurationInv, ProgressInv
  <1>3. t.fault = "none" /\ t.block # "not a map"
    BY <1>1 DEF ConfigurationInv, ReadingInv
  <1>4. ASSUME t.block # "absent"
        PROVE  /\ signals = Enabled(t.signals)
               /\ \A entry \in DOMAIN t.signals :
                     entry \in Signals /\ t.signals[entry] \in {"true", "false"}
    BY <1>4, <1>1 DEF ConfigurationInv, ReadingInv, Enabled
  <1>5. CASE SignalsOf(reading, signals) = {}
    <2>1. verdict' = "refused" /\ UNCHANGED exporterTemplates
      BY <1>5 DEF KeepTemplate
    <2>2. t.block # "absent"
      BY <1>5 DEF SignalsOf, AllSignals, Signals
    <2>3. ~Sound(t)
      BY <2>2, <1>4, <1>5 DEF Sound, SignalsOf
    <2> QED BY <2>1, <2>3, <1>1, <1>2, UnsoundIsRefused
  <1>6. CASE SignalsOf(reading, signals) # {}
    <2>1. /\ exporterTemplates' =
                 [name \in DOMAIN exporterTemplates \cup {reading} |->
                     IF name = reading THEN SignalsOf(reading, signals)
                     ELSE exporterTemplates[name]]
          /\ reading' = NoTemplate /\ verdict' = verdict
      BY <1>6 DEF KeepTemplate
    <2>2. IsRead(reading, SignalsOf(reading, signals))
      BY <1>3, <1>4, <1>6 DEF IsRead, Sound, SignalsOf, AllSignals, Enabled
    <2>3. \A name \in DOMAIN exporterTemplates' : IsRead(name, exporterTemplates'[name])
      BY <2>1, <2>2 DEF ConfigurationInv, ProgressInv
    <2>4. ProgressInv'
      BY <2>1, <2>3, <1>1 DEF ConfigurationInv, ProgressInv, IsRead, TemplateOf
    <2> QED
      BY <2>1, <2>4, <1>1 DEF ConfigurationInv, ReadingInv, LoadsExactlyTheSound
  <1> QED BY <1>5, <1>6

(* When everything has been read, nothing is wrong.                         *)
LEMMA AcceptedIsSound ==
    ASSUME ConfigurationInv, Accept
    PROVE  ConfigurationInv'
  <1>1. /\ UNCHANGED <<document, rule, unread, reading, entries, signals, exporterTemplates>>
        /\ verdict = "pending" /\ verdict' = "accepted"
        /\ ~(rule <= Len(document.rules)) /\ document.section = "map"
        /\ reading = NoTemplate /\ unread = {}
    BY DEF Accept, ReadingTemplates, Validating
  <1>2. ProgressInv'
    BY <1>1 DEF ConfigurationInv, ProgressInv, IsRead, TemplateOf
  <1>3. document.rules \in Seq([attribute : Reading, property : Reading])
    BY DocumentsType DEF ConfigurationInv, ProgressInv
  <1>4. \A n \in DOMAIN document.rules : SoundRule(document.rules[n])
    BY <1>1, <1>3 DEF ConfigurationInv, ProgressInv
  <1>5. DOMAIN exporterTemplates = DOMAIN document.templates
    BY <1>1 DEF ConfigurationInv, ProgressInv
  <1>6. LoadsExactlyTheSound'
    BY <1>1, <1>4, <1>5 DEF ConfigurationInv, ProgressInv, LoadsExactlyTheSound, IsRead, TemplateOf
  <1> QED BY <1>1, <1>2, <1>6 DEF ConfigurationInv

(* Nothing Unmarshal does breaks the invariant.                             *)
THEOREM ConfigurationInvariant == ConfigurationSpec => []ConfigurationInv
  <1>1. ConfigurationInv /\ [ConfigurationNext]_configurationVars => ConfigurationInv'
    <2> SUFFICES ASSUME ConfigurationInv, [ConfigurationNext]_configurationVars
                 PROVE  ConfigurationInv'
      OBVIOUS
    <2>1. CASE ValidateRule
      BY <2>1, RulesAreValidated
    <2>2. ASSUME NEW name \in DOMAIN document.templates, ReadTemplate(name)
          PROVE  ConfigurationInv'
      BY <2>2, TemplatesAreRead
    <2>3. ASSUME NEW entry \in entries, ReadSignal(entry)
          PROVE  ConfigurationInv'
      BY <2>3, EntriesAreRead
    <2>4. CASE KeepTemplate
      BY <2>4, TemplatesAreKept
    <2>5. CASE Accept
      BY <2>5, AcceptedIsSound
    <2>6. CASE MalformedSection
      BY <2>6, SectionIsRefused
    <2>7. CASE UNCHANGED configurationVars
      BY <2>7 DEF configurationVars, ConfigurationInv, ProgressInv, ReadingInv,
                  LoadsExactlyTheSound, IsRead, TemplateOf
    <2> QED
      BY <2>1, <2>2, <2>3, <2>4, <2>5, <2>6, <2>7 DEF ConfigurationNext, ConfigurationDone
  <1> QED
    BY <1>1, ConfigurationInitially, PTL DEF ConfigurationSpec

(* Exactly the sound configurations are accepted, and their templates       *)
(* handle the signals they say, in whatever order maps are read, for any    *)
(* rules, templates and blocks.                                             *)
THEOREM SoundIsLoaded == ConfigurationSpec => []LoadsExactlyTheSound
  <1>1. ConfigurationInv => LoadsExactlyTheSound
    BY DEF ConfigurationInv
  <1> QED
    BY <1>1, ConfigurationInvariant, PTL

------------------------------------------------------------------------------
(* The stages of startExporter, and the endpoint it settles on.             *)

(* What is expanded at each stage of startExporter, by which the endpoint   *)
(* that was settled on is not touched afterwards.                           *)
StageInv ==
    /\ template \in Template
    /\ place = Nowhere \/ place \in DOMAIN template
    /\ unexpanded \subseteq DOMAIN template
    /\ launch \in {"expanding", "discovering", "starting", "routing", "registered", "failed"}
    /\ launch = "expanding" => unexpanded \cup ({place} \ {Nowhere}) \subseteq InConfig(template)
    /\ launch = "discovering" =>
          ~Refused /\ unexpanded \cup ({place} \ {Nowhere}) \subseteq {Target}
    /\ launch \in {"starting", "registered"} => unexpanded = {} /\ place = Nowhere
    /\ launch = "routing" => unexpanded \cup ({place} \ {Nowhere}) \subseteq Attribute
    /\ launch \in {"starting", "routing", "registered"} /\ Endpoint \in DOMAIN config =>
          (IF Endpoint \in DOMAIN template THEN Endpoint ELSE Target) \in DOMAIN resolved
    /\ EndpointIsOwn

(* At first all of the configuration is to be expanded.                     *)
LEMMA StageInitially == ExpansionInit => StageInv
  BY TextsAreText, PlacesDiffer
  DEF ExpansionInit, BeginTemplate, StageInv, InConfig, EndpointIsOwn, Nowhere

(* The scanner's own steps leave all of it alone.                           *)
LEMMA ScanningKeepsStage ==
    ASSUME StageInv, UNCHANGED <<template, supported, unexpanded, place, resolved, config, launch>>
    PROVE  StageInv'
  BY DEF StageInv, InConfig, Refused, ExplicitEndpoint, Kept, EndpointIsOwn

(* An error ends it, unless the exporter runs.                              *)
LEMMA FailingKeepsStage ==
    ASSUME StageInv, Fail
    PROVE  StageInv'
  <1>1. /\ launch' = IF launch = "routing" THEN launch ELSE "failed"
        /\ place' = Nowhere
        /\ UNCHANGED <<template, supported, unexpanded, resolved, config>>
    BY DEF Fail, scanVars
  <1> QED
    BY <1>1 DEF StageInv, InConfig, Refused, ExplicitEndpoint, Kept, EndpointIsOwn

(* What is expanded is one of the places the stage is about; once the       *)
(* configuration is made, that is none that the endpoint came from.         *)
LEMMA YieldingKeepsStage ==
    ASSUME StageInv, Scanning, NEW result, Yield(result)
    PROVE  StageInv'
  <1>1. /\ resolved' = [p \in DOMAIN resolved \cup {place} |->
                            IF p = place THEN result ELSE resolved[p]]
        /\ place' = Nowhere /\ place # Nowhere
        /\ UNCHANGED <<template, supported, unexpanded, config, launch>>
    BY DEF Yield, scanVars, Scanning
  <1>2. \A p : p # place => (p \in DOMAIN resolved' <=> p \in DOMAIN resolved)
                            /\ (p \in DOMAIN resolved => resolved'[p] = resolved[p])
    BY <1>1
  <1>3. CASE launch = "expanding"
    BY <1>1, <1>3 DEF StageInv, InConfig, EndpointIsOwn
  <1>4. CASE launch = "discovering"
    <2>1. place = Target
      BY <1>1, <1>4 DEF StageInv
    <2>2. Endpoint \in Kept => Endpoint \in Kept'
      BY <1>1, <2>1 DEF Kept, InConfig, Endpoint, Target
    <2>3. ~Refused'
      BY <1>1, <1>4, <2>2 DEF StageInv, Refused, ExplicitEndpoint
    <2> QED
      BY <1>1, <1>4, <2>3 DEF StageInv, EndpointIsOwn
  <1>5. CASE launch = "routing"
    <2>1. place \in Attribute
      BY <1>1, <1>5 DEF StageInv
    <2>2. Endpoint # place /\ Target # place
      BY <2>1, PlacesDiffer DEF Endpoint, Target
    <2> QED
      BY <1>1, <1>2, <1>5, <2>2 DEF StageInv, EndpointIsOwn
  <1>6. CASE launch = "failed"
    BY <1>1, <1>6 DEF StageInv, EndpointIsOwn
  <1> QED
    BY <1>1, <1>3, <1>4, <1>5, <1>6 DEF StageInv

(* Taking a place to expand, from those there are.                          *)
LEMMA TakingKeepsStage ==
    ASSUME StageInv, NEW p \in DOMAIN template, Expand(p)
    PROVE  StageInv'
  <1>1. /\ place' = p /\ p \in unexpanded /\ unexpanded' = unexpanded \ {p}
        /\ launch # "failed" /\ UNCHANGED <<template, supported, resolved, config, launch>>
    BY DEF Expand
  <1> QED
    BY <1>1 DEF StageInv, InConfig, Refused, ExplicitEndpoint, Kept, EndpointIsOwn

(* The configuration has the template's own endpoint, if the template has   *)
(* one: it was not refused, so it did not expand to nothing.                *)
LEMMA MergingKeepsStage ==
    ASSUME StageInv, Merge
    PROVE  StageInv'
  <1>1. /\ launch = "discovering" /\ unexpanded = {} /\ place = Nowhere
        /\ config' = [p \in Kept \cup (IF DiscoveredEndpoint THEN {Endpoint} ELSE {}) |->
                          IF p \in Kept THEN resolved[p] ELSE resolved[Target]]
        /\ launch' = "starting" /\ UNCHANGED <<template, supported, unexpanded, place, resolved>>
    BY DEF Merge, AllExpanded, scanVars
  <1>2. ~Refused
    BY <1>1 DEF StageInv
  <1>3. Endpoint \in DOMAIN template => Endpoint \in Kept
    BY <1>2 DEF Refused, ExplicitEndpoint
  <1>4. /\ Kept \subseteq DOMAIN template
        /\ \A p \in Kept \ InList : resolved[p] \notin Void /\ resolved[p] # Nil
    BY DEF Kept, InConfig, Void
  <1>5. DiscoveredEndpoint => supported /\ resolved[Target] # Nil
    BY DEF DiscoveredEndpoint
  <1>6. EndpointIsOwn'
    <2>1. Endpoint \in DOMAIN template =>
              Endpoint \in DOMAIN config' /\ config'[Endpoint] = resolved[Endpoint]
      BY <1>1, <1>3
    <2>2. Endpoint \in DOMAIN config' \ DOMAIN template =>
              supported /\ config'[Endpoint] = resolved[Target]
      BY <1>1, <1>4, <1>5
    <2>3. \A p \in DOMAIN config' \ InList : config'[p] # Nil
      BY <1>1, <1>4, <1>5
    <2>4. \A p \in DOMAIN config' \cap DOMAIN template : p \in Kept /\ config'[p] = resolved[p]
      BY <1>1, <1>3
    <2>5. \A p \in DOMAIN config' \cap DOMAIN template : config'[p] \in Void => p \in InList
      BY <1>4, <2>4
    <2>6. Void' = Void
      BY DEF Void, Nil, Typed
    <2> QED
      BY <1>1, <2>1, <2>2, <2>3, <2>5, <2>6 DEF EndpointIsOwn, Nil
  <1>7. Endpoint \in DOMAIN config' =>
            (IF Endpoint \in DOMAIN template THEN Endpoint ELSE Target) \in DOMAIN resolved
    BY <1>1, <1>3, <1>4 DEF DiscoveredEndpoint, Kept
  <1> QED
    BY <1>1, <1>6, <1>7 DEF StageInv

(* What is expanded at each stage of startExporter is what that stage is    *)
(* about (observerhandler.go:178-269).                                      *)
THEOREM StageInvariant == ExpansionSpec => []StageInv
  <1>1. StageInv /\ [ExpansionNext]_expansionVars => StageInv'
    <2> SUFFICES ASSUME StageInv, [ExpansionNext]_expansionVars
                 PROVE  StageInv'
      OBVIOUS
    <2>1. ASSUME NEW p \in DOMAIN template, Expand(p)
          PROVE  StageInv'
      BY <2>1, TakingKeepsStage
    <2>2. CASE Plain \/ EscapedBacktick \/ OpenExpression \/ (\E v \in Value : Evaluate(Typed(v)))
               \/ Evaluate(Nil)
      BY <2>2, ScanningKeepsStage DEF Plain, EscapedBacktick, OpenExpression, Evaluate
    <2>3. CASE EndsInEscape \/ EmptyExpression \/ EvaluationFails \/ Unbalanced \/ EndpointEmpty
               \/ StartFails
      BY <2>3, FailingKeepsStage
      DEF EndsInEscape, EmptyExpression, EvaluationFails, Unbalanced, EndpointEmpty, StartFails
    <2>4. CASE FetchFromNil
      BY <2>4, YieldingKeepsStage DEF FetchFromNil, Closes, At
    <2>5. CASE Finish
      BY <2>5, YieldingKeepsStage DEF Finish, Scanned
    <2>6. CASE Discover
      <3>1. /\ launch = "expanding" /\ unexpanded = {} /\ place = Nowhere /\ ~Refused
            /\ launch' = "discovering"
            /\ unexpanded' = IF Endpoint \in Kept THEN {} ELSE {Target}
            /\ UNCHANGED <<template, supported, place, resolved, config>>
        BY <2>6 DEF Discover, AllExpanded
      <3>2. Target \in DOMAIN template
        BY TextsAreText DEF StageInv, Target
      <3> QED
        BY <3>1, <3>2 DEF StageInv, Refused, ExplicitEndpoint, Kept, InConfig, EndpointIsOwn
    <2>7. CASE Merge
      BY <2>7, MergingKeepsStage
    <2>8. CASE Started
      BY <2>8 DEF Started, StageInv, EndpointIsOwn
    <2>9. CASE Registered
      BY <2>9 DEF Registered, AllExpanded, StageInv, EndpointIsOwn
    <2>10. CASE UNCHANGED expansionVars
      BY <2>10, ScanningKeepsStage DEF expansionVars
    <2> QED
      BY <2>1, <2>2, <2>3, <2>4, <2>5, <2>6, <2>7, <2>8, <2>9, <2>10
      DEF ExpansionNext, ExpansionDone
  <1> QED
    BY <1>1, StageInitially, PTL DEF ExpansionSpec

(* For any template, an exporter is given the endpoint its template says,   *)
(* and a discovered one only if the template says none                      *)
(* (observerhandler.go:193-200, exporter_runner.go:154-156).                *)
THEOREM ConfiguredEndpointIsOwn == ExpansionSpec => []EndpointIsOwn
  <1>1. StageInv => EndpointIsOwn
    BY DEF StageInv
  <1> QED
    BY <1>1, StageInvariant, PTL

------------------------------------------------------------------------------
(* What the scanner has read and written so far.                            *)

(* What an expression may be replaced by, and what may be written.          *)
Expanded == {Typed(v) : v \in Value} \cup {Nil}
Written == Character \cup Expanded

(* How many members of a set are below a number.                            *)
CountBelow(B, n) == Cardinality({b \in B : b < n})

(* Two places are two.                                                      *)
LEMMA TwoAreTwo ==
    ASSUME NEW l, l # 1
    PROVE  Cardinality({1, l}) = 2
  <1>1. PICK one, both : one = {1} /\ both = {1, l}
    OBVIOUS
  <1>2. IsFiniteSet(one) /\ Cardinality(one) = 1
    BY <1>1, FS_Singleton, Zenon
  <1>3. l \notin one /\ one \cup {l} = both
    BY <1>1
  <1>4. Cardinality(both) = Cardinality(one) + 1
    BY <1>2, <1>3, FS_AddElement, Zenon
  <1>5. Cardinality(both) = 2
    BY <1>2, <1>4
  <1> QED
    BY <1>1, <1>5, Zenon

(* None is below one.                                                       *)
LEMMA CountOfNone ==
    ASSUME NEW m \in Nat, NEW B \in SUBSET (1 .. m)
    PROVE  CountBelow(B, 1) = 0
  <1>1. \A b \in B : b \in Nat /\ ~(b < 1)
    OBVIOUS
  <1>2. {b \in B : b < 1} = {}
    BY <1>1, Zenon
  <1> QED
    BY <1>1, <1>2, FS_EmptySet, Zenon DEF CountBelow

(* All are below what comes after the last.                                 *)
LEMMA CountOfAll ==
    ASSUME NEW m \in Nat, NEW B \in SUBSET (1 .. m)
    PROVE  CountBelow(B, m + 1) = Cardinality(B)
  <1>1. \A b \in B : b < m + 1
    OBVIOUS
  <1>2. {b \in B : b < m + 1} = B
    BY <1>1, Zenon
  <1> QED
    BY <1>2, Zenon DEF CountBelow

(* One number on, there is one more, if the number is a member.             *)
LEMMA CountOneMore ==
    ASSUME NEW m \in Nat, NEW B \in SUBSET (1 .. m), NEW n \in Nat
    PROVE  /\ CountBelow(B, n) \in Nat
           /\ CountBelow(B, n + 1) = CountBelow(B, n) + (IF n \in B THEN 1 ELSE 0)
  <1>1. IsFiniteSet(1 .. m)
    BY FS_Interval
  <1>2. PICK low, high : low = {b \in B : b < n} /\ high = {b \in B : b < n + 1}
    OBVIOUS
  <1>3. /\ \A b \in B : b < n + 1 <=> b < n \/ b = n
        /\ ~(n < n)
    OBVIOUS
  <1>4. IsFiniteSet(low)
    <2>1. low \in SUBSET (1 .. m)
      BY <1>2
    <2> QED
      BY <1>1, <2>1, FS_Subset
  <1>5. Cardinality(low) \in Nat
    BY <1>4, FS_CardinalityType
  <1>6. CASE n \in B
    <2>1. high = low \cup {n} /\ n \notin low
      BY <1>2, <1>3, <1>6, Zenon
    <2>2. Cardinality(high) = Cardinality(low) + 1
      BY <1>4, <2>1, FS_AddElement
    <2> QED
      BY <1>2, <1>5, <1>6, <2>2, Zenon DEF CountBelow
  <1>7. CASE n \notin B
    <2>1. high = low
      BY <1>2, <1>3, <1>7, Zenon
    <2>2. Cardinality(high) = Cardinality(low) + 0
      BY <1>5, <2>1
    <2> QED
      BY <1>2, <1>5, <1>7, <2>2, Zenon DEF CountBelow
  <1> QED
    BY <1>6, <1>7

(* What is even, and what is not.                                           *)
LEMMA Parity ==
    ASSUME NEW n \in Nat
    PROVE  /\ (2 * n) % 2 = 0 /\ (2 * n + 1) % 2 = 1
           /\ (2 * n + 1 + 1) \div 2 = n + 1
  OBVIOUS

(* The ends of expressions that come before a character.                    *)
EndsBefore(t, n) == CountBelow(Ends(t), n)

(* How both are counted from a character to the next, and at the ends.      *)
LEMMA BacktickCounts ==
    ASSUME NEW t \in Seq(Character), NEW i \in Nat
    PROVE  /\ Before(t, i) \in Nat /\ EndsBefore(t, i) \in Nat
           /\ Before(t, i + 1) = Before(t, i) + (IF i \in Backticks(t) THEN 1 ELSE 0)
           /\ EndsBefore(t, i + 1) = EndsBefore(t, i) + (IF i \in Ends(t) THEN 1 ELSE 0)
           /\ Before(t, 1) = 0 /\ EndsBefore(t, 1) = 0
           /\ Before(t, Len(t) + 1) = Cardinality(Backticks(t))
           /\ EndsBefore(t, Len(t) + 1) = Cardinality(Ends(t))
  <1>1. Len(t) \in Nat /\ Backticks(t) \subseteq 1 .. Len(t)
    BY DEF Backticks
  <1>2. Ends(t) \subseteq 1 .. Len(t)
    BY <1>1 DEF Ends
  <1>3. \A n : Before(t, n) = CountBelow(Backticks(t), n)
    BY Zenon DEF Before, CountBelow
  <1>4. PICK B, E, l : B = Backticks(t) /\ E = Ends(t) /\ l = Len(t)
    OBVIOUS
  <1>5. /\ CountBelow(B, i) \in Nat /\ CountBelow(B, 1) = 0 /\ CountBelow(B, l + 1) = Cardinality(B)
        /\ CountBelow(B, i + 1) = CountBelow(B, i) + (IF i \in B THEN 1 ELSE 0)
    BY <1>1, <1>4, CountOneMore, CountOfNone, CountOfAll
  <1>6. /\ CountBelow(E, i) \in Nat /\ CountBelow(E, 1) = 0 /\ CountBelow(E, l + 1) = Cardinality(E)
        /\ CountBelow(E, i + 1) = CountBelow(E, i) + (IF i \in E THEN 1 ELSE 0)
    BY <1>1, <1>2, <1>4, CountOneMore, CountOfNone, CountOfAll
  <1> QED
    BY <1>3, <1>4, <1>5, <1>6, Zenon DEF EndsBefore

(* What each of the first n characters of a text stands for.                *)
Pieces(t, values, n) == [m \in 1 .. n |-> Piece(t, m, values)]

(* An expression has been replaced by its value, and was not blank.         *)
Answered(t, n, values) ==
    /\ (Before(t, n) + 1) \div 2 \in 1 .. Len(values)
    /\ \E m \in 1 .. n - 1 : Before(t, m) = Before(t, n) /\ t[m] # "blank"

(* As far as a text has been scanned, it is well-formed, and what has been  *)
(* written is what it stands for.                                           *)
ScannedTo(t, i, start, out, values) ==
    /\ i \in 1 .. Len(t) + 1 /\ start \in 0 .. i /\ values \in Seq(Expanded)
    /\ Before(t, i) = 2 * Len(values) + (IF start = 0 THEN 0 ELSE 1)
    /\ start # 0 => \A n \in start .. i : Before(t, n) = Before(t, i)
    /\ \A n \in Ends(t) : n < i => Answered(t, n, values)
    /\ EndsBefore(t, i) = Len(values)
    /\ Pieces(t, values, i - 1) \in Seq(Seq(Written))
    /\ out = FlattenSeq(Pieces(t, values, i - 1))

(* No backtick is escaped that the scanner would take for another.          *)
NotEscaped(t, i) == i > 1 /\ t[i - 1] = "backslash" => i <= Len(t) /\ t[i] # "backtick"

(* One character more is one piece more.                                    *)
LEMMA PiecesGrow ==
    ASSUME NEW t, NEW values, NEW n \in Nat, Pieces(t, values, n) \in Seq(Seq(Written)),
           Piece(t, n + 1, values) \in Seq(Written)
    PROVE  /\ Pieces(t, values, n + 1) \in Seq(Seq(Written))
           /\ FlattenSeq(Pieces(t, values, n + 1)) =
                  FlattenSeq(Pieces(t, values, n)) \o Piece(t, n + 1, values)
           /\ FlattenSeq(Pieces(t, values, n)) \in Seq(Written)
  <1>1. PICK ss, tt, e : /\ ss = Pieces(t, values, n) /\ tt = Pieces(t, values, n + 1)
                         /\ e = Piece(t, n + 1, values)
    OBVIOUS
  <1>2. \A m \in 1 .. n : m \in 1 .. n + 1
    OBVIOUS
  <1>3. ss \in Seq(Seq(Written)) /\ e \in Seq(Written) /\ Len(ss) = n
    <2>1. ss \in Seq(Seq(Written)) /\ e \in Seq(Written)
      BY <1>1, Zenon
    <2>2. DOMAIN ss = 1 .. n
      BY <1>1 DEF Pieces
    <2> QED
      BY <2>1, <2>2
  <1>4. /\ tt[n + 1] = e /\ \A m \in 1 .. n : tt[m] = ss[m]
        /\ tt = [m \in 1 .. n + 1 |-> tt[m]]
    <2>1. n + 1 \in 1 .. n + 1
      OBVIOUS
    <2> QED
      BY <1>1, <1>2, <2>1, Zenon DEF Pieces
  <1>5. \A m \in 1 .. n + 1 : tt[m] \in Seq(Written)
    <2> TAKE m \in 1 .. n + 1
    <2>1. CASE m = n + 1
      BY <1>3, <1>4, <2>1
    <2>2. CASE m # n + 1
      <3>1. m \in 1 .. n
        BY <2>2
      <3>2. ss[m] \in Seq(Written)
        BY <1>3, <3>1
      <3> QED
        BY <1>4, <3>1, <3>2, Zenon
    <2> QED
      BY <2>1, <2>2
  <1>6. tt \in Seq(Seq(Written)) /\ Len(tt) = n + 1
    <2>1. tt \in [1 .. n + 1 -> Seq(Written)]
      BY <1>4, <1>5, Zenon
    <2>2. n + 1 \in Nat
      OBVIOUS
    <2> QED
      BY <2>1, <2>2, FunctionIsSequence, Zenon
  <1>7. tt = Append(ss, e)
    <2>1. tt[n + 1] = e /\ \A m \in 1 .. n : tt[m] = ss[m]
      BY <1>4
    <2>2. PICK X : X = Seq(Written)
      OBVIOUS
    <2>3. ss \in Seq(X) /\ tt \in Seq(X) /\ e \in X
      BY <1>3, <1>6, <2>2, Zenon
    <2> QED
      BY <1>3, <1>6, <2>1, <2>3, OneMoreIsAppended
  <1>8. FlattenSeq(tt) = FlattenSeq(ss) \o e /\ FlattenSeq(ss) \in Seq(Written)
    BY <1>3, <1>7, FlattenSeqAppend, FlattenSeqType
  <1> QED
    BY <1>1, <1>6, <1>8, Zenon

(* The scanner is in an expression when the backticks before it are odd in  *)
(* number.                                                                  *)
LEMMA Alternates ==
    ASSUME NEW t \in Seq(Character), NEW i, NEW start, NEW out, NEW values,
           ScannedTo(t, i, start, out, values)
    PROVE  /\ InExpression(t, i) <=> start # 0
           /\ i \in Ends(t) <=> i \in Backticks(t) /\ start # 0
  <1>1. PICK n \in Nat : n = Len(values)
    BY DEF ScannedTo
  <1>2. Before(t, i) = 2 * n + (IF start = 0 THEN 0 ELSE 1)
    BY <1>1 DEF ScannedTo
  <1>3. Before(t, i) % 2 = IF start = 0 THEN 0 ELSE 1
    <2>1. CASE start = 0
      <3>1. Before(t, i) = 2 * n
        BY <1>2, <2>1
      <3> QED
        BY <2>1, <3>1, Parity
    <2>2. CASE start # 0
      <3>1. Before(t, i) = 2 * n + 1
        BY <1>2, <2>2
      <3> QED
        BY <2>2, <3>1, Parity
    <2> QED
      BY <2>1, <2>2
  <1>4. InExpression(t, i) <=> start # 0
    BY <1>3 DEF InExpression
  <1> QED
    BY <1>4 DEF Ends

(* Characters may be written.                                               *)
LEMMA CharactersAreWritten ==
    ASSUME NEW t \in Seq(Character), NEW i \in 1 .. Len(t)
    PROVE  /\ t[i] \in Character /\ <<t[i]>> \in Seq(Written)
           /\ <<"backtick">> \in Seq(Written) /\ <<>> \in Seq(Written)
  <1>1. t[i] \in Character
    OBVIOUS
  <1>2. "backtick" \in Written /\ t[i] \in Written
    BY <1>1 DEF Written, Character
  <1> QED
    BY <1>1, <1>2

(* What there is to show of a text that has been scanned.                   *)
LEMMA ScannedToBy ==
    ASSUME NEW t, NEW i, NEW start, NEW out, NEW values,
           i \in 1 .. Len(t) + 1, start \in 0 .. i, values \in Seq(Expanded),
           Before(t, i) = 2 * Len(values) + (IF start = 0 THEN 0 ELSE 1),
           start # 0 => \A n \in start .. i : Before(t, n) = Before(t, i),
           \A n \in Ends(t) : n < i => Answered(t, n, values),
           EndsBefore(t, i) = Len(values),
           NEW before, before = i - 1,
           Pieces(t, values, before) \in Seq(Seq(Written)),
           out = FlattenSeq(Pieces(t, values, before))
    PROVE  ScannedTo(t, i, start, out, values)
  BY DEF ScannedTo

(* Where the expressions and the text lie is the same one character on.     *)
LEMMA ScannedOn ==
    ASSUME NEW t \in Seq(Character), NEW i, NEW start, NEW out, NEW values,
           ScannedTo(t, i, start, out, values), i <= Len(t), i \notin Backticks(t),
           NEW p \in Seq(Written), Piece(t, i, values) = p
    PROVE  ScannedTo(t, i + 1, start, out \o p, values)
  <1>1. /\ i \in 1 .. Len(t) /\ start \in 0 .. i /\ Len(t) \in Nat /\ i \in Nat
        /\ i + 1 \in 1 .. Len(t) + 1 /\ start \in 0 .. i + 1
        /\ i - 1 \in Nat /\ i - 1 + 1 = i /\ i + 1 - 1 = i
    <2>1. i \in 1 .. Len(t) + 1 /\ start \in 0 .. i
      BY DEF ScannedTo
    <2> QED
      BY <2>1
  <1>2. /\ Before(t, i + 1) = Before(t, i) /\ EndsBefore(t, i + 1) = EndsBefore(t, i)
    <2>1. i \notin Ends(t)
      BY DEF Ends
    <2>2. /\ Before(t, i) \in Nat /\ EndsBefore(t, i) \in Nat
          /\ Before(t, i + 1) = Before(t, i) + (IF i \in Backticks(t) THEN 1 ELSE 0)
          /\ EndsBefore(t, i + 1) = EndsBefore(t, i) + (IF i \in Ends(t) THEN 1 ELSE 0)
      BY <1>1, BacktickCounts
    <2> QED
      BY <2>1, <2>2
  <1>3. /\ Pieces(t, values, i) \in Seq(Seq(Written))
        /\ out \o p = FlattenSeq(Pieces(t, values, i))
    <2>1. /\ Pieces(t, values, i - 1) \in Seq(Seq(Written))
          /\ out = FlattenSeq(Pieces(t, values, i - 1))
      BY DEF ScannedTo
    <2>2. PICK n \in Nat : n = i - 1 /\ n + 1 = i
      BY <1>1
    <2>3. Piece(t, n + 1, values) \in Seq(Written)
      BY <2>2
    <2>4. /\ Pieces(t, values, n + 1) \in Seq(Seq(Written))
          /\ FlattenSeq(Pieces(t, values, n + 1)) =
                 FlattenSeq(Pieces(t, values, n)) \o Piece(t, n + 1, values)
      BY <2>1, <2>2, <2>3, PiecesGrow
    <2> QED
      BY <2>1, <2>2, <2>4, Zenon
  <1>4. \A n \in Ends(t) : n < i + 1 => Answered(t, n, values)
    <2> TAKE n \in Ends(t)
    <2> HAVE n < i + 1
    <2>1. n # i /\ n \in 1 .. Len(t)
      BY DEF Ends, Backticks
    <2>2. n < i
      BY <1>1, <2>1
    <2> QED
      BY <2>2 DEF ScannedTo
  <1>5. start # 0 => \A n \in start .. i + 1 : Before(t, n) = Before(t, i + 1)
    <2> SUFFICES ASSUME start # 0, NEW n \in start .. i + 1
                 PROVE  Before(t, n) = Before(t, i + 1)
      OBVIOUS
    <2>1. n = i + 1 \/ n \in start .. i
      BY <1>1
    <2> QED
      BY <1>2, <2>1, Zenon DEF ScannedTo
  <1>6. /\ values \in Seq(Expanded)
        /\ Before(t, i) = 2 * Len(values) + (IF start = 0 THEN 0 ELSE 1)
        /\ EndsBefore(t, i) = Len(values)
    BY DEF ScannedTo
  <1>7. /\ Before(t, i + 1) = 2 * Len(values) + (IF start = 0 THEN 0 ELSE 1)
        /\ EndsBefore(t, i + 1) = Len(values)
    BY <1>2, <1>6, Zenon
  <1>8. PICK j, q : j = i + 1 /\ q = out \o p
    OBVIOUS
  <1>9. /\ j \in 1 .. Len(t) + 1 /\ start \in 0 .. j /\ i = j - 1
        /\ q = FlattenSeq(Pieces(t, values, i))
    BY <1>1, <1>3, <1>8
  <1>10. /\ Before(t, j) = 2 * Len(values) + (IF start = 0 THEN 0 ELSE 1)
         /\ EndsBefore(t, j) = Len(values)
    BY <1>7, <1>8, Zenon
  <1>11. /\ start # 0 => \A n \in start .. j : Before(t, n) = Before(t, j)
         /\ \A n \in Ends(t) : n < j => Answered(t, n, values)
    BY <1>4, <1>5, <1>8, Zenon
  <1>12. ScannedTo(t, j, start, q, values)
    BY <1>3, <1>6, <1>9, <1>10, <1>11, ScannedToBy
  <1> QED
    BY <1>8, <1>12

(* A character that means nothing is written outside of expressions.        *)
LEMMA PlainIsScanned ==
    ASSUME NEW t \in Seq(Character), NEW i, NEW start, NEW out, NEW values,
           ScannedTo(t, i, start, out, values), i <= Len(t), t[i] # "backtick",
           t[i] = "backslash" => i < Len(t) /\ t[i + 1] # "backtick"
    PROVE  /\ ScannedTo(t, i + 1, start, IF start = 0 THEN Append(out, t[i]) ELSE out, values)
           /\ NotEscaped(t, i + 1)
  <1>1. i \in 1 .. Len(t) /\ Len(t) \in Nat /\ i + 1 - 1 = i /\ i \in Nat
    BY DEF ScannedTo
  <1>2. i \notin Backticks(t) /\ i \notin Ends(t) /\ ~Escapes(t, i)
    BY DEF Backticks, Ends, Escapes
  <1>3. Piece(t, i, values) = IF InExpression(t, i) THEN <<>> ELSE <<t[i]>>
    BY <1>2 DEF Piece
  <1>4. NotEscaped(t, i + 1)
    BY <1>1 DEF NotEscaped
  <1>5. out \in Seq(Written)
    BY FlattenSeqType DEF ScannedTo
  <1>6. PICK c : c = t[i]
    OBVIOUS
  <1>7. c \in Written /\ <<c>> \in Seq(Written) /\ <<>> \in Seq(Written)
    BY <1>1, <1>6, CharactersAreWritten DEF Written
  <1>8. CASE start = 0
    <2>1. Piece(t, i, values) = <<c>>
      BY <1>3, <1>6, <1>8, Alternates
    <2>2. ScannedTo(t, i + 1, start, out \o <<c>>, values)
      BY <1>2, <1>7, <2>1, ScannedOn
    <2>3. out \o <<c>> = Append(out, c)
      BY <1>5, <1>7, AppendIsConcat
    <2> QED
      BY <1>4, <1>6, <1>8, <2>2, <2>3
  <1>9. CASE start # 0
    <2>1. Piece(t, i, values) = <<>>
      BY <1>3, <1>9, Alternates
    <2>2. ScannedTo(t, i + 1, start, out \o <<>>, values)
      BY <1>2, <1>7, <2>1, ScannedOn
    <2>3. out \o <<>> = out
      BY <1>5, ConcatEmptySeq
    <2> QED
      BY <1>4, <1>9, <2>2, <2>3
  <1> QED
    BY <1>8, <1>9

(* An escape is two characters, of which one is written.                    *)
LEMMA EscapeIsScanned ==
    ASSUME NEW t \in Seq(Character), NEW i, NEW start, NEW out, NEW values,
           ScannedTo(t, i, start, out, values), i < Len(t), t[i] = "backslash",
           t[i + 1] = "backtick"
    PROVE  /\ ScannedTo(t, i + 2, start, Append(out, "backtick"), values)
           /\ NotEscaped(t, i + 2)
  <1>1. /\ i \in 1 .. Len(t) /\ i + 1 \in 1 .. Len(t) /\ Len(t) \in Nat /\ i <= Len(t)
        /\ i + 1 <= Len(t)
        /\ i + 1 - 1 = i /\ i + 2 - 1 = i + 1 /\ i + 1 + 1 = i + 2 /\ i + 1 > 1
    BY DEF ScannedTo
  <1>2. i \notin Backticks(t) /\ i \notin Ends(t) /\ Escapes(t, i)
    BY DEF Backticks, Ends, Escapes
  <1>3. i + 1 \notin Backticks(t) /\ i + 1 \notin Ends(t) /\ ~Escapes(t, i + 1)
    BY <1>1 DEF Backticks, Ends, Escapes
  <1>4. Piece(t, i, values) = <<>> /\ Piece(t, i + 1, values) = <<"backtick">>
    BY <1>2, <1>3 DEF Piece
  <1>5. out \in Seq(Written) /\ "backtick" \in Written
    BY FlattenSeqType DEF ScannedTo, Written, Character
  <1>6. <<>> \in Seq(Written) /\ <<"backtick">> \in Seq(Written)
    BY <1>5
  <1>7. ScannedTo(t, i + 1, start, out \o <<>>, values)
    BY <1>1, <1>2, <1>4, <1>6, ScannedOn
  <1>8. out \o <<>> = out /\ out \o <<"backtick">> = Append(out, "backtick")
    BY <1>5, ConcatEmptySeq, AppendIsConcat
  <1>9. ScannedTo(t, i + 1 + 1, start, out \o <<"backtick">>, values)
    BY <1>1, <1>3, <1>4, <1>6, <1>7, <1>8, ScannedOn
  <1>10. NotEscaped(t, i + 2)
    BY <1>1 DEF NotEscaped
  <1> QED
    BY <1>1, <1>8, <1>9, <1>10

(* The end of an expression stands for its value.                           *)
LEMMA PieceOfAnEnd ==
    ASSUME NEW t, NEW n \in Ends(t), NEW values
    PROVE  Piece(t, n, values) = <<values[(Before(t, n) + 1) \div 2]>>
  <1>1. n \in Backticks(t) /\ ~Escapes(t, n)
    BY DEF Ends, Backticks, Escapes
  <1> QED
    BY <1>1 DEF Piece

(* A backtick outside of expressions begins one.                            *)
LEMMA ExpressionIsOpened ==
    ASSUME NEW t \in Seq(Character), NEW i, NEW out, NEW values,
           ScannedTo(t, i, 0, out, values), i \in Backticks(t)
    PROVE  ScannedTo(t, i + 1, i + 1, out, values) /\ NotEscaped(t, i + 1)
  <1>1. PICK j : j = i + 1
    OBVIOUS
  <1>2. /\ i \in 1 .. Len(t) /\ Len(t) \in Nat /\ i = j - 1 /\ t[i] = "backtick"
        /\ i \in Nat /\ j \in 1 .. Len(t) + 1 /\ j \in 0 .. j /\ j # 0 /\ i - 1 \in Nat
        /\ i - 1 + 1 = i
    <2>1. i \in 1 .. Len(t) /\ t[i] = "backtick" /\ Len(t) \in Nat
      BY DEF Backticks
    <2> QED
      BY <1>1, <2>1
  <1>3. i \notin Ends(t)
    BY Alternates
  <1>4. /\ values \in Seq(Expanded) /\ EndsBefore(t, i) = Len(values)
        /\ Before(t, i) = 2 * Len(values) + (IF 0 = 0 THEN 0 ELSE 1)
        /\ Pieces(t, values, i - 1) \in Seq(Seq(Written))
        /\ out = FlattenSeq(Pieces(t, values, i - 1))
    BY DEF ScannedTo
  <1>5. /\ Before(t, j) = 2 * Len(values) + (IF j = 0 THEN 0 ELSE 1)
        /\ EndsBefore(t, j) = Len(values)
    <2>1. /\ Before(t, i) \in Nat /\ EndsBefore(t, i) \in Nat
          /\ Before(t, i + 1) = Before(t, i) + (IF i \in Backticks(t) THEN 1 ELSE 0)
          /\ EndsBefore(t, i + 1) = EndsBefore(t, i) + (IF i \in Ends(t) THEN 1 ELSE 0)
      BY <1>2, BacktickCounts
    <2>2. Len(values) \in Nat
      BY <1>4
    <2> QED
      BY <1>1, <1>2, <1>3, <1>4, <2>1, <2>2
  <1>6. Piece(t, i, values) = <<>>
    BY <1>3 DEF Piece
  <1>7. Pieces(t, values, i) \in Seq(Seq(Written)) /\ out = FlattenSeq(Pieces(t, values, i))
    <2>1. PICK n \in Nat : n = i - 1 /\ n + 1 = i
      BY <1>2
    <2>2. <<>> \in Seq(Written)
      OBVIOUS
    <2>3. /\ Pieces(t, values, n + 1) \in Seq(Seq(Written))
          /\ FlattenSeq(Pieces(t, values, n + 1)) =
                 FlattenSeq(Pieces(t, values, n)) \o Piece(t, n + 1, values)
          /\ FlattenSeq(Pieces(t, values, n)) \in Seq(Written)
      BY <1>4, <1>6, <2>1, <2>2, PiecesGrow
    <2> QED
      BY <1>4, <1>6, <2>1, <2>3, ConcatEmptySeq, Zenon
  <1>8. \A n \in Ends(t) : n < j => Answered(t, n, values)
    <2> SUFFICES ASSUME NEW n \in Ends(t), n < j PROVE Answered(t, n, values)
      OBVIOUS
    <2>1. n # i /\ n \in 1 .. Len(t)
      BY <1>3 DEF Ends, Backticks
    <2>2. n < i
      BY <1>1, <1>2, <2>1
    <2> QED
      BY <2>2 DEF ScannedTo
  <1>9. j # 0 => \A n \in j .. j : Before(t, n) = Before(t, j)
    <2>1. \A n \in j .. j : n = j
      BY <1>2
    <2> QED
      BY <2>1, Zenon
  <1>10. ScannedTo(t, j, j, out, values)
    BY <1>2, <1>4, <1>5, <1>7, <1>8, <1>9, ScannedToBy
  <1>11. NotEscaped(t, j)
    BY <1>2 DEF NotEscaped
  <1> QED
    BY <1>1, <1>10, <1>11

(* The value that an expression is replaced by is its own.                  *)
LEMMA PiecesStay ==
    ASSUME NEW t, NEW values \in Seq(Expanded), NEW r \in Expanded, NEW i \in Nat,
           \A n \in Ends(t) : n < i => (Before(t, n) + 1) \div 2 \in 1 .. Len(values)
    PROVE  Pieces(t, Append(values, r), i - 1) = Pieces(t, values, i - 1)
  <1>1. PICK more : more = Append(values, r)
    OBVIOUS
  <1>2. \A n \in 1 .. Len(values) : more[n] = values[n]
    BY <1>1
  <1>3. ASSUME NEW n \in 1 .. i - 1
        PROVE  Piece(t, n, more) = Piece(t, n, values)
    <2>1. n < i
      OBVIOUS
    <2>2. CASE n \in Ends(t)
      <3>1. PICK m : m = (Before(t, n) + 1) \div 2
        OBVIOUS
      <3>2. more[m] = values[m]
        BY <1>2, <2>1, <2>2, <3>1
      <3>3. Piece(t, n, more) = <<more[m]>> /\ Piece(t, n, values) = <<values[m]>>
        BY <2>2, <3>1, PieceOfAnEnd, Zenon
      <3> QED
        BY <3>2, <3>3
    <2>3. CASE n \notin Ends(t)
      BY <2>3 DEF Piece
    <2> QED
      BY <2>2, <2>3
  <1> QED
    BY <1>1, <1>3, Zenon DEF Pieces

(* A backtick inside of one ends it, and its value is written.              *)
LEMMA ExpressionIsAnswered ==
    ASSUME NEW t \in Seq(Character), NEW i, NEW start, NEW out, NEW values,
           ScannedTo(t, i, start, out, values), start # 0, i \in Backticks(t),
           NEW m \in start .. i - 1, t[m] # "blank", NEW r \in Expanded
    PROVE  ScannedTo(t, i + 1, 0, Append(out, r), Append(values, r)) /\ NotEscaped(t, i + 1)
  <1>1. PICK j, more, l : j = i + 1 /\ more = Append(values, r) /\ l = Len(values)
    OBVIOUS
  <1>2. /\ i \in 1 .. Len(t) /\ Len(t) \in Nat /\ i = j - 1 /\ t[i] = "backtick" /\ i \in Nat
        /\ j \in 1 .. Len(t) + 1 /\ 0 \in 0 .. j /\ i - 1 \in Nat /\ i - 1 + 1 = i
        /\ start \in 1 .. i /\ m \in start .. i /\ m \in 1 .. i - 1
    <2>1. i \in 1 .. Len(t) /\ t[i] = "backtick" /\ Len(t) \in Nat
      BY DEF Backticks
    <2>2. start \in 0 .. i
      BY DEF ScannedTo
    <2> QED
      BY <1>1, <2>1, <2>2
  <1>3. i \in Ends(t)
    BY Alternates
  <1>4. /\ values \in Seq(Expanded) /\ EndsBefore(t, i) = l
        /\ Before(t, i) = 2 * l + (IF start = 0 THEN 0 ELSE 1)
        /\ Pieces(t, values, i - 1) \in Seq(Seq(Written))
        /\ out = FlattenSeq(Pieces(t, values, i - 1))
        /\ Before(t, m) = Before(t, i)
    BY <1>1, <1>2 DEF ScannedTo
  <1>5. /\ more \in Seq(Expanded) /\ Len(more) = l + 1 /\ more[l + 1] = r /\ l \in Nat
    BY <1>1, <1>4
  <1>6. /\ Before(t, j) = 2 * Len(more) + (IF 0 = 0 THEN 0 ELSE 1)
        /\ EndsBefore(t, j) = Len(more)
        /\ (Before(t, i) + 1) \div 2 = l + 1
    <2>1. /\ Before(t, i) \in Nat /\ EndsBefore(t, i) \in Nat
          /\ Before(t, i + 1) = Before(t, i) + (IF i \in Backticks(t) THEN 1 ELSE 0)
          /\ EndsBefore(t, i + 1) = EndsBefore(t, i) + (IF i \in Ends(t) THEN 1 ELSE 0)
      BY <1>2, BacktickCounts
    <2>2. Before(t, i) = 2 * l + 1 /\ (2 * l + 1 + 1) \div 2 = l + 1
      BY <1>4, <1>5, Parity
    <2>3. Before(t, j) = 2 * l + 1 + 1 /\ EndsBefore(t, j) = l + 1
      BY <1>1, <1>3, <1>4, <2>1, <2>2
    <2>4. 2 * l + 1 + 1 = 2 * (l + 1) + (IF 0 = 0 THEN 0 ELSE 1)
      BY <1>5
    <2> QED
      BY <1>5, <2>2, <2>3, <2>4, Zenon
  <1>7. Answered(t, i, more)
    <2>1. l + 1 \in 1 .. Len(more)
      BY <1>5
    <2> QED
      BY <1>2, <1>4, <1>6, <2>1, Zenon DEF Answered
  <1>8. \A n \in Ends(t) : n < i => Answered(t, n, values)
    BY DEF ScannedTo
  <1>9. \A n \in Ends(t) : n < j => Answered(t, n, more)
    <2> SUFFICES ASSUME NEW n \in Ends(t), n < j PROVE Answered(t, n, more)
      OBVIOUS
    <2>1. CASE n = i
      BY <1>7, <2>1
    <2>2. CASE n # i
      <3>1. n \in 1 .. Len(t)
        BY DEF Ends, Backticks
      <3>2. n < i
        BY <1>1, <1>2, <2>2, <3>1
      <3>3. Answered(t, n, values)
        BY <1>8, <3>2
      <3>4. \A k : k \in 1 .. Len(values) => k \in 1 .. Len(more)
        BY <1>1, <1>5
      <3> QED
        BY <3>3, <3>4, Zenon DEF Answered
    <2> QED
      BY <2>1, <2>2
  <1>10. Pieces(t, more, i - 1) = Pieces(t, values, i - 1)
    <2>1. \A n \in Ends(t) : n < i => (Before(t, n) + 1) \div 2 \in 1 .. Len(values)
      BY <1>8, Zenon DEF Answered
    <2> QED
      BY <1>1, <1>2, <1>4, <2>1, PiecesStay
  <1>11. Piece(t, i, more) = <<r>>
    <2>1. Piece(t, i, more) = <<more[(Before(t, i) + 1) \div 2]>>
      BY <1>3, PieceOfAnEnd, Zenon
    <2> QED
      BY <1>5, <1>6, <2>1, Zenon
  <1>12. PICK q : q = Append(out, r)
    OBVIOUS
  <1>13. Pieces(t, more, i) \in Seq(Seq(Written)) /\ q = FlattenSeq(Pieces(t, more, i))
    <2>1. PICK n \in Nat : n = i - 1 /\ n + 1 = i
      BY <1>2
    <2>2. r \in Written /\ <<r>> \in Seq(Written)
      BY DEF Written
    <2>3. Pieces(t, more, n) \in Seq(Seq(Written)) /\ out = FlattenSeq(Pieces(t, more, n))
      BY <1>4, <1>10, <2>1, Zenon
    <2>4. /\ Pieces(t, more, n + 1) \in Seq(Seq(Written))
          /\ FlattenSeq(Pieces(t, more, n + 1)) =
                 FlattenSeq(Pieces(t, more, n)) \o Piece(t, n + 1, more)
          /\ FlattenSeq(Pieces(t, more, n)) \in Seq(Written)
      BY <1>11, <2>1, <2>2, <2>3, PiecesGrow
    <2>5. out \in Seq(Written) /\ FlattenSeq(Pieces(t, more, i)) = out \o <<r>>
      BY <1>11, <2>1, <2>3, <2>4, Zenon
    <2>6. out \o <<r>> = Append(out, r)
      BY <2>2, <2>5, AppendIsConcat
    <2> QED
      BY <1>12, <2>1, <2>4, <2>5, <2>6, Zenon
  <1>14. ScannedTo(t, j, 0, q, more)
    BY <1>2, <1>5, <1>6, <1>9, <1>13, ScannedToBy
  <1>15. NotEscaped(t, j)
    BY <1>2 DEF NotEscaped
  <1> QED
    BY <1>1, <1>12, <1>14, <1>15

------------------------------------------------------------------------------
(* A text that is one expression.                                           *)

(* Pieces follow each other.                                                *)
LEMMA OffsetsGrow ==
    ASSUME NEW X, NEW ss \in Seq(Seq(X)), NEW m \in Nat
    PROVE  \A n \in Nat : m <= n /\ n <= Len(ss) =>
               Offset(ss, m) \in Nat /\ Offset(ss, m) <= Offset(ss, n)
  <1> DEFINE T == {n \in Nat : m <= n /\ n <= Len(ss) =>
                                  Offset(ss, m) \in Nat /\ Offset(ss, m) <= Offset(ss, n)}
  <1>1. ASSUME NEW n \in Nat, n <= Len(ss)
        PROVE  Offset(ss, n) \in Nat
    <2>1. \A i \in 1 .. n : ss[i] \in Seq(X)
      BY <1>1
    <2>2. SubSeq(ss, 1, n) \in Seq(Seq(X))
      <3> n \in Int /\ 1 \in Int
        OBVIOUS
      <3> QED
        BY <2>1, SubSeqProperties
    <2>3. FlattenSeq(SubSeq(ss, 1, n)) \in Seq(X)
      BY <2>2, FlattenSeqType
    <2> QED
      BY <2>3, LenProperties, Zenon DEF Offset
  <1>2. 0 \in T
    <2>1. m <= 0 => m = 0
      OBVIOUS
    <2>2. 0 <= Len(ss) => Offset(ss, 0) \in Nat
      BY <1>1
    <2> QED
      BY <2>1, <2>2
  <1>3. ASSUME NEW n \in Nat, n \in T
        PROVE  n + 1 \in T
    <2> SUFFICES ASSUME m <= n + 1, n + 1 <= Len(ss)
                 PROVE  Offset(ss, m) \in Nat /\ Offset(ss, m) <= Offset(ss, n + 1)
      OBVIOUS
    <2>1. Offset(ss, m) \in Nat /\ Offset(ss, n) \in Nat
      <3>1. m <= Len(ss) /\ n <= Len(ss)
        OBVIOUS
      <3> QED
        BY <1>1, <3>1
    <2>2. CASE m = n + 1
      BY <2>1, <2>2
    <2>3. CASE m # n + 1
      <3>1. m <= n /\ n <= Len(ss) /\ n \in 0 .. Len(ss) - 1
        BY <2>3
      <3>2. Offset(ss, m) <= Offset(ss, n)
        BY <1>3, <3>1
      <3>3. Offset(ss, n + 1) = Offset(ss, n) + Len(ss[n + 1]) /\ ss[n + 1] \in Seq(X)
        BY <3>1, OffsetOneMore, FlattenOneMore
      <3>4. Len(ss[n + 1]) \in Nat
        BY <3>3, LenProperties, Zenon
      <3> QED
        BY <2>1, <3>2, <3>3, <3>4
    <2> QED
      BY <2>2, <2>3
  <1> HIDE DEF T
  <1>4. \A n \in Nat : n \in T
    BY <1>2, <1>3, Induction
  <1> QED
    BY <1>4 DEF T

(* Two pieces that are not empty are longer than one character together.    *)
LEMMA TwoPiecesAreLong ==
    ASSUME NEW X, NEW ss \in Seq(Seq(X)), NEW m \in 1 .. Len(ss), NEW n \in 1 .. Len(ss), m < n,
           ss[m] # <<>>, ss[n] # <<>>
    PROVE  Len(FlattenSeq(ss)) # 1
  <1>1. PICK k, l : k = m - 1 /\ l = n - 1
    OBVIOUS
  <1>2. /\ k \in 0 .. Len(ss) - 1 /\ l \in 0 .. Len(ss) - 1 /\ k + 1 = m /\ l + 1 = n
        /\ m \in Nat /\ l \in Nat /\ m <= l /\ l <= Len(ss)
    BY <1>1
  <1>3. /\ Offset(ss, k) \in Nat /\ Offset(ss, m) = Offset(ss, k) + Len(ss[m])
        /\ Offset(ss, l) \in Nat /\ Offset(ss, n) = Offset(ss, l) + Len(ss[n])
    BY <1>2, OffsetOneMore
  <1>4. Offset(ss, n) <= Len(FlattenSeq(ss))
    BY <1>2, PiecesLie
  <1>5. Offset(ss, m) <= Offset(ss, l)
    BY <1>2, OffsetsGrow
  <1>6. ss[m] \in Seq(X) /\ ss[n] \in Seq(X)
    OBVIOUS
  <1>7. Len(ss[m]) \in Nat /\ Len(ss[m]) # 0 /\ Len(ss[n]) \in Nat /\ Len(ss[n]) # 0
    BY <1>6, LenProperties, EmptySeq
  <1>8. Len(FlattenSeq(ss)) \in Nat
    BY FlattenSeqType, LenProperties
  <1>9. PICK a, b, c, d, e, f, g :
          /\ a = Offset(ss, k) /\ b = Offset(ss, m) /\ c = Offset(ss, l) /\ d = Offset(ss, n)
          /\ e = Len(ss[m]) /\ f = Len(ss[n]) /\ g = Len(FlattenSeq(ss))
    OBVIOUS
  <1>10. /\ a \in Nat /\ b = a + e /\ c \in Nat /\ d = c + f /\ d <= g /\ b <= c
         /\ e \in Nat /\ e # 0 /\ f \in Nat /\ f # 0 /\ g \in Nat
    BY <1>3, <1>4, <1>5, <1>7, <1>8, <1>9, Zenon
  <1>11. g # 1
    BY <1>10
  <1> QED
    BY <1>9, <1>11

(* If all pieces but the last are empty, there is only the last.            *)
LEMMA OnlyTheLastIsLong ==
    ASSUME NEW X, NEW ss \in Seq(Seq(X)), Len(ss) # 0, \A n \in 1 .. Len(ss) - 1 : ss[n] = <<>>
    PROVE  Len(FlattenSeq(ss)) = Len(ss[Len(ss)])
  <1> DEFINE T == {n \in Nat : n < Len(ss) => Offset(ss, n) = 0}
  <1>1. 0 \in T
    BY OffsetOfNone
  <1>2. ASSUME NEW n \in Nat, n \in T
        PROVE  n + 1 \in T
    <2> SUFFICES ASSUME n + 1 < Len(ss)
                 PROVE  Offset(ss, n + 1) = 0
      OBVIOUS
    <2>1. n \in 0 .. Len(ss) - 1 /\ n + 1 \in 1 .. Len(ss) - 1 /\ n < Len(ss)
      OBVIOUS
    <2>2. Offset(ss, n) = 0
      BY <1>2, <2>1
    <2>3. Offset(ss, n + 1) = Offset(ss, n) + Len(ss[n + 1])
      BY <2>1, OffsetOneMore
    <2>4. ss[n + 1] = <<>> /\ Len(<<>>) = 0
      BY <2>1
    <2>5. Len(ss[n + 1]) = 0
      BY <2>4, Zenon
    <2> QED
      BY <2>2, <2>3, <2>5
  <1> HIDE DEF T
  <1>3. \A n \in Nat : n \in T
    BY <1>1, <1>2, Induction
  <1>4. PICK k : k = Len(ss) - 1
    OBVIOUS
  <1>5. k \in Nat /\ k < Len(ss) /\ k \in 0 .. Len(ss) - 1 /\ k + 1 = Len(ss)
    BY <1>4
  <1>6. Offset(ss, k) = 0
    BY <1>3, <1>5 DEF T
  <1>7. Offset(ss, k + 1) = Offset(ss, k) + Len(ss[k + 1])
    BY <1>5, OffsetOneMore
  <1>8. Offset(ss, Len(ss)) = Len(FlattenSeq(ss))
    BY OffsetOfAll
  <1>9. Len(ss[Len(ss)]) \in Nat
    <2>1. ss[Len(ss)] \in Seq(X)
      OBVIOUS
    <2> QED
      BY <2>1, LenProperties, Zenon
  <1>10. Len(FlattenSeq(ss)) = 0 + Len(ss[Len(ss)])
    BY <1>5, <1>6, <1>7, <1>8, Zenon
  <1> QED
    BY <1>9, <1>10

(* What is known of a text when the scanner is through.                     *)
Through(t, out, values) ==
    /\ ScannedTo(t, Len(t) + 1, 0, out, values) /\ NotEscaped(t, Len(t) + 1)

(* At the end of the text, all of it is well-formed and has been written.   *)
LEMMA ThroughFacts ==
    ASSUME NEW t \in Seq(Character), NEW out, NEW values, Through(t, out, values)
    PROVE  /\ Cardinality(Backticks(t)) = 2 * Len(values) /\ Len(values) \in Nat
           /\ Cardinality(Ends(t)) = Len(values)
           /\ \A n \in Ends(t) : Answered(t, n, values)
           /\ Pieces(t, values, Len(t)) \in Seq(Seq(Written))
           /\ Len(Pieces(t, values, Len(t))) = Len(t)
           /\ out = FlattenSeq(Pieces(t, values, Len(t)))
           /\ out = Substituted(t, values)
           /\ values \in Seq(Expanded)
  <1>1. PICK l \in Nat : l = Len(t)
    OBVIOUS
  <1>2. PICK j \in Nat : j = l + 1 /\ j - 1 = l
    OBVIOUS
  <1>3. ScannedTo(t, j, 0, out, values)
    BY <1>1, <1>2 DEF Through
  <1>4. /\ Before(t, j) = 2 * Len(values) /\ values \in Seq(Expanded)
        /\ EndsBefore(t, j) = Len(values)
        /\ Pieces(t, values, j - 1) \in Seq(Seq(Written))
        /\ out = FlattenSeq(Pieces(t, values, j - 1))
    BY <1>3 DEF ScannedTo
  <1>5. Len(values) \in Nat
    BY <1>4
  <1>6. Cardinality(Backticks(t)) = 2 * Len(values) /\ Cardinality(Ends(t)) = Len(values)
    BY <1>1, <1>2, <1>4, BacktickCounts, Zenon
  <1>7. \A n \in Ends(t) : Answered(t, n, values)
    <2> TAKE n \in Ends(t)
    <2>1. n < j
      BY <1>1, <1>2 DEF Ends, Backticks
    <2> QED
      BY <1>3, <2>1 DEF ScannedTo
  <1>8. Pieces(t, values, l) \in Seq(Seq(Written)) /\ out = FlattenSeq(Pieces(t, values, l))
    BY <1>2, <1>4, Zenon
  <1>9. Len(Pieces(t, values, l)) = l
    <2>1. DOMAIN Pieces(t, values, l) = 1 .. l
      BY DEF Pieces
    <2> QED
      BY <1>8, <2>1
  <1>10. out = Substituted(t, values)
    BY <1>1, <1>8, Zenon DEF Substituted, Pieces
  <1> QED
    BY <1>1, <1>4, <1>5, <1>6, <1>7, <1>8, <1>9, <1>10, Zenon

(* So the text is.                                                          *)
LEMMA AcceptedIsWellformed ==
    ASSUME NEW t \in Seq(Character), NEW out, NEW values, Through(t, out, values)
    PROVE  Wellformed(t)
  <1>1. /\ Cardinality(Backticks(t)) = 2 * Len(values) /\ Len(values) \in Nat
        /\ \A n \in Ends(t) : Answered(t, n, values)
    BY ThroughFacts
  <1>2. Cardinality(Backticks(t)) % 2 = 0
    BY <1>1, Parity
  <1>3. t = <<>> \/ t[Len(t)] # "backslash"
    <2>1. PICK l \in Nat : l = Len(t)
      OBVIOUS
    <2>2. (l + 1 > 1 /\ t[l] = "backslash") => l + 1 <= l
      BY <2>1 DEF Through, NotEscaped
    <2>3. l = 0 => t = <<>>
      BY <2>1, EmptySeq
    <2> QED
      BY <2>1, <2>2, <2>3
  <1> QED
    BY <1>1, <1>2, <1>3, Zenon DEF Wellformed, Answered

(* A text that is one expression is one value, and nothing besides.         *)
LEMMA OneExpressionIsTyped ==
    ASSUME NEW t \in Seq(Character), NEW out, NEW values, Through(t, out, values),
           IsOneExpression(t)
    PROVE  Len(values) = 1 /\ Len(out) = 1
  <1>1. PICK l, e \in Nat : l = Len(t) /\ e = Len(values)
    BY ThroughFacts
  <1>2. /\ Backticks(t) = {1, l} /\ \A n \in 2 .. l - 1 : t[n] # "backtick"
    BY <1>1 DEF IsOneExpression
  <1>3. l \in Nat /\ 1 <= l
    BY <1>1, <1>2 DEF Backticks
  <1>4. Cardinality({1, l}) = 2 * e
    BY <1>1, <1>2, ThroughFacts
  <1>5. l # 1
    <2> SUFFICES ASSUME l = 1 PROVE FALSE
      OBVIOUS
    <2>1. Cardinality({1}) = 1 /\ {1, l} = {1}
      BY FS_Singleton
    <2>2. 2 * e = 1
      BY <1>4, <2>1, Zenon
    <2> QED
      BY <2>2
  <1>6. e = 1
    <2>1. 2 * e = 2
      BY <1>4, <1>5, TwoAreTwo, Zenon
    <2> QED
      BY <1>1, <2>1
  <1>7. \A n \in 2 .. l : Before(t, n) = 1
    <2> TAKE n \in 2 .. l
    <2>1. 1 < n /\ ~(l < n)
      BY <1>3
    <2>2. {b \in {1, l} : b < n} = {1}
      BY <2>1, Zenon
    <2> QED
      BY <1>2, <2>2, FS_Singleton DEF Before
  <1>8. 1 \notin Ends(t) /\ l \in Ends(t) /\ \A n \in 2 .. l : InExpression(t, n)
    <2>1. Before(t, 1) = 0
      BY BacktickCounts
    <2>2. ~InExpression(t, 1)
      BY <2>1 DEF InExpression
    <2>3. \A n \in 2 .. l : InExpression(t, n)
      BY <1>7 DEF InExpression
    <2>4. l \in 2 .. l
      BY <1>3, <1>5
    <2> QED
      BY <1>2, <2>2, <2>3, <2>4 DEF Ends
  <1>9. PICK ss : ss = Pieces(t, values, l)
    OBVIOUS
  <1>10. ss \in Seq(Seq(Written)) /\ Len(ss) = l /\ out = FlattenSeq(ss)
    BY <1>1, <1>9, ThroughFacts
  <1>11. \A n \in 1 .. l : ss[n] = Piece(t, n, values)
    BY <1>9 DEF Pieces
  <1>12. \A n \in 1 .. l - 1 : ss[n] = <<>>
    <2> TAKE n \in 1 .. l - 1
    <2>1. CASE n = 1
      <3>1. Piece(t, 1, values) = <<>>
        <4>1. 1 \in Backticks(t) \ Ends(t)
          BY <1>2, <1>8
        <4> QED
          BY <4>1 DEF Piece
      <3>2. 1 \in 1 .. l
        BY <1>3
      <3> QED
        BY <1>11, <2>1, <3>1, <3>2
    <2>2. CASE n # 1
      <3>1. n \in 2 .. l - 1 /\ n \in 2 .. l /\ n \in 1 .. l /\ n # l
        BY <1>3, <2>2
      <3>2. n \notin Backticks(t) /\ n \notin Ends(t) /\ t[n] # "backtick" /\ InExpression(t, n)
        BY <1>2, <1>8, <2>2, <3>1 DEF Ends
      <3>3. Piece(t, n, values) = <<>>
        BY <3>2 DEF Piece
      <3> QED
        BY <1>11, <3>1, <3>3
    <2> QED
      BY <2>1, <2>2
  <1>13. Len(ss[l]) = 1
    <2>1. Piece(t, l, values) = <<values[(Before(t, l) + 1) \div 2]>>
      BY <1>8, PieceOfAnEnd
    <2>2. l \in 1 .. l
      BY <1>3
    <2>3. ss[l] = <<values[(Before(t, l) + 1) \div 2]>>
      BY <1>11, <2>1, <2>2
    <2> QED
      BY <2>3
  <1>14. Len(ss) # 0 /\ \A n \in 1 .. Len(ss) - 1 : ss[n] = <<>>
    BY <1>3, <1>10, <1>12
  <1>15. Len(FlattenSeq(ss)) = Len(ss[Len(ss)])
    BY <1>10, <1>14, OnlyTheLastIsLong
  <1> QED
    BY <1>1, <1>6, <1>10, <1>13, <1>15

(* Nothing else is: one value and nothing besides was written, so every     *)
(* other piece is empty, and the text begins and ends with a backtick.      *)
LEMMA TypedIsOneExpression ==
    ASSUME NEW t \in Seq(Character), NEW out, NEW values, Through(t, out, values),
           Len(values) = 1, Len(out) = 1
    PROVE  IsOneExpression(t)
  <1>1. PICK l \in Nat : l = Len(t)
    OBVIOUS
  <1>2. Backticks(t) \subseteq 1 .. l /\ Ends(t) \subseteq Backticks(t)
    BY <1>1 DEF Backticks, Ends
  <1>3. Cardinality(Backticks(t)) = 2 /\ Cardinality(Ends(t)) = 1
    <2>1. Cardinality(Backticks(t)) = 2 * Len(values) /\ Cardinality(Ends(t)) = Len(values)
      BY ThroughFacts, Zenon
    <2> QED
      BY <2>1
  <1>4. PICK e : e \in Ends(t)
    <2>1. Ends(t) # {}
      BY <1>3, FS_EmptySet
    <2> QED
      BY <2>1
  <1>5. e \in Backticks(t) /\ e \in 1 .. l
    BY <1>2, <1>4
  <1>6. ASSUME NEW n \in 1 .. l, n # e
        PROVE  Piece(t, n, values) = <<>>
    <2>1. PICK ss : ss = Pieces(t, values, l)
      OBVIOUS
    <2>2. ss \in Seq(Seq(Written)) /\ Len(ss) = l /\ Len(FlattenSeq(ss)) = 1
      BY <1>1, <2>1, ThroughFacts
    <2>3. ss[n] = Piece(t, n, values) /\ ss[e] = Piece(t, e, values)
      BY <1>5, <2>1 DEF Pieces
    <2>4. ss[e] # <<>>
      <3>1. Piece(t, e, values) = <<values[(Before(t, e) + 1) \div 2]>>
        BY <1>4, PieceOfAnEnd
      <3> QED
        BY <2>3, <3>1
    <2> SUFFICES ASSUME ss[n] # <<>> PROVE FALSE
      BY <2>3
    <2>5. n \in 1 .. Len(ss) /\ e \in 1 .. Len(ss) /\ (n < e \/ e < n)
      BY <1>5, <1>6, <2>2
    <2> QED
      BY <2>2, <2>4, <2>5, TwoPiecesAreLong
  <1>7. ASSUME NEW n \in 1 .. l, n \notin Backticks(t), t[n] = "backtick"
        PROVE  FALSE
    <2>1. n \notin Ends(t) /\ ~Escapes(t, n) /\ n # e
      BY <1>2, <1>5, <1>7 DEF Escapes
    <2>2. Piece(t, n, values) = <<"backtick">>
      BY <1>7, <2>1 DEF Piece
    <2>3. Piece(t, n, values) = <<>>
      BY <1>6, <2>1
    <2> QED
      BY <2>2, <2>3
  <1>8. ASSUME NEW n \in 1 .. l, n \notin Backticks(t), ~InExpression(t, n), ~Escapes(t, n)
        PROVE  FALSE
    <2>1. n \notin Ends(t) /\ n # e /\ t[n] # "backtick"
      BY <1>2, <1>5, <1>7, <1>8
    <2>2. Piece(t, n, values) = <<t[n]>>
      BY <1>8, <2>1 DEF Piece
    <2>3. Piece(t, n, values) = <<>>
      BY <1>6, <2>1
    <2> QED
      BY <2>2, <2>3
  <1>9. 1 \in Backticks(t)
    <2> SUFFICES ASSUME 1 \notin Backticks(t) PROVE FALSE
      OBVIOUS
    <2>1. 1 \in 1 .. l
      BY <1>5
    <2>2. Before(t, 1) = 0
      BY BacktickCounts
    <2>3. ~InExpression(t, 1)
      BY <2>2 DEF InExpression
    <2>4. Escapes(t, 1)
      BY <1>8, <2>1, <2>3
    <2>5. 2 \in 1 .. l /\ t[1] = "backslash" /\ t[2] = "backtick"
      BY <1>1, <2>4 DEF Escapes
    <2>6. 2 \notin Backticks(t)
      BY <2>5 DEF Backticks
    <2> QED
      BY <1>7, <2>5, <2>6
  <1>10. l \in Backticks(t)
    <2> SUFFICES ASSUME l \notin Backticks(t) PROVE FALSE
      OBVIOUS
    <2>1. l \in 1 .. l /\ ~Escapes(t, l)
      BY <1>1, <1>5 DEF Escapes
    <2>2. Before(t, l) = 2
      <3>1. /\ Before(t, l) \in Nat
            /\ Before(t, l + 1) = Before(t, l) + (IF l \in Backticks(t) THEN 1 ELSE 0)
        BY BacktickCounts
      <3>2. Before(t, l + 1) = 2
        BY <1>1, <1>3, BacktickCounts
      <3> QED
        BY <3>1, <3>2
    <2>3. ~InExpression(t, l)
      BY <2>2 DEF InExpression
    <2> QED
      BY <1>8, <2>1, <2>3
  <1>11. Backticks(t) = {1, l}
    <2>1. PICK B : B = Backticks(t)
      OBVIOUS
    <2>2. IsFiniteSet(1 .. l) /\ IsFiniteSet({1}) /\ Cardinality({1}) = 1
      <3>1. 1 \in Int /\ l \in Int
        OBVIOUS
      <3> QED
        BY <3>1, FS_Interval, FS_Singleton, Zenon
    <2>3. IsFiniteSet(B)
      BY <1>2, <2>1, <2>2, FS_Subset
    <2>4. l # 1
      <3> SUFFICES ASSUME l = 1 PROVE FALSE
        OBVIOUS
      <3>1. B \in SUBSET {1}
        BY <1>2, <2>1
      <3>2. Cardinality(B) <= Cardinality({1})
        BY <2>2, <3>1, FS_Subset
      <3> QED
        BY <1>3, <2>1, <2>2, <3>2
    <2>5. Cardinality({1, l}) = 2
      BY <2>4, TwoAreTwo, Zenon
    <2>6. {1, l} \in SUBSET B
      BY <1>9, <1>10, <2>1
    <2> QED
      BY <1>3, <2>1, <2>3, <2>5, <2>6, FS_Subset, Zenon
  <1>12. ASSUME NEW n \in 2 .. l - 1
         PROVE  t[n] # "backtick"
    <2>1. n \in 1 .. l /\ n \notin Backticks(t)
      BY <1>11
    <2> QED
      BY <1>7, <2>1
  <1> QED
    BY <1>1, <1>11, <1>12, Zenon DEF IsOneExpression

(* So the result is the one that is meant.                                  *)
LEMMA ScannedIsSubstituted ==
    ASSUME NEW t \in Seq(Character), NEW out, NEW values, Through(t, out, values)
    PROVE  /\ Wellformed(t) /\ Len(values) = Cardinality(Ends(t))
           /\ (IF Len(values) = 1 /\ Len(out) = 1 THEN values[1] ELSE Text(out)) =
                 IF IsOneExpression(t) THEN values[1] ELSE Text(Substituted(t, values))
  <1>1. Wellformed(t)
    BY AcceptedIsWellformed
  <1>2. Len(values) = Cardinality(Ends(t)) /\ out = Substituted(t, values)
    BY ThroughFacts
  <1>3. IsOneExpression(t) <=> Len(values) = 1 /\ Len(out) = 1
    BY OneExpressionIsTyped, TypedIsOneExpression, Zenon
  <1> QED
    BY <1>1, <1>2, <1>3, Zenon
------------------------------------------------------------------------------
(* The scanner.                                                             *)

(* Of the place that is being expanded, the scanner has read what it says.  *)
ScanInv ==
    /\ StageInv
    /\ Scanning =>
          /\ ScannedTo(template[place], index, exprStart, output, expansions)
          /\ NotEscaped(template[place], index)

(* Nothing has been scanned at first.                                       *)
LEMMA ScanBegins ==
    ASSUME NEW t \in Seq(Character)
    PROVE  ScannedTo(t, 1, 0, <<>>, <<>>) /\ NotEscaped(t, 1)
  <1>1. Len(t) \in Nat /\ 1 \in 1 .. Len(t) + 1 /\ 0 \in 0 .. 1 /\ 0 = 1 - 1
    OBVIOUS
  <1>2. <<>> \in Seq(Expanded) /\ Len(<<>>) = 0
    OBVIOUS
  <1>3. Before(t, 1) = 2 * Len(<<>>) + (IF 0 = 0 THEN 0 ELSE 1) /\ EndsBefore(t, 1) = Len(<<>>)
    BY BacktickCounts
  <1>4. \A n \in Ends(t) : n < 1 => Answered(t, n, <<>>)
    BY DEF Ends, Backticks
  <1>5. Pieces(t, <<>>, 0) = <<>>
    BY DEF Pieces
  <1>6. Pieces(t, <<>>, 0) \in Seq(Seq(Written)) /\ <<>> = FlattenSeq(Pieces(t, <<>>, 0))
    <2>1. <<>> \in Seq(Seq(Written))
      OBVIOUS
    <2> QED
      BY <1>5, <2>1, FlattenSeqOfNone, Zenon
  <1>7. ScannedTo(t, 1, 0, <<>>, <<>>)
    BY <1>1, <1>2, <1>3, <1>4, <1>6, ScannedToBy
  <1> QED
    BY <1>7 DEF NotEscaped

(* What is scanned is text.                                                 *)
LEMMA TextIsScanned ==
    ASSUME ScanInv, Scanning
    PROVE  template[place] \in Seq(Character)
  BY TextsAreText DEF ScanInv, StageInv, Scanning

(* The steps of the scanner: Plain,                                         *)
LEMMA CharacterIsPassed ==
    ASSUME ScanInv, StageInv', Plain
    PROVE  ScanInv'
  <1>1. /\ Scanning /\ index <= Len(template[place])
        /\ UNCHANGED <<template, place, exprStart, expansions>>
        /\ output' = IF exprStart = 0 THEN Append(output, template[place][index]) ELSE output
        /\ index' = index + 1
        /\ \/ template[place][index] \in PlainText \cup {"blank"}
           \/ /\ template[place][index] = "backslash" /\ index < Len(template[place])
              /\ template[place][index + 1] # "backtick"
    BY DEF Plain, At, Here, NextIs, Outside
  <1>2. PICK t : t = template[place]
    OBVIOUS
  <1>3. t \in Seq(Character) /\ ScannedTo(t, index, exprStart, output, expansions)
    BY <1>1, <1>2, TextIsScanned DEF ScanInv
  <1>4. /\ index <= Len(t) /\ t[index] # "backtick"
        /\ t[index] = "backslash" => index < Len(t) /\ t[index + 1] # "backtick"
    BY <1>1, <1>2, TextsAreText
  <1>5. /\ ScannedTo(t, index + 1, exprStart,
             IF exprStart = 0 THEN Append(output, t[index]) ELSE output,
                     expansions)
        /\ NotEscaped(t, index + 1)
    BY <1>3, <1>4, PlainIsScanned
  <1>6. ScannedTo(t, index', exprStart', output', expansions') /\ NotEscaped(t, index')
    BY <1>1, <1>2, <1>5, Zenon
  <1>7. template'[place'] = t
    BY <1>1, <1>2
  <1> QED
    BY <1>6, <1>7, Zenon DEF ScanInv

(* EscapedBacktick,                                                         *)
LEMMA EscapeIsPassed ==
    ASSUME ScanInv, StageInv', EscapedBacktick
    PROVE  ScanInv'
  <1>1. /\ Scanning /\ UNCHANGED <<template, place, exprStart, expansions>>
        /\ index < Len(template[place])
        /\ template[place][index] = "backslash" /\ template[place][index + 1] = "backtick"
        /\ output' = Append(output, "backtick") /\ index' = index + 2
    BY DEF EscapedBacktick, At, Here, NextIs
  <1>2. PICK t : t = template[place]
    OBVIOUS
  <1>3. t \in Seq(Character) /\ ScannedTo(t, index, exprStart, output, expansions)
    BY <1>1, <1>2, TextIsScanned DEF ScanInv
  <1>4. /\ ScannedTo(t, index + 2, exprStart, Append(output, "backtick"), expansions)
        /\ NotEscaped(t, index + 2)
    BY <1>1, <1>2, <1>3, EscapeIsScanned
  <1>5. ScannedTo(t, index', exprStart', output', expansions') /\ NotEscaped(t, index')
    BY <1>1, <1>4, Zenon
  <1>6. template'[place'] = t
    BY <1>1, <1>2
  <1> QED
    BY <1>5, <1>6, Zenon DEF ScanInv

(* A backtick that the scanner comes to is one that is not escaped.         *)
LEMMA BacktickIsUnescaped ==
    ASSUME ScanInv, At("backtick")
    PROVE  /\ template[place] \in Seq(Character)
           /\ ScannedTo(template[place], index, exprStart, output, expansions)
           /\ index \in Backticks(template[place])
  <1>1. /\ Scanning /\ index <= Len(template[place]) /\ template[place][index] = "backtick"
    BY DEF At, Here
  <1>2. PICK t : t = template[place]
    OBVIOUS
  <1>3. /\ t \in Seq(Character) /\ ScannedTo(t, index, exprStart, output, expansions)
        /\ NotEscaped(t, index)
    BY <1>1, <1>2, TextIsScanned DEF ScanInv
  <1>4. index \in 1 .. Len(t)
    BY <1>1, <1>2, <1>3 DEF ScannedTo
  <1>5. index \in Backticks(t)
    BY <1>1, <1>2, <1>3, <1>4 DEF NotEscaped, Backticks
  <1> QED
    BY <1>2, <1>3, <1>5

(* OpenExpression,                                                          *)
LEMMA OpeningIsPassed ==
    ASSUME ScanInv, StageInv', OpenExpression
    PROVE  ScanInv'
  <1>1. /\ At("backtick") /\ exprStart = 0 /\ UNCHANGED <<template, place, output, expansions>>
        /\ exprStart' = index + 1 /\ index' = index + 1
    BY DEF OpenExpression, Outside
  <1>2. PICK t : t = template[place]
    OBVIOUS
  <1>3. /\ t \in Seq(Character) /\ ScannedTo(t, index, 0, output, expansions)
        /\ index \in Backticks(t)
    BY <1>1, <1>2, BacktickIsUnescaped
  <1>4. ScannedTo(t, index + 1, index + 1, output, expansions) /\ NotEscaped(t, index + 1)
    BY <1>3, ExpressionIsOpened
  <1>5. ScannedTo(t, index', exprStart', output', expansions') /\ NotEscaped(t, index')
    BY <1>1, <1>4, Zenon
  <1>6. template'[place'] = t
    BY <1>1, <1>2
  <1> QED
    BY <1>5, <1>6, Zenon DEF ScanInv

(* Evaluate,                                                                *)
LEMMA ExpressionIsPassed ==
    ASSUME ScanInv, StageInv', NEW result \in Expanded, Evaluate(result)
    PROVE  ScanInv'
  <1>1. /\ At("backtick") /\ exprStart # 0 /\ UNCHANGED <<template, place>>
        /\ ~IsBlank(exprStart, index - 1)
        /\ expansions' = Append(expansions, result) /\ output' = Append(output, result)
        /\ exprStart' = 0 /\ index' = index + 1
    BY DEF Evaluate, Closes, Outside
  <1>2. PICK t : t = template[place]
    OBVIOUS
  <1>3. /\ t \in Seq(Character) /\ ScannedTo(t, index, exprStart, output, expansions)
        /\ index \in Backticks(t)
    BY <1>1, <1>2, BacktickIsUnescaped
  <1>4. PICK m \in exprStart .. index - 1 : t[m] # "blank"
    BY <1>1, <1>2 DEF IsBlank
  <1>5. /\ ScannedTo(t, index + 1, 0, Append(output, result), Append(expansions, result))
        /\ NotEscaped(t, index + 1)
    BY <1>1, <1>3, <1>4, ExpressionIsAnswered
  <1>6. ScannedTo(t, index', exprStart', output', expansions') /\ NotEscaped(t, index')
    BY <1>1, <1>5, Zenon
  <1>7. template'[place'] = t
    BY <1>1, <1>2
  <1> QED
    BY <1>6, <1>7, Zenon DEF ScanInv

(* and Expand, which begins a text.                                         *)
LEMMA TextIsTaken ==
    ASSUME ScanInv, StageInv', NEW p \in DOMAIN template, Expand(p)
    PROVE  ScanInv'
  <1>1. /\ place' = p /\ UNCHANGED template
        /\ index' = 1 /\ exprStart' = 0 /\ output' = <<>> /\ expansions' = <<>>
    BY DEF Expand
  <1>2. PICK t : t = template[p]
    OBVIOUS
  <1>3. t \in Seq(Character)
    BY <1>2, TextsAreText DEF ScanInv, StageInv
  <1>4. ScannedTo(t, 1, 0, <<>>, <<>>) /\ NotEscaped(t, 1)
    BY <1>3, ScanBegins
  <1>5. ScannedTo(t, index', exprStart', output', expansions') /\ NotEscaped(t, index')
    BY <1>1, <1>4, Zenon
  <1>6. template'[place'] = t
    BY <1>1, <1>2
  <1> QED
    BY <1>5, <1>6, Zenon DEF ScanInv

(* At each moment the scanner has written what the text so far stands for   *)
(* (evalBackticksInConfigValue, config_expansion.go:28-110).                *)
THEOREM ScanInvariant == ExpansionSpec => []ScanInv
  <1>1. ExpansionInit => ScanInv
    BY StageInitially DEF ExpansionInit, BeginTemplate, ScanInv, Scanning
  <1>2. ScanInv /\ StageInv' /\ [ExpansionNext]_expansionVars => ScanInv'
    <2> SUFFICES ASSUME ScanInv, StageInv', [ExpansionNext]_expansionVars
                 PROVE  ScanInv'
      OBVIOUS
    <2>1. ASSUME NEW p \in DOMAIN template, Expand(p)
          PROVE  ScanInv'
      BY <2>1, TextIsTaken
    <2>2. CASE Plain
      BY <2>2, CharacterIsPassed
    <2>3. CASE EscapedBacktick
      BY <2>3, EscapeIsPassed
    <2>4. CASE OpenExpression
      BY <2>4, OpeningIsPassed
    <2>5. CASE (\E v \in Value : Evaluate(Typed(v))) \/ Evaluate(Nil)
      <3>1. PICK result \in Expanded : Evaluate(result)
        BY <2>5, Zenon DEF Expanded
      <3> QED
        BY <3>1, ExpressionIsPassed
    <2>6. CASE place' = Nowhere
      BY <2>6 DEF ScanInv, Scanning
    <2>7. CASE UNCHANGED <<template, place, scanVars>>
      <3>1. UNCHANGED <<template, place, index, exprStart, output, expansions>>
        BY <2>7 DEF scanVars
      <3> QED
        BY <3>1 DEF ScanInv, Scanning
    <2>8. CASE \/ EndsInEscape \/ EmptyExpression \/ EvaluationFails \/ Unbalanced \/ EndpointEmpty
               \/ StartFails \/ FetchFromNil \/ Finish
      <3>1. place' = Nowhere
        BY <2>8 DEF EndsInEscape, EmptyExpression, EvaluationFails, Unbalanced, EndpointEmpty,
           StartFails, FetchFromNil, Finish, Fail, Yield
      <3> QED
        BY <2>6, <3>1
    <2>9. CASE Discover \/ Merge \/ Started \/ Registered \/ UNCHANGED expansionVars
      <3>1. UNCHANGED <<template, place, scanVars>>
        BY <2>9 DEF Discover, Merge, Started, Registered, expansionVars
      <3> QED
        BY <2>7, <3>1
    <2> QED
      BY <2>1, <2>2, <2>3, <2>4, <2>5, <2>8, <2>9 DEF ExpansionNext, ExpansionDone
  <1> QED
    BY <1>1, <1>2, StageInvariant, PTL DEF ExpansionSpec

(* For any text and any values of its expressions: only well-formed texts   *)
(* are accepted, each expression is replaced by its own value and the rest  *)
(* is left, and a text that is one expression keeps the type of its value   *)
(* (config_expansion.go:19-27).                                             *)
THEOREM TextsAreSubstituted == ExpansionSpec => []ExpandsBySubstitution
  <1>1. ScanInv => ExpandsBySubstitution
    <2> SUFFICES ASSUME ScanInv, Scanned, Outside
                 PROVE  LET t == template[place] IN
                        /\ Wellformed(t) /\ Len(expansions) = Cardinality(Ends(t))
                        /\ Result = IF IsOneExpression(t) THEN expansions[1]
                                    ELSE Text(Substituted(t, expansions))
      BY DEF ExpandsBySubstitution
    <2>1. PICK t : t = template[place]
      OBVIOUS
    <2>2. Scanning /\ index > Len(t) /\ exprStart = 0
      BY <2>1 DEF Scanned, Outside
    <2>3. /\ t \in Seq(Character) /\ ScannedTo(t, index, exprStart, output, expansions)
          /\ NotEscaped(t, index)
      BY <2>1, <2>2, TextIsScanned DEF ScanInv
    <2>4. index = Len(t) + 1
      BY <2>2, <2>3 DEF ScannedTo
    <2>5. Through(t, output, expansions)
      BY <2>2, <2>3, <2>4, Zenon DEF Through
    <2>6. /\ Wellformed(t) /\ Len(expansions) = Cardinality(Ends(t))
          /\ (IF Len(expansions) = 1 /\ Len(output) = 1 THEN expansions[1] ELSE Text(output)) =
                IF IsOneExpression(t) THEN expansions[1] ELSE Text(Substituted(t, expansions))
      BY <2>3, <2>5, ScannedIsSubstituted
    <2> QED
      BY <2>1, <2>6, Zenon DEF Result
  <1> QED
    BY <1>1, ScanInvariant, PTL
===============================================================================
