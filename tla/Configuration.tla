----------------------------- MODULE Configuration -----------------------------
(****************************************************************************)
(* Config.Unmarshal (config.go): what exporter_creator accepts as its       *)
(* configuration, and which signals a template comes to handle.             *)
(*                                                                          *)
(* Rules are read in order, then the exporters section, of which templates  *)
(* and the entries of a signals block come in any order (Go's map           *)
(* iteration), and the first error ends it.  Whether a path of a rule can   *)
(* be read is PropertyPath's; whether a template's name, fields and rule    *)
(* can be is up to libraries (external), and given.                         *)
(****************************************************************************)
EXTENDS Integers, Sequences

CONSTANTS
    Document  \* [rules, section, templates]; a template is [fault, block, signals]

Reading == {"", "unreadable", "readable"}   \* of an attribute or a property of a rule
Signals == {"metrics", "logs", "traces"}
AllSignals == Signals

\* What may be wrong with a template before its signals: its section is no
\* map, its name no component id, a field of the wrong type, a rule that does
\* not compile, a resource attribute that is not a string.
Fault == {"none", "section", "name", "field", "rule", "resource attribute"}

Block == {"absent", "not a map", "map"}   \* the signals block
Section == {"map", "malformed"}           \* the exporters; an absent section is an empty map

NoTemplate == "no template"

ASSUME DocumentsType ==
    \A d \in Document :
        /\ d.rules \in Seq([attribute : Reading, property : Reading])
        /\ d.section \in Section
        /\ NoTemplate \notin DOMAIN d.templates
        /\ \A name \in DOMAIN d.templates :
              d.templates[name].fault \in Fault /\ d.templates[name].block \in Block

VARIABLES
    document,
    rule,           \* the next rule to validate
    unread,         \* templates still to read
    reading,        \* the one whose signals block is being read
    entries,        \* entries of the block still to read
    signals,        \* exporterSignals: those enabled so far
    exporterTemplates, \* the templates read, by name: their signals
    verdict

configurationVars ==
    <<document, rule, unread, reading, entries, signals, exporterTemplates, verdict>>

TemplateOf(name) == document.templates[name]
------------------------------------------------------------------------------
BeginDocument(d) ==
    /\ document = d
    /\ rule = 1
    /\ unread = DOMAIN d.templates
    /\ reading = NoTemplate
    /\ entries = {} /\ signals = {}
    /\ exporterTemplates = [name \in {} |-> {}]
    /\ verdict = "pending"

ConfigurationInit == \E d \in Document : BeginDocument(d)

Validating == verdict = "pending" /\ rule <= Len(document.rules)

(* Mutant: the property of a rule is not parsed. *)
NamesAttribute(r) == r.attribute = "readable" /\ r.property # ""
Readable(r) == r.attribute = "readable" /\ r.property = "readable"

ValidateRule ==
    /\ Validating
    /\ IF Readable(document.rules[rule]) THEN rule' = rule + 1 /\ UNCHANGED verdict
       ELSE verdict' = "refused" /\ UNCHANGED rule
    /\ UNCHANGED <<document, unread, reading, entries, signals, exporterTemplates>>

MalformedSection ==
    /\ verdict = "pending" /\ ~Validating /\ document.section = "malformed"
    /\ verdict' = "refused"
    /\ UNCHANGED <<document, rule, unread, reading, entries, signals, exporterTemplates>>

ReadingTemplates == verdict = "pending" /\ ~Validating /\ document.section = "map"

(* A template without a signals block has all signals.  Mutant: so has one  *)
(* whose block disables all of them.                                        *)
EmptyEnablesAll(name, enabled) == IF enabled = {} THEN AllSignals ELSE enabled
SignalsOf(name, enabled) == IF TemplateOf(name).block = "absent" THEN AllSignals ELSE enabled

(* Up to the signals block, and past one that is absent. *)
ReadTemplate(name) ==
    /\ ReadingTemplates /\ reading = NoTemplate /\ name \in unread
    /\ unread' = unread \ {name}
    /\ LET t == TemplateOf(name) IN
       IF t.fault # "none" \/ t.block = "not a map"
       THEN verdict' = "refused" /\ UNCHANGED <<reading, entries, signals, exporterTemplates>>
       ELSE /\ reading' = name
            /\ entries' = IF t.block = "absent" THEN {} ELSE DOMAIN t.signals
            /\ signals' = {}
            /\ UNCHANGED <<exporterTemplates, verdict>>
    /\ UNCHANGED <<document, rule>>

(* signalsFromConfig, entry by entry. *)
ReadSignal(key) ==
    /\ ReadingTemplates /\ reading # NoTemplate /\ key \in entries
    /\ LET enabled == TemplateOf(reading).signals[key] IN
       IF enabled \notin {"true", "false"} \/ key \notin Signals
       THEN verdict' = "refused" /\ UNCHANGED <<entries, signals>>
       ELSE /\ entries' = entries \ {key}
            /\ signals' = IF enabled = "true" THEN signals \cup {key} ELSE signals
            /\ UNCHANGED verdict
    /\ UNCHANGED <<document, rule, unread, reading, exporterTemplates>>

KeepTemplate ==
    /\ ReadingTemplates /\ reading # NoTemplate /\ entries = {}
    /\ IF SignalsOf(reading, signals) = {}
       THEN verdict' = "refused" /\ UNCHANGED <<exporterTemplates, reading>>
       ELSE /\ exporterTemplates' =
                  [name \in DOMAIN exporterTemplates \cup {reading} |->
                      IF name = reading THEN SignalsOf(reading, signals) ELSE exporterTemplates[name]]
            /\ reading' = NoTemplate
            /\ UNCHANGED verdict
    /\ UNCHANGED <<document, rule, unread, entries, signals>>

Accept ==
    /\ ReadingTemplates /\ reading = NoTemplate /\ unread = {}
    /\ verdict' = "accepted"
    /\ UNCHANGED <<document, rule, unread, reading, entries, signals, exporterTemplates>>

ConfigurationDone == verdict \in {"accepted", "refused"} /\ UNCHANGED configurationVars

ConfigurationNext ==
    \/ ValidateRule \/ MalformedSection
    \/ \E name \in DOMAIN document.templates : ReadTemplate(name)
    \/ \E key \in entries : ReadSignal(key)
    \/ KeepTemplate \/ Accept \/ ConfigurationDone

ConfigurationSpec == ConfigurationInit /\ [][ConfigurationNext]_configurationVars
------------------------------------------------------------------------------
SoundRule(r) == {r.attribute, r.property} = {"readable"}

Enabled(block) == {key \in DOMAIN block : block[key] = "true"}

Sound(t) ==
    /\ t.fault = "none"
    /\ t.block # "absent" =>
          /\ t.block # "not a map"
          /\ DOMAIN t.signals \subseteq Signals
          /\ \A key \in DOMAIN t.signals : t.signals[key] \in {"true", "false"}
          /\ Enabled(t.signals) # {}

(* Whatever order Go's maps are read in, a configuration is accepted if     *)
(* nothing in it is wrong and refused if anything is, and its templates     *)
(* handle the signals set to true, or, without a block, all of them         *)
(* (config.go:126-127, 195-197, README.md:126-128).                         *)
LoadsExactlyTheSound ==
    /\ verdict = "accepted" =>
          /\ \A n \in DOMAIN document.rules : SoundRule(document.rules[n])
          /\ document.section = "map"
          /\ DOMAIN exporterTemplates = DOMAIN document.templates
          /\ \A name \in DOMAIN exporterTemplates :
                /\ Sound(TemplateOf(name))
                /\ exporterTemplates[name] =
                      IF TemplateOf(name).block = "absent" THEN Signals
                      ELSE Enabled(TemplateOf(name).signals)
    /\ verdict = "refused" =>
          \/ \E n \in DOMAIN document.rules : ~SoundRule(document.rules[n])
          \/ document.section = "malformed"
          \/ \E name \in DOMAIN document.templates : ~Sound(TemplateOf(name))
==============================================================================
