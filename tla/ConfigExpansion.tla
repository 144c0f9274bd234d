---------------------------- MODULE ConfigExpansion ----------------------------
(****************************************************************************)
(* How a template becomes the configuration of an exporter for one          *)
(* endpoint: evalBackticksInConfigValue, character by character, expandAny  *)
(* and removeNilValuesFromMap (config_expansion.go), the endpoint that      *)
(* startExporter settles on (observerhandler.go) and its merge into the     *)
(* template's configuration (exporter_runner.go); and, once the exporter    *)
(* runs, the template's resource attributes, by which it is routed.         *)
(*                                                                          *)
(* A template is a function from the places in it, each of which holds one  *)
(* string, to that string; a place may be inside a list, whose elements     *)
(* keep their positions.  The places of the configuration are expanded in   *)
(* any order (Go's map iteration), then the discovered target if it is      *)
(* needed, then the resource attributes.  Evaluating an expression          *)
(* (external) gives any value, nil, an error, or the error of a field       *)
(* fetched from nil.                                                        *)
(****************************************************************************)
EXTENDS Integers, FiniteSets, Sequences, SequencesExt

CONSTANTS
    PlainText,  \* characters that mean nothing to the scanner, blanks apart
    Value,      \* what expressions evaluate to, nil apart
    EmptyMap,   \* those that are maps with nothing in them, nil members apart
    Template,   \* the templates, each with the endpoint's target
    InList,     \* places that are elements of a list
    Attribute   \* places of the resource attributes

Character == PlainText \cup {"blank", "backslash", "backtick"}

ASSUME TextsAreText ==
    /\ PlainText \cap {"blank", "backslash", "backtick"} = {}
    /\ \A t \in Template :
          "target" \in DOMAIN t /\ \A p \in DOMAIN t : t[p] \in Seq(Character)
ASSUME ValuesType == EmptyMap \subseteq Value
ASSUME PlacesDiffer ==
    /\ {"endpoint", "target"} \cap Attribute = {}
    /\ \A t \in Template : "nowhere" \notin DOMAIN t

VARIABLES
    template,   \* template.config and -.ResourceAttributes, by place, and the target
    supported,  \* the exporter's configuration has an endpoint
    unexpanded, \* places of the template still to expand
    place,      \* the one being expanded
    index, exprStart, \* the scanner's; counted from 1, 0 for unset
    output,     \* text written so far: characters, and the values expanded
    expansions,
    resolved,   \* by place: what it has been expanded to
    config,     \* the exporter's configuration
    launch      \* how far startExporter is

scanVars == <<index, exprStart, output, expansions>>
expansionVars == <<template, supported, unexpanded, place, scanVars, resolved, config, launch>>

Nowhere == "nowhere"
Endpoint == "endpoint"
Target == "target"    \* the Target of the discovered endpoint
Nil == [kind |-> "nil"]
Typed(v) == [kind |-> "value", value |-> v]
Text(s) == [kind |-> "text", text |-> s]
InConfig(t) == DOMAIN t \ ({Target} \cup Attribute)
------------------------------------------------------------------------------
BeginTemplate(t) ==
    /\ template = t
    /\ supported \in BOOLEAN
    /\ unexpanded = InConfig(t)
    /\ place = Nowhere
    /\ index = 1 /\ exprStart = 0 /\ output = <<>> /\ expansions = <<>>
    /\ resolved = [p \in {} |-> Nil] /\ config = resolved
    /\ launch = "expanding"

ExpansionInit == \E t \in Template : BeginTemplate(t)

Expand(p) ==
    /\ launch # "failed" /\ place = Nowhere /\ p \in unexpanded
    /\ place' = p
    /\ unexpanded' = unexpanded \ {p}
    /\ index' = 1 /\ exprStart' = 0 /\ output' = <<>> /\ expansions' = <<>>
    /\ UNCHANGED <<template, supported, resolved, config, launch>>

Scanning == place # Nowhere
Here == template[place][index]
At(c) == Scanning /\ index <= Len(template[place]) /\ Here = c
NextIs(c) == index < Len(template[place]) /\ template[place][index + 1] = c
Outside == exprStart = 0

(* An error is the end of it, but for a resource attribute: the exporter    *)
(* runs by then, and does without.                                          *)
Fail ==
    /\ launch' = IF launch = "routing" THEN launch ELSE "failed"
    /\ place' = Nowhere
    /\ UNCHANGED <<template, supported, unexpanded, scanVars, resolved, config>>

Yield(result) ==
    /\ resolved' = [p \in DOMAIN resolved \cup {place} |->
            IF p = place THEN result ELSE resolved[p]]
    /\ place' = Nowhere
    /\ UNCHANGED <<template, supported, unexpanded, scanVars, config, launch>>

(* A character is written if it is outside of expressions. *)
Plain ==
    /\ \/ \E c \in PlainText \cup {"blank"} : At(c)
       \/ At("backslash") /\ index < Len(template[place]) /\ ~NextIs("backtick")
    /\ output' = IF Outside THEN Append(output, Here) ELSE output
    /\ index' = index + 1
    /\ UNCHANGED <<template, supported, unexpanded, place, exprStart, expansions, resolved, config,
                   launch>>

(* An escaped backtick is written inside of expressions, too. *)
EscapedBacktick ==
    /\ At("backslash") /\ NextIs("backtick")
    /\ output' = Append(output, "backtick")
    /\ index' = index + 2
    /\ UNCHANGED <<template, supported, unexpanded, place, exprStart, expansions, resolved, config,
                   launch>>

EndsInEscape == At("backslash") /\ index = Len(template[place]) /\ Fail

OpenExpression ==
    /\ At("backtick") /\ Outside
    /\ exprStart' = index + 1
    /\ index' = index + 1
    /\ UNCHANGED <<template, supported, unexpanded, place, output, expansions, resolved, config,
                   launch>>

IsBlank(first, last) == \A n \in first .. last : template[place][n] = "blank"
Closes == At("backtick") /\ ~Outside /\ ~IsBlank(exprStart, index - 1)

EmptyExpression == At("backtick") /\ ~Outside /\ IsBlank(exprStart, index - 1) /\ Fail

Evaluate(result) ==
    /\ Closes
    /\ expansions' = Append(expansions, result)
    /\ output' = Append(output, result)
    /\ exprStart' = 0
    /\ index' = index + 1
    /\ UNCHANGED <<template, supported, unexpanded, place, resolved, config, launch>>

EvaluationFails == Closes /\ Fail

(* A field of nil makes all of the string nil, whatever else is in it.      *)
FetchFromNil == Closes /\ Yield(Nil)

Scanned == Scanning /\ index > Len(template[place])
Unbalanced == Scanned /\ ~Outside /\ Fail

(* Mutant: the first expansion is returned whatever surrounds it.           *)
TypedIfExpanded == IF expansions # <<>> THEN expansions[1] ELSE Text(output)
Result == IF Len(expansions) = 1 /\ Len(output) = 1 THEN expansions[1] ELSE Text(output)

Finish == Scanned /\ Outside /\ Yield(Result)

(* In a map a place that is nil is left out, and so is a map left empty,    *)
(* whether the template wrote it or an expression gave it; in a list they   *)
(* stay.                                                                    *)
Void == {Nil} \cup {Typed(v) : v \in EmptyMap}
Kept == {p \in InConfig(template) \cap DOMAIN resolved : p \in InList \/ resolved[p] \notin Void}
------------------------------------------------------------------------------
(* Mutant: an endpoint that expands to nil is as good as none. *)
NeverExplicit == FALSE
ExplicitEndpoint == Endpoint \in DOMAIN template

AllExpanded == unexpanded = {} /\ place = Nowhere

(* An endpoint of the template that expands to nothing is not replaced by   *)
(* the discovered one.                                                      *)
Refused == ExplicitEndpoint /\ Endpoint \notin Kept

EndpointEmpty == launch = "expanding" /\ AllExpanded /\ Refused /\ Fail

(* The discovered target is needed if the template has no endpoint.         *)
Discover ==
    /\ launch = "expanding" /\ AllExpanded /\ ~Refused
    /\ launch' = "discovering"
    /\ unexpanded' = IF Endpoint \in Kept THEN {} ELSE {Target}
    /\ UNCHANGED <<template, supported, place, scanVars, resolved, config>>

(* mergeTemplatedAndDiscoveredConfigs: a discovered endpoint is dropped if  *)
(* the exporter has none.  (It would be, too, if the template had one, but  *)
(* startExporter then discovers none.)                                      *)
DiscoveredEndpoint == Target \in DOMAIN resolved /\ resolved[Target] # Nil /\ supported

Merge ==
    /\ launch = "discovering" /\ AllExpanded
    /\ config' = [p \in Kept \cup (IF DiscoveredEndpoint THEN {Endpoint} ELSE {}) |->
            IF p \in Kept THEN resolved[p] ELSE resolved[Target]]
    /\ launch' = "starting"
    /\ UNCHANGED <<template, supported, unexpanded, place, scanVars, resolved>>

(* runner.start, with this configuration, and the expansion of the resource *)
(* attributes once the exporter is filed.                                   *)
StartFails == launch = "starting" /\ Fail

Started ==
    /\ launch = "starting"
    /\ launch' = "routing"
    /\ unexpanded' = DOMAIN template \cap Attribute
    /\ UNCHANGED <<template, supported, place, scanVars, resolved, config>>

(* AddExporter, with the attributes that have been expanded. *)
Registered ==
    /\ launch = "routing" /\ AllExpanded
    /\ launch' = "registered"
    /\ UNCHANGED <<template, supported, unexpanded, place, scanVars, resolved, config>>

ExpansionDone == launch \in {"registered", "failed"} /\ UNCHANGED expansionVars

ExpansionNext ==
    \/ \E p \in DOMAIN template : Expand(p)
    \/ Plain \/ EscapedBacktick \/ EndsInEscape
    \/ OpenExpression \/ EmptyExpression
    \/ \E v \in Value : Evaluate(Typed(v))
    \/ Evaluate(Nil) \/ EvaluationFails \/ FetchFromNil
    \/ Unbalanced \/ Finish
    \/ EndpointEmpty \/ Discover \/ Merge
    \/ StartFails \/ Started \/ Registered
    \/ ExpansionDone

ExpansionSpec == ExpansionInit /\ [][ExpansionNext]_expansionVars
------------------------------------------------------------------------------
(* A string read as it is meant: unescaped backticks come in pairs, each    *)
(* pair around an expression that is not blank.                             *)
Backticks(t) == {n \in 1 .. Len(t) : t[n] = "backtick" /\ (n > 1 => t[n - 1] # "backslash")}
Before(t, n) == Cardinality({b \in Backticks(t) : b < n})
InExpression(t, n) == Before(t, n) % 2 = 1
Ends(t) == {n \in Backticks(t) : InExpression(t, n)}

Wellformed(t) ==
    /\ Cardinality(Backticks(t)) % 2 = 0
    /\ t = <<>> \/ t[Len(t)] # "backslash"
    /\ \A n \in Ends(t) : \E m \in 1 .. n - 1 : Before(t, m) = Before(t, n) /\ t[m] # "blank"

(* What it stands for, given the values of its expressions.  An escaped     *)
(* backtick that is part of an expression is written all the same.          *)
Escapes(t, n) == n < Len(t) /\ t[n] = "backslash" /\ t[n + 1] = "backtick"
Piece(t, n, values) ==
    CASE n \in Ends(t) -> <<values[(Before(t, n) + 1) \div 2]>>
      [] n \in Backticks(t) \ Ends(t) \/ Escapes(t, n) -> <<>>
      [] n \notin Backticks(t) /\ t[n] = "backtick" -> <<"backtick">>
      [] OTHER -> IF InExpression(t, n) THEN <<>> ELSE <<t[n]>>
Substituted(t, values) == FlattenSeq([n \in 1 .. Len(t) |-> Piece(t, n, values)])

IsOneExpression(t) == Backticks(t) = {1, Len(t)} /\ \A n \in 2 .. Len(t) - 1 : t[n] # "backtick"

(* The scanner, which goes by indexes and flags, accepts only well-formed   *)
(* strings, replaces each expression by its own value and leaves the rest;  *)
(* a string that is one expression, and no other, keeps the type of its     *)
(* value (config_expansion.go:19-27).                                       *)
ExpandsBySubstitution ==
    Scanned /\ Outside =>
        LET t == template[place] IN
        /\ Wellformed(t) /\ Len(expansions) = Cardinality(Ends(t))
        /\ Result = IF IsOneExpression(t) THEN expansions[1] ELSE Text(Substituted(t, expansions))

(* An exporter is given the endpoint its template says, whatever it expands *)
(* to, and never a discovered one in its place; one whose template says     *)
(* none gets the discovered target, if it has an endpoint at all            *)
(* (observerhandler.go:193-200, exporter_runner.go:154-156).  Nothing of    *)
(* the template that expanded to nil or to an empty map is left in its      *)
(* configuration but in lists (config_expansion.go:165-167).                *)
EndpointIsOwn ==
    launch \in {"starting", "routing", "registered"} =>
        /\ Endpoint \in DOMAIN template =>
              Endpoint \in DOMAIN config /\ config[Endpoint] = resolved[Endpoint]
        /\ Endpoint \in DOMAIN config \ DOMAIN template =>
              supported /\ config[Endpoint] = resolved[Target]
        /\ \A p \in DOMAIN config \cap DOMAIN template : config[p] \in Void => p \in InList
        /\ \A p \in DOMAIN config \ InList : config[p] # Nil
==============================================================================
