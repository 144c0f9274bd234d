----------------------------- MODULE PropertyPath -----------------------------
(***************************************************************************)
(* How router.go reads the two sides of a routing rule: parsePropertyPath  *)
(* and parseBracketedKey, character by character, resolveAttributeName,    *)
(* and the walk of getNestedProperty down an endpoint's properties.        *)
(*                                                                         *)
(* A path is a sequence of characters, of which the parser tells five from *)
(* the rest, and a key is a sequence of characters.  The properties are a  *)
(* tree, given as a function from the keys that lead to a node to the node *)
(* itself: "map" (map[string]any), "flat" (map[string]string), "env"       *)
(* (observer.EndpointEnv), "nil" or a value.                               *)
(***************************************************************************)
EXTENDS Integers, Sequences, SequencesExt

CONSTANTS
    PlainChar,  \* characters that mean nothing to the parser
    Configured, \* what may be configured: a text, and the keys its author means, if known
    PropertyAt  \* the endpoint's properties

Mark == {"dot", "open", "close", "quote", "backslash"}
Char == PlainChar \cup Mark

Containers == {"map", "flat", "env"}

(* How the README has keys written (README.md:113): separated by dots, or   *)
(* in brackets and quotes, with quotes and backslashes escaped.  A path     *)
(* starts with a name, and only a key in brackets may contain a dot or an   *)
(* opening bracket.                                                         *)
Escaped(c) == IF c \in {"quote", "backslash"} THEN <<"backslash", c>> ELSE <<c>>
Escape(k) == FlattenSeq([n \in 1 .. Len(k) |-> Escaped(k[n])])
Spelled(k, inBrackets, first) ==
    IF inBrackets THEN <<"open", "quote">> \o Escape(k) \o <<"quote", "close">>
    ELSE IF first THEN k ELSE <<"dot">> \o k
SpelledPath(ks, inBrackets) ==
    FlattenSeq([n \in 1 .. Len(ks) |-> Spelled(ks[n], inBrackets[n], n = 1)])
IsName(k) == ~Contains(k, "dot") /\ ~Contains(k, "open")
Spells(text, ks, inBrackets) ==
    /\ text = SpelledPath(ks, inBrackets)
    /\ ~inBrackets[1]
    /\ \A n \in 1 .. Len(ks) : ks[n] # <<>> /\ (inBrackets[n] \/ IsName(ks[n]))

ASSUME PathsAreText ==
    /\ PlainChar \cap Mark = {}
    /\ Configured \subseteq [text : Seq(Char), meant : Seq(Seq(Char))]
    /\ \A c \in Configured : c.meant # <<>> =>
          \E b \in [1 .. Len(c.meant) -> BOOLEAN] : Spells(c.text, c.meant, b)
NotLooked == "unlooked"

(* What a node is found under is a node, and holds others. *)
ASSUME PropertiesAreTree ==
    /\ DOMAIN PropertyAt \subseteq Seq(Seq(Char)) /\ <<>> \in DOMAIN PropertyAt
    /\ \A ks \in DOMAIN PropertyAt : PropertyAt[ks] # NotLooked
    /\ \A ks \in DOMAIN PropertyAt : \A n \in 0 .. Len(ks) - 1 :
          /\ SubSeq(ks, 1, n) \in DOMAIN PropertyAt
          /\ PropertyAt[SubSeq(ks, 1, n)] \in Containers

VARIABLES
    use,      \* what is configured: a rule's endpoint_property or its resource_attribute
    path,     \* its text
    meant,    \* the keys it is to be read as; <<>> if that is not known
    at,       \* i, and j in parseBracketedKey, counted from 1
    keys, key, afterDot,
    parse,    \* where the parser is
    depth,    \* how many keys getNestedProperty has followed
    found     \* what it returns

configVars == <<use, path, meant>>
lookVars == <<depth, found>>
pathVars == <<configVars, at, keys, key, afterDot, parse, lookVars>>
------------------------------------------------------------------------------
(* resolveAttributeName takes a name without an opening bracket verbatim.   *)
Verbatim(u, text) == u = "resource_attribute" /\ ~Contains(text, "open")

Use == {"endpoint_property", "resource_attribute"}

PathStart(u, c) ==
    /\ use = u /\ path = c.text /\ meant = c.meant
    /\ at = 1 /\ keys = <<>> /\ key = <<>> /\ afterDot = FALSE
    /\ parse = IF Verbatim(use, path) THEN "verbatim" ELSE "segment"
    /\ depth = 0 /\ found = NotLooked

PathInit == \E u \in Use, c \in Configured : PathStart(u, c)

More == at <= Len(path)
Follows(c) == at < Len(path) /\ path[at + 1] = c
PartOfName == More /\ path[at] \notin {"dot", "open"}

BeginName ==
    /\ parse = "segment" /\ PartOfName
    /\ parse' = "name"
    /\ UNCHANGED <<configVars, at, keys, key, afterDot, lookVars>>

ReadName ==
    /\ parse = "name" /\ PartOfName
    /\ key' = Append(key, path[at])
    /\ at' = at + 1
    /\ UNCHANGED <<configVars, keys, afterDot, parse, lookVars>>

(* A key is through, and `next` is the position after it, a dot being       *)
(* skipped.  Mutant: so is whatever is there.                               *)
AlwaysSkips(next) == next + 1
AfterKey(next) == IF next <= Len(path) /\ path[next] = "dot" THEN next + 1 ELSE next

EndKey(next) ==
    /\ keys' = Append(keys, key)
    /\ key' = <<>>
    /\ afterDot' = (next <= Len(path) /\ path[next] = "dot")
    /\ at' = AfterKey(next)
    /\ parse' = IF next > Len(path) THEN "accepted"
                ELSE IF path[next] = "open" \/ (path[next] = "dot" /\ next < Len(path)) THEN "segment"
                ELSE "refused"
    /\ UNCHANGED <<configVars, lookVars>>

EndName == parse = "name" /\ ~PartOfName /\ EndKey(at)

(* A bracket needs a name before it, and no dot between.  Mutant: a dot may *)
(* precede it.                                                              *)
BracketMayFollowDot == keys # <<>>
BracketAllowed == keys # <<>> /\ ~afterDot

BeginBracket ==
    /\ parse = "segment" /\ More /\ path[at] = "open"
    /\ BracketAllowed /\ Follows("quote")
    /\ parse' = "quoted"
    /\ at' = at + 2
    /\ UNCHANGED <<configVars, keys, key, afterDot, lookVars>>

ReadQuoted ==
    /\ parse = "quoted" /\ More /\ path[at] \notin {"quote", "backslash"}
    /\ key' = Append(key, path[at])
    /\ at' = at + 1
    /\ UNCHANGED <<configVars, keys, afterDot, parse, lookVars>>

ReadEscape ==
    /\ parse = "quoted" /\ More /\ path[at] = "backslash"
    /\ Follows("quote") \/ Follows("backslash")
    /\ key' = Append(key, path[at + 1])
    /\ at' = at + 2
    /\ UNCHANGED <<configVars, keys, afterDot, parse, lookVars>>

EndQuoted ==
    /\ parse = "quoted" /\ More /\ path[at] = "quote"
    /\ Follows("close") /\ key # <<>>
    /\ EndKey(at + 2)

(* Every other early return, on the way: an empty path or key, a bracket    *)
(* out of place or without its quote, an escape, a quote or a bracket that  *)
(* is not ended.                                                            *)
Refuse ==
    /\ \/ parse = "segment" /\ (More => path[at] = "dot")
       \/ parse = "segment" /\ More /\ path[at] = "open" /\ ~(BracketAllowed /\ Follows("quote"))
       \/ parse = "quoted" /\ ~More
       \/ /\ parse = "quoted" /\ More /\ path[at] = "backslash"
          /\ ~(Follows("quote") \/ Follows("backslash"))
       \/ parse = "quoted" /\ More /\ path[at] = "quote" /\ ~(Follows("close") /\ key # <<>>)
    /\ parse' = "refused"
    /\ UNCHANGED <<configVars, at, keys, key, afterDot, lookVars>>
------------------------------------------------------------------------------
(* getNestedProperty.  Looking up a key that is absent gives nil, except    *)
(* that a string map would give "", were its two-value form not used (the   *)
(* mutant).                                                                 *)
Node(n) == PropertyAt[SubSeq(keys, 1, n)]
EmptyIfAbsent(n) ==
    IF SubSeq(keys, 1, n + 1) \in DOMAIN PropertyAt THEN Node(n + 1)
    ELSE IF Node(n) = "flat" THEN "" ELSE "nil"
Child(n) == IF SubSeq(keys, 1, n + 1) \in DOMAIN PropertyAt THEN Node(n + 1) ELSE "nil"

Looking == parse = "accepted" /\ use = "endpoint_property" /\ found = NotLooked

Descend ==
    /\ Looking
    /\ LET child == Child(depth)
           next == depth + 1
       IN /\ depth' = next
          /\ found' = IF next = Len(keys) \/ child \notin Containers
                      THEN IF next < Len(keys) THEN "nil" ELSE child
                      ELSE NotLooked
    /\ UNCHANGED <<configVars, at, keys, key, afterDot, parse>>

PathDone ==
    /\ parse \in {"verbatim", "refused", "accepted"} /\ ~Looking
    /\ UNCHANGED pathVars

PathNext ==
    \/ BeginName \/ ReadName \/ EndName
    \/ BeginBracket \/ ReadQuoted \/ ReadEscape \/ EndQuoted
    \/ Refuse \/ Descend \/ PathDone

PathSpec == PathInit /\ [][PathNext]_pathVars
------------------------------------------------------------------------------
Join(ks) == FlattenSeq([n \in 1 .. Len(ks) |-> IF n = 1 THEN ks[1] ELSE <<"dot">> \o ks[n]])

(* The attribute a resource_attribute names. *)
AttributeName == IF parse = "verbatim" THEN path ELSE Join(keys)

(* The parser's variables keep their types, and it never reads past the end *)
(* of the path.                                                             *)
PathTypeOK ==
    /\ use \in Use
    /\ path \in Seq(Char) /\ meant \in Seq(Seq(Char))
    /\ at \in 1 .. Len(path) + 1
    /\ keys \in Seq(Seq(Char)) /\ key \in Seq(Char)
    /\ afterDot \in BOOLEAN
    /\ parse \in {"verbatim", "segment", "name", "quoted", "accepted", "refused"}
    /\ depth \in 0 .. Len(keys)

(* Keys that are written this way, starting with a name, are read back as   *)
(* they were meant, and what a path is read as is written this way: each    *)
(* accepted path is a spelling of its keys, each refused one of none.  An   *)
(* attribute name means the same in brackets and in dots (router.go:368,    *)
(* 486).                                                                    *)
ReadsAsSpelled ==
    /\ parse = "accepted" =>
          \E b \in [1 .. Len(keys) -> BOOLEAN] : Spells(path, keys, b)
    /\ parse \in {"accepted", "refused", "verbatim"} /\ meant # <<>> =>
          IF use = "endpoint_property" THEN parse = "accepted" /\ keys = meant
          ELSE parse # "refused" /\ AttributeName = Join(meant)

(* What is looked up is found exactly when the tree has a property by those *)
(* keys; an absent label is not taken for an empty one (router.go:518-525). *)
FindsWhatIsNamed ==
    found # NotLooked => found = IF keys \in DOMAIN PropertyAt THEN PropertyAt[keys] ELSE "nil"

(* README.md:312: a rule's endpoint_property can name a resource attribute  *)
(* of the template, which is a property at the top: written as README.md:   *)
(* 113 has it, with a key that contains dots in brackets, it is found.      *)
ResourceAttributeIsRoutable ==
    \A k \in {ks[1] : ks \in DOMAIN PropertyAt \ {<<>>}} :
        /\ <<k>> \in DOMAIN PropertyAt
        /\ use = "endpoint_property" /\ path = SpelledPath(<<k>>, <<Contains(k, "dot")>>)
        => parse # "refused" /\ found \in {NotLooked, PropertyAt[<<k>>]}
==============================================================================
