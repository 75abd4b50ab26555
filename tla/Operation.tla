----------------------------- MODULE Operation -----------------------------
(***************************************************************************)
(* The making of one operation (generator.go, buildOperation, and for a   *)
(* webhook buildWebhook and generateWebhooks) and the check of the        *)
(* components it refers to: the documented parameters are merged with     *)
(* those of the route's path, parameters and security requirements are    *)
(* checked against the components, and then the components themselves,    *)
(* with the encodings of a request body.  References is how a component   *)
(* reference is resolved, Encodings how a schema is searched; their steps *)
(* are steps of this.                                                      *)
(***************************************************************************)
EXTENDS References, Encodings, FiniteSets

CONSTANTS Texts,        \* names of parameters
          Lower,        \* strings.ToLower
          Scopes,       \* OAuth scopes
          SchemeNames,  \* the components that are security schemes; the others are parameters
          Inputs        \* what there is to make an operation of

Locations == {"path", "query", "header", "cookie"}

\* A parameter that is not a reference, with a schema or without one.
Declarations == [in : Locations, name : Texts, schema : BOOLEAN]

\* A security scheme that is not a reference, with the scopes of all its flows.
Schemes == [type : {"oauth2", "other"}, scopes : SUBSET Scopes]

Reference == Names \cup {External, Missing}

Requirement == [scheme : SchemeNames \cup {Missing}, scopes : SUBSET Scopes]

ASSUME OperationAssumption ==
    /\ Lower \in [Texts -> Texts]
    /\ Concretes \subseteq Declarations \cup Schemes
    /\ Declarations \cap (Reference \cup Schemes) = {}
    /\ Schemes \cap Reference = {}
    /\ SchemeNames \subseteq Names
    /\ \A i \in Inputs :
          /\ i.kind \in {"route", "webhook"}
          /\ i.path \subseteq Texts
          /\ i.unportable \subseteq i.path
          /\ i.parameters \in Seq(Declarations \cup (Reference \ SchemeNames))
          /\ i.security \subseteq Requirement
          /\ i.encodings \subseteq Properties
          /\ i.components \in [Names -> Values]
          /\ \A n \in Names : i.components[n] \in
                IF n \in SchemeNames THEN Schemes \cup SchemeNames \cup {External, Missing}
                ELSE Declarations \cup (Reference \ SchemeNames)
          /\ i.schemas \in Documents

VARIABLES input,    \* the route or webhook, its draft and the components
          phase,    \* what comes next
          next,     \* the parameter at hand
          inline,   \* byName: the inline parameters that came first with their key
          named,    \* referencesByName: likewise of the references
          keys,     \* referenceKeys: what the references are known to declare
          result,   \* the operation's parameters
          encodings,  \* the encodings still to check
          security,   \* the security requirements still to check
          asked,      \* the one being checked
          issues      \* issues

checking == <<encodings, security, asked>>

operationVars == <<referencesVars, encodingsVars, input, phase, next, inline, named, keys,
                   result, checking, issues>>

merging == <<next, inline, named, keys, result>>

Phases == {"register", "collect", "resolve", "parameters", "security", "scheme", "body", "walk", "done"}

Given == DOMAIN input.parameters

\* parameterIdentity: the names of headers are the same in any case.
Identity(d) == <<d.in, IF d.in = "header" THEN Lower[d.name] ELSE d.name>>

Keys == Locations \X Texts

PathKey(name) == <<"path", name>>

NoKey == <<>>

\* An entry of the operation's parameters: the loop that appended it and the given
\* parameter it is, or the name of the path it was made for.
Entries == ({"path", "inline", "reference"} \X Given) \cup ({"inferred"} \X Texts)

OperationTypeOK ==
    /\ ReferencesTypeOK
    /\ EncodingsTypeOK
    /\ phase \in Phases
    /\ next \in 1 .. (Len(input.parameters) + 1)
    /\ inline \subseteq Given
    /\ named \subseteq Given
    /\ keys \in [Given -> Keys \cup {NoKey}]
    /\ result \subseteq Entries
    /\ encodings \subseteq Properties
    /\ security \cup asked \subseteq Requirement

OperationInit ==
    /\ input \in Inputs
    /\ components = input.components
    /\ schemas = input.schemas
    /\ ReferencesInit
    /\ EncodingsInit
    /\ phase = IF input.kind = "webhook" THEN "register" ELSE "collect"
    /\ next = 1
    /\ inline = {}
    /\ named = {}
    /\ keys = [i \in Given |-> NoKey]
    /\ result = {}
    /\ encodings = input.encodings
    /\ security = input.security
    /\ asked = {}
    /\ issues = {}

-----------------------------------------------------------------------------
(* A webhook has no path: its parameters are taken as they are. *)

IsInline(i) == input.parameters[i] \in Declarations

\* buildWebhook looks at the parameters themselves, and not at what they refer to.
InlinePath(i) == IsInline(i) /\ input.parameters[i].in = "path"

RefuseWebhook ==
    /\ phase = "register"
    /\ \E i \in Given : InlinePath(i)
    /\ issues' = {<<"refused">>}
    /\ phase' = "done"
    /\ UNCHANGED <<referencesVars, encodingsVars, input, merging, checking>>

Loop(i) == IF IsInline(i) THEN "inline" ELSE "reference"

TakeWebhook ==
    /\ phase = "register"
    /\ \A i \in Given : ~InlinePath(i)
    /\ result' = {<<Loop(i), i>> : i \in Given}
    /\ phase' = "parameters"
    /\ UNCHANGED <<referencesVars, encodingsVars, input, next, inline, named, keys, checking,
                   issues>>

-----------------------------------------------------------------------------
(* mergePathParameters: the given parameters are sorted by what they declare. *)

Collecting == phase = "collect" /\ next \in Given

\* Mutant: only the parameter before is compared.
TwiceInARow(i) == i > 1 /\ IsInline(i - 1) /\ Identity(input.parameters[i - 1]) = Identity(input.parameters[i])

InlineTwice(i) == \E j \in inline : Identity(input.parameters[j]) = Identity(input.parameters[i])

TakeInline ==
    /\ Collecting
    /\ IsInline(next)
    /\ IF InlineTwice(next)
       THEN /\ issues' = issues \cup {<<"twice", Identity(input.parameters[next])>>}
            /\ UNCHANGED inline
       ELSE /\ inline' = inline \cup {next}
            /\ UNCHANGED issues
    /\ next' = next + 1
    /\ UNCHANGED <<referencesVars, encodingsVars, input, phase, named, keys, result, checking>>

AskReference ==
    /\ Collecting
    /\ ~IsInline(next)
    /\ Begin(input.parameters[next])
    /\ phase' = "resolve"
    /\ UNCHANGED <<encodingsVars, input, merging, checking, issues>>

\* A reference to something else than a parameter, or unknown, has no key.
KnownKey == IF verdict = "known" /\ current \in Declarations THEN Identity(current) ELSE NoKey

\* Mutant: what references declare is not compared.
NeverTwice(key) == FALSE

ReferenceTwice(key) == \E j \in named : keys[j] = key

NoteReference ==
    /\ phase = "resolve"
    /\ ~Running
    /\ keys' = [keys EXCEPT ![next] = KnownKey]
    /\ IF KnownKey # NoKey /\ ReferenceTwice(KnownKey)
       THEN issues' = issues \cup {<<"twice", KnownKey>>}
       ELSE UNCHANGED issues
    /\ named' = IF KnownKey = NoKey \/ ReferenceTwice(KnownKey) THEN named ELSE named \cup {next}
    /\ next' = next + 1
    /\ phase' = "collect"
    /\ UNCHANGED <<referencesVars, encodingsVars, input, inline, result, checking>>

\* The given parameter an inline or a named reference provides for a key, if any.
InlineOf(key) == {i \in inline : Identity(input.parameters[i]) = key}
NamedOf(key)  == {i \in named : keys[i] = key}

\* The three loops, one after the other: the names of the path, ...
PathEntry(name) ==
    IF InlineOf(PathKey(name)) # {} THEN {"path"} \X InlineOf(PathKey(name))
    ELSE IF NamedOf(PathKey(name)) # {} THEN {"path"} \X NamedOf(PathKey(name))
    ELSE {<<"inferred", name>>}

PathEntries == UNION {PathEntry(name) : name \in input.path}

\* ... the inline parameters elsewhere than in the path ...
InlineEntries == {"inline"} \X {i \in Given : IsInline(i) /\ ~InlinePath(i)}

InPath(key) == key # NoKey /\ key[1] = "path"

\* Mutant: a reference is appended though a name of the path has used it.
UsedNever == {}

Used == {i \in Given : <<"path", i>> \in PathEntries}

StrayReference(i) == InPath(keys[i]) /\ keys[i][2] \notin input.path

\* ... and the references that no name of the path has used.
ReferenceEntries ==
    {"reference"} \X {i \in Given \ Used : ~IsInline(i) /\ ~StrayReference(i)}

Strays ==
    {keys[i] : i \in {j \in Given \ Used : ~IsInline(j) /\ StrayReference(j)}}
    \cup {Identity(input.parameters[i]) :
              i \in {j \in Given : InlinePath(j) /\ input.parameters[j].name \notin input.path}}

Both == {keys[i] : i \in {j \in named : InlineOf(keys[j]) # {}}}

\* The names whose entry gets its schema from the route, and whose constraint is a pattern
\* that JSON Schema has no portable form of.
Uninferable ==
    {name \in input.unportable :
        \/ <<"inferred", name>> \in PathEntries
        \/ \E i \in InlineOf(PathKey(name)) : ~input.parameters[i].schema}

Merge ==
    /\ phase = "collect"
    /\ next \notin Given
    /\ result' = PathEntries \cup InlineEntries \cup ReferenceEntries
    /\ issues' = issues \cup ({"both"} \X Both) \cup ({"stray"} \X Strays)
                        \cup ({"schema"} \X Uninferable)
    /\ phase' = "parameters"
    /\ UNCHANGED <<referencesVars, encodingsVars, input, next, inline, named, keys, checking>>

-----------------------------------------------------------------------------
(***************************************************************************)
(* validateOperation.  A reference has to refer to a component there is,  *)
(* and any other parameter needs a schema, which the names of the path    *)
(* were given.                                                             *)
(***************************************************************************)
Written == {i \in Given : \E loop \in {"path", "inline", "reference"} : <<loop, i>> \in result}

ParameterIssues ==
    {<<"missing", i>> : i \in {j \in Written : input.parameters[j] = Missing}}
    \cup {<<"schema", i>> : i \in {j \in Given : /\ <<"inline", j>> \in result
                                             /\ ~input.parameters[j].schema}}

ValidateParameters ==
    /\ phase = "parameters"
    /\ issues' = issues \cup ParameterIssues
    /\ phase' = "security"
    /\ UNCHANGED <<referencesVars, encodingsVars, input, merging, checking>>

(***************************************************************************)
(* The security requirements, in the order of a map: the scheme has to    *)
(* exist, and if it is known what it refers to, and that has scopes, the  *)
(* required ones have to be among them.                                    *)
(***************************************************************************)
MissScheme(r) ==
    /\ phase = "security"
    /\ r \in security
    /\ r.scheme = Missing
    /\ security' = security \ {r}
    /\ issues' = issues \cup {<<"scheme", r>>}
    /\ UNCHANGED <<referencesVars, encodingsVars, input, merging, phase, encodings, asked>>

AskScheme(r) ==
    /\ phase = "security"
    /\ r \in security
    /\ r.scheme # Missing
    /\ Begin(components[r.scheme])
    /\ security' = security \ {r}
    /\ asked' = {r}
    /\ phase' = "scheme"
    /\ UNCHANGED <<encodingsVars, input, merging, encodings, issues>>

\* Mutant: the scopes of a scheme that is a reference are not checked.
UndeclaredIfDirect ==
    IF verdict = "known" /\ seen = {} /\ current.type = "oauth2"
    THEN {<<"scope", r>> : r \in {q \in asked : ~(q.scopes \subseteq current.scopes)}} ELSE {}

UndeclaredScopes ==
    IF verdict = "known" /\ current.type = "oauth2"
    THEN {<<"scope", r>> : r \in {q \in asked : ~(q.scopes \subseteq current.scopes)}} ELSE {}

NoteScheme ==
    /\ phase = "scheme"
    /\ ~Running
    /\ issues' = issues \cup UndeclaredScopes
    /\ asked' = {}
    /\ phase' = "security"
    /\ UNCHANGED <<referencesVars, encodingsVars, input, merging, encodings, security>>

-----------------------------------------------------------------------------
(* validateComponents, *)

\* A component that is no parameter without a schema and refers to one there is.
\* What a circle of references leads to is not asked.
ComponentIssues ==
    {<<"missing", n>> : n \in {m \in Names : components[m] = Missing}}
    \cup {<<"schema", n>> : n \in {m \in Names : /\ components[m] \in Declarations
                                              /\ ~components[m].schema}}
    \cup {<<"schema", n>> : n \in {m \in Nodes : schemas[m].ref = Nowhere}}

ValidateComponents ==
    /\ phase = "security"
    /\ security = {}
    /\ issues' = issues \cup ComponentIssues
    /\ phase' = "body"
    /\ UNCHANGED <<referencesVars, encodingsVars, input, merging, checking>>

\* and validateEncodings of a request body that is a component.
AskProperty(p) ==
    /\ phase = "body"
    /\ p \in encodings
    /\ BeginWalk(p)
    /\ encodings' = encodings \ {p}
    /\ phase' = "walk"
    /\ UNCHANGED <<referencesVars, input, merging, security, asked, issues>>

\* Mutant: what could not be inspected is reported as well.
ReportedIfUnsure(result_) == result_ # "declared"

Reported(result_) == result_ \in {"undeclared", "error"}

NoteProperty ==
    /\ phase = "walk"
    /\ ~Walking
    /\ issues' = issues \cup (IF Reported(outcome) THEN {<<"property", property>>} ELSE {})
    /\ phase' = "body"
    /\ UNCHANGED <<referencesVars, encodingsVars, input, merging, checking>>

Finish ==
    /\ phase = "body"
    /\ encodings = {}
    /\ phase' = "done"
    /\ UNCHANGED <<referencesVars, encodingsVars, input, merging, checking, issues>>

\* The recursions, while somebody waits for what they return.
Recur ==
    \/ /\ Resolve
       /\ UNCHANGED encodingsVars
    \/ /\ Walk
       /\ UNCHANGED referencesVars

OperationNext ==
    \/ RefuseWebhook
    \/ TakeWebhook
    \/ TakeInline
    \/ AskReference
    \/ NoteReference
    \/ Merge
    \/ ValidateParameters
    \/ \E r \in Requirement : MissScheme(r) \/ AskScheme(r)
    \/ NoteScheme
    \/ ValidateComponents
    \/ \E p \in Properties : AskProperty(p)
    \/ NoteProperty
    \/ Finish
    \/ Recur /\ UNCHANGED <<input, phase, merging, checking, issues>>

OperationSpec == OperationInit /\ [][OperationNext]_operationVars

\* The generation runs until it is done.
FairOperationSpec == OperationSpec /\ WF_operationVars(OperationNext)

-----------------------------------------------------------------------------

Done == phase = "done"

Accepted == Done /\ issues = {}

\* What an entry of the result declares, whichever way: nothing if that is unknown.
Declares(value) == {Identity(d) : d \in {c \in Concretes \cup {value} :
                                            c \in Declarations /\ LeadsTo(value, c)}}

DeclaredBy(entry) ==
    IF entry[1] = "inferred" THEN {PathKey(entry[2])} ELSE Declares(input.parameters[entry[2]])

(***************************************************************************)
(* The parameters of a route's operation fit its path: every name of the  *)
(* path is declared by exactly one of them, inline, through any chain of  *)
(* references or inferred; none declares another path parameter; no two   *)
(* declare the same one; and every given parameter is written, once.      *)
(* References that lead nowhere or to another document declare nothing    *)
(* that generation could know of.                                         *)
(***************************************************************************)
ParametersFitThePath ==
    Accepted /\ input.kind = "route" =>
        /\ \A name \in input.path : \E e \in result : PathKey(name) \in DeclaredBy(e)
        /\ \A e \in result : \A key \in DeclaredBy(e) : key[1] = "path" => key[2] \in input.path
        /\ \A e, f \in result : DeclaredBy(e) \cap DeclaredBy(f) # {} => e = f
        /\ \A i \in Given : \E loop \in {"path", "inline", "reference"} :
              \A other \in {"path", "inline", "reference"} :
                 <<other, i>> \in result <=> other = loop

(***************************************************************************)
(* What an operation has to be like, by its own documentation and the     *)
(* components alone.                                                       *)
(***************************************************************************)
Distinct ==
    \A i, j \in Given :
        Declares(input.parameters[i]) \cap Declares(input.parameters[j]) # {} => i = j

OnThePath ==
    \A i \in Given : \A key \in Declares(input.parameters[i]) :
        key[1] = "path" => key[2] \in input.path

\* A name of the path whose schema the route has to provide.
Needy(name) ==
    ~\E i \in Given : /\ PathKey(name) \in Declares(input.parameters[i])
                      /\ IsInline(i) => input.parameters[i].schema

RouteIsSound ==
    /\ Distinct
    /\ OnThePath
    /\ \A name \in input.unportable : ~Needy(name)
    /\ \A i \in Given : IsInline(i) /\ ~InlinePath(i) => input.parameters[i].schema

NoPathParameter ==
    \A i \in Given : \A key \in Declares(input.parameters[i]) : key[1] # "path"

WebhookIsSound ==
    /\ Distinct
    /\ NoPathParameter
    /\ \A i \in Given : IsInline(i) => input.parameters[i].schema

RequirementIsSound(r) ==
    /\ r.scheme # Missing
    /\ \A s \in Concretes \cap Schemes :
          LeadsTo(r.scheme, s) /\ s.type = "oauth2" => r.scopes \subseteq s.scopes

\* The encoded properties are declared, as far as the schemas at hand can tell.
EncodingsAreSound ==
    \A p \in input.encodings :
        \E n \in Reached : p \in schemas[n].declares \/ schemas[n].ref = Elsewhere

Sound ==
    /\ IF input.kind = "route" THEN RouteIsSound ELSE WebhookIsSound
    /\ \A i \in Given : input.parameters[i] # Missing
    /\ \A r \in input.security : RequirementIsSound(r)
    /\ ComponentIssues = {}
    /\ EncodingsAreSound

\* Nothing of what generation does not look at: the parameters a webhook refers to and
\* those it repeats, and encodings over references that are met twice.
InSight ==
    /\ input.kind = "webhook" => Distinct /\ \A i \in Given : IsInline(i)
    /\ input.encodings # {} => ~Shared

(***************************************************************************)
(* A sound operation is accepted, whatever chains and circles its         *)
(* references run in and in whatever order its requirements come.  And    *)
(* what is accepted is sound, if all of it is in sight: for a route that  *)
(* is every duplicate and every chain of references to parameters and     *)
(* schemes.  A webhook's references and duplicates are not in sight, nor  *)
(* are encodings over shared references: AcceptedKeepsTheRules.            *)
(***************************************************************************)
AcceptanceIsExact ==
    Done => /\ Sound => issues = {}
            /\ issues = {} /\ InSight => Sound

(***************************************************************************)
(* What the docs say of every accepted operation, in sight or not: "path  *)
(* parameters are refused" in a webhook, which "has no path parameters",  *)
(* and the key of an encoding "must name a property that can be resolved  *)
(* from the inline or local schema", an external reference excepted.       *)
(***************************************************************************)
AcceptedKeepsTheRules ==
    Accepted => /\ input.kind = "webhook" => NoPathParameter
                /\ EncodingsAreSound

(***************************************************************************)
(* Every generation of an operation comes to its end, whatever circles the*)
(* references of parameters, schemes and schemas run in.                  *)
(***************************************************************************)
EveryOperationEnds == <>Done
=============================================================================
