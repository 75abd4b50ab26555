---------------------------- MODULE MCOperation ----------------------------
(* Operations small enough to make every one of their kind. *)
EXTENDS Operation, TLC

CONSTANTS a, b,      \* parameter components
          s, t,      \* security schemes
          root, u, v,    \* the body's schema and two alternatives of it
          A, w, B    \* two schema components, and an alternative of the first

Param(in, name)    == [in |-> in, name |-> name, schema |-> TRUE]
Bare(in, name)     == [Param(in, name) EXCEPT !.schema = FALSE]
OAuth(scopes)      == [type |-> "oauth2", scopes |-> scopes]
OtherScheme        == [type |-> "other", scopes |-> {}]

Upto(n, S) == UNION {[1 .. k -> S] : k \in 0 .. n}

MCNames == {a, b, s, t}

MCLower == [n \in {"p", "q", "H", "h"} |-> IF n = "H" THEN "h" ELSE n]

ParamChoices ==
    [a |-> {Param("path", "p"), Param("header", "H"), a, b, External, Missing},
     b |-> {Param("path", "p"), Bare("query", "p"), a, External}]

SchemeChoices ==
    [s |-> {OAuth({"x"}), OtherScheme, s, t, External, Missing},
     t |-> {OAuth({}), OAuth({"x"}), s}]

MCConcretes ==
    {Param("path", "p"), Param("header", "H"), Bare("query", "p"),
     OAuth({"x"}), OAuth({}), OtherScheme}

Components(pa, pb, ss, st) ==
    a :> pa @@ b :> pb @@ s :> ss @@ t :> st

SoundComponents == Components(Param("path", "p"), Param("path", "p"), OtherScheme, OtherScheme)

----------------------------------------------------------------------------

MCNodes == {root, u, v, A, w, B}

Object(declares, ref, alternatives) ==
    [declares |-> IF declares THEN Properties ELSE {}, ref |-> ref, alternatives |-> alternatives]

Plain == Object(FALSE, None, <<>>)

NoSchemas ==
    root :> Plain @@ u :> Plain @@ v :> Plain @@ A :> Plain @@ w :> Plain @@ B :> Plain

SchemaGraphs ==
    {root :> Object(FALSE, x[1], <<u, v>>)
     @@ u :> Object(FALSE, x[2], <<>>) @@ v :> Object(FALSE, x[3], <<>>)
     @@ A :> Object(x[4], x[5], x[6]) @@ w :> Object(FALSE, x[9], <<>>)
     @@ B :> Object(x[7], x[8], <<>>) :
       x \in {None, A} \X {None, A, B, Elsewhere} \X {None, A, B, w}
            \X BOOLEAN \X {None, A, B} \X {<<>>, <<w>>}
            \X BOOLEAN \X {None, A, Nowhere} \X {A, B}}

Nothing ==
    [kind |-> "route", path |-> {}, unportable |-> {}, parameters |-> <<>>, security |-> {},
     encodings |-> {}, components |-> SoundComponents, schemas |-> NoSchemas]

\* Inputs that differ in their parameters and in the components those may refer to.
WithParameters(input_, lists) ==
    {[input_ EXCEPT !.parameters = x[1],
                    !.components = Components(x[2], x[3], OtherScheme, OtherScheme)] :
       x \in lists \X ParamChoices.a \X ParamChoices.b}

RouteInputs ==
    UNION {WithParameters([Nothing EXCEPT !.path = path],
                          Upto(2, {Bare("path", "p"), Param("query", "p"), Param("header", "h"),
                                   a, b, Missing})
                          \cup {Bare("path", "p"), a, b} \X {Param("header", "h"), a}
                               \X {Bare("path", "p"), a, b}) : path \in {{}, {"p"}}}
    \cup UNION {WithParameters([Nothing EXCEPT !.path = {"p", "q"}, !.unportable = {name}],
                               Upto(2, {Bare("path", "p"), Param("path", "q"),
                                        Param("path", "p"), a})) : name \in {"p", "q"}}

WebhookInputs ==
    WithParameters([Nothing EXCEPT !.kind = "webhook"],
                   Upto(2, {Param("path", "p"), Param("query", "p"), Bare("query", "q"),
                            a, External}))

MCRequirements == [scheme : {s, t, Missing}, scopes : SUBSET {"x"}]

SecurityInputs ==
    {[Nothing EXCEPT !.security = x[1],
                     !.components = Components(Param("path", "p"), Param("path", "p"), x[2], x[3])] :
       x \in {r \in SUBSET MCRequirements : Cardinality(r) <= 2}
            \X SchemeChoices.s \X SchemeChoices.t}

BodyInputs ==
    {[Nothing EXCEPT !.encodings = Properties, !.schemas = g] : g \in SchemaGraphs}

MCInputs == RouteInputs \cup WebhookInputs \cup SecurityInputs \cup BodyInputs

\* Both alternatives of the body's schema refer to one component, which does not declare
\* the encoded property; the webhook's parameter refers to a path parameter.
SharedBase ==
    [NoSchemas EXCEPT ![root].alternatives = <<u, v>>, ![u].ref = A, ![v].ref = A]

MCRuleInputs ==
    {[Nothing EXCEPT !.kind = "webhook", !.parameters = <<a>>, !.encodings = Properties,
                     !.schemas = SharedBase]}
=============================================================================
