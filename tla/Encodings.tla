----------------------------- MODULE Encodings -----------------------------
(***************************************************************************)
(* Does a schema declare a property?  (generator.go,                      *)
(* schemaDeclaresProperty and schemaValueDeclaresProperty.)  The encodings*)
(* of a request body name properties of its schema, and generation        *)
(* reports one that names a property nobody declares.                     *)
(*                                                                         *)
(* The recursion looks at the properties of an object, follows its $ref   *)
(* and then visits its alternatives (allOf, anyOf, oneOf) in their order. *)
(* It carries the references it has followed through all of its calls,    *)
(* those of sibling alternatives included, and stops at the first object  *)
(* that declares the property or refers to nothing: so its calls are the  *)
(* visits of one walk, and what is still to visit is a stack.             *)
(***************************************************************************)
EXTENDS Sequences, Naturals

CONSTANTS Nodes,       \* the objects that schemas consist of
          Properties,  \* names of properties
          Root,        \* the schema of the body
          None,        \* no $ref
          Elsewhere,   \* a $ref to another document
          Nowhere      \* a local $ref to nothing, or an invalid one

\* A schema that is no object (true, false, none at all) declares and refers to nothing.
Node == [declares : SUBSET Properties, ref : Nodes \cup {None, Elsewhere, Nowhere},
         alternatives : Seq(Nodes)]

ASSUME EncodingsAssumption ==
    /\ Root \in Nodes
    /\ Nodes \cap {None, Elsewhere, Nowhere} = {}
    /\ None \notin {Elsewhere, Nowhere}
    /\ Elsewhere # Nowhere

(***************************************************************************)
(* Objects are nested as JSON nests them: each is held once, and none     *)
(* holds itself.  A reference may go to any of them, but for the body's   *)
(* own, which is no component, and no other object holds that one.         *)
(***************************************************************************)
Documents ==
    {nodes \in [Nodes -> Node] :
        /\ \A m, n \in Nodes :
              /\ nodes[m].ref # Root
              /\ \A i \in DOMAIN nodes[m].alternatives : nodes[m].alternatives[i] # Root
              /\ \A i \in DOMAIN nodes[m].alternatives, j \in DOMAIN nodes[n].alternatives :
                    nodes[m].alternatives[i] = nodes[n].alternatives[j] => <<m, i>> = <<n, j>>
        /\ \A S \in SUBSET Nodes \ {{}} :
              \E n \in S : \A m \in S : \A i \in DOMAIN nodes[m].alternatives :
                  nodes[m].alternatives[i] # n}

VARIABLES schemas,      \* node -> what it consists of
          property,     \* property: the one the walk asks for
          todo,         \* the objects still to visit, the next one first
          visited,      \* history: those the walk has visited
          followed,     \* seen: the targets of the references followed
          inspectable,  \* inspectable: nothing was passed over
          outcome       \* what the walk returned, once it has

walk == <<property, todo, visited, followed, inspectable, outcome>>
encodingsVars == <<schemas, walk>>

Outcomes == {"walking", "declared", "undeclared", "uninspectable", "error"}

EncodingsTypeOK ==
    /\ schemas \in Documents
    /\ property \in Properties
    /\ todo \in Seq(Nodes)
    /\ visited \subseteq Nodes
    /\ followed \subseteq Nodes
    /\ inspectable \in BOOLEAN
    /\ outcome \in Outcomes

\* No walk has begun.
EncodingsInit ==
    /\ schemas \in Documents
    /\ property \in Properties
    /\ todo = <<>>
    /\ visited = {}
    /\ followed = {}
    /\ inspectable = TRUE
    /\ outcome = "error"

-----------------------------------------------------------------------------

Walking == outcome = "walking"

BeginWalk(p) ==
    /\ ~Walking
    /\ property' = p
    /\ todo' = <<Root>>
    /\ visited' = {}
    /\ followed' = {}
    /\ inspectable' = TRUE
    /\ outcome' = "walking"
    /\ UNCHANGED schemas

\* The object to visit next, and what becomes of the walk without it.
Here == schemas[Head(todo)]

AtObject == Walking /\ todo # <<>>

Visit == visited' = visited \cup {Head(todo)}

FindProperty ==
    /\ AtObject
    /\ property \in Here.declares
    /\ Visit
    /\ outcome' = "declared"
    /\ UNCHANGED <<schemas, property, todo, followed, inspectable>>

Searching == AtObject /\ property \notin Here.declares

\* Mutant: the alternatives of an object with a $ref are not visited.
ReferenceInstead(before) == todo' = before \o Tail(todo)

\* What precedes the alternatives of an object, and then the objects left over.
Continue(before) == todo' = before \o Here.alternatives \o Tail(todo)

VisitPlain ==
    /\ Searching
    /\ Here.ref = None
    /\ Visit
    /\ Continue(<<>>)
    /\ UNCHANGED <<schemas, property, followed, inspectable, outcome>>

\* Mutant: what is passed over counts as inspected.
PassOverQuietly == UNCHANGED inspectable

PassOver == inspectable' = FALSE

\* A reference that was followed before is not followed again.
Opaque(ref) == ref = Elsewhere \/ ref \in followed

SkipReference ==
    /\ Searching
    /\ Opaque(Here.ref)
    /\ Visit
    /\ PassOver
    /\ Continue(<<>>)
    /\ UNCHANGED <<schemas, property, followed, outcome>>

FollowReference ==
    /\ Searching
    /\ Here.ref \in Nodes
    /\ ~Opaque(Here.ref)
    /\ Visit
    /\ followed' = followed \cup {Here.ref}
    /\ Continue(<<Here.ref>>)
    /\ UNCHANGED <<schemas, property, inspectable, outcome>>

\* resolveLocalSchemaReference has an error.
FailWalk ==
    /\ Searching
    /\ Here.ref = Nowhere
    /\ Visit
    /\ outcome' = "error"
    /\ UNCHANGED <<schemas, property, todo, followed, inspectable>>

EndWalk ==
    /\ Walking
    /\ todo = <<>>
    /\ outcome' = IF inspectable THEN "undeclared" ELSE "uninspectable"
    /\ UNCHANGED <<schemas, property, todo, visited, followed, inspectable>>

Walk ==
    \/ FindProperty
    \/ VisitPlain
    \/ SkipReference
    \/ FollowReference
    \/ FailWalk
    \/ EndWalk

EncodingsNext == Walk \/ \E p \in Properties : BeginWalk(p)

EncodingsSpec == EncodingsInit /\ [][EncodingsNext]_encodingsVars

-----------------------------------------------------------------------------

Alternatives(n) == {schemas[n].alternatives[i] : i \in DOMAIN schemas[n].alternatives}

\* What an object holds or refers to.
Parts(n) == Alternatives(n) \cup ({schemas[n].ref} \cap Nodes)

\* The objects the body's schema consists of, references included: the least set
\* with its root and the parts of its objects.
Reached == {n \in Nodes :
               \A S \in SUBSET Nodes :
                   Root \in S /\ (\A m \in S : Parts(m) \subseteq S) => n \in S}

(***************************************************************************)
(* The walk finds what is there, whatever circles the references run in:  *)
(* a property is said to be declared only if some object of the schema    *)
(* declares it, and if the walk ends without having found it, none does.  *)
(* So no encoding is reported that names a property of the schema, and a  *)
(* report means that all of the schema was looked at.                     *)
(***************************************************************************)
WalkIsSound ==
    /\ outcome = "declared" => \E n \in Reached : property \in schemas[n].declares
    /\ outcome \in {"undeclared", "uninspectable"} =>
          \A n \in Reached : property \notin schemas[n].declares /\ schemas[n].ref # Nowhere
    /\ outcome = "undeclared" => \A n \in Reached : schemas[n].ref # Elsewhere

Inside(n) == {m \in Nodes : \A S \in SUBSET Nodes :
                 n \in S /\ (\A k \in S : Alternatives(k) \subseteq S) => m \in S}

\* A reference is met twice: in two objects, or in one that is met where it is held
\* and again from elsewhere.
Shared ==
    \/ \E m, n \in Reached :
          m # n /\ schemas[m].ref = schemas[n].ref /\ schemas[m].ref \in Nodes
    \/ \E holder, n, m \in Reached :
          /\ m \in Alternatives(holder)
          /\ schemas[n].ref = m
          /\ \E k \in Inside(m) : schemas[k].ref \in Nodes

(***************************************************************************)
(* An encoding's "key must name a property that can be resolved from the  *)
(* inline or local schema", and "membership in an external schema         *)
(* reference cannot be inspected locally": a property that no object      *)
(* declares is reported unless part of the schema, wherever it is nested  *)
(* and whatever refers to it, is in another document, and never then.     *)
(* This is said of schemas none of whose references is met twice; what    *)
(* becomes of the others is for AcceptedKeepsTheRules of Operation.        *)
(***************************************************************************)
UndeclaredIsReported ==
    outcome \in {"undeclared", "uninspectable"} /\ ~Shared =>
        (outcome = "uninspectable" <=> \E n \in Reached : schemas[n].ref = Elsewhere)
=============================================================================
