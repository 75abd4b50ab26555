--------------------------- MODULE MCModelSchemas ---------------------------
(***************************************************************************)
(* Type graphs of four types: structs that embed, contain and point to    *)
(* each other, and leaves with every kind and tag.                         *)
(***************************************************************************)
EXTENDS ModelSchemas, TLC

CONSTANTS A, B, C, S

Type(kind, elem) == [kind |-> kind, elem |-> elem, textKeys |-> TRUE, fields |-> <<>>]

Struct(fields) == [kind |-> "struct", elem |-> NilType, textKeys |-> TRUE, fields |-> fields]

Plain(t, name) == [property |-> name, type |-> t, embedded |-> FALSE, exported |-> TRUE,
                   skipped |-> FALSE, optional |-> FALSE, unknown |-> FALSE, enum |-> "none"]

Embedded(t) == [Plain(t, "x") EXCEPT !.embedded = TRUE]

Wrappers(types) == {Type(kind, t) : kind \in {"pointer", "list"}, t \in types}

\* What Go allows: no struct contains itself by value, ...
ByValue(types, t) ==
    CASE types[t].kind = "struct" -> {types[t].fields[i].type : i \in DOMAIN types[t].fields}
      [] types[t].kind = "array"  -> {types[t].elem}
      [] OTHER                    -> {}

Sound(types) ==
    \E rank \in [{A, B, C, S} -> 0 .. 3] :
        \A t \in {A, B, C, S} : \A u \in ByValue(types, t) : rank[u] < rank[t]

\* ... and what is embedded is a type or a pointer to one that is neither, each once.
InnerOf(types, f) == IF types[f.type].kind = "pointer" THEN types[f.type].elem ELSE f.type

Embeddable(types) ==
    \A t \in {A, B, C, S} :
        LET fields == types[t].fields
            embedded == {i \in DOMAIN fields : fields[i].embedded}
        IN  /\ \A i \in embedded :
                  types[fields[i].type].kind = "pointer"
                     => types[InnerOf(types, fields[i])].kind \notin {"pointer", "any"}
            /\ \A i, j \in embedded :
                  InnerOf(types, fields[i]) = InnerOf(types, fields[j]) => i = j

\* Structures: A has two fields, B and C wrap or contain the others.
Pairs == {<<f, g>> : f \in {Plain(t, "p") : t \in {B, C}} \cup {Embedded(t) : t \in {B, C}},
                     g \in {Plain(t, n) : t \in {A, B, C}, n \in {"p", "q"}}
                              \cup {Embedded(t) : t \in {B, C}}}

BShapes == Wrappers({A, B, C})
              \cup {Struct(<<f>>) : f \in {Plain(t, "p") : t \in {A, B, C, S}}
                                       \cup {Embedded(t) : t \in {A, C}}
                                       \cup {[Plain(S, "q") EXCEPT !.optional = TRUE]}}

CShapes == Wrappers({A, B})
              \cup {Struct(<<f>>) : f \in {Plain(S, "r"), Plain(S, "p"), Plain(B, "q"), Embedded(B)}}

Graph(a, b, c, s) == (A :> a @@ B :> b @@ C :> c @@ S :> s)

Structures == {g \in {Graph(Struct(f), b, c, Type("string", NilType)) :
                         f \in Pairs, b \in BShapes, c \in CShapes} : Sound(g) /\ Embeddable(g)}

\* Leaves: a field of A with every tag, of every kind of B, which may have a C, and that an S.
Tagged ==
    {[Plain(B, "p") EXCEPT !.enum = e] : e \in {"none", "texts", "integers"}}
       \cup {[Plain(B, "p") EXCEPT !.unknown = TRUE], [Plain(B, "p") EXCEPT !.exported = FALSE],
             [Plain(B, "p") EXCEPT !.skipped = TRUE], Embedded(B)}

Leaf == {Type(kind, NilType) : kind \in {"time", "any", "string", "integer", "other", "none"}}

Elements(t) == {Type(kind, t) : kind \in {"pointer", "list", "array", "map"}}
                  \cup {[Type("map", t) EXCEPT !.textKeys = FALSE]}

Leaves == {g \in {Graph(Struct(<<f>>), b, c, s) :
                     f \in Tagged, b \in Leaf \cup Elements(C),
                     c \in Leaf \cup Elements(S), s \in {Type("byte", NilType)}} :
              Sound(g) /\ Embeddable(g)}

\* One model, two, in either order, or a list that is not one.
Single(t) == [name |-> "A", type |-> t]

Lists == {<<Single(A)>>, <<Single(B), [name |-> "B", type |-> A]>>,
          <<Single(A), [name |-> "C", type |-> C]>>}

Bad == {<<Single(NilType)>>, <<[name |-> "no name", type |-> A]>>,
        <<Single(A), [name |-> "B", type |-> A]>>, <<Single(A), Single(B)>>}

MCInputs == [go : Structures \cup Leaves, models : Lists]
               \cup [go : {CHOOSE g \in Structures : TRUE}, models : Bad]

\* type C map[int]A; type A struct{ P B }; type B struct{ *B; Q C }
Unsaid == Graph(Struct(<<Plain(B, "p")>>), Struct(<<Embedded(S), Plain(C, "q")>>),
                [Type("map", A) EXCEPT !.textKeys = FALSE], Type("pointer", B))

MCUnsaidInputs == {[go |-> Unsaid, models |-> <<[name |-> "C", type |-> C], Single(A)>>]}
=============================================================================
