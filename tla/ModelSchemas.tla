---------------------------- MODULE ModelSchemas ----------------------------
(***************************************************************************)
(* SchemasFromModels (models.go): schema components derived from Go types. *)
(*                                                                         *)
(* The recursion of deriver is a stack of frames, one for each call of    *)
(* of, object or fields in progress and for what is left to do when the   *)
(* calls above it have returned.                                           *)
(***************************************************************************)
EXTENDS Naturals, Sequences, FiniteSets

CONSTANTS Types,          \* Go types
          NilType,
          Names,          \* valid component names
          Properties,     \* names of JSON properties
          Items, Values,  \* the way into an array's items, a map's values
          Inputs,         \* the types in sight and the models to derive
          MaxDepth        \* bound: what a goroutine's stack holds

Kinds == {"pointer", "time", "any", "string", "integer", "byte", "other", "list", "array",
          "map", "struct", "none"}

(***************************************************************************)
(* A struct field: the property its name or json tag makes, whether it is *)
(* embedded without a name of its own, and its tags.  An enum tag lists   *)
(* texts, or texts that are all integers.                                  *)
(***************************************************************************)
Field == [property : Properties, type : Types, embedded : BOOLEAN, exported : BOOLEAN,
          skipped : BOOLEAN, optional : BOOLEAN, unknown : BOOLEAN,
          enum : {"none", "texts", "integers"}]

\* "any" is an interface or json.RawMessage, "byte" uint8, "other" a bool or a float,
\* "none" what JSON Schema cannot say.
GoType == [kind : Kinds, elem : Types \cup {NilType}, textKeys : BOOLEAN, fields : Seq(Field)]

Model == [name : STRING, type : Types \cup {NilType}]

ASSUME ModelSchemasAssumption ==
    /\ NilType \notin Types
    /\ Items \notin Properties /\ Values \notin Properties /\ Items # Values
    /\ Names \subseteq STRING
    /\ Inputs \subseteq [go : [Types -> GoType], models : Seq(Model)]
    /\ \A input \in Inputs, t \in Types :
          input.go[t].kind \in {"pointer", "list", "array", "map"} => input.go[t].elem \in Types
    /\ MaxDepth \in Nat

VARIABLES
    input,
    at,        \* where SchemasFromModels is
    index,     \* the model under way
    stack,     \* the calls of deriver, the innermost last
    inline,    \* deriver.inline
    seen,      \* the properties of the objects under way
    nodes,     \* the schema under way: path -> node
    required,  \* the paths of the required properties
    out        \* name -> schema

vars == <<input, at, index, stack, inline, seen, nodes, required, out>>

go == input.go
models == input.models
Step == Properties \cup {Items, Values}

\* "of" is not in the code: the type the node describes.  "repeats": its enum has null twice.
Node == [kind : {"ref", "any", "string", "integer", "other", "array", "object"},
         of : Types, null : BOOLEAN, enum : BOOLEAN, repeats : BOOLEAN]

OfFrame(t, enum, path) == [do |-> "of", type |-> t, enum |-> enum, path |-> path]
FieldsFrame(t, i, path) == [do |-> "fields", type |-> t, next |-> i, path |-> path]
CloseFrame(t)       == [do |-> "close", type |-> t]
NullableFrame(path) == [do |-> "nullable", path |-> path]
ElementsFrame(enum) == [do |-> "elements", enum |-> enum]

Frame ==
    [do : {"of"}, type : Types, enum : {"none", "texts", "integers"}, path : Seq(Step)]
    \cup [do : {"fields"}, type : Types, next : Nat \ {0}, path : Seq(Step)]
    \cup [do : {"close"}, type : Types]
    \cup [do : {"nullable"}, path : Seq(Step)]
    \cup [do : {"elements"}, enum : {"none", "texts", "integers"}]

ModelSchemasTypeOK ==
    /\ input \in Inputs
    /\ at \in {"names", "model", "derive", "done", "refused", "overflow"}
    /\ index \in 1 .. Len(models) + 1
    /\ at = "derive" => index <= Len(models)
    /\ stack \in Seq(Frame)
    /\ inline \subseteq Types
    /\ seen \subseteq Seq(Step) /\ required \subseteq Seq(Step)
    /\ DOMAIN nodes \subseteq Seq(Step) /\ \A p \in DOMAIN nodes : nodes[p] \in Node
    /\ DOMAIN out \subseteq Names

Empty == [p \in {} |-> p]

ModelSchemasInit ==
    /\ input \in Inputs
    /\ at = "names"
    /\ index = 1
    /\ stack = <<>>
    /\ inline = {} /\ seen = {} /\ required = {}
    /\ nodes = Empty /\ out = Empty

-----------------------------------------------------------------------------
(* SchemasFromModels *)

deriver == <<stack, inline, seen, nodes, required>>

\* An error: nothing is returned but it.
Refuse ==
    /\ at' = "refused"
    /\ stack' = <<>> /\ inline' = {} /\ seen' = {} /\ required' = {}
    /\ nodes' = Empty /\ out' = Empty
    /\ UNCHANGED <<input, index>>

BadModels ==
    \E i \in DOMAIN models :
        \/ models[i].type = NilType
        \/ models[i].name \notin Names
        \/ \E j \in DOMAIN models : j < i /\ models[j].type = models[i].type

ReadNames ==
    /\ at = "names"
    /\ \/ BadModels /\ Refuse
       \/ /\ ~BadModels
          /\ at' = "model"
          /\ UNCHANGED <<input, index, deriver, out>>

\* What deriver.names holds.
Named(t) == \E i \in DOMAIN models : models[i].type = t

Written(kind, t) ==
    [kind |-> kind, of |-> t, null |-> FALSE, enum |-> FALSE, repeats |-> FALSE]

Put(path, node) ==
    nodes' = [p \in DOMAIN nodes \cup {path} |-> IF p = path THEN node ELSE nodes[p]]

\* root: a struct is written out, anything else is derived like a value.
BeginModel ==
    /\ at = "model"
    /\ index <= Len(models)
    /\ LET model == models[index]
       IN  \/ model.name \in DOMAIN out /\ Refuse
           \/ /\ model.name \notin DOMAIN out
              /\ at' = "derive"
              /\ \/ /\ go[model.type].kind = "struct"
                    /\ stack' = <<CloseFrame(model.type), FieldsFrame(model.type, 1, <<>>)>>
                    /\ inline' = {model.type}
                    /\ nodes' = [p \in {<<>>} |-> Written("object", model.type)]
                 \/ /\ go[model.type].kind # "struct"
                    /\ stack' = <<OfFrame(model.type, "none", <<>>)>>
                    /\ inline' = {}
                    /\ nodes' = Empty
              /\ seen' = {} /\ required' = {}
              /\ UNCHANGED <<input, index, out>>

\* The schema is encoded, validated and stored; values of an enum must differ.
StoreModel ==
    /\ at = "derive"
    /\ stack = <<>>
    /\ \/ (\E p \in DOMAIN nodes : nodes[p].repeats) /\ Refuse
       \/ /\ \A p \in DOMAIN nodes : ~nodes[p].repeats
          /\ out' = [n \in DOMAIN out \cup {models[index].name} |->
                        IF n = models[index].name THEN [nodes |-> nodes, required |-> required]
                        ELSE out[n]]
          /\ index' = index + 1
          /\ at' = "model"
          /\ UNCHANGED <<input, deriver>>

ReturnSchemas ==
    /\ at = "model"
    /\ index > Len(models)
    /\ at' = "done"
    /\ UNCHANGED <<input, index, deriver, out>>

-----------------------------------------------------------------------------
(* deriver *)

Top == stack[Len(stack)]

Runs(do) ==
    /\ at = "derive"
    /\ stack # <<>>
    /\ Len(stack) <= MaxDepth
    /\ Top.do = do

\* The innermost call is replaced by these, the last of them innermost.
Become(frames) == stack' = SubSeq(stack, 1, Len(stack) - 1) \o frames

locals == <<input, at, index, out>>

\* A recursion without an end: the goroutine's stack overflows, which is fatal.
Overflow ==
    /\ at = "derive"
    /\ Len(stack) > MaxDepth
    /\ at' = "overflow"
    /\ UNCHANGED <<input, index, deriver, out>>

Dereference ==
    /\ Runs("of")
    /\ go[Top.type].kind = "pointer"
    /\ Become(<<NullableFrame(Top.path), OfFrame(go[Top.type].elem, Top.enum, Top.path)>>)
    /\ UNCHANGED <<locals, inline, seen, nodes, required>>

Refer ==
    /\ Runs("of")
    /\ go[Top.type].kind # "pointer"
    /\ Named(Top.type)
    /\ Put(Top.path, Written("ref", Top.type))
    /\ Become(<<>>)
    /\ UNCHANGED <<locals, inline, seen, required>>

Describes(kinds) ==
    /\ Runs("of")
    /\ ~Named(Top.type)
    /\ go[Top.type].kind \in kinds

\* Mutant: time.Time has its own kind.
GoKind(kind) == kind

SchemaKind(kind) ==
    CASE kind \in {"time", "string"}  -> "string"
      [] kind \in {"integer", "byte"} -> "integer"
      [] OTHER                        -> kind

\* enumValues
EnumRefused(kind, enum) ==
    /\ enum # "none"
    /\ kind # "string"
    /\ ~(kind = "integer" /\ enum = "integers")

WriteScalar ==
    /\ Describes({"time", "any", "string", "integer", "byte", "other"})
    /\ LET kind == SchemaKind(go[Top.type].kind)
       IN  \/ EnumRefused(kind, Top.enum) /\ Refuse
           \/ /\ ~EnumRefused(kind, Top.enum)
              /\ Put(Top.path, [Written(kind, Top.type) EXCEPT !.enum = (Top.enum # "none")])
              /\ Become(<<>>)
              /\ UNCHANGED <<locals, inline, seen, required>>

RefuseType ==
    /\ \/ Describes({"none"})
       \/ Describes({"list"}) /\ go[go[Top.type].elem].kind = "byte"
       \/ Describes({"map"}) /\ ~go[Top.type].textKeys
    /\ Refuse

EnterElements ==
    /\ Describes({"list", "array", "map"})
    /\ ~(go[Top.type].kind = "list" /\ go[go[Top.type].elem].kind = "byte")
    /\ ~(go[Top.type].kind = "map" /\ ~go[Top.type].textKeys)
    /\ LET map == go[Top.type].kind = "map"
       IN  /\ Put(Top.path, Written(IF map THEN "object" ELSE "array", Top.type))
           /\ Become(<<ElementsFrame(Top.enum),
                       OfFrame(go[Top.type].elem, "none",
                               Append(Top.path, IF map THEN Values ELSE Items))>>)
    /\ UNCHANGED <<locals, inline, seen, required>>

\* The enum tag is looked at when the elements are derived: no array or map takes one.
EndElements ==
    /\ Runs("elements")
    /\ \/ Top.enum # "none" /\ Refuse
       \/ /\ Top.enum = "none"
          /\ Become(<<>>)
          /\ UNCHANGED <<locals, inline, seen, nodes, required>>

\* Mutant: a struct under way is entered again.
NeverInside(t) == FALSE

Inside(t) == t \in inline

\* object; an enum tag of the field is not looked at.
EnterStruct ==
    /\ Describes({"struct"})
    /\ \/ Inside(Top.type) /\ Refuse
       \/ /\ ~Inside(Top.type)
          /\ inline' = inline \cup {Top.type}
          /\ Put(Top.path, Written("object", Top.type))
          /\ Become(<<CloseFrame(Top.type), FieldsFrame(Top.type, 1, Top.path)>>)
          /\ UNCHANGED <<locals, seen, required>>

\* Mutant: a struct stays marked when it has been written.
StillInside(t) == inline

Outside(t) == inline \ {t}

CloseStruct ==
    /\ Runs("close")
    /\ inline' = Outside(Top.type)
    /\ Become(<<>>)
    /\ UNCHANGED <<locals, seen, nodes, required>>

\* nullable: null is added to the types and to the enum, again if it is there.
MakeNullable ==
    /\ Runs("nullable")
    /\ LET node == nodes[Top.path]
       IN  Put(Top.path, [node EXCEPT !.null = (node.kind # "any"),
                                      !.repeats = node.repeats \/ (node.enum /\ node.null)])
    /\ Become(<<>>)
    /\ UNCHANGED <<locals, inline, seen, required>>

-----------------------------------------------------------------------------
(* fields *)

\* The struct an embedded field promotes the fields of, directly or by a pointer.
Inner(field) ==
    IF go[field.type].kind = "pointer" THEN go[field.type].elem ELSE field.type

Promotes(field) ==
    ~field.skipped /\ field.embedded /\ go[Inner(field)].kind = "struct"

Writes(field) == ~field.skipped /\ ~Promotes(field) /\ field.exported

\* Mutant: every property is required.
RequiredAlways(field, path) == {path}

RequiredBy(field, path) == {p \in {path} : ~field.optional}

CurrentField == go[Top.type].fields[Top.next]

AtField == Runs("fields") /\ Top.next <= Len(go[Top.type].fields)

GoOn == FieldsFrame(Top.type, Top.next + 1, Top.path)

EndFields ==
    /\ Runs("fields")
    /\ Top.next > Len(go[Top.type].fields)
    /\ Become(<<>>)
    /\ UNCHANGED <<locals, inline, seen, nodes, required>>

SkipField ==
    /\ AtField
    /\ ~Promotes(CurrentField) /\ ~Writes(CurrentField)
    /\ Become(<<GoOn>>)
    /\ UNCHANGED <<locals, inline, seen, nodes, required>>

PromoteFields ==
    /\ AtField
    /\ Promotes(CurrentField)
    /\ Become(<<GoOn, FieldsFrame(Inner(CurrentField), 1, Top.path)>>)
    /\ UNCHANGED <<locals, inline, seen, nodes, required>>

WriteField ==
    /\ AtField
    /\ Writes(CurrentField)
    /\ LET path == Append(Top.path, CurrentField.property)
       IN  \/ (CurrentField.unknown \/ path \in seen) /\ Refuse
           \/ /\ ~CurrentField.unknown /\ path \notin seen
              /\ seen' = seen \cup {path}
              /\ required' = required \cup RequiredBy(CurrentField, path)
              /\ Become(<<GoOn, OfFrame(CurrentField.type, CurrentField.enum, path)>>)
              /\ UNCHANGED <<locals, inline, nodes>>

ModelSchemasNext ==
    \/ ReadNames \/ BeginModel \/ StoreModel \/ ReturnSchemas \/ Overflow
    \/ Dereference \/ Refer \/ WriteScalar \/ RefuseType \/ EnterElements \/ EndElements
    \/ EnterStruct \/ CloseStruct \/ MakeNullable
    \/ EndFields \/ SkipField \/ PromoteFields \/ WriteField

ModelSchemasSpec == ModelSchemasInit /\ [][ModelSchemasNext]_vars

-----------------------------------------------------------------------------
(* What encoding/json writes, and what cannot be described, said of the    *)
(* types alone.                                                            *)

\* What is reached from a set by a relation: the least set of types with it that the
\* relation does not leave.
Reached(from, next(_)) ==
    {u \in Types : \A S \in SUBSET Types :
        from \subseteq S /\ (\A v \in S : next(v) \subseteq S) => u \in S}

FieldsOf(t) == {go[t].fields[i] : i \in DOMAIN go[t].fields}

Promoted(t) == {Inner(f) : f \in {g \in FieldsOf(t) : Promotes(g)}}

\* A struct and those that are part of it by embedding.
Parts(t) == Reached({t}, Promoted)

\* The fields of a struct, each where it is declared.
PlacesOf(t) ==
    UNION {{<<s, i>> : i \in {j \in DOMAIN go[s].fields : Writes(go[s].fields[j])}} : s \in Parts(t)}

FieldAt(place) == go[place[1]].fields[place[2]]

WrittenFields(t) == {FieldAt(place) : place \in PlacesOf(t)}

Element(t) == IF go[t].kind \in {"pointer", "list", "array", "map"} THEN {go[t].elem} ELSE {}

\* The values a value is written by, a named type's by reference.
Contains(t) ==
    CASE go[t].kind = "pointer" -> Element(t)
      [] go[t].kind # "pointer" /\ Named(t) -> {}
      [] go[t].kind = "struct" /\ ~Named(t) -> {f.type : f \in WrittenFields(t)}
      [] OTHER -> Element(t)

Root(t) == IF go[t].kind = "struct" THEN {f.type : f \in WrittenFields(t)} ELSE {t}

ValuesIn(t) == Reached(Root(t), Contains)

Inlined(t) == {u \in ValuesIn(t) : go[u].kind # "pointer" /\ ~Named(u)}

Structs(t) == {u \in Inlined(t) \cup {t} : go[u].kind = "struct"}

Pointed(t) == IF go[t].kind = "pointer" THEN {go[t].elem} ELSE {}

\* What a value of the type is when it is not nil.
Pointees(t) == {u \in Reached({t}, Pointed) : go[u].kind # "pointer"}

\* A property two fields write, or one field that is part of the struct in two ways.
Collides(t) ==
    \/ \E p, q \in PlacesOf(t) : p # q /\ FieldAt(p).property = FieldAt(q).property
    \/ \E s, u \in Parts(t) : \E i \in DOMAIN go[s].fields, j \in DOMAIN go[u].fields :
          /\ <<s, i>> # <<u, j>>
          /\ Promotes(go[s].fields[i]) /\ Promotes(go[u].fields[j])
          /\ Inner(go[s].fields[i]) = Inner(go[u].fields[j])
          /\ PlacesOf(Inner(go[s].fields[i])) # {}
    \/ \E s \in Parts(t) : s \in Reached(Promoted(s), Promoted) /\ PlacesOf(s) # {}

NoEnum(field) ==
    \E u \in Pointees(field.type) :
        /\ ~Named(u) /\ go[u].kind # "struct"
        /\ \/ EnumRefused(SchemaKind(go[u].kind), field.enum)
           \/ field.enum # "none" /\ go[field.type].kind = "pointer"
                                 /\ go[go[field.type].elem].kind = "pointer"

Mute(t) ==
    \/ go[t].kind = "none"
    \/ go[t].kind = "list" /\ go[go[t].elem].kind = "byte"
    \/ go[t].kind = "map" /\ ~go[t].textKeys

Indescribable(t) ==
    \/ \E u \in Inlined(t) :
          Mute(u) \/ (go[u].kind = "struct" /\ u \in Reached(Contains(u), Contains))
    \/ \E u \in Structs(t) :
          Collides(u) \/ \E f \in WrittenFields(u) : f.unknown \/ NoEnum(f)

EmbedsItself(t) == \E u \in Structs(t) : \E s \in Parts(u) : s \in Reached(Promoted(s), Promoted)

\* Like []T for T, or a pointer to itself.
NotStruct(t) == IF go[t].kind = "struct" THEN {} ELSE Contains(t)

Circular(t) == \E u \in ValuesIn(t) : u \in Reached(NotStruct(u), NotStruct)

Bottomless(t) == EmbedsItself(t) \/ Circular(t)

(***************************************************************************)
(* SchemasFromModels refuses models exactly if one of their types cannot  *)
(* be said: "a channel, a function, a complex number, a map with keys that*)
(* are not strings, an inline struct that contains itself", a json option *)
(* or an enum it does not follow, a property written twice.  A struct     *)
(* used twice is no reason.  Where no struct is embedded in itself, it    *)
(* overflows only on a type that contains itself without a struct in      *)
(* between, of which neither code nor docs speak.  Not said here: what    *)
(* becomes of structs embedded in themselves, and of models that are no   *)
(* structs and cannot be said (UnsayableIsRefused).                        *)
(***************************************************************************)
DerivationIsExact ==
    /\ at = "done" => \A i \in DOMAIN models :
          ~Indescribable(models[i].type) /\ ~Bottomless(models[i].type)
    /\ at = "refused" =>
          \/ BadModels
          \/ \E i, j \in DOMAIN models : i # j /\ models[i].name = models[j].name
          \/ \E i \in DOMAIN models : Indescribable(models[i].type)
    /\ at = "overflow" /\ (\A i \in DOMAIN models : ~EmbedsItself(models[i].type)) =>
          \E i \in DOMAIN models : Circular(models[i].type)

\* The steps from a node to what it contains.
Children(schema, p) == {s \in Step : Append(p, s) \in DOMAIN schema.nodes}

Fits(schema, p, t) ==
    /\ p \in DOMAIN schema.nodes
    /\ schema.nodes[p].of \in Pointees(t)
    /\ schema.nodes[p].null <=> go[t].kind = "pointer" /\ schema.nodes[p].kind # "any"

(***************************************************************************)
(* A schema has the shape of its type: an object has the properties of the*)
(* struct's fields, promoted ones included, those without omitempty or    *)
(* omitzero are required, a pointer may be null, and a $ref names a       *)
(* component that is returned with it.                                     *)
(***************************************************************************)
SchemasFitTheirTypes ==
    at = "done" => \A i \in DOMAIN models :
        LET schema == out[models[i].name]
        IN  /\ Fits(schema, <<>>, models[i].type)
            /\ \A p \in DOMAIN schema.nodes :
                  LET node == schema.nodes[p]
                  IN  CASE node.kind = "object" /\ go[node.of].kind = "struct" ->
                              /\ Children(schema, p) = {f.property : f \in WrittenFields(node.of)}
                              /\ \A f \in WrittenFields(node.of) :
                                    LET q == Append(p, f.property)
                                    IN  /\ Fits(schema, q, f.type)
                                        /\ q \in schema.required <=> ~f.optional
                        [] node.kind \in {"object", "array"} /\ go[node.of].kind # "struct" ->
                              LET s == IF node.kind = "object" THEN Values ELSE Items
                              IN  /\ Children(schema, p) = {s}
                                  /\ Fits(schema, Append(p, s), go[node.of].elem)
                        [] node.kind = "ref" ->
                              \E j \in DOMAIN models : /\ models[j].type = node.of
                                                       /\ models[j].name \in DOMAIN out
                        [] OTHER -> Children(schema, p) = {}

(***************************************************************************)
(* "inline holds the unnamed struct types being written, so one that      *)
(* contains itself is refused instead of recursing", as far as the marks  *)
(* go: no object call for a struct is within another.  Embedded structs   *)
(* are promoted without a call of object and without a mark; what becomes *)
(* of one embedded in itself is for UnsayableIsRefused.                    *)
(***************************************************************************)
StructsDoNotNest ==
    \A i, j \in DOMAIN stack :
        stack[i].do = "close" /\ stack[j].do = "close" /\ stack[i].type = stack[j].type => i = j

\* A model of a type that cannot be said, or with an unnamed struct that is embedded in itself.
Unsayable(t) ==
    \/ Mute(t) \/ Indescribable(t)
    \/ \E u \in Structs(t) : \E s \in Parts(u) : ~Named(s) /\ s \in Reached(Promoted(s), Promoted)

(***************************************************************************)
(* "A type it cannot say -- ... a map with keys that are not strings, an  *)
(* inline struct that contains itself -- ... are errors", and "root       *)
(* derives the model's own type, which is written out even when it is the *)
(* type a reference elsewhere would name": no such model is accepted, and *)
(* none ends the process.                                                  *)
(***************************************************************************)
UnsayableIsRefused ==
    at \in {"done", "overflow"} => \A i \in DOMAIN models : ~Unsayable(models[i].type)
=============================================================================
